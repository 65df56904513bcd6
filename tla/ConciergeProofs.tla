-------------------------- MODULE ConciergeProofs --------------------------
(***************************************************************************)
(* Proofs about Concierge, for any requests, personas enrolled by hand and  *)
(* number of credentials and failures.  IInv is inductive; each property    *)
(* rests on a part of it that follows requests from await to await.         *)
(***************************************************************************)
EXTENDS Concierge, TLAPS

USE ConciergeAssumption, MarkerAssumption

\* The awaits of a request that changes the wallet or the entry of a persona.
ChangingPC == {"inspect", "create", "enroll", "loadFrom", "loadTo", "delegate", "addCredential",
               "read", "write", "land", "assign"}

\* What the awaits of a request say of its local variables.
RequestOK(h) ==
    LET r == req[h] IN
    /\ pc[h] \in ChangingPC => r.op \in Changing /\ r.id \in Id
    /\ pc[h] \in {"inspect", "create", "enroll"} => r.op # "delegate"
    /\ pc[h] \in {"loadFrom", "loadTo", "delegate", "addCredential"} => r.op = "delegate" /\ r.id = Target
    /\ pc[h] \in {"loadRevoke", "revoke"} => r.id \in Id
    /\ pc[h] \in {"loadTo", "delegate"} => r.cred \in Serial
    /\ pc[h] = "addCredential" => /\ r.cred \in Serial /\ r.cred =< made
                                  /\ \A c \in ToSet(r.loaded) : c < r.cred
    /\ pc[h] = "revoke" => r.loaded # <<>> /\ r.cred = r.loaded[1]
    /\ pc[h] \in {"write", "land", "assign"} => r.merged[r.id] \in {0, r.cred}

\* A request that is alone with its persona shares it with no other.
AloneOK ==
    \A h, q \in Handler :
        h # q /\ req[h].alone /\ req[h].op \in Changing /\ req[q].op \in Changing =>
            req[h].id # req[q].id

\* Then the wallet is what the request last saw or made of it.
WalletOK(h) ==
    LET r == req[h] IN
    r.alone =>
        /\ pc[h] = "enroll" => r.loaded = wallet[r.id]
        /\ pc[h] \in {"delegate", "addCredential"} => r.loaded = wallet[Target]
        /\ pc[h] \in {"read", "write", "land"} => r.cred \in ToSet(wallet[r.id])

\* Credentials are in the order they were made, the latest of all being n.
Rising(w, n) ==
    \A k \in DOMAIN w : w[k] =< n /\ \A j \in DOMAIN w : j < k => w[j] < w[k]

WalletsOK ==
    /\ \A i \in Id : Rising(wallet[i], made)
    /\ \A h \in Handler : Rising(req[h].loaded, made)

\* What a persona held when its revocation was acknowledged is no older than
\* what was revoked, and that was not delegated.
WithdrawnOK == \A p \in withdrawn : p[2] =< p[1] /\ p[2] =< made /\ parent[p[2]] = 0

\* An update that lacks nothing keeps who is listed, or is about to be, and the
\* file is as the last one left it.
ManifestOK ==
    /\ \A h \in Handler : pc[h] \in {"write", "land"} /\ h \notin stale =>
        /\ \A i \in listed : req[h].merged[i] # Absent
        /\ \A q \in Handler : pc[q] = "assign" /\ q \notin stale =>
            req[h].merged[req[q].id] # Absent
    /\ \A q \in Handler : pc[q] = "assign" /\ q \notin stale /\ disk # Damaged =>
        req[q].merged = disk
    /\ fresh /\ disk # Damaged => mem = disk \/ \E h \in Handler : pc[h] = "assign"

\* The wallet w can present c, the active credential of a manifest entry.
Presents(w, c) == c # Absent => w # <<>> /\ c \in {0} \union ToSet(w)

\* It also keeps able to act the other personas that are.
CleanOK ==
    \A h \in Handler : pc[h] \in {"write", "land"} /\ h \notin stale =>
        \A i \in clean \ {req[h].id} : Presents(wallet[i], req[h].merged[i])

IInv ==
    /\ TypeOK
    /\ \A h \in Handler : RequestOK(h)
    /\ AloneOK
    /\ \A h \in Handler : WalletOK(h)
    /\ WalletsOK
    /\ WithdrawnOK
    /\ ManifestOK
    /\ CleanOK
    /\ ListedForever
    /\ CanAct
    /\ LateIsLater

LEMMA InitIInv == Init => IInv
<1> SUFFICES ASSUME Init
             PROVE  IInv
  OBVIOUS
<1> USE DEF Init
<1>1. NoPersonas \in Manifest /\ <<>> \in Seq(Serial)
  BY DEF NoPersonas, Manifest
<1>2. NoRequest \in Request
  BY <1>1 DEF NoRequest, Request, Op
<1>3. TypeOK
  BY <1>1, <1>2 DEF TypeOK, PC
<1>4. \A h \in Handler : pc[h] = "idle" /\ req[h].loaded = <<>> /\ req[h].op = "none"
  BY DEF NoRequest
<1>5. DOMAIN <<>> = {}
  OBVIOUS
<1>6. \A h \in Handler : RequestOK(h) /\ WalletOK(h)
  BY <1>4 DEF RequestOK, WalletOK, ChangingPC
<1>7. AloneOK /\ WalletsOK
  BY <1>4, <1>5 DEF AloneOK, Changing, WalletsOK, Rising
<1> QED
  BY <1>3, <1>4, <1>6, <1>7 DEF IInv, WithdrawnOK, ManifestOK, CleanOK, ListedForever, CanAct, LateIsLater

-----------------------------------------------------------------------------
(* How requests move.                                                       *)

\* Every other request stays where it is; at most it is no longer alone.
Others(h) ==
    \A q \in Handler \ {h} :
        LET r == req[q]
            s == req'[q] IN
        /\ pc'[q] = pc[q]
        /\ s.op = r.op /\ s.id = r.id /\ s.loaded = r.loaded /\ s.cred = r.cred
        /\ s.merged = r.merged /\ (s.alone => r.alone)

LEMMA Entered ==
    ASSUME TypeOK, NEW h \in Handler, NEW route \in Op, NEW i \in Id,
           NEW c \in {0} \union Serial, NEW label \in PC, Enter(h, route, i, c, label)
    PROVE  /\ pc' \in [Handler -> PC] /\ req' \in [Handler -> Request]
           /\ pc'[h] = label
           /\ req'[h].op = route /\ req'[h].id = i /\ req'[h].cred = c /\ req'[h].loaded = <<>>
           /\ Others(h)
           /\ AloneOK => AloneOK'
<1> DEFINE others == {q \in Handler \ {h} : req[q].id = i /\ req[q].op \in Changing}
           mine == [NoRequest EXCEPT !.op = route, !.id = i, !.cred = c, !.alone = (others = {})]
<1>1. pc' = [pc EXCEPT ![h] = label]
  BY DEF Enter, Goto
<1>2. req' = [q \in Handler |-> IF q = h THEN mine
                                ELSE [req[q] EXCEPT !.alone = @ /\ q \notin others]]
  BY DEF Enter
<1>3. mine \in Request
  <2>1. NoPersonas \in Manifest /\ <<>> \in Seq(Serial)
    BY DEF NoPersonas, Manifest
  <2> QED
    BY <2>1 DEF NoRequest, Request
<1>4. /\ mine.op = route /\ mine.id = i /\ mine.cred = c /\ mine.loaded = <<>>
      /\ mine.alone = (others = {})
  BY DEF NoRequest
<1> HIDE DEF mine
<1>5. req'[h] = mine
  BY <1>2
<1>6. ASSUME NEW q \in Handler \ {h}
      PROVE  /\ req'[q] \in Request
             /\ req'[q].op = req[q].op /\ req'[q].id = req[q].id /\ req'[q].loaded = req[q].loaded
             /\ req'[q].cred = req[q].cred /\ req'[q].merged = req[q].merged
             /\ req'[q].alone = (req[q].alone /\ q \notin others)
  <2>1. req[q] \in Request
    BY DEF TypeOK
  <2>2. req'[q] = [req[q] EXCEPT !.alone = @ /\ q \notin others]
    BY <1>2
  <2> HIDE DEF others
  <2> QED
    BY <2>1, <2>2 DEF Request
<1>7. Others(h)
  BY <1>1, <1>6 DEF Others, TypeOK
<1>8. req' \in [Handler -> Request] /\ pc' \in [Handler -> PC]
  BY <1>1, <1>2, <1>3, <1>5, <1>6 DEF TypeOK
<1>9. AloneOK => AloneOK'
  <2> SUFFICES ASSUME AloneOK, NEW p \in Handler, NEW q \in Handler,
                      p # q, req'[p].alone, req'[p].op \in Changing, req'[q].op \in Changing
               PROVE  req'[p].id # req'[q].id
    BY DEF AloneOK
  <2>1. CASE p = h
    <3>1. q \notin others /\ req[q].op \in Changing
      BY <2>1, <1>4, <1>5, <1>6
    <3>2. req[q].id # i
      BY <2>1, <3>1
    <3> QED
      BY <2>1, <1>4, <1>5, <1>6, <3>2
  <2>2. CASE p # h /\ q = h
    <3>1. p \notin others /\ req[p].op \in Changing
      BY <2>2, <1>6
    <3>2. req[p].id # i
      BY <2>2, <3>1
    <3> QED
      BY <2>2, <1>4, <1>5, <1>6, <3>2
  <2>3. CASE p # h /\ q # h
    <3>1. req[p].alone /\ req[p].op \in Changing /\ req[q].op \in Changing
      BY <2>3, <1>6
    <3>2. req[p].id # req[q].id
      BY <3>1 DEF AloneOK
    <3> QED
      BY <2>3, <1>6, <3>2
  <2> QED
    BY <2>1, <2>2, <2>3
<1> QED
  BY <1>1, <1>4, <1>5, <1>7, <1>8, <1>9 DEF TypeOK

LEMMA Finished ==
    ASSUME TypeOK, NEW h \in Handler, Finish(h)
    PROVE  /\ pc' \in [Handler -> PC] /\ req' \in [Handler -> Request]
           /\ pc'[h] = "idle" /\ req'[h].loaded = <<>> /\ req'[h].op = "none"
           /\ Others(h)
           /\ AloneOK => AloneOK'
<1>1. pc' = [pc EXCEPT ![h] = "idle"] /\ req' = [req EXCEPT ![h] = NoRequest]
  BY DEF Finish, Goto
<1>2. NoRequest \in Request /\ NoRequest.loaded = <<>> /\ NoRequest.op = "none"
  <2>1. NoPersonas \in Manifest /\ <<>> \in Seq(Serial)
    BY DEF NoPersonas, Manifest
  <2> QED
    BY <2>1 DEF NoRequest, Request, Op
<1>3. req'[h] = NoRequest /\ \A q \in Handler \ {h} : req'[q] = req[q] /\ pc'[q] = pc[q]
  BY <1>1 DEF TypeOK
<1>4. AloneOK => AloneOK'
  BY <1>2, <1>3 DEF AloneOK, Changing
<1> QED
  BY <1>1, <1>2, <1>3, <1>4 DEF TypeOK, Others, PC

\* A request goes on with other locals, on the same persona and route.
LEMMA WentOn ==
    ASSUME TypeOK, NEW h \in Handler, NEW label \in PC, NEW r \in Request,
           Goto(h, label), req' = [req EXCEPT ![h] = r],
           r.op = req[h].op, r.id = req[h].id, r.alone = req[h].alone
    PROVE  /\ pc' \in [Handler -> PC] /\ req' \in [Handler -> Request]
           /\ pc'[h] = label /\ req'[h] = r
           /\ Others(h)
           /\ AloneOK => AloneOK'
<1>1. pc' = [pc EXCEPT ![h] = label]
  BY DEF Goto
<1>2. req'[h] = r /\ \A q \in Handler \ {h} : req'[q] = req[q] /\ pc'[q] = pc[q]
  BY <1>1 DEF TypeOK
<1>3. AloneOK => AloneOK'
  BY <1>2 DEF AloneOK
<1> QED
  BY <1>1, <1>2, <1>3 DEF TypeOK, Others

-----------------------------------------------------------------------------
(* What the other requests, and the personas, keep.                         *)

\* What was made stays as it was made.
MadeStays == \A c \in Serial : c =< made => c =< made' /\ parent'[c] = parent[c]

\* The wallets of personas that are able to act lose nothing.
WalletsGrow ==
    \A i \in clean' : \/ wallet'[i] = wallet[i]
                      \/ wallet'[i] # <<>> /\ ToSet(wallet[i]) \subseteq ToSet(wallet'[i])

LEMMA RequestsStay ==
    ASSUME TypeOK, \A q \in Handler : RequestOK(q), NEW h \in Handler, Others(h),
           MadeStays, RequestOK(h)'
    PROVE  \A q \in Handler : RequestOK(q)'
<1> SUFFICES ASSUME NEW q \in Handler, q # h
             PROVE  RequestOK(q)'
  OBVIOUS
<1>1. RequestOK(q)
  OBVIOUS
<1>2. /\ pc'[q] = pc[q]
      /\ req'[q].op = req[q].op /\ req'[q].id = req[q].id /\ req'[q].loaded = req[q].loaded
      /\ req'[q].cred = req[q].cred /\ req'[q].merged = req[q].merged
  BY DEF Others
<1> QED
  BY <1>1, <1>2 DEF RequestOK, MadeStays

\* A request that is alone with its persona keeps the wallet it knows.
LEMMA KnownWalletsStay ==
    ASSUME \A q \in Handler : RequestOK(q) /\ WalletOK(q), NEW h \in Handler, Others(h),
           \A q \in Handler \ {h} :
               req[q].alone /\ req[q].op \in Changing /\ req[q].id \in Id =>
                   wallet'[req[q].id] = wallet[req[q].id],
           WalletOK(h)'
    PROVE  \A q \in Handler : WalletOK(q)'
<1> SUFFICES ASSUME NEW q \in Handler, q # h, req'[q].alone
             PROVE  WalletOK(q)'
  BY DEF WalletOK
<1>1. /\ pc'[q] = pc[q] /\ req[q].alone
      /\ req'[q].op = req[q].op /\ req'[q].id = req[q].id /\ req'[q].loaded = req[q].loaded
      /\ req'[q].cred = req[q].cred
  BY DEF Others
<1>2. RequestOK(q) /\ WalletOK(q)
  OBVIOUS
<1>3. req[q].op \in Changing /\ req[q].id \in Id => wallet'[req[q].id] = wallet[req[q].id]
  BY <1>1
<1>4. CASE pc[q] \in {"delegate", "addCredential"}
  BY <1>1, <1>2, <1>3, <1>4 DEF RequestOK, WalletOK, ChangingPC
<1>5. CASE pc[q] \in {"read", "write", "land"}
  BY <1>1, <1>2, <1>3, <1>5 DEF RequestOK, WalletOK, ChangingPC
<1>6. CASE pc[q] = "enroll"
  BY <1>1, <1>2, <1>3, <1>6 DEF RequestOK, WalletOK, ChangingPC
<1> QED
  BY <1>1, <1>4, <1>5, <1>6 DEF WalletOK

LEMMA StaysRising ==
    ASSUME MadeStays, NEW w \in Seq(Serial), Rising(w, made)
    PROVE  Rising(w, made')
BY DEF MadeStays, Rising

LEMMA WalletsStay ==
    ASSUME TypeOK, WalletsOK, NEW h \in Handler, Others(h), MadeStays,
           \A i \in Id : wallet'[i] = wallet[i] \/ Rising(wallet'[i], made'),
           Rising(req'[h].loaded, made')
    PROVE  WalletsOK'
<1>1. ASSUME NEW i \in Id
      PROVE  Rising(wallet'[i], made')
  <2>1. wallet[i] \in Seq(Serial) /\ Rising(wallet[i], made)
    BY DEF TypeOK, WalletsOK
  <2>2. Rising(wallet[i], made')
    BY <2>1, StaysRising
  <2> QED
    BY <2>2
<1>2. ASSUME NEW q \in Handler, q # h
      PROVE  Rising(req'[q].loaded, made')
  <2>1. req[q].loaded \in Seq(Serial) /\ Rising(req[q].loaded, made)
    BY DEF TypeOK, WalletsOK, Request
  <2>2. Rising(req[q].loaded, made')
    BY <2>1, StaysRising
  <2>3. req'[q].loaded = req[q].loaded
    BY <1>2 DEF Others
  <2> QED
    BY <2>2, <2>3
<1> QED
  BY <1>1, <1>2 DEF WalletsOK

LEMMA HistoryStays ==
    ASSUME TypeOK, WithdrawnOK, LateIsLater, MadeStays, UNCHANGED <<withdrawn, late>>
    PROVE  WithdrawnOK' /\ LateIsLater'
<1>1. \A p \in withdrawn : p[2] \in Serial
  BY DEF TypeOK
<1> QED
  BY <1>1 DEF WithdrawnOK, LateIsLater, MadeStays

\* The registry, when a request moves elsewhere.
LEMMA ManifestStays ==
    ASSUME ManifestOK, NEW h \in Handler, Others(h), UNCHANGED <<disk, mem, listed, fresh>>,
           \A q \in stale : q # h => q \in stale',
           pc[h] # "assign", pc'[h] \notin {"write", "land", "assign"}
    PROVE  ManifestOK'
<1>1. ASSUME NEW q \in Handler, pc'[q] \in {"write", "land", "assign"}
      PROVE  /\ q # h /\ pc[q] = pc'[q]
             /\ req'[q].id = req[q].id /\ req'[q].merged = req[q].merged
             /\ q \notin stale' => q \notin stale
  BY <1>1 DEF Others
<1>2. ASSUME NEW g \in Handler, pc'[g] \in {"write", "land"}, g \notin stale'
      PROVE  /\ \A i \in listed' : req'[g].merged[i] # Absent
             /\ \A q \in Handler : pc'[q] = "assign" /\ q \notin stale' =>
                  req'[g].merged[req'[q].id] # Absent
  BY <1>1, <1>2 DEF ManifestOK
<1>3. ASSUME NEW q \in Handler, pc'[q] = "assign", q \notin stale', disk' # Damaged
      PROVE  req'[q].merged = disk'
  BY <1>1, <1>3 DEF ManifestOK
<1>4. fresh' /\ disk' # Damaged => mem' = disk' \/ \E g \in Handler : pc'[g] = "assign"
  BY DEF ManifestOK, Others
<1> QED
  BY <1>2, <1>3, <1>4 DEF ManifestOK

LEMMA ActingStays ==
    ASSUME CleanOK, CanAct, NEW h \in Handler, Others(h), UNCHANGED disk,
           clean' \subseteq clean, WalletsGrow,
           \A q \in stale : q # h => q \in stale',
           pc'[h] \notin {"write", "land"}
    PROVE  CleanOK' /\ CanAct'
<1>1. ASSUME NEW q \in Handler, pc'[q] \in {"write", "land"}, q \notin stale',
             NEW i \in clean' \ {req'[q].id}
      PROVE  Presents(wallet'[i], req'[q].merged[i])
  <2>1. /\ q # h /\ pc[q] = pc'[q] /\ q \notin stale
        /\ req'[q].id = req[q].id /\ req'[q].merged = req[q].merged
    BY <1>1 DEF Others
  <2>2. Presents(wallet[i], req[q].merged[i])
    BY <1>1, <2>1 DEF CleanOK
  <2>3. \/ wallet'[i] = wallet[i]
        \/ wallet'[i] # <<>> /\ ToSet(wallet[i]) \subseteq ToSet(wallet'[i])
    BY <1>1 DEF WalletsGrow
  <2>4. Presents(wallet'[i], req[q].merged[i])
    BY <2>2, <2>3 DEF Presents
  <2> QED
    BY <2>1, <2>4
<1>2. CanAct => \A i \in clean : disk # Damaged => Presents(wallet[i], disk[i])
  BY DEF CanAct, Presents
<1>3. \A i \in clean' : disk' # Damaged => Presents(wallet'[i], disk'[i])
  BY <1>2 DEF WalletsGrow, Presents
<1>4. CanAct'
  BY <1>3 DEF CanAct, Presents
<1> QED
  BY <1>1, <1>4 DEF CleanOK

\* A step that leaves the registry alone: what remains to be shown of it is
\* about the request that takes it.
LEMMA CalmStep ==
    ASSUME IInv, TypeOK', NEW h \in Handler, Others(h), RequestOK(h)', WalletOK(h)',
           Rising(req'[h].loaded, made'), AloneOK',
           MadeStays, WithdrawnOK', LateIsLater',
           \A q \in Handler \ {h} :
               req[q].alone /\ req[q].op \in Changing /\ req[q].id \in Id =>
                   wallet'[req[q].id] = wallet[req[q].id],
           \A i \in Id : wallet'[i] = wallet[i] \/ Rising(wallet'[i], made'),
           clean' \subseteq clean, WalletsGrow,
           UNCHANGED <<disk, mem, listed, fresh>>,
           \A q \in stale : q # h => q \in stale',
           pc[h] # "assign", pc'[h] \notin {"write", "land", "assign"}
    PROVE  IInv'
<1>1. /\ TypeOK /\ WalletsOK /\ ManifestOK /\ CleanOK /\ CanAct /\ ListedForever
      /\ \A q \in Handler : RequestOK(q) /\ WalletOK(q)
  BY DEF IInv
<1>2. \A q \in Handler : RequestOK(q)'
  BY <1>1, RequestsStay
<1>3. \A q \in Handler : WalletOK(q)'
  BY <1>1, KnownWalletsStay
<1>4. WalletsOK'
  BY <1>1, WalletsStay
<1>5. ManifestOK'
  BY <1>1, ManifestStays
<1>6. CleanOK' /\ CanAct'
  BY <1>1, ActingStays
<1>7. ListedForever'
  BY <1>1 DEF ListedForever
<1> QED
  BY <1>2, <1>3, <1>4, <1>5, <1>6, <1>7 DEF IInv

\* A step that changes nothing but the request that takes it.
LEMMA LocalStep ==
    ASSUME IInv, UNCHANGED <<api, files, mem, verdict>>,
           served' \in 0 .. MaxRequests, faults' \in 0 .. MaxFaults,
           NEW h \in Handler, pc' \in [Handler -> PC], req' \in [Handler -> Request],
           Others(h), RequestOK(h)', WalletOK(h)', Rising(req'[h].loaded, made), AloneOK',
           pc[h] # "assign", pc'[h] \notin {"write", "land", "assign"}
    PROVE  IInv'
<1> USE DEF api, files, verdict
<1>1. TypeOK'
  BY DEF IInv, TypeOK
<1>2. MadeStays /\ WithdrawnOK' /\ LateIsLater'
  BY HistoryStays DEF MadeStays, IInv
<1>3. WalletsGrow
  BY DEF WalletsGrow
<1> QED
  BY <1>1, <1>2, <1>3, CalmStep

\* A request that comes in, or turns to another persona.
LEMMA EnterStep ==
    ASSUME IInv, UNCHANGED <<api, files, mem, verdict>>,
           served' \in 0 .. MaxRequests, faults' \in 0 .. MaxFaults,
           NEW h \in Handler, pc[h] # "assign",
           NEW route, NEW i \in Id, NEW c \in {0} \union Serial, NEW label,
           Enter(h, route, i, c, label),
           \/ route \in {"onboard", "ensureNew"} /\ label = "create"
           \/ route = "ensureOld" /\ label = "inspect"
           \/ route = "delegate" /\ i = Target /\ label = "loadFrom"
           \/ route = "revoke" /\ label = "loadRevoke"
           \/ route = "chat" /\ label = "complete"
    PROVE  IInv'
<1>1. route \in Op /\ label \in PC
  BY DEF Op, PC
<1>0. TypeOK /\ AloneOK
  BY DEF IInv
<1>2. /\ pc' \in [Handler -> PC] /\ req' \in [Handler -> Request]
      /\ pc'[h] = label
      /\ req'[h].op = route /\ req'[h].id = i /\ req'[h].cred = c /\ req'[h].loaded = <<>>
      /\ Others(h)
      /\ AloneOK'
  <2>1. pc' \in [Handler -> PC] /\ req' \in [Handler -> Request] /\ pc'[h] = label
    BY <1>0, <1>1, Entered
  <2>2. req'[h].op = route /\ req'[h].id = i /\ req'[h].cred = c /\ req'[h].loaded = <<>>
    BY <1>0, <1>1, Entered
  <2>3. Others(h)
    BY <1>0, <1>1, Entered
  <2>4. AloneOK'
    BY <1>0, <1>1, Entered
  <2> QED
    BY <2>1, <2>2, <2>3, <2>4
<1>3. RequestOK(h)' /\ WalletOK(h)'
  BY <1>2 DEF RequestOK, WalletOK, ChangingPC, Changing
<1>4. Rising(req'[h].loaded, made)
  <2>1. DOMAIN <<>> = {}
    OBVIOUS
  <2> QED
    BY <1>2, <2>1 DEF Rising
<1> QED
  BY <1>2, <1>3, <1>4, LocalStep

\* A request that ends.
LEMMA FinishStep ==
    ASSUME IInv, UNCHANGED <<api, files, mem, verdict>>,
           served' \in 0 .. MaxRequests, faults' \in 0 .. MaxFaults,
           NEW h \in Handler, pc[h] # "assign", Finish(h)
    PROVE  IInv'
<1>1. /\ pc' \in [Handler -> PC] /\ req' \in [Handler -> Request]
      /\ pc'[h] = "idle" /\ req'[h].loaded = <<>> /\ req'[h].op = "none"
      /\ Others(h)
      /\ AloneOK'
  BY Finished DEF IInv
<1>2. RequestOK(h)' /\ WalletOK(h)'
  BY <1>1 DEF RequestOK, WalletOK, ChangingPC
<1>3. Rising(req'[h].loaded, made)
  <2>1. DOMAIN <<>> = {}
    OBVIOUS
  <2> QED
    BY <1>1, <2>1 DEF Rising
<1> QED
  BY <1>1, <1>2, <1>3, LocalStep

LEMMA EnsureStep ==
    ASSUME IInv, UNCHANGED <<api, files, mem, verdict>>,
           served' \in 0 .. MaxRequests, faults' \in 0 .. MaxFaults,
           NEW h \in Handler, pc[h] # "assign", NEW i \in Id, Ensure(h, i, mem)
    PROVE  IInv'
<1>1. mem[i] \in {Absent, 0} \union Serial
  BY DEF IInv, TypeOK, Manifest
<1> QED
  BY <1>1, EnterStep DEF Ensure

LEMMA ProceedStep ==
    ASSUME IInv, UNCHANGED <<api, files, mem, verdict>>,
           served' \in 0 .. MaxRequests, faults' \in 0 .. MaxFaults,
           NEW h \in Handler, pc[h] # "assign", Proceed(h, mem)
    PROVE  IInv'
BY EnsureStep, FinishStep DEF Proceed, Id

LEMMA ArrivalStep ==
    ASSUME IInv, NEW h \in Handler,
           \/ DemoAgents(h) \/ (\E i \in Custom : Onboard(h, i)) \/ Delegate(h)
           \/ (\E i \in Id : Revoke(h, i)) \/ Chat(h)
    PROVE  IInv'
<1>0. served \in 0 .. MaxRequests /\ faults \in 0 .. MaxFaults /\ mem \in Manifest
  BY DEF IInv, TypeOK
<1>1. Arrive(h) /\ UNCHANGED <<api, files, mem, verdict, faults>>
  BY DEF DemoAgents, Onboard, Delegate, Revoke, Chat
<1>2. served' \in 0 .. MaxRequests /\ faults' \in 0 .. MaxFaults /\ pc[h] # "assign"
  BY <1>0, <1>1 DEF Arrive
<1>3. CASE DemoAgents(h)
  BY <1>1, <1>2, <1>3, EnsureStep DEF DemoAgents, Id
<1>4. ASSUME NEW i \in Custom, Onboard(h, i)
      PROVE  IInv'
  <2>1. i \in Id
    BY DEF Id
  <2> QED
    BY <1>1, <1>2, <1>4, <2>1, EnterStep DEF Onboard
<1>5. CASE Delegate(h)
  BY <1>1, <1>2, <1>5, EnterStep DEF Delegate, Id
<1>6. ASSUME NEW i \in Id, Revoke(h, i)
      PROVE  IInv'
  BY <1>1, <1>2, <1>6, EnterStep DEF Revoke
<1>7. CASE Chat(h)
  <2>1. mem[Target] \in {0} \union Serial /\ Target \in Id
    BY <1>0, <1>7 DEF Chat, Manifest, Id
  <2> QED
    BY <1>1, <1>2, <1>7, <2>1, EnterStep DEF Chat
<1> QED
  BY <1>3, <1>4, <1>5, <1>6, <1>7

\* What WentOn is needed for: one of the locals changes.
LEMMA Took ==
    ASSUME IInv, NEW h \in Handler, NEW c \in {0} \union Serial, NEW label \in PC, Take(h, c, label)
    PROVE  /\ pc' \in [Handler -> PC] /\ req' \in [Handler -> Request]
           /\ pc'[h] = label
           /\ req'[h].op = req[h].op /\ req'[h].id = req[h].id /\ req'[h].alone = req[h].alone
           /\ req'[h].loaded = req[h].loaded /\ req'[h].merged = req[h].merged
           /\ req'[h].cred = c
           /\ Others(h) /\ AloneOK'
<1> DEFINE r == [req[h] EXCEPT !.cred = c]
<1>1. TypeOK /\ AloneOK /\ req[h] \in Request
  BY DEF IInv, TypeOK
<1>2. /\ r \in Request
      /\ r.op = req[h].op /\ r.id = req[h].id /\ r.alone = req[h].alone
      /\ r.loaded = req[h].loaded /\ r.merged = req[h].merged /\ r.cred = c
  BY <1>1 DEF Request
<1>3. Goto(h, label) /\ req' = [req EXCEPT ![h] = r]
  BY DEF Take
<1> HIDE DEF r
<1>4. /\ pc' \in [Handler -> PC] /\ req' \in [Handler -> Request]
      /\ pc'[h] = label /\ req'[h] = r
  BY <1>1, <1>2, <1>3, WentOn
<1>5. Others(h)
  BY <1>1, <1>2, <1>3, WentOn
<1>6. AloneOK'
  BY <1>1, <1>2, <1>3, WentOn
<1> QED
  BY <1>2, <1>4, <1>5, <1>6

Load(h, w, label) == Goto(h, label) /\ req' = [req EXCEPT ![h].loaded = w]

LEMMA Loaded ==
    ASSUME IInv, NEW h \in Handler, NEW w \in Seq(Serial), NEW label \in PC, Load(h, w, label)
    PROVE  /\ pc' \in [Handler -> PC] /\ req' \in [Handler -> Request]
           /\ pc'[h] = label
           /\ req'[h].op = req[h].op /\ req'[h].id = req[h].id /\ req'[h].alone = req[h].alone
           /\ req'[h].cred = req[h].cred /\ req'[h].merged = req[h].merged
           /\ req'[h].loaded = w
           /\ Others(h) /\ AloneOK'
<1> DEFINE r == [req[h] EXCEPT !.loaded = w]
<1>1. TypeOK /\ AloneOK /\ req[h] \in Request
  BY DEF IInv, TypeOK
<1>2. /\ r \in Request
      /\ r.op = req[h].op /\ r.id = req[h].id /\ r.alone = req[h].alone
      /\ r.cred = req[h].cred /\ r.merged = req[h].merged /\ r.loaded = w
  BY <1>1 DEF Request
<1>3. Goto(h, label) /\ req' = [req EXCEPT ![h] = r]
  BY DEF Load
<1> HIDE DEF r
<1>4. /\ pc' \in [Handler -> PC] /\ req' \in [Handler -> Request]
      /\ pc'[h] = label /\ req'[h] = r
  BY <1>1, <1>2, <1>3 DEF TypeOK, Goto
<1>5. Others(h)
  BY <1>1, <1>2, <1>3, WentOn
<1>6. AloneOK'
  BY <1>1, <1>2, <1>3, WentOn
<1> QED
  BY <1>2, <1>4, <1>5, <1>6

LEMMA Went ==
    ASSUME IInv, NEW h \in Handler, NEW label \in PC, Goto(h, label), UNCHANGED req
    PROVE  /\ pc' \in [Handler -> PC] /\ req' \in [Handler -> Request]
           /\ pc'[h] = label /\ Others(h) /\ AloneOK'
<1>1. TypeOK /\ AloneOK /\ req[h] \in Request /\ req' = [req EXCEPT ![h] = req[h]]
  BY DEF IInv, TypeOK
<1>2. pc' \in [Handler -> PC] /\ req' \in [Handler -> Request] /\ pc'[h] = label
  BY <1>1, WentOn
<1>3. Others(h)
  BY <1>1, WentOn
<1>4. AloneOK'
  BY <1>1, WentOn
<1> QED
  BY <1>2, <1>3, <1>4

\* A matching credential is one of the wallet.
LEMMA Matched ==
    ASSUME NEW w \in Seq(Serial), NEW i, NEW c \in Matching(w, i)
    PROVE  c \in Serial /\ c \in ToSet(w)
BY DEF Matching, ToSet

LEMMA ShortRises ==
    /\ Rising(<<>>, made)
    /\ \A c \in Serial : c =< made => Rising(<<c>>, made)
<1>1. DOMAIN <<>> = {} /\ \A c : DOMAIN <<c>> = {1} /\ <<c>>[1] = c
  OBVIOUS
<1> QED
  BY <1>1 DEF Rising

-----------------------------------------------------------------------------
(* The steps of a request that change nothing else.                         *)

LEMMA InspectStep ==
    ASSUME IInv, NEW h \in Handler, Inspect(h)
    PROVE  IInv'
<1> DEFINE w == wallet[req[h].id]
           match == Matching(w, req[h].id)
<1>1. /\ UNCHANGED <<api, files, mem, verdict>> /\ served' = served /\ faults' = faults
      /\ pc[h] = "inspect"
  BY DEF Inspect, count
<1>2. /\ served' \in 0 .. MaxRequests /\ faults' \in 0 .. MaxFaults
      /\ RequestOK(h) /\ WalletsOK /\ req[h].loaded \in Seq(Serial)
      /\ wallet \in [Id -> Seq(Serial)]
  BY <1>1 DEF IInv, TypeOK, Request
<1>3. /\ req[h].op \in Changing /\ req[h].op # "delegate" /\ req[h].id \in Id
      /\ Rising(req[h].loaded, made)
  BY <1>1, <1>2 DEF RequestOK, ChangingPC, WalletsOK
<1>4. CASE match = {}
  <2>1. Goto(h, "create") /\ UNCHANGED req /\ "create" \in PC
    BY <1>4 DEF Inspect, PC
  <2>2. /\ pc' \in [Handler -> PC] /\ req' \in [Handler -> Request]
        /\ pc'[h] = "create" /\ Others(h) /\ AloneOK'
    BY <2>1, Went
  <2>3. RequestOK(h)' /\ WalletOK(h)'
    BY <1>3, <2>1, <2>2 DEF RequestOK, WalletOK, ChangingPC
  <2>4. req'[h].loaded = req[h].loaded
    BY <2>1
  <2> QED
    BY <1>1, <1>2, <1>3, <2>2, <2>3, <2>4, LocalStep
<1>5. CASE match # {} /\ req[h].cred \in match
  <2>1. Proceed(h, mem)
    BY <1>5 DEF Inspect
  <2> QED
    BY <1>1, <1>2, <2>1, ProceedStep
<1>6. CASE match # {} /\ req[h].cred \notin match
  <2>1. PICK c \in match : Take(h, c, "read")
    BY <1>6 DEF Inspect
  <2>2. c \in Serial /\ c \in ToSet(w) /\ "read" \in PC
    BY <1>2, <1>3, Matched DEF PC
  <2> HIDE DEF match
  <2>3. /\ pc' \in [Handler -> PC] /\ req' \in [Handler -> Request]
        /\ pc'[h] = "read"
        /\ req'[h].op = req[h].op /\ req'[h].id = req[h].id /\ req'[h].alone = req[h].alone
        /\ req'[h].loaded = req[h].loaded /\ req'[h].merged = req[h].merged
        /\ req'[h].cred = c
        /\ Others(h) /\ AloneOK'
    BY <2>1, <2>2, Took
  <2>4. RequestOK(h)' /\ WalletOK(h)'
    BY <1>1, <1>3, <2>2, <2>3 DEF RequestOK, WalletOK, ChangingPC, files
  <2> QED
    BY <1>1, <1>2, <1>3, <2>3, <2>4, LocalStep
<1> QED
  BY <1>4, <1>5, <1>6

LEMMA LoadFromStep ==
    ASSUME IInv, NEW h \in Handler, LoadFrom(h)
    PROVE  IInv'
<1> DEFINE sources == Matching(wallet[Source], Source)
<1>1. /\ UNCHANGED <<api, files, mem, verdict>> /\ served' = served /\ faults' = faults
      /\ pc[h] = "loadFrom"
  BY DEF LoadFrom, count
<1>2. /\ served' \in 0 .. MaxRequests /\ faults' \in 0 .. MaxFaults
      /\ RequestOK(h) /\ WalletsOK /\ req[h].loaded \in Seq(Serial)
      /\ wallet[Source] \in Seq(Serial)
  BY <1>1 DEF IInv, TypeOK, Request, Id
<1>3. /\ req[h].op = "delegate" /\ req[h].id = Target /\ req[h].op \in Changing /\ req[h].id \in Id
      /\ Rising(req[h].loaded, made)
  BY <1>1, <1>2 DEF RequestOK, ChangingPC, WalletsOK
<1>4. CASE sources = {}
  <2>1. Finish(h)
    BY <1>4 DEF LoadFrom
  <2> QED
    BY <1>1, <1>2, <2>1, FinishStep
<1>5. CASE sources # {}
  <2>1. PICK c \in sources : Take(h, c, "loadTo")
    BY <1>5 DEF LoadFrom
  <2>2. c \in Serial /\ "loadTo" \in PC
    BY <1>2, Matched DEF PC
  <2> HIDE DEF sources
  <2>3. /\ pc' \in [Handler -> PC] /\ req' \in [Handler -> Request]
        /\ pc'[h] = "loadTo"
        /\ req'[h].op = req[h].op /\ req'[h].id = req[h].id /\ req'[h].alone = req[h].alone
        /\ req'[h].loaded = req[h].loaded /\ req'[h].merged = req[h].merged
        /\ req'[h].cred = c
        /\ Others(h) /\ AloneOK'
    BY <2>1, <2>2, Took
  <2>4. RequestOK(h)' /\ WalletOK(h)'
    BY <1>3, <2>2, <2>3 DEF RequestOK, WalletOK, ChangingPC
  <2> QED
    BY <1>1, <1>2, <1>3, <2>3, <2>4, LocalStep
<1> QED
  BY <1>4, <1>5

\* The wallet the child will be added to, as long as the request is alone.
LEMMA LoadToStep ==
    ASSUME IInv, NEW h \in Handler, LoadTo(h)
    PROVE  IInv'
<1>1. /\ UNCHANGED <<api, files, mem, verdict>> /\ served' = served /\ faults' = faults
      /\ pc[h] = "loadTo" /\ Load(h, wallet[Target], "delegate")
  BY DEF LoadTo, Load, count
<1>2. /\ served' \in 0 .. MaxRequests /\ faults' \in 0 .. MaxFaults
      /\ RequestOK(h) /\ WalletsOK /\ wallet[Target] \in Seq(Serial)
      /\ Target \in Id /\ "delegate" \in PC
  BY <1>1 DEF IInv, TypeOK, Id, PC
<1>3. /\ req[h].op = "delegate" /\ req[h].id = Target /\ req[h].op \in Changing
      /\ req[h].cred \in Serial /\ Rising(wallet[Target], made)
  BY <1>1, <1>2 DEF RequestOK, ChangingPC, WalletsOK
<1>4. /\ pc' \in [Handler -> PC] /\ req' \in [Handler -> Request]
      /\ pc'[h] = "delegate"
      /\ req'[h].op = req[h].op /\ req'[h].id = req[h].id /\ req'[h].alone = req[h].alone
      /\ req'[h].cred = req[h].cred /\ req'[h].merged = req[h].merged
      /\ req'[h].loaded = wallet[Target]
      /\ Others(h) /\ AloneOK'
  BY <1>1, <1>2, Loaded
<1>5. RequestOK(h)' /\ WalletOK(h)'
  BY <1>1, <1>2, <1>3, <1>4 DEF RequestOK, WalletOK, ChangingPC, files
<1> QED
  BY <1>1, <1>2, <1>3, <1>4, <1>5, LocalStep

LEMMA LoadRevokeStep ==
    ASSUME IInv, NEW h \in Handler, LoadRevoke(h)
    PROVE  IInv'
<1> DEFINE w == wallet[req[h].id]
           r == [req[h] EXCEPT !.loaded = w, !.cred = First(w)]
<1>1. /\ UNCHANGED <<api, files, mem, verdict>> /\ served' = served /\ faults' = faults
      /\ pc[h] = "loadRevoke"
  BY DEF LoadRevoke, count
<1>2. /\ served' \in 0 .. MaxRequests /\ faults' \in 0 .. MaxFaults
      /\ RequestOK(h) /\ WalletsOK /\ req[h] \in Request /\ TypeOK /\ AloneOK
      /\ "revoke" \in PC
  BY <1>1 DEF IInv, TypeOK, PC
<1>3. req[h].id \in Id
  BY <1>1, <1>2 DEF RequestOK
<1>4. w \in Seq(Serial) /\ Rising(w, made)
  BY <1>2, <1>3 DEF TypeOK, WalletsOK
<1>5. CASE w = <<>>
  <2>1. Finish(h)
    BY <1>5 DEF LoadRevoke
  <2> QED
    BY <1>1, <1>2, <2>1, FinishStep
<1>6. CASE w # <<>>
  <2>1. Goto(h, "revoke") /\ req' = [req EXCEPT ![h] = r]
    BY <1>6 DEF LoadRevoke
  <2>2. w[1] \in Serial
    BY <1>4, <1>6
  <2>3. /\ r \in Request
        /\ r.op = req[h].op /\ r.id = req[h].id /\ r.alone = req[h].alone
        /\ r.loaded = w /\ r.cred = w[1]
    BY <1>2, <1>4, <2>2 DEF Request, First
  <2> HIDE DEF r, w
  <2>4. /\ pc' \in [Handler -> PC] /\ req' \in [Handler -> Request]
        /\ pc'[h] = "revoke" /\ req'[h] = r
    BY <1>2, <2>1, <2>3, WentOn
  <2>5. Others(h)
    BY <1>2, <2>1, <2>3, WentOn
  <2>6. AloneOK'
    BY <1>2, <2>1, <2>3, WentOn
  <2>7. RequestOK(h)' /\ WalletOK(h)'
    BY <1>3, <1>6, <2>3, <2>4 DEF RequestOK, WalletOK, ChangingPC
  <2>8. Rising(req'[h].loaded, made)
    BY <1>4, <2>3, <2>4
  <2> QED
    BY <1>1, <1>2, <2>4, <2>5, <2>6, <2>7, <2>8, LocalStep
<1> QED
  BY <1>5, <1>6

LEMMA CompleteStep ==
    ASSUME IInv, NEW h \in Handler, CompleteText(h) \/ CompleteCall(h)
    PROVE  IInv'
<1>1. /\ UNCHANGED <<api, files, mem, verdict>> /\ served' = served /\ faults' = faults
      /\ pc[h] = "complete"
  BY DEF CompleteText, CompleteCall, count
<1>2. /\ served' \in 0 .. MaxRequests /\ faults' \in 0 .. MaxFaults
      /\ WalletsOK
  BY <1>1 DEF IInv, TypeOK
<1>3. CASE CompleteText(h)
  BY <1>1, <1>2, <1>3, FinishStep DEF CompleteText
<1>4. CASE CompleteCall(h)
  <2>1. Goto(h, "loadTool") /\ UNCHANGED req /\ "loadTool" \in PC
    BY <1>4 DEF CompleteCall, PC
  <2>2. /\ pc' \in [Handler -> PC] /\ req' \in [Handler -> Request]
        /\ pc'[h] = "loadTool" /\ Others(h) /\ AloneOK'
    BY <2>1, Went
  <2>3. RequestOK(h)' /\ WalletOK(h)'
    BY <2>2 DEF RequestOK, WalletOK, ChangingPC
  <2>4. Rising(req'[h].loaded, made)
    BY <1>2, <2>1 DEF WalletsOK
  <2> QED
    BY <1>1, <1>2, <2>2, <2>3, <2>4, LocalStep
<1> QED
  BY <1>3, <1>4

LEMMA LoadToolStep ==
    ASSUME IInv, NEW h \in Handler, LoadTool(h)
    PROVE  IInv'
<1> DEFINE w == wallet[Target]
           active == req[h].cred
           c == IF active = 0 THEN w[1] ELSE active
           v == <<c>>
<1>1. /\ UNCHANGED <<api, files, mem, verdict>> /\ served' = served /\ faults' = faults
      /\ pc[h] = "loadTool"
  BY DEF LoadTool, count
<1>2. /\ served' \in 0 .. MaxRequests /\ faults' \in 0 .. MaxFaults
      /\ w \in Seq(Serial) /\ Rising(w, made) /\ "mcp" \in PC
  BY <1>1 DEF IInv, TypeOK, WalletsOK, Id, PC
<1>3. CASE w # <<>> /\ active \in {0} \union ToSet(w)
  <2>1. Load(h, v, "mcp")
    BY <1>3 DEF LoadTool, Load
  <2>2. c \in Serial /\ c =< made
    BY <1>2, <1>3 DEF ToSet, Rising
  <2> HIDE DEF c, w, active
  <2>3. v \in Seq(Serial) /\ Rising(v, made)
    BY <2>2, ShortRises
  <2> HIDE DEF v
  <2>4. /\ pc' \in [Handler -> PC] /\ req' \in [Handler -> Request]
        /\ pc'[h] = "mcp"
        /\ req'[h].loaded = v
        /\ Others(h) /\ AloneOK'
    BY <1>2, <2>1, <2>3, Loaded
  <2>5. RequestOK(h)' /\ WalletOK(h)'
    BY <2>4 DEF RequestOK, WalletOK, ChangingPC
  <2> QED
    BY <1>1, <1>2, <2>3, <2>4, <2>5, LocalStep
<1>4. CASE ~(w # <<>> /\ active \in {0} \union ToSet(w))
  <2>1. Finish(h)
    BY <1>4 DEF LoadTool
  <2> QED
    BY <1>1, <1>2, <2>1, FinishStep
<1> QED
  BY <1>3, <1>4

-----------------------------------------------------------------------------
(* The steps that change wallets and credentials.                           *)

\* A request writes the wallet of its persona: no request that is alone with
\* its persona knows that wallet.
LEMMA OneWallet ==
    ASSUME IInv, NEW h \in Handler, NEW i \in Id, req[h].op \in Changing, req[h].id = i,
           NEW w \in Seq(Serial), wallet' = [wallet EXCEPT ![i] = w], Rising(w, made')
    PROVE  /\ wallet' \in [Id -> Seq(Serial)] /\ wallet'[i] = w
           /\ \A j \in Id : j # i => wallet'[j] = wallet[j]
           /\ \A q \in Handler \ {h} :
                  req[q].alone /\ req[q].op \in Changing /\ req[q].id \in Id =>
                      wallet'[req[q].id] = wallet[req[q].id]
           /\ \A j \in Id : wallet'[j] = wallet[j] \/ Rising(wallet'[j], made')
<1>1. wallet \in [Id -> Seq(Serial)] /\ AloneOK
  BY DEF IInv, TypeOK
<1>2. wallet' \in [Id -> Seq(Serial)] /\ wallet'[i] = w
  BY <1>1
<1>3. \A j \in Id : j # i => wallet'[j] = wallet[j]
  BY <1>1
<1>4. ASSUME NEW q \in Handler \ {h}, req[q].alone, req[q].op \in Changing, req[q].id \in Id
      PROVE  wallet'[req[q].id] = wallet[req[q].id]
  <2>1. req[q].id # i
    BY <1>1, <1>4 DEF AloneOK
  <2> QED
    BY <1>3, <1>4, <2>1
<1>5. \A j \in Id : wallet'[j] = wallet[j] \/ Rising(wallet'[j], made')
  BY <1>2, <1>3
<1> QED
  BY <1>2, <1>3, <1>4, <1>5

\* A wallet that grows by one credential, made later.
LEMMA OneMore ==
    ASSUME NEW w \in Seq(Serial), NEW n \in Nat, NEW m \in Nat, n =< m, Rising(w, n),
           NEW c \in Serial, c =< m, \A x \in ToSet(w) : x < c
    PROVE  /\ Append(w, c) \in Seq(Serial) /\ Append(w, c) # <<>>
           /\ c \in ToSet(Append(w, c)) /\ ToSet(w) \subseteq ToSet(Append(w, c))
           /\ Rising(Append(w, c), m)
<1>1. /\ Append(w, c) \in Seq(Serial) /\ Append(w, c) # <<>>
      /\ DOMAIN w = 1 .. Len(w) /\ Len(w) \in Nat
      /\ DOMAIN Append(w, c) = 1 .. Len(w) + 1
      /\ Append(w, c)[Len(w) + 1] = c
      /\ \A k \in 1 .. Len(w) : Append(w, c)[k] = w[k] /\ w[k] \in Serial
  OBVIOUS
<1>2. c \in ToSet(Append(w, c))
  BY <1>1 DEF ToSet
<1>3. ToSet(w) \subseteq ToSet(Append(w, c))
  BY <1>1 DEF ToSet
<1>4. \A k \in 1 .. Len(w) : w[k] < c /\ w[k] =< n
  BY <1>1 DEF ToSet, Rising
<1>5. ASSUME NEW k \in 1 .. Len(w) + 1
      PROVE  /\ Append(w, c)[k] =< m
             /\ \A j \in 1 .. Len(w) + 1 : j < k => Append(w, c)[j] < Append(w, c)[k]
  <2>1. CASE k = Len(w) + 1
    BY <1>1, <1>4, <2>1
  <2>2. CASE k \in 1 .. Len(w)
    <3>1. Append(w, c)[k] =< m
      BY <1>1, <1>4, <2>2 DEF Serial
    <3>2. ASSUME NEW j \in 1 .. Len(w) + 1, j < k
          PROVE  Append(w, c)[j] < Append(w, c)[k]
      <4>1. j \in 1 .. Len(w)
        BY <2>2, <3>2, <1>1
      <4> QED
        BY <1>1, <2>2, <3>2, <4>1 DEF Rising
    <3> QED
      BY <3>1, <3>2
  <2> QED
    BY <1>1, <2>1, <2>2
<1>6. Rising(Append(w, c), m)
  BY <1>1, <1>5 DEF Rising
<1> QED
  BY <1>1, <1>2, <1>3, <1>6

\* The wallet the new credential will be added to, as long as the request is
\* alone.
LEMMA CreateWalletStep ==
    ASSUME IInv, NEW h \in Handler, CreateWallet(h)
    PROVE  IInv'
<1> DEFINE i == req[h].id
<1>1. /\ UNCHANGED <<api, files, mem, verdict>> /\ served' = served /\ faults' = faults
      /\ pc[h] = "create" /\ Load(h, wallet[i], "enroll")
  BY DEF CreateWallet, Load, count
<1>2. /\ served' \in 0 .. MaxRequests /\ faults' \in 0 .. MaxFaults
      /\ RequestOK(h) /\ WalletsOK /\ "enroll" \in PC
  BY <1>1 DEF IInv, TypeOK, PC
<1>3. req[h].op \in Changing /\ req[h].op # "delegate" /\ i \in Id
  BY <1>1, <1>2 DEF RequestOK, ChangingPC
<1>4. wallet[i] \in Seq(Serial) /\ Rising(wallet[i], made)
  BY <1>2, <1>3 DEF IInv, TypeOK, WalletsOK
<1>5. /\ pc' \in [Handler -> PC] /\ req' \in [Handler -> Request]
      /\ pc'[h] = "enroll"
      /\ req'[h].op = req[h].op /\ req'[h].id = i /\ req'[h].alone = req[h].alone
      /\ req'[h].cred = req[h].cred /\ req'[h].merged = req[h].merged
      /\ req'[h].loaded = wallet[i]
      /\ Others(h) /\ AloneOK'
  BY <1>1, <1>2, <1>4, Loaded
<1>6. RequestOK(h)' /\ WalletOK(h)'
  BY <1>1, <1>3, <1>5 DEF RequestOK, WalletOK, ChangingPC, files
<1> QED
  BY <1>1, <1>2, <1>4, <1>5, <1>6, LocalStep

\* The wallet as it was loaded, with the new credential: a request that is
\* alone with the persona only adds to it.
LEMMA EnrollStep ==
    ASSUME IInv, NEW h \in Handler, Enroll(h)
    PROVE  IInv'
<1> DEFINE i == req[h].id
           w == Append(req[h].loaded, made')
           r == [req[h] EXCEPT !.cred = made', !.loaded = <<>>]
<1>1. /\ pc[h] = "enroll" /\ made < MaxSerial /\ made' = made + 1
      /\ fits' = [fits EXCEPT ![made'] = IF req[h].op = "onboard" THEN None ELSE i]
      /\ wallet' = [wallet EXCEPT ![i] = w]
      /\ clean' = IF req[h].alone THEN clean ELSE clean \ {i}
      /\ req' = [req EXCEPT ![h] = r] /\ Goto(h, "read")
      /\ UNCHANGED <<parent, revoked, reached, disk, burst, mem, listed, withdrawn, late, stale, fresh, served, faults>>
  BY DEF Enroll, WithEnrolled, count
<1>2. /\ TypeOK /\ AloneOK /\ WalletsOK /\ RequestOK(h) /\ WalletOK(h) /\ WithdrawnOK /\ LateIsLater
      /\ req[h] \in Request /\ made \in Nat /\ "read" \in PC
  BY DEF IInv, TypeOK, PC
<1>3. /\ req[h].op \in Changing /\ req[h].op # "delegate" /\ i \in Id
      /\ req[h].alone => req[h].loaded = wallet[i]
  BY <1>1, <1>2 DEF RequestOK, WalletOK, ChangingPC
<1>4. made' \in Serial /\ made' \in Nat /\ made =< made'
  BY <1>1, <1>2 DEF Serial
<1>5. req[h].loaded \in Seq(Serial) /\ Rising(req[h].loaded, made)
  BY <1>2 DEF Request, WalletsOK
<1>6. \A x \in ToSet(req[h].loaded) : x < made'
  BY <1>1, <1>2, <1>5 DEF ToSet, Rising, Serial
<1>7. /\ w \in Seq(Serial) /\ w # <<>> /\ made' \in ToSet(w)
      /\ ToSet(req[h].loaded) \subseteq ToSet(w) /\ Rising(w, made')
  BY <1>2, <1>4, <1>5, <1>6, OneMore
<1>8. /\ r \in Request
      /\ r.op = req[h].op /\ r.id = i /\ r.alone = req[h].alone
      /\ r.loaded = <<>> /\ r.cred = made'
  <2>1. <<>> \in Seq(Serial)
    OBVIOUS
  <2> QED
    BY <1>2, <1>4, <2>1 DEF Request
<1> HIDE DEF w, r
<1>9. pc' \in [Handler -> PC] /\ req' \in [Handler -> Request] /\ pc'[h] = "read" /\ req'[h] = r
  BY <1>1, <1>2, <1>8, WentOn
<1>10. Others(h)
  BY <1>1, <1>2, <1>8, WentOn
<1>11. AloneOK'
  BY <1>1, <1>2, <1>8, WentOn
<1>12. /\ wallet' \in [Id -> Seq(Serial)] /\ wallet'[i] = w
       /\ \A j \in Id : j # i => wallet'[j] = wallet[j]
       /\ \A q \in Handler \ {h} :
              req[q].alone /\ req[q].op \in Changing /\ req[q].id \in Id =>
                  wallet'[req[q].id] = wallet[req[q].id]
       /\ \A j \in Id : wallet'[j] = wallet[j] \/ Rising(wallet'[j], made')
  BY <1>1, <1>3, <1>7, OneWallet
<1>13. TypeOK'
  <2>1. fits' \in [Serial -> Id \union {None}]
    BY <1>1, <1>2, <1>3 DEF TypeOK
  <2>2. made' \in 0 .. MaxSerial
    BY <1>4 DEF Serial
  <2> QED
    BY <1>1, <1>2, <1>9, <1>12, <2>1, <2>2 DEF TypeOK
<1>14. RequestOK(h)' /\ WalletOK(h)'
  BY <1>3, <1>7, <1>8, <1>9, <1>12 DEF RequestOK, WalletOK, ChangingPC
<1>15. Rising(req'[h].loaded, made')
  <2>1. DOMAIN <<>> = {}
    OBVIOUS
  <2> QED
    BY <1>8, <1>9, <2>1 DEF Rising
<1>16. MadeStays
  BY <1>1, <1>2, <1>4 DEF MadeStays, Serial
<1>17. WithdrawnOK' /\ LateIsLater'
  BY <1>1, <1>2, <1>16, HistoryStays
<1>18. WalletsGrow /\ clean' \subseteq clean
  BY <1>1, <1>2, <1>3, <1>7, <1>12 DEF WalletsGrow, TypeOK
<1> QED
  BY <1>1, <1>10, <1>11, <1>9, <1>12, <1>13, <1>14, <1>15, <1>16, <1>17, <1>18, CalmStep

\* The child is made after all that the wallet it is for held when it was loaded.
LEMMA MakeChildStep ==
    ASSUME IInv, NEW h \in Handler, MakeChild(h)
    PROVE  IInv'
<1>1. /\ pc[h] = "delegate" /\ made < MaxSerial /\ made' = made + 1 /\ Take(h, made', "addCredential")
      /\ parent' = [parent EXCEPT ![made'] = req[h].cred]
      /\ UNCHANGED <<fits, revoked, reached, wallet, disk, burst, mem, clean, listed, withdrawn, late, stale, fresh, served, faults>>
  BY DEF MakeChild, files, verdict, count
<1>2. made \in Nat /\ TypeOK /\ WalletsOK /\ RequestOK(h) /\ WalletOK(h) /\ WithdrawnOK /\ LateIsLater
      /\ "addCredential" \in PC
  BY DEF IInv, TypeOK, PC
<1>3. req[h].op = "delegate" /\ req[h].op \in Changing /\ req[h].id = Target /\ req[h].id \in Id
      /\ req[h].cred \in Serial
  BY <1>1, <1>2 DEF RequestOK, ChangingPC
<1>4. PICK c \in Serial : c = made'
  BY <1>1, <1>2 DEF TypeOK, Serial
<1>5. /\ pc' \in [Handler -> PC] /\ req' \in [Handler -> Request]
      /\ pc'[h] = "addCredential"
      /\ req'[h].op = req[h].op /\ req'[h].id = req[h].id /\ req'[h].alone = req[h].alone
      /\ req'[h].loaded = req[h].loaded /\ req'[h].merged = req[h].merged
      /\ req'[h].cred = c
      /\ Others(h) /\ AloneOK'
  <2>1. Take(h, c, "addCredential")
    BY <1>1, <1>4
  <2> QED
    BY <1>2, <2>1, Took
<1>6. parent' \in [Serial -> {0} \union Serial] /\ MadeStays
  <2>1. parent \in [Serial -> {0} \union Serial]
    BY <1>2 DEF TypeOK
  <2>2. parent' = [parent EXCEPT ![c] = req[h].cred]
    BY <1>1, <1>4
  <2>3. \A d \in Serial : d =< made => d # c /\ d =< made'
    BY <1>1, <1>2, <1>4 DEF Serial
  <2> QED
    BY <1>3, <2>1, <2>2, <2>3 DEF MadeStays
<1>7. TypeOK'
  <2>1. made' \in 0 .. MaxSerial
    BY <1>4 DEF Serial
  <2> QED
    BY <1>1, <1>2, <1>5, <1>6, <2>1 DEF TypeOK
<1>8. req[h].loaded \in Seq(Serial) /\ Rising(req[h].loaded, made)
  BY <1>2 DEF TypeOK, Request, WalletsOK
<1>9. \A x \in ToSet(req[h].loaded) : x < c
  BY <1>1, <1>2, <1>4, <1>8 DEF ToSet, Rising, Serial
<1>10. RequestOK(h)' /\ WalletOK(h)'
  <2>1. c =< made'
    BY <1>4 DEF Serial
  <2> QED
    BY <1>1, <1>2, <1>3, <1>5, <1>9, <2>1 DEF RequestOK, WalletOK, ChangingPC
<1>11. Rising(req'[h].loaded, made')
  <2>1. Rising(req[h].loaded, made')
    BY <1>6, <1>8, StaysRising
  <2> QED
    BY <1>5, <2>1
<1>12. WithdrawnOK' /\ LateIsLater'
  BY <1>1, <1>2, <1>6, HistoryStays
<1>13. WalletsGrow /\ clean' \subseteq clean
  BY <1>1 DEF WalletsGrow
<1> QED
  BY <1>1, <1>5, <1>6, <1>7, <1>10, <1>11, <1>12, <1>13, CalmStep

\* The wallet as it was loaded, with the child: a request that is alone with
\* the persona only adds to it.
LEMMA AddCredentialStep ==
    ASSUME IInv, NEW h \in Handler, AddCredential(h)
    PROVE  IInv'
<1> DEFINE w == Append(req[h].loaded, req[h].cred)
<1>1. /\ pc[h] = "addCredential" /\ Load(h, <<>>, "read")
      /\ wallet' = [wallet EXCEPT ![Target] = w]
      /\ clean' = IF req[h].alone THEN clean ELSE clean \ {Target}
      /\ UNCHANGED <<made, parent, fits, revoked, reached, disk, burst, mem, listed, withdrawn, late, stale, fresh, served, faults>>
  BY DEF AddCredential, WithChild, Load, api, count
<1>2. made \in Nat /\ TypeOK /\ WalletsOK /\ RequestOK(h) /\ WalletOK(h) /\ WithdrawnOK /\ LateIsLater
      /\ "read" \in PC
  BY DEF IInv, TypeOK, PC
<1>3. /\ req[h].op = "delegate" /\ req[h].op \in Changing /\ req[h].id = Target /\ Target \in Id
      /\ req[h].cred \in Serial /\ req[h].cred =< made
      /\ \A c \in ToSet(req[h].loaded) : c < req[h].cred
      /\ req[h].alone => req[h].loaded = wallet[Target]
  BY <1>1, <1>2 DEF RequestOK, WalletOK, ChangingPC
<1>4. req[h].loaded \in Seq(Serial) /\ Rising(req[h].loaded, made)
  BY <1>2 DEF TypeOK, Request, WalletsOK
<1>5. /\ w \in Seq(Serial) /\ w # <<>> /\ req[h].cred \in ToSet(w)
      /\ ToSet(req[h].loaded) \subseteq ToSet(w) /\ Rising(w, made)
  BY <1>2, <1>3, <1>4, OneMore
<1> HIDE DEF w
<1>6. /\ pc' \in [Handler -> PC] /\ req' \in [Handler -> Request]
      /\ pc'[h] = "read"
      /\ req'[h].op = req[h].op /\ req'[h].id = req[h].id /\ req'[h].alone = req[h].alone
      /\ req'[h].cred = req[h].cred /\ req'[h].merged = req[h].merged
      /\ req'[h].loaded = <<>>
      /\ Others(h) /\ AloneOK'
  <2>1. <<>> \in Seq(Serial)
    OBVIOUS
  <2>2. PICK v \in Seq(Serial) : v = <<>>
    BY <2>1, Zenon
  <2>3. Load(h, v, "read")
    BY <1>1, <2>2
  <2> QED
    BY <1>2, <2>2, <2>3, Loaded
<1>7. /\ wallet' \in [Id -> Seq(Serial)] /\ wallet'[Target] = w
      /\ \A j \in Id : j # Target => wallet'[j] = wallet[j]
      /\ \A q \in Handler \ {h} :
             req[q].alone /\ req[q].op \in Changing /\ req[q].id \in Id =>
                 wallet'[req[q].id] = wallet[req[q].id]
      /\ \A j \in Id : wallet'[j] = wallet[j] \/ Rising(wallet'[j], made')
  BY <1>1, <1>3, <1>5, OneWallet
<1>8. TypeOK'
  BY <1>1, <1>2, <1>6, <1>7 DEF TypeOK
<1>9. RequestOK(h)' /\ WalletOK(h)'
  BY <1>3, <1>5, <1>6, <1>7 DEF RequestOK, WalletOK, ChangingPC
<1>10. Rising(req'[h].loaded, made')
  BY <1>1, <1>6, ShortRises
<1>11. MadeStays /\ WithdrawnOK' /\ LateIsLater'
  BY <1>1, <1>2, HistoryStays DEF MadeStays
<1>12. WalletsGrow /\ clean' \subseteq clean
  BY <1>1, <1>2, <1>3, <1>5, <1>7 DEF WalletsGrow, TypeOK
<1> QED
  BY <1>1, <1>6, <1>7, <1>8, <1>9, <1>10, <1>11, <1>12, CalmStep

\* Of the wallet that was loaded, the first credential is revoked, and the
\* others were made later.
LEMMA RevokeVCStep ==
    ASSUME IInv, NEW h \in Handler, RevokeVC(h)
    PROVE  IInv'
<1> DEFINE w == req[h].loaded
           c == req[h].cred
<1>1. /\ pc[h] = "revoke" /\ Finish(h) /\ parent[c] = 0
      /\ revoked' = revoked \union {c} /\ withdrawn' = withdrawn \union (ToSet(w) \X {c})
      /\ UNCHANGED <<made, parent, fits, reached, wallet, disk, burst, mem, clean, listed, late, stale, fresh, served, faults>>
  BY DEF RevokeVC, files, count
<1>2. TypeOK /\ WalletsOK /\ RequestOK(h) /\ WithdrawnOK /\ LateIsLater
  BY DEF IInv
<1>3. w \in Seq(Serial) /\ w # <<>> /\ c = w[1] /\ Rising(w, made)
  BY <1>1, <1>2 DEF TypeOK, Request, RequestOK, WalletsOK
<1>4. ToSet(w) \subseteq Serial /\ c \in Serial /\ 1 \in DOMAIN w
  BY <1>3 DEF ToSet
<1>5. c =< made /\ \A d \in ToSet(w) : c =< d
  <2>1. ASSUME NEW k \in DOMAIN w
        PROVE  w[1] =< w[k]
    <3>1. w[k] \in Serial /\ w[1] \in Serial /\ (k = 1 \/ 1 < k)
      BY <1>3
    <3> QED
      BY <1>3, <1>4, <3>1 DEF Rising, Serial
  <2> QED
    BY <1>3, <1>4, <2>1 DEF ToSet, Rising
<1> HIDE DEF w, c
<1>6. /\ pc' \in [Handler -> PC] /\ req' \in [Handler -> Request]
      /\ pc'[h] = "idle" /\ req'[h].loaded = <<>> /\ req'[h].op = "none"
      /\ Others(h) /\ AloneOK'
  BY <1>1, <1>2, Finished DEF IInv
<1>7. TypeOK'
  BY <1>1, <1>2, <1>4, <1>6 DEF TypeOK
<1>8. RequestOK(h)' /\ WalletOK(h)'
  BY <1>6 DEF RequestOK, WalletOK, ChangingPC
<1>9. Rising(req'[h].loaded, made')
  BY <1>1, <1>6, ShortRises
<1>10. MadeStays /\ WithdrawnOK' /\ LateIsLater'
  <2>1. MadeStays /\ LateIsLater'
    BY <1>1, <1>2 DEF MadeStays, LateIsLater
  <2>2. ASSUME NEW p \in withdrawn'
        PROVE  p[2] =< p[1] /\ p[2] =< made /\ parent[p[2]] = 0
    <3>1. CASE p \in withdrawn
      BY <1>2, <3>1 DEF WithdrawnOK
    <3>2. CASE p \in ToSet(w) \X {c}
      BY <1>1, <1>5, <3>2
    <3> QED
      BY <1>1, <2>2, <3>1, <3>2
  <2> QED
    BY <1>1, <2>1, <2>2 DEF WithdrawnOK
<1>11. WalletsGrow /\ clean' \subseteq clean
  BY <1>1 DEF WalletsGrow
<1> QED
  BY <1>1, <1>6, <1>7, <1>8, <1>9, <1>10, <1>11, CalmStep

\* A tool that runs with a credential that was withdrawn does not run with the
\* one that was revoked.
LEMMA McpToolStep ==
    ASSUME IInv, NEW h \in Handler, McpTool(h)
    PROVE  IInv'
<1> DEFINE c == req[h].loaded[1]
<1>1. /\ pc[h] = "mcp" /\ Load(h, <<>>, "complete")
      /\ late' = late \/ (Verifies(c) /\ late' = late \union (withdrawn \intersect ({c} \X reached)))
      /\ UNCHANGED <<made, parent, fits, revoked, reached, wallet, disk, burst, mem, clean, listed, withdrawn, stale, fresh, served, faults>>
  BY DEF McpTool, Load, api, files, count
<1>2. TypeOK /\ WalletsOK /\ WithdrawnOK /\ LateIsLater /\ "complete" \in PC
  BY DEF IInv, PC
<1> HIDE DEF c
<1>3. LateIsLater' /\ late' \subseteq withdrawn'
  <2>1. ASSUME Verifies(c), NEW p \in withdrawn \intersect ({c} \X reached)
        PROVE  p[2] < p[1]
    <3>1. p[1] = c /\ p[2] \in reached /\ p[1] \in Serial /\ p[2] \in Serial
      BY <1>2, <2>1 DEF TypeOK
    <3>2. p[2] =< p[1] /\ parent[p[2]] = 0
      BY <1>2, <2>1 DEF WithdrawnOK
    <3>3. p[2] # p[1]
      BY <2>1, <3>1, <3>2 DEF Verifies
    <3> QED
      BY <3>1, <3>2, <3>3 DEF Serial
  <2> QED
    BY <1>1, <1>2, <2>1 DEF LateIsLater, TypeOK
<1>4. /\ pc' \in [Handler -> PC] /\ req' \in [Handler -> Request]
      /\ pc'[h] = "complete" /\ req'[h].loaded = <<>>
      /\ Others(h) /\ AloneOK'
  <2>1. <<>> \in Seq(Serial)
    OBVIOUS
  <2>2. PICK v \in Seq(Serial) : v = <<>>
    BY <2>1, Zenon
  <2>3. Load(h, v, "complete")
    BY <1>1, <2>2
  <2>4. pc' \in [Handler -> PC] /\ req' \in [Handler -> Request] /\ pc'[h] = "complete" /\ req'[h].loaded = v
    BY <1>2, <2>3, Loaded
  <2>5. Others(h)
    BY <1>2, <2>3, Loaded
  <2>6. AloneOK'
    BY <1>2, <2>3, Loaded
  <2> QED
    BY <2>2, <2>4, <2>5, <2>6
<1>5. TypeOK'
  BY <1>1, <1>2, <1>3, <1>4 DEF TypeOK
<1>6. RequestOK(h)' /\ WalletOK(h)'
  BY <1>4 DEF RequestOK, WalletOK, ChangingPC
<1>7. Rising(req'[h].loaded, made')
  BY <1>1, <1>4, ShortRises
<1>8. MadeStays /\ WithdrawnOK'
  BY <1>1, <1>2 DEF MadeStays, WithdrawnOK
<1>9. WalletsGrow /\ clean' \subseteq clean
  BY <1>1 DEF WalletsGrow
<1> QED
  BY <1>1, <1>3, <1>4, <1>5, <1>6, <1>7, <1>8, <1>9, CalmStep

\* A request that fails leaves the file it was writing damaged.
LEMMA AbortStep ==
    ASSUME IInv, NEW h \in Handler, Abort(h)
    PROVE  IInv'
<1>1. /\ pc[h] # "assign" /\ Finish(h)
      /\ faults < MaxFaults \/ Refused(h)
      /\ faults' = IF Refused(h) THEN faults ELSE faults + 1
      /\ burst' \in {{}, burst} /\ stale' = stale \ {h}
      /\ UNCHANGED <<made, parent, fits, revoked, reached, wallet, disk, mem, clean, listed, withdrawn, late, fresh, served>>
  BY DEF Abort, api
<1>2. TypeOK /\ WithdrawnOK /\ LateIsLater
  BY DEF IInv
<1>3. /\ pc' \in [Handler -> PC] /\ req' \in [Handler -> Request]
      /\ pc'[h] = "idle" /\ req'[h].loaded = <<>> /\ req'[h].op = "none"
      /\ Others(h) /\ AloneOK'
  BY <1>1, <1>2, Finished DEF IInv
<1>4. TypeOK'
  <2>1. faults' \in 0 .. MaxFaults
    BY <1>1, <1>2 DEF TypeOK
  <2>2. burst' \subseteq Manifest /\ stale' \subseteq Handler
    BY <1>1, <1>2 DEF TypeOK
  <2> QED
    BY <1>1, <1>2, <1>3, <2>1, <2>2 DEF TypeOK
<1>5. RequestOK(h)' /\ WalletOK(h)'
  BY <1>3 DEF RequestOK, WalletOK, ChangingPC
<1>6. Rising(req'[h].loaded, made')
  BY <1>1, <1>3, ShortRises
<1>7. MadeStays /\ WithdrawnOK' /\ LateIsLater'
  BY <1>1, <1>2, HistoryStays DEF MadeStays
<1>8. WalletsGrow /\ clean' \subseteq clean
  BY <1>1 DEF WalletsGrow
<1> QED
  BY <1>1, <1>3, <1>4, <1>5, <1>6, <1>7, <1>8, CalmStep

\* Whoever verifies reads the lists as they are.
LEMMA ListsExpireStep ==
    ASSUME IInv, ListsExpire
    PROVE  IInv'
<1>1. /\ reached' = revoked
      /\ UNCHANGED <<made, parent, fits, revoked, wallet, disk, burst, mem, pc, req,
                     clean, listed, withdrawn, late, stale, fresh, served, faults>>
  BY DEF ListsExpire, files, local, verdict, count
<1>2. TypeOK'
  BY <1>1 DEF IInv, TypeOK
<1> QED
  BY <1>1, <1>2 DEF IInv, RequestOK, AloneOK, WalletOK, WalletsOK, Rising, WithdrawnOK,
                    ManifestOK, CleanOK, ListedForever, CanAct, LateIsLater

\* What a start finds in the file is what the agent knows; no request is under
\* way.
LEMMA RestartStep ==
    ASSUME IInv, Restart
    PROVE  IInv'
<1>1. /\ faults < MaxFaults /\ faults' = faults + 1 /\ mem' = Read(disk)
      /\ pc' = [h \in Handler |-> "idle"] /\ req' = [h \in Handler |-> NoRequest]
      /\ burst' = {} /\ fresh' = (disk # Damaged) /\ stale' = {}
      /\ UNCHANGED <<made, parent, fits, revoked, reached, wallet, disk, clean, listed, withdrawn, late, served>>
  BY DEF Restart, api
<1>2. TypeOK /\ WalletsOK /\ WithdrawnOK /\ LateIsLater /\ ListedForever /\ CanAct
  BY DEF IInv
<1>3. NoRequest \in Request /\ NoRequest.loaded = <<>> /\ NoRequest.op = "none" /\ NoPersonas \in Manifest
  <2>1. NoPersonas \in Manifest /\ <<>> \in Seq(Serial)
    BY DEF NoPersonas, Manifest
  <2> QED
    BY <2>1 DEF NoRequest, Request, Op
<1>4. TypeOK'
  <2>1. mem' \in Manifest
    BY <1>1, <1>2, <1>3 DEF Read, TypeOK
  <2>2. faults' \in 0 .. MaxFaults /\ pc' \in [Handler -> PC] /\ req' \in [Handler -> Request]
    BY <1>1, <1>2, <1>3 DEF TypeOK, PC
  <2> QED
    BY <1>1, <1>2, <2>1, <2>2 DEF TypeOK
<1>5. \A h \in Handler : pc'[h] = "idle" /\ req'[h].loaded = <<>> /\ req'[h].op = "none"
  BY <1>1, <1>3
<1>6. \A h \in Handler : RequestOK(h)' /\ WalletOK(h)'
  BY <1>5 DEF RequestOK, WalletOK, ChangingPC
<1>7. AloneOK'
  BY <1>5 DEF AloneOK, Changing
<1>8. WalletsOK'
  BY <1>1, <1>2, <1>5, ShortRises DEF WalletsOK
<1>9. WithdrawnOK' /\ LateIsLater' /\ ListedForever' /\ CanAct'
  BY <1>1, <1>2 DEF WithdrawnOK, LateIsLater, ListedForever, CanAct
<1>10. ManifestOK' /\ CleanOK'
  BY <1>1, <1>5 DEF ManifestOK, CleanOK, Read
<1> QED
  BY <1>4, <1>6, <1>7, <1>8, <1>9, <1>10 DEF IInv

-----------------------------------------------------------------------------
(* The updates of the registry.                                             *)

\* The entry an update writes is not absent.
LEMMA MergedEntry ==
    ASSUME IInv, NEW q \in Handler, pc[q] \in {"write", "land", "assign"}
    PROVE  /\ req[q].id \in Id /\ req[q].op \in Changing
           /\ req[q].merged \in Manifest /\ req[q].merged[req[q].id] # Absent
           /\ req[q].merged[req[q].id] \in {0, req[q].cred}
<1>1. RequestOK(q) /\ req[q] \in Request
  BY DEF IInv, TypeOK
<1>2. req[q].cred \in {0} \union Serial /\ req[q].merged \in Manifest
  BY <1>1 DEF Request
<1> QED
  BY <1>1, <1>2 DEF RequestOK, ChangingPC

\* A step of an update that leaves wallets, credentials and histories of
\* revocation alone: what remains to be shown is about the registry.
LEMMA UpdateStep ==
    ASSUME IInv, TypeOK', NEW h \in Handler, Others(h), RequestOK(h)', WalletOK(h)',
           Rising(req'[h].loaded, made), AloneOK',
           UNCHANGED <<made, wallet, parent, withdrawn, late>>,
           ManifestOK', CleanOK', ListedForever', CanAct'
    PROVE  IInv'
<1>1. /\ TypeOK /\ WalletsOK /\ WithdrawnOK /\ LateIsLater
      /\ \A q \in Handler : RequestOK(q) /\ WalletOK(q)
  BY DEF IInv
<1>2. MadeStays /\ WithdrawnOK' /\ LateIsLater'
  BY <1>1, HistoryStays DEF MadeStays
<1>3. \A q \in Handler : RequestOK(q)'
  BY <1>1, <1>2, RequestsStay
<1>4. \A q \in Handler : WalletOK(q)'
  BY <1>1, KnownWalletsStay
<1>5. WalletsOK'
  BY <1>1, <1>2, WalletsStay
<1> QED
  BY <1>2, <1>3, <1>4, <1>5 DEF IInv

\* An update that reads the file whole keeps who is in it, and able to act.
LEMMA ReadManifestStep ==
    ASSUME IInv, NEW h \in Handler, ReadManifest(h)
    PROVE  IInv'
<1> DEFINE m == ReadFile(h)
           i == req[h].id
           r == [req[h] EXCEPT !.merged = Merge(h, m)]
<1>1. /\ pc[h] = "read"
      /\ stale' = IF disk = Damaged /\ pc'[h] = "write" THEN stale \union {h} ELSE stale
      /\ UNCHANGED <<api, files, mem, clean, listed, withdrawn, late, fresh, count>>
  BY DEF ReadManifest
<1>2. /\ TypeOK /\ AloneOK /\ WalletsOK /\ ManifestOK /\ CleanOK /\ ListedForever /\ CanAct
      /\ RequestOK(h) /\ WalletOK(h) /\ req[h] \in Request /\ "write" \in PC
  BY DEF IInv, TypeOK, PC
<1>3. req[h].op \in Changing /\ i \in Id /\ req[h].cred \in {0} \union Serial
  BY <1>1, <1>2 DEF RequestOK, ChangingPC, Request
<1>4. CASE ~Known(h, m)
  <2>1. Finish(h)
    BY <1>4 DEF ReadManifest
  <2>2. pc'[h] = "idle"
    BY <1>2, <2>1, Finished
  <2>3. UNCHANGED verdict /\ served' \in 0 .. MaxRequests /\ faults' \in 0 .. MaxFaults
    BY <1>1, <1>2, <2>2 DEF verdict, count, TypeOK
  <2> QED
    BY <1>1, <2>1, <2>3, FinishStep
<1>5. CASE Known(h, m)
  <2>1. req' = [req EXCEPT ![h] = r] /\ Goto(h, "write")
    BY <1>5 DEF ReadManifest
  <2>2. m \in Manifest /\ (disk # Damaged => m = disk)
    <3>1. NoPersonas \in Manifest
      BY DEF NoPersonas, Manifest
    <3> QED
      BY <1>2, <3>1 DEF ReadFile, Read, TypeOK
  <2> HIDE DEF m
  <2>3. /\ Merge(h, m) \in Manifest /\ Merge(h, m)[i] \in {0, req[h].cred}
        /\ \A j \in Id : j # i => Merge(h, m)[j] = m[j]
    BY <1>3, <2>2 DEF Merge, Manifest
  <2>4. /\ r \in Request
        /\ r.op = req[h].op /\ r.id = i /\ r.alone = req[h].alone
        /\ r.loaded = req[h].loaded /\ r.cred = req[h].cred /\ r.merged = Merge(h, m)
    BY <1>2, <2>3 DEF Request
  <2> HIDE DEF r
  <2>5. pc' \in [Handler -> PC] /\ req' \in [Handler -> Request] /\ pc'[h] = "write" /\ req'[h] = r
    BY <1>2, <2>1, <2>4, WentOn
  <2>6. Others(h)
    BY <1>2, <2>1, <2>4, WentOn
  <2>7. AloneOK'
    BY <1>2, <2>1, <2>4, WentOn
  <2>8. TypeOK'
    BY <1>1, <1>2, <2>5 DEF TypeOK, api, files, count
  <2>9. RequestOK(h)' /\ WalletOK(h)'
    BY <1>1, <1>2, <1>3, <2>3, <2>4, <2>5 DEF RequestOK, WalletOK, ChangingPC, files
  <2>10. Rising(req'[h].loaded, made)
    BY <1>2, <2>4, <2>5 DEF WalletsOK
  <2>11. \A q \in Handler : q # h => /\ pc'[q] = pc[q] /\ req'[q].id = req[q].id
                                     /\ req'[q].merged = req[q].merged
    BY <2>6 DEF Others
  <2>12. h \notin stale' => disk # Damaged /\ m = disk
    BY <1>1, <2>2, <2>5
  <2>13. stale \subseteq stale' /\ disk' = disk /\ mem' = mem /\ wallet' = wallet
    BY <1>1 DEF files
  <2>14. ManifestOK'
    <3>1. ASSUME h \notin stale'
          PROVE  \A j \in listed : Merge(h, m)[j] # Absent
      BY <1>2, <1>3, <2>3, <2>12, <3>1 DEF ListedForever, TypeOK
    <3>2. ASSUME h \notin stale', NEW q \in Handler, pc'[q] = "assign", q \notin stale'
          PROVE  Merge(h, m)[req'[q].id] # Absent
      <4>1. q # h /\ pc[q] = "assign" /\ q \notin stale /\ req'[q].id = req[q].id
        BY <2>5, <2>11, <2>13, <3>2
      <4>2. m = req[q].merged
        BY <1>2, <2>12, <3>2, <4>1 DEF ManifestOK
      <4> QED
        BY <1>3, <2>3, <4>1, <4>2, MergedEntry
    <3>3. ASSUME NEW g \in Handler, pc'[g] \in {"write", "land"}, g \notin stale'
          PROVE  /\ \A j \in listed' : req'[g].merged[j] # Absent
                 /\ \A q \in Handler : pc'[q] = "assign" /\ q \notin stale' =>
                      req'[g].merged[req'[q].id] # Absent
      <4>1. CASE g = h
        BY <1>1, <2>4, <2>5, <3>1, <3>2, <3>3, <4>1
      <4>2. CASE g # h
        <5>1. pc[g] \in {"write", "land"} /\ g \notin stale /\ req'[g].merged = req[g].merged
          BY <2>11, <2>13, <3>3, <4>2
        <5>2. \A q \in Handler : pc'[q] = "assign" /\ q \notin stale' =>
                pc[q] = "assign" /\ q \notin stale /\ req'[q].id = req[q].id
          BY <2>5, <2>11, <2>13
        <5> QED
          BY <1>1, <1>2, <5>1, <5>2 DEF ManifestOK
      <4> QED
        BY <4>1, <4>2
    <3>4. ASSUME NEW q \in Handler, pc'[q] = "assign", q \notin stale', disk' # Damaged
          PROVE  req'[q].merged = disk'
      BY <1>2, <2>5, <2>11, <2>13, <3>4 DEF ManifestOK
    <3>5. fresh' /\ disk' # Damaged => mem' = disk' \/ \E g \in Handler : pc'[g] = "assign"
      BY <1>1, <1>2, <2>11, <2>13 DEF ManifestOK
    <3> QED
      BY <3>3, <3>4, <3>5 DEF ManifestOK
  <2>15. CleanOK'
    <3>1. ASSUME h \notin stale', NEW j \in clean, j # i
          PROVE  Presents(wallet[j], Merge(h, m)[j])
      <4>1. j \in Id /\ Merge(h, m)[j] = disk[j] /\ disk # Damaged
        BY <1>2, <2>3, <2>12, <3>1 DEF TypeOK
      <4> QED
        BY <1>2, <3>1, <4>1 DEF CanAct, Presents
    <3>2. ASSUME NEW g \in Handler, pc'[g] \in {"write", "land"}, g \notin stale',
                 NEW j \in clean' \ {req'[g].id}
          PROVE  Presents(wallet'[j], req'[g].merged[j])
      <4>1. CASE g = h
        BY <1>1, <2>4, <2>5, <2>13, <3>1, <3>2, <4>1
      <4>2. CASE g # h
        BY <1>1, <1>2, <2>11, <2>13, <3>2, <4>2 DEF CleanOK
      <4> QED
        BY <4>1, <4>2
    <3> QED
      BY <3>2 DEF CleanOK
  <2>16. ListedForever' /\ CanAct'
    BY <1>1, <1>2, <2>13 DEF ListedForever, CanAct
  <2> QED
    BY <1>1, <2>6, <2>7, <2>8, <2>9, <2>10, <2>14, <2>15, <2>16, UpdateStep DEF api, files
<1> QED
  BY <1>4, <1>5

\* While a write is under way the file says nothing.
LEMMA BeginWriteStep ==
    ASSUME IInv, NEW h \in Handler, BeginWrite(h)
    PROVE  IInv'
<1>1. /\ pc[h] = "write" /\ disk' = Damaged /\ Goto(h, "land") /\ UNCHANGED req
      /\ burst' = (IF Writing = {} THEN {} ELSE burst) \union {req[h].merged}
      /\ UNCHANGED <<made, parent, fits, revoked, reached, wallet, mem, clean, listed, withdrawn, late, stale, fresh, served, faults>>
  BY DEF BeginWrite, api, verdict, count
<1>2. /\ TypeOK /\ WalletsOK /\ ManifestOK /\ CleanOK
      /\ RequestOK(h) /\ WalletOK(h) /\ "land" \in PC
  BY DEF IInv, PC
<1>3. req[h].op \in Changing /\ req[h].id \in Id /\ req[h].merged \in Manifest
  BY <1>1, MergedEntry
<1>4. pc' \in [Handler -> PC] /\ req' \in [Handler -> Request] /\ pc'[h] = "land"
      /\ Others(h) /\ AloneOK'
  BY <1>1, <1>2, Went
<1>5. TypeOK'
  <2>1. burst' \subseteq Manifest
    BY <1>1, <1>2, <1>3 DEF TypeOK
  <2> QED
    BY <1>1, <1>2, <1>4, <2>1 DEF TypeOK
<1>6. RequestOK(h)' /\ WalletOK(h)'
  BY <1>1, <1>2, <1>3, <1>4 DEF RequestOK, WalletOK, ChangingPC
<1>7. Rising(req'[h].loaded, made)
  BY <1>1, <1>2 DEF WalletsOK
<1>8. \A q \in Handler : /\ q # h => pc'[q] = pc[q]
                         /\ pc'[q] \in {"write", "land"} => pc[q] \in {"write", "land"}
  BY <1>1, <1>4 DEF Others
<1>9. ManifestOK' /\ CleanOK'
  BY <1>1, <1>2, <1>4, <1>8 DEF ManifestOK, CleanOK
<1>10. ListedForever' /\ CanAct'
  BY <1>1 DEF ListedForever, CanAct
<1> QED
  BY <1>1, <1>4, <1>5, <1>6, <1>7, <1>9, <1>10, UpdateStep

\* An update lands: those under way that would undo it are stale, the others
\* write the same.
LEMMA LandStep ==
    ASSUME IInv, NEW h \in Handler, Land(h)
    PROVE  IInv'
<1> DEFINE mine == req[h].merged
           i == req[h].id
           overlapped == burst # {mine}
           lossy == overlapped \/ h \in stale
<1>1. /\ pc[h] = "land" /\ Goto(h, "assign") /\ UNCHANGED req
      /\ disk' \in IF overlapped THEN burst \union {Damaged} ELSE burst
      /\ burst' \in {{}, burst}
      /\ stale' = stale \union {q \in Updating : overlapped \/ req[q].merged # mine}
      /\ fresh' = TRUE
      /\ clean' = IF lossy THEN {}
                  ELSE IF ~req[h].alone THEN clean \ {i}
                  ELSE clean \union {i}
      /\ listed' = IF lossy THEN {} ELSE listed
      /\ UNCHANGED <<made, parent, fits, revoked, reached, wallet, mem, withdrawn, late, served, faults>>
  BY DEF Land, api, count
<1>2. /\ TypeOK /\ WalletsOK /\ ManifestOK /\ CleanOK /\ AloneOK
      /\ RequestOK(h) /\ WalletOK(h) /\ "assign" \in PC
  BY DEF IInv, PC
<1>3. req[h].op \in Changing /\ i \in Id /\ mine \in Manifest /\ mine[i] # Absent
      /\ mine[i] \in {0, req[h].cred}
  BY <1>1, MergedEntry
<1>4. pc' \in [Handler -> PC] /\ req' \in [Handler -> Request] /\ pc'[h] = "assign"
      /\ Others(h) /\ AloneOK'
  BY <1>1, <1>2, Went
<1>5. TypeOK'
  <2>1. disk' \in Manifest \union {Damaged} /\ burst' \subseteq Manifest
    BY <1>1, <1>2 DEF TypeOK
  <2>2. stale' \subseteq Handler /\ clean' \subseteq Id /\ listed' \subseteq Id /\ fresh' \in BOOLEAN
    BY <1>1, <1>2, <1>3 DEF TypeOK, Updating
  <2> QED
    BY <1>1, <1>2, <1>4, <2>1, <2>2 DEF TypeOK
<1>6. RequestOK(h)' /\ WalletOK(h)'
  BY <1>1, <1>2, <1>3, <1>4 DEF RequestOK, WalletOK, ChangingPC
<1>7. Rising(req'[h].loaded, made)
  BY <1>1, <1>2 DEF WalletsOK
<1>8. \A q \in Handler : /\ q # h => pc'[q] = pc[q]
                         /\ pc'[q] \in {"write", "land"} => pc[q] \in {"write", "land"} /\ q # h
                         /\ pc'[q] \in {"write", "land", "assign"} => q \in Updating
  BY <1>1, <1>4 DEF Others, Updating
\* Whoever is not stale writes what h wrote.
<1>9. ASSUME NEW q \in Handler, pc'[q] \in {"write", "land", "assign"}, q \notin stale'
      PROVE  /\ q \notin stale /\ req[q].merged = mine /\ ~overlapped /\ disk' = mine
             /\ mine[req[q].id] # Absent
  <2>1. q \in Updating
    BY <1>8, <1>9
  <2>2. q \notin stale /\ req[q].merged = mine /\ ~overlapped
    BY <1>1, <1>9, <2>1
  <2>3. disk' = mine
    BY <1>1, <2>2
  <2>4. mine[req[q].id] # Absent
    BY <2>1, <2>2, MergedEntry DEF Updating
  <2> QED
    BY <2>2, <2>3, <2>4
\* It can present what it wrote of itself if it was alone.
<1>10. ASSUME ~lossy, NEW j \in clean'
       PROVE  /\ Presents(wallet[j], mine[j])
              /\ j # i => j \in clean
              /\ j = i => req[h].alone
  <2>1. /\ j # i => j \in clean
        /\ j = i => req[h].alone
    BY <1>1, <1>10
  <2>2. j # i => Presents(wallet[j], mine[j])
    BY <1>1, <1>2, <1>10, <2>1 DEF CleanOK
  <2>3. ASSUME j = i
        PROVE  Presents(wallet[i], mine[i])
    <3>1. req[h].cred \in ToSet(wallet[i])
      BY <1>1, <1>2, <2>1, <2>3 DEF WalletOK
    <3>2. wallet[i] # <<>>
      <4>1. ToSet(<<>>) = {}
        BY DEF ToSet
      <4> QED
        BY <3>1, <4>1
    <3> QED
      BY <1>3, <3>1, <3>2 DEF Presents
  <2>4. Presents(wallet[j], mine[j])
    <3>1. CASE j = i
      BY <2>3, <3>1
    <3>2. CASE j # i
      BY <2>2, <3>2
    <3> QED
      BY <3>1, <3>2
  <2> QED
    BY <2>1, <2>4
<1>11. ASSUME ~lossy
       PROVE  \A j \in listed : mine[j] # Absent
  BY <1>1, <1>2, <1>11 DEF ManifestOK
<1> HIDE DEF overlapped, mine
<1>12. ManifestOK'
  <2>1. ASSUME NEW g \in Handler, pc'[g] \in {"write", "land"}, g \notin stale'
        PROVE  /\ \A j \in listed' : req'[g].merged[j] # Absent
               /\ \A q \in Handler : pc'[q] = "assign" /\ q \notin stale' =>
                    req'[g].merged[req'[q].id] # Absent
    <3>1. req'[g].merged = mine /\ ~overlapped
      BY <1>1, <1>9, <2>1
    <3>2. \A j \in listed' : mine[j] # Absent
      BY <1>1, <1>11
    <3>3. \A q \in Handler : pc'[q] = "assign" /\ q \notin stale' => mine[req'[q].id] # Absent
      BY <1>1, <1>9
    <3> QED
      BY <3>1, <3>2, <3>3
  <2>2. ASSUME NEW q \in Handler, pc'[q] = "assign", q \notin stale', disk' # Damaged
        PROVE  req'[q].merged = disk'
    BY <1>1, <1>9, <2>2
  <2>3. \E g \in Handler : pc'[g] = "assign"
    BY <1>4
  <2> QED
    BY <2>1, <2>2, <2>3 DEF ManifestOK
<1>13. CleanOK'
  <2>1. ASSUME NEW g \in Handler, pc'[g] \in {"write", "land"}, g \notin stale',
               NEW j \in clean' \ {req'[g].id}
        PROVE  Presents(wallet'[j], req'[g].merged[j])
    <3>1. ~lossy
      BY <1>1, <2>1
    <3>2. req'[g].merged = mine
      BY <1>1, <1>9, <2>1
    <3> QED
      BY <1>1, <1>10, <2>1, <3>1, <3>2
  <2> QED
    BY <2>1 DEF CleanOK
<1>14. ListedForever' /\ CanAct'
  <2>1. CASE lossy
    BY <1>1, <2>1 DEF ListedForever, CanAct
  <2>2. CASE ~lossy
    <3>1. disk' = mine
      BY <1>1, <2>2 DEF overlapped
    <3>2. \A j \in clean' : Presents(wallet'[j], disk'[j])
      BY <1>1, <1>10, <2>2, <3>1
    <3> QED
      BY <1>1, <1>11, <2>2, <3>1, <3>2 DEF ListedForever, CanAct, Presents
  <2> QED
    BY <2>1, <2>2
<1> QED
  BY <1>1, <1>4, <1>5, <1>6, <1>7, <1>12, <1>13, <1>14, UpdateStep

\* Where a request is when it is done with a persona.
LEMMA Proceeded ==
    ASSUME IInv, NEW h \in Handler, NEW m \in Manifest, Proceed(h, m)
    PROVE  /\ pc' \in [Handler -> PC] /\ req' \in [Handler -> Request]
           /\ pc'[h] \in {"idle", "create", "inspect"} /\ req'[h].loaded = <<>>
           /\ RequestOK(h)' /\ Others(h) /\ AloneOK'
<1>1. TypeOK /\ AloneOK
  BY DEF IInv
<1>2. CASE Finish(h)
  <2>1. /\ pc' \in [Handler -> PC] /\ req' \in [Handler -> Request]
        /\ pc'[h] = "idle" /\ req'[h].loaded = <<>>
    BY <1>1, <1>2, Finished
  <2>2. Others(h)
    BY <1>1, <1>2, Finished
  <2>3. AloneOK'
    BY <1>1, <1>2, Finished
  <2>4. RequestOK(h)'
    BY <2>1 DEF RequestOK, ChangingPC
  <2> QED
    BY <2>1, <2>2, <2>3, <2>4
<1>3. ASSUME NEW i \in Id, NEW c \in {0} \union Serial, NEW route, NEW label,
             Enter(h, route, i, c, label),
             \/ route = "ensureNew" /\ label = "create"
             \/ route = "ensureOld" /\ label = "inspect"
      PROVE  /\ pc' \in [Handler -> PC] /\ req' \in [Handler -> Request]
             /\ pc'[h] \in {"idle", "create", "inspect"} /\ req'[h].loaded = <<>>
             /\ RequestOK(h)' /\ Others(h) /\ AloneOK'
  <2>0. route \in Op /\ label \in PC
    BY <1>3 DEF Op, PC
  <2>1. pc' \in [Handler -> PC] /\ req' \in [Handler -> Request] /\ pc'[h] = label
    BY <1>1, <1>3, <2>0, Entered
  <2>2. req'[h].op = route /\ req'[h].id = i /\ req'[h].loaded = <<>>
    BY <1>1, <1>3, <2>0, Entered
  <2>3. Others(h)
    BY <1>1, <1>3, <2>0, Entered
  <2>4. AloneOK'
    BY <1>1, <1>3, <2>0, Entered
  <2>5. RequestOK(h)'
    BY <1>3, <2>1, <2>2 DEF RequestOK, ChangingPC, Changing
  <2> QED
    BY <1>3, <2>1, <2>2, <2>3, <2>4, <2>5
<1>4. CASE Ensure(h, Target, m)
  <2>1. Target \in Id /\ 0 \in {0} \union Serial /\ (m[Target] # Absent => m[Target] \in {0} \union Serial)
    BY DEF Id, Manifest
  <2>2. CASE m[Target] = Absent
    <3>1. Enter(h, "ensureNew", Target, 0, "create")
      BY <1>4, <2>2 DEF Ensure
    <3> QED
      BY <1>3, <2>1, <3>1
  <2>3. CASE m[Target] # Absent
    <3>1. Enter(h, "ensureOld", Target, m[Target], "inspect")
      BY <1>4, <2>3 DEF Ensure
    <3> QED
      BY <1>3, <2>1, <2>3, <3>1
  <2> QED
    BY <2>2, <2>3
<1> QED
  BY <1>2, <1>4 DEF Proceed

\* The agent's copy becomes what the update wrote, which is what the file holds
\* unless the update lacked another one.
LEMMA AssignStep ==
    ASSUME IInv, NEW h \in Handler, Assign(h)
    PROVE  IInv'
<1> DEFINE i == req[h].id
           mine == req[h].merged
<1>1. /\ pc[h] = "assign" /\ mem' = mine /\ Proceed(h, mine)
      /\ listed' = IF h \in stale THEN listed ELSE listed \union {i}
      /\ fresh' = (fresh /\ h \notin stale)
      /\ stale' = stale \ {h}
      /\ UNCHANGED <<made, parent, fits, revoked, reached, wallet, disk, burst, clean, withdrawn, late, served, faults>>
  BY DEF Assign, Kept, api, files, count
<1>2. TypeOK /\ ManifestOK /\ CleanOK /\ CanAct /\ ListedForever
  BY DEF IInv
<1>3. i \in Id /\ mine \in Manifest /\ mine[i] # Absent
  BY <1>1, MergedEntry
<1>4. /\ pc' \in [Handler -> PC] /\ req' \in [Handler -> Request]
      /\ pc'[h] \in {"idle", "create", "inspect"} /\ req'[h].loaded = <<>>
      /\ RequestOK(h)' /\ Others(h) /\ AloneOK'
  BY <1>1, <1>3, Proceeded
<1>5. TypeOK'
  <2>1. listed' \subseteq Id /\ fresh' \in BOOLEAN /\ stale' \subseteq Handler /\ mem' \in Manifest
    BY <1>1, <1>2, <1>3 DEF TypeOK
  <2> QED
    BY <1>1, <1>2, <1>4, <2>1 DEF TypeOK
<1>6. WalletOK(h)'
  BY <1>4 DEF WalletOK
<1>7. Rising(req'[h].loaded, made)
  BY <1>4, ShortRises
<1>8. ASSUME NEW q \in Handler, pc'[q] \in {"write", "land", "assign"}
      PROVE  /\ q # h /\ pc[q] = pc'[q] /\ req'[q].id = req[q].id /\ req'[q].merged = req[q].merged
             /\ q \notin stale' => q \notin stale
  BY <1>1, <1>4, <1>8 DEF Others
<1>9. h \notin stale /\ disk # Damaged => mine = disk
  BY <1>1, <1>2 DEF ManifestOK
<1>10. ManifestOK'
  <2>1. ASSUME NEW g \in Handler, pc'[g] \in {"write", "land"}, g \notin stale'
        PROVE  /\ \A j \in listed' : req'[g].merged[j] # Absent
               /\ \A q \in Handler : pc'[q] = "assign" /\ q \notin stale' =>
                    req'[g].merged[req'[q].id] # Absent
    <3>1. pc[g] \in {"write", "land"} /\ g \notin stale /\ req'[g].merged = req[g].merged
      BY <1>8, <2>1
    <3>2. /\ \A j \in listed : req[g].merged[j] # Absent
          /\ h \notin stale => req[g].merged[i] # Absent
      BY <1>1, <1>2, <3>1 DEF ManifestOK
    <3>3. \A j \in listed' : req'[g].merged[j] # Absent
      BY <1>1, <3>1, <3>2
    <3>4. ASSUME NEW q \in Handler, pc'[q] = "assign", q \notin stale'
          PROVE  req'[g].merged[req'[q].id] # Absent
      <4>1. pc[q] = "assign" /\ q \notin stale /\ req'[q].id = req[q].id
        BY <1>8, <3>4
      <4> QED
        BY <1>2, <3>1, <4>1 DEF ManifestOK
    <3> QED
      BY <3>3, <3>4
  <2>2. ASSUME NEW q \in Handler, pc'[q] = "assign", q \notin stale', disk' # Damaged
        PROVE  req'[q].merged = disk'
    BY <1>1, <1>2, <1>8, <2>2 DEF ManifestOK
  <2>3. fresh' /\ disk' # Damaged => mem' = disk'
    BY <1>1, <1>9
  <2> QED
    BY <2>1, <2>2, <2>3 DEF ManifestOK
<1>11. WalletsGrow /\ clean' \subseteq clean
  BY <1>1 DEF WalletsGrow
<1>12. CleanOK' /\ CanAct'
  BY <1>1, <1>2, <1>4, <1>11, ActingStays
<1>13. ListedForever'
  BY <1>1, <1>2, <1>3, <1>9 DEF ListedForever
<1> QED
  BY <1>1, <1>4, <1>5, <1>6, <1>7, <1>10, <1>12, <1>13, UpdateStep

-----------------------------------------------------------------------------
(* The invariant, and what it says of the agent.                            *)

LEMMA NextIInv == IInv /\ [Next]_vars => IInv'
<1> SUFFICES ASSUME IInv, [Next]_vars
             PROVE  IInv'
  OBVIOUS
<1>1. ASSUME NEW h \in Handler, HandlerStep(h)
      PROVE  IInv'
  BY <1>1, InspectStep, CreateWalletStep, EnrollStep, ReadManifestStep, BeginWriteStep, LandStep,
     AssignStep, LoadFromStep, LoadToStep, MakeChildStep, AddCredentialStep, LoadRevokeStep,
     RevokeVCStep, CompleteStep, LoadToolStep, McpToolStep DEF HandlerStep
<1>2. ASSUME NEW h \in Handler, Abort(h)
      PROVE  IInv'
  BY <1>2, AbortStep
<1>3. CASE Restart
  BY <1>3, RestartStep
<1>4. CASE ListsExpire
  BY <1>4, ListsExpireStep
<1>5. CASE UNCHANGED vars
  <2>1. UNCHANGED <<made, parent, fits, revoked, reached, wallet, disk, burst, mem, pc, req,
                    clean, listed, withdrawn, late, stale, fresh, served, faults>>
    BY <1>5 DEF vars, api, files, local, verdict, count
  <2> QED
    BY <2>1 DEF IInv, TypeOK, RequestOK, AloneOK, WalletOK, WalletsOK, Rising, WithdrawnOK,
                ManifestOK, CleanOK, ListedForever, CanAct, LateIsLater
<1> QED
  BY <1>1, <1>2, <1>3, <1>4, <1>5, ArrivalStep DEF Next, Rest

\* The invariant holds, whatever requests fail, crash or restart.
THEOREM ConciergeInvariant == Spec => []IInv
<1>1. Init => IInv
  BY InitIInv
<1>2. IInv /\ [Next]_vars => IInv'
  BY NextIInv
<1> QED
  BY <1>1, <1>2, PTL DEF Spec

\* A persona whose creation was acknowledged stays in the manifest until an
\* update lands that lacks another one.
THEOREM ConciergeListedForever == Spec => []ListedForever
<1>1. IInv => ListedForever
  BY DEF IInv
<1> QED
  BY <1>1, ConciergeInvariant, PTL

\* Between updates the agent's copy is the file, if the last update lacked
\* none.
THEOREM ConciergeMemoryIsCurrent == Spec => []MemoryIsCurrent
<1>1. IInv => MemoryIsCurrent
  BY DEF IInv, ManifestOK, MemoryIsCurrent, Updating
<1> QED
  BY <1>1, ConciergeInvariant, PTL

\* A persona last changed by one complete request that was alone with it holds
\* the credential the agent makes it present.
THEOREM ConciergeCanAct == Spec => []CanAct
<1>1. IInv => CanAct
  BY DEF IInv
<1> QED
  BY <1>1, ConciergeInvariant, PTL

\* What a tool ran with after its persona's revocation was acknowledged and had
\* reached every status list was made later than what was revoked, whatever
\* requests overlapped, failed or were cut off by a restart.
THEOREM ConciergeLateIsLater == Spec => []LateIsLater
<1>1. IInv => LateIsLater
  BY DEF IInv
<1> QED
  BY <1>1, ConciergeInvariant, PTL

=============================================================================
