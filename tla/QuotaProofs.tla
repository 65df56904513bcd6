----------------------------- MODULE QuotaProofs -----------------------------
(***************************************************************************)
(* Proofs about Quota, for any accounts, handlers, limits and bounds.       *)
(* IInv follows a credential from its issuance to the row that charges it:  *)
(* at every moment it has exactly one of a handler, an outstanding write, a *)
(* row, a lost event, or no account.  CountOK, on top of it, counts what an *)
(* account has been and is about to be charged.                             *)
(***************************************************************************)
EXTENDS Quota, FiniteSetTheorems, TLAPS

\* The credentials of the rows in the window.
Rows == {log[i] : i \in DOMAIN log}

\* The handlers past the quota check of account a.
Flight(a) == {h \in Handler : caller[h] = a /\ pc[h] \in {"issue", "link", "log"}}

\* What account a was charged in the window or is about to be.
Charged(a) == {v \in Rows \union pending : holder[v] = a}

\* Credentials not issued yet are nowhere.
FreshOK ==
    /\ answered \union pending \union lost \union Rows \subseteq 1 .. issued
    /\ \A v \in Vc : v > issued => holder[v] = None /\ links[v] = None

\* What is charged, or about to be, was issued for an account and is linked to it.
ChargeOK ==
    \A v \in Rows \union pending : holder[v] \in Account /\ links[v] = holder[v]

\* A credential is charged by one row, one write, or not at all.
Apart ==
    /\ \A i, j \in DOMAIN log : log[i] = log[j] => i = j
    /\ Rows \intersect pending = {}
    /\ (Rows \union pending) \intersect lost = {}

\* What the locals of handler h say at each await.
HandlerOK(h) ==
    /\ pc[h] = "idle" => caller[h] = None
    /\ pc[h] = "quota" => caller[h] \in Account
    /\ pc[h] \in {"idle", "quota", "issue"} => vc[h] = NoVc
    /\ pc[h] \in {"link", "log", "respond"} =>
        vc[h] \in 1 .. issued /\ caller[h] = holder[vc[h]]
    /\ pc[h] \in {"link", "log"} =>
        caller[h] \in Account /\ vc[h] \notin Rows \union pending \union lost \union answered
    /\ pc[h] = "log" => links[vc[h]] = caller[h]
    /\ pc[h] = "respond" => caller[h] = None

SoleHandler ==
    \A g, h \in Handler : vc[g] = vc[h] /\ vc[g] # NoVc => g = h

AnsweredOK ==
    \A v \in answered : holder[v] # None => links[v] = holder[v]

IInv ==
    /\ TypeOK
    /\ FreshOK
    /\ ChargeOK
    /\ Apart
    /\ \A h \in Handler : HandlerOK(h)
    /\ SoleHandler
    /\ AnsweredOK
    /\ Metered

\* The last request of an account that passed the check saw its rows under the
\* limit: whatever was outstanding then, or passed before it, is all that can
\* be added.
CountOK ==
    /\ Cardinality(pending) <= MaxPending
    /\ ~truncated => \A a \in Account :
        Cardinality(Charged(a)) + Cardinality(Flight(a)) <
            Limit + Cardinality(Handler) + MaxPending

USE QuotaAssumption DEF Vc, NoVc

-----------------------------------------------------------------------------
(* The audit log as a set of rows.                                          *)

\* A written event adds its row after the others.
LEMMA RowsAppend ==
    ASSUME log \in Seq(Vc), NEW v \in Vc, log' = Append(log, v)
    PROVE  /\ log' \in Seq(Vc)
           /\ Rows' = Rows \union {v}
           /\ Len(log') = Len(log) + 1
           /\ log'[Len(log) + 1] = v
           /\ \A i \in DOMAIN log : log'[i] = log[i]
<1>1. /\ log' \in Seq(Vc) /\ Len(log') = Len(log) + 1 /\ log'[Len(log) + 1] = v
      /\ \A i \in DOMAIN log : log'[i] = log[i]
    OBVIOUS
<1>2. DOMAIN log = 1 .. Len(log) /\ DOMAIN log' = 1 .. Len(log) + 1 /\ Len(log) \in Nat
    BY <1>1
<1>3. DOMAIN log' = DOMAIN log \union {Len(log) + 1}
    BY <1>2
<1> QED
    BY <1>1, <1>3 DEF Rows

\* A row that leaves the window is the oldest; the others move up.
LEMMA RowsTail ==
    ASSUME log \in Seq(Vc), log # <<>>, log' = Tail(log)
    PROVE  /\ log' \in Seq(Vc)
           /\ Head(log) = log[1]
           /\ \A i \in DOMAIN log' : i + 1 \in DOMAIN log /\ log'[i] = log[i + 1]
           /\ Rows' \subseteq Rows
           /\ Rows \subseteq Rows' \union {Head(log)}
<1>1. /\ log' \in Seq(Vc) /\ Head(log) = log[1] /\ Len(log') = Len(log) - 1
      /\ Len(log) \in Nat \ {0}
    OBVIOUS
<1>2. DOMAIN log = 1 .. Len(log) /\ DOMAIN log' = 1 .. Len(log) - 1
    BY <1>1
<1>3. \A i \in DOMAIN log' : i + 1 \in DOMAIN log /\ log'[i] = log[i + 1]
    BY <1>2
<1>4. Rows' \subseteq Rows
    BY <1>3 DEF Rows
<1>5. ASSUME NEW i \in DOMAIN log PROVE log[i] \in Rows' \union {Head(log)}
    <2>1. CASE i = 1
        BY <2>1, <1>1
    <2>2. CASE i # 1
        <3>1. i - 1 \in DOMAIN log' /\ log'[i - 1] = log[i]
            BY <2>2, <1>2, <1>3, <1>5, <1>1
        <3> QED
            BY <3>1 DEF Rows
    <2> QED
        BY <2>1, <2>2
<1> QED
    BY <1>1, <1>3, <1>4, <1>5 DEF Rows

\* Nobody else writes the log.
LEMMA RowsSame ==
    ASSUME UNCHANGED log
    PROVE  Rows' = Rows
BY DEF Rows

-----------------------------------------------------------------------------
(* IInv is inductive.                                                       *)

LEMMA InitIInv == Init => IInv
<1> SUFFICES ASSUME Init PROVE IInv
    OBVIOUS
<1>1. Rows = {} /\ log \in Seq(Vc)
    BY DEF Init, Rows
<1>2. TypeOK
    <2>1. issued \in 0 .. MaxVcs /\ recent \subseteq 1 .. issued
        BY DEF Init
    <2>2. /\ holder \in [Vc -> Account \union {None}] /\ links \in [Vc -> Account \union {None}]
          /\ pending \subseteq Vc /\ lost \subseteq Vc /\ answered \subseteq Vc
          /\ truncated \in BOOLEAN
        BY DEF Init
    <2>3. /\ pc \in [Handler -> PC] /\ caller \in [Handler -> Account \union {None}]
          /\ vc \in [Handler -> Vc \union {NoVc}]
        BY DEF Init, PC
    <2> QED
        BY <1>1, <2>1, <2>2, <2>3 DEF TypeOK
<1>3. FreshOK /\ ChargeOK /\ AnsweredOK /\ Metered
    BY <1>1 DEF Init, FreshOK, ChargeOK, AnsweredOK, Metered
<1>4. Apart
    BY <1>1 DEF Init, Apart
<1>5. SoleHandler /\ \A h \in Handler : HandlerOK(h)
    BY DEF Init, HandlerOK, SoleHandler
<1> QED
    BY <1>1, <1>2, <1>3, <1>4, <1>5 DEF IInv

\* A step that only moves handler h, to an await where it holds nothing.
LEMMA HandlerOnly ==
    ASSUME IInv, NEW h \in Handler, NEW a \in Account \union {None},
           NEW l \in {"idle", "quota", "issue"},
           pc' = [pc EXCEPT ![h] = l],
           caller' = [caller EXCEPT ![h] = a],
           vc' = [vc EXCEPT ![h] = NoVc],
           pc[h] \notin {"link", "log"},
           l = "idle" => a = None, l = "quota" => a \in Account,
           truncated' \in BOOLEAN,
           answered' = answered \/ (pc[h] = "respond" /\ answered' = answered \union {vc[h]}),
           UNCHANGED <<core, links, log, pending, lost>>
    PROVE  IInv'
<1> USE DEF core
<1>0. Rows' = Rows
    BY RowsSame
<1>1. TypeOK'
    <2>1. /\ pc' \in [Handler -> PC] /\ caller' \in [Handler -> Account \union {None}]
          /\ vc' \in [Handler -> Vc \union {NoVc}]
        BY DEF IInv, TypeOK, PC
    <2>2. HandlerOK(h) /\ answered \subseteq Vc /\ vc[h] \in Vc \union {NoVc}
          /\ issued \in Nat
        BY DEF IInv, TypeOK
    <2>3. pc[h] = "respond" => vc[h] \in Vc
        <3>1. pc[h] = "respond" => vc[h] \in 1 .. issued
            BY <2>2 DEF HandlerOK
        <3> QED
            BY <2>2, <3>1
    <2>4. answered' \subseteq Vc
        BY <2>2, <2>3
    <2> QED
        BY <2>1, <2>4 DEF IInv, TypeOK
<1>2. FreshOK'
    <2>1. answered' \subseteq 1 .. issued
        BY DEF IInv, FreshOK, HandlerOK
    <2> QED
        BY <1>0, <2>1 DEF IInv, FreshOK
<1>3. ChargeOK' /\ Apart'
    BY <1>0 DEF IInv, ChargeOK, Apart
<1>4. ASSUME NEW g \in Handler PROVE HandlerOK(g)'
    <2>1. CASE g = h
        BY <2>1 DEF IInv, TypeOK, HandlerOK
    <2>2. CASE g # h
        <3>1. pc'[g] = pc[g] /\ caller'[g] = caller[g] /\ vc'[g] = vc[g] /\ HandlerOK(g)
            BY <2>2 DEF IInv, TypeOK
        <3>2. pc[g] \in {"link", "log"} => vc[g] \notin answered'
            <4>1. pc[g] \in {"link", "log"} /\ pc[h] = "respond" => vc[g] # vc[h]
                BY <2>2, <3>1 DEF IInv, SoleHandler, HandlerOK, TypeOK
            <4> QED
                BY <3>1, <4>1 DEF HandlerOK
        <3> QED
            BY <1>0, <3>1, <3>2 DEF HandlerOK
    <2> QED
        BY <2>1, <2>2
<1>5. SoleHandler'
    BY DEF IInv, TypeOK, SoleHandler
<1>6. AnsweredOK'
    <2>1. pc[h] = "respond" => holder[vc[h]] = None
        BY DEF IInv, HandlerOK
    <2> QED
        BY <2>1 DEF IInv, AnsweredOK
<1>7. Metered'
    <2>1. \A g \in Handler : pc[g] \in {"link", "log"} => pc'[g] = pc[g] /\ vc'[g] = vc[g]
        BY DEF IInv, TypeOK
    <2> QED
        BY <2>1 DEF IInv, Metered
<1> QED
    BY <1>1, <1>2, <1>3, <1>4, <1>5, <1>6, <1>7 DEF IInv

\* The credential a handler holds is one that was issued.
LEMMA HeldIsIssued ==
    ASSUME IInv, NEW h \in Handler, pc[h] \in {"link", "log", "respond"}
    PROVE  vc[h] \in Vc /\ vc[h] \in 1 .. issued /\ vc[h] # NoVc
<1>1. vc[h] \in Vc \union {NoVc} /\ vc[h] \in 1 .. issued
    BY DEF IInv, TypeOK, HandlerOK
<1> QED
    BY <1>1

\* The requests, the check, the operator's answer, and what gives up before a
\* credential was issued to an account.
LEMMA HandlerOnlySteps ==
    ASSUME IInv, NEW h \in Handler,
           \/ AdminCall(h)
           \/ \E a \in Account : AccountCall(h, a)
           \/ CheckQuota(h)
           \/ Respond(h)
           \/ Abort(h) /\ pc[h] \notin {"link", "log"}
    PROVE  IInv'
<1> USE DEF core, Goto, Finish
<1>0. /\ pc[h] \in {"idle", "quota", "issue"} => vc = [vc EXCEPT ![h] = NoVc]
      /\ pc[h] = "idle" => caller = [caller EXCEPT ![h] = None]
      /\ pc[h] = "quota" => caller[h] \in Account
      /\ caller = [caller EXCEPT ![h] = caller[h]]
      /\ truncated \in BOOLEAN
    BY DEF IInv, TypeOK, HandlerOK
<1>1. CASE AdminCall(h)
    BY <1>0, <1>1, HandlerOnly DEF AdminCall
<1>2. ASSUME NEW a \in Account, AccountCall(h, a) PROVE IInv'
    BY <1>0, <1>2, HandlerOnly DEF AccountCall
<1>3. CASE CheckQuota(h)
    <2>1. pc[h] = "quota" /\ truncated' \in BOOLEAN /\ UNCHANGED <<core, links, log, pending, lost, answered>>
        BY <1>0, <1>3 DEF CheckQuota
    <2>2. CASE Goto(h, "issue") /\ UNCHANGED <<caller, vc>>
        BY <1>0, <2>1, <2>2, HandlerOnly
    <2>3. CASE Finish(h)
        BY <1>0, <2>1, <2>3, HandlerOnly
    <2> QED
        BY <1>3, <2>2, <2>3 DEF CheckQuota
<1>4. CASE Respond(h)
    BY <1>0, <1>4, HandlerOnly DEF Respond
<1>5. CASE Abort(h) /\ pc[h] \notin {"link", "log"}
    BY <1>0, <1>5, HandlerOnly DEF Abort
<1> QED
    BY <1>1, <1>2, <1>3, <1>4, <1>5

\* The new credential is in nobody's hands but the handler's.
LEMMA IssueVCStep ==
    ASSUME IInv, NEW h \in Handler, IssueVC(h)
    PROVE  IInv'
<1> DEFINE n == issued + 1
<1>1. /\ pc[h] = "issue" /\ issued < MaxVcs /\ issued' = n
      /\ holder' = [holder EXCEPT ![n] = caller[h]]
      /\ recent' = recent \union {n}
      /\ vc' = [vc EXCEPT ![h] = n]
      /\ pc' = [pc EXCEPT ![h] = IF caller[h] = None THEN "respond" ELSE "link"]
      /\ UNCHANGED <<links, log, pending, lost, truncated, answered, caller>>
    BY DEF IssueVC, Goto
<1>2. /\ issued \in Nat /\ n \in Vc /\ n \in 1 .. issued' /\ n \notin 1 .. issued
      /\ 1 .. issued' = (1 .. issued) \union {n} /\ n # NoVc
    BY <1>1 DEF IInv, TypeOK
<1>3. /\ holder'[n] = caller[h] /\ \A v \in Vc \ {n} : holder'[v] = holder[v]
      /\ vc'[h] = n /\ \A g \in Handler \ {h} : vc'[g] = vc[g] /\ pc'[g] = pc[g]
      /\ pc'[h] = (IF caller[h] = None THEN "respond" ELSE "link")
      /\ Rows' = Rows
    BY <1>1, <1>2, RowsSame DEF IInv, TypeOK
<1>4. /\ n \notin answered \union pending \union lost \union Rows
      /\ answered \union pending \union lost \union Rows \subseteq Vc
    BY <1>2 DEF IInv, FreshOK, TypeOK
<1>5. \A g \in Handler : vc[g] # n
    BY <1>2, HeldIsIssued DEF IInv, TypeOK, HandlerOK, PC
<1>6. caller[h] \in Account \union {None}
    BY DEF IInv, TypeOK
<1> HIDE DEF n
<1>7. TypeOK'
    <2>1. issued' \in 0 .. MaxVcs
        BY <1>1, <1>2 DEF n
    <2>2. recent' \subseteq 1 .. issued'
        BY <1>1, <1>2 DEF IInv, TypeOK
    <2>3. /\ holder' \in [Vc -> Account \union {None}]
          /\ vc' \in [Handler -> Vc \union {NoVc}]
        BY <1>1, <1>2, <1>6 DEF IInv, TypeOK
    <2>4. pc' \in [Handler -> PC]
        BY <1>1 DEF IInv, TypeOK, PC
    <2> QED
        BY <1>1, <2>1, <2>2, <2>3, <2>4 DEF IInv, TypeOK
<1>8. FreshOK'
    <2>1. answered \union pending \union lost \union Rows \subseteq 1 .. issued'
        BY <1>2 DEF IInv, FreshOK
    <2>2. ASSUME NEW v \in Vc, v > issued' PROVE holder'[v] = None /\ links[v] = None
        <3>1. v # n /\ v > issued
            BY <1>1, <1>2, <2>2 DEF n
        <3> QED
            BY <1>3, <3>1 DEF IInv, FreshOK
    <2> QED
        BY <1>1, <1>3, <2>1, <2>2 DEF FreshOK
<1>9. ChargeOK' /\ AnsweredOK'
    BY <1>1, <1>3, <1>4 DEF IInv, ChargeOK, AnsweredOK
<1>10. Apart'
    BY <1>1, <1>3 DEF IInv, Apart
<1>11. ASSUME NEW g \in Handler PROVE HandlerOK(g)'
    <2>1. CASE g = h
        BY <1>1, <1>2, <1>3, <1>4, <1>6, <2>1 DEF HandlerOK
    <2>2. CASE g # h
        <3>1. /\ pc'[g] = pc[g] /\ caller'[g] = caller[g] /\ vc'[g] = vc[g] /\ HandlerOK(g)
              /\ vc[g] \in 1 .. issued => vc[g] \in Vc \ {n} /\ vc[g] \in 1 .. issued'
            BY <1>1, <1>2, <1>3, <1>5, <2>2 DEF IInv, TypeOK
        <3> QED
            BY <1>1, <1>3, <3>1 DEF HandlerOK
    <2> QED
        BY <2>1, <2>2
<1>12. SoleHandler'
    BY <1>3, <1>5 DEF IInv, SoleHandler
<1>13. Metered'
    <2>1. ASSUME NEW v \in recent', holder'[v] # None
          PROVE  \/ v \in pending \union lost
                 \/ \E i \in DOMAIN log : log[i] = v
                 \/ \E g \in Handler : vc'[g] = v /\ pc'[g] \in {"link", "log"}
        <3>1. CASE v = n
            BY <1>3, <2>1, <3>1
        <3>2. CASE v # n
            <4>1. v \in recent /\ v \in Vc
                BY <1>1, <2>1, <3>2, <1>2 DEF IInv, TypeOK
            <4>2. \A g \in Handler : pc[g] \in {"link", "log"} => vc'[g] = vc[g] /\ pc'[g] = pc[g]
                BY <1>1, <1>3
            <4> QED
                BY <1>3, <2>1, <3>2, <4>1, <4>2 DEF IInv, Metered
        <3> QED
            BY <3>1, <3>2
    <2> QED
        BY <1>1, <2>1 DEF Metered
<1> QED
    BY <1>7, <1>8, <1>9, <1>10, <1>11, <1>12, <1>13 DEF IInv

\* The link is written before the event can be.
LEMMA LinkStep ==
    ASSUME IInv, NEW h \in Handler, Link(h)
    PROVE  IInv'
<1> DEFINE n == vc[h]
<1>1. /\ pc[h] = "link" /\ links' = [links EXCEPT ![n] = caller[h]]
      /\ pc' = [pc EXCEPT ![h] = "log"]
      /\ UNCHANGED <<core, log, pending, lost, truncated, answered, caller, vc>>
    BY DEF Link, Goto
<1>2. /\ n \in Vc /\ n \in 1 .. issued /\ n # NoVc /\ caller[h] = holder[n]
      /\ caller[h] \in Account /\ n \notin Rows \union pending \union lost \union answered
    BY <1>1, HeldIsIssued DEF IInv, HandlerOK
<1> HIDE DEF n
<1> USE DEF core
<1>3. /\ links'[n] = holder[n] /\ \A v \in Vc \ {n} : links'[v] = links[v]
      /\ pc'[h] = "log" /\ \A g \in Handler \ {h} : pc'[g] = pc[g]
      /\ Rows' = Rows
    BY <1>1, <1>2, RowsSame DEF IInv, TypeOK
<1>4. TypeOK'
    <2>1. pc' \in [Handler -> PC] /\ links' \in [Vc -> Account \union {None}]
        BY <1>1, <1>2 DEF IInv, TypeOK, PC
    <2> QED
        BY <1>1, <2>1 DEF IInv, TypeOK
<1>5. FreshOK'
    <2>1. \A v \in Vc : v > issued => v # n
        BY <1>2 DEF IInv, TypeOK
    <2> QED
        BY <1>1, <1>3, <2>1 DEF IInv, FreshOK
<1>6. ChargeOK' /\ AnsweredOK'
    BY <1>1, <1>2, <1>3 DEF IInv, ChargeOK, AnsweredOK, TypeOK, FreshOK
<1>7. Apart'
    BY <1>1, <1>3 DEF IInv, Apart
<1>8. ASSUME NEW g \in Handler PROVE HandlerOK(g)'
    <2>1. CASE g = h
        BY <1>1, <1>2, <1>3, <2>1 DEF HandlerOK, n
    <2>2. CASE g # h
        <3>1. pc'[g] = pc[g] /\ caller'[g] = caller[g] /\ vc'[g] = vc[g] /\ HandlerOK(g)
            BY <1>1, <1>3, <2>2 DEF IInv
        <3>2. pc[g] = "log" => links'[vc[g]] = links[vc[g]]
            BY <1>2, <1>3, <2>2, HeldIsIssued DEF IInv, SoleHandler, n
        <3> QED
            BY <1>1, <1>3, <3>1, <3>2 DEF HandlerOK
    <2> QED
        BY <2>1, <2>2
<1>9. SoleHandler'
    BY <1>1 DEF IInv, SoleHandler
<1>10. Metered'
    <2>1. \A g \in Handler : pc[g] \in {"link", "log"} => vc'[g] = vc[g] /\ pc'[g] \in {"link", "log"}
        BY <1>1, <1>3
    <2> QED
        BY <1>1, <2>1 DEF IInv, Metered
<1> QED
    BY <1>4, <1>5, <1>6, <1>7, <1>8, <1>9, <1>10 DEF IInv

\* The handler lets go of its credential, and of nothing of the others.
LEMMA LetGo ==
    ASSUME IInv, NEW h \in Handler, pc[h] \in {"link", "log"}, Finish(h),
           UNCHANGED <<core, links, log, truncated>>,
           \/ /\ pc[h] = "log" /\ pending' = pending \union {vc[h]}
              /\ answered' = answered \union {vc[h]} /\ lost' = lost
           \/ /\ lost' = lost \union {vc[h]} /\ pending' = pending /\ answered' = answered
    PROVE  IInv'
<1> DEFINE n == vc[h]
<1> USE DEF core
<1>1. /\ n \in Vc /\ n \in 1 .. issued /\ n # NoVc /\ caller[h] = holder[n]
      /\ caller[h] \in Account /\ n \notin Rows \union pending \union lost \union answered
      /\ pc[h] = "log" => links[n] = holder[n]
    BY HeldIsIssued DEF IInv, HandlerOK
<1>2. \/ /\ links[n] = holder[n] /\ pending' = pending \union {n}
         /\ answered' = answered \union {n} /\ lost' = lost
      \/ /\ lost' = lost \union {n} /\ pending' = pending /\ answered' = answered
    BY <1>1
<1>3. /\ pc'[h] = "idle" /\ caller'[h] = None /\ vc'[h] = NoVc
      /\ \A g \in Handler \ {h} : pc'[g] = pc[g] /\ caller'[g] = caller[g] /\ vc'[g] = vc[g]
      /\ Rows' = Rows
    BY RowsSame DEF Finish, Goto, IInv, TypeOK
<1>4. ASSUME NEW g \in Handler \ {h}, pc[g] \in {"link", "log"}
      PROVE  vc[g] # n
    BY <1>4, HeldIsIssued DEF IInv, SoleHandler
<1>5. TypeOK'
    <2>1. /\ pc' \in [Handler -> PC] /\ caller' \in [Handler -> Account \union {None}]
          /\ vc' \in [Handler -> Vc \union {NoVc}]
        BY DEF IInv, TypeOK, PC, Finish, Goto
    <2>2. pending' \subseteq Vc /\ lost' \subseteq Vc /\ answered' \subseteq Vc
        BY <1>1, <1>2 DEF IInv, TypeOK
    <2> QED
        BY <2>1, <2>2 DEF IInv, TypeOK
<1> HIDE DEF n
<1>6. FreshOK'
    BY <1>1, <1>2, <1>3 DEF IInv, FreshOK
<1>7. ChargeOK' /\ AnsweredOK'
    BY <1>1, <1>2, <1>3 DEF IInv, ChargeOK, AnsweredOK
<1>8. Apart'
    BY <1>1, <1>2, <1>3 DEF IInv, Apart
<1>9. ASSUME NEW g \in Handler PROVE HandlerOK(g)'
    <2>1. CASE g = h
        BY <1>3, <2>1 DEF HandlerOK
    <2>2. CASE g # h
        <3>1. /\ pc'[g] = pc[g] /\ caller'[g] = caller[g] /\ vc'[g] = vc[g] /\ HandlerOK(g)
              /\ pc[g] \in {"link", "log"} => vc[g] # n
            BY <1>3, <1>4, <2>2 DEF IInv
        <3> QED
            BY <1>2, <1>3, <3>1 DEF HandlerOK
    <2> QED
        BY <2>1, <2>2
<1>10. SoleHandler'
    BY <1>3 DEF IInv, SoleHandler
<1>11. Metered'
    <2>1. n \in pending' \union lost'
        BY <1>2
    <2>2. \A v \in recent : v # n => \A g \in Handler : vc[g] = v => g # h
        BY DEF n
    <2> QED
        BY <1>2, <1>3, <2>1, <2>2 DEF IInv, Metered
<1> QED
    BY <1>5, <1>6, <1>7, <1>8, <1>9, <1>10, <1>11 DEF IInv

LEMMA LetGoSteps ==
    ASSUME IInv, NEW h \in Handler, Log(h) \/ (Abort(h) /\ pc[h] \in {"link", "log"})
    PROVE  IInv'
<1>1. CASE Log(h)
    BY <1>1, LetGo DEF Log
<1>2. CASE Abort(h) /\ pc[h] \in {"link", "log"}
    BY <1>2, LetGo DEF Abort
<1> QED
    BY <1>1, <1>2

\* A step of the audit log or of time leaves the handlers alone: it keeps what
\* they hold apart from what is charged, if it adds nothing to that.
LEMMA LogOnly ==
    ASSUME IInv,
           log' \in Seq(Vc), pending' \subseteq pending, recent' \subseteq recent,
           lost' \subseteq lost \union pending,
           Rows' \subseteq Rows \union pending,
           Apart',
           \A v \in recent' : v \in Rows \union pending => v \in Rows' \union pending' \union lost',
           lost \subseteq lost',
           UNCHANGED <<issued, holder, links, truncated, answered, locals>>
    PROVE  IInv'
<1> USE DEF locals
<1>1. TypeOK'
    BY DEF IInv, TypeOK
<1>2. FreshOK'
    BY DEF IInv, FreshOK
<1>3. ChargeOK' /\ AnsweredOK'
    BY DEF IInv, ChargeOK, AnsweredOK
<1>4. ASSUME NEW h \in Handler PROVE HandlerOK(h)'
    <2>1. HandlerOK(h)
        BY DEF IInv
    <2> QED
        BY <2>1 DEF HandlerOK
<1>5. SoleHandler'
    BY DEF IInv, SoleHandler
<1>6. Metered'
    <2>1. \A v \in recent : holder[v] # None =>
            \/ v \in pending \union lost \union Rows
            \/ \E h \in Handler : vc[h] = v /\ pc[h] \in {"link", "log"}
        BY DEF IInv, Metered, Rows
    <2>2. \A v \in Rows' : \E i \in DOMAIN log' : log'[i] = v
        BY DEF Rows
    <2> QED
        BY <2>1, <2>2 DEF Metered
<1> QED
    BY <1>1, <1>2, <1>3, <1>4, <1>5, <1>6 DEF IInv

\* An outstanding write becomes one row,
LEMMA WriteEventStep ==
    ASSUME IInv, NEW v \in Vc, WriteEvent(v)
    PROVE  IInv'
<1>1. /\ v \in pending /\ log' = Append(log, v) /\ pending' = pending \ {v} /\ lost' = lost
      /\ recent' = recent
      /\ UNCHANGED <<issued, holder, links, truncated, answered, locals>>
    BY DEF WriteEvent, core
<1>2. log \in Seq(Vc)
    BY DEF IInv, TypeOK
<1>3. /\ log' \in Seq(Vc) /\ Rows' = Rows \union {v} /\ Len(log') = Len(log) + 1
      /\ log'[Len(log) + 1] = v /\ \A i \in DOMAIN log : log'[i] = log[i]
    BY <1>1, <1>2, RowsAppend
<1>4. Apart'
    <2>1. v \notin Rows /\ v \notin lost
        BY <1>1 DEF IInv, Apart
    <2>2. DOMAIN log' = DOMAIN log \union {Len(log) + 1}
        BY <1>2, <1>3
    <2>3. \A i \in DOMAIN log : log[i] # v
        BY <2>1 DEF Rows
    <2>4. \A i, j \in DOMAIN log' : log'[i] = log'[j] => i = j
        BY <1>3, <2>2, <2>3 DEF IInv, Apart
    <2> QED
        BY <1>1, <1>3, <2>1, <2>4 DEF IInv, Apart
<1> QED
    BY <1>1, <1>3, <1>4, LogOnly

\* or is lost,
LEMMA LoseEventStep ==
    ASSUME IInv, NEW v \in Vc, LoseEvent(v)
    PROVE  IInv'
<1>1. /\ v \in pending /\ log' = log /\ pending' = pending \ {v} /\ lost' = lost \union {v}
      /\ recent' = recent /\ Rows' = Rows
      /\ UNCHANGED <<issued, holder, links, truncated, answered, locals>>
    BY RowsSame DEF LoseEvent, core
<1>2. Apart'
    BY <1>1 DEF IInv, Apart
<1> QED
    BY <1>1, <1>2, LogOnly DEF IInv, TypeOK

\* and the window slides.
LEMMA AgeSteps ==
    ASSUME IInv, AgeVc \/ AgeEvent
    PROVE  IInv'
<1>1. CASE AgeVc
    <2>1. /\ recent' \subseteq recent /\ Rows' = Rows
          /\ UNCHANGED <<issued, holder, links, log, pending, lost, truncated, answered, locals>>
        BY <1>1, RowsSame DEF AgeVc
    <2>2. Apart'
        BY <2>1 DEF IInv, Apart
    <2> QED
        BY <2>1, <2>2, LogOnly DEF IInv, TypeOK
<1>2. CASE AgeEvent
    <2>1. /\ log # <<>> /\ Head(log) \notin recent /\ log' = Tail(log) /\ recent' = recent
          /\ UNCHANGED <<issued, holder, links, pending, lost, truncated, answered, locals>>
        BY <1>2 DEF AgeEvent, core
    <2>2. log \in Seq(Vc)
        BY DEF IInv, TypeOK
    <2>3. /\ log' \in Seq(Vc) /\ Head(log) = log[1]
          /\ \A i \in DOMAIN log' : i + 1 \in DOMAIN log /\ log'[i] = log[i + 1]
          /\ Rows' \subseteq Rows /\ Rows \subseteq Rows' \union {Head(log)}
        BY <2>1, <2>2, RowsTail
    <2>4. Apart'
        <3>1. ASSUME NEW i \in DOMAIN log', NEW j \in DOMAIN log', log'[i] = log'[j]
              PROVE  i = j
            <4>1. i + 1 = j + 1
                BY <2>3, <3>1 DEF IInv, Apart
            <4>2. i \in Int /\ j \in Int
                BY <2>3
            <4> QED
                BY <4>1, <4>2
        <3> QED
            BY <2>1, <2>3, <3>1 DEF IInv, Apart
    <2> QED
        BY <2>1, <2>3, <2>4, LogOnly
<1> QED
    BY <1>1, <1>2

LEMMA NextIInv ==
    IInv /\ [Next]_vars => IInv'
<1> SUFFICES ASSUME IInv, [Next]_vars PROVE IInv'
    OBVIOUS
<1>1. CASE UNCHANGED vars
    <2>1. Rows' = Rows /\ UNCHANGED vars
        BY <1>1, RowsSame DEF vars
    <2>2. Apart'
        BY <2>1 DEF vars, IInv, Apart
    <2> QED
        BY <2>1, <2>2, LogOnly DEF vars, core, IInv, TypeOK
<1>2. ASSUME NEW h \in Handler, \E a \in Account : AccountCall(h, a) PROVE IInv'
    BY <1>2, HandlerOnlySteps
<1>3. ASSUME NEW h \in Handler, AdminCall(h) \/ HandlerStep(h) \/ Abort(h) PROVE IInv'
    BY <1>3, HandlerOnlySteps, IssueVCStep, LinkStep, LetGoSteps DEF HandlerStep
<1>4. ASSUME NEW v \in Vc, WriteEvent(v) \/ LoseEvent(v) PROVE IInv'
    BY <1>4, WriteEventStep, LoseEventStep
<1>5. CASE AgeVc \/ AgeEvent
    BY <1>5, AgeSteps
<1> QED
    BY <1>1, <1>2, <1>3, <1>4, <1>5 DEF Next

LEMMA QuotaInvariant == Spec => []IInv
BY InitIInv, NextIInv, PTL DEF Spec

\* An account is charged at most once for a credential, one that was issued for
\* it and is linked to it (the rows assertUnderDailyQuota counts).
THEOREM QuotaChargedOnce ==
    Spec => []ChargedOnce
<1>1. IInv => ChargedOnce
    <2> SUFFICES ASSUME IInv, NEW i \in DOMAIN log
                 PROVE  /\ log[i] \in 1 .. issued
                        /\ log[i] \notin pending \union lost
                        /\ holder[log[i]] \in Account
                        /\ links[log[i]] = holder[log[i]]
        BY DEF ChargedOnce, IInv, Apart
    <2>1. log[i] \in Rows
        BY DEF Rows
    <2> QED
        BY <2>1 DEF IInv, FreshOK, Apart, ChargeOK
<1> QED
    BY <1>1, QuotaInvariant, PTL

\* Every path through POST /v1/vcs that issues a credential to an account
\* charges it, or the write of the event failed.
THEOREM QuotaMetered ==
    Spec => []Metered
<1>1. IInv => Metered
    BY DEF IInv
<1> QED
    BY <1>1, QuotaInvariant, PTL

\* GET /v1/vcs shows an account the credentials it was answered with, up to the
\* cut of the page.
THEOREM QuotaAnsweredIsListed ==
    Spec => []AnsweredIsListed
<1>1. IInv => AnsweredIsListed
    <2> SUFFICES ASSUME IInv, NEW v \in answered, holder[v] # None, ~(PageLimit <= issued - v)
                 PROVE  v \in ListVCs(holder[v])
        BY DEF AnsweredIsListed
    <2>1. v \in Vc /\ v \in 1 .. issued /\ issued \in Nat /\ links[v] = holder[v]
        BY DEF IInv, TypeOK, FreshOK, AnsweredOK
    <2>2. v \in Nat /\ v <= issued /\ issued < v + PageLimit
        BY <2>1
    <2> QED
        BY <2>1, <2>2 DEF ListVCs, Page
<1> QED
    BY <1>1, QuotaInvariant, PTL

-----------------------------------------------------------------------------
(* Counting what an account is charged.                                     *)

LEMMA CountedSets ==
    ASSUME IInv, NEW a
    PROVE  /\ IsFiniteSet(Vc) /\ Charged(a) \subseteq Vc
           /\ Charged(a) \subseteq Rows \union pending
           /\ IsFiniteSet(Charged(a)) /\ IsFiniteSet(Flight(a))
           /\ IsFiniteSet(pending) /\ IsFiniteSet(lost \intersect RecentOf(a))
           /\ Cardinality(Charged(a)) \in Nat /\ Cardinality(Flight(a)) \in Nat
           /\ Cardinality(pending) \in Nat /\ Cardinality(Handler) \in Nat
           /\ Cardinality(lost \intersect RecentOf(a)) \in Nat
           /\ Cardinality(Flight(a)) <= Cardinality(Handler)
<1>1. IsFiniteSet(Vc)
    BY FS_Interval
<1>2. /\ Charged(a) \subseteq Vc /\ Charged(a) \subseteq Rows \union pending
      /\ pending \subseteq Vc /\ lost \intersect RecentOf(a) \subseteq Vc
    BY DEF Charged, IInv, FreshOK, TypeOK
<1>3. Flight(a) \subseteq Handler /\ IsFiniteSet(Handler)
    BY DEF Flight
<1>4. /\ IsFiniteSet(Charged(a)) /\ IsFiniteSet(pending)
      /\ IsFiniteSet(lost \intersect RecentOf(a))
    BY <1>1, <1>2, FS_Subset
<1>5. IsFiniteSet(Flight(a)) /\ Cardinality(Flight(a)) <= Cardinality(Handler)
    BY <1>3, FS_Subset
<1> QED
    BY <1>1, <1>2, <1>3, <1>4, <1>5, FS_CardinalityType

\* Most steps add nothing to what is charged and let nobody past the check.
LEMMA CountShrinks ==
    ASSUME IInv, CountOK, pending' \subseteq pending, ~truncated' => ~truncated,
           \A a \in Account : Charged(a)' \subseteq Charged(a) /\ Flight(a)' \subseteq Flight(a)
    PROVE  CountOK'
<1>1. Cardinality(pending') <= MaxPending
    <2>1. IsFiniteSet(pending) /\ Cardinality(pending) \in Nat
        BY CountedSets
    <2>2. IsFiniteSet(pending') /\ Cardinality(pending') <= Cardinality(pending)
        BY <2>1, FS_Subset
    <2>3. Cardinality(pending') \in Nat
        BY <2>2, FS_CardinalityType
    <2> QED
        BY <2>1, <2>2, <2>3 DEF CountOK
<1>2. ASSUME NEW a \in Account, ~truncated'
      PROVE  Cardinality(Charged(a)') + Cardinality(Flight(a)') < Limit + Cardinality(Handler) + MaxPending
    <2>1. /\ IsFiniteSet(Charged(a)') /\ Cardinality(Charged(a)') <= Cardinality(Charged(a))
          /\ IsFiniteSet(Flight(a)') /\ Cardinality(Flight(a)') <= Cardinality(Flight(a))
        BY CountedSets, FS_Subset
    <2>2. Cardinality(Charged(a)') \in Nat /\ Cardinality(Flight(a)') \in Nat
        BY <2>1, FS_CardinalityType
    <2>3. Cardinality(Charged(a)) \in Nat /\ Cardinality(Flight(a)) \in Nat /\ Cardinality(Handler) \in Nat
        BY CountedSets
    <2>4. Cardinality(Charged(a)) + Cardinality(Flight(a)) < Limit + Cardinality(Handler) + MaxPending
        BY <1>2 DEF CountOK
    <2> QED
        BY <2>1, <2>2, <2>3, <2>4
<1> QED
    BY <1>1, <1>2 DEF CountOK

\* What the check counts, when the list is not cut: no fewer than the
\* credentials of the account's rows.
LEMMA CountedRows ==
    ASSUME IInv, Len(log) <= ListLimit, NEW a \in Account
    PROVE  LET R == {v \in Rows : holder[v] = a} IN
              /\ IsFiniteSet(R) /\ Cardinality(R) \in Nat
              /\ Counted(a) \in Nat /\ Cardinality(R) <= Counted(a)
<1> DEFINE R == {v \in Rows : holder[v] = a}
           I == {i \in Listed : links[log[i]] = a}
           f == [i \in I |-> log[i]]
<1>1. log \in Seq(Vc) /\ DOMAIN log = 1 .. Len(log) /\ Len(log) \in Nat
    BY DEF IInv, TypeOK
<1>2. Listed = DOMAIN log
    BY <1>1 DEF Listed
<1>3. IsFiniteSet(I)
    <2>1. IsFiniteSet(1 .. Len(log))
        BY <1>1, FS_Interval
    <2>2. I \in SUBSET (1 .. Len(log))
        BY <1>1, <1>2
    <2> QED
        BY <2>1, <2>2, FS_Subset
<1>4. f \in Surjection(I, R)
    <2>1. \A i \in I : log[i] \in R
        BY <1>2 DEF Rows, IInv, ChargeOK
    <2>2. \A v \in R : \E i \in I : log[i] = v
        BY <1>2 DEF Rows, IInv, ChargeOK
    <2> QED
        BY <2>1, <2>2 DEF Surjection
<1>5. IsFiniteSet(R) /\ Cardinality(R) <= Cardinality(I)
    BY <1>3, <1>4, FS_Surjection
<1>6. Cardinality(R) \in Nat /\ Cardinality(I) \in Nat
    BY <1>3, <1>5, FS_CardinalityType
<1> QED
    BY <1>5, <1>6 DEF Counted

\* At most as many in a union as in its parts.
LEMMA UnionBound ==
    ASSUME NEW S, NEW T, IsFiniteSet(S), IsFiniteSet(T)
    PROVE  /\ IsFiniteSet(S \union T) /\ Cardinality(S \union T) \in Nat
           /\ Cardinality(S \union T) <= Cardinality(S) + Cardinality(T)
<1>1. IsFiniteSet(S \intersect T)
    BY FS_Subset
<1>2. /\ Cardinality(S) \in Nat /\ Cardinality(T) \in Nat /\ Cardinality(S \intersect T) \in Nat
    BY <1>1, FS_CardinalityType
<1>3. /\ IsFiniteSet(S \union T)
      /\ Cardinality(S \union T) = Cardinality(S) + Cardinality(T) - Cardinality(S \intersect T)
    BY FS_Union
<1>4. Cardinality(S \union T) \in Nat
    BY <1>3, FS_CardinalityType
<1>5. Cardinality(S \union T) <= Cardinality(S) + Cardinality(T)
    BY <1>2, <1>3
<1> QED
    BY <1>3, <1>4, <1>5

\* The check: whoever passes it saw less than Limit rows of its account.
LEMMA CheckQuotaC ==
    ASSUME IInv, CountOK, NEW h \in Handler, CheckQuota(h)
    PROVE  CountOK'
<1>0. truncated' = (truncated \/ Len(log) > ListLimit)
    BY Zenon DEF CheckQuota
<1>1. /\ pc[h] = "quota" /\ (~truncated' => ~truncated)
      /\ UNCHANGED <<issued, holder, recent, links, log, pending, lost, answered>>
    <2>1. pc[h] = "quota" /\ UNCHANGED <<issued, holder, recent, links, log, pending, lost, answered>>
        BY DEF CheckQuota, core
    <2> QED
        BY <1>0, <2>1, Zenon
<1>2. Rows' = Rows /\ \A a : Charged(a)' = Charged(a)
    BY <1>1, RowsSame DEF Charged
<1>3. CASE Finish(h)
    <2>1. \A a \in Account : Flight(a)' \subseteq Flight(a)
        BY <1>3 DEF Flight, Finish, Goto, IInv, TypeOK
    <2> QED
        BY <1>1, <1>2, <2>1, CountShrinks
<1>4. CASE UnderQuota(caller[h]) /\ Goto(h, "issue") /\ UNCHANGED <<caller, vc>>
    <2>1. Cardinality(pending) <= MaxPending
        BY DEF CountOK
    <2>2. ASSUME NEW a \in Account, ~truncated'
          PROVE  Cardinality(Charged(a)) + Cardinality(Flight(a)') < Limit + Cardinality(Handler) + MaxPending
        <3> DEFINE R == {v \in Rows : holder[v] = a}
        <3>1. ~truncated /\ Len(log) <= ListLimit
            <4>1. ~truncated /\ ~(Len(log) > ListLimit)
                BY <1>0, <2>2, Zenon
            <4>2. log \in Seq(Vc)
                BY DEF IInv, TypeOK
            <4>3. Len(log) \in Nat
                BY <4>2
            <4> QED
                BY <4>1, <4>3
        <3>2. CASE a = caller[h]
            <4>1. /\ IsFiniteSet(R) /\ Cardinality(R) \in Nat
                  /\ Counted(a) \in Nat /\ Cardinality(R) <= Counted(a)
                BY <3>1, CountedRows
            <4>2. Counted(a) < Limit
                BY <1>4, <3>2 DEF UnderQuota
            <4>3. IsFiniteSet(R \union pending)
                  /\ Cardinality(R \union pending) <= Cardinality(R) + Cardinality(pending)
                BY <4>1, CountedSets, UnionBound
            <4>4. Charged(a) \subseteq R \union pending
                BY DEF Charged
            <4>5. Cardinality(Charged(a)) <= Cardinality(R \union pending)
                BY <4>3, <4>4, FS_Subset
            <4>6. Cardinality(R \union pending) \in Nat
                BY <4>3, FS_CardinalityType
            <4>7. /\ IsFiniteSet(Flight(a)') /\ Cardinality(Flight(a)') \in Nat
                  /\ Cardinality(Flight(a)') <= Cardinality(Handler)
                <5>1. Flight(a)' \subseteq Handler /\ IsFiniteSet(Handler)
                    BY DEF Flight
                <5>2. IsFiniteSet(Flight(a)') /\ Cardinality(Flight(a)') <= Cardinality(Handler)
                    BY <5>1, FS_Subset
                <5> QED
                    BY <5>2, FS_CardinalityType
            <4>8. /\ Cardinality(Charged(a)) \in Nat /\ Cardinality(pending) \in Nat
                  /\ Cardinality(Handler) \in Nat
                BY CountedSets
            <4> QED
                BY <2>1, <4>1, <4>2, <4>3, <4>5, <4>6, <4>7, <4>8
        <3>3. CASE a # caller[h]
            <4>1. Flight(a)' = Flight(a)
                BY <1>4, <3>3 DEF Flight, Goto, IInv, TypeOK
            <4> QED
                BY <3>1, <4>1 DEF CountOK
        <3> QED
            BY <3>2, <3>3
    <2> QED
        BY <1>1, <1>2, <2>1, <2>2 DEF CountOK
<1> QED
    BY <1>3, <1>4 DEF CheckQuota

\* The answer: one request fewer, one write more.
LEMMA LogC ==
    ASSUME IInv, CountOK, NEW h \in Handler, Log(h)
    PROVE  CountOK'
<1> DEFINE n == vc[h]
<1>1. /\ pc[h] = "log" /\ Cardinality(pending) < MaxPending
      /\ pending' = pending \union {n}
      /\ UNCHANGED <<holder, log, truncated>>
      /\ Rows' = Rows
    BY RowsSame DEF Log, core
<1>2. /\ n \notin Rows \union pending /\ caller[h] = holder[n] /\ caller[h] \in Account
      /\ pc'[h] = "idle"
      /\ \A g \in Handler \ {h} : pc'[g] = pc[g] /\ caller'[g] = caller[g]
    BY <1>1 DEF IInv, TypeOK, HandlerOK, Log, Finish, Goto
<1> HIDE DEF n
<1>3. Cardinality(pending') <= MaxPending
    <2>1. Cardinality(pending') = Cardinality(pending) + 1
        BY <1>1, <1>2, CountedSets, FS_AddElement
    <2>2. Cardinality(pending) \in Nat
        BY CountedSets
    <2> QED
        BY <1>1, <2>1, <2>2
<1>4. ASSUME NEW a \in Account, ~truncated'
      PROVE  Cardinality(Charged(a)') + Cardinality(Flight(a)') < Limit + Cardinality(Handler) + MaxPending
    <2>1. Cardinality(Charged(a)) + Cardinality(Flight(a)) < Limit + Cardinality(Handler) + MaxPending
        BY <1>1, <1>4 DEF CountOK
    <2>2. IsFiniteSet(Charged(a)) /\ IsFiniteSet(Flight(a))
          /\ Cardinality(Charged(a)) \in Nat /\ Cardinality(Flight(a)) \in Nat
        BY CountedSets
    <2>3. CASE a = holder[n]
        <3>1. Charged(a)' = Charged(a) \union {n} /\ n \notin Charged(a)
            BY <1>1, <1>2, <2>3 DEF Charged
        <3>2. Flight(a)' = Flight(a) \ {h} /\ h \in Flight(a)
            BY <1>1, <1>2, <2>3 DEF Flight
        <3>3. Cardinality(Charged(a)') = Cardinality(Charged(a)) + 1
            BY <2>2, <3>1, FS_AddElement
        <3>4. Cardinality(Flight(a)') = Cardinality(Flight(a)) - 1
            BY <2>2, <3>2, FS_RemoveElement
        <3> QED
            BY <2>1, <2>2, <3>3, <3>4
    <2>4. CASE a # holder[n]
        <3>1. Charged(a)' = Charged(a)
            BY <1>1, <2>4 DEF Charged
        <3>2. Flight(a)' = Flight(a)
            BY <1>1, <1>2, <2>4 DEF Flight
        <3> QED
            BY <2>1, <3>1, <3>2
    <2> QED
        BY <2>3, <2>4
<1> QED
    BY <1>3, <1>4 DEF CountOK

\* The others: a step that charges nobody and lets nobody past the check.
LEMMA ChargesNobody ==
    ASSUME IInv, CountOK, pending' \subseteq pending, truncated' = truncated,
           Rows' \union pending' \subseteq Rows \union pending,
           \A v \in Rows \union pending : holder'[v] = holder[v],
           \A g \in Handler : caller'[g] \in Account /\ pc'[g] \in {"issue", "link", "log"}
                => caller'[g] = caller[g] /\ pc[g] \in {"issue", "link", "log"}
    PROVE  CountOK'
<1>1. \A a \in Account : Charged(a)' \subseteq Charged(a)
    BY DEF Charged
<1>2. \A a \in Account : Flight(a)' \subseteq Flight(a)
    BY DEF Flight
<1> QED
    BY <1>1, <1>2, CountShrinks

LEMMA OtherHandlerC ==
    ASSUME IInv, CountOK, NEW h \in Handler,
           \/ AdminCall(h) \/ (\E a \in Account : AccountCall(h, a))
           \/ IssueVC(h) \/ Link(h) \/ Respond(h) \/ Abort(h)
    PROVE  CountOK'
<1> USE DEF core
<1>1. /\ pending' = pending /\ log' = log /\ truncated' = truncated
    BY DEF AdminCall, AccountCall, IssueVC, Link, Respond, Abort
<1>2. Rows' = Rows
    BY <1>1, RowsSame
<1>3. \A v \in Rows \union pending : holder'[v] = holder[v]
    <2>1. CASE IssueVC(h)
        <3>1. holder' = [holder EXCEPT ![issued + 1] = caller[h]] /\ issued \in Nat
            BY <2>1 DEF IssueVC, IInv, TypeOK
        <3>2. Rows \union pending \subseteq 1 .. issued /\ 1 .. issued \subseteq Vc
            BY DEF IInv, FreshOK, TypeOK
        <3>3. issued + 1 \notin Rows \union pending
            BY <3>1, <3>2
        <3>4. Rows \union pending \subseteq DOMAIN holder
            BY <3>2 DEF IInv, TypeOK
        <3> QED
            BY <3>1, <3>3, <3>4
    <2>2. CASE ~IssueVC(h)
        BY <2>2 DEF AdminCall, AccountCall, Link, Respond, Abort
    <2> QED
        BY <2>1, <2>2
<1>4. ASSUME NEW g \in Handler, caller'[g] \in Account, pc'[g] \in {"issue", "link", "log"}
      PROVE  caller'[g] = caller[g] /\ pc[g] \in {"issue", "link", "log"}
    <2>1. pc \in [Handler -> PC] /\ caller \in [Handler -> Account \union {None}]
          /\ (pc[h] = "idle" => caller[h] = None)
        BY DEF IInv, TypeOK, HandlerOK
    <2>2. CASE g # h
        BY <1>4, <2>1, <2>2 DEF AdminCall, AccountCall, IssueVC, Link, Respond, Abort, Finish, Goto
    <2>3. CASE g = h
        BY <1>4, <2>1, <2>3 DEF AdminCall, AccountCall, IssueVC, Link, Respond, Abort, Finish, Goto
    <2> QED
        BY <2>2, <2>3
<1> QED
    BY <1>1, <1>2, <1>3, <1>4, ChargesNobody

LEMMA OutsideC ==
    ASSUME IInv, CountOK,
           \/ \E v \in Vc : WriteEvent(v) \/ LoseEvent(v)
           \/ AgeVc \/ AgeEvent \/ UNCHANGED vars
    PROVE  CountOK'
<1> USE DEF core, locals
<1>1. pending' \subseteq pending /\ UNCHANGED <<holder, truncated, locals>>
    BY DEF WriteEvent, LoseEvent, AgeVc, AgeEvent, vars
<1>2. Rows' \union pending' \subseteq Rows \union pending
    <2>1. log \in Seq(Vc)
        BY DEF IInv, TypeOK
    <2>2. ASSUME NEW v \in Vc, WriteEvent(v) PROVE Rows' \union pending' \subseteq Rows \union pending
        BY <2>1, <2>2, RowsAppend DEF WriteEvent
    <2>3. CASE AgeEvent
        BY <2>1, <2>3, RowsTail DEF AgeEvent
    <2>4. CASE UNCHANGED log
        BY <1>1, <2>4, RowsSame
    <2> QED
        BY <2>2, <2>3, <2>4 DEF LoseEvent, AgeVc, vars
<1> QED
    BY <1>1, <1>2, ChargesNobody

LEMMA NextCountOK ==
    IInv /\ CountOK /\ [Next]_vars => CountOK'
BY CheckQuotaC, LogC, OtherHandlerC, OutsideC DEF Next, HandlerStep

\* What races with the check is bounded: the requests in flight, the writes
\* outstanding, and the events that were lost (assertUnderDailyQuota counts
\* before POST /v1/vcs charges).
THEOREM QuotaOvershootBounded ==
    Spec => []OvershootBounded
<1>1. Init => CountOK
    <2> SUFFICES ASSUME Init PROVE CountOK
        OBVIOUS
    <2>1. Rows = {} /\ pending = {}
        BY DEF Init, Rows
    <2>2. \A a \in Account : Charged(a) = {} /\ Flight(a) = {}
        BY <2>1 DEF Init, Charged, Flight
    <2>3. Cardinality(Handler) \in Nat
        BY FS_CardinalityType
    <2> QED
        BY <2>1, <2>2, <2>3, FS_EmptySet DEF CountOK
<1>2. IInv /\ CountOK => OvershootBounded
    <2> SUFFICES ASSUME IInv, CountOK, ~truncated, NEW a \in Account
                 PROVE  Cardinality(RecentOf(a)) <
                            Limit + Cardinality(Handler) + MaxPending
                              + Cardinality(lost \intersect RecentOf(a))
        BY DEF OvershootBounded
    <2> DEFINE C == Charged(a)
               F == Flight(a)
               L == lost \intersect RecentOf(a)
               f == [h \in F |-> vc[h]]
               H == {vc[h] : h \in F}
    <2>1. /\ IsFiniteSet(C) /\ IsFiniteSet(F) /\ IsFiniteSet(L)
          /\ Cardinality(C) \in Nat /\ Cardinality(F) \in Nat /\ Cardinality(L) \in Nat
          /\ Cardinality(Handler) \in Nat
        BY CountedSets
    <2>2. f \in Surjection(F, H)
        BY DEF Surjection
    <2>3. IsFiniteSet(H) /\ Cardinality(H) <= Cardinality(F) /\ Cardinality(H) \in Nat
        BY <2>1, <2>2, FS_Surjection, FS_CardinalityType
    <2>4. RecentOf(a) \subseteq (C \union H) \union L
        <3> SUFFICES ASSUME NEW v \in recent, holder[v] = a, v \notin lost
                     PROVE  v \in C \union H
            BY DEF RecentOf
        <3>1. \/ v \in pending \/ \E i \in DOMAIN log : log[i] = v
              \/ \E h \in Handler : vc[h] = v /\ pc[h] \in {"link", "log"}
            BY DEF IInv, Metered
        <3>2. CASE v \in pending \/ \E i \in DOMAIN log : log[i] = v
            BY <3>2 DEF Charged, Rows
        <3>3. ASSUME NEW h \in Handler, vc[h] = v, pc[h] \in {"link", "log"}
              PROVE  v \in H
            <4>1. caller[h] = a
                BY <3>3 DEF IInv, HandlerOK
            <4> QED
                BY <3>3, <4>1 DEF Flight
        <3> QED
            BY <3>1, <3>2, <3>3
    <2> HIDE DEF C, F, L, H, f
    <2>5. /\ IsFiniteSet(C \union H) /\ Cardinality(C \union H) \in Nat
          /\ Cardinality(C \union H) <= Cardinality(C) + Cardinality(H)
        BY <2>1, <2>3, UnionBound
    <2>6. /\ IsFiniteSet((C \union H) \union L) /\ Cardinality((C \union H) \union L) \in Nat
          /\ Cardinality((C \union H) \union L) <= Cardinality(C \union H) + Cardinality(L)
        BY <2>1, <2>5, UnionBound
    <2>7. Cardinality(RecentOf(a)) <= Cardinality((C \union H) \union L)
          /\ Cardinality(RecentOf(a)) \in Nat
        BY <2>4, <2>6, FS_Subset, FS_CardinalityType
    <2>8. Cardinality(C) + Cardinality(F) < Limit + Cardinality(Handler) + MaxPending
        BY DEF CountOK, C, F
    <2>9. Cardinality(RecentOf(a)) < Limit + Cardinality(Handler) + MaxPending + Cardinality(L)
        BY <2>1, <2>3, <2>5, <2>6, <2>7, <2>8
    <2> QED
        BY <2>9 DEF L
<1> QED
    BY <1>1, <1>2, QuotaInvariant, NextCountOK, PTL DEF Spec

=============================================================================
