--------------------------- MODULE ConsentProofs ---------------------------
(***************************************************************************)
(* Proofs about Consent, for any handlers, scopes and number of grants.     *)
(* IInv is inductive: one lemma per action, one step per conjunct.  DInv    *)
(* adds what holds while no two updates crossed and no start found the file *)
(* cut short: then nothing that was answered is lost.                       *)
(***************************************************************************)
EXTENDS Consent, FiniteSetTheorems, TLAPS

USE ConsentAssumption DEF Grant, NoGrant, Foreign, State, Damaged

\* Nothing is signed, answered or run yet.
LEMMA InitIInv == Init => IInv
<1> SUFFICES ASSUME Init PROVE IInv
    OBVIOUS
<1> USE DEF Init, Fresh
<1>1. TypeOK
  <2>1. /\ mem \in State /\ disk \in State \union {Damaged} /\ burst \subseteq State
        /\ valid \subseteq Grant
    OBVIOUS
  <2>2. issued \in 0 .. MaxGrants /\ scopes \in [Grant -> SUBSET Scope]
    OBVIOUS
  <2>3. /\ pc \in [Handler -> PC]
        /\ seen \in [Handler -> SUBSET Grant]
        /\ subject \in [Handler -> Grant \union {NoGrant, Foreign}]
        /\ chosen \in [Handler -> SUBSET Scope]
        /\ late \subseteq Handler
    BY DEF PC
  <2>4. /\ answered \subseteq Grant /\ withdrawn \subseteq Grant
        /\ runs \subseteq (Grant \union {NoGrant, Foreign}) \X Scope
        /\ lateRun \in BOOLEAN /\ crossed \in BOOLEAN /\ cut \in BOOLEAN
    OBVIOUS
  <2>5. QED
    BY ONLY <2>1, <2>2, <2>3, <2>4, Zenon DEF TypeOK
<1>2. HandlersOK
    BY DEF HandlersOK
<1>3. StoreOK
    BY DEF StoreOK
<1>4. RunsAreConsented
    BY DEF RunsAreConsented
<1>5. QED
    BY <1>1, <1>2, <1>3, <1>4 DEF IInv

\* A selection is taken up: only the handler's locals and a history flag change.
LEMMA AcceptStep ==
    ASSUME IInv, NEW h \in Handler, NEW S \in SUBSET Scope, Accept(h, S)
    PROVE  IInv'
<1> USE DEF IInv, TypeOK, store, locals, history, Accept, Start, Goto
<1>1. TypeOK'
    BY DEF PC, HandlersOK, StoreOK
<1>2. HandlersOK'
    BY DEF PC, HandlersOK, StoreOK
<1>3. StoreOK'
    BY DEF HandlersOK, StoreOK
<1>4. RunsAreConsented'
    BY DEF HandlersOK, RunsAreConsented
<1>5. QED
    BY <1>1, <1>2, <1>3, <1>4

\* The new grant is the next number, so no answered grant changes its scopes.
LEMMA IssueGrantStep ==
    ASSUME IInv, NEW h \in Handler, IssueGrant(h)
    PROVE  IInv'
<1> USE DEF IInv, TypeOK, store, locals, history, IssueGrant, Goto, Record
<1>1. TypeOK'
    BY DEF PC, HandlersOK, StoreOK
<1>2. HandlersOK'
    BY DEF PC, HandlersOK, StoreOK
<1>3. StoreOK'
    BY DEF HandlersOK, StoreOK
<1>4. RunsAreConsented'
    BY DEF HandlersOK, RunsAreConsented
<1>5. QED
    BY <1>1, <1>2, <1>3, <1>4

\* A revocation is of a grant the store knows, hence of one that was signed.
LEMMA RevokeStep ==
    ASSUME IInv, NEW h \in Handler, NEW g \in Grant, Revoke(h, g)
    PROVE  IInv'
<1> USE DEF IInv, TypeOK, store, locals, history, Revoke, Start, Goto
<1>1. TypeOK'
    BY DEF PC, HandlersOK, StoreOK
<1>2. HandlersOK'
    BY DEF PC, HandlersOK, StoreOK
<1>3. StoreOK'
    BY DEF HandlersOK, StoreOK
<1>4. RunsAreConsented'
    BY DEF HandlersOK, RunsAreConsented
<1>5. QED
    BY <1>1, <1>2, <1>3, <1>4

\* Only bits of the list change.
LEMMA ReplaceStatusListStep ==
    ASSUME IInv, NEW h \in Handler, ReplaceStatusList(h)
    PROVE  IInv'
<1> USE DEF IInv, TypeOK, store, locals, history, ReplaceStatusList, Goto
<1>1. TypeOK'
    BY DEF PC, HandlersOK, StoreOK
<1>2. HandlersOK'
    BY DEF PC, HandlersOK, StoreOK
<1>3. StoreOK'
    BY DEF HandlersOK, StoreOK
<1>4. RunsAreConsented'
    BY DEF HandlersOK, RunsAreConsented
<1>5. QED
    BY <1>1, <1>2, <1>3, <1>4

\* The file is cut short and the memory is on its way to it.
LEMMA BeginWriteStep ==
    ASSUME IInv, NEW h \in Handler, BeginWrite(h)
    PROVE  IInv'
<1> USE DEF IInv, TypeOK, store, locals, history, BeginWrite, Goto
<1>1. TypeOK'
    BY DEF PC, HandlersOK, StoreOK
<1>2. HandlersOK'
    BY DEF PC, HandlersOK, StoreOK
<1>3. StoreOK'
    BY DEF HandlersOK, StoreOK
<1>4. RunsAreConsented'
    BY DEF HandlersOK, RunsAreConsented
<1>5. QED
    BY <1>1, <1>2, <1>3, <1>4

\* A write lands, or a mixture; what is answered was signed.
LEMMA EndWriteStep ==
    ASSUME IInv, NEW h \in Handler, EndWrite(h)
    PROVE  IInv'
<1> USE DEF IInv, TypeOK, store, locals, history, EndWrite, Finish, Goto, Landed
<1>1. TypeOK'
  <2>1. subject[h] \in Grant
    BY DEF HandlersOK
  <2>2. disk' \in State \union {Damaged} /\ burst' \subseteq State
    <3>1. CASE Writing = {h}
      BY <3>1
    <3>2. CASE Writing # {h}
      BY <3>2
    <3>3. QED
      BY <3>1, <3>2
  <2>3. answered' \subseteq Grant /\ withdrawn' \subseteq Grant
    BY <2>1
  <2>4. /\ pc' \in [Handler -> PC]
        /\ seen' \in [Handler -> SUBSET Grant]
        /\ subject' \in [Handler -> Grant \union {NoGrant, Foreign}]
        /\ chosen' \in [Handler -> SUBSET Scope]
        /\ late' \subseteq Handler
    BY DEF PC
  <2>5. /\ issued' \in 0 .. MaxGrants
        /\ scopes' \in [Grant -> SUBSET Scope]
        /\ mem' \in State
        /\ valid' \subseteq Grant
        /\ runs' \subseteq (Grant \union {NoGrant, Foreign}) \X Scope
        /\ lateRun' \in BOOLEAN /\ crossed' \in BOOLEAN /\ cut' \in BOOLEAN
    OBVIOUS
  <2>6. QED
    BY ONLY <2>2, <2>3, <2>4, <2>5, Zenon DEF TypeOK
<1>2. HandlersOK'
  <2>1. answered \subseteq answered' /\ answered' \subseteq 1 .. issued'
    BY DEF HandlersOK
  <2>2. ASSUME NEW k \in Handler
        PROVE  /\ pc'[k] \in {"flip", "mkdir", "write"} => subject'[k] \in 1 .. issued'
               /\ pc'[k] \in {"fetch", "decide"} =>
                    subject'[k] \in answered' \union {NoGrant, Foreign}
    <3>1. CASE k = h
      BY <3>1
    <3>2. CASE k # h
      <4>1. pc'[k] = pc[k] /\ subject'[k] = subject[k] /\ issued' = issued
        BY <3>2
      <4>2. QED
        BY ONLY <4>1, <2>1, IInv DEF IInv, HandlersOK
    <3>3. QED
      BY <3>1, <3>2
  <2>3. QED
    BY <2>1, <2>2 DEF HandlersOK
<1>3. StoreOK'
    BY DEF HandlersOK, StoreOK
<1>4. RunsAreConsented'
    BY DEF HandlersOK, RunsAreConsented
<1>5. QED
    BY <1>1, <1>2, <1>3, <1>4

\* What a call presents was answered, is foreign, or is nothing.
LEMMA CallStep ==
    ASSUME IInv, NEW h \in Handler, NEW s \in Scope, NEW p \in Grant \union {NoGrant, Foreign}, Call(h, s, p)
    PROVE  IInv'
<1> USE DEF IInv, TypeOK, store, locals, history, Call, Start, Goto
<1>1. TypeOK'
    BY DEF PC, HandlersOK, StoreOK
<1>2. HandlersOK'
    BY DEF PC, HandlersOK, StoreOK
<1>3. StoreOK'
    BY DEF HandlersOK, StoreOK
<1>4. RunsAreConsented'
    BY DEF HandlersOK, RunsAreConsented
<1>5. QED
    BY <1>1, <1>2, <1>3, <1>4

\* Only the handler's locals change.
LEMMA FetchStatusListStep ==
    ASSUME IInv, NEW h \in Handler, FetchStatusList(h)
    PROVE  IInv'
<1> USE DEF IInv, TypeOK, store, locals, history, FetchStatusList, Goto
<1>1. TypeOK'
    BY DEF PC, HandlersOK, StoreOK
<1>2. HandlersOK'
    BY DEF PC, HandlersOK, StoreOK
<1>3. StoreOK'
    BY DEF HandlersOK, StoreOK
<1>4. RunsAreConsented'
    BY DEF HandlersOK, RunsAreConsented
<1>5. QED
    BY <1>1, <1>2, <1>3, <1>4

\* The gate: a grant of this provider that was presented was answered.
LEMMA RunToolStep ==
    ASSUME IInv, NEW h \in Handler, RunTool(h)
    PROVE  IInv'
<1> USE DEF IInv, TypeOK, store, locals, history, RunTool, Finish, Goto, Verifies, MayRun, EffectiveScopes
<1>1. TypeOK'
    BY DEF PC, HandlersOK, StoreOK
<1>2. HandlersOK'
    BY DEF PC, HandlersOK, StoreOK
<1>3. StoreOK'
    BY DEF HandlersOK, StoreOK
<1>4. RunsAreConsented'
    BY DEF HandlersOK, RunsAreConsented
<1>5. QED
    BY <1>1, <1>2, <1>3, <1>4

\* Only the handler's locals change.
LEMMA DenyStep ==
    ASSUME IInv, NEW h \in Handler, Deny(h)
    PROVE  IInv'
<1> USE DEF IInv, TypeOK, store, locals, history, Deny, Finish, Goto
<1>1. TypeOK'
    BY DEF PC, HandlersOK, StoreOK
<1>2. HandlersOK'
    BY DEF PC, HandlersOK, StoreOK
<1>3. StoreOK'
    BY DEF HandlersOK, StoreOK
<1>4. RunsAreConsented'
    BY DEF HandlersOK, RunsAreConsented
<1>5. QED
    BY <1>1, <1>2, <1>3, <1>4

\* What the handler wrote stays.
LEMMA AbortStep ==
    ASSUME IInv, NEW h \in Handler, Abort(h)
    PROVE  IInv'
<1> USE DEF IInv, TypeOK, store, locals, history, Abort, Finish, Goto
<1>1. TypeOK'
    BY DEF PC, HandlersOK, StoreOK
<1>2. HandlersOK'
    BY DEF PC, HandlersOK, StoreOK
<1>3. StoreOK'
    BY DEF HandlersOK, StoreOK
<1>4. RunsAreConsented'
    BY DEF HandlersOK, RunsAreConsented
<1>5. QED
    BY <1>1, <1>2, <1>3, <1>4

\* A start finds the file as a write left it, or nothing.
LEMMA RestartStep ==
    ASSUME IInv, Restart
    PROVE  IInv'
<1> USE DEF IInv, TypeOK, Restart, Boot, Opened, Fresh
<1>1. TypeOK'
    BY DEF PC
<1>2. HandlersOK'
    BY DEF HandlersOK
<1>3. StoreOK'
    BY DEF StoreOK
<1>4. RunsAreConsented'
    BY DEF RunsAreConsented
<1>5. QED
    BY <1>1, <1>2, <1>3, <1>4

\* The seeder leaves an empty file.
LEMMA ReseedStep ==
    ASSUME IInv, Reseed
    PROVE  IInv'
<1> USE DEF IInv, TypeOK, Reseed, Boot, Fresh
<1>1. TypeOK'
    BY DEF PC
<1>2. HandlersOK'
    BY DEF HandlersOK
<1>3. StoreOK'
    BY DEF StoreOK
<1>4. RunsAreConsented'
    BY DEF RunsAreConsented
<1>5. QED
    BY <1>1, <1>2, <1>3, <1>4

LEMMA StutterStep == IInv /\ UNCHANGED vars => IInv'
BY DEF IInv, TypeOK, HandlersOK, StoreOK, RunsAreConsented, vars, store, locals, history,
       PC

LEMMA NextIInv == IInv /\ [Next]_vars => IInv'
<1> SUFFICES ASSUME IInv, [Next]_vars PROVE IInv'
    OBVIOUS
<1>1. ASSUME NEW h \in Handler, NEW S \in SUBSET Scope, Accept(h, S) PROVE IInv'
    BY <1>1, AcceptStep
<1>2. ASSUME NEW h \in Handler, NEW g \in Grant, Revoke(h, g) PROVE IInv'
    BY <1>2, RevokeStep
<1>3. ASSUME NEW h \in Handler, NEW s \in Scope,
             NEW p \in Grant \union {NoGrant, Foreign}, Call(h, s, p) PROVE IInv'
    BY <1>3, CallStep
<1>4. ASSUME NEW h \in Handler, HandlerStep(h) PROVE IInv'
    BY <1>4, IssueGrantStep, ReplaceStatusListStep, BeginWriteStep, EndWriteStep,
       FetchStatusListStep, RunToolStep, DenyStep DEF HandlerStep
<1>5. ASSUME NEW h \in Handler, Abort(h) PROVE IInv'
    BY <1>5, AbortStep
<1>6. CASE Restart
    BY <1>6, RestartStep
<1>7. CASE Reseed
    BY <1>7, ReseedStep
<1>8. CASE UNCHANGED vars
    BY <1>8, StutterStep
<1>9. QED
    BY <1>1, <1>2, <1>3, <1>4, <1>5, <1>6, <1>7, <1>8 DEF Next

-----------------------------------------------------------------------------

\* Every state of a service provider satisfies the invariant.
THEOREM ConsentInvariant == Spec => []IInv
<1>1. Init => IInv
    BY InitIInv
<1>2. IInv /\ [Next]_vars => IInv'
    BY NextIInv
<1>3. QED
    BY <1>1, <1>2, PTL DEF Spec

\* A scoped tool runs only with a grant of this provider that was answered and
\* carries the scope, within the agent's own authority, whatever is revoked,
\* overwritten, lost or restarted meanwhile.
THEOREM ConsentRunsAreConsented == Spec => []RunsAreConsented
<1>1. IInv => RunsAreConsented
    BY DEF IInv
<1>2. QED
    BY <1>1, ConsentInvariant, PTL

-----------------------------------------------------------------------------
(* What survives, as long as no two updates crossed and no start found the   *)
(* file cut short: an update has the store to itself, so what it read is     *)
(* what it replaces, and what it writes is what the memory holds.            *)

SoleUpdate ==
    \A g, h \in Handler : Updating(g) /\ Updating(h) => g = h

\* The update of handler h between its awaits.
UpdateOK(h) ==
    /\ pc[h] \in {"sign", "flip"} => seen[h] = mem.bits
    /\ pc[h] = "sign" => chosen[h] # {}
    /\ pc[h] = "flip" => chosen[h] = {}
    /\ pc[h] \in {"mkdir", "write"} =>
        \/ chosen[h] = {} /\ subject[h] \in mem.bits
        \/ chosen[h] # {} /\ subject[h] \in mem.grants \intersect valid
    /\ pc[h] = "write" => burst = {mem}

\* A call that began late fetches a list with its grant on it.
CallOK(h) ==
    h \in late =>
        /\ pc[h] \in {"fetch", "decide"} /\ subject[h] \in withdrawn
        /\ pc[h] = "decide" => subject[h] \in seen[h]

Durable ==
    /\ SoleUpdate
    /\ \A h \in Handler : UpdateOK(h) /\ CallOK(h)
    /\ answered \subseteq mem.grants \intersect valid
    /\ withdrawn \subseteq mem.bits
    /\ disk # Damaged => answered \subseteq disk.grants /\ withdrawn \subseteq disk.bits
    /\ ~lateRun

DInv == Calm => Durable

LEMMA InitDurable == Init => Durable
BY DEF Init, Fresh, Durable, SoleUpdate, Updating, UpdateOK, CallOK

\* A handler that is not updating, and no later than before in its call, keeps
\* its part of Durable whatever happens to the store.
LEMMA NotUpdating ==
    ASSUME NEW g \in Handler, pc[g] \notin {"sign", "flip", "mkdir", "write"}
    PROVE  UpdateOK(g) /\ ~Updating(g)
BY DEF UpdateOK, Updating

\* The other handlers, when handler h alone takes a step.
LEMMA OthersDurable ==
    ASSUME IInv, Durable, NEW h \in Handler,
           \A g \in Handler \ {h} :
              /\ pc'[g] = pc[g] /\ seen'[g] = seen[g] /\ subject'[g] = subject[g]
              /\ chosen'[g] = chosen[g] /\ (g \in late' <=> g \in late),
           withdrawn \subseteq withdrawn',
           Updating(h) \/ UNCHANGED <<mem, valid>>,
           Updating(h) \/ burst' = burst \/ Writing \subseteq {h}
    PROVE  \A g \in Handler \ {h} :
              /\ UpdateOK(g)' /\ CallOK(g)' /\ (Updating(g)' <=> Updating(g))
<1> SUFFICES ASSUME NEW g \in Handler \ {h}
             PROVE  UpdateOK(g)' /\ CallOK(g)' /\ (Updating(g)' <=> Updating(g))
    OBVIOUS
<1>1. UpdateOK(g) /\ CallOK(g)
    BY DEF Durable
<1>2. CallOK(g)'
    BY <1>1 DEF CallOK
<1>3. Updating(g)' <=> Updating(g)
    BY DEF Updating
<1>4. CASE Updating(h)
    <2>1. ~Updating(g)
        BY <1>4 DEF Durable, SoleUpdate
    <2> QED
        BY <1>2, <1>3, <2>1 DEF Updating, UpdateOK
<1>5. CASE ~Updating(h)
    <2>1. pc[g] = "write" => burst' = burst
        BY <1>5 DEF Writing
    <2> QED
        BY <1>1, <1>2, <1>3, <1>5, <2>1 DEF UpdateOK
<1> QED
    BY <1>4, <1>5

\* A handler that is done has nothing to keep.
LEMMA FinishDurable ==
    ASSUME IInv, NEW h \in Handler, Finish(h)
    PROVE  /\ pc'[h] = "idle" /\ UpdateOK(h)' /\ CallOK(h)' /\ ~Updating(h)'
           /\ \A g \in Handler \ {h} :
                /\ pc'[g] = pc[g] /\ seen'[g] = seen[g] /\ subject'[g] = subject[g]
                /\ chosen'[g] = chosen[g] /\ (g \in late' <=> g \in late)
<1>1. pc'[h] = "idle" /\ h \notin late'
    BY DEF Finish, Goto, IInv, TypeOK
<1>2. \A g \in Handler \ {h} :
        /\ pc'[g] = pc[g] /\ seen'[g] = seen[g] /\ subject'[g] = subject[g]
        /\ chosen'[g] = chosen[g] /\ (g \in late' <=> g \in late)
    BY DEF Finish, Goto, IInv, TypeOK
<1> QED
    BY <1>1, <1>2 DEF UpdateOK, CallOK, Updating

\* What a handler starts with.
LEMMA StartLocals ==
    ASSUME IInv, NEW h \in Handler, NEW l, NEW b, NEW p, NEW S, Start(h, l, b, p, S)
    PROVE  /\ pc[h] = "idle"
           /\ pc'[h] = l /\ seen'[h] = b /\ subject'[h] = p /\ chosen'[h] = S
           /\ \A g \in Handler \ {h} :
                /\ pc'[g] = pc[g] /\ seen'[g] = seen[g] /\ subject'[g] = subject[g]
                /\ chosen'[g] = chosen[g]
BY DEF Start, Goto, IInv, TypeOK

\* An update that begins has the store to itself, unless it crosses another.
LEMMA BeginUpdateD ==
    ASSUME IInv, Durable, NEW h \in Handler,
           \/ \E S \in SUBSET Scope : Accept(h, S)
           \/ \E g \in Grant : Revoke(h, g),
           Calm'
    PROVE  Durable'
<1>1. /\ crossed' = (crossed \/ \E k \in Handler : Updating(k))
      /\ UNCHANGED <<mem, disk, burst, valid, late, answered, withdrawn, lateRun>>
    BY DEF Accept, Revoke, store
<1>2. \A k \in Handler : ~Updating(k)
    BY <1>1, Zenon DEF Calm
<1>3. PICK l \in {"sign", "flip"}, p \in Grant \union {NoGrant}, S \in SUBSET Scope :
        /\ Start(h, l, mem.bits, p, S)
        /\ l = "sign" => S # {}
        /\ l = "flip" => S = {}
    <2>1. ASSUME NEW S \in SUBSET Scope, Accept(h, S)
          PROVE  Start(h, "sign", mem.bits, NoGrant, S) /\ S # {}
        BY <2>1 DEF Accept
    <2>2. ASSUME NEW g \in Grant, Revoke(h, g)
          PROVE  Start(h, "flip", mem.bits, g, {})
        BY <2>2 DEF Revoke
    <2> QED
        BY <2>1, <2>2
<1>4. /\ pc[h] = "idle" /\ pc'[h] = l /\ seen'[h] = mem.bits /\ chosen'[h] = S
      /\ \A g \in Handler \ {h} :
            /\ pc'[g] = pc[g] /\ seen'[g] = seen[g] /\ subject'[g] = subject[g]
            /\ chosen'[g] = chosen[g]
    BY <1>3, StartLocals
<1>5. \A g \in Handler \ {h} : UpdateOK(g)' /\ CallOK(g)' /\ ~Updating(g)'
    BY <1>1, <1>2, <1>4, OthersDurable
<1>6. UpdateOK(h)'
    BY <1>1, <1>3, <1>4 DEF UpdateOK
<1>7. CallOK(h)'
    BY <1>1, <1>4 DEF Durable, CallOK
<1>8. SoleUpdate'
    BY <1>5 DEF SoleUpdate
<1> QED
    BY <1>1, <1>5, <1>6, <1>7, <1>8 DEF Durable

\* Signing and flipping replace the list that was read, which is still the one
\* in memory.
LEMMA ReplaceD ==
    ASSUME IInv, Durable, NEW h \in Handler, IssueGrant(h) \/ ReplaceStatusList(h)
    PROVE  Durable'
<1>1. /\ pc[h] \in {"sign", "flip"} /\ pc' = [pc EXCEPT ![h] = "mkdir"]
      /\ UNCHANGED <<disk, burst, seen, chosen, late, answered, withdrawn, lateRun>>
    BY DEF IssueGrant, ReplaceStatusList, Goto, history
<1>2. UpdateOK(h) /\ CallOK(h)
    BY DEF Durable
<1>3. /\ mem.bits \subseteq mem'.bits /\ mem.grants \subseteq mem'.grants /\ valid \subseteq valid'
      /\ \/ chosen[h] = {} /\ subject'[h] \in mem'.bits
         \/ chosen[h] # {} /\ subject'[h] \in mem'.grants \intersect valid'
      /\ \A g \in Handler \ {h} : subject'[g] = subject[g]
    <2>1. CASE IssueGrant(h)
        <3>1. /\ mem' = [bits |-> seen[h], grants |-> mem.grants \union {issued + 1}]
              /\ valid' = valid \union {issued + 1}
              /\ subject' = [subject EXCEPT ![h] = issued + 1]
              /\ pc[h] = "sign"
            BY <2>1 DEF IssueGrant, Record
        <3> QED
            BY <1>2, <3>1 DEF UpdateOK, IInv, TypeOK
    <2>2. CASE ReplaceStatusList(h)
        <3>1. /\ mem' = [mem EXCEPT !.bits = seen[h] \union {subject[h]}]
              /\ valid' = valid /\ subject' = subject /\ pc[h] = "flip"
            BY <2>2 DEF ReplaceStatusList
        <3> QED
            BY <1>2, <3>1 DEF UpdateOK, IInv, TypeOK
    <2> QED
        BY <2>1, <2>2
<1>4. pc'[h] = "mkdir" /\ \A g \in Handler \ {h} : pc'[g] = pc[g]
    BY <1>1 DEF IInv, TypeOK
<1>5. UpdateOK(h)' /\ CallOK(h)'
    BY <1>1, <1>2, <1>3, <1>4 DEF UpdateOK, CallOK
<1>6. \A g \in Handler \ {h} : UpdateOK(g)' /\ CallOK(g)' /\ (Updating(g)' <=> Updating(g))
    BY <1>1, <1>3, <1>4, OthersDurable DEF Updating
<1>7. SoleUpdate'
    BY <1>1, <1>6 DEF Durable, SoleUpdate, Updating
<1> QED
    BY <1>1, <1>3, <1>5, <1>6, <1>7 DEF Durable

\* A write that begins finds no other,
LEMMA BeginWriteD ==
    ASSUME IInv, Durable, NEW h \in Handler, BeginWrite(h)
    PROVE  Durable'
<1>1. /\ pc[h] = "mkdir" /\ pc' = [pc EXCEPT ![h] = "write"] /\ disk' = Damaged
      /\ burst' = (IF Writing = {} THEN {mem} ELSE burst \union {mem})
      /\ UNCHANGED <<mem, valid, seen, subject, chosen, late, answered, withdrawn, lateRun>>
    BY DEF BeginWrite, Goto, history
<1>2. Writing = {}
    BY <1>1 DEF Writing, Durable, SoleUpdate, Updating
<1>3. pc'[h] = "write" /\ \A g \in Handler \ {h} : pc'[g] = pc[g]
    BY <1>1 DEF IInv, TypeOK
<1>4. UpdateOK(h)' /\ CallOK(h)'
    BY <1>1, <1>2, <1>3 DEF Durable, UpdateOK, CallOK
<1>5. \A g \in Handler \ {h} : UpdateOK(g)' /\ CallOK(g)' /\ (Updating(g)' <=> Updating(g))
    BY <1>1, <1>3, OthersDurable DEF Updating
<1>6. SoleUpdate'
    BY <1>1, <1>5 DEF Durable, SoleUpdate, Updating
<1> QED
    BY <1>1, <1>4, <1>5, <1>6 DEF Durable

\* and leaves the memory in the file when it ends.
LEMMA EndWriteD ==
    ASSUME IInv, Durable, NEW h \in Handler, EndWrite(h)
    PROVE  Durable'
<1>1. /\ pc[h] = "write" /\ Finish(h) /\ UNCHANGED <<mem, valid, lateRun>>
      /\ IF Writing = {h} THEN disk' \in Landed /\ burst' = {} ELSE UNCHANGED <<disk, burst>>
      /\ IF chosen[h] = {}
         THEN withdrawn' = withdrawn \union {subject[h]} /\ UNCHANGED answered
         ELSE answered' = answered \union {subject[h]} /\ UNCHANGED withdrawn
    BY DEF EndWrite, history
<1>2. Writing = {h} /\ UpdateOK(h)
    BY <1>1 DEF Writing, Durable, SoleUpdate, Updating
<1>3. burst = {mem} /\ disk' = mem
    <2>1. burst = {mem}
        BY <1>1, <1>2 DEF UpdateOK
    <2>2. Cardinality({mem}) = 1
        BY FS_Singleton
    <2>3. ~(Cardinality(burst) > 1)
        BY <2>1, <2>2
    <2>4. Landed = {mem}
        BY <2>1, <2>3 DEF Landed
    <2> QED
        BY <1>1, <1>2, <2>1, <2>4
<1>4. answered' \subseteq mem.grants \intersect valid /\ withdrawn' \subseteq mem.bits
    BY <1>1, <1>2 DEF Durable, UpdateOK
<1>5. /\ UpdateOK(h)' /\ CallOK(h)' /\ ~Updating(h)'
      /\ \A g \in Handler \ {h} :
            /\ pc'[g] = pc[g] /\ seen'[g] = seen[g] /\ subject'[g] = subject[g]
            /\ chosen'[g] = chosen[g] /\ (g \in late' <=> g \in late)
    BY <1>1, FinishDurable
<1>6. \A g \in Handler \ {h} : UpdateOK(g)' /\ CallOK(g)' /\ (Updating(g)' <=> Updating(g))
    BY <1>1, <1>5, OthersDurable DEF Updating
<1>7. SoleUpdate'
    BY <1>5, <1>6 DEF Durable, SoleUpdate
<1> QED
    BY <1>1, <1>3, <1>4, <1>5, <1>6, <1>7 DEF Durable

\* A call takes the withdrawn grants with it into its history.
LEMMA CallD ==
    ASSUME IInv, Durable, NEW h \in Handler, NEW s \in Scope,
           NEW p \in Grant \union {NoGrant, Foreign}, Call(h, s, p)
    PROVE  Durable'
<1>1. /\ Start(h, "fetch", {}, p, {s})
      /\ late' = (IF p \in withdrawn THEN late \union {h} ELSE late)
      /\ UNCHANGED <<mem, disk, burst, valid, answered, withdrawn, lateRun>>
    BY DEF Call, store, history
<1>2. /\ pc[h] = "idle" /\ pc'[h] = "fetch" /\ subject'[h] = p
      /\ \A g \in Handler \ {h} :
            /\ pc'[g] = pc[g] /\ seen'[g] = seen[g] /\ subject'[g] = subject[g]
            /\ chosen'[g] = chosen[g]
    BY <1>1, StartLocals
<1>3. UpdateOK(h)' /\ ~Updating(h)'
    BY <1>2 DEF UpdateOK, Updating
<1>4. CallOK(h)'
    <2>1. h \notin late
        BY <1>2 DEF Durable, CallOK
    <2> QED
        BY <1>1, <1>2, <2>1 DEF CallOK
<1>5. \A g \in Handler \ {h} : UpdateOK(g)' /\ CallOK(g)' /\ (Updating(g)' <=> Updating(g))
    BY <1>1, <1>2, OthersDurable
<1>6. SoleUpdate'
    BY <1>3, <1>5 DEF Durable, SoleUpdate
<1> QED
    BY <1>1, <1>3, <1>4, <1>5, <1>6 DEF Durable

\* The list it fetches has the bit of every grant withdrawn by then.
LEMMA FetchD ==
    ASSUME IInv, Durable, NEW h \in Handler, FetchStatusList(h)
    PROVE  Durable'
<1>1. /\ pc[h] = "fetch" /\ pc' = [pc EXCEPT ![h] = "decide"]
      /\ seen' = [seen EXCEPT ![h] = mem.bits]
      /\ UNCHANGED <<mem, disk, burst, valid, subject, chosen, late, answered, withdrawn, lateRun>>
    BY DEF FetchStatusList, Goto, store, history
<1>2. /\ pc'[h] = "decide" /\ seen'[h] = mem.bits
      /\ \A g \in Handler \ {h} : pc'[g] = pc[g] /\ seen'[g] = seen[g]
    BY <1>1 DEF IInv, TypeOK
<1>3. UpdateOK(h)' /\ ~Updating(h)' /\ CallOK(h)'
    BY <1>1, <1>2 DEF UpdateOK, Updating, CallOK, Durable
<1>4. \A g \in Handler \ {h} : UpdateOK(g)' /\ CallOK(g)' /\ (Updating(g)' <=> Updating(g))
    BY <1>1, <1>2, OthersDurable
<1>5. SoleUpdate'
    BY <1>3, <1>4 DEF Durable, SoleUpdate
<1> QED
    BY <1>1, <1>3, <1>4, <1>5 DEF Durable

\* A late call is denied; the other ends leave the store as it is.
LEMMA EndD ==
    ASSUME IInv, Durable, NEW h \in Handler, RunTool(h) \/ Deny(h) \/ Abort(h)
    PROVE  Durable'
<1>1. /\ Finish(h) /\ UNCHANGED <<mem, disk, valid, answered, withdrawn>>
      /\ burst' = burst \/ Writing \subseteq {h}
    <2>1. CASE Abort(h)
        BY <2>1 DEF Abort
    <2>2. CASE RunTool(h) \/ Deny(h)
        BY <2>2 DEF RunTool, Deny, store
    <2> QED
        BY <2>1, <2>2
<1>2. ~lateRun'
    <2>1. CASE RunTool(h)
        <3>1. pc[h] = "decide" /\ subject[h] \notin seen[h] /\ lateRun' = (lateRun \/ h \in late)
            BY <2>1, Zenon DEF RunTool, Verifies
        <3>2. h \notin late
            BY <3>1 DEF Durable, CallOK
        <3> QED
            BY <3>1, <3>2, Zenon DEF Durable
    <2>2. CASE Deny(h) \/ Abort(h)
        BY <2>2 DEF Deny, Abort, history, Durable
    <2> QED
        BY <2>1, <2>2
<1>3. /\ UpdateOK(h)' /\ CallOK(h)' /\ ~Updating(h)'
      /\ \A g \in Handler \ {h} :
            /\ pc'[g] = pc[g] /\ seen'[g] = seen[g] /\ subject'[g] = subject[g]
            /\ chosen'[g] = chosen[g] /\ (g \in late' <=> g \in late)
    BY <1>1, FinishDurable
<1>4. \A g \in Handler \ {h} : UpdateOK(g)' /\ CallOK(g)' /\ (Updating(g)' <=> Updating(g))
    BY <1>1, <1>3, OthersDurable
<1>5. SoleUpdate'
    BY <1>3, <1>4 DEF Durable, SoleUpdate
<1> QED
    BY <1>1, <1>2, <1>3, <1>4, <1>5 DEF Durable

\* A start finds the file the last update left.
LEMMA BootD ==
    ASSUME IInv, Durable, Restart \/ Reseed, Calm'
    PROVE  Durable'
<1>1. cut' = (cut \/ disk = Damaged) /\ UNCHANGED <<answered, withdrawn, lateRun>>
    BY DEF Restart, Reseed, Boot
<1>2. disk # Damaged
    BY <1>1, Zenon DEF Calm
<1>3. Boot(disk) /\ UNCHANGED valid
    BY <1>2 DEF Restart, Reseed, Unprovisioned, Opened
<1>4. /\ mem' = disk /\ disk' = disk /\ late' = {} /\ \A h \in Handler : pc'[h] = "idle"
    BY <1>3 DEF Boot
<1>5. SoleUpdate' /\ \A h \in Handler : UpdateOK(h)' /\ CallOK(h)'
    BY <1>4 DEF SoleUpdate, Updating, UpdateOK, CallOK
<1>6. answered \subseteq disk.grants \intersect valid /\ withdrawn \subseteq disk.bits
    BY <1>2 DEF Durable
<1> QED
    BY <1>1, <1>3, <1>4, <1>5, <1>6 DEF Durable

\* The history only grows.
LEMMA CalmPersists ==
    ASSUME [Next]_vars, Calm'
    PROVE  Calm
<1>1. ASSUME NEW h \in Handler, NEW S \in SUBSET Scope, Accept(h, S) PROVE Calm
    BY <1>1, Zenon DEF Accept, Calm
<1>2. ASSUME NEW h \in Handler, NEW g \in Grant, Revoke(h, g) PROVE Calm
    BY <1>2, Zenon DEF Revoke, Calm
<1>3. CASE Restart \/ Reseed
    <2>1. cut' = (cut \/ disk = Damaged) /\ crossed' = crossed
        BY <1>3 DEF Restart, Reseed, Boot
    <2> QED
        BY <2>1, Zenon DEF Calm
<1>4. CASE \E h \in Handler : HandlerStep(h) \/ Abort(h)
    BY <1>4 DEF HandlerStep, IssueGrant, ReplaceStatusList, BeginWrite, EndWrite, FetchStatusList,
                RunTool, Deny, Abort, history, Calm
<1>5. ASSUME NEW h \in Handler, NEW s \in Scope, NEW p \in Grant \union {NoGrant, Foreign}, Call(h, s, p)
      PROVE  Calm
    BY <1>5 DEF Call, history, Calm
<1>6. CASE UNCHANGED vars
    BY <1>6 DEF vars, history, Calm
<1> QED
    BY <1>1, <1>2, <1>3, <1>4, <1>5, <1>6 DEF Next

LEMMA NextDInv == IInv /\ DInv /\ [Next]_vars => DInv'
<1> SUFFICES ASSUME IInv, DInv, [Next]_vars, Calm' PROVE Durable'
    BY DEF DInv
<1>1. Calm
    BY CalmPersists
<1>2. Durable
    BY <1>1 DEF DInv
<1>3. CASE UNCHANGED vars
    BY <1>2, <1>3 DEF vars, store, locals, history, Durable, SoleUpdate, Updating, UpdateOK, CallOK
<1>4. CASE \E h \in Handler : HandlerStep(h) \/ Abort(h)
    BY <1>2, <1>4, ReplaceD, BeginWriteD, EndWriteD, FetchD, EndD DEF HandlerStep
<1>5. ASSUME NEW h \in Handler,
             (\E S \in SUBSET Scope : Accept(h, S)) \/ (\E g \in Grant : Revoke(h, g))
      PROVE  Durable'
    BY <1>2, <1>5, BeginUpdateD
<1>6. ASSUME NEW h \in Handler, NEW s \in Scope, NEW p \in Grant \union {NoGrant, Foreign},
             Call(h, s, p)
      PROVE  Durable'
    BY <1>2, <1>6, CallD
<1>7. CASE Restart \/ Reseed
    BY <1>2, <1>7, BootD
<1> QED
    BY <1>3, <1>4, <1>5, <1>6, <1>7 DEF Next

\* In every run, what was answered and what was withdrawn is in memory and, when
\* the file is whole, in the file, as long as the run is calm.
THEOREM ConsentDurable == Spec => []DInv
<1>1. Init => DInv
    BY InitDurable DEF DInv
<1> QED
    BY <1>1, ConsentInvariant, NextDInv, PTL DEF Spec

\* A grant the agent was given an answer for is known to the provider and
\* verifies, and still does after a restart, unless updates crossed or a start
\* found the file cut short (SpStore.recordGrant, flush and open).
THEOREM ConsentAnsweredIsDurable == Spec => []AnsweredIsDurable
<1>1. DInv => AnsweredIsDurable
    BY DEF DInv, Durable, AnsweredIsDurable
<1> QED
    BY <1>1, ConsentDurable, PTL

\* So is a completed revocation (SpStore.replaceStatusList).
THEOREM ConsentWithdrawnIsDurable == Spec => []WithdrawnIsDurable
<1>1. DInv => WithdrawnIsDurable
    BY DEF DInv, Durable, WithdrawnIsDurable
<1> QED
    BY <1>1, ConsentDurable, PTL

\* And, unless updates crossed or a start found the file cut short (Calm), no call
\* that begins after it runs a tool with that grant (verifyVP in POST /api/mcp
\* fetches the list that was replaced before).
THEOREM ConsentNoLateRun == Spec => []NoLateRun
<1>1. DInv => NoLateRun
    BY DEF DInv, Durable, NoLateRun
<1> QED
    BY <1>1, ConsentDurable, PTL

=============================================================================
