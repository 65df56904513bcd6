---------------------------- MODULE SessionSpec ----------------------------
(***************************************************************************)
(* What the holder of a refresh token may rely on, without the table and    *)
(* the handlers: the interface documented in services/auth/IAuthService.ts  *)
(* and docs/proposal-hosted-instance.md.  Sessions implements it.           *)
(*                                                                          *)
(* A session is the family of tokens that descend from one login.  While    *)
(* the requests of an account come one after another, a session hands its   *)
(* single accepted token on from one token to the next until it is logged   *)
(* out or burned.  From the moment two requests of the account overlap      *)
(* (raced), all that is promised is that a token refused once is refused    *)
(* for ever, that a successor is handed out only once its predecessor is    *)
(* refused, and that a burn refuses every token handed out so far.          *)
(***************************************************************************)
EXTENDS Naturals

CONSTANTS Account, Token, None

VARIABLES
    held,     \* tokens that were handed to a client
    accepted, \* those the server accepts
    account,  \* the account a held token belongs to
    session,  \* the login a held token descends from
    ended,    \* sessions that were logged out or burned
    raced     \* accounts that had two requests in flight at once

vars == <<held, accepted, account, session, ended, raced>>

HeldBy(a) == {t \in held : account[t] = a}

AcceptedOf(s) == {t \in accepted : session[t] = s}

Init ==
    /\ held = {}
    /\ accepted = {}
    /\ account = [t \in Token |-> None]
    /\ session = [t \in Token |-> 0]
    /\ ended = {}
    /\ raced = {}

\* A token reaches a client, perhaps too late to be accepted: the first of a
\* session, or the successor of a refused one.  One request at a time, it is
\* the only one of its session, and the session has not ended.
HandOut(a, s, t) ==
    /\ t \notin held
    /\ held' = held \union {t}
    /\ accepted' \in {accepted, accepted \union {t}}
    /\ account' = [account EXCEPT ![t] = a]
    /\ session' = [session EXCEPT ![t] = s]
    /\ s = t \/ \E p \in HeldBy(a) \ accepted : session[p] = s
    /\ a \in raced \/ (s \notin ended /\ AcceptedOf(s) = {})
    /\ UNCHANGED <<ended, raced>>

\* A token is no longer accepted: it expired, or its successor is on the way.
Refuse(t) ==
    /\ accepted' = accepted \ {t}
    /\ UNCHANGED <<held, account, session, ended, raced>>

\* Logout with token t ends its session: only a race leaves it another token.
LogOut(t) ==
    /\ t \in held
    /\ accepted' = accepted \ {t}
    /\ ended' = ended \union {session[t]}
    /\ account[t] \in raced \/ AcceptedOf(session[t]) \subseteq {t}
    /\ UNCHANGED <<held, account, session, raced>>

\* Reuse: every token of the account that anyone holds is refused, and every
\* session of it (ss: those still being opened may be among them) has ended.
Burn(a, ss) ==
    /\ accepted' = accepted \ HeldBy(a)
    /\ {session[t] : t \in HeldBy(a)} \subseteq ss
    /\ ended' = ended \union ss
    /\ UNCHANGED <<held, account, session, raced>>

\* A second request of an account begins before the first is answered.
Overlap(a) ==
    /\ raced' = raced \union {a}
    /\ UNCHANGED <<held, accepted, account, session, ended>>

Next ==
    \/ \E a \in Account, s, t \in Token : HandOut(a, s, t)
    \/ \E t \in Token : Refuse(t) \/ LogOut(t)
    \/ \E a \in Account, ss \in SUBSET Token : Burn(a, ss)
    \/ \E a \in Account : Overlap(a)

Spec == Init /\ [][Next]_vars

=============================================================================
