------------------------------ MODULE Drivers ------------------------------
(***************************************************************************)
(* The calls the services make, each of which goes to every tier: those of  *)
(* AuthService, provisionAccountIssuerDid and the routes, in any order two  *)
(* overlapping requests can make them.  An account is created after a       *)
(* look-up that may be stale, a row that is changed was found before,       *)
(* tokens and verification hashes are fresh, an account's key is stored     *)
(* once.                                                                    *)
(***************************************************************************)
EXTENDS Tiers

CONSTANTS
    MaxAccounts,  \* bound: accounts that calls try to create
    MaxTokens     \* bound: refresh tokens created

ASSUME DriversAssumption ==
    /\ MaxAccounts \in Nat /\ MaxTokens \in Nat
    /\ 1 .. MaxAccounts \subseteq RowId /\ 1 .. MaxTokens \subseteq RowId
    /\ None \notin Email \union GoogleId \union Hash \union Key \union RowId

VARIABLES
    made,     \* ids given out so far to accounts and to tokens
    sent      \* verification hashes generated so far

vars == <<pg, sq, mem, made, sent, clashed>>

NoRows == [i \in RowId |-> None]

NoLinks == [k \in Key |-> None]

Init ==
    /\ pgAccounts = NoRows /\ sqAccounts = NoRows /\ memAccounts = NoRows
    /\ pgKeys = {} /\ sqKeys = {} /\ memKeys = NoRows
    /\ pgTokens = NoRows /\ sqTokens = NoRows /\ memTokens = NoRows
    /\ pgLinks = NoLinks /\ sqLinks = NoLinks /\ memLinks = NoLinks
    /\ pgAnswer = "done" /\ sqAnswer = "done" /\ memAnswer = "done"
    /\ made = [account |-> 0, token |-> 0]
    /\ sent = {}
    /\ clashed = FALSE

\* Rows a request can have found.
Account == Existing(pgAccounts)

RefreshToken == Existing(pgTokens)

-----------------------------------------------------------------------------
(* The calls.                                                               *)

\* The patches AccountRepository passes to a driver's update.
LinkGoogleId(g) == [google |-> g]

SetIssuerDid(i) == [did |-> i]

SetEmailVerificationToken(n) == [hash |-> n, expires |-> TRUE]

MarkEmailVerified == [verified |-> TRUE, hash |-> None, expires |-> FALSE]

\* register, or loginWithGoogle for a new address
CreateAccount(e, g) ==
    /\ made.account < MaxAccounts
    /\ LET i == made.account + 1
           row == NewAccount(e, g) IN
        /\ made' = [made EXCEPT !.account = i]
        /\ Pg!CreateAccount(i, row) /\ Sq!CreateAccount(i, row) /\ Mem!CreateAccount(i, row)
    /\ clashed' = (clashed \/ pgAnswer' = "refused")
    /\ UNCHANGED sent

Update(i, patch) ==
    /\ Pg!Update(i, patch) /\ Sq!Update(i, patch) /\ Mem!Update(i, patch)
    /\ clashed' = (clashed \/ pgAnswer' = "refused")
    /\ UNCHANGED made

LinkGoogle(i, g) == Update(i, LinkGoogleId(g)) /\ UNCHANGED sent

RecordDid(i) == Update(i, SetIssuerDid(i)) /\ UNCHANGED sent

SendToken(i, n) ==
    /\ n \notin sent
    /\ Update(i, SetEmailVerificationToken(n))
    /\ sent' = sent \union {n}

Verify(i) == Update(i, MarkEmailVerified) /\ UNCHANGED sent

\* provisionAccountIssuerDid: the DID is made from the account's id.
CreateKey(a) ==
    /\ Pg!FindKey(a) = None
    /\ Pg!CreateKey(a, a) /\ Sq!CreateKey(a, a) /\ Mem!CreateKey(a, a)
    /\ UNCHANGED <<made, sent, clashed>>

IssueSession(a) ==
    /\ made.token < MaxTokens
    /\ LET t == made.token + 1 IN
        /\ made' = [made EXCEPT !.token = t]
        /\ Pg!CreateToken(t, a) /\ Sq!CreateToken(t, a) /\ Mem!CreateToken(t, a)
    /\ UNCHANGED <<sent, clashed>>

\* The successor of a rotation, none at logout.
Revoke(t, successor) ==
    /\ Pg!Revoke(t, successor) /\ Sq!Revoke(t, successor) /\ Mem!Revoke(t, successor)
    /\ UNCHANGED <<made, sent, clashed>>

RevokeAllForAccount(a) ==
    /\ Pg!RevokeAll(a) /\ Sq!RevokeAll(a) /\ Mem!RevokeAll(a)
    /\ UNCHANGED <<made, sent, clashed>>

Link(k, a) ==
    /\ Pg!Link(k, a) /\ Sq!Link(k, a) /\ Mem!Link(k, a)
    /\ UNCHANGED <<made, sent, clashed>>

Next ==
    \/ \E e \in Email, g \in GoogleId \union {None} : CreateAccount(e, g)
    \/ \E i \in Account :
        \/ \E g \in GoogleId : LinkGoogle(i, g)
        \/ \E n \in Hash : SendToken(i, n)
        \/ RecordDid(i) \/ Verify(i)
        \/ CreateKey(i) \/ IssueSession(i) \/ RevokeAllForAccount(i)
        \/ \E k \in Key : Link(k, i)
    \/ \E t \in RefreshToken :
        \E s \in {u \in RefreshToken : t < u} \union {None} : Revoke(t, s)

Spec == Init /\ [][Next]_vars

=============================================================================
