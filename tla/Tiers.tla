------------------------------- MODULE Tiers -------------------------------
(***************************************************************************)
(* The three storage tiers side by side, and in what they agree.  A process *)
(* uses one tier (the repositories' resolveDriverKind); the service models  *)
(* rest on the SQL tiers, the unit tests run on the in-memory tier, and     *)
(* what either shows of a deployment holds as far as the tiers agree.       *)
(***************************************************************************)
EXTENDS StoreRows

VARIABLES
    pgAccounts, pgKeys, pgTokens, pgLinks, pgAnswer,
    sqAccounts, sqKeys, sqTokens, sqLinks, sqAnswer,
    memAccounts, memKeys, memTokens, memLinks, memAnswer,
    clashed   \* history: a call was refused by a unique index

pg == <<pgAccounts, pgKeys, pgTokens, pgLinks, pgAnswer>>
sq == <<sqAccounts, sqKeys, sqTokens, sqLinks, sqAnswer>>
mem == <<memAccounts, memKeys, memTokens, memLinks, memAnswer>>

Pg == INSTANCE PrismaStore WITH
    accounts <- pgAccounts, keys <- pgKeys, tokens <- pgTokens, links <- pgLinks,
    answer <- pgAnswer

Sq == INSTANCE SqliteStore WITH
    accounts <- sqAccounts, keys <- sqKeys, tokens <- sqTokens, links <- sqLinks,
    answer <- sqAnswer

Mem == INSTANCE MemoryStore WITH
    accounts <- memAccounts, keys <- memKeys, tokens <- memTokens, links <- memLinks,
    answer <- memAnswer

-----------------------------------------------------------------------------
(* Properties.                                                              *)

\* After any calls, Postgres and SQLite have done or refused the last one alike
\* and every query finds the same, although one patches every column it is given
\* and the other those it knows, and only one checks references.
SqlTiersAgree ==
    /\ pgAnswer = sqAnswer
    /\ \A i \in RowId :
        /\ Pg!FindById(i) = Sq!FindById(i)
        /\ Pg!FindKey(i) = Sq!FindKey(i)
        /\ Pg!FindToken(i) = Sq!FindToken(i)
        /\ Pg!ListKeysForAccount(i) = Sq!ListKeysForAccount(i)
    /\ \A e \in Email : Pg!FindByEmail(e) = Sq!FindByEmail(e)
    /\ \A g \in GoogleId : Pg!FindByGoogleId(g) = Sq!FindByGoogleId(g)
    /\ \A n \in Hash : Pg!FindByVerificationHash(n) = Sq!FindByVerificationHash(n)
    /\ \A k \in Key : Pg!GetAccountId(k) = Sq!GetAccountId(k)

\* What the unit tests see is what SQLite would do, until requests race for an
\* address or a Google identity: then SQL refuses one and memory keeps both.
MemoryAgrees ==
    ~clashed =>
        /\ memAnswer = sqAnswer
        /\ \A i \in RowId :
            /\ Mem!FindById(i) = Sq!FindById(i)
            /\ Mem!FindKey(i) = Sq!FindKey(i)
            /\ Mem!FindToken(i) = Sq!FindToken(i)
            /\ Mem!ListKeysForAccount(i) = Sq!ListKeysForAccount(i)
        /\ \A e \in Email : Mem!FindByEmail(e) = Sq!FindByEmail(e)
        /\ \A g \in GoogleId : Mem!FindByGoogleId(g) = Sq!FindByGoogleId(g)
        /\ \A n \in Hash : Mem!FindByVerificationHash(n) = Sq!FindByVerificationHash(n)
        /\ \A k \in Key : Mem!GetAccountId(k) = Sq!GetAccountId(k)

=============================================================================
