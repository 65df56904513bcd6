---------------------------- MODULE SqliteStore ----------------------------
(***************************************************************************)
(* The SQLite tier: the Sqlite drivers' statements                          *)
(* (repositories/drivers/*.drivers.ts, account-links.repository.ts) against *)
(* ENTERPRISE_SQLITE_DDL of server.ts, which declares no foreign keys.      *)
(* Statements are synchronous: a call is one step, an update with the       *)
(* SELECT that follows it.                                                  *)
(***************************************************************************)
EXTENDS StoreRows

VARIABLES
    accounts, \* accounts: id -> row
    keys,     \* issuer_key_records: rows <<account_id, did>>
    tokens,   \* refresh_tokens: id -> row
    links,    \* vc_account_links: key -> account_id
    answer    \* whether the last call was done or refused

tables == <<accounts, keys, tokens, links>>

Refuse == answer' = "refused" /\ UNCHANGED tables

\* idx_accounts_email, idx_accounts_google_id, idx_accounts_issuer_did: SQLite
\* takes NULLs of a unique index for distinct.
Unique(i, row) ==
    ~\E j \in Existing(accounts) \ {i} :
        \/ accounts[j].email = row.email
        \/ accounts[j].google = row.google /\ row.google # None
        \/ accounts[j].did = row.did /\ row.did # None

CreateAccount(i, row) ==
    IF Unique(i, row)
    THEN /\ accounts' = [accounts EXCEPT ![i] = row]
         /\ answer' = "done"
         /\ UNCHANGED <<keys, tokens, links>>
    ELSE Refuse

FindById(i) == accounts[i]

FindByEmail(e) == AnyOf(accounts, {i \in Existing(accounts) : accounts[i].email = e})

FindByGoogleId(g) == AnyOf(accounts, {i \in Existing(accounts) : accounts[i].google = g})

FindByVerificationHash(n) == AnyOf(accounts, {i \in Existing(accounts) : accounts[i].hash = n})

\* Mutant: a column is missing from the list of those that update knows.
MostColumns == {"google", "did", "password", "verified", "hash"}

\* The columns update knows: others of a patch are left out silently.
UpdatableColumns == {"google", "did", "password", "verified", "hash", "expires"}

Update(i, patch) ==
    LET known == [c \in DOMAIN patch \intersect UpdatableColumns |-> patch[c]] IN
    IF i \in Existing(accounts) /\ Unique(i, Patched(accounts[i], known))
    THEN /\ accounts' = [accounts EXCEPT ![i] = Patched(accounts[i], known)]
         /\ answer' = "done"
         /\ UNCHANGED <<keys, tokens, links>>
    ELSE Refuse

\* account_id UNIQUE, did UNIQUE
CreateKey(a, did) ==
    IF \A k \in keys : k[1] # a /\ k[2] # did
    THEN /\ keys' = keys \union {<<a, did>>}
         /\ answer' = "done"
         /\ UNCHANGED <<accounts, tokens, links>>
    ELSE Refuse

FindKey(a) == IF \E k \in keys : k[1] = a THEN (CHOOSE k \in keys : k[1] = a)[2] ELSE None

CreateToken(t, a) ==
    /\ tokens' = [tokens EXCEPT ![t] = NewToken(a)]
    /\ answer' = "done"
    /\ UNCHANGED <<accounts, keys, links>>

FindToken(t) == tokens[t]

Revoke(t, successor) ==
    /\ tokens' = [tokens EXCEPT ![t].revoked = "revoke", ![t].successor = successor]
    /\ answer' = "done"
    /\ UNCHANGED <<accounts, keys, links>>

\* WHERE account_id = ... AND revoked_at IS NULL
LiveTokens(a) == {t \in Existing(tokens) : tokens[t].account = a /\ tokens[t].revoked = None}

RevokeAll(a) ==
    /\ tokens' = [t \in DOMAIN tokens |->
           IF t \in LiveTokens(a) THEN [tokens[t] EXCEPT !.revoked = "revokeAll"] ELSE tokens[t]]
    /\ answer' = "done"
    /\ UNCHANGED <<accounts, keys, links>>

\* INSERT OR IGNORE
Link(k, a) ==
    /\ links' = IF links[k] = None THEN [links EXCEPT ![k] = a] ELSE links
    /\ answer' = "done"
    /\ UNCHANGED <<accounts, keys, tokens>>

GetAccountId(k) == links[k]

ListKeysForAccount(a) == {k \in Key : links[k] = a}

=============================================================================
