---------------------------- MODULE PrismaStore ----------------------------
(***************************************************************************)
(* The Postgres tier: the Prisma drivers' SQL                               *)
(* (repositories/drivers/*.drivers.ts, account-links.repository.ts) against *)
(* the tables, indexes and foreign keys of                                  *)
(* prisma/schema/migrations/20260905181142_init/migration.sql.  A call is   *)
(* one statement.                                                           *)
(***************************************************************************)
EXTENDS StoreRows

VARIABLES
    accounts, \* "accounts": id -> row
    keys,     \* "issuer_key_records": rows <<accountId, did>>
    tokens,   \* "refresh_tokens": id -> row
    links,    \* "vc_account_links": key -> accountId
    answer    \* whether the last call was done or refused

tables == <<accounts, keys, tokens, links>>

Refuse == answer' = "refused" /\ UNCHANGED tables

\* accounts_email_key, accounts_googleId_key, accounts_issuerDid_key
Unique(i, row) ==
    \A j \in Existing(accounts) \ {i} :
        /\ accounts[j].email # row.email
        /\ row.google # None => accounts[j].google # row.google
        /\ row.did # None => accounts[j].did # row.did

Store(i, row) ==
    /\ accounts' = [accounts EXCEPT ![i] = row]
    /\ answer' = "done"
    /\ UNCHANGED <<keys, tokens, links>>

CreateAccount(i, row) == IF Unique(i, row) THEN Store(i, row) ELSE Refuse

FindById(i) == accounts[i]

FindByEmail(e) == AnyOf(accounts, {i \in Existing(accounts) : accounts[i].email = e})

FindByGoogleId(g) == AnyOf(accounts, {i \in Existing(accounts) : accounts[i].google = g})

FindByVerificationHash(n) == AnyOf(accounts, {i \in Existing(accounts) : accounts[i].hash = n})

\* UPDATE ... SET every key of the patch ... RETURNING *
Update(i, patch) ==
    IF i \in Existing(accounts) /\ Unique(i, Patched(accounts[i], patch))
    THEN Store(i, Patched(accounts[i], patch))
    ELSE Refuse

\* issuer_key_records_accountId_key, _did_key, _accountId_fkey
CreateKey(a, did) ==
    IF a \in Existing(accounts) /\ \A k \in keys : k[1] # a /\ k[2] # did
    THEN /\ keys' = keys \union {<<a, did>>}
         /\ answer' = "done"
         /\ UNCHANGED <<accounts, tokens, links>>
    ELSE Refuse

FindKey(a) == IF \E k \in keys : k[1] = a THEN (CHOOSE k \in keys : k[1] = a)[2] ELSE None

\* refresh_tokens_accountId_fkey
CreateToken(t, a) ==
    IF a \in Existing(accounts)
    THEN /\ tokens' = [tokens EXCEPT ![t] = NewToken(a)]
         /\ answer' = "done"
         /\ UNCHANGED <<accounts, keys, links>>
    ELSE Refuse

FindToken(t) == tokens[t]

\* UPDATE ... SET "revokedAt", "replacedByTokenId" WHERE "id"
Revoke(t, successor) ==
    /\ tokens' = [tokens EXCEPT ![t].revoked = "revoke", ![t].successor = successor]
    /\ answer' = "done"
    /\ UNCHANGED <<accounts, keys, links>>

\* ... WHERE "accountId" AND "revokedAt" IS NULL
RevokeAll(a) ==
    /\ tokens' = [t \in DOMAIN tokens |->
           IF t \in Existing(tokens) /\ tokens[t].account = a /\ tokens[t].revoked = None
           THEN [tokens[t] EXCEPT !.revoked = "revokeAll"]
           ELSE tokens[t]]
    /\ answer' = "done"
    /\ UNCHANGED <<accounts, keys, links>>

\* ON CONFLICT DO NOTHING
Link(k, a) ==
    /\ links' = IF links[k] = None THEN [links EXCEPT ![k] = a] ELSE links
    /\ answer' = "done"
    /\ UNCHANGED <<accounts, keys, tokens>>

GetAccountId(k) == links[k]

ListKeysForAccount(a) == {k \in Key : links[k] = a}

=============================================================================
