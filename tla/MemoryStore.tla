---------------------------- MODULE MemoryStore ----------------------------
(***************************************************************************)
(* The in-memory tier: the InMemory drivers and the Map of                  *)
(* AccountLinkRepository, which the unit tests run on.  Maps keep the order *)
(* of insertion and know no columns but their key: nothing is refused       *)
(* except the update of a row that does not exist.                          *)
(***************************************************************************)
EXTENDS StoreRows

VARIABLES
    accounts, \* rows: id -> record
    keys,     \* rowsByAccount: accountId -> did
    tokens,   \* rowsByHash: token -> record
    links,    \* memory: key -> accountId
    answer    \* whether the last call was done or refused

\* The record is stored; an earlier one with the same e-mail or Google id stays.
CreateAccount(i, row) ==
    /\ accounts' = [accounts EXCEPT ![i] = row]
    /\ answer' = "done"
    /\ UNCHANGED <<keys, tokens, links>>

FindById(i) == accounts[i]

\* The first record that matches, in the order of insertion.
FirstOf(S) == IF S = {} THEN None ELSE accounts[CHOOSE i \in S : \A j \in S : i <= j]

FindByEmail(e) == FirstOf({i \in Existing(accounts) : accounts[i].email = e})

FindByGoogleId(g) == FirstOf({i \in Existing(accounts) : accounts[i].google = g})

FindByVerificationHash(n) == FirstOf({i \in Existing(accounts) : accounts[i].hash = n})

\* { ...record, ...patch }
Update(i, patch) ==
    IF i \in Existing(accounts)
    THEN /\ accounts' = [accounts EXCEPT ![i] = Patched(@, patch)]
         /\ answer' = "done"
         /\ UNCHANGED <<keys, tokens, links>>
    ELSE answer' = "refused" /\ UNCHANGED <<accounts, keys, tokens, links>>

CreateKey(a, did) ==
    /\ keys' = [keys EXCEPT ![a] = did]
    /\ answer' = "done"
    /\ UNCHANGED <<accounts, tokens, links>>

FindKey(a) == keys[a]

CreateToken(t, a) ==
    /\ tokens' = [tokens EXCEPT ![t] = NewToken(a)]
    /\ answer' = "done"
    /\ UNCHANGED <<accounts, keys, links>>

FindToken(t) == tokens[t]

\* Every record with that id.
Revoke(t, successor) ==
    /\ tokens' = [tokens EXCEPT ![t].revoked = "revoke", ![t].successor = successor]
    /\ answer' = "done"
    /\ UNCHANGED <<accounts, keys, links>>

RevokeAll(a) ==
    /\ LET mine == {t \in Existing(tokens) : tokens[t].account = a} IN
       tokens' = [t \in DOMAIN tokens |->
           IF t \in mine /\ tokens[t].revoked = None
           THEN [tokens[t] EXCEPT !.revoked = "revokeAll"]
           ELSE tokens[t]]
    /\ answer' = "done"
    /\ UNCHANGED <<accounts, keys, links>>

\* Mutant: set without has.
Overwritten(k, a) == [links EXCEPT ![k] = a]

\* if (!has(key)) set(key, accountId)
Linked(k, a) == IF links[k] = None THEN [links EXCEPT ![k] = a] ELSE links

Link(k, a) ==
    /\ links' = Linked(k, a)
    /\ answer' = "done"
    /\ UNCHANGED <<accounts, keys, tokens>>

GetAccountId(k) == links[k]

ListKeysForAccount(a) == {k \in Key : links[k] = a}

=============================================================================
