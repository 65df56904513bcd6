----------------------------- MODULE StoreRows -----------------------------
(***************************************************************************)
(* The rows the three storage tiers keep, and what the repositories ask of  *)
(* a tier (repositories/account.repository.ts, refresh-token.repository.ts, *)
(* issuer-key.repository.ts).  Times are abstracted to whether, or by which *)
(* call, they were set; key material to the DID it belongs to.              *)
(***************************************************************************)
EXTENDS AccountColumns, Naturals

CONSTANTS
    Hash,      \* hashes of e-mail verification tokens
    Key,       \* keys of a link table
    RowId      \* ids, in the order rows are created

AccountRow == [email : Email, password : BOOLEAN, google : GoogleId \union {None},
               did : RowId \union {None}, verified : BOOLEAN,
               hash : Hash \union {None}, expires : BOOLEAN]

\* revoked: the call that set revokedAt, or None.
TokenRow == [account : RowId, revoked : {"revoke", "revokeAll", None}, successor : RowId \union {None}]

NewAccount(e, g) ==
    [email |-> e, password |-> g = None, google |-> g, did |-> None,
     verified |-> FALSE, hash |-> None, expires |-> FALSE]

NewToken(a) == [account |-> a, revoked |-> None, successor |-> None]

\* Every column the patch names is set, to NULL too.
Patched(row, patch) ==
    [c \in DOMAIN row |-> IF c \in DOMAIN patch THEN patch[c] ELSE row[c]]

Existing(table) == {i \in DOMAIN table : table[i] # None}

\* LIMIT 1 over the rows that match: any of them, or no row.
AnyOf(table, S) == IF S = {} THEN None ELSE table[CHOOSE i \in S : TRUE]

=============================================================================
