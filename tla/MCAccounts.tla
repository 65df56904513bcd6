----------------------------- MODULE MCAccounts -----------------------------
(* Instance of Accounts for TLC.                                            *)
EXTENDS Accounts, TLC

\* Addresses, Google identities and handlers are only compared.
Symmetry == Permutations(Email) \union Permutations(GoogleId) \union Permutations(Handler)

=============================================================================
