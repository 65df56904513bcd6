----------------------------- MODULE MCSessions -----------------------------
(* Instance of Sessions for TLC.                                            *)
EXTENDS Sessions, TLC

\* Accounts and handlers are interchangeable: they are only compared.
Symmetry == Permutations(Account) \union Permutations(Handler)

=============================================================================
