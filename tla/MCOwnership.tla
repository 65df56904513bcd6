--------------------------- MODULE MCOwnership --------------------------
(* Instance of Ownership for TLC.                                           *)
EXTENDS Ownership, TLC

\* Accounts and handlers are interchangeable: they are only compared.
Symmetry == Permutations(Account) \union Permutations(Handler)

=============================================================================
