------------------------------ MODULE MCQuota ------------------------------
(* Quota on small instances.                                                *)
EXTENDS Quota, TLC

\* Accounts and handlers are interchangeable.
Symmetry == Permutations(Account) \union Permutations(Handler)

=============================================================================
