----------------------------- MODULE MCConsent -----------------------------
(* Instance of Consent for TLC.                                             *)
EXTENDS Consent, TLC

\* Handlers are interchangeable: they are only compared.
Symmetry == Permutations(Handler)

=============================================================================
