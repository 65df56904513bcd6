---------------------------- MODULE MCConcierge ----------------------------
(* Instance of Concierge for TLC.                                           *)
EXTENDS Concierge, TLC

\* Requests are interchangeable: they are only compared.
Symmetry == Permutations(Handler)

=============================================================================
