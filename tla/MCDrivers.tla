----------------------------- MODULE MCDrivers -----------------------------
(* Drivers on small instances.                                              *)
EXTENDS Drivers, TLC

\* Addresses are interchangeable.
Symmetry == Permutations(Email)

=============================================================================
