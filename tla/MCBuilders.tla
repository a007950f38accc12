----------------------------- MODULE MCBuilders -----------------------------
(***************************************************************************)
(* A client that makes and destroys a few nodes; which addresses they have *)
(* does not matter.                                                        *)
(***************************************************************************)
EXTENDS Builders, TLC

Symmetry == Permutations(Address)

=============================================================================
