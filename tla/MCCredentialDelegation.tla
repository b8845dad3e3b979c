------------------------ MODULE MCCredentialDelegation ------------------------
(* CredentialDelegation on a small instance: the values are in the .cfg file. *)
EXTENDS CredentialDelegation, TLC

\* Addresses are interchangeable: no property names one, and none is a liveness one.
Symmetry == Permutations(Address)
=============================================================================
