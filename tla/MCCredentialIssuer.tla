-------------------------- MODULE MCCredentialIssuer --------------------------
(* CredentialIssuer on small instances: the values are in the .cfg files. *)
EXTENDS CredentialIssuer, TLC

\* Addresses are interchangeable: no property names one, and none is a liveness one.
Symmetry == Permutations(Address)
=============================================================================
