-------------------------- MODULE MCCredentialStore --------------------------
(***************************************************************************)
(* Three callers are interchangeable.                                      *)
(***************************************************************************)
EXTENDS CredentialStore, TLC

Symmetry == Permutations(Callers)

=============================================================================
