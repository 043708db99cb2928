-------------------------- MODULE MCSessionControl --------------------------
(***************************************************************************)
(* Two request identifiers, one output, a guarded and a plain command.     *)
(***************************************************************************)
EXTENDS SessionControl

=============================================================================
