---------------------------- MODULE MCApplication ----------------------------
(***************************************************************************)
(* A start over two probed tracks, then four offers for two slots.         *)
(***************************************************************************)
EXTENDS Application

=============================================================================
