--------------------------- MODULE MCVideoRouter ---------------------------
(***************************************************************************)
(* Instances of VideoRouter: two peers and one pipeline.                   *)
(***************************************************************************)
EXTENDS VideoRouter

=============================================================================
