--------------------------- MODULE MCMediaService ---------------------------
(***************************************************************************)
(* An instance of MediaService: one track followed through its life.       *)
(***************************************************************************)
EXTENDS MediaService

=============================================================================
