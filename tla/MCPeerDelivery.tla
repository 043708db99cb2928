--------------------------- MODULE MCPeerDelivery ---------------------------
(***************************************************************************)
(* Instances of PeerDelivery: a reliable and a latest stream of one peer.  *)
(***************************************************************************)
EXTENDS PeerDelivery

\* Enough samples to overflow a reliable queue, and to replace a latest one.
Samples == [i \in Streams |-> IF i \in Latest THEN 2 ELSE 4]

=============================================================================
