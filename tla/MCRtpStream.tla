----------------------------- MODULE MCRtpStream -----------------------------
(***************************************************************************)
(* One track and three encoders.  Bytes are 0 .. 3, so that a packet of    *)
(* four bytes has a two-digit length and timestamps wrap inside a stream.  *)
(***************************************************************************)
EXTENDS RtpStream

MCPackets == << <<<<3>>, <<1, 0, 0, 2>>>>, <<<<2, 0>>>>, <<<<0>>>> >>
MCJunk == << <<>>, <<0, 0>>, <<1>> >>

=============================================================================
