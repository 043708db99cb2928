---------------------------- MODULE MCRosAdapter ----------------------------
(***************************************************************************)
(* Two output names share a native subscription and a third has its own;   *)
(* two input names share a publisher with the key of the outputs.          *)
(***************************************************************************)
EXTENDS RosAdapter, TLC

Registry == <<"out1", "in1", "out2", "in2", "out3">>
Directions == [n \in ToSet(Registry) |->
  IF n \in {"in1", "in2"} THEN "web_to_ros" ELSE "ros_to_web"]
EntityKeys == [n \in ToSet(Registry) |-> IF n = "out3" THEN "other" ELSE "shared"]
CallbackSymmetry == Permutations(Callbacks)

=============================================================================
