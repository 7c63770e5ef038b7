-------------------------- MODULE MCRobotAlgorithms --------------------------
(* The inputs RobotAlgorithms is tried on. *)
EXTENDS RobotAlgorithms

(* Values around the edges of each byte of a 31-bit number. *)
Edges == {0, 1, 255, 256, 257, 65535, 65536, 65537, 16777215, 16777216, 2147483647}
=============================================================================
