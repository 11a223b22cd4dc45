---------------------------- MODULE MCSearchQueue ----------------------------
(* Instances of SearchQueue for model checking.                             *)
EXTENDS SearchQueue

CONSTANTS frame1, frame2, q1, q2
=============================================================================
