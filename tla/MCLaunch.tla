------------------------------ MODULE MCLaunch ------------------------------
(* The processes of Launch with few descriptors and process numbers.  init *)
(* itself takes six descriptors, memrun needs five.  Directories have up   *)
(* to three entries, of which the buffer holds one to three.               *)
EXTENDS Launch
=============================================================================
