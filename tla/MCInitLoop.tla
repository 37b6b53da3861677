---- MODULE MCInitLoop ----
(* start() for TLC: three SQEs and CQEs, cursors that wrap at six. *)
EXTENDS InitLoop
====
