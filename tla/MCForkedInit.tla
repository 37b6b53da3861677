---- MODULE MCForkedInit ----
(* A failing execveat for TLC: four SQEs and CQEs, cursors that wrap at eight. *)
EXTENDS ForkedInit
====
