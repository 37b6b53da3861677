---- MODULE MCUringQueue ----
(* The ring for TLC: two SQEs, four CQEs and cursors that wrap at eight. *)
EXTENDS UringQueue
====
