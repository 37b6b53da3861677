---- MODULE MCArgParse ----
(* Every line of up to six characters, an array of four pointers. *)
EXTENDS ArgParse
====
