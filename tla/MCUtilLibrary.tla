--------------------------- MODULE MCUtilLibrary ----------------------------
(* A memory that holds a different byte everywhere shows every mix-up.     *)
(* Eight bits and five bytes are in the relation of 64 and 21: the         *)
(* smallest number, -128, fills the buffer.                                *)
EXTENDS UtilLibrary

MCByte == 0 .. Size
MCContents == {[a \in Addr |-> a + 1]}
=============================================================================
