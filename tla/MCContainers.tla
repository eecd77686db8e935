---------------------------- MODULE MCContainers ----------------------------
(* A header of one byte, texts of one and two letters.                     *)
EXTENDS Containers

MCTexts == {<<"a">>, <<"b", "c">>}
=============================================================================
