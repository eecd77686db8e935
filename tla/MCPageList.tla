----------------------------- MODULE MCPageList -----------------------------
(***************************************************************************)
(* A small machine for PageList: pages of 2 bytes, so that the sizes below *)
(* ask for one, two and three pages; bookkeeping pages that hold two       *)
(* entries, so that splitting and growing both run into a full one.        *)
(***************************************************************************)
EXTENDS PageList

CONSTANTS b512, b2k

MCPerPage == [k \in Kinds |-> IF k = b512 THEN 3 ELSE 2]
MCSizes == {1, 2, 5}
MCKinds == {b512, b2k}
============================================================================
