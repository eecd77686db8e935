---------------------------- MODULE MCPageWords ----------------------------
(***************************************************************************)
(* Pages of six words, two entries each.  The callers at will ask for one  *)
(* or two pages and use up nine; the test suite has all the pages its      *)
(* mallocs need (three to begin with, sixty of its own, eleven for         *)
(* entries).                                                               *)
(***************************************************************************)
EXTENDS PageTests
============================================================================
