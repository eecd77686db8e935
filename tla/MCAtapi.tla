------------------------------ MODULE MCAtapi ------------------------------
(***************************************************************************)
(* Sectors of two bytes, and files that are empty, fill a sector, spill    *)
(* into a second and a third one.                                          *)
(***************************************************************************)
EXTENDS Atapi

MCFiles == {[lba |-> 4, size |-> 0], [lba |-> 4, size |-> 2],
            [lba |-> 3, size |-> 3], [lba |-> 4, size |-> 5]}
MCSectors == 3..6
MCSetups == [processes : BOOLEAN, habits : SUBSET {"early", "late", "aborts", "fails"}]
============================================================================
