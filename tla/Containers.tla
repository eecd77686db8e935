------------------------------ MODULE Containers ------------------------------
(***************************************************************************)
(* The kernel's heap class, and its vectors and strings.  They share       *)
(* nothing, nothing in the kernel's image uses them yet, and a program     *)
(* here uses the one or the other.                                         *)
(***************************************************************************)
EXTENDS Alloc, Vector

VARIABLES uses

containerVars == <<heapVars, vectorVars, uses>>

ContainersInit == HeapInit /\ VectorInit /\ uses \in {"heap", "strings"}

ContainersNext ==
    /\ \/ uses = "heap" /\ HeapStep /\ UNCHANGED vectorVars
       \/ uses = "strings" /\ VectorStep /\ UNCHANGED heapVars
    /\ UNCHANGED uses

ContainersSpec == ContainersInit /\ [][ContainersNext]_containerVars
=============================================================================
