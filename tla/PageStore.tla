----------------------------- MODULE PageStore -----------------------------
(***************************************************************************)
(* What the kernel's page manager (Code/core/mmu.cpp) promises its         *)
(* callers, stated without the list, the entries or the stack it is built  *)
(* from.  Memory is the run of pages starting at 16 MB; pages are numbered *)
(* from 0.  Pages below `brk' have been taken from the end of memory at    *)
(* some time; each of them is part of a block a client holds, is waiting   *)
(* to be handed out again, or was taken for good (page directories, page   *)
(* tables, frames, the manager's own bookkeeping).                         *)
(***************************************************************************)
EXTENDS Naturals

CONSTANT Limit     \* bound: pages the machine has above 16 MB

VARIABLES brk,       \* first page never handed out
          live,      \* the blocks clients hold: [first |-> page, size |-> pages]
          reusable   \* the pages of the blocks that were given back

vars == <<brk, live, reusable>>

Block == [first : Nat, size : Nat \ {0}]

\* The pages of a block.
Run(b) == b.first .. b.first + b.size - 1

TypeOK == /\ brk \in Nat
          /\ live \in SUBSET Block
          /\ reusable \in SUBSET Nat

Init == /\ brk \in 0..Limit
        /\ live = {}
        /\ reusable = {}

----------------------------------------------------------------------------

(* A block made of pages that were given back.  Cutting it out may cost    *)
(* the manager pages from the end of memory for its bookkeeping.           *)
AllocateReused(n) ==
    \E p \in reusable :
        LET b == [first |-> p, size |-> n]
        IN  /\ Run(b) \subseteq reusable
            /\ live' = live \cup {b}
            /\ reusable' = reusable \ Run(b)
            /\ brk' \in brk..Limit

(* A block from the end of memory.  The manager may take pages for its     *)
(* bookkeeping behind it.                                                  *)
AllocateFresh(n) ==
    /\ live' = live \cup {[first |-> brk, size |-> n]}
    /\ brk' \in brk + n .. Limit
    /\ UNCHANGED reusable

(* Pages taken for good. *)
Reserve ==
    /\ brk' \in brk + 1 .. Limit
    /\ UNCHANGED <<live, reusable>>

(* The holder of a block gives it back.                                    *)
Release(b) ==
    /\ b \in live
    /\ live' = live \ {b}
    /\ reusable' = reusable \cup Run(b)
    /\ UNCHANGED brk

Next == \/ \E n \in 1..Limit : AllocateReused(n) \/ AllocateFresh(n)
        \/ Reserve
        \/ \E b \in live : Release(b)

Spec == Init /\ [][Next]_vars

----------------------------------------------------------------------------

(* No page is part of two blocks, and no page of a block is offered again  *)
(* while its holder has it.                                                *)
Exclusive ==
    /\ \A a, b \in live : a # b => Run(a) \cap Run(b) = {}
    /\ \A b \in live : Run(b) \cap reusable = {}

(* Everything handed out or waiting lies below the end of memory.          *)
BelowBreak ==
    /\ \A b \in live : b.first + b.size <= brk
    /\ \A p \in reusable : p < brk
============================================================================
