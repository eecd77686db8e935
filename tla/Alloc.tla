-------------------------------- MODULE Alloc --------------------------------
(***************************************************************************)
(* The heap class of Code/alloc/alloc.cpp: a list of headers, each in      *)
(* front of its block, through one run of memory.  Addresses are offsets   *)
(* from heapBase.  The list is kept here in its order; `next' is the one   *)
(* that follows.                                                           *)
(***************************************************************************)
EXTENDS Integers, SequencesExt

CONSTANTS
    HEADER_SIZE,    \* sizeof(Malloc_Memory), packed: 9
    minMemSize,     \* the smallest block
    maxHeapSize,    \* 1024 at least
    Asked,          \* what callers ask for
    MaxHeld         \* bound: blocks a caller holds at the same time

\* HEADER_SIZE + minMemSize + size is computed in 32 bits: nobody asks for a size that
\* makes it wrap
ASSUME AllocAssumption ==
    /\ HEADER_SIZE \in Nat \ {0} /\ minMemSize \in Nat
    /\ maxHeapSize \in Nat /\ HEADER_SIZE <= maxHeapSize
    /\ Asked \subseteq Nat
    /\ MaxHeld \in Nat

VARIABLES
    nodes,          \* the list: [at, size, free]
    heapPointer,
    error,          \* OUT_OF_MEMORY has been posted
    lent            \* the blocks callers hold, at most as large as they asked for

heapVars == <<nodes, heapPointer, error, lent>>

\* init_malloc: the head is a used block of size 0
HeapInit ==
    /\ nodes = <<[at |-> 0, size |-> 0, free |-> FALSE]>>
    /\ heapPointer = HEADER_SIZE
    /\ error = FALSE
    /\ lent = {}

\* Mutant of Merged: the header between the two is forgotten
MergedShort(n, m) == [n EXCEPT !.size = n.size + m.size]

\* removeNode, of the node m that follows n
Merged(n, m) == [n EXCEPT !.size = n.size + m.size + HEADER_SIZE]

\* cleanMemoryList: free nodes that follow each other become one
Join(done, m) ==
    IF Last(done).free /\ m.free
    THEN [done EXCEPT ![Len(done)] = Merged(@, m)]
    ELSE Append(done, m)
Cleaned(list) ==
    LET done[n \in 1..Len(list)] ==
            IF n = 1 THEN <<list[1]>> ELSE Join(done[n - 1], list[n])
    IN  done[Len(list)]

\* A node is cut only if what remains is worth a header.  The last one is never looked at
Cuts(list, size) ==
    {k \in 1..(Len(list) - 1) :
        list[k].free /\ HEADER_SIZE + minMemSize + size < list[k].size}

Cut(list, k, size) ==
    LET used == [at |-> list[k].at, size |-> size, free |-> FALSE]
        rest == [at |-> list[k].at + HEADER_SIZE + size,
                 size |-> list[k].size - HEADER_SIZE - size, free |-> TRUE]
    IN  SubSeq(list, 1, k - 1) \o <<used, rest>> \o SubSeq(list, k + 1, Len(list))

Holds(node, asked) == lent' = lent \cup {[at |-> node + HEADER_SIZE, size |-> asked]}

\* malloc: the first node that can be cut, or one more at the end, or NULL
malloc(asked) ==
    LET size == IF asked <= minMemSize THEN minMemSize ELSE asked
        list == Cleaned(nodes)
    IN  \/ \E k \in Cuts(list, size) :
              /\ \A j \in Cuts(list, size) : k <= j
              /\ nodes' = Cut(list, k, size)
              /\ Holds(list[k].at, asked)
              /\ UNCHANGED <<heapPointer, error>>
        \/ /\ Cuts(list, size) = {}
           /\ size + HEADER_SIZE < maxHeapSize - heapPointer
           /\ nodes' = Append(list, [at |-> heapPointer, size |-> size, free |-> FALSE])
           /\ Holds(heapPointer, asked)
           /\ heapPointer' = heapPointer + HEADER_SIZE + size
           /\ UNCHANGED error
        \/ /\ Cuts(list, size) = {}
           /\ size + HEADER_SIZE >= maxHeapSize - heapPointer
           /\ nodes' = list
           /\ error' = TRUE
           /\ UNCHANGED <<heapPointer, lent>>

\* free, of a block that is held: only the mark in the header before it
free(block) ==
    /\ block \in lent
    /\ nodes' = [k \in DOMAIN nodes |->
                    IF nodes[k].at + HEADER_SIZE = block.at
                    THEN [nodes[k] EXCEPT !.free = TRUE] ELSE nodes[k]]
    /\ lent' = lent \ {block}
    /\ UNCHANGED <<heapPointer, error>>

HeapStep ==
    \/ \E asked \in Asked : Cardinality(lent) < MaxHeld /\ malloc(asked)
    \/ \E block \in lent : free(block)

-----------------------------------------------------------------------------

\* The list's blocks lie one behind the other up to heapPointer, through every order of
\* cutting, merging and appending: no byte is lost and none is in two blocks
Tiled ==
    /\ \A k \in 1..Len(nodes) :
          nodes[k].at + HEADER_SIZE + nodes[k].size =
              (IF k = Len(nodes) THEN heapPointer ELSE nodes[k + 1].at)
    /\ heapPointer <= maxHeapSize

\* Each block a caller holds is a used block of the list with room for what was asked
\* for, and each used block but the head is held
HeldHasRoom ==
    /\ \A block \in lent : \E k \in 2..Len(nodes) :
          /\ nodes[k].at + HEADER_SIZE = block.at
          /\ ~nodes[k].free /\ block.size <= nodes[k].size
    /\ Cardinality(lent) = Cardinality({k \in 2..Len(nodes) : ~nodes[k].free})

BlocksOfTheHeap == Tiled /\ HeldHasRoom
=============================================================================
