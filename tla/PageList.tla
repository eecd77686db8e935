------------------------------ MODULE PageList ------------------------------
(***************************************************************************)
(* The kernel's page manager, Code/core/mmu.cpp, with its linked list of   *)
(* page entries written as a sequence.  The list of the code hangs off     *)
(* `head', an entry that never describes memory: its location is 0 (or,    *)
(* once a process has been added, the address of a page directory, for     *)
(* head and the paging records are the same null pointer), lower than any  *)
(* new entry's, and its free bit is never set: every loop of the code      *)
(* passes over it.  `list' holds the entries behind it, in list order.     *)
(*                                                                         *)
(* These are the operations the running kernel performs: malloc and free   *)
(* of page runs, and the allocators that take pages off the end of memory  *)
(* and never return them.  shrinkList and the stack of recycled entries    *)
(* are reached from the test suite only; module PageWords has them.        *)
(*                                                                         *)
(* A page is a number, counted from heapPos's initial value (16 MB); the   *)
(* free flag is bit 0 of an entry's location word.                         *)
(***************************************************************************)
EXTENDS Integers, Sequences, FiniteSets

CONSTANTS
    PageSize,      \* bytes per page (0x1000)
    MaxEntries,    \* MAX_ENTRIES, list entries per bookkeeping page (341)
    Kinds,         \* sizes of carved blocks: one for 512 bytes, one for 2k
    PerPage,       \* carved blocks of each kind in one page (8 and 2)
    Boot,          \* pages taken before memory_init: page tables, frame buffer
    Sizes,         \* bound: the byte counts callers ask for
    Limit          \* bound: pages between 16 MB and the end of memory

ASSUME PageListAssumption ==
    /\ PageSize \in Nat \ {0}
    /\ MaxEntries \in Nat \ {0}
    /\ PerPage \in [Kinds -> Nat \ {0}]
    /\ Sizes \subseteq Nat
    /\ Boot \in Nat
    /\ Limit \in Nat
    /\ Boot + 2 <= Limit

VARIABLES
    heapPos,            \* next page never handed out
    list,               \* the page entries behind head
    pageEntriesCount,   \* entries placed in the current bookkeeping page
    carved,             \* per kind: the next block to carve, blocks left
    held,               \* what callers hold: [location, bytes]
    taken               \* pages taken for good: tables, buffers, bookkeeping

vars == <<heapPos, list, pageEntriesCount, carved, held, taken>>

Entry == [location : Nat, free : BOOLEAN, size : Nat \ {0}]

\* The page behind the last one an entry labels, and the pages it labels.
End(e) == e.location + e.size
Pages(e) == e.location .. End(e) - 1

\* Mutant of PageCount: the + 1 is forgotten.
PageCountShort(size) == size \div PageSize

\* malloc_page_aligned's size / 0x1000 + 1
PageCount(size) == size \div PageSize + 1

\* The list with entry e put behind its first k entries.
PlaceAfter(l, k, e) ==
    [i \in 1 .. Len(l) + 1 |->
        IF i <= k THEN l[i] ELSE IF i = k + 1 THEN e ELSE l[i - 1]]

----------------------------------------------------------------------------

\* alloc_page_count: n pages off the end of memory.  The code checks no
\* limit; Limit is where this model stops.
Room(n) == heapPos + n <= Limit

(* prepareNodeLoc: the next entry goes into the current bookkeeping page,  *)
(* or, that page being full, into a new one taken from the end of memory   *)
(* after `used' pages.                                                     *)
PageFull == pageEntriesCount + 1 > MaxEntries

PrepareEntry(used) ==
    IF PageFull
    THEN /\ Room(used + 1)
         /\ heapPos' = heapPos + used + 1
         /\ taken' = taken \cup {heapPos + used}
         /\ pageEntriesCount' = 1
    ELSE /\ Room(used)
         /\ heapPos' = heapPos + used
         /\ pageEntriesCount' = pageEntriesCount + 1
         /\ UNCHANGED taken

(* memory_init: behind the pages of the boot, one page for the entries and *)
(* one for the stack of recycled entries.                                  *)
Init ==
    /\ heapPos = Boot + 2
    /\ taken = 0 .. Boot + 1
    /\ list = <<>>
    /\ pageEntriesCount = 0
    /\ carved = [k \in Kinds |-> [pointer |-> 0, left |-> 0]]
    /\ held = {}

----------------------------------------------------------------------------

\* Mutant of Fits: the free bit is not looked at.
FitsAny(i, n) == list[i].size >= n

Fits(i, n) == list[i].free /\ list[i].size >= n

\* Mutants of Kept and Rest: the free bit is not cleared; the second part
\* starts where the first one does.
KeptFree(i, n) == [location |-> list[i].location, free |-> TRUE, size |-> n]
RestUnmoved(i, n) ==
    [location |-> list[i].location, free |-> TRUE, size |-> list[i].size - n]

(* splitNode: an entry that is larger than asked for keeps its first n     *)
(* pages; the rest becomes a free entry behind it.  The caller then clears *)
(* the free bit of the first part.                                         *)
Kept(i, n) == [location |-> list[i].location, free |-> FALSE, size |-> n]
Rest(i, n) == [location |-> list[i].location + n,
               free     |-> TRUE,
               size     |-> list[i].size - n]

\* Mutant of Split: the entry shrinks and the rest gets none.
SplitDropsRest(i, n) ==
    /\ list' = [list EXCEPT ![i] = Kept(i, n)]
    /\ UNCHANGED <<heapPos, taken, pageEntriesCount>>

Split(i, n) ==
    IF list[i].size = n
    THEN /\ list' = [list EXCEPT ![i].free = FALSE]
         /\ UNCHANGED <<heapPos, taken, pageEntriesCount>>
    ELSE /\ PrepareEntry(0)
         /\ list' = PlaceAfter([list EXCEPT ![i] = Kept(i, n)], i, Rest(i, n))

(* malloc_page_aligned finds a free entry: the first one that is large     *)
(* enough is split and marked used.                                        *)
MallocReuse(size) ==
    LET n == PageCount(size)
    IN  \E i \in 1..Len(list) :
           /\ Fits(i, n)
           /\ \A j \in 1..i-1 : ~Fits(j, n)
           /\ Split(i, n)
           /\ held' = held \cup {[location |-> list[i].location, bytes |-> size]}
           /\ UNCHANGED carved

(* addNode walks to the first entry that does not lie below the new one    *)
(* and links the new entry in front of it.                                 *)
AddEntry(location, n) ==
    \E k \in 0..Len(list) :
        /\ \A j \in 1..k : list[j].location < location
        /\ k < Len(list) => list[k + 1].location >= location
        /\ list' = PlaceAfter(list, k,
                     [location |-> location, free |-> FALSE, size |-> n])

(* malloc_page_aligned finds none: n pages come off the end of memory, and *)
(* then the entry for them is prepared and added.                          *)
MallocFresh(size) ==
    LET n == PageCount(size)
    IN  /\ \A i \in 1..Len(list) : ~Fits(i, n)
        /\ PrepareEntry(n)
        /\ AddEntry(heapPos, n)
        /\ held' = held \cup {[location |-> heapPos, bytes |-> size]}
        /\ UNCHANGED carved

Malloc(size) == MallocReuse(size) \/ MallocFresh(size)

\* Mutant of Free: the last entry of the list is never marked.
FreeNotLast(h) ==
    /\ h \in held
    /\ \E i \in 1..Len(list) :
          /\ ~list[i].free /\ list[i].location = h.location
          /\ list' = IF i = Len(list) THEN list
                     ELSE [list EXCEPT ![i].free = TRUE]
    /\ held' = held \ {h}
    /\ UNCHANGED <<heapPos, pageEntriesCount, carved, taken>>

(* free_page_aligned: the first used entry at that location is marked free *)
Free(h) ==
    /\ h \in held
    /\ \E i \in 1..Len(list) :
          /\ ~list[i].free /\ list[i].location = h.location
          /\ \A j \in 1..i-1 : list[j].free \/ list[j].location # h.location
          /\ list' = [list EXCEPT ![i].free = TRUE]
    /\ held' = held \ {h}
    /\ UNCHANGED <<heapPos, pageEntriesCount, carved, taken>>

----------------------------------------------------------------------------

(* k_create_4k_block (one page), and k_malloc_large: one page, then one    *)
(* more than four for every full page of the size asked for.               *)
LargePages(size) == 1 + (size \div PageSize) * 4 + 1

TakePages(n) ==
    /\ Room(n)
    /\ heapPos' = heapPos + n
    /\ taken' = taken \cup (heapPos .. heapPos + n - 1)
    /\ UNCHANGED <<list, pageEntriesCount, carved, held>>

CreateBlock4k == TakePages(1)
MallocLarge(size) == TakePages(LargePages(size))

(* k_create_512_block and k_create_2k_block hand out the block the pointer *)
(* is at and move on; with none left they start on a new page.  Blocks are *)
(* numbered from 16 MB like pages, PerPage to the page.                    *)
FirstBlock(kind, page) == page * PerPage[kind]

\* Mutant of CarveNewPage: the first block handed out is not counted.
CarveNewPageUncounted(kind) ==
    /\ carved[kind].left <= 0
    /\ Room(1)
    /\ heapPos' = heapPos + 1
    /\ taken' = taken \cup {heapPos}
    /\ carved' = [carved EXCEPT ![kind] =
                    [pointer |-> FirstBlock(kind, heapPos) + 1,
                     left    |-> PerPage[kind]]]
    /\ UNCHANGED <<list, pageEntriesCount, held>>

CarveNewPage(kind) ==
    /\ carved[kind].left <= 0
    /\ Room(1)
    /\ heapPos' = heapPos + 1
    /\ taken' = taken \cup {heapPos}
    /\ carved' = [carved EXCEPT ![kind] =
                    [pointer |-> FirstBlock(kind, heapPos) + 1,
                     left    |-> PerPage[kind] - 1]]
    /\ UNCHANGED <<list, pageEntriesCount, held>>

CarveNextBlock(kind) ==
    /\ carved[kind].left > 0
    /\ carved' = [carved EXCEPT ![kind] =
                    [pointer |-> carved[kind].pointer + 1,
                     left    |-> carved[kind].left - 1]]
    /\ UNCHANGED <<heapPos, taken, list, pageEntriesCount, held>>

Next ==
    \/ \E size \in Sizes : MallocReuse(size) \/ MallocFresh(size)
    \/ \E h \in held : Free(h)
    \/ CreateBlock4k
    \/ \E size \in Sizes : MallocLarge(size)
    \/ \E kind \in Kinds : CarveNewPage(kind) \/ CarveNextBlock(kind)

Spec == Init /\ [][Next]_vars

----------------------------------------------------------------------------

\* The pages a list labels.
PagesOf(l) == UNION {Pages(l[i]) : i \in 1..Len(l)}
EntryPages == PagesOf(list)

UsedEntries == {list[i] : i \in {j \in 1..Len(list) : ~list[j].free}}
FreeEntries == {list[i] : i \in {j \in 1..Len(list) : list[j].free}}

TypeOK ==
    /\ heapPos \in 0..Limit
    /\ list \in Seq(Entry)
    /\ pageEntriesCount \in 0..MaxEntries
    /\ carved \in [Kinds -> [pointer : Nat, left : Nat]]
    /\ held \in SUBSET [location : Nat, bytes : Sizes]
    /\ taken \in SUBSET Nat

(* The entries are in address order and no page carries two labels: what   *)
(* the searches of malloc and free and addNode's insertion rely on.        *)
Ordered ==
    \A i, j \in 1..Len(list) :
        i < j => End(list[i]) <= list[j].location

(* Every page below heapPos is labelled by an entry or was taken for good, *)
(* and never both: no page is handed out twice, and none is lost by        *)
(* splitting entries or by the pages the entries themselves need.          *)
EveryPageOnce ==
    /\ 0 .. heapPos - 1 = EntryPages \cup taken
    /\ EntryPages \cap taken = {}

(* A caller's block is labelled by a used entry at that location and has   *)
(* room for the bytes asked for.                                           *)
HeldIsBacked ==
    \A h \in held : \E e \in UsedEntries :
        e.location = h.location /\ h.bytes < e.size * PageSize

(* The entry of a used block can be found by the one caller that holds it: *)
(* nothing stays used that nobody can free.                                *)
UsedIsHeld ==
    \A e \in UsedEntries :
        \E h \in held : /\ h.location = e.location
                        /\ \A g \in held : g.location = h.location => g = h

(* What others allocate and free never moves or resizes a block while a    *)
(* caller holds it.                                                        *)
BlocksStay ==
    \A h \in held \cap held' : \A i \in 1..Len(list) :
        ~list[i].free /\ list[i].location = h.location =>
            \E j \in 1..Len(list') : list'[j] = list[i]
HeldStays == [][BlocksStay]_vars

(* The blocks still to be carved are exactly the rest of one page that was *)
(* taken for them, a page per kind: the counter and the pointer, which the *)
(* code moves separately, never let a block run into the next page.        *)
CarvedInside ==
    \A k \in Kinds : carved[k].left > 0 =>
        \E page \in taken :
            /\ carved[k].pointer > FirstBlock(k, page)
            /\ carved[k].pointer + carved[k].left = FirstBlock(k, page + 1)
            /\ \A j \in Kinds \ {k} :
                  carved[j].left > 0 =>
                     carved[j].pointer \div PerPage[j] # page

(* The list implements the promise of module PageStore.                    *)
Block(e) == [first |-> e.location, size |-> e.size]
LiveBlocks == {Block(e) : e \in UsedEntries}
FreePages == UNION {Pages(e) : e \in FreeEntries}

Store == INSTANCE PageStore
            WITH brk <- heapPos, live <- LiveBlocks, reusable <- FreePages
StoreSpec == Store!Spec
============================================================================
