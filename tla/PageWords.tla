----------------------------- MODULE PageWords -----------------------------
(***************************************************************************)
(* The page manager of Code/core/mmu.cpp down to the words its list is     *)
(* made of: entries of three words linked by address, the bookkeeping      *)
(* pages they lie in, and the stack of recycled entries that shrinkList    *)
(* fills and prepareNodeLoc empties.  Module PageList says the same with a *)
(* sequence; as long as shrinkList is not called, this module implements   *)
(* it.  (shrinkList's one caller is the file's own test suite, module      *)
(* PageTests.)                                                             *)
(*                                                                         *)
(* An address counts words.  Page 0 is the physical page at address 0,     *)
(* where the null pointer `head' puts its entry; page 1 is the page at     *)
(* 16 MB.  An entry's location word is twice its address plus the free bit.*)
(***************************************************************************)
EXTENDS Integers, Sequences, FiniteSets, Functions

CONSTANTS
    PageWordCount,  \* PAGE_SIZE_UINT32, words per page (0x400)
    Counts,         \* bound: the page counts callers need (size/0x1000 + 1)
    Limit,          \* bound: pages from address 0 to the end of memory
    MaxShrinks      \* bound: calls of shrinkList

ASSUME PageWordsAssumption ==
    /\ PageWordCount \in Nat /\ PageWordCount >= 3
    /\ Counts \subseteq Nat \ {0}
    /\ Limit \in Nat /\ Limit > 3
    /\ MaxShrinks \in Nat

MaxEntries == PageWordCount \div 3

VARIABLES
    mem,               \* the words of memory the manager has written
    heapPos,           \* the next page never handed out
    pageEntryStart,    \* address of the current bookkeeping page
    pageEntriesCount,  \* entries placed in it
    nodeLocStack,      \* address behind the topmost recycled entry's address
    listPages,         \* the pages taken for list entries
    otherPages,        \* the stack's page and those of k_create_4k_block
    held,              \* what callers hold: [location, count]
    shrinks            \* calls of shrinkList so far

vars == <<mem, heapPos, pageEntryStart, pageEntriesCount, nodeLocStack,
          listPages, otherPages, held, shrinks>>

Address(page) == page * PageWordCount
PageAt(address) == address \div PageWordCount

head == 0
NULL == 0
nodeLocStackTop == Address(2)

\* The word at an address; where nothing was written yet there is 0.
Word(m, a) == [w \in Nat |-> IF w \in DOMAIN m THEN m[w] ELSE 0][a]

Location(m, e) == Word(m, e)
Size(m, e) == Word(m, e + 1)
NextOf(m, e) == Word(m, e + 2)
IsFree(m, e) == Location(m, e) % 2 = 1

\* Stores to a word and to the fields of the entry at e.
Store(m, a, w) == [b \in DOMAIN m \cup {a} |-> IF b = a THEN w ELSE m[b]]
SetLocation(m, e, w) == Store(m, e, w)
SetSize(m, e, w) == Store(m, e + 1, w)
SetNext(m, e, w) == Store(m, e + 2, w)

\* The entries in list order: those passed on the way from head to the first
\* one that leads to one passed before, which in a list that ends is head, at
\* the null pointer.
Chain(m) ==
    LET passed[n \in 0..Address(Limit)] ==
            IF n = 0 THEN head ELSE NextOf(m, passed[n - 1])
        IsLast(n) == \E k \in 0..n : NextOf(m, passed[n]) = passed[k]
        last == CHOOSE n \in 0..Address(Limit) :
                    IsLast(n) /\ \A k \in 0..n - 1 : ~IsLast(k)
    IN  [i \in 1..last + 1 |-> passed[i - 1]]

\* A search that passes every entry comes to an end.  In a list that bites
\* its tail it does not, and the thread never comes back.
ListEnds == NextOf(mem, Chain(mem)[Len(Chain(mem))]) = NULL

\* Of the given places in the list the first one's entry, none if there is none.
First(chain, places) ==
    {chain[i] : i \in {j \in places : \A k \in places : j <= k}}

----------------------------------------------------------------------------

(* memory_init: page 1 is for entries, page 2 for the stack.               *)
Init ==
    /\ mem = [a \in {head + 2} |-> NULL]
    /\ heapPos = 3
    /\ pageEntryStart = Address(1)
    /\ pageEntriesCount = 0
    /\ nodeLocStack = nodeLocStackTop
    /\ listPages = {1}
    /\ otherPages = {2}
    /\ held = {}
    /\ shrinks = 0

\* Mutant of BookkeepingFull: without the + 1, which a comment of the code
\* holds to be possible.
BookkeepingFullLate == pageEntriesCount > MaxEntries

BookkeepingFull == pageEntriesCount + 1 > MaxEntries

(* prepareNodeLoc, after `used' pages have been taken: the place of the    *)
(* next entry.  With a recycled entry to be had, popNodeLoc returns the    *)
(* address of the stack's topmost word, not the address stored there.      *)
Prepared(used) ==
    LET page == heapPos + used
    IN  IF nodeLocStack # nodeLocStackTop
        THEN [at |-> nodeLocStack - 1, stack |-> nodeLocStack - 1,
              start |-> pageEntryStart, count |-> pageEntriesCount,
              pages |-> {}]
        ELSE IF BookkeepingFull
        THEN [at |-> Address(page), stack |-> nodeLocStack,
              start |-> Address(page), count |-> 1, pages |-> {page}]
        ELSE [at |-> pageEntryStart + 3 * pageEntriesCount,
              stack |-> nodeLocStack,
              start |-> pageEntryStart, count |-> pageEntriesCount + 1,
              pages |-> {}]

Prepare(used) ==
    LET place == Prepared(used)
    IN  /\ heapPos + used + Cardinality(place.pages) <= Limit
        /\ heapPos' = heapPos + used + Cardinality(place.pages)
        /\ nodeLocStack' = place.stack
        /\ pageEntryStart' = place.start
        /\ pageEntriesCount' = place.count
        /\ listPages' = listPages \cup place.pages

\* Mutant of SplitWords: the entry gets its new size first.
SplitWordsSizeFirst(e, n, new) ==
    LET m1 == SetNext(mem, new, NextOf(mem, e))
        m2 == SetSize(m1, e, n)
        m3 == SetSize(m2, new, Size(m2, e) - n)
        m4 == SetLocation(m3, new, Location(m3, e) + 2 * n * PageWordCount)
    IN  SetNext(m4, e, new)

\* splitNode, and the clearing of the free bit behind it.
SplitWords(e, n, new) ==
    LET m1 == SetNext(mem, new, NextOf(mem, e))
        m2 == SetSize(m1, new, Size(m1, e) - n)
        m3 == SetLocation(m2, new, Location(m2, e) + 2 * n * PageWordCount)
        m4 == SetNext(m3, e, new)
    IN  SetSize(m4, e, n)

MarkUsed(m, e) == SetLocation(m, e, Location(m, e) - (Location(m, e) % 2))
MarkFree(m, e) == SetLocation(m, e, Location(m, e) - (Location(m, e) % 2) + 1)

Give(location, n) ==
    held' = held \cup {[location |-> location \div 2, count |-> n]}

Fitting(n) ==
    LET chain == Chain(mem)
    IN  First(chain, {i \in 1..Len(chain) :
                         IsFree(mem, chain[i]) /\ Size(mem, chain[i]) >= n})

MallocReuse(n) ==
    \E e \in Fitting(n) :
        /\ IF Size(mem, e) = n
           THEN /\ mem' = MarkUsed(mem, e)
                /\ UNCHANGED <<heapPos, nodeLocStack, pageEntryStart,
                               pageEntriesCount, listPages>>
           ELSE /\ Prepare(0)
                /\ mem' = MarkUsed(SplitWords(e, n, Prepared(0).at), e)
        /\ Give(Location(mem', e), n)
        /\ UNCHANGED <<otherPages, shrinks>>

(* addNode: the entry goes in front of the first one whose location is not *)
(* lower, or behind the last.                                              *)
AddWords(location, n, new) ==
    LET chain == Chain(mem)
        later == {i \in 1..Len(chain) : Location(mem, chain[i]) >= location}
        at == IF later = {} THEN Len(chain)
              ELSE (CHOOSE i \in later : \A j \in later : i <= j) - 1
        next == NextOf(mem, chain[at])
        m1 == SetNext(mem, chain[at], new)
        m2 == SetLocation(m1, new, location)
        m3 == SetSize(m2, new, n)
    IN  SetNext(m3, new, next)

MallocFresh(n) ==
    /\ Fitting(n) = {}
    /\ ListEnds
    /\ Prepare(n)
    /\ mem' = AddWords(2 * Address(heapPos), n, Prepared(n).at)
    /\ Give(2 * Address(heapPos), n)
    /\ UNCHANGED <<otherPages, shrinks>>

AtLocation(location) ==
    LET chain == Chain(mem)
    IN  First(chain, {i \in 1..Len(chain) :
                         Location(mem, chain[i]) = 2 * location})

\* free_page_aligned; a location it does not find is only logged.
Free(h) ==
    /\ h \in held
    /\ \/ \E e \in AtLocation(h.location) : mem' = MarkFree(mem, e)
       \/ AtLocation(h.location) = {} /\ ListEnds /\ mem' = mem
    /\ held' = held \ {h}
    /\ UNCHANGED <<heapPos, pageEntryStart, pageEntriesCount, nodeLocStack,
                   listPages, otherPages, shrinks>>

CreateBlock4k ==
    /\ heapPos + 1 <= Limit
    /\ heapPos' = heapPos + 1
    /\ otherPages' = otherPages \cup {heapPos}
    /\ UNCHANGED <<mem, pageEntryStart, pageEntriesCount, nodeLocStack,
                   listPages, held, shrinks>>

\* Mutant of Combinable: the entry behind is not looked at.
CombinableAlone(m, e) == IsFree(m, e)

Combinable(m, e) == IsFree(m, e) /\ IsFree(m, NextOf(m, e))

(* One round of shrinkList's loop, at entry s.at: if it is free it swallows *)
(* the one behind it if that is free as well, and the swallowed entry's    *)
(* address goes on the stack; a full stack ends the loop.  Then the walk   *)
(* goes on to the next entry, which after the last one is the null         *)
(* pointer, the head of the list, and the walk begins anew.                *)
Swallowed(m, e) ==
    LET next == NextOf(m, e)
        m1 == SetNext(m, e, NextOf(m, next))
    IN  SetSize(m1, e, Size(m1, e) + Size(m1, next))

ShrinkRound(s) ==
    LET next == NextOf(s.mem, s.at)
        combined == Swallowed(s.mem, s.at)
        pushed == SetLocation(combined, s.stack, next)
    IN  CASE s.done -> s
          [] ~s.done /\ next = NULL -> [s EXCEPT !.done = TRUE]
          [] ~s.done /\ next # NULL /\ ~Combinable(s.mem, s.at) -> [s EXCEPT !.at = next]
          [] OTHER ->
               IF s.stack >= nodeLocStackTop + PageWordCount
               THEN [s EXCEPT !.mem = combined, !.done = TRUE]
               ELSE [mem |-> pushed, stack |-> s.stack + 1,
                     at |-> NextOf(pushed, s.at), done |-> FALSE]

(* shrinkList.  (No state for a walk that circles in a broken list.)       *)
ShrinkList ==
    /\ shrinks < MaxShrinks
    /\ shrinks' = shrinks + 1
    /\ ListEnds
    /\ LET rounds == Len(Chain(mem)) * Len(Chain(mem)) + 1
           walk[n \in 0..rounds] ==
               IF n = 0 THEN [mem |-> mem, stack |-> nodeLocStack,
                              at |-> head, done |-> FALSE]
               ELSE ShrinkRound(walk[n - 1])
       IN  /\ walk[rounds].done
           /\ mem' = walk[rounds].mem
           /\ nodeLocStack' = walk[rounds].stack
    /\ UNCHANGED <<heapPos, pageEntryStart, pageEntriesCount, listPages,
                   otherPages, held>>

Next ==
    \/ \E n \in Counts : MallocReuse(n) \/ MallocFresh(n)
    \/ \E h \in held : Free(h)
    \/ CreateBlock4k
    \/ ShrinkList

Spec == Init /\ [][Next]_vars

----------------------------------------------------------------------------

\* The entries behind head, as module PageList writes them.
Entries ==
    LET chain == Chain(mem)
    IN  [i \in 1 .. Len(chain) - 1 |->
           [location |-> PageAt(Location(mem, chain[i + 1]) \div 2) - 1,
            free     |-> IsFree(mem, chain[i + 1]),
            size     |-> Size(mem, chain[i + 1])]]

(* Until shrinkList is called the linked words are the sequence of module  *)
(* PageList, and every step is one of its steps.                           *)
Lists == INSTANCE PageList
    WITH PageSize <- 1, MaxEntries <- MaxEntries, Kinds <- {},
         PerPage <- <<>>, Boot <- 0, Sizes <- {n - 1 : n \in Counts},
         Limit <- Limit - 1,
         heapPos <- heapPos - 1, list <- Entries,
         pageEntriesCount <- pageEntriesCount, carved <- <<>>,
         held <- {[location |-> PageAt(h.location) - 1, bytes |-> h.count - 1]
                    : h \in held},
         taken <- {p - 1 : p \in listPages \cup otherPages}
ListSpec ==
    Lists!Init /\ [][shrinks' = 0 => [Lists!Next]_(Lists!vars)]_vars

Used == {e \in Range(Entries) : ~e.free}

(* mmu.cpp:22-24: the list lies within pages that only the list uses.      *)
ListInItsPages ==
    LET chain == Chain(mem)
    IN  \A i \in 2 .. Len(chain) : PageAt(chain[i]) \in listPages

\* Free entries that follow each other in the list are neighbours in memory.
NearBy ==
    LET entries == Entries
    IN  \A i \in 1 .. Len(entries) - 1 :
            entries[i].free /\ entries[i + 1].free =>
                entries[i].location + entries[i].size = entries[i + 1].location

(* As long as that holds, combining free entries and noting the swallowed  *)
(* ones leaves every entry in use as it is, and does not run into a loop.  *)
(* mmu.cpp:129, "combines near by free nodes with one anouther": what is   *)
(* free stays the same if the nodes combined are near by, which the code   *)
(* does not look at.                                                       *)
ShrinkKeepsUsed ==
    [][shrinks' # shrinks /\ ListInItsPages =>
          /\ Used' = Used
          /\ Len(Chain(mem')) <= Len(Chain(mem))
          /\ NearBy => Lists!FreePages' = Lists!FreePages]_vars
============================================================================
