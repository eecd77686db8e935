----------------------------- MODULE PageTests -----------------------------
(***************************************************************************)
(* Who calls the page manager of module PageWords: either callers that ask *)
(* and give back at will, or MEMORY_ALLOC_TEST_SUITE of Code/core/mmu.cpp, *)
(* the one caller of shrinkList, which "should not be used with any other  *)
(* memory commands".                                                       *)
(***************************************************************************)
EXTENDS PageWords

CONSTANTS
    PlayCounts,   \* bound: page counts the callers at will need
    PlayLimit     \* bound: pages from address 0 that they may use up

ASSUME PageTestsAssumption ==
    PlayCounts \subseteq Counts /\ PlayLimit \in 1 .. Limit

VARIABLES
    suite,   \* the suite's next call, 0 when callers play at will
    m        \* m0 to m10, what the suite's mallocs returned

suiteVars == <<vars, suite, m>>

PAGE_SIZE == 4 * PageWordCount

\* The pages malloc_page_aligned takes for that many bytes.
PagesFor(bytes) == bytes \div PAGE_SIZE + 1

Mallocs(slots, bytes) ==
    [i \in 1 .. Len(slots) |-> [call |-> "malloc_page_aligned",
                                slot |-> slots[i], pages |-> PagesFor(bytes)]]
Frees(slots) ==
    [i \in 1 .. Len(slots) |-> [call |-> "free_page_aligned",
                                slot |-> slots[i]]]
m0_to_m9 == [i \in 1 .. 10 |-> i - 1]

(* Blocks of 5 * PAGE_SIZE are taken, given back and taken again.          *)
EntryReuseTest ==
    LET round == Mallocs(m0_to_m9, 5 * PAGE_SIZE) \o Frees(m0_to_m9)
    IN  round \o round

(* Smaller ones are then cut from them, m10 from what the first one left.  *)
EntrySplittingTest ==
    Mallocs(m0_to_m9, 3 * PAGE_SIZE) \o Mallocs(<<10>>, 1 * PAGE_SIZE)

(* Free neighbours are combined and asked for again.                       *)
EntryCombiningTest ==
    Frees(<<0, 1, 4, 8, 9>>) \o <<[call |-> "shrinkList"]>>
        \o Mallocs(<<0, 1, 2>>, 3 * PAGE_SIZE)

MEMORY_ALLOC_TEST_SUITE ==
    EntryReuseTest \o EntrySplittingTest \o EntryCombiningTest

Calls == Len(MEMORY_ALLOC_TEST_SUITE)
Now == MEMORY_ALLOC_TEST_SUITE[suite]
Runs(call) == suite \in 1 .. Calls /\ Now.call = call

----------------------------------------------------------------------------

TestInit == Init /\ suite \in {0, 1} /\ m = [i \in 0 .. 10 |-> NULL]

SuiteMalloc ==
    /\ Runs("malloc_page_aligned")
    /\ MallocReuse(Now.pages) \/ MallocFresh(Now.pages)
    /\ m' = [m EXCEPT ![Now.slot] =
                [location |-> IF Fitting(Now.pages) = {} THEN Address(heapPos)
                              ELSE Location(mem', CHOOSE e \in Fitting(Now.pages) :
                                                      TRUE) \div 2,
                 count |-> Now.pages]]

SuiteFree ==
    /\ Runs("free_page_aligned")
    /\ Free(m[Now.slot])
    /\ UNCHANGED m

SuiteShrink ==
    /\ Runs("shrinkList")
    /\ ShrinkList
    /\ UNCHANGED m

\* The suite comes back to nobody: behind its last call stands while (1).
SuiteStep ==
    /\ SuiteMalloc \/ SuiteFree \/ SuiteShrink
    /\ suite' = suite + 1

Play ==
    /\ suite = 0
    /\ Next
    /\ \A h \in held' : h.count \in PlayCounts
    /\ heapPos' <= PlayLimit
    /\ UNCHANGED <<suite, m>>

TestNext == Play \/ SuiteStep

TestSpec == TestInit /\ [][TestNext]_suiteVars
============================================================================
