------------------------------- MODULE Paging -------------------------------
(***************************************************************************)
(* Page directories and tables (Code/paging.cpp), and the program loader   *)
(* that fills a process's pages through them (Code/util/elf/elf.cpp).      *)
(*                                                                         *)
(* Addresses are counted in pages.  derp_pagging holds 32 null pointers,   *)
(* so that every process has its record at address 0: word 0 is `dir',     *)
(* the words from 1 are table_Loc[].  The allocator's `head' is a null     *)
(* pointer as well: its location, size and next are the words 0, 1 and 2.  *)
(***************************************************************************)
EXTENDS Integers, Sequences, FiniteSets

CONSTANTS
    PerTable,       \* entries of a table (1024)
    Slots,          \* entries of a directory (1024)
    CopySpan,       \* what pagecpy takes for a table's span (0x40000: 64 pages)
    HeapStart,      \* the page of 0x1000000
    junk            \* what a word holds that nobody has written

ASSUME PagingAssumption ==
    /\ PerTable \in Nat \ {0} /\ Slots \in Nat \ {0}
    /\ CopySpan \in 1..PerTable
    /\ HeapStart \in Nat \ {0}
    /\ junk \notin Nat

VARIABLES
    heapPos,        \* the next page alloc_page hands out
    record,         \* the words at address 0
    entries,        \* what directories and tables hold: page -> slot -> page
    content         \* what has been copied into pages: page -> data
pagingVars == <<heapPos, record, entries, content>>

Slot == 0..(Slots - 1)
Index == 0..(PerTable - 1)
Word == 0..Slots
TableWord(slot) == slot + 1
Pages == 0..(Slots * PerTable - 1)

PagingInit ==
    /\ heapPos = HeapStart
    /\ record = [w \in Word |-> junk]
    /\ entries = [p \in {} |-> junk]
    /\ content = [p \in {} |-> junk]

\* The entry at index i of the table (or directory) at page p.  A page is not
\* cleared when it is handed out
Entry(tables, p, i) ==
    IF p \in DOMAIN tables /\ i \in DOMAIN tables[p] THEN tables[p][i] ELSE junk

\* What the processor makes of page number `linear' with directory dir in CR3
Translate(dir, linear) ==
    Entry(entries, Entry(entries, dir, linear \div PerTable), linear % PerTable)

\* f with the entries of g, which count where both have one
Over(g, f) == [x \in DOMAIN g \cup DOMAIN f |-> IF x \in DOMAIN g THEN g[x] ELSE f[x]]
At(x, y) == [z \in {x} |-> y]

\* paging_CreateDirectory
CreateDirectory ==
    /\ record' = [record EXCEPT ![0] = heapPos]
    /\ entries' = Over(At(heapPos, [s \in {} |-> junk]), entries)
    /\ heapPos' = heapPos + 1
    /\ UNCHANGED content

\* paging_CreatePageTable for the slots from `first' on, n of them, each filled by
\* paging_AddPage with the pages of[k]: a table is taken just before it is filled
Tables(dir, first, n, free, of) ==
    Over([p \in free..(free + n - 1) |-> of[p - free]],
         Over(At(dir, Over([s \in first..(first + n - 1) |-> free + s - first], entries[dir])),
              entries))

CreateTables(first, n, of) ==
    /\ entries' = Tables(record[0], first, n, heapPos, of)
    /\ record' = [w \in Word |-> IF w - 1 \in first..(first + n - 1)
                                 THEN heapPos + (w - 1) - first ELSE record[w]]
    /\ heapPos' = heapPos + n
    /\ UNCHANGED content

-----------------------------------------------------------------------------
(* A process's address space and its program.                              *)

CONSTANTS
    StackSlot,      \* the slot of the stack's table (0x2FF)
    HighSlot,       \* the slot of 0xC0000000 (0x300)
    SharedTables,   \* tables of the kernel a process sees (5)
    entry           \* the address of an entry in the allocator's list

ASSUME ProcessAssumption ==
    /\ StackSlot \in Slot \ {0} /\ HighSlot \in Slot \ {0}
    /\ SharedTables \in Nat /\ HighSlot + SharedTables <= Slots
    /\ StackSlot \notin HighSlot..(HighSlot + SharedTables - 1)
    /\ entry \notin Nat

\* The pages scheduler_addProcess takes, in order: the directory, the first table and
\* its pages, the stack's table and its page, the tables that show the kernel
Layout == [directory |-> heapPos, table |-> heapPos + 1, pages |-> heapPos + 2,
           stackTable |-> heapPos + 2 + PerTable, stack |-> heapPos + 3 + PerTable,
           shared |-> heapPos + 4 + PerTable]

\* The tables of a process laid out as in space
SpaceOf(space) ==
    Over(At(space.directory,
            [s \in {0, StackSlot} \cup HighSlot..(HighSlot + SharedTables - 1) |->
                IF s = 0 THEN space.table
                ELSE IF s = StackSlot THEN space.stackTable
                ELSE space.shared + s - HighSlot]),
    Over(At(space.table, [i \in Index |-> space.pages + i]),
    Over(At(space.stackTable, [i \in {PerTable - 1} |-> space.stack]),
         [p \in space.shared..(space.shared + SharedTables - 1) |->
             [i \in Index |-> (p - space.shared) * PerTable + i]])))

\* Mutant of RecordOf: the first process's table stays
RecordOfFirst(space) ==
    [w \in Word |->
        CASE w = 0 -> space.directory
          [] w = TableWord(StackSlot) -> space.stackTable
          [] w - 1 \in HighSlot..(HighSlot + SharedTables - 1) -> space.shared + (w - 1) - HighSlot
          [] OTHER -> record[w]]

\* ... and the record's words behind it
RecordOf(space) ==
    [w \in Word |->
        CASE w = 0 -> space.directory
          [] w = TableWord(0) -> space.table
          [] w = TableWord(StackSlot) -> space.stackTable
          [] w - 1 \in HighSlot..(HighSlot + SharedTables - 1) -> space.shared + (w - 1) - HighSlot
          [] OTHER -> record[w]]

\* pagecpy: the page at the address as the record shows it; a word that is no table's
\* address leads anywhere
CopyTarget(tables, words, addr) ==
    Entry(tables, words[TableWord(addr \div CopySpan)], addr % CopySpan)

\* elf_copy_program, if the section of the names is one: each section that holds data
\* is copied to memory of its own, and one page of that to where it belongs
Copied(program) ==
    {k \in DOMAIN program.sections : program.names /\ program.sections[k].type = "PROGBITS"}

Loaded(program, tables, words) ==
    LET Target(k) == CopyTarget(tables, words, program.sections[k].addr)
        Last(p) == CHOOSE k \in Copied(program) :
                       Target(k) = p /\ \A l \in Copied(program) : Target(l) = p => l <= k
    IN  [p \in {Target(k) : k \in Copied(program)} \ {junk} |->
            program.sections[Last(p)].data]

\* The address space scheduler_addProcess builds and the program it puts there.  The
\* copies' memory comes from malloc, which sets head->next
AddSpace(program) ==
    LET space == Layout
        tables == Over(SpaceOf(space), entries)
        words == [w \in Word |-> IF w = 2 /\ Copied(program) # {} THEN entry
                                 ELSE RecordOf(space)[w]]
    IN  /\ entries' = tables
        /\ record' = words
        /\ content' = Over(Loaded(program, tables, words), content)
        /\ heapPos' = space.shared + SharedTables + Cardinality(Copied(program))
=============================================================================
