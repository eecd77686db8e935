----------------------------- MODULE BootProofs -----------------------------
(***************************************************************************)
(* Proofs about modules Boot and Paging, for every size of tables and      *)
(* directories, any image below the heap, any lines and programs: the      *)
(* interrupt table and the controllers' vectors, where the kernel is seen, *)
(* and where programs end up.                                              *)
(***************************************************************************)
EXTENDS Boot, FiniteSetTheorems, TLAPS

\* The stages of the boot: before the kernel's interrupt table can be there, with
\* interrupts off, and with the kernel's table and vectors
Early == {"start", "call", "BIOS", "cli"}
Masked == {"start", "halt", "directory", "high half", "identity", "frame", "enable",
           "buffer", "jump", "far jump", "memory", "idt", "sti"}
Running == {"sti", "loop", "threads"}
Stages == Early \cup Masked \cup Running \cup {"lost"}

\* ... and before the first page is taken, while the kernel's directory is filled, with
\* the tables complete, and behind the change of the descriptor table
Empty == Early \cup {"halt", "directory"}
Building == {"high half", "identity", "frame", "enable"}
Paged == {"enable", "buffer", "jump", "far jump", "memory", "idt", "sti", "loop", "threads"}
High == {"far jump", "memory", "idt", "sti", "loop", "threads"}

\* The processor's state has these fields throughout
Registers == {"interrupts", "protected", "cr3", "cs", "ds", "gdt", "idt", "vectors"}
HasRegisters == DOMAIN cpu = Registers /\ cpu = [r \in DOMAIN cpu |-> cpu[r]]
Space == [directory : Nat, table : Nat, pages : Nat,
          stackTable : Nat, stack : Nat, shared : Nat]

BootTypes ==
    /\ at \in Stages
    /\ HasRegisters
    /\ heapPos \in Nat /\ HeapStart <= heapPos
    /\ record \in [Word -> Nat \cup {junk, entry}]
    /\ DOMAIN entries \subseteq Nat
    /\ processes \in Seq([space : Space, program : Programs])

\* Interrupts are off until the table is the kernel's, but around the BIOS calls
TableInv ==
    /\ at \in Early => cpu.idt # "kernel" /\ saved.idt # "kernel"
    /\ at = "BIOS" => cpu.idt = cpu.vectors
    /\ at \in Masked => cpu.interrupts = FALSE
    /\ at \in Running => cpu.idt = "kernel" /\ cpu.vectors = "kernel"

\* The directory at page dir shows the first n * PerTable pages from slot `first' on,
\* through tables that are not the kernel's directory
HasTables(dir, first, n) ==
    \A k \in 0..(n - 1) : \E t \in Nat :
        /\ t < heapPos /\ t # HeapStart
        /\ Entry(entries, dir, first + k) = t
        /\ \A i \in Index : Entry(entries, t, i) = k * PerTable + i
KernelShown == /\ HasTables(HeapStart, HighSlot, KernelTables)
               /\ HasTables(HeapStart, 0, KernelTables)

ReachInv ==
    /\ at \in Empty => heapPos = HeapStart
    /\ at \in Building => record[0] = HeapStart /\ HeapStart \in DOMAIN entries
    /\ at \in Building \cup Paged => HeapStart < heapPos
    /\ at \in {"identity", "frame"} => HasTables(HeapStart, HighSlot, KernelTables)
    /\ at = "frame" => HasTables(HeapStart, 0, KernelTables)
    /\ (at \in Paged \/ cpu.cr3 # junk) /\ modeInfo = "mode" => KernelShown
    /\ cpu.cr3 # junk => at \in (Paged \ {"enable"}) \cup {"lost"}
    /\ \/ cpu.cr3 \in {junk, HeapStart}
       \/ \E i \in DOMAIN processes : cpu.cr3 = processes[i].space.directory
    /\ cpu.gdt = "low" => cpu.cr3 \in {junk, HeapStart}
    /\ at \in High => cpu.gdt = "high"
    /\ processes # <<>> => at \in {"threads", "lost"}

\* A process's pages follow its directory, and its tables are still what they were
SpaceInPlace(space) ==
    /\ HeapStart < space.directory
    /\ space.table = space.directory + 1
    /\ space.pages = space.directory + 2
    /\ space.pages + PerTable <= heapPos
    /\ Entry(entries, space.directory, 0) = space.table
    /\ \A j \in Index : Entry(entries, space.table, j) = space.pages + j
    /\ HasTables(space.directory, HighSlot, SharedTables)
SpaceInv == \A i \in DOMAIN processes : SpaceInPlace(processes[i].space)

\* Section k of a program is not overwritten by a later one at its address
IsLast(program, k) ==
    \A l \in Copied(program) :
        program.sections[l].addr = program.sections[k].addr => l <= k
Holds(space, program) ==
    \A k \in Copied(program) :
        program.sections[k].addr < CopySpan /\ IsLast(program, k) =>
            /\ space.pages + program.sections[k].addr \in DOMAIN content
            /\ content[space.pages + program.sections[k].addr] = program.sections[k].data
ContentInv == \A i \in DOMAIN processes : Holds(processes[i].space, processes[i].program)

BootInv == BootTypes /\ TableInv /\ ReachInv /\ SpaceInv

-----------------------------------------------------------------------------
(* Numbers.                                                                *)

(* Pages and tables: the p-th page behind the start of table a.            *)
LEMMA Division ==
    ASSUME NEW c \in Nat \ {0}, NEW a \in Nat, NEW p \in Nat
    PROVE  /\ p \div c \in Nat /\ p % c \in 0..(c - 1)
           /\ p = (p \div c) * c + (p % c)
           /\ (a * c + p) \div c = a + p \div c
           /\ (a * c + p) % c = p % c
<1>1. PICK q, r : q = p \div c /\ r = p % c
  OBVIOUS
<1>2. q \in Int /\ r \in 0..(c - 1) /\ p = c * q + r
  BY <1>1
<1>3. q \in Nat
  <2> SUFFICES ASSUME q < 0 PROVE FALSE
    BY <1>2
  <2>1. c * q <= c * (-1)
    BY <1>2
  <2> QED  BY <1>2, <2>1
<1>4. c * q = q * c /\ c * a = a * c
  BY <1>2
<1>5. a * c + p \in Nat /\ a * c + p = c * (a + q) + r
  BY <1>2, <1>3, <1>4
<1>6. PICK u, v : u = (a * c + p) \div c /\ v = (a * c + p) % c
  OBVIOUS
<1>7. u \in Int /\ v \in 0..(c - 1) /\ a * c + p = c * u + v
  BY <1>5, <1>6
<1>8. u = a + q
  <2>1. CASE u < a + q
    <3>1. c * (u + 1) <= c * (a + q)
      BY <1>3, <1>7, <2>1
    <3>2. c * (u + 1) = c * u + c
      BY <1>7
    <3> QED  BY <1>2, <1>3, <1>5, <1>7, <3>1, <3>2
  <2>2. CASE u > a + q
    <3>1. c * (a + q + 1) <= c * u
      BY <1>3, <1>7, <2>2
    <3>2. c * (a + q + 1) = c * (a + q) + c
      BY <1>3
    <3> QED  BY <1>2, <1>3, <1>5, <1>7, <3>1, <3>2
  <2> QED  BY <1>3, <1>7, <2>1, <2>2
<1>9. v = r
  BY <1>2, <1>3, <1>5, <1>7, <1>8
<1> QED
  BY <1>1, <1>2, <1>3, <1>4, <1>6, <1>8, <1>9

(* A page below the end of n tables is in one of them.                     *)
LEMMA TableOf ==
    ASSUME NEW c \in Nat \ {0}, NEW n \in Nat, NEW p \in Nat, p < n * c
    PROVE  p \div c \in 0..(n - 1)
<1>1. PICK q, r : q = p \div c /\ r = p % c
  OBVIOUS
<1>2. q \in Nat /\ r \in 0..(c - 1) /\ p = q * c + r
  BY <1>1, Division
<1>3. q < n
  <2> SUFFICES ASSUME n <= q PROVE FALSE
    BY <1>2
  <2>1. n * c <= q * c
    BY <1>2
  <2> QED  BY <1>2, <2>1
<1> QED
  BY <1>1, <1>2, <1>3

(* The constants.                                                          *)
LEMMA Sizes ==
    /\ PerTable \in Nat \ {0} /\ Slots \in Nat \ {0} /\ HeapStart \in Nat \ {0}
    /\ CopySpan \in Nat \ {0} /\ CopySpan <= PerTable
    /\ HighSlot \in Nat \ {0} /\ KernelTables \in Nat \ {0} /\ KernelTables <= HighSlot
    /\ HighSlot + KernelTables <= Slots
    /\ SharedTables \in Nat /\ HighSlot + SharedTables <= Slots
    /\ StackSlot \in Nat \ {0} /\ StackSlot < Slots
    /\ StackSlot \notin HighSlot..(HighSlot + SharedTables - 1)
    /\ FrameSlot \in Nat /\ FrameSlot < Slots
    /\ FrameSlot \notin 0..(KernelTables - 1)
    /\ FrameSlot \notin HighSlot..(HighSlot + KernelTables - 1)
    /\ BufferPages \in Nat
    /\ junk \notin Nat /\ entry \notin Nat
BY PagingAssumption, ProcessAssumption, BootAssumption DEF Slot

(* What a directory's tables show is what the processor finds.             *)
LEMMA TablesShow ==
    ASSUME NEW dir, NEW first \in Nat, NEW n \in Nat, HasTables(dir, first, n),
           NEW p \in Nat, p < n * PerTable
    PROVE  Translate(dir, first * PerTable + p) = p
<1>1. p \div PerTable \in 0..(n - 1)
  BY TableOf, Sizes
<1>2. /\ (first * PerTable + p) \div PerTable = first + p \div PerTable
      /\ (first * PerTable + p) % PerTable = p % PerTable
      /\ p % PerTable \in Index
      /\ p = (p \div PerTable) * PerTable + (p % PerTable)
  <2>1. PerTable \in Nat \ {0}
    BY Sizes
  <2>2. /\ p % PerTable \in 0..(PerTable - 1)
        /\ p = (p \div PerTable) * PerTable + (p % PerTable)
        /\ (first * PerTable + p) \div PerTable = first + p \div PerTable
        /\ (first * PerTable + p) % PerTable = p % PerTable
    BY <2>1, Division
  <2> QED  BY <2>2, Zenon DEF Index
<1>3. PICK t \in Nat : /\ Entry(entries, dir, first + p \div PerTable) = t
                       /\ \A i \in Index : Entry(entries, t, i) = (p \div PerTable) * PerTable + i
  BY <1>1 DEF HasTables
<1> QED
  BY <1>2, <1>3 DEF Translate

-----------------------------------------------------------------------------
(* Tables that are added leave those below heapPos alone.                  *)

(* An entry of two sets of tables laid over each other.                    *)
LEMMA OverEntry ==
    ASSUME NEW g, NEW f, NEW p, NEW i
    PROVE  Entry(Over(g, f), p, i) =
               IF p \in DOMAIN g THEN IF i \in DOMAIN g[p] THEN g[p][i] ELSE junk
               ELSE Entry(f, p, i)
BY DEF Entry, Over

(* ... and of one table laid over others.                                  *)
LEMMA OverAt ==
    ASSUME NEW x, NEW y, NEW f, NEW p, NEW i
    PROVE  Entry(Over(At(x, y), f), p, i) =
               IF p = x THEN IF i \in DOMAIN y THEN y[i] ELSE junk
               ELSE Entry(f, p, i)
<1>1. DOMAIN At(x, y) = {x} /\ At(x, y)[x] = y
  BY DEF At
<1> QED
  BY <1>1, OverEntry

(* The pages that have tables then.                                        *)
LEMMA OverAtPages ==
    ASSUME NEW x, NEW y, NEW f
    PROVE  DOMAIN Over(At(x, y), f) = {x} \cup DOMAIN f
BY DEF At, Over

\* The entries below heapPos of all pages but the kernel's directory stay
Stays == \A p \in Nat : p < heapPos /\ p # HeapStart =>
             \A i : Entry(entries', p, i) = Entry(entries, p, i)

(* What a directory shows it goes on showing if its own entries stay too.  *)
LEMMA TablesStay ==
    ASSUME NEW dir, NEW first \in Nat, NEW n \in Nat, HasTables(dir, first, n),
           Stays, heapPos \in Nat, heapPos' \in Nat, heapPos <= heapPos',
           \A s \in first..(first + n - 1) : Entry(entries', dir, s) = Entry(entries, dir, s)
    PROVE  HasTables(dir, first, n)'
<1> SUFFICES ASSUME NEW k \in 0..(n - 1)
             PROVE  \E t \in Nat :
                       /\ t < heapPos' /\ t # HeapStart
                       /\ Entry(entries', dir, first + k) = t
                       /\ \A i \in Index : Entry(entries', t, i) = k * PerTable + i
  BY DEF HasTables
<1>1. PICK t \in Nat : /\ t < heapPos /\ t # HeapStart
                       /\ Entry(entries, dir, first + k) = t
                       /\ \A i \in Index : Entry(entries, t, i) = k * PerTable + i
  BY DEF HasTables
<1>2. first + k \in first..(first + n - 1)
  OBVIOUS
<1>3. \A i : Entry(entries', t, i) = Entry(entries, t, i)
  BY <1>1 DEF Stays
<1> QED
  BY <1>1, <1>2, <1>3

(* So a process's space stays in place.                                    *)
LEMMA SpaceStays ==
    ASSUME NEW space \in Space, SpaceInPlace(space),
           Stays, heapPos \in Nat, heapPos' \in Nat, heapPos <= heapPos'
    PROVE  SpaceInPlace(space)'
<1>1. /\ space.directory \in Nat /\ space.table \in Nat /\ space.pages \in Nat
      /\ HeapStart < space.directory /\ space.table = space.directory + 1
      /\ space.pages = space.directory + 2 /\ space.pages + PerTable <= heapPos
  BY DEF Space, SpaceInPlace
<1>2. /\ space.directory < heapPos /\ space.directory # HeapStart
      /\ space.table < heapPos /\ space.table # HeapStart
      /\ space.pages + PerTable <= heapPos'
  BY <1>1, Sizes
<1>3. /\ \A i : Entry(entries', space.directory, i) = Entry(entries, space.directory, i)
      /\ \A i : Entry(entries', space.table, i) = Entry(entries, space.table, i)
  BY <1>1, <1>2 DEF Stays
<1>4. HasTables(space.directory, HighSlot, SharedTables)'
  BY <1>3, TablesStay, Sizes DEF SpaceInPlace
<1> QED
  BY <1>1, <1>2, <1>3, <1>4 DEF SpaceInPlace

-----------------------------------------------------------------------------
(* The kernel's tables.                                                    *)

(* What CreateTables writes: n tables behind heapPos, into the directory's *)
(* slots and the record's words, and nothing else below heapPos.           *)
LEMMA CreatedTables ==
    ASSUME BootTypes, record[0] = HeapStart, HeapStart \in DOMAIN entries,
           HeapStart < heapPos,
           NEW first \in Nat, NEW n \in Nat, NEW of, CreateTables(first, n, of)
    PROVE  /\ heapPos' = heapPos + n /\ heapPos' \in Nat
           /\ Stays
           /\ record'[0] = HeapStart /\ record' \in [Word -> Nat \cup {junk, entry}]
           /\ HeapStart \in DOMAIN entries' /\ DOMAIN entries' \subseteq Nat
           /\ \A s \in Nat : s \notin first..(first + n - 1) =>
                  Entry(entries', HeapStart, s) = Entry(entries, HeapStart, s)
           /\ \A k \in 0..(n - 1) :
                  /\ Entry(entries', HeapStart, first + k) = heapPos + k
                  /\ \A i \in DOMAIN of[k] : Entry(entries', heapPos + k, i) = of[k][i]
<1> DEFINE new == [p \in heapPos..(heapPos + n - 1) |-> of[p - heapPos]]
           slots == [s \in first..(first + n - 1) |-> heapPos + s - first]
           dir == Over(slots, entries[HeapStart])
<1>0. heapPos \in Nat
  BY DEF BootTypes
<1>1. /\ heapPos \in Nat /\ HeapStart \in Nat
      /\ entries' = Over(new, Over(At(HeapStart, dir), entries))
      /\ heapPos' = heapPos + n
      /\ record' = [w \in Word |-> IF w - 1 \in first..(first + n - 1)
                                   THEN heapPos + (w - 1) - first ELSE record[w]]
  BY Sizes DEF CreateTables, Tables, BootTypes
<1>2. /\ DOMAIN new = heapPos..(heapPos + n - 1)
      /\ \A k \in 0..(n - 1) : new[heapPos + k] = of[k]
  <2>1. ASSUME NEW k \in 0..(n - 1)
        PROVE  heapPos + k \in heapPos..(heapPos + n - 1) /\ (heapPos + k) - heapPos = k
    BY <1>0
  <2>2. \A k \in 0..(n - 1) : new[heapPos + k] = of[(heapPos + k) - heapPos]
    BY <2>1, Zenon
  <2> QED  BY <2>1, <2>2, Zenon
<1>3. /\ DOMAIN slots = first..(first + n - 1)
      /\ \A k \in 0..(n - 1) : slots[first + k] = heapPos + k
  <2>1. ASSUME NEW k \in 0..(n - 1)
        PROVE  /\ first + k \in first..(first + n - 1)
               /\ heapPos + (first + k) - first = heapPos + k
    BY <1>0
  <2>2. \A k \in 0..(n - 1) : slots[first + k] = heapPos + (first + k) - first
    BY <2>1, Zenon
  <2> QED  BY <2>1, <2>2, Zenon
<1> HIDE DEF new, slots, dir
<1>4. DOMAIN At(HeapStart, dir) = {HeapStart} /\ At(HeapStart, dir)[HeapStart] = dir
  BY DEF At
<1>5. ASSUME NEW p \in Nat, p < heapPos, NEW i
      PROVE  Entry(entries', p, i) = Entry(Over(At(HeapStart, dir), entries), p, i)
  <2>1. p \notin DOMAIN new
    BY <1>0, <1>2, <1>5
  <2> QED  BY <1>1, <2>1, OverEntry
<1>6. Stays
  <2> SUFFICES ASSUME NEW p \in Nat, p < heapPos, p # HeapStart, NEW i
               PROVE  Entry(entries', p, i) = Entry(entries, p, i)
    BY DEF Stays
  <2> QED  BY <1>4, <1>5, OverEntry
<1>7. \A i : Entry(entries', HeapStart, i) = IF i \in DOMAIN dir THEN dir[i] ELSE junk
  <2> SUFFICES ASSUME NEW i
               PROVE  Entry(entries', HeapStart, i) = IF i \in DOMAIN dir THEN dir[i] ELSE junk
    OBVIOUS
  <2>1. Entry(entries', HeapStart, i) = Entry(Over(At(HeapStart, dir), entries), HeapStart, i)
    BY <1>1, <1>5
  <2> QED  BY <1>4, <2>1, OverEntry
<1>8. \A i : Entry(entries', HeapStart, i) =
                 IF i \in first..(first + n - 1) THEN slots[i] ELSE Entry(entries, HeapStart, i)
  BY <1>3, <1>7 DEF dir, Over, Entry
<1>9. ASSUME NEW k \in 0..(n - 1)
      PROVE  /\ Entry(entries', HeapStart, first + k) = heapPos + k
             /\ \A i \in DOMAIN of[k] : Entry(entries', heapPos + k, i) = of[k][i]
  <2>1. first + k \in first..(first + n - 1) /\ heapPos + k \in DOMAIN new
    BY <1>0, <1>2
  <2>2. Entry(entries', HeapStart, first + k) = heapPos + k
    BY <1>3, <1>8, <2>1
  <2>3. new[heapPos + k] = of[k]
    BY <1>2
  <2>4. \A i \in DOMAIN of[k] : Entry(entries', heapPos + k, i) = new[heapPos + k][i]
    BY <1>1, <2>1, <2>3, OverEntry
  <2> QED  BY <2>2, <2>3, <2>4
<1>10. HeapStart \in DOMAIN entries' /\ DOMAIN entries' \subseteq Nat
  <2>1. DOMAIN entries \subseteq Nat /\ DOMAIN new \subseteq Nat
    BY <1>0, <1>2 DEF BootTypes
  <2>2. DOMAIN Over(At(HeapStart, dir), entries) = {HeapStart} \cup DOMAIN entries
    BY <1>4 DEF Over
  <2> QED  BY <1>1, <2>1, <2>2 DEF Over
<1>11. record'[0] = HeapStart /\ record' \in [Word -> Nat \cup {junk, entry}]
  <2>1. 0 \in Word /\ 0 - 1 \notin first..(first + n - 1)
    BY Sizes DEF Word
  <2>2. \A w \in Word : w - 1 \in first..(first + n - 1) => heapPos + (w - 1) - first \in Nat
    BY <1>1 DEF Word
  <2> QED  BY <1>1, <2>1, <2>2 DEF BootTypes
<1>12. \A s \in Nat : s \notin first..(first + n - 1) =>
           Entry(entries', HeapStart, s) = Entry(entries, HeapStart, s)
  BY <1>8
<1>13. heapPos + n \in Nat
  BY <1>1
<1> QED
  BY <1>1, <1>6, <1>9, <1>10, <1>11, <1>12, <1>13

(* The kernel's page numbers fill its tables.                              *)
LEMMA KernelPageIs ==
    ASSUME NEW k \in 0..(KernelTables - 1), NEW i \in Index
    PROVE  i \in DOMAIN KernelPage[k] /\ KernelPage[k][i] = k * PerTable + i
BY DEF KernelPage

(* The tables the kernel makes show its pages.                             *)
LEMMA MadeTables ==
    ASSUME BootTypes, record[0] = HeapStart, HeapStart \in DOMAIN entries,
           HeapStart < heapPos,
           NEW first \in Nat, CreateTables(first, KernelTables, KernelPage)
    PROVE  HasTables(HeapStart, first, KernelTables)'
<1>1. KernelTables \in Nat /\ heapPos \in Nat /\ HeapStart \in Nat
  BY Sizes DEF BootTypes
<1> SUFFICES ASSUME NEW k \in 0..(KernelTables - 1)
             PROVE  \E t \in Nat :
                       /\ t < heapPos' /\ t # HeapStart
                       /\ Entry(entries', HeapStart, first + k) = t
                       /\ \A i \in Index : Entry(entries', t, i) = k * PerTable + i
  BY DEF HasTables
<1>2. /\ heapPos' = heapPos + KernelTables
      /\ Entry(entries', HeapStart, first + k) = heapPos + k
      /\ \A i \in DOMAIN KernelPage[k] : Entry(entries', heapPos + k, i) = KernelPage[k][i]
  BY <1>1, CreatedTables
<1>3. heapPos + k \in Nat /\ heapPos + k < heapPos' /\ heapPos + k # HeapStart
  BY <1>1, <1>2
<1> QED
  BY <1>2, <1>3, KernelPageIs

-----------------------------------------------------------------------------
(* A process's tables and program.                                         *)

(* The fields of the layout: numbers, in order, from heapPos on.           *)
LEMMA LayoutIs ==
    ASSUME heapPos \in Nat
    PROVE  /\ Layout \in Space
           /\ Layout.directory = heapPos /\ Layout.table = heapPos + 1
           /\ Layout.pages = heapPos + 2 /\ Layout.stackTable = heapPos + 2 + PerTable
           /\ Layout.stack = heapPos + 3 + PerTable /\ Layout.shared = heapPos + 4 + PerTable
BY Sizes DEF Layout, Space

(* What a process's tables say.                                            *)
LEMMA SpaceTables ==
    ASSUME heapPos \in Nat, NEW space, space = Layout
    PROVE  /\ \A p \in DOMAIN SpaceOf(space) : p \in Nat /\ p >= heapPos
           /\ space.directory \in DOMAIN SpaceOf(space) /\ space.table \in DOMAIN SpaceOf(space)
           /\ Entry(SpaceOf(space), space.directory, 0) = space.table
           /\ \A j \in Index : Entry(SpaceOf(space), space.table, j) = space.pages + j
           /\ \A k \in 0..(SharedTables - 1) :
                  /\ space.shared + k \in DOMAIN SpaceOf(space)
                  /\ Entry(SpaceOf(space), space.directory, HighSlot + k) = space.shared + k
                  /\ \A i \in Index : Entry(SpaceOf(space), space.shared + k, i) = k * PerTable + i
<1> DEFINE d == [s \in {0, StackSlot} \cup HighSlot..(HighSlot + SharedTables - 1) |->
                    IF s = 0 THEN space.table
                    ELSE IF s = StackSlot THEN space.stackTable
                    ELSE space.shared + s - HighSlot]
           t == [i \in Index |-> space.pages + i]
           st == [i \in {PerTable - 1} |-> space.stack]
           sh == [p \in space.shared..(space.shared + SharedTables - 1) |->
                     [i \in Index |-> (p - space.shared) * PerTable + i]]
           f2 == Over(At(space.stackTable, st), sh)
           f1 == Over(At(space.table, t), f2)
<1>1. SpaceOf(space) = Over(At(space.directory, d), f1)
  BY DEF SpaceOf
<1>2. /\ space.directory = heapPos /\ space.table = heapPos + 1
      /\ space.stackTable = heapPos + 2 + PerTable /\ space.shared = heapPos + 4 + PerTable
  BY LayoutIs
<1>3. /\ PerTable \in Nat \ {0} /\ SharedTables \in Nat /\ HighSlot \in Nat \ {0}
      /\ StackSlot \notin HighSlot..(HighSlot + SharedTables - 1)
  BY Sizes
<1>4. /\ d[0] = space.table /\ 0 \in DOMAIN d
      /\ \A k \in 0..(SharedTables - 1) :
            HighSlot + k \in DOMAIN d /\ d[HighSlot + k] = space.shared + k
  <2>1. ASSUME NEW k \in 0..(SharedTables - 1)
        PROVE  /\ HighSlot + k \in HighSlot..(HighSlot + SharedTables - 1)
               /\ HighSlot + k # 0 /\ HighSlot + k # StackSlot
               /\ space.shared + (HighSlot + k) - HighSlot = space.shared + k
    BY <1>2, <1>3
  <2>2. \A k \in 0..(SharedTables - 1) :
            HighSlot + k \in DOMAIN d /\ d[HighSlot + k] = space.shared + (HighSlot + k) - HighSlot
    BY <2>1, Zenon
  <2>3. d[0] = space.table /\ 0 \in DOMAIN d
    BY Zenon
  <2> QED  BY <2>1, <2>2, <2>3, Zenon
<1>5. DOMAIN t = Index /\ \A j \in Index : t[j] = space.pages + j
  OBVIOUS
<1>6. /\ DOMAIN sh = space.shared..(space.shared + SharedTables - 1)
      /\ \A k \in 0..(SharedTables - 1) :
            /\ space.shared + k \in DOMAIN sh
            /\ DOMAIN sh[space.shared + k] = Index
            /\ \A i \in Index : sh[space.shared + k][i] = k * PerTable + i
  <2>1. ASSUME NEW k \in 0..(SharedTables - 1)
        PROVE  /\ space.shared + k \in space.shared..(space.shared + SharedTables - 1)
               /\ (space.shared + k) - space.shared = k
    BY <1>2, <1>3
  <2>2. \A k \in 0..(SharedTables - 1) :
            /\ space.shared + k \in DOMAIN sh
            /\ sh[space.shared + k] =
                  [i \in Index |-> ((space.shared + k) - space.shared) * PerTable + i]
    BY <2>1, Zenon
  <2>3. \A k \in 0..(SharedTables - 1) :
            sh[space.shared + k] = [i \in Index |-> k * PerTable + i]
    BY <2>1, <2>2, Zenon
  <2>4. ASSUME NEW k \in 0..(SharedTables - 1)
        PROVE  DOMAIN sh[space.shared + k] = Index /\ \A i \in Index : sh[space.shared + k][i] = k * PerTable + i
    <3>1. sh[space.shared + k] = [i \in Index |-> k * PerTable + i]
      BY <2>3
    <3> HIDE DEF sh
    <3> QED  BY <3>1
  <2>5. DOMAIN sh = space.shared..(space.shared + SharedTables - 1)
    BY Zenon
  <2> HIDE DEF sh
  <2> QED  BY <2>2, <2>4, <2>5
<1>15. f2 = Over(At(space.stackTable, st), sh) /\ f1 = Over(At(space.table, t), f2)
  OBVIOUS
<1> HIDE DEF d, t, st, sh, f1, f2
<1>7. /\ DOMAIN f2 = {space.stackTable} \cup DOMAIN sh
      /\ \A p, i : p # space.stackTable => Entry(f2, p, i) = Entry(sh, p, i)
  <2>1. DOMAIN Over(At(space.stackTable, st), sh) = {space.stackTable} \cup DOMAIN sh
    BY OverAtPages
  <2>2. \A i : Entry(Over(At(space.stackTable, st), sh), space.stackTable, i) = IF i \in DOMAIN st THEN st[i] ELSE junk
    BY OverAt
  <2>3. \A p, i : p # space.stackTable => Entry(Over(At(space.stackTable, st), sh), p, i) = Entry(sh, p, i)
    BY OverAt
  <2> QED  BY <1>15, <2>1, <2>2, <2>3
<1>8. /\ DOMAIN f1 = {space.table} \cup DOMAIN f2
      /\ \A i : Entry(f1, space.table, i) = IF i \in DOMAIN t THEN t[i] ELSE junk
      /\ \A p, i : p # space.table => Entry(f1, p, i) = Entry(f2, p, i)
  <2>1. DOMAIN Over(At(space.table, t), f2) = {space.table} \cup DOMAIN f2
    BY OverAtPages
  <2>2. \A i : Entry(Over(At(space.table, t), f2), space.table, i) = IF i \in DOMAIN t THEN t[i] ELSE junk
    BY OverAt
  <2>3. \A p, i : p # space.table => Entry(Over(At(space.table, t), f2), p, i) = Entry(f2, p, i)
    BY OverAt
  <2> QED  BY <1>15, <2>1, <2>2, <2>3
<1>9. /\ DOMAIN SpaceOf(space) = {space.directory} \cup DOMAIN f1
      /\ \A i : Entry(SpaceOf(space), space.directory, i) = IF i \in DOMAIN d THEN d[i] ELSE junk
      /\ \A p, i : p # space.directory => Entry(SpaceOf(space), p, i) = Entry(f1, p, i)
  <2>1. DOMAIN Over(At(space.directory, d), f1) = {space.directory} \cup DOMAIN f1
    BY OverAtPages
  <2>2. \A i : Entry(Over(At(space.directory, d), f1), space.directory, i) = IF i \in DOMAIN d THEN d[i] ELSE junk
    BY OverAt
  <2>3. \A p, i : p # space.directory => Entry(Over(At(space.directory, d), f1), p, i) = Entry(f1, p, i)
    BY OverAt
  <2> QED  BY <1>1, <2>1, <2>2, <2>3
<1>10. \A p \in DOMAIN SpaceOf(space) : p \in Nat /\ p >= heapPos
  BY <1>2, <1>3, <1>6, <1>7, <1>8, <1>9
<1>11. /\ Entry(SpaceOf(space), space.directory, 0) = space.table
       /\ \A k \in 0..(SharedTables - 1) :
             Entry(SpaceOf(space), space.directory, HighSlot + k) = space.shared + k
  BY <1>4, <1>9
<1>12. \A j \in Index : Entry(SpaceOf(space), space.table, j) = space.pages + j
  <2>1. space.table # space.directory
    BY <1>2
  <2> QED  BY <1>5, <1>8, <1>9, <2>1
<1>13. ASSUME NEW k \in 0..(SharedTables - 1)
       PROVE  /\ space.shared + k \in DOMAIN SpaceOf(space)
              /\ \A i \in Index : Entry(SpaceOf(space), space.shared + k, i) = k * PerTable + i
  <2>1. /\ space.shared + k # space.directory /\ space.shared + k # space.table
        /\ space.shared + k # space.stackTable
    BY <1>2, <1>3
  <2>2. \A i : Entry(SpaceOf(space), space.shared + k, i) = Entry(sh, space.shared + k, i)
    BY <1>7, <1>8, <1>9, <2>1
  <2>3. \A i \in Index : Entry(sh, space.shared + k, i) = k * PerTable + i
    BY <1>6 DEF Entry
  <2> QED  BY <1>6, <1>7, <1>8, <1>9, <2>2, <2>3
<1>14. space.directory \in DOMAIN SpaceOf(space) /\ space.table \in DOMAIN SpaceOf(space)
  BY <1>8, <1>9
<1> QED
  BY <1>10, <1>11, <1>12, <1>13, <1>14

(* The sections copied are finitely many.                                  *)
LEMMA CopiedCount ==
    ASSUME NEW program \in Programs
    PROVE  /\ Copied(program) \subseteq Nat
           /\ Cardinality(Copied(program)) \in Nat
           /\ \A k \in Copied(program) : program.sections[k].addr \in Nat
<1>1. /\ IsFiniteSet(DOMAIN program.sections) /\ DOMAIN program.sections \subseteq Nat
      /\ \A k \in DOMAIN program.sections : program.sections[k].addr \in Nat
  BY ProgramAssumption
<1>2. Copied(program) \subseteq DOMAIN program.sections
  BY DEF Copied
<1>3. IsFiniteSet(Copied(program))
  BY <1>1, <1>2, FS_Subset
<1> QED
  BY <1>1, <1>2, <1>3, FS_CardinalityType

\* All entries below heapPos stay
AllStays == \A p \in Nat : p < heapPos => \A i : Entry(entries', p, i) = Entry(entries, p, i)

(* A process's space is in place once it is added, and touches nothing     *)
(* below heapPos.                                                          *)
LEMMA SpaceAdded ==
    ASSUME BootTypes, NEW program \in Programs, AddSpace(program),
           NEW space \in Space, space = Layout, HeapStart < heapPos
    PROVE  /\ heapPos' \in Nat /\ heapPos < heapPos'
           /\ AllStays
           /\ record' \in [Word -> Nat \cup {junk, entry}]
           /\ DOMAIN entries' \subseteq Nat
           /\ SpaceInPlace(space)'
<1>2. /\ heapPos \in Nat /\ HeapStart \in Nat /\ HeapStart <= heapPos
      /\ PerTable \in Nat \ {0} /\ SharedTables \in Nat
      /\ Cardinality(Copied(program)) \in Nat
      /\ space.directory = heapPos /\ space.table = heapPos + 1 /\ space.pages = heapPos + 2
      /\ space.stackTable = heapPos + 2 + PerTable
      /\ space.shared = heapPos + 4 + PerTable
  BY CopiedCount, LayoutIs, Sizes DEF BootTypes
<1>3. /\ entries' = Over(SpaceOf(space), entries)
      /\ heapPos' = space.shared + SharedTables + Cardinality(Copied(program))
      /\ record' = [w \in Word |-> IF w = 2 /\ Copied(program) # {} THEN entry
                                   ELSE RecordOf(space)[w]]
  BY DEF AddSpace
<1>4. heapPos' \in Nat /\ heapPos + 4 + PerTable + SharedTables <= heapPos'
  BY <1>2, <1>3
<1>5. AllStays
  <2> SUFFICES ASSUME NEW p \in Nat, p < heapPos, NEW i
               PROVE  Entry(entries', p, i) = Entry(entries, p, i)
    BY DEF AllStays
  <2>1. p \notin DOMAIN SpaceOf(space)
    BY <1>2, SpaceTables
  <2> QED  BY <1>3, <2>1, OverEntry
<1>6. record' \in [Word -> Nat \cup {junk, entry}]
  <2> SUFFICES ASSUME NEW w \in Word
               PROVE  RecordOf(space)[w] \in Nat \cup {junk, entry}
    BY <1>3
  <2>1. record[w] \in Nat \cup {junk, entry}
    BY DEF BootTypes
  <2>2. w - 1 \in HighSlot..(HighSlot + SharedTables - 1) =>
            space.shared + (w - 1) - HighSlot \in Nat
    BY <1>2, Sizes DEF Word
  <2>3. space.directory \in Nat /\ space.table \in Nat /\ space.stackTable \in Nat
    BY <1>2
  <2> QED  BY <2>1, <2>2, <2>3 DEF RecordOf
<1>7. DOMAIN entries' \subseteq Nat
  <2>1. DOMAIN entries' = DOMAIN SpaceOf(space) \cup DOMAIN entries
    BY <1>3 DEF Over
  <2> QED  BY <1>2, <2>1, SpaceTables DEF BootTypes
<1>8. \A p \in DOMAIN SpaceOf(space) : \A i : Entry(entries', p, i) = Entry(SpaceOf(space), p, i)
  BY <1>3, OverEntry DEF Entry
<1>9. HasTables(space.directory, HighSlot, SharedTables)'
  <2> SUFFICES ASSUME NEW k \in 0..(SharedTables - 1)
               PROVE  \E t \in Nat :
                         /\ t < heapPos' /\ t # HeapStart
                         /\ Entry(entries', space.directory, HighSlot + k) = t
                         /\ \A i \in Index : Entry(entries', t, i) = k * PerTable + i
    BY DEF HasTables
  <2>1. /\ space.directory \in DOMAIN SpaceOf(space)
        /\ space.shared + k \in DOMAIN SpaceOf(space)
        /\ Entry(SpaceOf(space), space.directory, HighSlot + k) = space.shared + k
        /\ \A i \in Index : Entry(SpaceOf(space), space.shared + k, i) = k * PerTable + i
    BY <1>2, SpaceTables
  <2>2. space.shared + k \in Nat /\ space.shared + k < heapPos' /\ space.shared + k # HeapStart
    BY <1>2, <1>3
  <2> QED  BY <1>8, <2>1, <2>2
<1>10. /\ Entry(entries', space.directory, 0) = space.table
       /\ \A j \in Index : Entry(entries', space.table, j) = space.pages + j
  <2>1. /\ space.directory \in DOMAIN SpaceOf(space) /\ space.table \in DOMAIN SpaceOf(space)
        /\ Entry(SpaceOf(space), space.directory, 0) = space.table
        /\ \A j \in Index : Entry(SpaceOf(space), space.table, j) = space.pages + j
    BY <1>2, SpaceTables
  <2> QED  BY <1>8, <2>1
<1> QED
  <2>1. SpaceInPlace(space)'
    BY <1>2, <1>3, <1>9, <1>10 DEF SpaceInPlace
  <2> QED  BY <1>2, <1>4, <1>5, <1>6, <1>7, <2>1

-----------------------------------------------------------------------------
(* The steps.                                                              *)

(* While no table changes, all tables and spaces are what they were.       *)
LEMMA PagingSame ==
    ASSUME UNCHANGED <<heapPos, entries>>
    PROVE  /\ \A dir, first, n : HasTables(dir, first, n)' <=> HasTables(dir, first, n)
           /\ KernelShown' <=> KernelShown
           /\ \A space : SpaceInPlace(space)' <=> SpaceInPlace(space)
<1>1. \A dir, first, n : HasTables(dir, first, n)' <=> HasTables(dir, first, n)
  BY DEF HasTables
<1>2. KernelShown' <=> KernelShown
  BY DEF KernelShown, HasTables
<1>3. \A space : SpaceInPlace(space)' <=> SpaceInPlace(space)
  BY DEF SpaceInPlace, HasTables
<1> QED
  BY <1>1, <1>2, <1>3

(* What each step does to the processor: the fields it changes, and that   *)
(* the others stay.                                                        *)
LEMMA CpuSteps ==
    ASSUME HasRegisters
    PROVE  /\ Start => HasRegisters' /\ cpu'.cr3 = cpu.cr3 /\ cpu'.idt = cpu.idt
                       /\ cpu'.interrupts = cpu.interrupts
           /\ Int32Enter => /\ HasRegisters' /\ cpu'.cr3 = cpu.cr3 /\ saved'.idt = cpu.idt
                            /\ cpu'.idt = "BIOS" /\ cpu'.vectors = "BIOS" /\ cpu'.gdt = "16 bit"
           /\ Int32Leave => HasRegisters' /\ cpu'.cr3 = cpu.cr3 /\ cpu'.idt = saved.idt
           /\ VbeCli => /\ HasRegisters' /\ cpu'.cr3 = cpu.cr3 /\ cpu'.interrupts = FALSE
                        /\ cpu'.gdt = cpu.gdt
           /\ EnablePaging => /\ HasRegisters' /\ cpu'.cr3 = record[0] /\ cpu'.gdt = cpu.gdt
                              /\ cpu'.interrupts = cpu.interrupts
           /\ LongJumpData => /\ HasRegisters' /\ cpu'.cr3 = cpu.cr3 /\ cpu'.gdt = "high"
                              /\ cpu'.interrupts = cpu.interrupts
           /\ LongJumpCode => /\ HasRegisters' /\ cpu'.cr3 = cpu.cr3 /\ cpu'.gdt = cpu.gdt
                              /\ cpu'.interrupts = FALSE
           /\ IdtInit => /\ HasRegisters' /\ cpu'.cr3 = cpu.cr3 /\ cpu'.gdt = cpu.gdt
                         /\ cpu'.interrupts = cpu.interrupts
                         /\ cpu'.idt = "kernel" /\ cpu'.vectors = "kernel"
           /\ HighSti => /\ HasRegisters' /\ cpu'.cr3 = cpu.cr3 /\ cpu'.gdt = cpu.gdt
                         /\ cpu'.idt = cpu.idt /\ cpu'.vectors = cpu.vectors
           /\ SyscallInterrupt => /\ HasRegisters' /\ cpu'.cr3 = cpu.cr3 /\ cpu'.gdt = cpu.gdt
                                  /\ cpu'.interrupts = cpu.interrupts
                                  /\ cpu'.idt = cpu.idt /\ cpu'.vectors = cpu.vectors
<1> USE DEF HasRegisters, Registers
<1>1. ASSUME Start
      PROVE  /\ HasRegisters' /\ cpu'.cr3 = cpu.cr3
             /\ cpu'.idt = cpu.idt /\ cpu'.interrupts = cpu.interrupts
  BY <1>1 DEF Start
<1>2. ASSUME Int32Enter
      PROVE  /\ HasRegisters' /\ cpu'.cr3 = cpu.cr3 /\ saved'.idt = cpu.idt
             /\ cpu'.idt = "BIOS" /\ cpu'.vectors = "BIOS" /\ cpu'.gdt = "16 bit"
  BY <1>2 DEF Int32Enter
<1>3. ASSUME Int32Leave
      PROVE  HasRegisters' /\ cpu'.cr3 = cpu.cr3 /\ cpu'.idt = saved.idt
  BY <1>3 DEF Int32Leave
<1>4. ASSUME VbeCli
      PROVE  /\ HasRegisters' /\ cpu'.cr3 = cpu.cr3
             /\ cpu'.interrupts = FALSE /\ cpu'.gdt = cpu.gdt
  BY <1>4 DEF VbeCli
<1>5. ASSUME EnablePaging
      PROVE  /\ HasRegisters' /\ cpu'.cr3 = record[0]
             /\ cpu'.gdt = cpu.gdt /\ cpu'.interrupts = cpu.interrupts
  BY <1>5 DEF EnablePaging
<1>6. ASSUME LongJumpData
      PROVE  /\ HasRegisters' /\ cpu'.cr3 = cpu.cr3
             /\ cpu'.gdt = "high" /\ cpu'.interrupts = cpu.interrupts
  BY <1>6 DEF LongJumpData
<1>7. ASSUME LongJumpCode
      PROVE  /\ HasRegisters' /\ cpu'.cr3 = cpu.cr3
             /\ cpu'.gdt = cpu.gdt /\ cpu'.interrupts = FALSE
  BY <1>7 DEF LongJumpCode
<1>8. ASSUME IdtInit
      PROVE  /\ HasRegisters' /\ cpu'.cr3 = cpu.cr3 /\ cpu'.gdt = cpu.gdt
             /\ cpu'.interrupts = cpu.interrupts /\ cpu'.idt = "kernel" /\ cpu'.vectors = "kernel"
  BY <1>8 DEF IdtInit
<1>9. ASSUME HighSti
      PROVE  /\ HasRegisters' /\ cpu'.cr3 = cpu.cr3 /\ cpu'.gdt = cpu.gdt
             /\ cpu'.idt = cpu.idt /\ cpu'.vectors = cpu.vectors
  BY <1>9 DEF HighSti
<1>10. ASSUME SyscallInterrupt
      PROVE  /\ HasRegisters' /\ cpu'.cr3 = cpu.cr3 /\ cpu'.gdt = cpu.gdt
             /\ cpu'.interrupts = cpu.interrupts /\ cpu'.idt = cpu.idt /\ cpu'.vectors = cpu.vectors
  BY <1>10 DEF SyscallInterrupt
<1> HIDE DEF HasRegisters, Registers
<1> QED
  BY <1>1, <1>2, <1>3, <1>4, <1>5, <1>6, <1>7, <1>8, <1>9, <1>10

(* The spaces stay in place while neither tables nor processes change.     *)
LEMMA SpacesSame ==
    ASSUME SpaceInv, UNCHANGED <<heapPos, entries, processes>>
    PROVE  SpaceInv'
BY PagingSame DEF SpaceInv

(* The steps before the page tables.                                       *)
LEMMA EarlySteps ==
    ASSUME BootInv, Start \/ HandleNoMultiboot \/ Int32Enter \/ Int32Leave \/ VbeCli
    PROVE  BootInv'
<1> USE DEF Stages, Early, Masked, Running, Empty, Building, Paged, High
<1>1. UNCHANGED <<heapPos, record, entries, processes>>
  BY DEF Start, HandleNoMultiboot, Int32Enter, Int32Leave, VbeCli, pagingVars
<1>2. SpaceInv'
  BY <1>1, SpacesSame DEF BootInv
<1>3. CASE Start
  <2>1. /\ at = "start" /\ at' = "call" /\ HasRegisters' /\ cpu'.cr3 = cpu.cr3
        /\ cpu'.idt = cpu.idt /\ cpu'.interrupts = cpu.interrupts
        /\ saved' = saved /\ modeInfo' = modeInfo
    BY <1>3, CpuSteps DEF Start, Goes, BootInv, BootTypes
  <2>2. BootTypes'
    BY <1>1, <2>1 DEF BootInv, BootTypes
  <2>3. TableInv'
    BY <2>1 DEF BootInv, TableInv
  <2>4. ReachInv'
    BY <1>1, <2>1, PagingSame DEF BootInv, ReachInv
  <2> QED  BY <1>2, <2>2, <2>3, <2>4 DEF BootInv
<1>4. CASE HandleNoMultiboot
  <2>1. at = "start" /\ at' = "halt" /\ UNCHANGED <<cpu, saved, modeInfo>>
    BY <1>4 DEF HandleNoMultiboot, Goes
  <2>2. BootTypes'
    BY <1>1, <2>1 DEF BootInv, BootTypes, HasRegisters
  <2>3. TableInv'
    BY <2>1 DEF BootInv, TableInv
  <2>4. ReachInv'
    BY <1>1, <2>1, PagingSame DEF BootInv, ReachInv
  <2> QED  BY <1>2, <2>2, <2>3, <2>4 DEF BootInv
<1>5. CASE Int32Enter
  <2>1. /\ at = "call" /\ at' = "BIOS" /\ HasRegisters' /\ cpu'.cr3 = cpu.cr3
        /\ cpu'.idt = "BIOS" /\ cpu'.vectors = "BIOS" /\ cpu'.gdt = "16 bit"
        /\ saved'.idt = cpu.idt /\ modeInfo' = modeInfo
    BY <1>5, CpuSteps DEF Int32Enter, Goes, BootInv, BootTypes
  <2>2. BootTypes'
    BY <1>1, <2>1 DEF BootInv, BootTypes
  <2>3. TableInv'
    BY <2>1 DEF BootInv, TableInv
  <2>4. ReachInv'
    BY <1>1, <2>1, PagingSame DEF BootInv, ReachInv
  <2> QED  BY <1>2, <2>2, <2>3, <2>4 DEF BootInv
<1>6. CASE Int32Leave
  <2>1. /\ at = "BIOS" /\ at' \in {"cli", "call"} /\ HasRegisters' /\ cpu'.cr3 = cpu.cr3
        /\ cpu'.idt = saved.idt /\ saved' = saved
    BY <1>6, CpuSteps DEF Int32Leave, BootInv, BootTypes
  <2>2. BootTypes'
    BY <1>1, <2>1 DEF BootInv, BootTypes
  <2>3. TableInv'
    BY <2>1 DEF BootInv, TableInv
  <2>4. cpu.cr3 = junk
    BY <2>1 DEF BootInv, ReachInv
  <2>5. ReachInv'
    BY <1>1, <2>1, <2>4, PagingSame DEF BootInv, ReachInv
  <2> QED  BY <1>2, <2>2, <2>3, <2>5 DEF BootInv
<1>7. CASE VbeCli
  <2>1. /\ at = "cli" /\ at' = "directory" /\ HasRegisters' /\ cpu'.cr3 = cpu.cr3
        /\ cpu'.interrupts = FALSE /\ cpu'.gdt = cpu.gdt
        /\ saved' = saved /\ modeInfo' = modeInfo
    BY <1>7, CpuSteps DEF VbeCli, Goes, BootInv, BootTypes
  <2>2. BootTypes'
    BY <1>1, <2>1 DEF BootInv, BootTypes
  <2>3. TableInv'
    BY <2>1 DEF BootInv, TableInv
  <2>4. ReachInv'
    BY <1>1, <2>1, PagingSame DEF BootInv, ReachInv
  <2> QED  BY <1>2, <2>2, <2>3, <2>4 DEF BootInv
<1> QED
  BY <1>3, <1>4, <1>5, <1>6, <1>7

(* The steps that make the kernel's page tables.                           *)
LEMMA TableSteps ==
    ASSUME BootInv, MakeDirectory \/ MapHighHalf \/ MapIdentity \/ MapFrame
    PROVE  BootInv'
<1> USE DEF Stages, Early, Masked, Running, Empty, Building, Paged, High
<1>1. /\ UNCHANGED <<cpu, saved, modeInfo, processes>>
      /\ at \in {"directory", "high half", "identity", "frame"}
      /\ at' \in {"high half", "identity", "frame", "enable"}
  BY DEF MakeDirectory, MapHighHalf, MapIdentity, MapFrame, RestUnchanged, Goes
<1>2. processes = <<>> /\ processes' = <<>> /\ cpu.cr3 = junk /\ cpu'.cr3 = junk
  BY <1>1 DEF BootInv, ReachInv
<1>3. SpaceInv'
  BY <1>2 DEF SpaceInv
<1>4. TableInv'
  BY <1>1 DEF BootInv, TableInv
<1>5. /\ at' \in Stages /\ HasRegisters'
      /\ processes' \in Seq([space : Space, program : Programs])
  BY <1>1 DEF BootInv, BootTypes, HasRegisters
<1>6. cpu.gdt = "low" => cpu'.cr3 \in {junk, HeapStart}
  BY <1>2
<1>7. CASE MakeDirectory
  <2>1. at = "directory" /\ at' = "high half" /\ heapPos = HeapStart
    BY <1>7 DEF MakeDirectory, Goes, BootInv, ReachInv
  <2>2. /\ record' = [record EXCEPT ![0] = heapPos] /\ heapPos' = heapPos + 1
        /\ entries' = Over(At(heapPos, [s \in {} |-> junk]), entries)
    BY <1>7 DEF MakeDirectory, CreateDirectory
  <2>3. /\ DOMAIN entries' = {heapPos} \cup DOMAIN entries
        /\ heapPos' \in Nat /\ HeapStart < heapPos'
    <3>1. \A x, y, f : DOMAIN Over(At(x, y), f) = {x} \cup DOMAIN f
      BY OverAtPages
    <3>2. DOMAIN Over(At(heapPos, [s \in {} |-> junk]), entries) = {heapPos} \cup DOMAIN entries
      BY <3>1, Zenon
    <3>3. DOMAIN entries' = {heapPos} \cup DOMAIN entries
      BY <2>2, <3>2, Zenon
    <3>4. heapPos' \in Nat /\ HeapStart < heapPos'
      <4>1. heapPos' = heapPos + 1
        BY <2>2
      <4>2. heapPos' = HeapStart + 1
        BY <2>1, <4>1
      <4> QED  BY <4>2, Sizes
    <3> QED  BY <3>3, <3>4
  <2>4. record'[0] = HeapStart /\ record' \in [Word -> Nat \cup {junk, entry}]
    <3>1. 0 \in Word
      BY Sizes DEF Word
    <3> QED  BY <2>1, <2>2, <3>1, Sizes DEF BootInv, BootTypes
  <2>5. BootTypes'
    <3>1. DOMAIN entries' \subseteq Nat
      BY <2>1, <2>3, Sizes DEF BootInv, BootTypes
    <3>2. HeapStart <= heapPos'
      BY <2>3, Sizes
    <3> QED  BY <1>5, <2>3, <2>4, <3>1, <3>2 DEF BootTypes
  <2>6. ReachInv'
    BY <1>1, <1>2, <2>1, <2>3, <2>4 DEF ReachInv
  <2> QED  BY <1>3, <1>4, <2>5, <2>6 DEF BootInv
<1>8. CASE MapHighHalf \/ MapIdentity \/ MapFrame
  <2>1. /\ BootTypes /\ record[0] = HeapStart /\ HeapStart \in DOMAIN entries
        /\ HeapStart < heapPos /\ heapPos \in Nat
    BY <1>8 DEF MapHighHalf, MapIdentity, MapFrame, Goes, BootInv, ReachInv, BootTypes
  <2>2. ASSUME NEW first \in Nat, NEW n \in Nat, NEW of, CreateTables(first, n, of)
        PROVE  /\ BootTypes' /\ Stays /\ heapPos <= heapPos'
               /\ record'[0] = HeapStart /\ HeapStart \in DOMAIN entries' /\ HeapStart < heapPos'
    <3>1. /\ heapPos' = heapPos + n /\ heapPos' \in Nat /\ Stays
          /\ record'[0] = HeapStart /\ record' \in [Word -> Nat \cup {junk, entry}]
          /\ HeapStart \in DOMAIN entries' /\ DOMAIN entries' \subseteq Nat
      BY <2>1, <2>2, CreatedTables
    <3>2. heapPos <= heapPos' /\ HeapStart < heapPos'
      BY <2>1, <3>1, Sizes
    <3>3. HeapStart <= heapPos'
      BY <3>1, <3>2, Sizes
    <3>4. BootTypes'
      BY <1>5, <3>1, <3>3 DEF BootTypes
    <3> QED  BY <3>1, <3>2, <3>4
  <2>3. CASE MapHighHalf
    <3>1. /\ at = "high half" /\ at' = "identity"
          /\ CreateTables(HighSlot, KernelTables, KernelPage)
      BY <2>3 DEF MapHighHalf, Goes
    <3>2. HasTables(HeapStart, HighSlot, KernelTables)'
      BY <2>1, <3>1, MadeTables, Sizes
    <3>3. /\ BootTypes' /\ record'[0] = HeapStart /\ HeapStart \in DOMAIN entries'
          /\ HeapStart < heapPos'
      BY <2>2, <3>1, Sizes
    <3>4. ReachInv'
      BY <1>1, <1>2, <3>1, <3>2, <3>3 DEF ReachInv
    <3> QED  BY <1>3, <1>4, <3>3, <3>4 DEF BootInv
  <2>4. CASE MapIdentity
    <3>1. /\ at = "identity" /\ at' = "frame"
          /\ CreateTables(0, KernelTables, KernelPage)
      BY <2>4 DEF MapIdentity, Goes
    <3>2. HasTables(HeapStart, 0, KernelTables)'
      BY <2>1, <3>1, MadeTables
    <3>3. /\ BootTypes' /\ record'[0] = HeapStart /\ HeapStart \in DOMAIN entries'
          /\ HeapStart < heapPos' /\ Stays /\ heapPos <= heapPos' /\ heapPos' \in Nat
      BY <2>2, <3>1, Sizes DEF BootTypes
    <3>4. \A s \in HighSlot..(HighSlot + KernelTables - 1) :
              Entry(entries', HeapStart, s) = Entry(entries, HeapStart, s)
      <4>1. \A s \in Nat : s \notin 0..(0 + KernelTables - 1) =>
                Entry(entries', HeapStart, s) = Entry(entries, HeapStart, s)
        BY <2>1, <3>1, CreatedTables, Sizes
      <4>2. \A s \in HighSlot..(HighSlot + KernelTables - 1) :
                s \in Nat /\ s \notin 0..(0 + KernelTables - 1)
        BY Sizes
      <4> QED  BY <4>1, <4>2
    <3>5. HasTables(HeapStart, HighSlot, KernelTables)
      BY <3>1 DEF BootInv, ReachInv
    <3>6. HasTables(HeapStart, HighSlot, KernelTables)'
      BY <2>1, <3>3, <3>4, <3>5, TablesStay, Sizes
    <3>7. ReachInv'
      BY <1>1, <1>2, <3>1, <3>2, <3>3, <3>6 DEF ReachInv
    <3> QED  BY <1>3, <1>4, <3>3, <3>7 DEF BootInv
  <2>5. CASE MapFrame
    <3>1. PICK slot \in Slot :
            /\ modeInfo = "mode" => slot = FrameSlot
            /\ CreateTables(slot, 1, [k \in {0} |-> [i \in Index |-> slot * PerTable + i]])
      BY <2>5, Sizes DEF MapFrame, Slot
    <3>2. at = "frame" /\ at' = "enable" /\ slot \in Nat
      BY <2>5 DEF MapFrame, Goes, Slot
    <3>3. /\ BootTypes' /\ record'[0] = HeapStart /\ HeapStart \in DOMAIN entries'
          /\ HeapStart < heapPos' /\ Stays /\ heapPos <= heapPos' /\ heapPos' \in Nat
      BY <2>2, <3>1, <3>2 DEF BootTypes
    <3>4. ASSUME modeInfo = "mode" PROVE KernelShown'
      <4>1. \A s \in Nat : s \notin slot..(slot + 1 - 1) =>
                Entry(entries', HeapStart, s) = Entry(entries, HeapStart, s)
        BY <2>1, <3>1, <3>2, CreatedTables
      <4>2. /\ \A s \in 0..(0 + KernelTables - 1) : s \in Nat /\ s \notin slot..(slot + 1 - 1)
            /\ \A s \in HighSlot..(HighSlot + KernelTables - 1) :
                  s \in Nat /\ s \notin slot..(slot + 1 - 1)
        BY <3>1, <3>4, Sizes
      <4>3. /\ HasTables(HeapStart, HighSlot, KernelTables)
            /\ HasTables(HeapStart, 0, KernelTables)
        BY <3>2 DEF BootInv, ReachInv
      <4>4. HasTables(HeapStart, HighSlot, KernelTables)'
        BY <2>1, <3>3, <4>1, <4>2, <4>3, TablesStay, Sizes
      <4>5. HasTables(HeapStart, 0, KernelTables)'
        BY <2>1, <3>3, <4>1, <4>2, <4>3, TablesStay, Sizes
      <4> QED  BY <4>4, <4>5 DEF KernelShown
    <3>5. ReachInv'
      BY <1>1, <1>2, <3>2, <3>3, <3>4 DEF ReachInv
    <3> QED  BY <1>3, <1>4, <3>3, <3>5 DEF BootInv
  <2> QED  BY <1>8, <2>3, <2>4, <2>5
<1> QED
  BY <1>7, <1>8

(* The steps from paging to the interrupts.                                *)
LEMMA HighSteps ==
    ASSUME BootInv, EnablePaging \/ LongJumpData \/ LongJumpCode \/ IdtInit \/ HighSti
    PROVE  BootInv'
<1> USE DEF Stages, Early, Masked, Running, Empty, Building, Paged, High
<1>1. UNCHANGED <<heapPos, record, entries, processes, saved, modeInfo>>
  BY DEF EnablePaging, LongJumpData, LongJumpCode, IdtInit, HighSti, pagingVars
<1>2. SpaceInv'
  BY <1>1, SpacesSame DEF BootInv
<1>3. CASE EnablePaging
  <2>1. /\ at = "enable" /\ at' = "buffer" /\ HasRegisters' /\ cpu'.cr3 = record[0]
        /\ cpu'.interrupts = cpu.interrupts
    BY <1>3, CpuSteps DEF EnablePaging, Goes, BootInv, BootTypes
  <2>2. BootTypes'
    BY <1>1, <2>1 DEF BootInv, BootTypes
  <2>3. TableInv'
    BY <2>1 DEF BootInv, TableInv
  <2>4. ReachInv'
    BY <1>1, <2>1, PagingSame DEF BootInv, ReachInv
  <2> QED  BY <1>2, <2>2, <2>3, <2>4 DEF BootInv
<1>4. CASE LongJumpData
  <2>1. /\ at = "jump" /\ at' = "far jump" /\ HasRegisters' /\ cpu'.cr3 = cpu.cr3
        /\ cpu'.gdt = "high" /\ cpu'.interrupts = cpu.interrupts
    BY <1>4, CpuSteps DEF LongJumpData, Goes, BootInv, BootTypes
  <2>2. BootTypes'
    BY <1>1, <2>1 DEF BootInv, BootTypes
  <2>3. TableInv'
    BY <2>1 DEF BootInv, TableInv
  <2>4. ReachInv'
    BY <1>1, <2>1, PagingSame DEF BootInv, ReachInv
  <2> QED  BY <1>2, <2>2, <2>3, <2>4 DEF BootInv
<1>5. CASE LongJumpCode
  <2>1. /\ at = "far jump" /\ at' = "memory" /\ HasRegisters' /\ cpu'.cr3 = cpu.cr3
        /\ cpu'.gdt = cpu.gdt /\ cpu'.interrupts = FALSE
    BY <1>5, CpuSteps DEF LongJumpCode, Goes, BootInv, BootTypes
  <2>2. BootTypes'
    BY <1>1, <2>1 DEF BootInv, BootTypes
  <2>3. TableInv'
    BY <2>1 DEF BootInv, TableInv
  <2>4. ReachInv'
    BY <1>1, <2>1, PagingSame DEF BootInv, ReachInv
  <2> QED  BY <1>2, <2>2, <2>3, <2>4 DEF BootInv
<1>6. CASE IdtInit
  <2>1. /\ at = "idt" /\ at' = "sti" /\ HasRegisters' /\ cpu'.cr3 = cpu.cr3
        /\ cpu'.gdt = cpu.gdt /\ cpu'.interrupts = cpu.interrupts
        /\ cpu'.idt = "kernel" /\ cpu'.vectors = "kernel"
    BY <1>6, CpuSteps DEF IdtInit, Goes, BootInv, BootTypes
  <2>2. BootTypes'
    BY <1>1, <2>1 DEF BootInv, BootTypes
  <2>3. TableInv'
    BY <2>1 DEF BootInv, TableInv
  <2>4. ReachInv'
    BY <1>1, <2>1, PagingSame DEF BootInv, ReachInv
  <2> QED  BY <1>2, <2>2, <2>3, <2>4 DEF BootInv
<1>7. CASE HighSti
  <2>1. /\ at = "sti" /\ at' = "loop" /\ HasRegisters' /\ cpu'.cr3 = cpu.cr3
        /\ cpu'.gdt = cpu.gdt /\ cpu'.idt = cpu.idt /\ cpu'.vectors = cpu.vectors
    BY <1>7, CpuSteps DEF HighSti, Goes, BootInv, BootTypes
  <2>2. BootTypes'
    BY <1>1, <2>1 DEF BootInv, BootTypes
  <2>3. TableInv'
    BY <2>1 DEF BootInv, TableInv
  <2>4. ReachInv'
    BY <1>1, <2>1, PagingSame DEF BootInv, ReachInv
  <2> QED  BY <1>2, <2>2, <2>3, <2>4 DEF BootInv
<1> QED
  BY <1>3, <1>4, <1>5, <1>6, <1>7

(* The steps that take pages for something else.                           *)
LEMMA PageSteps ==
    ASSUME BootInv, SetUpFramebuffer \/ MemoryInit
    PROVE  BootInv'
<1> USE DEF Stages, Early, Masked, Running, Empty, Building, Paged, High
<1>1. /\ UNCHANGED <<cpu, saved, modeInfo, processes, entries>>
      /\ at \in {"buffer", "memory"} /\ at' = IF at = "buffer" THEN "jump" ELSE "idt"
  BY DEF SetUpFramebuffer, MemoryInit, RestUnchanged, Goes
<1>2. heapPos \in Nat /\ heapPos' \in Nat /\ heapPos <= heapPos' /\ HeapStart <= heapPos'
  <2>1. heapPos \in Nat /\ HeapStart <= heapPos
    BY DEF BootInv, BootTypes
  <2>2. heapPos' = heapPos + BufferPages \/ heapPos' = heapPos + 1
    BY DEF SetUpFramebuffer, MemoryInit
  <2> QED  BY <2>1, <2>2, Sizes
<1>3. record' \in [Word -> Nat \cup {junk, entry}]
  <2>1. record \in [Word -> Nat \cup {junk, entry}]
    BY DEF BootInv, BootTypes
  <2>2. record' = record \/ record' = [[record EXCEPT ![0] = 0] EXCEPT ![2] = 0]
    BY DEF SetUpFramebuffer, MemoryInit
  <2>3. [record EXCEPT ![0] = 0] \in [Word -> Nat \cup {junk, entry}]
    BY <2>1
  <2>4. [[record EXCEPT ![0] = 0] EXCEPT ![2] = 0] \in [Word -> Nat \cup {junk, entry}]
    BY <2>3
  <2> QED  BY <2>1, <2>2, <2>4
<1>4. BootTypes'
  BY <1>1, <1>2, <1>3 DEF BootInv, BootTypes, HasRegisters
<1>5. TableInv'
  BY <1>1 DEF BootInv, TableInv
<1>6. processes = <<>> /\ SpaceInv'
  <2>1. processes = <<>>
    BY <1>1 DEF BootInv, ReachInv
  <2> QED  BY <1>1, <2>1 DEF SpaceInv
<1>7. KernelShown => KernelShown'
  <2>1. Stays /\ \A s : Entry(entries', HeapStart, s) = Entry(entries, HeapStart, s)
    BY <1>1 DEF Stays
  <2>2. ASSUME NEW first \in Nat, HasTables(HeapStart, first, KernelTables)
        PROVE  HasTables(HeapStart, first, KernelTables)'
    BY <1>2, <2>1, <2>2, TablesStay, Sizes
  <2> QED  BY <2>2, Sizes DEF KernelShown
<1>8. HeapStart < heapPos /\ HeapStart \in Nat
  BY <1>1, Sizes DEF BootInv, ReachInv
<1>9. HeapStart < heapPos'
  BY <1>2, <1>8
<1>10. ReachInv'
  BY <1>1, <1>6, <1>7, <1>9 DEF BootInv, ReachInv
<1> QED
  BY <1>4, <1>5, <1>6, <1>10 DEF BootInv

(* An interrupt: the machine is lost, the BIOS or a handler returns, or    *)
(* the scheduler goes on with the kernel or a process.                     *)
LEMMA InterruptSteps ==
    ASSUME BootInv, NEW n \in Lines, Interrupt(n)
    PROVE  BootInv'
<1> USE DEF Stages, Early, Masked, Running, Empty, Building, Paged, High
<1>1. /\ UNCHANGED <<heapPos, record, entries, processes, saved, modeInfo>>
      /\ cpu.interrupts /\ at \notin {"halt", "lost"}
  BY DEF Interrupt, Lost, BIOSInterrupt, SchedulerInterrupt, DefaultInterrupt,
         SyscallInterrupt, DiskInterrupt, KernelInterrupt, Taken, pagingVars, bootVars
<1>2. SpaceInv'
  BY <1>1, SpacesSame DEF BootInv
<1>3. /\ at \in Early \cup (Running \ Masked)
      /\ cpu.idt = "kernel" => at \in {"loop", "threads"} \/ at = "BIOS"
  BY <1>1 DEF BootInv, BootTypes, TableInv
<1>4. CASE UNCHANGED bootVars
  <2>1. UNCHANGED <<at, cpu>>
    BY <1>4 DEF bootVars
  <2>2. BootTypes'
    BY <1>1, <2>1 DEF BootInv, BootTypes, HasRegisters
  <2>3. TableInv'
    BY <1>1, <2>1 DEF BootInv, TableInv
  <2>4. ReachInv'
    BY <1>1, <2>1, PagingSame DEF BootInv, ReachInv
  <2> QED  BY <1>2, <2>2, <2>3, <2>4 DEF BootInv
<1>5. CASE Lost(n)
  <2>1. at' = "lost" /\ UNCHANGED cpu
    BY <1>5 DEF Lost
  <2>2. BootTypes'
    BY <1>1, <2>1 DEF BootInv, BootTypes, HasRegisters
  <2>3. TableInv'
    BY <2>1 DEF TableInv
  <2>4. ReachInv'
    BY <1>1, <2>1, PagingSame DEF BootInv, ReachInv
  <2> QED  BY <1>2, <2>2, <2>3, <2>4 DEF BootInv
<1>6. CASE SchedulerInterrupt(n)
  <2>1. at \in {"loop", "threads"} /\ at' = "threads" /\ cpu.idt = "kernel" /\ cpu.vectors = "kernel"
    BY <1>3, <1>6 DEF SchedulerInterrupt, KernelInterrupt, BootInv, TableInv
  <2>2. /\ HasRegisters'
        /\ cpu'.idt = cpu.idt /\ cpu'.vectors = cpu.vectors /\ cpu'.gdt = cpu.gdt
        /\ \/ cpu'.cr3 = HeapStart
           \/ \E p \in DOMAIN processes : cpu'.cr3 = processes[p].space.directory
    <3> USE DEF HasRegisters, Registers
    <3>1. HasRegisters
      BY DEF BootInv, BootTypes
    <3>2. CASE cpu' = [cpu EXCEPT !.cs = "high", !.ds = "high", !.cr3 = HeapStart]
      BY <3>1, <3>2
    <3>3. ASSUME NEW p \in DOMAIN processes,
                 cpu' = [cpu EXCEPT !.cs = "flat", !.ds = "flat",
                                    !.cr3 = processes[p].space.directory]
          PROVE  /\ HasRegisters'
                 /\ cpu'.idt = cpu.idt /\ cpu'.vectors = cpu.vectors /\ cpu'.gdt = cpu.gdt
                 /\ cpu'.cr3 = processes[p].space.directory
      BY <3>1, <3>3
    <3> HIDE DEF HasRegisters, Registers
    <3> QED  BY <1>6, <3>2, <3>3 DEF SchedulerInterrupt
  <2>3. BootTypes'
    BY <1>1, <2>1, <2>2 DEF BootInv, BootTypes
  <2>4. TableInv'
    BY <1>1, <2>1, <2>2 DEF BootInv, TableInv
  <2>5. ReachInv'
    BY <1>1, <2>1, <2>2, PagingSame DEF BootInv, ReachInv
  <2> QED  BY <1>2, <2>3, <2>4, <2>5 DEF BootInv
<1>7. CASE SyscallInterrupt
  <2>1. UNCHANGED at
    BY <1>7 DEF SyscallInterrupt
  <2>2. /\ HasRegisters' /\ cpu'.cr3 = cpu.cr3 /\ cpu'.gdt = cpu.gdt
        /\ cpu'.interrupts = cpu.interrupts
        /\ cpu'.idt = cpu.idt /\ cpu'.vectors = cpu.vectors
    BY <1>7, CpuSteps DEF BootInv, BootTypes
  <2>3. BootTypes'
    BY <1>1, <2>1, <2>2 DEF BootInv, BootTypes
  <2>4. TableInv'
    BY <1>1, <2>1, <2>2 DEF BootInv, TableInv
  <2>5. ReachInv'
    BY <1>1, <2>1, <2>2, PagingSame DEF BootInv, ReachInv
  <2> QED  BY <1>2, <2>3, <2>4, <2>5 DEF BootInv
<1> QED
  BY <1>4, <1>5, <1>6, <1>7 DEF Interrupt, BIOSInterrupt, DefaultInterrupt, DiskInterrupt

(* What a sequence holds.                                                  *)
LEMMA ElementOf ==
    ASSUME NEW S, NEW q \in Seq(S), NEW i \in DOMAIN q
    PROVE  q[i] \in S
OBVIOUS

(* A process is added: the others' spaces stay in place.                   *)
LEMMA AddProcessStep ==
    ASSUME BootInv, NEW program \in Programs, AddProcess(program)
    PROVE  BootInv'
<1> USE DEF Stages, Early, Masked, Running, Empty, Building, Paged, High
<1> DEFINE space == Layout
           process == [space |-> space, program |-> program]
<1>1. /\ at = "threads" /\ AddSpace(program)
      /\ UNCHANGED <<at, cpu, saved, modeInfo>>
      /\ processes' = Append(processes, process)
  BY DEF AddProcess
<1>2. BootTypes /\ HeapStart < heapPos /\ heapPos \in Nat
  BY <1>1 DEF BootInv, ReachInv, BootTypes
<1>3. space \in Space
  BY <1>2, LayoutIs
<1>4. PICK s \in Space : s = space
  BY <1>3
<1> HIDE DEF space
<1>5. /\ heapPos' \in Nat /\ heapPos < heapPos'
      /\ AllStays
      /\ record' \in [Word -> Nat \cup {junk, entry}]
      /\ DOMAIN entries' \subseteq Nat
      /\ SpaceInPlace(s)'
  BY <1>1, <1>2, <1>4, SpaceAdded DEF space
<1>6. HeapStart \in Nat /\ HeapStart < heapPos'
  BY <1>2, <1>5, Sizes
<1>7. /\ process \in [space : Space, program : Programs]
      /\ process.space = space
  BY <1>3
<1> HIDE DEF process
<1>8. /\ processes \in Seq([space : Space, program : Programs])
      /\ processes' \in Seq([space : Space, program : Programs])
      /\ Len(processes') = Len(processes) + 1
      /\ \A i \in DOMAIN processes : processes'[i] = processes[i] /\ i \in DOMAIN processes'
      /\ \A i \in DOMAIN processes' : i \in DOMAIN processes \/ processes'[i] = process
      /\ processes' # <<>>
  BY <1>1, <1>2, <1>7 DEF BootTypes
<1>9. BootTypes'
  BY <1>1, <1>2, <1>5, <1>6, <1>8 DEF BootTypes, HasRegisters
<1>10. TableInv'
  BY <1>1 DEF BootInv, TableInv
<1>11. Stays /\ heapPos <= heapPos'
  BY <1>2, <1>5 DEF Stays, AllStays
<1>12. SpaceInv'
  <2> SUFFICES ASSUME NEW i \in DOMAIN processes' PROVE SpaceInPlace(processes[i].space)'
    BY DEF SpaceInv
  <2>1. CASE i \in DOMAIN processes
    <3>1. processes[i].space \in Space
      <4>1. processes[i] \in [space : Space, program : Programs]
        BY <1>8, <2>1, ElementOf
      <4> QED  BY <4>1
    <3>4. SpaceInPlace(processes[i].space)
      BY <2>1 DEF BootInv, SpaceInv
    <3>2. PICK t \in Space : t = processes[i].space
      BY <3>1
    <3>3. SpaceInPlace(t)'
      BY <1>2, <1>5, <1>11, <3>4, <3>2, SpaceStays
    <3> QED  BY <1>8, <2>1, <3>2, <3>3
  <2>2. CASE processes'[i] = process
    BY <1>4, <1>5, <1>7, <2>2
  <2> QED  BY <1>8, <2>1, <2>2
<1>13. KernelShown => KernelShown'
  <2>1. \A i : Entry(entries', HeapStart, i) = Entry(entries, HeapStart, i)
    BY <1>2, <1>5, <1>6 DEF AllStays
  <2>2. ASSUME NEW first \in Nat, HasTables(HeapStart, first, KernelTables)
        PROVE  HasTables(HeapStart, first, KernelTables)'
    BY <1>2, <1>5, <1>11, <2>1, <2>2, TablesStay, Sizes
  <2> QED  BY <2>2, Sizes DEF KernelShown
<1>14. ReachInv'
  BY <1>1, <1>6, <1>8, <1>13 DEF BootInv, ReachInv
<1> QED
  BY <1>9, <1>10, <1>12, <1>14 DEF BootInv

-----------------------------------------------------------------------------
(* The invariant.                                                          *)

(* At the start nothing is mapped and interrupts are off.                  *)
LEMMA BootInitially ==
    ASSUME Init
    PROVE  BootInv
<1> USE DEF Init, PagingInit, Stages, Early, Masked, Running, Empty, Building, Paged, High
<1>1. at = "start" /\ processes = <<>> /\ heapPos = HeapStart
  OBVIOUS
<1>2. /\ HasRegisters /\ cpu.interrupts = FALSE /\ cpu.cr3 = junk /\ cpu.gdt = "loader"
      /\ cpu.idt = "loader" /\ saved.idt = "none"
  BY DEF HasRegisters, Registers
<1>3. record \in [Word -> Nat \cup {junk, entry}]
  OBVIOUS
<1>4. DOMAIN entries \subseteq Nat
  OBVIOUS
<1>5. BootTypes
  BY <1>1, <1>2, <1>3, <1>4, Sizes DEF BootTypes
<1>6. TableInv
  BY <1>1, <1>2 DEF TableInv
<1>7. ReachInv
  BY <1>1, <1>2 DEF ReachInv
<1>8. SpaceInv
  BY <1>1 DEF SpaceInv
<1> QED
  BY <1>5, <1>6, <1>7, <1>8 DEF BootInv

(* Every step keeps the invariant.                                         *)
LEMMA BootStep ==
    ASSUME BootInv, [Next]_vars
    PROVE  BootInv'
<1>1. CASE Booting
  BY <1>1, EarlySteps, TableSteps, HighSteps, PageSteps DEF Booting
<1>2. CASE \E program \in Programs : AddProcess(program)
  BY <1>2, AddProcessStep
<1>3. ASSUME NEW n \in Lines, Interrupt(n) PROVE BootInv'
  BY <1>3, InterruptSteps
<1>4. ASSUME UNCHANGED <<pagingVars, bootVars>> PROVE BootInv'
  <2>1. UNCHANGED <<at, cpu, saved, heapPos, record, entries, processes, modeInfo>>
    BY <1>4 DEF pagingVars, bootVars
  <2>2. BootTypes'
    BY <2>1 DEF BootInv, BootTypes, HasRegisters
  <2>3. TableInv'
    BY <2>1 DEF BootInv, TableInv
  <2>4. ReachInv'
    BY <2>1, PagingSame DEF BootInv, ReachInv
  <2>5. SpaceInv'
    BY <2>1, SpacesSame DEF BootInv
  <2> QED  BY <2>2, <2>3, <2>4, <2>5 DEF BootInv
<1>5. ASSUME NEW n \in Lines, InterruptRaised(n) PROVE BootInv'
  BY <1>4, <1>5 DEF InterruptRaised
<1>6. CASE UNCHANGED vars
  BY <1>4, <1>6 DEF vars
<1> QED
  BY <1>1, <1>2, <1>3, <1>5, <1>6 DEF Next

(* The invariant holds of every behaviour.                                 *)
LEMMA BootSafe == Spec => []BootInv
<1>1. Init => BootInv
  BY BootInitially
<1>2. BootInv /\ [Next]_vars => BootInv'
  BY BootStep
<1> QED
  BY <1>1, <1>2, PTL DEF Spec

(* Interrupts are on only while the table in use is the one the two        *)
(* controllers' vectors belong to, but between a BIOS call's sti and the   *)
(* next cli.                                                               *)
THEOREM InterruptsKeepTable == Spec => []InterruptsFindTable
<1>1. BootInv => InterruptsFindTable
  BY DEF BootInv, BootTypes, TableInv, InterruptsFindTable, Stages, Early, Masked, Running
<1> QED
  BY <1>1, BootSafe, PTL

(* What the processor sees of page p through a segment, in the kernel's    *)
(* directory and in a process's.                                           *)
LEMMA ImageShown ==
    ASSUME NEW p \in Image
    PROVE  /\ KernelShown => Translate(HeapStart, HighSlot * PerTable + p) = p
           /\ KernelShown => Translate(HeapStart, 0 + p) = p
           /\ \A dir : HasTables(dir, HighSlot, SharedTables) =>
                           Translate(dir, HighSlot * PerTable + p) = p
<1>1. p \in Nat /\ p < HeapStart
  BY BootAssumption, Sizes
<1>2. p < KernelTables * PerTable /\ p < SharedTables * PerTable
  <2>1. PICK a, b : a = KernelTables * PerTable /\ b = SharedTables * PerTable
    OBVIOUS
  <2>2. a \in Nat /\ b \in Nat
    BY <2>1, Sizes
  <2> QED  BY <1>1, <2>1, <2>2, ReachAssumption, Sizes
<1>3. 0 * PerTable = 0
  BY Sizes
<1> QED
  BY <1>1, <1>2, <1>3, TablesShow, Sizes DEF KernelShown

(* Whatever directory and descriptor table are in force, the kernel's      *)
(* image is where its segments show it.                                    *)
THEOREM KernelStaysInReach == Spec => []KernelInReach
<1>1. ASSUME BootInv PROVE KernelInReach
  <2> SUFFICES ASSUME cpu.cr3 # junk, modeInfo = "mode", NEW p \in Image
               PROVE  /\ Shows("high", p)
                      /\ cpu.gdt = "low" => Shows("flat", p)
                      /\ \A s \in {cpu.cs, cpu.ds} : cpu.cr3 = HeapStart => Shows(s, p)
    BY DEF KernelInReach
  <2>1. KernelShown
    BY <1>1 DEF BootInv, ReachInv
  <2>2. \A s : Base(s) = HighSlot * PerTable \/ Base(s) = 0
    BY DEF Base
  <2>3. cpu.cr3 = HeapStart => \A s : Shows(s, p)
    BY <2>1, <2>2, ImageShown DEF Shows
  <2>4. cpu.cr3 = HeapStart \/ \E i \in DOMAIN processes : cpu.cr3 = processes[i].space.directory
    BY <1>1 DEF BootInv, ReachInv
  <2>5. ASSUME NEW i \in DOMAIN processes, cpu.cr3 = processes[i].space.directory
        PROVE  Shows("high", p)
    <3>1. HasTables(processes[i].space.directory, HighSlot, SharedTables)
      BY <1>1 DEF BootInv, SpaceInv, SpaceInPlace
    <3> QED  BY <2>5, <3>1, ImageShown DEF Shows, Base
  <2>6. cpu.gdt = "low" => cpu.cr3 = HeapStart
    BY <1>1 DEF BootInv, ReachInv
  <2> QED  BY <2>3, <2>4, <2>5, <2>6
<1> QED
  BY <1>1, BootSafe, PTL

-----------------------------------------------------------------------------
(* What is copied.                                                         *)

\* Every section lies in what the paging record's first two words are taken for: the
\* programs are linked at address 0.  Beyond that the copies go where words of other
\* tables lead
SmallPrograms ==
    \A program \in Programs : \A k \in Copied(program) :
        program.sections[k].addr < 2 * CopySpan

(* A section's page in the first of the record's spans.                    *)
LEMMA SpanOf ==
    ASSUME NEW addr \in Nat, addr < 2 * CopySpan
    PROVE  /\ addr < CopySpan => addr \div CopySpan = 0 /\ addr % CopySpan = addr
           /\ ~(addr < CopySpan) => addr \div CopySpan = 1
<1>1. PICK q, r : q = addr \div CopySpan /\ r = addr % CopySpan
  OBVIOUS
<1>2. q \in 0..1
  BY <1>1, TableOf, Sizes
<1>3. r \in 0..(CopySpan - 1) /\ addr = q * CopySpan + r
  BY <1>1, Division, Sizes
<1>4. addr = IF q = 0 THEN r ELSE CopySpan + r
  BY <1>2, <1>3, Sizes
<1> QED
  BY <1>1, <1>2, <1>3, <1>4, Sizes

(* The two words through which pagecpy finds the pages of a process that   *)
(* is being added: the first table's, and one that is no table's address.  *)
LEMMA TargetIs ==
    ASSUME BootTypes, NEW program \in Programs, SmallPrograms,
           NEW space \in Space, space = Layout,
           NEW tables, tables = Over(SpaceOf(space), entries),
           NEW words, words = [w \in Word |-> IF w = 2 /\ Copied(program) # {} THEN entry
                                              ELSE RecordOf(space)[w]],
           NEW k \in Copied(program)
    PROVE  CopyTarget(tables, words, program.sections[k].addr) =
               IF program.sections[k].addr < CopySpan
               THEN space.pages + program.sections[k].addr ELSE junk
<1>1. PICK addr \in Nat : addr = program.sections[k].addr
  BY CopiedCount
<1>2. addr < 2 * CopySpan
  BY <1>1 DEF SmallPrograms
<1>3. 1 \in Word /\ 2 \in Word /\ heapPos \in Nat /\ CopySpan <= PerTable
  BY Sizes DEF Word, BootTypes
<1>4. words[2] = entry
  BY <1>3
<1>5. words[1] = space.table
  <2>1. words[1] = RecordOf(space)[1]
    BY <1>3
  <2>2. /\ 1 # 0 /\ 1 = TableWord(0) /\ 1 # TableWord(StackSlot)
        /\ 1 - 1 \notin HighSlot..(HighSlot + SharedTables - 1)
    BY Sizes DEF TableWord
  <2>3. RecordOf(space)[1] = space.table
    BY <1>3, <2>2 DEF RecordOf
  <2> QED  BY <2>1, <2>3
<1>6. CASE addr < CopySpan
  <2>1. CopyTarget(tables, words, addr) = Entry(tables, space.table, addr)
    BY <1>2, <1>5, <1>6, SpanOf DEF CopyTarget, TableWord
  <2>2. addr \in Index
    BY <1>3, <1>6, Sizes DEF Index
  <2>3. /\ space.table \in DOMAIN SpaceOf(space)
        /\ Entry(SpaceOf(space), space.table, addr) = space.pages + addr
    BY <1>3, <2>2, SpaceTables
  <2>4. Entry(tables, space.table, addr) = Entry(SpaceOf(space), space.table, addr)
    BY <2>3, OverEntry DEF Entry
  <2> QED  BY <1>1, <1>6, <2>1, <2>3, <2>4
<1>7. CASE ~(addr < CopySpan)
  <2>1. CopyTarget(tables, words, addr) = Entry(tables, entry, addr % CopySpan)
    BY <1>2, <1>4, <1>7, SpanOf DEF CopyTarget, TableWord
  <2>2. DOMAIN tables = DOMAIN SpaceOf(space) \cup DOMAIN entries
    BY DEF Over
  <2>3. DOMAIN tables \subseteq Nat
    BY <1>3, <2>2, SpaceTables DEF BootTypes
  <2>4. entry \notin DOMAIN tables
    BY <2>3, Sizes
  <2> QED  BY <1>1, <1>7, <2>1, <2>4 DEF Entry
<1> QED
  BY <1>6, <1>7

(* What the copies leave in the pages, the last one where several have the *)
(* same.                                                                   *)
LEMMA LoadedIs ==
    ASSUME NEW program \in Programs, NEW tables, NEW words, NEW base \in Nat,
           \A k \in Copied(program) :
               CopyTarget(tables, words, program.sections[k].addr) =
                   IF program.sections[k].addr < CopySpan
                   THEN base + program.sections[k].addr ELSE junk
    PROVE  /\ \A x \in DOMAIN Loaded(program, tables, words) : x \in Nat /\ base <= x
           /\ \A k \in Copied(program) :
                  program.sections[k].addr < CopySpan /\ IsLast(program, k) =>
                  /\ base + program.sections[k].addr \in DOMAIN Loaded(program, tables, words)
                  /\ Loaded(program, tables, words)[base + program.sections[k].addr] =
                         program.sections[k].data
<1> DEFINE Target(k) == CopyTarget(tables, words, program.sections[k].addr)
           Last(p) == CHOOSE k \in Copied(program) :
                          Target(k) = p /\ \A l \in Copied(program) : Target(l) = p => l <= k
           loaded == Loaded(program, tables, words)
<1>1. /\ DOMAIN loaded = {Target(k) : k \in Copied(program)} \ {junk}
      /\ \A p \in DOMAIN loaded : loaded[p] = program.sections[Last(p)].data
  BY Zenon DEF Loaded
<1>2. /\ Copied(program) \subseteq Nat
      /\ \A k \in Copied(program) : program.sections[k].addr \in Nat
  BY CopiedCount
<1>3. \A k \in Copied(program) :
          Target(k) = IF program.sections[k].addr < CopySpan
                      THEN base + program.sections[k].addr ELSE junk
  OBVIOUS
<1>4. \A p : Last(p) = CHOOSE k \in Copied(program) :
                           Target(k) = p /\ \A l \in Copied(program) : Target(l) = p => l <= k
  OBVIOUS
<1> HIDE DEF Target, Last, loaded
<1>5. \A x \in DOMAIN loaded : x \in Nat /\ base <= x
  BY <1>1, <1>2, <1>3
<1>6. ASSUME NEW k \in Copied(program), program.sections[k].addr < CopySpan, IsLast(program, k)
      PROVE  /\ base + program.sections[k].addr \in DOMAIN loaded
             /\ loaded[base + program.sections[k].addr] = program.sections[k].data
  <2>1. PICK p : p = base + program.sections[k].addr
    OBVIOUS
  <2>2. Target(k) = p /\ p \in Nat /\ p \in DOMAIN loaded
    BY <1>1, <1>2, <1>3, <1>6, <2>1, Sizes
  <2>3. ASSUME NEW l \in Copied(program), Target(l) = p PROVE l <= k
    <3>1. program.sections[l].addr \in Nat /\ program.sections[k].addr \in Nat
      BY <1>2
    <3>2. base + program.sections[l].addr = base + program.sections[k].addr
      BY <1>3, <2>1, <2>2, <2>3, Sizes
    <3>3. program.sections[l].addr = program.sections[k].addr
      BY <3>1, <3>2
    <3> QED  BY <1>6, <3>3 DEF IsLast
  <2>4. PICK j : j = Last(p)
    OBVIOUS
  <2>5. /\ j \in Copied(program) /\ Target(j) = p
        /\ \A l \in Copied(program) : Target(l) = p => l <= j
    <3>1. \E m \in Copied(program) : Target(m) = p /\ \A l \in Copied(program) : Target(l) = p => l <= m
      BY <2>2, <2>3
    <3> QED  BY <1>4, <2>4, <3>1
  <2>6. j <= k /\ k <= j
    BY <2>2, <2>3, <2>5
  <2>7. j = k
    BY <1>2, <2>5, <2>6
  <2> QED  BY <1>1, <2>1, <2>2, <2>4, <2>7
<1> QED
  BY <1>5, <1>6 DEF loaded

(* A process's program stays where it is when another is added, and the    *)
(* other's is where it belongs.                                            *)
LEMMA AddedIsInPlace ==
    ASSUME BootInv, ContentInv, SmallPrograms, NEW program \in Programs, AddProcess(program)
    PROVE  ContentInv'
<1>1. heapPos \in Nat /\ BootTypes /\ SpaceInv
  BY DEF BootInv, BootTypes
<1>2. PICK space \in Space : space = Layout
  BY <1>1, LayoutIs
<1>3. PICK base \in Nat : base = space.pages /\ heapPos < base
  BY <1>1, <1>2, LayoutIs
<1> DEFINE tables == Over(SpaceOf(space), entries)
           words == [w \in Word |-> IF w = 2 /\ Copied(program) # {} THEN entry
                                    ELSE RecordOf(space)[w]]
           loaded == Loaded(program, tables, words)
           process == [space |-> space, program |-> program]
<1>4. content' = Over(loaded, content) /\ processes' = Append(processes, process)
  BY <1>2 DEF AddProcess, AddSpace
<1>5. /\ \A x \in DOMAIN loaded : x \in Nat /\ base <= x
      /\ \A k \in Copied(program) :
             program.sections[k].addr < CopySpan /\ IsLast(program, k) =>
             /\ base + program.sections[k].addr \in DOMAIN loaded
             /\ loaded[base + program.sections[k].addr] = program.sections[k].data
  <2>1. ASSUME NEW k \in Copied(program)
        PROVE  CopyTarget(tables, words, program.sections[k].addr) =
                   IF program.sections[k].addr < CopySpan
                   THEN base + program.sections[k].addr ELSE junk
    BY <1>1, <1>2, <1>3, TargetIs
  <2> HIDE DEF tables, words
  <2> QED  BY <2>1, LoadedIs
<1>6. /\ processes \in Seq([space : Space, program : Programs])
      /\ process \in [space : Space, program : Programs]
      /\ process.space = space /\ process.program = program
  BY <1>1 DEF BootTypes
<1> HIDE DEF tables, words, loaded, process
<1>7. /\ \A i \in DOMAIN processes : processes'[i] = processes[i]
      /\ \A i \in DOMAIN processes' : i \in DOMAIN processes \/ processes'[i] = process
  BY <1>4, <1>6
<1>8. \A x : /\ x \in DOMAIN loaded => x \in DOMAIN content' /\ content'[x] = loaded[x]
             /\ x \in DOMAIN content /\ x \notin DOMAIN loaded =>
                    x \in DOMAIN content' /\ content'[x] = content[x]
  BY <1>4 DEF Over
<1>9. ASSUME NEW i \in DOMAIN processes, NEW s, s = processes[i].space,
             NEW q, q = processes[i].program
      PROVE  Holds(s, q)'
  <2>1. s \in Space /\ q \in Programs
    <3>1. processes[i] \in [space : Space, program : Programs]
      BY <1>6, ElementOf
    <3> QED  BY <1>9, <3>1
  <2>2. SpaceInPlace(s) /\ Holds(s, q)
    BY <1>1, <1>9 DEF SpaceInv, ContentInv
  <2>3. s.pages \in Nat /\ s.pages + PerTable <= heapPos
    BY <2>1, <2>2 DEF SpaceInPlace, Space
  <2> SUFFICES ASSUME NEW k \in Copied(q), q.sections[k].addr < CopySpan, IsLast(q, k)
               PROVE  /\ s.pages + q.sections[k].addr \in DOMAIN content'
                      /\ content'[s.pages + q.sections[k].addr] = q.sections[k].data
    BY DEF Holds
  <2>4. q.sections[k].addr \in Nat
    BY <2>1, CopiedCount
  <2>5. s.pages + q.sections[k].addr < base
    BY <1>1, <1>3, <2>3, <2>4, Sizes
  <2>6. s.pages + q.sections[k].addr \notin DOMAIN loaded
    BY <1>3, <1>5, <2>3, <2>4, <2>5
  <2>7. /\ s.pages + q.sections[k].addr \in DOMAIN content
        /\ content[s.pages + q.sections[k].addr] = q.sections[k].data
    BY <2>2 DEF Holds
  <2> QED  BY <1>8, <2>6, <2>7
<1>10. Holds(space, program)'
  BY <1>3, <1>5, <1>8 DEF Holds
<1>11. ASSUME NEW i \in DOMAIN processes' PROVE Holds(processes[i].space, processes[i].program)'
  <2>1. CASE i \in DOMAIN processes
    <3>1. PICK s, q : s = processes[i].space /\ q = processes[i].program
      OBVIOUS
    <3>2. Holds(s, q)'
      BY <1>9, <2>1, <3>1
    <3> QED  BY <1>7, <2>1, <3>1, <3>2
  <2>2. CASE processes'[i] = process
    BY <1>6, <1>10, <2>2
  <2> QED  BY <1>7, <2>1, <2>2
<1> QED
  BY <1>11 DEF ContentInv

(* Every section that is copied within a table's span is where the process *)
(* looks for it, for every process, whatever others are added later.       *)
THEOREM ProgramsArePlaced ==
    ASSUME SmallPrograms PROVE Spec => []ProgramsInPlace
<1>1. Init => ContentInv
  BY DEF Init, ContentInv
<1>2. ASSUME BootInv, ContentInv, [Next]_vars PROVE ContentInv'
  <2>1. ASSUME UNCHANGED <<content, processes>> PROVE ContentInv'
    BY <1>2, <2>1 DEF ContentInv, Holds
  <2>2. CASE Booting
    <3>1. UNCHANGED <<content, processes>>
      BY <2>2 DEF Booting, Start, HandleNoMultiboot, Int32Enter, Int32Leave, VbeCli,
             MakeDirectory, CreateDirectory, MapHighHalf, MapIdentity, MapFrame, CreateTables,
             EnablePaging, SetUpFramebuffer, LongJumpData, LongJumpCode, MemoryInit, IdtInit,
             HighSti, RestUnchanged, pagingVars
    <3> QED  BY <2>1, <3>1
  <2>3. ASSUME NEW program \in Programs, AddProcess(program) PROVE ContentInv'
    BY <1>2, <2>3, AddedIsInPlace
  <2>4. ASSUME NEW n \in Lines, InterruptRaised(n) \/ Interrupt(n) PROVE ContentInv'
    <3>1. UNCHANGED <<content, processes>>
      BY <2>4 DEF InterruptRaised, Interrupt, Lost, BIOSInterrupt, SchedulerInterrupt,
             DefaultInterrupt, SyscallInterrupt, DiskInterrupt, KernelInterrupt, Taken,
             pagingVars, bootVars
    <3> QED  BY <2>1, <3>1
  <2>5. CASE UNCHANGED vars
    BY <2>1, <2>5 DEF vars, pagingVars, bootVars
  <2> QED  BY <1>2, <2>2, <2>3, <2>4, <2>5 DEF Next
<1>3. ASSUME BootInv, ContentInv PROVE ProgramsInPlace
  <2> SUFFICES ASSUME NEW i \in DOMAIN processes, NEW s, s = processes[i].space,
                      NEW q, q = processes[i].program,
                      NEW k \in Copied(q), q.sections[k].addr < CopySpan, IsLast(q, k)
               PROVE  /\ Translate(s.directory, q.sections[k].addr) \in DOMAIN content
                      /\ content[Translate(s.directory, q.sections[k].addr)] = q.sections[k].data
    BY DEF ProgramsInPlace, IsLast
  <2>1. processes[i] \in [space : Space, program : Programs]
    BY <1>3, ElementOf DEF BootInv, BootTypes
  <2>2. q \in Programs
    BY <2>1
  <2>3. PICK addr \in Nat : addr = q.sections[k].addr
    BY <2>2, CopiedCount
  <2>4. addr < PerTable /\ addr \in Index
    BY <2>3, Sizes DEF Index
  <2>5. addr \div PerTable = 0 /\ addr % PerTable = addr
    <3>1. PICK a, b : a = addr \div PerTable /\ b = addr % PerTable
      OBVIOUS
    <3>2. a \in 0..0
      BY <2>4, <3>1, TableOf, Sizes
    <3>3. b \in 0..(PerTable - 1) /\ addr = a * PerTable + b
      BY <3>1, Division, Sizes
    <3> QED  BY <3>1, <3>2, <3>3, Sizes
  <2>6. /\ Entry(entries, s.directory, 0) = s.table
        /\ Entry(entries, s.table, addr) = s.pages + addr
    BY <1>3, <2>4 DEF BootInv, SpaceInv, SpaceInPlace
  <2>7. Translate(s.directory, addr) = s.pages + addr
    BY <2>5, <2>6 DEF Translate
  <2>8. s.pages + addr \in DOMAIN content /\ content[s.pages + addr] = q.sections[k].data
    BY <1>3, <2>3 DEF ContentInv, Holds
  <2> QED  BY <2>3, <2>7, <2>8
<1> QED
  BY <1>1, <1>2, <1>3, BootSafe, PTL DEF Spec
=============================================================================
