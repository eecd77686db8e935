# DerpOS in TLA+

DerpOS is a small 32-bit operating system for one processor. The repository
holds two kernels. `src/Code` is the current one: a boot path through the BIOS
into the higher half, a page manager, a preemptive round-robin scheduler, a
CD-ROM driver with an ISO9660 reader, system calls, a frame buffer with
windows. `src/Old Code` is the first one: a text screen with a command line,
programs that poll a one-key slot, and VGA graphics.

Concurrency comes from interrupts. In the current kernel the timer and, by
mistake, the keyboard switch threads at any instruction where interrupts are
on; the disk interrupt sets a flag the kernel thread polls. In the first kernel
the keyboard's interrupt writes the key slot between any two steps of whatever
program polls it.

This directory holds models of the two kernels' own logic, the TLC runs that
check them on small instances and the TLAPS proofs that hold for all instances.
`PROJECT.json` lists for every definition the source lines it stands for, the
components with what is not modelled of them, the hazards, and the mutants that
show what each property would catch. Line numbers below are in `src/Code` unless
`Old Code` is named; the active sources are the `.cpp` files `src/Makefile`
names (the `.c` files beside some of them are earlier versions).

## 1. The system's parts

| part | source | state | operations |
|---|---|---|---|
| page manager | `core/mmu.cpp` | `heapPos`, linked list at `head`, bookkeeping page and counter, stack of recycled entries, two carved pages | `malloc_page_aligned`, `free_page_aligned`, `k_create_4k/512/2k_block`, `k_malloc_large`, `shrinkList` |
| scheduler | `scheduler.cpp/.asm` | `current`, `count`, table of (esp, ebp, cr3, ds), `s_hold`, the threads' stacks | `scheduler`, `scheduler_addKernel`, `_setup`, `_addProcess` |
| boot | `kernel.asm`, `asm/int32.asm`, `graphics/vbe.cpp`, `kernel.cpp` | segments, descriptor tables, interrupt flag, video mode | `start`, `int32`, `vbe_init`, `kmain`, `_longJump`, `high_half_kmain` |
| interrupts | `interrupts.cpp`, `asm/irq.asm`, `kernel.asm` | IDT, the two controllers, `isIRQ14` | `idt_init`, default handler, irq14 and its wait |
| paging | `paging.cpp` | the records at address 0, directories and tables | create, add, look up, `pagecpy` |
| ELF loader | `util/elf/elf.cpp` | - | copy sections into a process |
| CD-ROM driver | `disk/drivers/atapi_driver.cpp` | cached root directory; the drive | detect, read sector, read file |
| drive detection | `disk/ata.cpp`, `asm/ata.asm` | `drives[4]`, identify buffer | `enumerate_drives`, `readFile` |
| system calls | `core/syscall.cpp` | one shared kernel stack | put a character, create a window |
| windows, desktop | `graphics/windowManager.cpp`, `desktop/*.cpp` | two window tables, font sheet, frame buffers | create, draw, render |
| screen | `graphics/*.cpp` | double buffer, text screen | copy, draw |
| serial port, kernel log | `io/serial.cpp`, `kernelLog.cpp` | the port's queue, the rows of the log | write, scroll |
| kernel heap | `alloc/alloc.cpp` | headers through one run of memory | `malloc`, `free` |
| vector, string | `util/vector.h`, `util/string.cpp` | a block of pages, a count | `push_back`, assign, `free` |
| first kernel: keyboard | `Old Code/io.c` | `text[0]`, `text[1]` | interrupt handler |
| first kernel: shell, settings | `Old Code/renderer.c`, `command.c` | command, cursor, rows, arrow, colours | `keyCheck`, `commandCheck`, pickers |
| first kernel: programs | `Old Code/tictac.c`, `coltyn2Game.c`, `coltynGame.c` | boards, cards, hands | their polls |
| first kernel: VGA | `Old Code/vga.c` | registers, buffer, screen | set a mode, draw, update |

How they interact. In the current kernel every part takes its memory from the
page manager. Boot sets up paging, the page manager, the interrupts and the
scheduler in that order; `head` and all 32 paging records are null pointers, so
that they share the words at address 0. The timer's gate leads to the scheduler.
The kernel thread (`kernel_ultimate`) detects drives, reads files, logs and runs
the desktop; the driver waits for the disk interrupt through `isIRQ14`.
`scheduler_addProcess` uses paging, the page manager and the ELF loader; its
call in `kernel.cpp:50` is commented out at this commit, and the models treat
adding a process as something the kernel thread may do at any time. Processes
reach the screens through system calls. In the first kernel the shell calls the
settings and the programs; they share the key slot and nothing else.

What makes each part correct:

- page manager: no page has two uses, none is lost, a caller's block stays
  where it is and is large enough; the list can always be searched.
- scheduler: a thread goes on exactly where it was interrupted, with its own
  stack and address space; every thread runs again.
- boot and interrupts: an interrupt always meets the table its vectors belong
  to; the kernel stays where its segments and directories look for it; every
  interrupt is acknowledged where it came from.
- paging and loader: a program is in its own process's pages and stays there.
- CD-ROM driver: a wait ends with the answer to its own packet; a file in
  memory is the file on the disk; reading ends.
- detection: a name finds the first entry it begins with.
- log and desktop: lines stay in order whatever processes write in between; what
  the desktop draws reaches the screen.
- heap, vector: blocks tile their memory; a vector holds what was pushed.
- key slot: a key is acted on once and none stays for ever; the line that is
  matched is the line that is shown.
- programs: counters, notes and scores stay in step with the cards.
- VGA: a mode sets all registers; lines and circles are true.

Hard to test: interrupts between any two instructions, the drive's own pace
and errors, long sequences of malloc and free, rare sizes and full pages, keys
between two reads of one slot. `PROJECT.json` lists the hazards at their lines.

## 2. Modules

| module | models | source |
|---|---|---|
| `PageStore` | the promise of the page manager: blocks, pages on offer, end of memory | - |
| `PageList` | the page manager as the kernel uses it, the list as a sequence | `core/mmu.cpp` without `shrinkList` |
| `PageWords` | the same down to the words of the list, with `shrinkList` and the stack of recycled entries | `core/mmu.cpp:26-259` |
| `PageTests` (extends `PageWords`) | its callers: any, or the kernel's own test suite | `core/mmu.cpp:297-438` |
| `RoundRobin` | the promise of the scheduler: one turn a round for each thread | - |
| `Scheduler` | boot, switch, adding a process, masked interrupts, system calls, key presses | `scheduler.cpp`, `kernel.cpp:40-84` |
| `Paging` | directories, tables, `pagecpy`, a process's address space and program | `paging.cpp`, `scheduler.cpp:153-229`, `elf.cpp` |
| `Boot` (extends `Paging`) | from the boot loader to the threads, the two interrupt controllers and all handlers | `kernel.asm`, `int32.asm`, `vbe.cpp`, `kernel.cpp`, `interrupts.cpp`, `irq.asm` |
| `Atapi` | the driver reading a file, the irq14 handshake, the drive | `atapi_driver.cpp:104-285`, `interrupts.cpp:127-153` |
| `Iso9660` | what the drives are, the root directory of every CD-ROM, the search for a name | `ata.cpp:20-144`, `atapi_driver.cpp:10-151`, `cstring.cpp:19-34` |
| `Desktop` | the kernel's log, serial port, desktop and double buffer, with processes' system calls | `kernelLog.cpp`, `serial.cpp`, `desktop/`, `graphics/`, `syscall.cpp` |
| `Alloc` | the heap class | `alloc/alloc.cpp` |
| `Vector` | the vector template, as strings use it | `util/vector.h`, `util/string.cpp` |
| `Containers` | composes `Alloc` and `Vector` | - |
| `KeySlot` | the key slot, its interrupt handler, the steps of a poll | `Old Code/io.c` |
| `TicTac`, `MemoryCards` (extend `KeySlot`) | two programs that poll it | `tictac.c`, `coltyn2Game.c` |
| `OldShell` (extends both) | the command line, the settings, and which program polls | `renderer.c`, `command.c` |
| `BlackJack` | the card game against a dealer | `coltynGame.c` |
| `Line` | `vga_draw_line` | `Old Code/vga.c` |
| `Vga` (extends `Line`) | setting a mode through the ports, triangles, circles, text, the copy to the screen | `Old Code/vga.c` |

`PageWords` steps like `PageList` until `shrinkList` is called (`ListSpec`);
`PageList` implements `PageStore` (`StoreSpec`); `Scheduler` implements
`RoundRobin` (`TurnsSpec`). `MemoryProofs` (the page manager with its list as a
sequence, heap and vectors), `WordsProofs` (its list in memory), `CdProofs`
(`Atapi` and `Iso9660`), `SchedulerProofs`, `BootProofs`, `DesktopProofs`,
`OldShellProofs` (with blackjack) and `VgaProofs` hold the proofs; the modules
that begin with `MC` hold the instances (`Desktop` needs none).

### Page manager

A page is a number counted from 16 MB (`heapPos`'s initial value). `list` is
the code's list without `head`, an entry that never describes memory. The free
bit of an entry's location word is the field `free`. `MallocReuse` and
`MallocFresh` are the two outcomes of `malloc_page_aligned`, with `splitNode`,
`addNode` and `prepareNodeLoc` inside the same action, bookkeeping pages
included. `held` is not in the code: it is what callers were given and have
not freed. Callers free only what they hold (`upng` and the windows do).
`taken` are the pages that are never returned. `Limit` is where the model
stops; the code never looks whether memory is exhausted, and the actions'
guards `Room` are not in it.

In `PageWords` an address counts words, an entry is three of them, and every
store is made in the code's order on the same memory. `shrinkList`'s walk
continues at the null pointer, that is at `head`, after it combined the last
two entries; the model follows it there. A list that has become a circle would
keep `malloc` searching for ever: `ListEnds` guards those steps.

`shrinkList` has one caller in the repository, `MEMORY_ALLOC_TEST_SUITE`.
`PageTests` is its three tests as a sequence of calls, next to callers that
call at will.

`mmu.cpp:75` wonders whether the `+ 1` of the test for a full bookkeeping page
can go. The mutant `BookkeepingFullLate` is the code without it, and breaks
`ListSpec`: with 341 entries of 12 bytes the page is full.

### Scheduler

A thread has a stack with at most one frame, and `progress` stands for all it
computes. A tick pushes the frame, notes the stack pointer in entry `current`,
chooses the next entry (`NextSlot`) and loads from it. The first switch
overwrites entry 0 with the code's constants. `record` is the word that `head`
and the paging records share: `memory_init` overwrites it, and what
`scheduler_addKernel` then passes on is not the kernel's directory - only the
first switch's constants make up for that (`RunnerIsCurrent`, and
`KernelInReach` of `Boot`, which says that the constant is the directory
`kmain` made). `scheduler_addProcess` is five actions, because a tick could
come between any two of them if interrupts were on.

A key press enters the scheduler through the flat code segment. In the
kernel's address space the same code is there; in a process's it is not, and
the processor is lost (`Astray`). Nobody reads the scan code, so the
controller raises one interrupt only (`MaxKeys` is 1).

### Boot, interrupts and address spaces

`at` is the next step of the boot, in the code's order; `cpu` is what decides
how an interrupt goes: the flag, the code and data segments, the descriptor and
interrupt tables, the directory, and which vectors the controllers send.
`int32` switches to the BIOS's table and vectors and back, with interrupts on
before, during and after; the steps between a `cli` and the next `sti` are one
action. Any line of `Lines` may ask at any time, and is taken where the flag
is set, no line above it asks and none above it is unacknowledged. `Handled`
says whether the processor finds handler, code and table; where it does not,
nobody can say what runs (`Lost`), and nothing is claimed of what follows. The
BIOS may write the frame buffer's description somewhere else than
`vbeModeInfo`, because nobody sets ES (`vbe.cpp:90`): `MapFrame` then maps any
slot, and `KernelInReach` and `ProgramsInPlace` claim nothing.

Addresses in `Paging` count pages. `record` are the words at address 0, which
are all processes' paging records, and the allocator's head: `entry` in word 2
is the address of a list entry, not of a table. A page that is handed out is
not cleared, so what a table holds elsewhere is `junk`. `pagecpy` finds its
table by 0x40000 where a table spans 0x400000 bytes (`CopySpan`), so that only
the first 64 pages of a program get to their places, which is what
`ProgramsInPlace` promises. `AddSpace` is `scheduler_addProcess` as one step,
since interrupts are off from its first to its last line.

### Reading from the CD drive

`pc` is the place in `atapi_drive_read_sector`, `i` the loop counter of
`atapi_read_file`, `memory` says which sector's data lies where. The loops at
lines 220, 222, 272 and 278 have lost their bodies to comments, so that the
statement that follows each is its body; the actions `Poll`, `PollInner`,
`ReadData` and `SectorDone` are what that amounts to. The drive is external: it
asks for the packet, seeks, offers the data, interrupts. A machine (`setup`) has
processes or not, and a drive with any set of habits: it may interrupt when
ready for the packet, stay busy after the last word, reject the PACKET command,
fail to read. A busy drive shows no other status bit and ignores commands. The
processor takes a pending interrupt before the driver's next step. An interrupt
that arrives while a process runs is handled with the process's data segment,
and the flag is written into the process's memory: `Irq14` leaves `isIRQ14`
alone then. Each property says for which machines it holds.

### Finding a file

`Iso9660` is the way from the drives to an entry of a directory: the file whose
sectors `Atapi` then reads. A `Machine` has a device at each of the four places;
`"mute"` is one that answers neither command. Drives answer at once here. A
buffer holds the sector that was read into it, so that the volume descriptor
names the path table's place and the path table the root directory's
(`PathTableIn`, `RootIn`); taken from any other sector the place is any. A read
may fail, and the driver goes on with the new block as it was.

Names are sequences of bytes, because the properties tell them apart byte by
byte: `Match` is `strcmp_with_size`, which looks at no more bytes than the
directory's name has. So a name finds every entry it begins with, directories
included (the flags are not looked at). The kernel needs this: it asks for
`TERMINAL.ELF`, and the disc has `TERMINAL`. `FileIsFirstMatch` says which
entry that is. The root directory kept is the one of the last CD-ROM, while
`readFile` (`ata.cpp:48`) reads sectors from the first drive; they are the same
where the CD is the only one (`bochsrc.bxrc` has it on ata0-master). Where
`rootExtent` is no root directory (no CD-ROM, or a failed read) the search is
`Astray`: it may return anything or not end.

### Log, desktop and windows

`at` and `i` are where the kernel thread is in `kernel_ultimate`: a loop over
rows is one step for each row, because a process's system call may come between
two of them. A row of the text screen keeps the number of its log line and a
process's character, in the 71 columns the log clears and in the nine behind
them. Pixels are blocks of 25 by 25. `LogInOrder` covers the scrolling,
`LetterShown` the way of the desktop's letter through window, double buffer and
screen while processes draw windows over the whole double buffer. The font that
is not there is decoded all the same (`fontSheet` is `"junk"`), or the decoder
fails and the thread stays in `Error_Critical`. `SyscallPutc` takes places on the
text screen only: neither `syscall.cpp:46` nor `vgaText.cpp:20-24` looks at the
row and column a process gives, and others are written over memory that is not in
this model.

### Heap, vectors and strings

`Alloc` keeps the headers as a sequence in list order; `Cleaned` is
`cleanMemoryList`, a recursive function over it. A program uses the heap or strings, which
share nothing (`Containers`). `Vector` has the vector's growth as it is: the
value pushed into a full vector is dropped, the copy goes from the new block to
the old one, and `maxData` stays, so that from then on each push doubles the
pages (`Grow`). `PushedIsKept` therefore speaks of vectors that have not grown,
and `BlocksAreStrings` of all of them.

### The first kernel's keyboard and its programs

`KeySlot` is the slot and the three steps of every poll: look, act, clear. The
handler overwrites the slot at any of them. `seen` is what the look read; a
read of `text[1]` after it gives the old letter or one that came since, with the
Enter key behind it or not (`Reads`), since nothing forces the compiler to read
once. `used` counts how often the key now in the slot has been acted on; it and
`same` are not in the code. `OldShell` says which program polls (`app`) and
composes the line, the commands, the settings and the programs of `TicTac` and
`MemoryCards`. The pickers and the settings' Exit return with the Enter key still
in the slot and leave its clearing to their callers; the comparison of the cards
leaves its key for the next poll to ignore. Right Shift restarts `kmain` inside
the handler and Alt stays in `debug()`: the model stops there.

The line is kept twice, as `command` and as a stretch of `CommandLine` (`row`),
which runs on into the next row behind its last column. Each comparison in
`keyCheck` reads `text[1]` anew (`Tests`, `IsTyped`), and so do the two stores of
a letter: when a key comes between these, line and screen differ, which `mixed`
notes and after which `row` is not kept. `Seconds` writes the clock into the
row the screen begins with, at the end of each poll; after a Tab that
can be the line's own row. The code checks no index. `LineOverruns` is the step
that would leave `command` or `CommandLine`; the model stops there, and lets
backspaces go below the start of both without saying what they overwrite.

`MemoryCards` keeps beside the code's variables the order in which the cards
that lie face up were turned (`turned`) and whether the first of two has been
turned down since none lay face up (`outOfTurn`). In that case
`coltyn2Game.c:136-143` clears the note of the other card: which card is noted
is then wrong, and only how many are noted remains right.
`NotedCardsLieFaceUp` says both.

`BlackJack` is `ColtynMain`, with a key or none at each poll. Nothing in the
kernel starts it: `run()` (`command.c:70-94`) starts the memory cards under the
name `blackjack`. `bJcardCount` runs through the deck across deals, hits and the
dealer's turn, with one check in the main loop. No line counts the cards of a
hand: `bJPlayerCard` writes the player's seventh behind `bJPcards[6]` and its
sign behind `bJPsym`. What that overwrites is the linker's affair; the model
takes the step as `HitBehind` and stops there, and each of the three properties
is about the games before it.

### VGA

`SetMisc` is the first access of `write_regs()`, to the MISC register, which
says behind which ports the CRT controller and the status register are; `Init`
is a VGA in a colour mode, as the kernel's text at 0xB8000 needs it, and both
modes' values keep these ports. `write_regs` is the sequence of the accesses
behind it, and `Access` what the VGA makes of each (external): registers 0 to 7 of the CRT controller
can be locked, the attribute controller's port takes numbers and values in
turn. `Init` leaves lock and port as any text mode may have left them. Figures are drawn
into `buffer`, a set of offsets, and copied to `screen`. `Line` is one module
for both branches of `vga_draw_line`: `u` along the longer axis, `v` across.


## 3. Runs

| run | question | distinct states | bounds |
|---|---|---|---|
| `page_list` | does every page have one use, does a block stay where it is, is it `PageStore`? | 101 120 | 10 pages, sizes of 1, 2 and 3 pages, 2 entries to a bookkeeping page, kinds of 3 and 2 blocks to a page |
| `page_words` | are the words of memory `PageList`'s sequence; does `shrinkList` leave used entries alone? | 19 201 | pages of 6 words; callers at will: 9 pages, blocks of 1 and 2, one `shrinkList` at any point; the test suite: 75 pages, blocks of 2, 4 and 6 |
| `scheduler` | does everybody go on where he was, and run again, in round-robin order? | 3 174 | 3 processes, progress modulo 2, one key press |
| `keyboard_vector` | *violated*: a key press leaves the thread where it is (`interrupts.cpp:71`: "INT 33 - Keyboard") | - | 2 processes |
| `atapi` | does a wait end with its own answer, is every sector in its place, does reading end? | 18 100 | files of 0, 2, 3 and 5 bytes, sectors of 2; with and without processes, all 16 sets of a drive's habits |
| `iso9660` | does the search end, with the first entry that fits, of the last CD-ROM? | 191 589 | up to two CD-ROMs in four places, three discs, three names, any read failing |
| `boot` | do interrupts find their table, and the kernel itself, all the way; are programs in their own pages; is the disk answered? | 66 336 | tables of 8 entries, a directory of 16 slots, `CopySpan` 2, lines 0, 1, 3, 8, 14, three programs, 2 processes, 2 lines asking at once |
| `desktop` | does the log scroll in order, does the desktop's letter reach the screen? | 85 178 | 4 text rows, 5 messages, 4 by 4 blocks, 2 windows, 2 characters |
| `containers` | do blocks tile the heap, is what was pushed kept, are pages lost? | 57 880 | header 1, heap 18, sizes 0, 2, 3, 5, 4 blocks held; two strings with 4 elements to a page, texts of one and two letters, 4 pages |
| `old_shell` | is a key acted on once, is the line matched the one shown but for the clock's columns, are the notes those of the cards face up as long as the last one turned is the one turned down, does a letter leave the slot? | 807 251 | names of one and two letters, a command of 3 letters, 6 rows of 3 columns with one of the clock's, 3 cards, 2 colours; keys as `KeyComes` has them |
| `blackjack` | until the player asks for a seventh card: is no card read from behind the deck, do the dealer's cards fit, is the winner right? | 3 986 | the shipped deck of 56, reshuffled from card 50 on |
| `vga` | are all registers the mode's, MISC included, are lines and circles true? | 49 361 | a 9 by 9 screen, triangles on 4 corners, all 25 CRT registers |

Why the bounds are enough.

- `page_list`, `page_words`: the decisions depend on whether an entry is free,
  large enough, first, last, of exactly the size; on whether the bookkeeping
  page is full; and on whether a carved page is used up. Two entries to a page
  and three sizes make these happen together (a split that runs into a full
  page, a carved page between two blocks). The test suite's sizes leave free
  neighbours for `shrinkList` to combine. The proofs about `PageList` cover any number.
- `scheduler`: three processes give the table a first, a middle and a last
  entry and one that is being added while two wait. The proofs cover any number.
- `atapi`: files of 0 to 5 bytes in sectors of 2 are empty, exact, and with a
  rest; between two sectors all leftovers of the first can meet the second.
- `iso9660`: the discs have a name before and after a longer one that begins
  with it, and two that differ in the last byte; two CD-ROMs are an earlier and
  a last one, with any other drive between.
- `boot`: the lines are the timer, the keyboard, the line that shares the
  system call's vector (3), one of the second controller that only the default
  handler knows (8), and the disk. Two processes are what it takes for the
  second to overwrite the first one's record. The programs have two sections in
  one page, one behind `CopySpan`, and a section before which no name is found.
- `desktop`: five messages on four rows scroll twice. Two windows and a letter
  can overlap in every way that four blocks in each direction allow.
- `containers`: blocks can be cut with and without a rest, merged with the one
  before, the one behind and both; four elements to a page are filled by three
  letters, so that assignments and pushes both grow a vector.
- `old_shell`: the names chosen let a line be a command, begin like one, and be
  too long; a line runs on into the next row, comes under the clock, and leaves
  `command`, and the cursor leaves the last row. Three cards, two of them alike,
  give a pair and a miss, and the first of two turned down. `KeyComes` bounds the
  keys: one backspace past the start of the line; while the shell deals with a
  key, only a backspace or Enter comes; behind row 1 two letters to a line;
  programs are started from a list that has not been scrolled, in rows 1 and 2.
  No proof uses `KeyComes`.
- `blackjack`: the properties depend on the deck's order and on where it is
  reshuffled; both are the program's own, and so are the six places of a hand.
- `vga`: a 9 by 9 screen has lines of all eight octants, of slope 0, 1 and
  between, and circles whose radius makes the error step both ways.

`CHECK_DEADLOCK FALSE` stands in every configuration because every system may
stop: memory, heap and pages are bounded (`page_list`, `page_words`,
`containers`); a fatal key press, a halt or a lost machine ends everything
(`scheduler`, `keyboard_vector`, `boot`, `old_shell`); the file has been read or
the drive never answers (`atapi`, `iso9660`); the log, the windows and the
characters are bounded (`desktop`); a game's deck is at its end or the player
leaves (`blackjack`); the figure is on the screen (`vga`). What must not stop is
stated as a liveness property instead.

### Fairness

- `Scheduler`: the boot code and the stretches with interrupts off are
  straight-line code (`WF`). The timer's request is held by the controller
  while interrupts are off, so a tick that can be taken again and again is
  taken (`SF_vars(Tick)`). Nothing is assumed of the threads.
- `Atapi`: the drive goes on, interrupts are delivered, the timer ticks
  (`WF`); the driver gets the processor again and again and executes then
  (`SF_vars(Driver)`), which is what `EveryThreadRuns` says of the scheduler.
- `Iso9660`: the kernel thread goes on (`WF_discVars(DiscNext)`): it gets turns
  (`EveryThreadRuns`) and its reads return (`ReadReturns`).
- `Boot`: the boot code goes on, an interrupt that stays possible is taken
  (`WF`); the disk's line is held by the controller through stretches with
  interrupts off and through lines above it (`SF_vars(Interrupt(14))`).
- `OldShell`: the program that polls goes on (`WF_vars(ProgramStep)`), since
  nothing else has the processor. Nothing is assumed of the keyboard.
- The other modules state safety only.

`ReadReturns` is claimed for `Undisturbed` machines, a drive that fails to read
included. With processes an interrupt may be lost in a process's memory; a drive
that stays busy after the last word misses the next command, since the loop at
line 278 waits for nothing; and one that rejects the command never answers the
packet. In each of these the kernel waits for ever, and TLC shows it when the
condition is widened to them.

## 4. Proofs

All theorems hold for every value of the constants that the named assumptions
allow; those about a module's states are about its `Spec` (`ContainersSpec`,
`bJSpec`, `DiscSpec`), without fairness. The type invariants are proved and not run: each is
a conjunct of the invariant that carries the other theorems of its module.

| module | theorem | says |
|---|---|---|
| `MemoryProofs` | `StoreIsSafe` | the abstract store keeps blocks apart, off the pages on offer, and below the end |
| | `TypeCorrect`, `EntriesInOrder`, `PagesHaveOneUse` | `TypeOK`, `Ordered`, `EveryPageOnce` |
| | `CallersAreBacked`, `NothingIsLeaked`, `HeldBlocksStay`, `BlocksCarvedInside` | `HeldIsBacked`, `UsedIsHeld`, `HeldStays`, `CarvedInside` |
| | `ListIsStore`, `ListIsSafe` | the refinement of `PageStore`, and with it the store's safety for the list |
| | `HeapIsTiled` | `BlocksOfTheHeap` |
| | `PushesAreKept`, `BlocksComeBack` | `PushedIsKept`, `BlocksAreStrings` |
| `SchedulerProofs` | `TypeCorrect`, `EntriesAreReady`, `RunnerResumes`, `TurnsAreTaken` | `TypeOK`, `EveryoneReady`, `RunnerIsCurrent`; the refinement of `RoundRobin` |
| `BootProofs` | `InterruptsKeepTable`, `KernelStaysInReach`, `ProgramsArePlaced` | `InterruptsFindTable`, `KernelInReach`, `ProgramsInPlace` (for programs below 512 KB) |
| `DesktopProofs` | `LogStaysInOrder`, `LetterIsShown` | `LogInOrder`, `LetterShown` |
| `WordsProofs` | `WordsAreList` | `ListSpec`: the linked words refine `PageList` |
| `WordsProofs` | `FirstShrinkKeepsUsed` | `ShrinkKeepsUsed`, for one call of `shrinkList` |
| `CdProofs` | `TypeCorrect`, `WaitsForItsAnswer`, `SectorsKeepTheirPlaces`, `FilesAreWhole`, `PacketsAreAskedFor` | `TypeOK`, `WaitIsAnswered`, `SectorsInPlace`, `FileDelivered`, `PacketWhenAsked` |
| | `DiscTypeCorrect`, `FirstMatchIsFound` | `DiscTypeOK`, `FileIsFirstMatch` |
| `OldShellProofs` | `KeysCountOnce` | `KeyActedOnOnce` |
| | `NotesAreRight` | `NotedCardsLieFaceUp`: how many are noted always, which ones unless the first of two was turned down |
| | `LineIsCommand` | `LineShowsCommand`: until an array is left, and but for the clock's columns |
| | `WinnerIsBetter` | `WinnerByHands`, for any deck, until the player asks for a seventh card |
| | `DealersCardsHavePlaces`, `AllShownHasText` | `DealersCardsFit`, `ShownHasText`, until then too, for decks in an order like the shipped one's (`DeckLasts`) |
| `VgaProofs` | `LinesAreTrue`, `CirclesAreRound`, `ModesAreSet` | `LineIsTrue`, `CircleIsRound`, `ModeIsSet` |

How they go.

- Page manager. `PageInv`: the entries are in order, they and `taken` cover the
  pages below `heapPos` exactly, every entry lies below `heapPos`. Lemmas say
  what inserting and splitting does to the pages a sequence of entries labels.
  `HeldInv` adds that used entries and held blocks correspond one to one; with
  it no step can move a block (`StaysStep`). `CarveInv` says that a page with
  blocks left to carve was taken for its kind alone. The refinement goes action
  by action: a split is `AllocateReused`, a fresh block `AllocateFresh`, pages
  taken for good are `Reserve`, `Free` is `Release`, and carving is a stutter.
- The list in memory. `WordsInv` says, while `shrinkList` has not been called,
  that there is a sequence of entries from `head` to the null pointer
  (`IsChain`), each of three words of its own in the pages taken for them, the
  next place free (`Room`), and that locations and sizes are in page order and
  name the blocks held (`ListIs`). The code's walk is a function of the number
  of steps; by induction on it the walk passes that sequence, whatever the
  length (`ChainIs`). Lemmas say what each group of stores makes of the
  sequence: a new entry behind the one it was split from, or in front of the
  first that lies later, or a free bit set or cleared. Then each operation is
  the step of `PageList` with the same name.
  The first `shrinkList` starts from such a list. By induction on the rounds of
  its walk the list in memory is always what is left of it: a round goes on to
  the next entry, or merges two free ones into one (`MergedKeeps`) and links the
  second out, or stores the second's address in the stack's page, in which no
  entry lies (`StackApart`, `OffStack`).
- Scheduler. `SwitchInv`: interrupts stay off until the kernel's frame is built
  (`BootInv`), the runner is `current`'s (`Runs`), the entries of those that
  wait are ready (`Waits`), and of a process being added what has been written
  is what it will need, interrupts being off (`Adds`).
- Boot. `BootInv`: interrupts are off from the last BIOS call until the kernel's
  table is loaded (`TableInv`); each stretch of the directory is complete once
  its step is done, and no page handed out later is one of its tables
  (`ReachInv`); a process's pages follow its directory and its tables stay as
  `scheduler_addProcess` filled them (`SpaceInv`). `ContentInv` adds what lies
  in the pages: of two sections at one address the later one's data. It needs
  `SmallPrograms`, that every section copied starts below two `CopySpan`s (512
  KB): behind that `pagecpy` takes other words of the record for tables, which
  may lead into pages of the program already copied. The repository's programs
  are all linked at 0x0 (`link.ld:5` of each).
- Log and desktop. `LogInv`: the rows above the one being moved already show
  the line they will show, the others still the one they did, and a character
  stands twice only in the row being copied and the one above it. `LetterInv`
  follows one pixel of the letter through the steps of the desktop.
- CD drive. `ReadInv` ties the drive's state to the driver's place
  (`Handshake`): between `prepare_for_irq14` and the drive's answer no
  interrupt is pending and the flag is clear. `PacketsAreAskedFor` adds `Asks`,
  for drives that neither reject commands nor stay busy.
- Finding a file. Detection is right for the places it has passed (`Detected`);
  unless a read failed each buffer came through the one before (`Chained`); the
  root is the last initialised CD-ROM's (`LatestRoot`); no entry passed fits
  (`Passed`). `MatchIsStartsWith` says of `strcmp_with_size` that it tests for
  a beginning, for all names without a NUL in the one asked for.
- First kernel. `KeyInv`: a key acted on is in the slot only while it is about
  to be cleared, or after the cards' comparison, whose key the next look
  ignores. `CardInv` says what lies face up and is noted with none, one and two
  cards turned, as `turned` has them, and in order unless `outOfTurn`. `LineInv`
  adds to `LineShowsCommand` the types and that the cursor's row and the screen's
  first are rows of `CommandLine`; it uses `KeyInv`.
- Blackjack. `HandInv`: while nobody is bust the two scores are those of the
  hands and at most 21. A new deal needs that no two cards make more than 21.
  What the dealer draws depends on the deck's order, and for some orders the
  program reads behind the deck. `DeckLasts` is a test of the order alone, and
  TLC finds that the shipped deck passes it: wherever a deal and the
  player's cards can leave the dealer, he stops after four cards at the most,
  and four are left behind them. `DeckInv` says that before he stands his hand
  is always such a draw (`Drawing`), so that the test covers all orders of
  games up to the player's seventh card, with which the model ends. `ShownInv`
  adds the scores: one that is drawn to is below 16.
- Lines. `LineInv`: the error is `p = Deviation + 2 * Short - Long`, where
  `Deviation` is the true line's distance across the last pixel, and `p` stays
  between `2 * Short - 2 * Long` and `2 * Short`. So each pixel is next to the
  true line, and after `Long` steps the last one is the other end point.
- Circles. `RingInv`: the error is `2 * Distance + 4 * x - 2 * y + 3`, where
  `Distance` is `x * x + y * y - r * r`, and `Distance` stays between `-r` and
  `r` while the octant lasts (`x <= y`). So each pixel is less than one from the
  circle; `CircleInv` adds that rows and columns from the middle to `x` and from
  `y` outwards have their pixels, and these meet at the diagonal.
- Modes. `ModeInv`: MISC is written first and never again. Each other register
  has one place in `write_regs`, and holds the mode's value as soon as that
  place is behind, since no later access writes it: the lock is off before the
  CRT registers, and the attribute port takes numbers and values in turn from
  the status port's read on.
- Heap. `HeapOf`: the headers tile the heap, and the used ones and the blocks
  lent correspond one to one. A pass of `cleanMemoryList` keeps this: after each
  node what it has built tiles the heap up to there and has the same used
  headers (`DoneTo`, `JoinKeeps`).
- Vectors. `VectorInv` is `PushedIsKept` and `BlocksAreStrings` with the types.
  A new block is no other string's, since there are more numbers to choose from
  than strings (`NewBlockIsNew`).

The prover cannot instantiate the library's induction theorems, whose parameter
is an operator. Where a proof needs induction (`Cleaned`, `Score`) it is over a
set: `NatsAreIn` says that a set that has 0, and with each number the next,
has all of them, which follows from `<` being well-founded.

Only model-checked:

- liveness (`EveryThreadRuns`, `InterruptsComeBack`, `ReadReturns`,
  `FileReturned`, `DiskIsAnswered`, `LetterLeavesSlot`): liveness under
  fairness, and `ENABLED`, are out of this prover's reach;
- `ShrinkKeepsUsed` for later calls of `shrinkList`. The theorem assumes
  `MaxShrinks <= 1`, as the run does. After a first call `popNodeLoc` returns
  addresses in the stack's page, entries are written there, the next push
  overwrites them, and `ListIs` is no longer an invariant. On the run's instance
  TLC finds the property to hold with `MaxShrinks = 2` as well (201 846 states).

## 5. Where the code differs from what it says

One difference is a run (`keyboard_vector`). The others met while modelling are
in the models, and the properties are stated so that they hold with them:

- `scheduler.cpp:108`: "Load ds and segement registers"; only DS and SS are
  loaded.
- `mmu.cpp:129`: `shrinkList` is to combine nearby nodes; line 138 does not
  look whether their pages are neighbours.
- `mmu.cpp:118`: `popNodeLoc` returns the address of the stack's slot.
- `atapi_driver.cpp:224`: "DRQ or ERROR set", but the test is the body of the
  loop above it, whose condition excludes ERROR; line 116 does not look at a
  sector's result.
- `vector.h:73`: growing drops the value pushed and copies the wrong way.
- `alloc.cpp:22`: `Alloc::init` passes pages where `k_malloc_large` takes bytes.
- `vbe.cpp:90`: ES is not set before the BIOS writes the mode's description.
- `paging.cpp`: page tables are not cleared; line 57 divides by 0x40000.
- `Old Code/coltynGame.c`: after the player's bust the dealer goes on drawing,
  on a score of 0.
- `Old Code/coltynGame.c:186`: the player may ask for a seventh card, bust or
  not; it is written behind `bJPcards[6]`. If nothing else came of it, a dealer
  whose deal began at place 11 would, after 37 hits have brought the count round
  to 1, draw behind his own six places too.
- `Old Code/coltynGame.c:36` says to enter `run coltyn`; the names are
  `blackjack` and `tictac`, and the first starts the memory cards.
- `Old Code/coltyn2Game.c:136`: of two cards face up the note of the second is
  cleared whichever is turned down, so that `c` compares the wrong ones.
- `Old Code/renderer.c:149`: backspace goes below the start of the line, and in
  `command` below its first place; line 163 does not look at the end of either.
- `Old Code/renderer.c:66`: the clock is written over the line when Tab has
  brought its row to the top of the screen.
- `syscall.cpp:46`: a process's row and column are not compared with the screen's.
- `desktop.cpp:59`: nobody marks a place as used, so that `Error_Bad` cannot be
  reached and each new window of the kernel replaces the first;
  `graphics/windowManager.cpp:22` says "Max 64 windows" and nobody counts them.
- `interrupts.cpp`: line 3 of the first controller has the system call's vector.

## 6. Not modelled, and the plan

The page manager is modelled as one thread's: only the kernel's thread calls it,
since no system call allocates and `scheduler_addProcess` keeps interrupts off.

Left out for good: vendored code (`external/upng`), the printing functions,
pixels' bytes, the table limits of the paging records (32), sizes that wrap
around 2^32 in the heap, superseded C files, the test programs, and of the first
kernel `vga_Complex.c` (tables of fonts and registers), planar drawing in mode
1, the palette and the glyphs. `PROJECT.json` says for each part why.

Next, in this order:

1. `DriveDetect`: identify without waiting for DRQ, drives still busy when their
   status is read, what this leaves for the first sector read; a root directory
   of more than one sector; a file looked up on one drive and read from another.
2. VGA mode 1 with its planes (`Old Code/vga.c:300-416`).
