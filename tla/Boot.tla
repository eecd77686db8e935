-------------------------------- MODULE Boot --------------------------------
(***************************************************************************)
(* From the boot loader to the first thread and its processes: start       *)
(* (Code/kernel.asm), the BIOS calls of vbe_init through int32 (asm/       *)
(* int32.asm), kmain's page tables, the jump to the high half, the         *)
(* interrupt table and the two interrupt controllers.  An interrupt may    *)
(* come wherever the flag is set; what it then does depends on the table   *)
(* and the vectors of that moment.                                         *)
(***************************************************************************)
EXTENDS Paging

CONSTANTS
    KernelTables,   \* the tables of the kernel's 64 MB (16)
    FrameSlot,      \* the slot of the frame buffer
    BufferPages,    \* the pages of the double buffer
    Image,          \* the pages of the kernel's image, its descriptor tables included
    Lines,          \* the interrupt lines that are in use
    Programs,       \* the programs that may be loaded
    MaxProcesses, MaxPending    \* bounds: processes, lines that ask at the same time

ASSUME BootAssumption ==
    /\ KernelTables \in 1..(Slots - HighSlot) /\ KernelTables <= HighSlot
    /\ FrameSlot \in Slot \ (0..(KernelTables - 1) \cup HighSlot..(HighSlot + KernelTables - 1))
    /\ BufferPages \in Nat \ {0}
    /\ Image \subseteq 1..(HeapStart - 1)
    /\ Lines \subseteq 0..15

\* The kernel lies below 16 MB, which is less than the 16 tables of its directory and
\* the 5 of a process's show
ASSUME ReachAssumption ==
    HeapStart <= KernelTables * PerTable /\ HeapStart <= SharedTables * PerTable

ASSUME ProgramAssumption ==
    \A program \in Programs :
        /\ IsFiniteSet(DOMAIN program.sections) /\ DOMAIN program.sections \subseteq Nat
        /\ \A k \in DOMAIN program.sections : program.sections[k].addr \in Nat

VARIABLES
    at,             \* what comes next
    call,           \* which of vbe_init's three BIOS calls
    cpu,            \* the processor's state, and the vectors the controllers use
    saved,          \* int32's copies of the table registers
    modeInfo,       \* what vbeModeInfo holds
    pending, inService, \* the controllers: lines that ask, lines not acknowledged
    processes       \* the scheduler's entries: address space and program

bootVars == <<at, call, cpu, saved, modeInfo, processes>>
vars == <<pagingVars, bootVars, pending, inService>>

Slave == 8..15

Init ==
    /\ PagingInit
    /\ at = "start" /\ call = 1
    /\ cpu = [interrupts |-> FALSE, protected |-> TRUE, cr3 |-> junk,
              cs |-> "loader", ds |-> "loader", gdt |-> "loader", idt |-> "loader",
              vectors |-> "BIOS"]
    /\ saved = [gdt |-> "none", idt |-> "none"]
    /\ modeInfo = "unread"
    /\ pending = {} /\ inService = {}
    /\ processes = <<>>

Goes(from, to) == at = from /\ at' = to

-----------------------------------------------------------------------------
(* kernel.asm and the BIOS calls.                                          *)

Start ==
    /\ Goes("start", "call")
    /\ cpu' = [cpu EXCEPT !.protected = TRUE, !.cs = "flat", !.ds = "flat", !.gdt = "low"]
    /\ UNCHANGED <<pagingVars, call, saved, modeInfo, pending, inService, processes>>

\* The magic number is not the boot loader's: Halt, with interrupts off
HandleNoMultiboot ==
    /\ Goes("start", "halt")
    /\ UNCHANGED <<pagingVars, call, cpu, saved, modeInfo, pending, inService, processes>>

\* resetpic, and the same writes of idt_init: what was asked and served is forgotten
ResetPic == pending' = {} /\ inService' = {}

\* int32 from its cli to the INT instruction behind the sti
Int32Enter ==
    /\ Goes("call", "BIOS")
    /\ saved' = [gdt |-> cpu.gdt, idt |-> cpu.idt]
    /\ cpu' = [cpu EXCEPT !.interrupts = TRUE, !.protected = FALSE, !.cs = "real",
                          !.ds = "real", !.gdt = "16 bit", !.idt = "BIOS", !.vectors = "BIOS"]
    /\ ResetPic
    /\ UNCHANGED <<pagingVars, call, modeInfo, processes>>

\* ... and from the cli behind INT to the sti before ret.  The second call's answer
\* goes to es:di, and nobody has set es
Int32Leave ==
    /\ at = "BIOS"
    /\ cpu' = [cpu EXCEPT !.interrupts = TRUE, !.protected = TRUE, !.cs = "flat",
                          !.ds = "flat", !.gdt = saved.gdt, !.idt = saved.idt,
                          !.vectors = "kernel"]
    /\ modeInfo' \in IF call = 2 THEN {"mode", "astray"} ELSE {modeInfo}
    /\ call' = call + 1
    /\ at' = IF call = 3 THEN "cli" ELSE "call"
    /\ ResetPic
    /\ UNCHANGED <<pagingVars, saved, processes>>

\* Mutant of VbeCli: it is not there
VbeCliMissing ==
    /\ Goes("cli", "directory")
    /\ UNCHANGED <<pagingVars, call, cpu, saved, modeInfo, pending, inService, processes>>

\* vbe_init's cli, behind the three calls
VbeCli ==
    /\ Goes("cli", "directory")
    /\ cpu' = [cpu EXCEPT !.interrupts = FALSE]
    /\ UNCHANGED <<pagingVars, call, saved, modeInfo, pending, inService, processes>>

-----------------------------------------------------------------------------
(* kmain's page tables.                                                    *)

KernelPage == [k \in 0..(KernelTables - 1) |-> [i \in Index |-> k * PerTable + i]]
RestUnchanged == UNCHANGED <<call, cpu, saved, modeInfo, pending, inService, processes>>

\* Mutant of MakeDirectory: a page is taken before it
MakeDirectoryLater ==
    /\ Goes("directory", "high half")
    /\ record' = [record EXCEPT ![0] = heapPos + 1]
    /\ entries' = Over(At(heapPos + 1, [s \in {} |-> junk]), entries)
    /\ heapPos' = heapPos + 2
    /\ UNCHANGED content /\ RestUnchanged

MakeDirectory == Goes("directory", "high half") /\ CreateDirectory /\ RestUnchanged

MapHighHalf ==
    /\ Goes("high half", "identity")
    /\ CreateTables(HighSlot, KernelTables, KernelPage)
    /\ RestUnchanged

MapIdentity ==
    /\ Goes("identity", "frame")
    /\ CreateTables(0, KernelTables, KernelPage)
    /\ RestUnchanged

\* The frame buffer's table, or the one of whatever number was taken for its address
MapFrame ==
    /\ Goes("frame", "enable")
    /\ \E slot \in IF modeInfo = "mode" THEN {FrameSlot} ELSE Slot :
          CreateTables(slot, 1, [k \in {0} |-> [i \in Index |-> slot * PerTable + i]])
    /\ RestUnchanged

EnablePaging ==
    /\ Goes("enable", "buffer")
    /\ cpu' = [cpu EXCEPT !.cr3 = record[0]]
    /\ UNCHANGED <<pagingVars, call, saved, modeInfo, pending, inService, processes>>

\* set_up_framebuffer
SetUpFramebuffer ==
    /\ Goes("buffer", "jump")
    /\ heapPos' = heapPos + BufferPages
    /\ UNCHANGED <<record, entries, content>> /\ RestUnchanged

-----------------------------------------------------------------------------
(* The high half.                                                          *)

\* _longJump up to lgdt: the data segments first, and through them the new address of
\* the descriptor table
LongJumpData ==
    /\ Goes("jump", "far jump")
    /\ cpu' = [cpu EXCEPT !.ds = "high", !.gdt = "high"]
    /\ UNCHANGED <<pagingVars, call, saved, modeInfo, pending, inService, processes>>

\* The far jump, and high_half_kmain's cli
LongJumpCode ==
    /\ Goes("far jump", "memory")
    /\ cpu' = [cpu EXCEPT !.cs = "high", !.interrupts = FALSE]
    /\ UNCHANGED <<pagingVars, call, saved, modeInfo, pending, inService, processes>>

\* memory_init: a page for the list, and head's location and next are NULL
MemoryInit ==
    /\ Goes("memory", "idt")
    /\ heapPos' = heapPos + 1
    /\ record' = [record EXCEPT ![0] = 0, ![2] = 0]
    /\ UNCHANGED <<entries, content>> /\ RestUnchanged

IdtInit ==
    /\ Goes("idt", "sti")
    /\ cpu' = [cpu EXCEPT !.idt = "kernel", !.vectors = "kernel"]
    /\ ResetPic
    /\ UNCHANGED <<pagingVars, call, saved, modeInfo, processes>>

\* scheduler_addKernel and scheduler_setup lie before the sti
HighSti ==
    /\ Goes("sti", "loop")
    /\ cpu' = [cpu EXCEPT !.interrupts = TRUE]
    /\ UNCHANGED <<pagingVars, call, saved, modeInfo, pending, inService, processes>>

\* scheduler_addProcess, from its cli to its sti, by the kernel's thread
AddProcess(program) ==
    /\ at = "threads" /\ cpu.cs = "high" /\ Len(processes) < MaxProcesses
    /\ AddSpace(program)
    /\ processes' = Append(processes, [space |-> Layout, program |-> program])
    /\ UNCHANGED <<at, call, cpu, saved, modeInfo, pending, inService>>

-----------------------------------------------------------------------------
(* Interrupts.                                                             *)

InterruptRaised(n) ==
    /\ Cardinality(pending) < MaxPending
    /\ n \notin pending /\ pending' = pending \cup {n}
    /\ UNCHANGED <<pagingVars, bootVars, inService>>

\* The second controller is line 2 of the first
AsUrgent(n) == IF n \in Slave THEN {0, 1} \cup 8..n
               ELSE IF n < 2 THEN 0..n ELSE {0, 1} \cup Slave \cup 3..n

\* A line that is not acknowledged blocks itself and those below it.  One of the second
\* controller that only the first has been told of blocks the second's
Blocked(n) == \E m \in inService \cap AsUrgent(n) : m \in Slave => n \in Slave

Taken(n) ==
    /\ cpu.interrupts /\ at \notin {"halt", "lost"}
    /\ n \in pending /\ ~Blocked(n)
    /\ \A m \in pending \cap AsUrgent(n) : m = n \/ Blocked(m)
    /\ pending' = pending \ {n}

\* The segments' base, in pages, and whether page p of the kernel is where a segment
\* shows it
Base(segment) == IF segment = "high" THEN HighSlot * PerTable ELSE 0
Shows(segment, p) == cpu.cr3 = junk \/ Translate(cpu.cr3, Base(segment) + p) = p

\* The code segment of the gates: 0x08 for the keyboard, 0x28 for the others
GateSegment(n) == IF n = 1 THEN "flat" ELSE "high"

\* The descriptors and the handler are found: the controllers' vectors are those of the
\* table, and the tables and the handler's code are mapped where their addresses say
Handled(n) ==
    /\ cpu.idt = cpu.vectors
    /\ cpu.idt = "kernel" =>
          \A p \in Image : Shows("high", p) /\ Shows(GateSegment(n), p)

\* Nobody can say what runs
Lost(n) ==
    /\ Taken(n) /\ ~Handled(n)
    /\ at' = "lost"
    /\ UNCHANGED <<pagingVars, call, cpu, saved, modeInfo, processes, inService>>

\* The BIOS acknowledges what it serves
BIOSInterrupt(n) ==
    /\ Taken(n) /\ Handled(n) /\ cpu.idt = "BIOS"
    /\ UNCHANGED <<pagingVars, bootVars, inService>>

KernelInterrupt(n) == Taken(n) /\ Handled(n) /\ cpu.idt = "kernel"

\* asm_scheduler, for the timer and for the keyboard: one of the threads goes on, the
\* kernel's with the directory the first switch has a number for, 0x1000000
SchedulerInterrupt(n) ==
    /\ n \in {0, 1} /\ KernelInterrupt(n)
    /\ at' = "threads"
    /\ \/ cpu' = [cpu EXCEPT !.cs = "high", !.ds = "high", !.cr3 = HeapStart]
       \/ \E p \in DOMAIN processes :
             cpu' = [cpu EXCEPT !.cs = "flat", !.ds = "flat",
                                !.cr3 = processes[p].space.directory]
    /\ UNCHANGED <<pagingVars, call, saved, modeInfo, processes, inService>>

\* Line 3 has the system call's vector: no controller is told, and the segment
\* registers of whoever was interrupted are a process's
SyscallInterrupt ==
    /\ KernelInterrupt(3)
    /\ cpu' = [cpu EXCEPT !.ds = "flat"]
    /\ inService' = inService \cup {3}
    /\ UNCHANGED <<pagingVars, at, call, saved, modeInfo, processes>>

\* Mutant of DiskInterrupt: only the first controller is told
DiskInterruptFirst ==
    /\ KernelInterrupt(14)
    /\ inService' = inService \cup {14}
    /\ UNCHANGED <<pagingVars, bootVars>>

\* irq14 acknowledges both controllers
DiskInterrupt ==
    /\ KernelInterrupt(14)
    /\ UNCHANGED <<pagingVars, bootVars, inService>>

\* defualt_ISR acknowledges the first
DefaultInterrupt(n) ==
    /\ n \notin {0, 1, 3, 14} /\ KernelInterrupt(n)
    /\ inService' = inService \cup ({n} \cap Slave)
    /\ UNCHANGED <<pagingVars, bootVars>>

-----------------------------------------------------------------------------

Booting ==
    \/ Start \/ HandleNoMultiboot \/ Int32Enter \/ Int32Leave \/ VbeCli
    \/ MakeDirectory \/ MapHighHalf \/ MapIdentity \/ MapFrame \/ EnablePaging
    \/ SetUpFramebuffer \/ LongJumpData \/ LongJumpCode \/ MemoryInit \/ IdtInit \/ HighSti

Interrupt(n) ==
    \/ Lost(n) \/ BIOSInterrupt(n) \/ SchedulerInterrupt(n) \/ DefaultInterrupt(n)
    \/ n = 3 /\ SyscallInterrupt
    \/ n = 14 /\ DiskInterrupt

Next ==
    \/ Booting
    \/ \E program \in Programs : AddProcess(program)
    \/ \E n \in Lines : InterruptRaised(n) \/ Interrupt(n)

\* The processor goes on and takes the interrupts it may take, and the lines above the
\* disk's leave it time enough
Spec == /\ Init /\ [][Next]_vars
        /\ WF_vars(Booting) /\ WF_vars(\E n \in Lines : Interrupt(n))
        /\ SF_vars(Interrupt(14))

-----------------------------------------------------------------------------

\* The table of interrupts and the controllers' vectors change in different places:
\* interrupts are on only while the two belong together, but for the time between each
\* BIOS call's sti and the next cli
InterruptsFindTable ==
    cpu.interrupts /\ cpu.idt # cpu.vectors => at \in {"call", "cli", "lost"}

\* Through each change of segments, descriptor table and directory the kernel's code,
\* its data and the table itself stay where they are looked for, and so do a process's
\* interrupts find them, unless the frame buffer's table went astray.  The directory
\* the scheduler switches to by number must be the one kmain made
KernelInReach ==
    (cpu.cr3 # junk /\ modeInfo = "mode") =>
        \A p \in Image :
            /\ Shows("high", p)
            /\ cpu.gdt = "low" => Shows("flat", p)
            /\ \A s \in {cpu.cs, cpu.ds} : cpu.cr3 = HeapStart => Shows(s, p)

\* What pagecpy reaches of a program is at its address in the process's address space,
\* for every process and whatever processes are added after it, although they all have
\* one paging record; where sections share a page the last one is there
ProgramsInPlace ==
    modeInfo = "mode" =>
    \A p \in DOMAIN processes :
        LET program == processes[p].program.sections
            mine == Copied(processes[p].program)
        IN  \A k \in mine :
                (program[k].addr < CopySpan /\ \A l \in mine : program[l].addr = program[k].addr => l <= k)
                => LET page == Translate(processes[p].space.directory, program[k].addr)
                   IN  page \in DOMAIN content /\ content[page] = program[k].data

\* The disk's interrupt is answered, unless one of the second controller that only the
\* default handler knows came before it, or the machine is lost
DiskIsAnswered ==
    (at = "threads" /\ 14 \in pending) ~> (14 \notin pending \/ inService \cap (8..13) # {} \/ at = "lost")
=============================================================================
