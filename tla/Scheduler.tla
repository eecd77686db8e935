----------------------------- MODULE Scheduler -----------------------------
(***************************************************************************)
(* The preemptive scheduler: Code/scheduler.cpp and scheduler.asm, with    *)
(* the boot code of kernel.cpp that starts it and the interrupt flag that  *)
(* protects it.  One processor, one stack per thread.  The timer interrupt *)
(* saves the registers on the stack of the thread it interrupts, notes the *)
(* stack pointer in the entry `current' of the table, moves on to the next *)
(* entry and loads what that entry points at.                              *)
(*                                                                         *)
(* Thread 0 is kernel_ultimate, threads 1, 2, ... are processes, each with *)
(* the table entry of its number; `boot' is high_half_kmain, which waits   *)
(* to be preempted for good.  A page directory has the number of the       *)
(* thread it was built for.  What a thread computes is how far it has got. *)
(***************************************************************************)
EXTENDS Integers

CONSTANTS
    MaxProcs,     \* bound: processes that are ever added
    Steps,        \* bound: progress is counted modulo Steps
    MaxKeys,      \* bound: keyboard interrupts (nobody reads the scan code,
                  \*   so the controller raises one and waits)
    boot,         \* the thread of high_half_kmain
    nowhere       \* what no thread, frame, directory or segment is

ASSUME SchedulerAssumption ==
    /\ MaxProcs \in Nat \ {0}
    /\ Steps \in Nat \ {0}
    /\ MaxKeys \in Nat
    /\ boot \notin Nat
    /\ nowhere \notin Nat \cup {boot, "kernel", "process"}

Kernel == 0
Procs == 1..MaxProcs
Slots == 0..MaxProcs
Threads == Slots \cup {boot}

VARIABLES
    current,      \* scheduler_memory[0], the entry whose thread runs
    count,        \* scheduler_memory[1], the last entry in use
    table,        \* scheduler_processes: [esp, cr3, ds] per entry
    hold,         \* s_hold, the first switch is still to come
    frame,        \* per thread: the register frame on its stack
    thread, pc,   \* the loaded registers: whose stack ESP is on, how far,
    cr3, ds,      \*   the page directory and the data segment
    es,           \* ES, FS and GS, which belong to no entry of the table
    interrupts,   \* the processor's interrupt flag
    at,           \* how far high_half_kmain, then kernel_ultimate has got
    record,       \* derp_pagging's `dir' (the 32 records share one address)
    progress,     \* per thread: the steps it has executed
    keys          \* keyboard interrupts so far

cpu == <<thread, pc, cr3, ds>>
vars == <<current, count, table, hold, frame, thread, pc, cr3, ds, es,
          interrupts, at, record, progress, keys>>

\* ES .. GS and DS: 0x30 in the kernel, 0x10 in a process.
Segment(t) == IF t \in Procs THEN "process" ELSE "kernel"

\* A stack holds one frame: the one it was built with or the one the last
\* interrupt pushed.  A pointer names the stack and the kind of frame.
Pointer(t, kind) == [stack |-> t, kind |-> kind]
Frame(kind, step) == [kind |-> kind, pc |-> step]
NoFrame == Frame("none", nowhere)

\* KernelEntry: the values the first switch writes into entry 0.
EntryOf(esp, directory, segment) ==
    [esp |-> esp, cr3 |-> directory, ds |-> segment]

KernelEntry == EntryOf(Pointer(Kernel, "built"), Kernel, "kernel")
Junk == EntryOf(Pointer(nowhere, "none"), nowhere, nowhere)

----------------------------------------------------------------------------

(* high_half_kmain, reached from kmain with interrupts off and the image's *)
(* zeroes in the scheduler's memory.                                       *)
Init ==
    /\ current = 0 /\ count = 0
    /\ table = [s \in Slots |-> Junk]
    /\ hold = TRUE
    /\ frame = [t \in Threads |-> NoFrame]
    /\ thread = boot /\ pc = 0 /\ cr3 = Kernel /\ ds = "kernel"
    /\ es = "kernel"
    /\ interrupts = FALSE
    /\ at = "memory_init"
    /\ record = Kernel
    /\ progress = [t \in Threads |-> 0]
    /\ keys = 0

\* memory_init sets head->location, the word `dir' lives in as well.
BootMemoryInit ==
    /\ at = "memory_init"
    /\ record' = nowhere
    /\ at' = "addKernel"
    /\ UNCHANGED <<current, count, table, hold, frame, cpu, es, interrupts,
                   progress, keys>>

(* scheduler_addKernel(kernel_ultimate, *paging_GetDirectory(0)): the      *)
(* argument is what stands at the directory's address, not the directory.  *)
BootAddKernel ==
    /\ at = "addKernel"
    /\ table' = [table EXCEPT ![Kernel] =
                   EntryOf(Pointer(Kernel, "built"), nowhere, "kernel")]
    /\ frame' = [frame EXCEPT ![Kernel] = Frame("built", 0)]
    /\ at' = "setup"
    /\ UNCHANGED <<current, count, hold, cpu, es, interrupts, record,
                   progress, keys>>

\* scheduler_setup
BootSetup ==
    /\ at = "setup"
    /\ current' = 0
    /\ table' = [table EXCEPT ![1] = Junk]
    /\ at' = "sti"
    /\ UNCHANGED <<count, hold, frame, cpu, es, interrupts, record, progress,
                   keys>>

BootSti ==
    /\ at = "sti"
    /\ interrupts' = TRUE
    /\ at' = "run"
    /\ UNCHANGED <<current, count, table, hold, frame, cpu, es, record,
                   progress, keys>>

Boot == BootMemoryInit \/ BootAddKernel \/ BootSetup \/ BootSti

----------------------------------------------------------------------------

\* Mutants of NextSlot: the last entry is never chosen; the newest always is.
NextSlotEarly == IF current + 1 >= count THEN 0 ELSE current + 1
NextSlotNewest == IF current >= count THEN 0 ELSE count

(* scheduler(): the interrupt pushes the frame, the entry of the running   *)
(* thread gets the stack pointer, the next entry is loaded.  On the first  *)
(* run entry 0 is written anew before that.                                *)
NextSlot == IF current >= count THEN 0 ELSE current + 1

\* Mutant of Saved: entry 0 keeps what scheduler_addKernel wrote.
SavedAsAdded ==
    [s \in Slots |->
        IF ~hold /\ s = current
        THEN EntryOf(Pointer(thread, "pushed"), table[s].cr3, table[s].ds)
        ELSE table[s]]

Saved ==
    LET noted == EntryOf(Pointer(thread, "pushed"),
                         table[current].cr3, table[current].ds)
    IN  [s \in Slots |-> IF hold /\ s = Kernel THEN KernelEntry
                         ELSE IF s = current THEN noted ELSE table[s]]

Pushed == [frame EXCEPT ![thread] = Frame("pushed", pc)]

\* What entry e leads to: garbage unless its pointer is the place of a frame.
Progress(e) ==
    IF /\ e.esp.stack \in Threads
       /\ Pushed[e.esp.stack].kind = e.esp.kind
       /\ e.esp.kind # "none"
    THEN Pushed[e.esp.stack].pc ELSE nowhere

Load(e) ==
    /\ thread' = e.esp.stack
    /\ pc' = Progress(e)
    /\ cr3' = e.cr3
    /\ ds' = e.ds
    /\ frame' = [t \in Threads |-> IF t = e.esp.stack THEN NoFrame ELSE Pushed[t]]

SwitchThread ==
    /\ table' = Saved
    /\ current' = NextSlot
    /\ hold' = FALSE
    /\ Load(Saved[NextSlot])
    /\ UNCHANGED <<count, es, interrupts, at, record, progress>>

\* The timer interrupt, vector 0x20.  It is taken in a thread that executes.
Sane == thread \in Threads /\ pc # nowhere

Tick ==
    /\ interrupts /\ Sane
    /\ SwitchThread
    /\ UNCHANGED keys

(* The keyboard interrupt, vector 0x21: its gate leads to the scheduler    *)
(* too, but through the flat code segment.  The kernel's directory maps    *)
(* that address to the same code; a process's own memory is there, and     *)
(* what the process then executes is nobody's code, interrupts off.        *)
KeyPress ==
    /\ interrupts /\ Sane
    /\ keys < MaxKeys
    /\ keys' = keys + 1
    /\ \/ /\ cr3 = Kernel
          /\ SwitchThread
       \/ /\ cr3 # Kernel
          /\ pc' = nowhere
          /\ interrupts' = FALSE
          /\ UNCHANGED <<current, count, table, hold, frame, thread, cr3, ds,
                         es, at, record, progress>>

----------------------------------------------------------------------------

(* The threads.  Each executes its own code where nothing below happens.   *)
Work ==
    /\ Sane
    /\ thread = Kernel => at = "run"
    /\ at \in {"memory_init", "addKernel", "setup", "sti"} => thread # boot
    /\ progress' = [progress EXCEPT ![thread] = (@ + 1) % Steps]
    /\ pc' = (pc + 1) % Steps
    /\ UNCHANGED <<current, count, table, hold, frame, thread, cr3, ds, es,
                   interrupts, at, record, keys>>

(* _syscall_int, from a process: the call runs to its end with interrupts  *)
(* off and leaves all data segments at 0x10.                               *)
Syscall ==
    /\ Sane /\ thread \in Procs
    /\ ds' = "process"
    /\ es' = "process"
    /\ UNCHANGED <<current, count, table, hold, frame, thread, pc, cr3,
                   interrupts, at, record, progress, keys>>

\* prepare_for_irq14 and wait_for_irq14 switch interrupts off for a moment.
MaskIrq ==
    /\ Sane /\ thread = Kernel /\ at = "run"
    /\ interrupts' = FALSE
    /\ at' = "irq"
    /\ UNCHANGED <<current, count, table, hold, frame, cpu, es, record,
                   progress, keys>>

UnmaskIrq ==
    /\ Sane /\ thread = Kernel /\ at = "irq"
    /\ interrupts' = TRUE
    /\ at' = "run"
    /\ UNCHANGED <<current, count, table, hold, frame, cpu, es, record,
                   progress, keys>>

\* Mutant of AddCli: no cli.
AddWithoutCli ==
    /\ Sane /\ thread = Kernel /\ at = "run"
    /\ count < MaxProcs
    /\ at' = "cli"
    /\ UNCHANGED <<current, count, table, hold, frame, cpu, es, interrupts,
                   record, progress, keys>>

(* scheduler_addProcess, called by the kernel: cli; count the process and  *)
(* build its directory; build its stack and leave DS at 0x10; write the    *)
(* entry; sti.                                                             *)
AddCli ==
    /\ Sane /\ thread = Kernel /\ at = "run"
    /\ count < MaxProcs
    /\ interrupts' = FALSE
    /\ at' = "cli"
    /\ UNCHANGED <<current, count, table, hold, frame, cpu, es, record,
                   progress, keys>>

AddDirectory ==
    /\ Sane /\ thread = Kernel /\ at = "cli"
    /\ count' = count + 1
    /\ record' = count + 1
    /\ at' = "directory"
    /\ UNCHANGED <<current, table, hold, frame, cpu, es, interrupts, progress,
                   keys>>

AddStack ==
    /\ Sane /\ thread = Kernel /\ at = "directory"
    /\ frame' = [frame EXCEPT ![count] = Frame("built", 0)]
    /\ ds' = "process"
    /\ at' = "stack"
    /\ UNCHANGED <<current, count, table, hold, thread, pc, cr3, es, interrupts,
                   record, progress, keys>>

AddEntry ==
    /\ Sane /\ thread = Kernel /\ at = "stack"
    /\ table' = [table EXCEPT ![count] =
                   EntryOf(Pointer(count, "built"), record, "process")]
    /\ at' = "entry"
    /\ UNCHANGED <<current, count, hold, frame, cpu, es, interrupts, record,
                   progress, keys>>

\* Mutant of AddSti: no sti.
AddWithoutSti ==
    /\ Sane /\ thread = Kernel /\ at = "entry"
    /\ at' = "run"
    /\ UNCHANGED <<current, count, table, hold, frame, cpu, es, interrupts,
                   record, progress, keys>>

AddSti ==
    /\ Sane /\ thread = Kernel /\ at = "entry"
    /\ interrupts' = TRUE
    /\ at' = "run"
    /\ UNCHANGED <<current, count, table, hold, frame, cpu, es, record,
                   progress, keys>>

AddProcess == AddCli \/ AddDirectory \/ AddStack \/ AddEntry \/ AddSti

----------------------------------------------------------------------------

Next == Boot \/ Tick \/ KeyPress \/ Work \/ Syscall \/ MaskIrq \/ UnmaskIrq
        \/ AddProcess

(* The boot code and the kernel finish what they do with interrupts off.   *)
(* The interrupt controller holds the timer's request while interrupts are *)
(* off, so a tick that can be taken again and again is taken.              *)
Fairness ==
    /\ WF_vars(Boot)
    /\ WF_vars(UnmaskIrq \/ AddDirectory \/ AddStack \/ AddEntry \/ AddSti)
    /\ SF_vars(Tick)

Spec == Init /\ [][Next]_vars
FairSpec == Spec /\ Fairness

----------------------------------------------------------------------------

Places == {"memory_init", "addKernel", "setup", "sti", "run", "irq", "cli",
           "directory", "stack", "entry"}
Kinds == {"none", "built", "pushed"}
Segments == {"kernel", "process", nowhere}
PC == (0 .. Steps - 1) \cup {nowhere}
Entry == [esp : [stack : Threads \cup {nowhere}, kind : Kinds],
          cr3 : Slots \cup {nowhere}, ds : Segments]

TypeOK ==
    /\ current \in Slots
    /\ count \in Slots
    /\ table \in [Slots -> Entry]
    /\ hold \in BOOLEAN
    /\ frame \in [Threads -> [kind : Kinds, pc : PC]]
    /\ thread \in Threads \cup {nowhere}
    /\ pc \in PC
    /\ cr3 \in Slots \cup {nowhere}
    /\ ds \in Segments
    /\ es \in {"kernel", "process"}
    /\ interrupts \in BOOLEAN
    /\ at \in Places
    /\ record \in Slots \cup {nowhere}
    /\ progress \in [Threads -> 0 .. Steps - 1]
    /\ keys \in 0..MaxKeys

\* A key press has led the processor into nobody's code.
Astray == keys > 0 /\ pc = nowhere /\ ~interrupts

(* Whoever runs is the thread the scheduler counts as current, in its own  *)
(* address space and, unless a key press led it astray, exactly where it   *)
(* was interrupted.  The data segment is its own too, except in the kernel *)
(* after it has added a process.                                           *)
RunnerIsCurrent ==
    IF hold THEN thread = boot
            ELSE /\ thread = current
                 /\ cr3 = current
                 /\ pc = progress[current] \/ Astray
                 /\ current # Kernel => ds = Segment(current)

(* An interrupt can find every entry it may choose next: each points at    *)
(* the frame of its own thread, with that thread's progress, directory and *)
(* segment.  Entry 0 is written by the first switch itself.                *)
Ready(s) ==
    /\ table[s].esp.stack = s
    /\ frame[s].kind = table[s].esp.kind
    /\ frame[s].kind # "none"
    /\ frame[s].pc = progress[s]
    /\ table[s].cr3 = s
    /\ table[s].ds = Segment(s)

EveryoneReady ==
    interrupts /\ ~hold => \A s \in 0..count \ {current} : Ready(s)

(* No thread is left out: one that was added gets the processor again and  *)
(* again, as long as nobody presses a key while a process runs.            *)
EveryThreadRuns ==
    \A s \in Slots : (count >= s /\ interrupts /\ ~hold) ~>
                            (thread = s \/ Astray)

(* The kernel never loses its processor for good while it adds a process   *)
(* or waits for the disk: interrupts come back.                            *)
InterruptsComeBack == []<>(interrupts \/ Astray)

(* The turns are those of module RoundRobin.  A process is a member once   *)
(* interrupts are on again.                                                *)
Last == IF at \in {"directory", "stack", "entry"} THEN count - 1 ELSE count
Admitted == 0..Last

Turns == INSTANCE RoundRobin
            WITH Threads <- Slots, none <- boot,
                 members <- Admitted,
                 running <- IF hold THEN boot ELSE current,
                 served  <- IF hold THEN {} ELSE 0..current
TurnsSpec == Turns!Spec

----------------------------------------------------------------------------
(* What a comment of the code says, and the code does not do.              *)

(* interrupts.cpp:71 calls vector 0x21 the keyboard's.  A key press would  *)
(* leave the running thread where it is.                                   *)
KeyboardIsNoTick == [][keys' # keys => cpu' = cpu]_vars
============================================================================
