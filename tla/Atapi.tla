------------------------------- MODULE Atapi -------------------------------
(***************************************************************************)
(* Reading a file from the CD drive: the kernel thread in atapi_read_file  *)
(* and atapi_drive_read_sector (Code/disk/drivers/atapi_driver.cpp), the   *)
(* disk interrupt's handler and its flag (Code/interrupts.cpp, asm/irq.asm)*)
(* and the drive, which works at its own pace.  The scheduler may give the *)
(* processor to a process between any two steps of the driver.             *)
(*                                                                         *)
(* The processor takes a pending interrupt before its next instruction;    *)
(* where the driver switches interrupts off for a moment, that is part of  *)
(* one step.  The drive is what the driver's register accesses say of it;  *)
(* what else a drive may do are the habits of the machine's setup.         *)
(***************************************************************************)
EXTENDS Integers

CONSTANTS
    Files,        \* the files that are read: [lba, size], size in bytes
    SectorSize,   \* ATAPI_SECTOR_SIZE (0x800)
    Sectors,      \* the sectors of the disk
    Setups,       \* the machines: [processes, habits], whether there are processes
                  \* to be scheduled, and what the drive does besides:
                  \* "early": interrupts when it is ready for the packet
                  \* "late": stays busy a while after the last word
                  \* "aborts": may reject the PACKET command
                  \* "fails": may reject the packet's command
    none          \* no sector

ASSUME AtapiAssumption ==
    /\ SectorSize \in Nat \ {0}
    /\ Sectors \subseteq Nat
    /\ Files \subseteq [lba : Nat, size : Nat]
    /\ Setups \subseteq [processes : BOOLEAN,
                         habits : SUBSET {"early", "late", "aborts", "fails"}]
    /\ none \notin Nat

VARIABLES
    pc,         \* how far the driver has got
    file,       \* the file being read
    i,          \* atapi_read_file's loop counter
    memory,     \* which sector's data is at fileMem + 0x800 * i
    drive,      \* what the drive is doing
    sector,     \* the sector it was asked for
    irq,        \* interrupt 14 is pending
    isIRQ14,    \* the flag in the kernel's memory
    running,    \* who has the processor
    setup       \* the machine, which stays what it is

driver == <<pc, file, i, memory>>
vars == <<pc, file, i, memory, drive, sector, irq, isIRQ14, running, setup>>

\* The status register: BUSY (0x80), DRQ (0x08), ERR (0x01).
Busy == drive \in {"accepting", "seeking", "finishing"}
Drq == drive \in {"packet", "data"}
Err == drive \in {"aborted", "failed"}

\* Mutant of ReadCount: the rest of the last sector is forgotten.
ReadCountRounded(size) == size \div SectorSize

\* How many sectors a file takes.
ReadCount(size) ==
    IF size % SectorSize > 0 THEN size \div SectorSize + 1
                             ELSE size \div SectorSize

\* The file's sectors, counted from 0, that hold its bytes.
BlocksOf(f) == {byte \div SectorSize : byte \in 0 .. f.size - 1}
Blocks == UNION {BlocksOf(f) : f \in Files}

ASSUME FilesOnDisk ==
    \A f \in Files : \A k \in 0 .. ReadCount(f.size) - 1 : f.lba + k \in Sectors

Init ==
    /\ pc = "idle"
    /\ file \in Files
    /\ i = ReadCount(file.size)
    /\ memory = [b \in Blocks |-> IF b < i THEN file.lba + b ELSE none]
    /\ drive = "idle"
    /\ sector = none
    /\ irq = FALSE
    /\ isIRQ14 \in BOOLEAN
    /\ running = "kernel"
    /\ setup \in Setups

----------------------------------------------------------------------------

\* The kernel thread's next step.
Executes(from) == running = "kernel" /\ ~irq /\ pc = from

\* atapi_read_file, once the file has been found and has its memory.
Open(f) ==
    /\ Executes("idle")
    /\ file' = f
    /\ i' = 0
    /\ memory' = [b \in Blocks |-> none]
    /\ pc' = "next"
    /\ UNCHANGED <<drive, sector, irq, isIRQ14, running, setup>>

Close ==
    /\ Executes("next")
    /\ i >= ReadCount(file.size)
    /\ pc' = "idle"
    /\ UNCHANGED <<file, i, memory, drive, sector, irq, isIRQ14, running, setup>>

\* The PACKET command; a busy drive does not see it.
Command ==
    /\ Executes("next")
    /\ i < ReadCount(file.size)
    /\ drive' = IF Busy THEN drive ELSE "accepting"
    /\ pc' = "poll"
    /\ UNCHANGED <<file, i, memory, sector, irq, isIRQ14, running, setup>>

\* Mutant of Poll: whatever the status, the packet is next.
PollOnce ==
    /\ Executes("poll")
    /\ pc' = "prepare"
    /\ UNCHANGED <<file, i, memory, drive, sector, irq, isIRQ14, running, setup>>

(* Three nested statements without braces: the wait for DRQ or ERR is the  *)
(* body of the loop that polls BUSY, and `return -1' is the body of the    *)
(* wait, where ERR is never set.  (A busy drive shows no other bit.)       *)
Poll ==
    /\ Executes("poll")
    /\ pc' = IF Busy THEN "inner" ELSE "prepare"
    /\ UNCHANGED <<file, i, memory, drive, sector, irq, isIRQ14, running, setup>>

PollInner ==
    /\ Executes("inner")
    /\ Drq \/ Err
    /\ pc' = "poll"
    /\ UNCHANGED <<file, i, memory, drive, sector, irq, isIRQ14, running, setup>>

\* Mutant of Prepare: the flag of the last interrupt stays.
PrepareKeepsFlag ==
    /\ Executes("prepare")
    /\ pc' = "send"
    /\ UNCHANGED <<file, i, memory, drive, sector, irq, isIRQ14, running, setup>>

\* prepare_for_irq14
Prepare ==
    /\ Executes("prepare")
    /\ isIRQ14' = FALSE
    /\ pc' = "send"
    /\ UNCHANGED <<file, i, memory, drive, sector, irq, running, setup>>

\* The address in the packet.
Asked == file.lba + i

\* The packet; a drive that has not asked for it does not see it.
Send ==
    /\ Executes("send")
    /\ IF drive = "packet"
       THEN drive' = "seeking" /\ sector' = Asked
       ELSE UNCHANGED <<drive, sector>>
    /\ pc' = "wait"
    /\ UNCHANGED <<file, i, memory, irq, isIRQ14, running, setup>>

\* Mutant of Wait: it does not.
WaitNot ==
    /\ Executes("wait")
    /\ pc' = "read"
    /\ UNCHANGED <<file, i, memory, drive, sector, irq, isIRQ14, running, setup>>

\* wait_for_irq14, whose loop ends when it finds the flag set.
Wait ==
    /\ Executes("wait")
    /\ isIRQ14
    /\ pc' = "read"
    /\ UNCHANGED <<file, i, memory, drive, sector, irq, isIRQ14, running, setup>>

(* While DRQ is set, a sector's words are read.  A drive with data is done *)
(* with the last word, or soon after, and interrupts once more.            *)
ReadData ==
    /\ Executes("read")
    /\ Drq
    /\ memory' = [memory EXCEPT ![i] = IF drive = "data" THEN sector ELSE none]
    /\ \/ drive = "data" /\ drive' = "idle" /\ irq' = TRUE
       \/ drive = "data" /\ "late" \in setup.habits
          /\ drive' = "finishing" /\ UNCHANGED irq
       \/ drive = "packet" /\ UNCHANGED <<drive, irq>>
    /\ UNCHANGED <<pc, file, i, sector, isIRQ14, running, setup>>

\* Mutant of SectorDone: the loop stays where it is.
SectorAgain ==
    /\ Executes("read")
    /\ ~Drq
    /\ pc' = "next"
    /\ UNCHANGED <<file, i, memory, drive, sector, irq, isIRQ14, running, setup>>

(* With DRQ clear the function returns 0: the wait that follows has the    *)
(* return for its body, and the caller does not look at the result.        *)
SectorDone ==
    /\ Executes("read")
    /\ ~Drq
    /\ i' = i + 1
    /\ pc' = "next"
    /\ UNCHANGED <<file, memory, drive, sector, irq, isIRQ14, running, setup>>

Driver == (\E f \in Files : Open(f)) \/ Close \/ Command \/ Poll \/ PollInner
          \/ Prepare \/ Send \/ Wait \/ ReadData \/ SectorDone

----------------------------------------------------------------------------

(* The drive: it accepts a command by asking for the packet, and the       *)
(* packet by having the sector's data ready; or it reports an error.       *)
DriveAccepts ==
    /\ drive = "accepting"
    /\ \/ drive' = "packet" /\ irq' \in {irq, "early" \in setup.habits}
       \/ "aborts" \in setup.habits /\ drive' = "aborted" /\ irq' = TRUE
    /\ UNCHANGED <<driver, sector, isIRQ14, running, setup>>

DriveAnswers ==
    /\ drive = "seeking"
    /\ \/ drive' = "data"
       \/ "fails" \in setup.habits /\ drive' = "failed"
    /\ irq' = TRUE
    /\ UNCHANGED <<driver, sector, isIRQ14, running, setup>>

DriveFinishes ==
    /\ drive = "finishing"
    /\ drive' = "idle"
    /\ irq' = TRUE
    /\ UNCHANGED <<driver, sector, isIRQ14, running, setup>>

Drive == DriveAccepts \/ DriveAnswers \/ DriveFinishes

(* irq14 and irq14_handler, run with the data segment of whoever it        *)
(* interrupts: in a process the flag's address is the process's memory.    *)
Irq14 ==
    /\ irq
    /\ irq' = FALSE
    /\ isIRQ14' = IF running = "kernel" THEN TRUE ELSE isIRQ14
    /\ UNCHANGED <<driver, drive, sector, running, setup>>

\* The timer interrupt comes first when both are pending.
Switch ==
    /\ setup.processes
    /\ running' = IF running = "kernel" THEN "process" ELSE "kernel"
    /\ UNCHANGED <<driver, drive, sector, irq, isIRQ14, setup>>

Next == Driver \/ Drive \/ Irq14 \/ Switch

Spec == Init /\ [][Next]_vars

(* The drive answers, interrupts are taken, the timer ticks, and a driver  *)
(* that gets the processor again and again gets on.                        *)
FairSpec == /\ Spec
            /\ WF_vars(Drive) /\ WF_vars(Irq14) /\ WF_vars(Switch)
            /\ SF_vars(Driver)

----------------------------------------------------------------------------

TypeOK ==
    /\ pc \in {"idle", "next", "poll", "inner", "prepare", "send", "wait", "read"}
    /\ file \in Files
    /\ i \in Nat
    /\ memory \in [Blocks -> Sectors \cup {none}]
    /\ drive \in {"idle", "accepting", "packet", "aborted", "seeking", "data",
                  "failed", "finishing"}
    /\ sector \in Sectors \cup {none}
    /\ irq \in BOOLEAN
    /\ isIRQ14 \in BOOLEAN
    /\ running \in {"kernel", "process"}
    /\ setup \in Setups

(* atapi_driver.cpp:224, "DRQ or ERROR set" and a return for ERROR: the    *)
(* packet is sent to a drive that asks for it.  The error is never seen,   *)
(* and a drive still busy with the last sector misses the command, so this *)
(* is so only with a drive that does neither.                              *)
PacketWhenAsked ==
    (pc = "send" /\ setup.habits \subseteq {"early", "fails"}) => drive = "packet"

(* No interrupt but the one that answers this packet ends the wait: not    *)
(* the last sector's, and none that comes before the packet.               *)
WaitIsAnswered == pc = "read" => drive \notin {"accepting", "packet", "seeking"}

(* Whatever a drive fails to do, no sector's data is ever in the place of  *)
(* another: a block of the file in memory is its own or was never read.    *)
SectorsInPlace == \A b \in BlocksOf(file) : memory[b] \in {file.lba + b, none}

(* atapi_driver.cpp:199, "read a single sector ... into the buffer": when  *)
(* atapi_read_file returns, the file is in memory, every sector in its     *)
(* place, the last one included, whatever processes ran in between.  The   *)
(* driver does not notice a read that fails and returns the file with a    *)
(* hole, so this is so only with a drive that does not fail.               *)
FileDelivered ==
    (pc = "idle" /\ "fails" \notin setup.habits) =>
        \A b \in BlocksOf(file) : memory[b] = file.lba + b

(* Reading a file comes to an end, if the drive takes every command, fails *)
(* to read or not, and no process's memory can take the interrupt's flag.  *)
Undisturbed == ~setup.processes /\ setup.habits \subseteq {"early", "fails"}
ReadReturns == (pc # "idle" /\ Undisturbed) ~> pc = "idle"
============================================================================
