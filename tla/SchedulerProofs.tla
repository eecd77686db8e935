-------------------------- MODULE SchedulerProofs --------------------------
(***************************************************************************)
(* Proofs about module Scheduler, for any number of processes: the types,  *)
(* and that a switch always finds a whole entry and resumes the thread the *)
(* table says.                                                             *)
(***************************************************************************)
EXTENDS Scheduler, TLAPS

(* Entries and pointers are made of their fields.                          *)
LEMMA Fields ==
    ASSUME NEW t, NEW k, NEW d, NEW g
    PROVE  /\ EntryOf(Pointer(t, k), d, g).esp.stack = t
           /\ EntryOf(Pointer(t, k), d, g).esp.kind = k
           /\ EntryOf(Pointer(t, k), d, g).cr3 = d
           /\ EntryOf(Pointer(t, k), d, g).ds = g
           /\ Frame(k, d).kind = k
           /\ Frame(k, d).pc = d
BY DEF EntryOf, Pointer, Frame

(* A whole entry is a table entry.                                         *)
LEMMA EntryTypes ==
    ASSUME NEW t \in Threads \cup {nowhere}, NEW k \in Kinds,
           NEW d \in Slots \cup {nowhere}, NEW g \in Segments
    PROVE  EntryOf(Pointer(t, k), d, g) \in Entry
BY DEF EntryOf, Pointer, Entry

(* A frame is a frame record.                                              *)
LEMMA FrameTypes ==
    ASSUME NEW k \in Kinds, NEW p \in PC
    PROVE  Frame(k, p) \in [kind : Kinds, pc : PC]
BY DEF Frame

\* Constants and their types.
LEMMA Basics ==
    /\ Slots \subseteq Nat /\ Kernel \in Slots /\ 1 \in Slots
    /\ Slots \subseteq Threads /\ boot \in Threads
    /\ \A n \in Slots : n # MaxProcs => n + 1 \in Slots
    /\ 0 \in 0 .. Steps - 1 /\ 0 \in PC /\ nowhere \in PC
    /\ \A n \in 0 .. Steps - 1 : (n + 1) % Steps \in 0 .. Steps - 1
    /\ boot \notin Slots /\ nowhere \notin Threads
    /\ nowhere \notin 0 .. Steps - 1
BY SchedulerAssumption DEF Slots, Kernel, Threads, PC

----------------------------------------------------------------------------

(* The saved table, the pushed frames and the loaded registers.            *)
LEMMA NextSlotType ==
    TypeOK => NextSlot \in Slots
BY SchedulerAssumption DEF TypeOK, NextSlot, Slots

(* Saving keeps the table's type.                                          *)
LEMMA SavedTypes ==
    TypeOK /\ Sane => Saved \in [Slots -> Entry]
<1> SUFFICES ASSUME TypeOK, Sane
             PROVE  Saved \in [Slots -> Entry]
  OBVIOUS
<1>1. KernelEntry \in Entry
  BY Basics, EntryTypes DEF KernelEntry, Kinds, Segments
<1>2. /\ table[current] \in Entry
      /\ \A s \in Slots : table[s] \in Entry
  BY DEF TypeOK
<1>3. EntryOf(Pointer(thread, "pushed"), table[current].cr3, table[current].ds)
        \in Entry
  <2>1. /\ table[current].cr3 \in Slots \cup {nowhere}
        /\ table[current].ds \in Segments
    BY <1>2 DEF Entry
  <2> QED  BY <2>1, EntryTypes DEF Sane, Kinds
<1> QED
  BY <1>1, <1>2, <1>3 DEF Saved

(* Pushing a frame keeps the frames' type.                                 *)
LEMMA PushedTypes ==
    TypeOK /\ Sane => Pushed \in [Threads -> [kind : Kinds, pc : PC]]
<1> SUFFICES ASSUME TypeOK, Sane
             PROVE  Pushed \in [Threads -> [kind : Kinds, pc : PC]]
  OBVIOUS
<1>1. Frame("pushed", pc) \in [kind : Kinds, pc : PC]
  BY FrameTypes DEF TypeOK, Kinds
<1> QED
  BY <1>1 DEF TypeOK, Pushed

(* A switch keeps every type.                                              *)
LEMMA SwitchTypes ==
    ASSUME TypeOK, Sane, SwitchThread, keys' \in 0..MaxKeys
    PROVE  TypeOK'
<1>1. /\ Saved \in [Slots -> Entry]
      /\ Saved[NextSlot] \in Entry
      /\ Pushed \in [Threads -> [kind : Kinds, pc : PC]]
  BY SavedTypes, PushedTypes, NextSlotType
<1>2. table' \in [Slots -> Entry]
  BY <1>1 DEF SwitchThread
<1>3. current' \in Slots
  BY NextSlotType DEF SwitchThread
<1>4. PICK e \in Entry : e = Saved[NextSlot]
  BY <1>1
<1>5. /\ e.esp.stack \in Threads \cup {nowhere}
      /\ e.cr3 \in Slots \cup {nowhere}
      /\ e.ds \in Segments
  BY DEF Entry
<1>6. /\ thread' \in Threads \cup {nowhere}
      /\ cr3' \in Slots \cup {nowhere}
      /\ ds' \in Segments
  BY <1>4, <1>5 DEF SwitchThread, Load
<1>7. pc' \in PC
  <2>1. Progress(e) \in PC
    BY <1>1, Basics DEF Progress
  <2> QED  BY <1>4, <2>1 DEF SwitchThread, Load
<1>8. frame' \in [Threads -> [kind : Kinds, pc : PC]]
  <2>1. NoFrame \in [kind : Kinds, pc : PC]
    BY FrameTypes, Basics DEF NoFrame, Kinds
  <2>2. frame' = [t \in Threads |-> IF t = e.esp.stack THEN NoFrame ELSE Pushed[t]]
    BY <1>4 DEF SwitchThread, Load
  <2> QED  BY <1>1, <2>1, <2>2
<1>9. /\ hold' \in BOOLEAN
      /\ UNCHANGED <<count, es, interrupts, at, record, progress>>
  BY DEF SwitchThread
<1> QED
  BY <1>2, <1>3, <1>6, <1>7, <1>8, <1>9 DEF TypeOK

(* A process is only begun while there is an entry left for it.            *)
RoomToAdd == at = "cli" => count < MaxProcs

(* Every step keeps every type, and room for the process being added.      *)
LEMMA TypeStep == TypeOK /\ RoomToAdd /\ [Next]_vars => TypeOK' /\ RoomToAdd'
<1> SUFFICES ASSUME TypeOK, RoomToAdd, [Next]_vars
             PROVE  TypeOK' /\ RoomToAdd'
  OBVIOUS
<1> USE Basics
<1>1. ASSUME BootMemoryInit PROVE TypeOK'
  BY <1>1 DEF BootMemoryInit, TypeOK, Places, cpu
<1>2. ASSUME BootAddKernel PROVE TypeOK'
  <2>1. EntryOf(Pointer(Kernel, "built"), nowhere, "kernel") \in Entry
    BY EntryTypes DEF Kinds, Segments
  <2>2. Frame("built", 0) \in [kind : Kinds, pc : PC]
    BY FrameTypes DEF Kinds
  <2> QED  BY <1>2, <2>1, <2>2 DEF BootAddKernel, TypeOK, Places, cpu
<1>3. ASSUME BootSetup PROVE TypeOK'
  <2>1. Junk \in Entry
    BY EntryTypes DEF Junk, Kinds, Segments
  <2> QED  BY <1>3, <2>1 DEF BootSetup, TypeOK, Places, Kernel, cpu
<1>4. ASSUME BootSti PROVE TypeOK'
  BY <1>4 DEF BootSti, TypeOK, Places, cpu
<1>5. ASSUME Tick PROVE TypeOK'
  BY <1>5, SwitchTypes DEF Tick, TypeOK
<1>6. ASSUME KeyPress PROVE TypeOK'
  <2>1. keys' \in 0..MaxKeys
    BY <1>6, SchedulerAssumption DEF KeyPress, TypeOK
  <2>2. CASE SwitchThread
    BY <1>6, <2>1, <2>2, SwitchTypes DEF KeyPress
  <2>3. CASE /\ pc' = nowhere
             /\ interrupts' = FALSE
             /\ UNCHANGED <<current, count, table, hold, frame, thread, cr3, ds,
                            es, at, record, progress>>
    BY <2>1, <2>3 DEF TypeOK
  <2> QED  BY <1>6, <2>2, <2>3 DEF KeyPress
<1>7. ASSUME Work PROVE TypeOK'
  <2>1. pc \in 0 .. Steps - 1 /\ thread \in Threads
    BY <1>7 DEF Work, Sane, TypeOK, PC
  <2>2. pc' \in PC
    BY <1>7, <2>1 DEF Work, PC
  <2>3. progress' \in [Threads -> 0 .. Steps - 1]
    BY <1>7, <2>1 DEF Work, TypeOK
  <2> QED  BY <1>7, <2>2, <2>3 DEF Work, TypeOK
<1>8. ASSUME Syscall PROVE TypeOK'
  BY <1>8 DEF Syscall, TypeOK, Segments
<1>9. ASSUME MaskIrq \/ UnmaskIrq PROVE TypeOK'
  BY <1>9 DEF MaskIrq, UnmaskIrq, TypeOK, Places, cpu
<1>10. ASSUME AddCli \/ AddSti PROVE TypeOK'
  BY <1>10 DEF AddCli, AddSti, TypeOK, Places, cpu
<1>11. ASSUME AddStack PROVE TypeOK'
  <2>1. Frame("built", 0) \in [kind : Kinds, pc : PC]
    BY FrameTypes DEF Kinds
  <2> QED  BY <1>11, <2>1 DEF AddStack, TypeOK, Places, Segments
<1>12. ASSUME AddEntry PROVE TypeOK'
  <2>1. EntryOf(Pointer(count, "built"), record, "process") \in Entry
    BY EntryTypes DEF TypeOK, Kinds, Segments
  <2> QED  BY <1>12, <2>1 DEF AddEntry, TypeOK, Places, cpu
<1>13. ASSUME AddDirectory PROVE TypeOK'
  <2>1. count < MaxProcs /\ count \in Slots
    BY <1>13 DEF AddDirectory, RoomToAdd, TypeOK
  <2>2. count + 1 \in Slots
    BY <2>1, SchedulerAssumption DEF Slots
  <2> QED  BY <1>13, <2>2 DEF AddDirectory, TypeOK, Places, cpu
<1>14. ASSUME UNCHANGED vars PROVE TypeOK'
  BY <1>14 DEF TypeOK, vars
<1>15. TypeOK'
  BY <1>1, <1>2, <1>3, <1>4, <1>5, <1>6, <1>7, <1>8, <1>9, <1>10, <1>11,
     <1>12, <1>13, <1>14 DEF Next, Boot, AddProcess
<1>16. RoomToAdd'
  BY DEF Next, Boot, BootMemoryInit, BootAddKernel, BootSetup, BootSti, Tick,
         KeyPress, SwitchThread, Work, Syscall, MaskIrq, UnmaskIrq, AddProcess,
         AddCli, AddDirectory, AddStack, AddEntry, AddSti, RoomToAdd, vars
<1> QED
  BY <1>15, <1>16

(* The boot state has every type.                                          *)
LEMMA InitTypes == Init => TypeOK /\ RoomToAdd
<1> SUFFICES ASSUME Init
             PROVE  TypeOK /\ RoomToAdd
  OBVIOUS
<1>1. Junk \in Entry
  BY Basics, EntryTypes DEF Junk, Kinds, Segments
<1>2. NoFrame \in [kind : Kinds, pc : PC]
  BY Basics, FrameTypes DEF NoFrame, Kinds
<1>3. 0 \in 0..MaxKeys /\ 0 \in Slots
  BY SchedulerAssumption DEF Slots
<1> QED
  BY <1>1, <1>2, <1>3, Basics DEF Init, TypeOK, RoomToAdd, Places, Segments

(* Every value the scheduler and its threads work with has its type.       *)
THEOREM TypeCorrect == Spec => []TypeOK
<1> QED
  BY InitTypes, TypeStep, PTL DEF Spec

----------------------------------------------------------------------------

(* While the machine boots: interrupts stay off until the kernel's frame   *)
(* is built, and nothing is counted yet.                                   *)
BootInv == hold =>
    /\ thread = boot /\ cr3 = Kernel /\ current = 0 /\ count = 0
    /\ at \in {"memory_init", "addKernel", "setup", "sti", "run"}
    /\ at # "run" => ~interrupts
    /\ at \in {"setup", "sti", "run"} => frame[Kernel] = Frame("built", 0)
    /\ \A s \in Slots : progress[s] = 0

(* The running thread is current's, and continues where it stopped unless  *)
(* a key press has led it astray for good.                                 *)
Runs ==
    /\ thread = current /\ cr3 = current /\ current \in 0..Last
    /\ current # Kernel => ds = Segment(current)
    /\ pc = progress[current] \/ Astray
    /\ table[current].cr3 = current
    /\ table[current].ds = Segment(current)

(* Those that wait can be resumed; those still to come have done nothing.  *)
Waits ==
    /\ \A s \in 0..Last : s # current => Ready(s)
    /\ \A s \in Slots : s > Last => progress[s] = 0

(* The kernel is alone with interrupts off while it adds a process, and    *)
(* what it has written so far is what the new process needs.               *)
Adds ==
    /\ at \in {"run", "irq", "cli", "directory", "stack", "entry"}
    /\ at # "run" => ~interrupts /\ current = Kernel
    /\ at \in {"directory", "stack", "entry"} => count > 0
    /\ at \in {"directory", "stack"} => record = count
    /\ at \in {"stack", "entry"} => frame[count] = Frame("built", 0)
    /\ at = "entry" =>
          table[count] = EntryOf(Pointer(count, "built"), count, "process")

TurnInv == ~hold => Runs /\ Waits /\ Adds

SwitchInv == TypeOK /\ RoomToAdd /\ BootInv /\ TurnInv

(* The first switch resumes kernel_ultimate where addKernel has built it.  *)
LEMMA FirstSwitch ==
    ASSUME SwitchInv, Sane, interrupts, hold, SwitchThread
    PROVE  BootInv' /\ TurnInv'
<1>1. /\ thread = boot /\ current = 0 /\ count = 0 /\ at = "run"
      /\ frame[Kernel] = Frame("built", 0)
      /\ \A s \in Slots : progress[s] = 0
  BY DEF SwitchInv, BootInv
<1>2. NextSlot = 0 /\ 0 \in Slots /\ Kernel = 0 /\ Last = 0
  BY <1>1, Basics DEF NextSlot, Kernel, Last
<1>3. Saved[0] = KernelEntry
  BY <1>1, <1>2 DEF Saved
<1>4. /\ KernelEntry.esp.stack = 0 /\ KernelEntry.esp.kind = "built"
      /\ KernelEntry.cr3 = 0 /\ KernelEntry.ds = "kernel"
  BY <1>2, Fields DEF KernelEntry
<1>5. Pushed[0] = frame[0]
  BY <1>1, <1>2, Basics DEF Pushed, SwitchInv, TypeOK
<1>6. Progress(KernelEntry) = 0
  BY <1>1, <1>2, <1>4, <1>5, Basics, Fields DEF Progress
<1>7. /\ thread' = 0 /\ pc' = 0 /\ cr3' = 0 /\ ds' = "kernel"
      /\ current' = 0 /\ hold' = FALSE /\ table'[0] = KernelEntry
      /\ UNCHANGED <<count, interrupts, at, progress, record>>
  BY <1>2, <1>3, <1>4, <1>6 DEF SwitchThread, Load
<1>8. Segment(0) = "kernel"
  BY DEF Segment, Procs
<1>9. Last' = 0
  BY <1>1, <1>7 DEF Last
<1>10. Runs'
  BY <1>1, <1>2, <1>4, <1>7, <1>8, <1>9 DEF Runs
<1>11. Waits'
  BY <1>1, <1>7, <1>9 DEF Waits
<1>12. Adds'
  BY <1>1, <1>7 DEF Adds
<1> QED
  BY <1>7, <1>10, <1>11, <1>12 DEF BootInv, TurnInv

(* A later switch stores the running thread's progress in its own frame    *)
(* and entry, and resumes the next one from its own.                       *)
LEMMA LaterSwitch ==
    ASSUME SwitchInv, Sane, interrupts, ~hold, SwitchThread
    PROVE  BootInv' /\ TurnInv'
<1> USE DEF SwitchInv
<1>1. /\ Runs /\ Waits /\ Adds
      /\ at = "run" /\ Last = count /\ pc = progress[current]
      /\ thread = current /\ current \in 0..count
  BY DEF TurnInv, Runs, Astray, Adds, Last
<1>2. /\ count \in Slots /\ current \in Slots
      /\ 0..count \subseteq Slots /\ Slots \subseteq Nat
  BY Basics, SchedulerAssumption DEF TypeOK, Slots
<1>3. NextSlot \in 0..count
  BY <1>1, <1>2 DEF NextSlot
<1>4. PICK n \in 0..count : n = NextSlot
  BY <1>3
<1>5. n \in Slots /\ n \in Threads /\ current \in Threads
  BY <1>2, Basics
<1>6. PICK noted : noted = EntryOf(Pointer(thread, "pushed"),
                                   table[current].cr3, table[current].ds)
  OBVIOUS
<1>7. /\ noted.esp.stack = current /\ noted.esp.kind = "pushed"
      /\ noted.cr3 = current /\ noted.ds = Segment(current)
  BY <1>1, <1>6, Fields DEF Runs
<1>8. \A s \in Slots : Saved[s] = IF s = current THEN noted ELSE table[s]
  BY <1>6 DEF Saved
<1>9. /\ Pushed[current].kind = "pushed"
      /\ Pushed[current].pc = progress[current]
      /\ \A s \in Threads : s # current => Pushed[s] = frame[s]
  BY <1>1, <1>5, Fields DEF Pushed, TypeOK
<1>10. PICK e : e = Saved[n]
  OBVIOUS
<1>11. /\ e.esp.stack = n /\ e.esp.kind # "none"
       /\ e.esp.kind = Pushed[n].kind /\ Pushed[n].pc = progress[n]
       /\ e.cr3 = n /\ e.ds = Segment(n)
  <2>1. CASE n = current
    BY <1>5, <1>7, <1>8, <1>9, <1>10, <2>1
  <2>2. CASE n # current
    <3>1. Ready(n)
      BY <1>1, <2>2 DEF Waits
    <3>2. e = table[n] /\ Pushed[n] = frame[n]
      BY <1>5, <1>8, <1>9, <1>10, <2>2
    <3> QED  BY <3>1, <3>2 DEF Ready
  <2> QED  BY <2>1, <2>2
<1>12. /\ thread' = n /\ pc' = progress[n] /\ cr3' = n /\ ds' = Segment(n)
       /\ current' = n /\ ~hold' /\ table' = Saved
       /\ frame' = [t \in Threads |-> IF t = n THEN NoFrame ELSE Pushed[t]]
       /\ UNCHANGED <<count, interrupts, at, progress, record>>
  <2>1. Progress(e) = progress[n]
    BY <1>5, <1>11 DEF Progress
  <2> QED  BY <1>4, <1>10, <1>11, <2>1 DEF SwitchThread, Load
<1>13. Last' = count
  BY <1>1, <1>12 DEF Last
<1>14. Runs'
  BY <1>4, <1>10, <1>11, <1>12, <1>13 DEF Runs
<1>15. Waits'
  <2>1. ASSUME NEW s \in 0..count, s # n
        PROVE  Ready(s)'
    <3>1. s \in Slots /\ s \in Threads
      BY <1>2, Basics
    <3>2. frame'[s] = Pushed[s] /\ table'[s] = Saved[s]
      BY <1>12, <2>1, <3>1
    <3>3. CASE s = current
      BY <1>7, <1>8, <1>9, <1>12, <3>1, <3>2, <3>3 DEF Ready
    <3>4. CASE s # current
      <4>1. Ready(s)
        BY <1>1, <2>1, <3>4 DEF Waits
      <4>2. frame'[s] = frame[s] /\ table'[s] = table[s]
        BY <1>8, <1>9, <3>1, <3>2, <3>4
      <4> QED  BY <1>12, <4>1, <4>2 DEF Ready
    <3> QED  BY <3>3, <3>4
  <2>2. \A s \in Slots : s > count => progress[s] = 0
    BY <1>1 DEF Waits
  <2> QED  BY <1>12, <1>13, <2>1, <2>2 DEF Waits
<1>16. Adds'
  BY <1>1, <1>12 DEF Adds
<1> QED
  BY <1>12, <1>14, <1>15, <1>16 DEF BootInv, TurnInv

(* While the machine boots.                                                *)
LEMMA BootStep ==
    ASSUME SwitchInv, Boot
    PROVE  BootInv' /\ TurnInv'
<1> USE DEF SwitchInv
<1>1. hold /\ at \in {"memory_init", "addKernel", "setup", "sti"}
  BY DEF Boot, BootMemoryInit, BootAddKernel, BootSetup, BootSti, TurnInv, Adds
<1>2. hold' /\ UNCHANGED <<thread, cr3, count, progress, hold>>
  BY <1>1 DEF Boot, BootMemoryInit, BootAddKernel, BootSetup, BootSti, cpu
<1>3. CASE BootAddKernel
  <2>1. frame'[Kernel] = Frame("built", 0)
    BY <1>3, Basics DEF BootAddKernel, TypeOK
  <2> QED  BY <1>1, <1>2, <1>3, <2>1 DEF BootAddKernel, BootInv, TurnInv
<1>4. CASE BootMemoryInit \/ BootSetup \/ BootSti
  BY <1>1, <1>2, <1>4
     DEF BootMemoryInit, BootSetup, BootSti, BootInv, TurnInv, cpu
<1> QED
  BY <1>3, <1>4 DEF Boot

(* A step that leaves the table, the frames and the other threads alone.   *)
LEMMA QuietStep ==
    ASSUME SwitchInv, ~hold, Waits,
           UNCHANGED <<current, table, frame>>, Last' = Last,
           \A s \in Slots : s # current => progress'[s] = progress[s]
    PROVE  Waits'
<1>1. 0..Last \subseteq Slots /\ current \in 0..Last /\ Last \in Int
  <2>1. count \in 0..MaxProcs /\ Last \in Int /\ Last <= count
    BY SchedulerAssumption DEF SwitchInv, TypeOK, Slots, Last
  <2> QED  BY <2>1, SchedulerAssumption DEF SwitchInv, TurnInv, Runs, Slots
<1>2. \A s \in 0..Last : s # current => Ready(s)'
  BY <1>1 DEF Waits, Ready
<1>3. \A s \in Slots : s > Last => s # current
  BY <1>1, Basics
<1> QED
  BY <1>2, <1>3 DEF Waits

(* A step of the running thread keeps the invariant.                       *)
LEMMA WorkStep ==
    ASSUME SwitchInv, Work
    PROVE  BootInv' /\ TurnInv'
<1> USE DEF SwitchInv
<1>1. /\ UNCHANGED <<current, count, table, hold, frame, thread, cr3, ds,
                     interrupts, at, record, keys>>
      /\ progress' = [progress EXCEPT ![thread] = (@ + 1) % Steps]
      /\ pc' = (pc + 1) % Steps
      /\ thread \in Threads /\ pc # nowhere
  BY DEF Work, Sane
<1>2. \A s \in Slots : s # thread => progress'[s] = progress[s]
  BY <1>1, Basics DEF TypeOK
<1>3. CASE hold
  <2>1. thread = boot /\ \A s \in Slots : progress[s] = 0
    BY <1>3 DEF BootInv
  <2>2. \A s \in Slots : progress'[s] = 0
    BY <1>2, <2>1, Basics
  <2> QED  BY <1>1, <1>3, <2>1, <2>2 DEF BootInv, TurnInv
<1>4. CASE ~hold
  <2>1. /\ Runs /\ Waits /\ Adds /\ thread = current
        /\ pc = progress[current]
    BY <1>1, <1>4 DEF TurnInv, Runs, Astray
  <2>2. pc' = progress'[current]
    BY <1>1, <2>1 DEF TypeOK
  <2>3. Last' = Last
    BY <1>1 DEF Last
  <2>4. Waits'
    BY <1>1, <1>2, <1>4, <2>1, <2>3, QuietStep
  <2>5. Runs'
    BY <1>1, <2>1, <2>2, <2>3 DEF Runs
  <2>6. Adds'
    BY <1>1, <2>1 DEF Adds
  <2> QED  BY <1>1, <1>4, <2>4, <2>5, <2>6 DEF BootInv, TurnInv
<1> QED
  BY <1>3, <1>4

(* Adding a process: the new entry comes within reach when all of it is    *)
(* written.                                                                *)
LEMMA AddStep ==
    ASSUME SwitchInv, AddProcess
    PROVE  BootInv' /\ TurnInv'
<1> USE DEF SwitchInv
<1>1. thread = Kernel /\ Sane /\ UNCHANGED <<hold, current, thread, pc, cr3, progress, keys>>
  BY DEF AddProcess, AddCli, AddDirectory, AddStack, AddEntry, AddSti, cpu
<1>2. ~hold /\ ~hold' /\ Runs /\ Waits /\ Adds /\ current = Kernel
      /\ pc = progress[current]
  <2>1. Kernel # boot
    BY Basics
  <2> QED  BY <1>1, <2>1 DEF BootInv, TurnInv, Runs, Astray, Sane
<1>3. /\ count \in Nat /\ count <= MaxProcs /\ MaxProcs \in Nat
      /\ Kernel = 0 /\ \A s : s \in Slots <=> s \in 0..MaxProcs
  BY SchedulerAssumption DEF TypeOK, Slots, Kernel
<1>4. CASE AddCli
  <2>1. Last' = Last
    BY <1>4 DEF AddCli, Last
  <2>2. Waits'
    BY <1>1, <1>2, <1>4, <2>1, QuietStep DEF AddCli
  <2> QED  BY <1>1, <1>2, <1>4, <2>1, <2>2
              DEF AddCli, BootInv, TurnInv, Runs, Adds, cpu
<1>5. CASE AddDirectory
  <2>1. Last = count /\ Last' = count
    BY <1>3, <1>5 DEF AddDirectory, Last
  <2>2. Waits'
    BY <1>1, <1>2, <1>5, <2>1, QuietStep DEF AddDirectory
  <2> QED  BY <1>1, <1>2, <1>3, <1>5, <2>1, <2>2
              DEF AddDirectory, BootInv, TurnInv, Runs, Adds, cpu
<1>6. CASE AddStack
  <2>1. Last = count - 1 /\ Last' = Last /\ count > 0
    BY <1>2, <1>6 DEF AddStack, Last, Adds
  <2>2. /\ frame'[count] = Frame("built", 0)
        /\ \A s \in Slots : s # count => frame'[s] = frame[s]
    BY <1>6, Basics DEF AddStack, TypeOK
  <2>3. \A s \in 0..Last : s \in Slots /\ s # count
    BY <1>3, <2>1
  <2>4. \A s \in 0..Last : s # current => Ready(s)'
    BY <1>1, <1>2, <1>6, <2>2, <2>3 DEF AddStack, Waits, Ready
  <2>5. Waits'
    BY <1>1, <1>2, <2>1, <2>4 DEF Waits
  <2>6. Runs'
    BY <1>1, <1>2, <1>6, <2>1 DEF AddStack, Runs
  <2>7. Adds'
    BY <1>1, <1>2, <1>6, <2>2 DEF AddStack, Adds
  <2> QED  BY <1>2, <2>5, <2>6, <2>7 DEF BootInv, TurnInv
<1>7. CASE AddEntry
  <2>1. Last = count - 1 /\ Last' = Last /\ count > 0 /\ record = count
    BY <1>2, <1>7 DEF AddEntry, Last, Adds
  <2>2. /\ table'[count] = EntryOf(Pointer(count, "built"), count, "process")
        /\ \A s \in Slots : s # count => table'[s] = table[s]
    BY <1>7, <2>1 DEF AddEntry, TypeOK
  <2>3. \A s \in 0..Last : s \in Slots /\ s # count
    BY <1>3, <2>1
  <2>4. \A s \in 0..Last : s # current => Ready(s)'
    BY <1>1, <1>2, <1>7, <2>2, <2>3 DEF AddEntry, Waits, Ready
  <2>5. Waits'
    BY <1>1, <1>2, <2>1, <2>4 DEF Waits
  <2>6. current \in Slots /\ current # count
    BY <1>2, <1>3, <2>1
  <2>7. Runs'
    BY <1>1, <1>2, <1>7, <2>1, <2>2, <2>6 DEF AddEntry, Runs, cpu
  <2>8. Adds'
    BY <1>1, <1>2, <1>7, <2>2 DEF AddEntry, Adds
  <2> QED  BY <1>2, <2>5, <2>7, <2>8 DEF BootInv, TurnInv
<1>8. CASE AddSti
  <2>1. /\ Last = count - 1 /\ Last' = count /\ count > 0
        /\ frame[count] = Frame("built", 0)
        /\ table[count] = EntryOf(Pointer(count, "built"), count, "process")
        /\ UNCHANGED <<frame, table>>
    BY <1>2, <1>8 DEF AddSti, Last, Adds
  <2>2. progress[count] = 0
    BY <1>2, <1>3, <2>1 DEF Waits
  <2>3. Segment(count) = "process"
    BY <1>3, <2>1 DEF Segment, Procs
  <2>4. Ready(count)'
    BY <1>1, <2>1, <2>2, <2>3, <1>8, Fields DEF Ready, AddSti
  <2>5. \A s \in 0..Last : s # current => Ready(s)'
    BY <1>1, <1>2, <2>1 DEF Waits, Ready
  <2>6. \A s \in 0..count : s \in 0..Last \/ s = count
    BY <1>3, <2>1
  <2>7. \A s \in Slots : s > count => s > Last
    BY <1>3, <2>1
  <2>8. Waits'
    BY <1>1, <1>2, <1>8, <2>1, <2>4, <2>5, <2>6, <2>7 DEF Waits, AddSti
  <2>9. Runs'
    BY <1>1, <1>2, <1>3, <1>8, <2>1 DEF AddSti, Runs, cpu
  <2>10. Adds'
    BY <1>1, <1>2, <1>8 DEF AddSti, Adds
  <2> QED  BY <1>2, <2>8, <2>9, <2>10 DEF BootInv, TurnInv
<1> QED
  BY <1>4, <1>5, <1>6, <1>7, <1>8 DEF AddProcess

(* Every step keeps the invariant.                                         *)
LEMMA SwitchStep == SwitchInv /\ [Next]_vars => SwitchInv'
<1> SUFFICES ASSUME SwitchInv, [Next]_vars
             PROVE  BootInv' /\ TurnInv'
  BY TypeStep DEF SwitchInv
<1>2. ASSUME Sane, interrupts, SwitchThread
      PROVE  BootInv' /\ TurnInv'
  BY <1>2, FirstSwitch, LaterSwitch
<1>3. CASE Tick
  BY <1>2, <1>3 DEF Tick
<1>4. CASE KeyPress
  <2>1. CASE SwitchThread
    BY <1>2, <1>4, <2>1 DEF KeyPress
  <2>2. CASE /\ cr3 # Kernel
             /\ pc' = nowhere
             /\ interrupts' = FALSE
             /\ UNCHANGED <<current, count, table, hold, frame, thread, cr3, ds,
                            es, at, record, progress>>
    <3>1. ~hold /\ Runs /\ Waits /\ Adds
      BY <2>2 DEF SwitchInv, BootInv, TurnInv
    <3>2. keys' > 0
      BY <1>4, SchedulerAssumption DEF KeyPress, SwitchInv, TypeOK
    <3>3. Last' = Last
      BY <2>2 DEF Last
    <3>4. Waits'
      BY <2>2, <3>1, <3>3, QuietStep
    <3> QED  BY <2>2, <3>1, <3>2, <3>3, <3>4 DEF BootInv, TurnInv, Runs, Astray, Adds
  <2> QED  BY <1>4, <2>1, <2>2 DEF KeyPress
<1>5. CASE Syscall
  <2>1. thread \in Procs /\ thread # boot /\ thread # Kernel
    BY <1>5, SchedulerAssumption DEF Syscall, Procs, Kernel
  <2>2. ~hold /\ Runs /\ Waits /\ Adds
    BY <2>1 DEF SwitchInv, BootInv, TurnInv
  <2>3. Last' = Last
    BY <1>5 DEF Syscall, Last
  <2>4. Waits'
    BY <1>5, <2>2, <2>3, QuietStep DEF Syscall
  <2>5. Segment(current) = "process"
    BY <2>1, <2>2 DEF Runs, Segment
  <2> QED  BY <1>5, <2>2, <2>3, <2>4, <2>5
              DEF Syscall, BootInv, TurnInv, Runs, Astray, Adds
<1>6. CASE MaskIrq \/ UnmaskIrq
  <2>1. ~hold /\ Runs /\ Waits /\ Adds /\ current = Kernel
        /\ pc = progress[current]
    <3>1. thread = Kernel /\ Kernel # boot /\ Sane
      BY <1>6, Basics DEF MaskIrq, UnmaskIrq
    <3> QED  BY <3>1 DEF SwitchInv, BootInv, TurnInv, Runs, Astray, Sane
  <2>2. Last' = Last
    BY <1>6 DEF MaskIrq, UnmaskIrq, Last
  <2>3. Waits'
    BY <1>6, <2>1, <2>2, QuietStep DEF MaskIrq, UnmaskIrq
  <2> QED  BY <1>6, <2>1, <2>2, <2>3
              DEF MaskIrq, UnmaskIrq, BootInv, TurnInv, Runs, Adds, cpu
<1>7. CASE UNCHANGED vars
  BY <1>7
     DEF SwitchInv, BootInv, TurnInv, Runs, Astray, Waits, Ready, Adds, Last, vars
<1> QED
  BY <1>3, <1>4, <1>5, <1>6, <1>7, BootStep, WorkStep, AddStep DEF Next

(* The boot state satisfies the invariant.                                 *)
LEMMA InitSwitch == Init => SwitchInv
<1> SUFFICES ASSUME Init
             PROVE  SwitchInv
  OBVIOUS
<1>1. BootInv /\ TurnInv
  BY Basics DEF Init, BootInv, TurnInv
<1> QED
  BY <1>1, InitTypes DEF SwitchInv

----------------------------------------------------------------------------

(* An interrupt finds every entry it may choose next whole, and pointing   *)
(* at the frame of its own thread - whatever keys are pressed.             *)
THEOREM EntriesAreReady == Spec => []EveryoneReady
<1>1. SwitchInv => EveryoneReady
  <2> SUFFICES ASSUME SwitchInv, interrupts, ~hold
               PROVE  \A s \in 0..count \ {current} : Ready(s)
    BY DEF EveryoneReady
  <2>1. Waits /\ at = "run" /\ Last = count
    BY DEF SwitchInv, TurnInv, Adds, Last
  <2> QED  BY <2>1 DEF Waits
<1> QED
  BY <1>1, InitSwitch, SwitchStep, PTL DEF Spec

(* The processor executes the thread that is counted as current, in its    *)
(* own address space, where it was interrupted - unless a key press led it *)
(* astray, for good.                                                       *)
THEOREM RunnerResumes == Spec => []RunnerIsCurrent
<1>1. SwitchInv => RunnerIsCurrent
  BY DEF SwitchInv, BootInv, TurnInv, Runs, RunnerIsCurrent
<1> QED
  BY <1>1, InitSwitch, SwitchStep, PTL DEF Spec

----------------------------------------------------------------------------

(* The next entry in the order of the table.                               *)
LEMMA TurnStep ==
    ASSUME SwitchInv, Sane, interrupts, SwitchThread
    PROVE  Turns!Next
<1>1. SwitchInv /\ at = "run" /\ at' = at /\ Last = count /\ Last' = Last
      /\ count \in Nat /\ current \in Nat /\ hold' = FALSE
      /\ current' = NextSlot /\ NextSlot \in Slots
  BY SchedulerAssumption, NextSlotType
     DEF SwitchInv, BootInv, TurnInv, Adds, Last, SwitchThread, TypeOK, Slots
<1>2. CASE hold
  <2>1. current' = 0 /\ count = 0 /\ 0 \in Slots
    BY <1>1, <1>2, Basics DEF SwitchInv, BootInv, NextSlot, Kernel
  <2>2. Turns!Turn(0)
    BY <1>1, <1>2, <2>1 DEF Turns!Turn, Admitted
  <2> QED  BY <2>1, <2>2 DEF Turns!Next, Turns!Switch
<1>3. CASE ~hold /\ current >= count
  <2>1. current' = 0 /\ current = count /\ 0 \in Slots
    BY <1>1, <1>3, Basics DEF SwitchInv, TurnInv, Runs, NextSlot, Kernel
  <2>2. Turns!NewRound(0)
    BY <1>1, <1>3, <2>1 DEF Turns!NewRound, Admitted
  <2> QED  BY <2>1, <2>2 DEF Turns!Next, Turns!Switch
<1>4. CASE ~hold /\ current < count
  <2>1. current' = current + 1 /\ current + 1 \in Slots
    BY <1>1, <1>4 DEF NextSlot
  <2>2. Turns!Turn(current + 1)
    BY <1>1, <1>4, <2>1 DEF Turns!Turn, Admitted
  <2> QED  BY <2>1, <2>2 DEF Turns!Next, Turns!Switch
<1> QED
  BY <1>1, <1>2, <1>3, <1>4

(* A process joins with the sti that ends scheduler_addProcess.            *)
LEMMA JoinStep ==
    ASSUME SwitchInv, AddSti
    PROVE  Turns!Next
<1>1. /\ Last = count - 1 /\ Last' = count /\ count \in Slots
      /\ count \in Nat
      /\ UNCHANGED <<current, hold>>
  BY SchedulerAssumption DEF SwitchInv, TypeOK, Slots, AddSti, Last
<1>2. count > 0
  <2>1. Kernel # boot
    BY Basics
  <2> QED  BY <2>1 DEF SwitchInv, BootInv, TurnInv, Adds, AddSti
<1>3. Turns!Join(count)
  BY <1>1, <1>2 DEF Turns!Join, Admitted
<1> QED
  BY <1>1, <1>3 DEF Turns!Next

(* The table, walked entry by entry, gives every thread one turn a round.  *)
THEOREM TurnsAreTaken == Spec => TurnsSpec
<1>1. Init => Turns!Init
  BY SchedulerAssumption DEF Init, Turns!Init, Admitted, Last, Slots
<1>2. SwitchInv /\ [Next]_vars => [Turns!Next]_(Turns!vars)
  <2> SUFFICES ASSUME SwitchInv, [Next]_vars
               PROVE  Turns!Next \/ UNCHANGED Turns!vars
    OBVIOUS
  <2>1. ASSUME UNCHANGED <<hold, current>>, Last' = Last
        PROVE  UNCHANGED Turns!vars
    BY <2>1 DEF Turns!vars, Admitted
  <2>2. CASE Tick
    BY <2>2, TurnStep DEF Tick
  <2>3. CASE KeyPress
    BY <2>1, <2>3, TurnStep DEF KeyPress, Last
  <2>4. CASE AddSti
    BY <2>4, JoinStep
  <2>5. CASE AddDirectory
    <3>1. Last = count /\ Last' = count
      BY <2>5, SchedulerAssumption
         DEF AddDirectory, Last, SwitchInv, TypeOK, Slots
    <3> QED  BY <2>1, <2>5, <3>1 DEF AddDirectory
  <2>6. CASE Boot
    <3>1. UNCHANGED <<hold, count>> /\ current' = current /\ Last' = Last
      BY <2>6 DEF Boot, BootMemoryInit, BootAddKernel, BootSetup, BootSti, Last,
                  SwitchInv, BootInv, TurnInv, Adds
    <3> QED  BY <2>1, <3>1
  <2>7. CASE Work \/ Syscall \/ MaskIrq \/ UnmaskIrq \/ AddCli
    BY <2>1, <2>7 DEF Work, Syscall, MaskIrq, UnmaskIrq, AddCli, Last
  <2>8. CASE AddStack \/ AddEntry
    BY <2>1, <2>8 DEF AddStack, AddEntry, Last
  <2>9. CASE UNCHANGED vars
    BY <2>1, <2>9 DEF Last, vars
  <2> QED
    BY <2>2, <2>3, <2>4, <2>5, <2>6, <2>7, <2>8, <2>9 DEF Next, AddProcess
<1> QED
  BY <1>1, <1>2, InitSwitch, SwitchStep, PTL DEF Spec, TurnsSpec, Turns!Spec
============================================================================
