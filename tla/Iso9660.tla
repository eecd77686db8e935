------------------------------ MODULE Iso9660 ------------------------------
(***************************************************************************)
(* From the drives of the machine to a file of the CD: enumerate_drives    *)
(* finds out what the four drives are (Code/disk/ata.cpp), atapi_iso9660_  *)
(* init reads three sectors of every CD, each naming the next one, and     *)
(* atapi_read_file searches the root directory for a name                  *)
(* (Code/disk/drivers/atapi_driver.cpp, Code/global/string/cstring.cpp).   *)
(* Reading the sectors themselves is module Atapi; here a read delivers    *)
(* the sector or, when the drive fails, leaves the buffer as it was, and   *)
(* the driver goes on either way.                                          *)
(*                                                                         *)
(* A buffer is the sector that was read into it.  What the driver makes of *)
(* memory that holds something else than it believes is left open.         *)
(***************************************************************************)
EXTENDS Integers, Sequences

CONSTANTS
    Machines,   \* what may be behind the two buses: a Device for each drive
    Lbas,       \* the sectors of the discs
    Names       \* the names readFile may be called with

Drives == 0..3            \* 0x1F0 master and slave, 0x170 master and slave
NUL == 0                  \* names are sequences of bytes
Name == Seq(Nat) \ {<<>>}

\* A directory entry, and a drive with its disc: the path table's place, the
\* root directory's and the entries in the root directory's first sector.
Entry == [name : Name, lba : Nat, size : Nat]
Device == [kind : {"none", "ata", "atapi", "mute"},
           pathTable : Lbas, root : Lbas, entries : Seq(Entry)]

ASSUME Iso9660Assumption ==
    /\ Lbas \subseteq Nat /\ 16 \in Lbas
    /\ \A m \in Machines : m \in [Drives -> Device]
    /\ \A a \in Names : a \in Name /\ \A j \in 1..Len(a) : a[j] # NUL

VARIABLES
    machine,                  \* the drives there are
    stage, d,                 \* how far the kernel thread has got, and where
    drives,                   \* drives[d].drive_type
    primaryVolumeDescriptor, pathTable, rootExtent,   \* the buffers
    steady,                   \* no read has failed
    fileDir, entry,           \* the name asked for, the entry looked at
    result                    \* what is returned

buffers == <<primaryVolumeDescriptor, pathTable, rootExtent>>
search == <<fileDir, entry, result>>
discVars == <<machine, stage, d, drives, primaryVolumeDescriptor, pathTable,
              rootExtent, steady, fileDir, entry, result>>

Sector(e, lba) == <<e, lba>>
Unread == <<>>
NoFile == [found |-> FALSE, lba |-> 0, size |-> 0]

DiscInit ==
    /\ machine \in Machines
    /\ stage = "detect" /\ d = 0
    /\ drives = [e \in Drives |-> "NONE"]
    /\ primaryVolumeDescriptor = Unread
    /\ pathTable = Unread
    /\ rootExtent = Unread
    /\ steady = TRUE
    /\ fileDir = <<>> /\ entry = 1 /\ result = NoFile

----------------------------------------------------------------------------

\* The IDENTIFY command: no answer, an answer, or an error.
DetectDriveType ==
    /\ stage = "detect" /\ d \in Drives
    /\ \/ /\ machine[d].kind \in {"none", "ata"}
          /\ drives' = [drives EXCEPT ![d] = IF machine[d].kind = "ata"
                                             THEN "ATA" ELSE "NONE"]
          /\ d' = d + 1 /\ stage' = "detect"
       \/ /\ machine[d].kind \in {"atapi", "mute"}
          /\ stage' = "non_ata"
          /\ UNCHANGED <<drives, d>>
    /\ UNCHANGED <<machine, buffers, steady, search>>

\* The IDENTIFY PACKET DEVICE command; a drive that does not answer it is
\* left with the type it has.
DetectNonAta ==
    /\ stage = "non_ata"
    /\ drives' = IF machine[d].kind = "atapi"
                 THEN [drives EXCEPT ![d] = "ATAPI"] ELSE drives
    /\ d' = d + 1 /\ stage' = "detect"
    /\ UNCHANGED <<machine, buffers, steady, search>>

DetectDone ==
    /\ stage = "detect" /\ d \notin Drives
    /\ stage' = "init" /\ d' = 0
    /\ UNCHANGED <<machine, drives, buffers, steady, search>>

----------------------------------------------------------------------------

\* atapi_drive_read_sector into a buffer of its own.
ReadSector(buffer, lba) ==
    \/ buffer' = Sector(d, lba) /\ UNCHANGED steady
    \/ buffer' = Unread /\ steady' = FALSE

\* The sectors a buffer names when it is taken for a volume descriptor, and
\* for a path table, whose first entry is the root directory's.
PathTableIn(buffer) ==
    IF \E e \in Drives : buffer = Sector(e, 16)
    THEN {machine[e].pathTable : e \in {f \in Drives : buffer = Sector(f, 16)}}
    ELSE Lbas
RootIn(buffer) ==
    IF \E e \in Drives : buffer = Sector(e, machine[e].pathTable)
    THEN {machine[e].root : e \in {f \in Drives :
                                     buffer = Sector(f, machine[f].pathTable)}}
    ELSE Lbas

\* init_file_system: only a CD-ROM has one.
SkipDrive ==
    /\ stage = "init" /\ d \in Drives /\ drives[d] # "ATAPI"
    /\ d' = d + 1
    /\ UNCHANGED <<machine, stage, drives, buffers, steady, search>>

\* A sector that is no volume descriptor is reported and used all the same.
ReadDescriptor ==
    /\ stage = "init" /\ d \in Drives /\ drives[d] = "ATAPI"
    /\ ReadSector(primaryVolumeDescriptor, 16)
    /\ stage' = "path_table"
    /\ UNCHANGED <<machine, d, drives, pathTable, rootExtent, search>>

ReadPathTable ==
    /\ stage = "path_table"
    /\ \E lba \in PathTableIn(primaryVolumeDescriptor) : ReadSector(pathTable, lba)
    /\ stage' = "root"
    /\ UNCHANGED <<machine, d, drives, primaryVolumeDescriptor, rootExtent, search>>

ReadRoot ==
    /\ stage = "root"
    /\ \E lba \in RootIn(pathTable) : ReadSector(rootExtent, lba)
    /\ stage' = "init" /\ d' = d + 1
    /\ UNCHANGED <<machine, drives, primaryVolumeDescriptor, pathTable, search>>

\* kernel_ultimate calls readFile.
ReadFile ==
    /\ stage = "init" /\ d \notin Drives
    /\ fileDir' \in Names /\ entry' = 1
    /\ stage' = "search"
    /\ UNCHANGED <<machine, d, drives, buffers, steady, result>>

----------------------------------------------------------------------------

\* A byte of a string that ends with a NUL, counted from 0.
At(s, n) == IF n < Len(s) THEN s[n + 1] ELSE NUL

\* Mutant of Match: the last byte is not compared.
MatchShort(a, b) ==
    \A n \in 0 .. Len(b) - 2 : At(a, n) = At(b, n) /\ (n > 0 => At(b, n) # NUL)

\* strcmp_with_size(a, b, Len(b)): the bytes agree up to the last one of b,
\* and past the first none of them ends the strings.
Match(a, b) ==
    \A n \in 0 .. Len(b) - 1 : At(a, n) = At(b, n) /\ (n > 0 => At(b, n) # NUL)

\* The search looks through a root directory, or through something else.
Searches(e) == rootExtent = Sector(e, machine[e].root)
Astray == stage = "search" /\ \A e \in Drives : ~Searches(e)

\* An entry of length zero: the end.
LookEnd ==
    /\ stage = "search"
    /\ \E e \in Drives : Searches(e) /\ entry > Len(machine[e].entries)
    /\ result' = NoFile
    /\ stage' = "returned"
    /\ UNCHANGED <<machine, d, drives, buffers, steady, fileDir, entry>>

LookMatch ==
    /\ stage = "search"
    /\ \E e \in Drives :
          /\ Searches(e) /\ entry <= Len(machine[e].entries)
          /\ Match(fileDir, machine[e].entries[entry].name)
          /\ result' = [found |-> TRUE,
                        lba   |-> machine[e].entries[entry].lba,
                        size  |-> machine[e].entries[entry].size]
    /\ stage' = "returned"
    /\ UNCHANGED <<machine, d, drives, buffers, steady, fileDir, entry>>

\* Mutant of LookNext: the offset is not moved.
LookAgain ==
    /\ stage = "search"
    /\ \E e \in Drives :
          /\ Searches(e) /\ entry <= Len(machine[e].entries)
          /\ ~Match(fileDir, machine[e].entries[entry].name)
    /\ UNCHANGED discVars

LookNext ==
    /\ stage = "search"
    /\ \E e \in Drives :
          /\ Searches(e) /\ entry <= Len(machine[e].entries)
          /\ ~Match(fileDir, machine[e].entries[entry].name)
    /\ entry' = entry + 1
    /\ UNCHANGED <<machine, stage, d, drives, buffers, steady, fileDir, result>>

\* The bytes of an unread block, of another sector or, without any CD-ROM,
\* those at address 0 are searched: a file, none, or a search without end.
LookAstray ==
    /\ Astray
    /\ \/ result' = NoFile
       \/ \E lba \in Lbas, size \in {0, 1} :
             result' = [found |-> TRUE, lba |-> lba, size |-> size]
    /\ stage' = "returned"
    /\ UNCHANGED <<machine, d, drives, buffers, steady, fileDir, entry>>

Enumerate == \/ DetectDriveType \/ DetectNonAta \/ DetectDone
             \/ SkipDrive \/ ReadDescriptor \/ ReadPathTable \/ ReadRoot
Look == LookEnd \/ LookMatch \/ LookNext \/ LookAstray

DiscNext == Enumerate \/ ReadFile \/ Look

DiscSpec == DiscInit /\ [][DiscNext]_discVars

(* The kernel thread goes on: everybody gets turns (module RoundRobin) and *)
(* every sector read ends (ReadReturns of module Atapi).                   *)
FairDiscSpec == DiscSpec /\ WF_discVars(DiscNext)

----------------------------------------------------------------------------

(* The types of the variables; an entry number is one of the directory's   *)
(* or the one behind them.                                                 *)
Buffer == {Unread} \cup {Sector(e, lba) : e \in Drives, lba \in Lbas}
DiscTypeOK ==
    /\ machine \in Machines
    /\ stage \in {"detect", "non_ata", "init", "path_table", "root", "search",
               "returned"}
    /\ d \in 0..4
    /\ stage \in {"non_ata", "path_table", "root"} => d \in Drives
    /\ drives \in [Drives -> {"NONE", "ATA", "ATAPI"}]
    /\ primaryVolumeDescriptor \in Buffer
    /\ pathTable \in Buffer
    /\ rootExtent \in Buffer
    /\ steady \in BOOLEAN
    /\ fileDir \in {<<>>} \cup Names
    /\ entry \in Nat \ {0}
    /\ result \in [found : BOOLEAN, lba : Nat, size : Nat]

(* What a search should find: the names b that name a begins with.         *)
StartsWith(a, b) == Len(b) <= Len(a) /\ b = SubSeq(a, 1, Len(b))

\* The CD-ROM that was initialised last.
LastDisc(e) == /\ machine[e].kind = "atapi"
               /\ \A f \in e + 1 .. 3 : machine[f].kind # "atapi"

(* atapi_driver.cpp:70, "check every file in root for a match": a file is  *)
(* returned exactly when the name asked for begins with one of the names   *)
(* in the root directory of the last CD-ROM, and it is the first of them.  *)
(* The kernel needs the beginning: it asks for TERMINAL.ELF, and the disc  *)
(* has TERMINAL.  readFile then reads from the first drive, which is the   *)
(* same one where it is the only CD-ROM (bochsrc.bxrc).  After a failed    *)
(* read nothing is promised.                                               *)
FileIsFirstMatch ==
    stage = "returned" /\ steady =>
      \A e \in Drives : LastDisc(e) =>
        LET root == machine[e].entries
        IN  \/ /\ ~result.found
               /\ \A j \in 1..Len(root) : ~StartsWith(fileDir, root[j].name)
            \/ \E j \in 1..Len(root) :
                  /\ StartsWith(fileDir, root[j].name)
                  /\ \A k \in 1 .. j - 1 : ~StartsWith(fileDir, root[k].name)
                  /\ result = [found |-> TRUE, lba |-> root[j].lba,
                               size |-> root[j].size]

(* kernel_ultimate gets past enumerate_drives and readFile: the search     *)
(* ends unless it looks through what is no root directory.                 *)
FileReturned == <>(stage = "returned" \/ Astray)
============================================================================
