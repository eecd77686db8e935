------------------------------ MODULE CdProofs ------------------------------
(***************************************************************************)
(* Proofs about the CD-ROM driver.  Module Atapi, whatever files are read, *)
(* from whichever drive and with whichever processes in between: the wait  *)
(* ends with the answer to its own packet, no sector gets another one's    *)
(* place, and if the drive fails no command a file is returned whole.      *)
(* Module Iso9660, whatever drives a machine has, whatever is on their     *)
(* discs and whichever name is asked for: enumeration and search keep      *)
(* their types, and unless a read fails the search returns the first entry *)
(* of the last CD-ROM's root directory whose name the asked name begins    *)
(* with.                                                                   *)
(***************************************************************************)
EXTENDS Atapi, Iso9660, SequenceTheorems, TLAPS

(* A byte of a file lies in one of the sectors that are read for it.       *)
LEMMA ByteIsRead ==
    ASSUME NEW size \in Nat, NEW byte \in 0 .. size - 1
    PROVE  byte \div SectorSize < ReadCount(size)
<1> DEFINE S == SectorSize
           q == byte \div S
           k == size \div S
<1>1. S \in Nat /\ S > 0
  BY AtapiAssumption
<1>2. /\ q \in Nat /\ k \in Nat
      /\ S * q <= byte
      /\ size = S * k + (size % S) /\ size % S \in 0 .. S - 1
  BY <1>1
<1> HIDE DEF S, q, k
<1>3. CASE size % S > 0
  <2>1. S * q < S * (k + 1)
    BY <1>1, <1>2
  <2>2. q < k + 1
    BY <1>1, <1>2, <2>1
  <2> QED  BY <1>3, <2>2 DEF ReadCount, S, q, k
<1>4. CASE ~(size % S > 0)
  <2>1. S * q < S * k
    BY <1>1, <1>2, <1>4
  <2>2. q < k
    BY <1>1, <1>2, <2>1
  <2> QED  BY <1>4, <2>2 DEF ReadCount, S, q, k
<1> QED
  BY <1>3, <1>4

(* The number of sectors of a file is a number.                            *)
LEMMA ReadCountType == \A f \in Files : ReadCount(f.size) \in Nat
<1> SUFFICES ASSUME NEW f \in Files PROVE ReadCount(f.size) \in Nat
  OBVIOUS
<1>1. f.size \in Nat /\ SectorSize \in Nat /\ SectorSize > 0
  BY AtapiAssumption
<1>2. f.size \div SectorSize \in Nat
  BY <1>1
<1> HIDE DEF ReadCount
<1> QED
  BY <1>2 DEF ReadCount

(* The sectors of the files are counted in natural numbers.                *)
LEMMA BlocksAreNumbers == \A b \in Blocks : b \in Nat
<1>1. SectorSize \in Nat /\ SectorSize > 0
  BY AtapiAssumption
<1>2. ASSUME NEW g \in Files, NEW byte \in 0 .. g.size - 1
      PROVE  byte \div SectorSize \in Nat
  BY <1>1, AtapiAssumption
<1> QED
  BY <1>2 DEF Blocks, BlocksOf

----------------------------------------------------------------------------

Reliable == "fails" \notin setup.habits

(* What has been read is in place, nothing is missing from a drive that    *)
(* does not fail, and the number of sectors to go fits the place the       *)
(* driver is at.                                                           *)
Progress ==
    /\ \A b \in Blocks : memory[b] \in {file.lba + b, none}
    /\ Reliable => \A b \in Blocks : b < i => memory[b] = file.lba + b
    /\ pc = "idle" => i >= ReadCount(file.size)
    /\ pc \notin {"idle", "next"} => i < ReadCount(file.size)

(* Between two sectors the drive is done or about to be; before the packet *)
(* it has not been asked for a sector; and no interrupt is on its way that *)
(* could be taken for the answer to the packet.                            *)
Quiet == ~isIRQ14 /\ ~irq
Failed == ~Reliable /\ drive = "failed"
Handshake ==
    /\ pc \in {"idle", "next"} => drive \in {"idle", "finishing"} \/ Failed
    /\ pc \in {"poll", "inner"} => drive \notin {"seeking", "data", "failed"}
    /\ pc \in {"prepare", "send"} => drive \in {"packet", "aborted", "idle"}
    /\ pc = "send" => Quiet
    /\ pc = "wait" =>
          \/ drive = "data" /\ sector = Asked
          \/ drive = "seeking" /\ sector = Asked /\ Quiet
          \/ drive \in {"aborted", "idle"} /\ Quiet
          \/ Failed
    /\ pc = "read" =>
          \/ drive = "data" /\ sector = Asked
          \/ drive \in {"idle", "finishing"} /\ (i \in Blocks => memory[i] = Asked)
          \/ Failed

ReadInv == TypeOK /\ Progress /\ Handshake

(* The state before the first file is read satisfies the invariant.        *)
LEMMA InitRead == Init => ReadInv
<1> SUFFICES ASSUME Init PROVE ReadInv
  OBVIOUS
<1>1. file \in Files /\ i \in Nat /\ file.lba \in Nat
  BY ReadCountType, AtapiAssumption DEF Init
<1>2. memory \in [Blocks -> Sectors \cup {none}]
  <2>1. ASSUME NEW b \in Blocks, b < i PROVE file.lba + b \in Sectors
    <3>1. b \in Nat /\ i = ReadCount(file.size)
      BY BlocksAreNumbers DEF Init
    <3>2. b \in 0 .. ReadCount(file.size) - 1
      BY <1>1, <2>1, <3>1
    <3> QED  BY <1>1, <3>2, FilesOnDisk
  <2> QED  BY <2>1 DEF Init
<1>3. TypeOK
  BY <1>1, <1>2 DEF Init, TypeOK
<1>4. Progress /\ Handshake
  BY <1>1 DEF Init, Progress, Handshake, Failed
<1> QED
  BY <1>3, <1>4 DEF ReadInv

(* The sector the packet asks for is one of the disk's.                    *)
LEMMA AskedType ==
    ASSUME TypeOK, i < ReadCount(file.size)
    PROVE  Asked \in Sectors /\ Asked \in Nat
<1>1. file \in Files /\ i \in 0 .. ReadCount(file.size) - 1
  BY ReadCountType DEF TypeOK
<1> QED
  BY <1>1, FilesOnDisk, AtapiAssumption DEF Asked

(* Every step of the drive, the driver, the interrupt and the scheduler    *)
(* keeps the invariant.                                                    *)
LEMMA ReadStep ==
    ASSUME ReadInv, [Next]_vars
    PROVE  ReadInv'
<1> USE DEF ReadInv, Reliable
<1>0. file \in Files /\ file.lba \in Nat /\ i \in Nat
  BY AtapiAssumption DEF TypeOK
<1>1. ASSUME NEW f \in Files, Open(f) PROVE ReadInv'
  <2>1. f.lba \in Nat /\ ReadCount(f.size) \in Nat
    BY <1>1, AtapiAssumption, ReadCountType
  <2>2. \A b \in Blocks : b \in Nat
    BY BlocksAreNumbers
  <2>3. TypeOK'
    BY <1>1 DEF Open, Executes, TypeOK
  <2>4. Progress' /\ Handshake'
    BY <1>1, <2>1, <2>2 DEF Open, Executes, Progress, Handshake, Failed, TypeOK
  <2> QED  BY <2>3, <2>4
<1>2. CASE Close
  BY <1>0, <1>2, ReadCountType DEF Close, Executes, TypeOK, Progress, Handshake, Failed
<1>3. CASE Command
  BY <1>0, <1>3, ReadCountType
     DEF Command, Executes, TypeOK, Progress, Handshake, Failed, Busy
<1>4. CASE Poll
  BY <1>0, <1>4 DEF Poll, Executes, TypeOK, Progress, Handshake, Failed, Busy
<1>5. CASE PollInner
  BY <1>0, <1>5 DEF PollInner, Executes, TypeOK, Progress, Handshake, Failed
<1>6. CASE Prepare
  BY <1>0, <1>6 DEF Prepare, Executes, TypeOK, Progress, Handshake, Failed, Quiet
<1>7. CASE Send
  <2>1. Asked \in Sectors
    BY <1>7, AskedType DEF Send, Executes, Progress
  <2>2. TypeOK' /\ Progress'
    BY <1>0, <1>7, <2>1 DEF Send, Executes, TypeOK, Progress
  <2>3. Handshake'
    BY <1>7 DEF Send, Executes, TypeOK, Handshake, Failed, Quiet, Asked
  <2> QED  BY <2>2, <2>3
<1>8. CASE Wait
  BY <1>0, <1>8
     DEF Wait, Executes, TypeOK, Progress, Handshake, Failed, Quiet, Asked
<1>9. CASE ReadData
  <2>1. pc = "read" /\ pc' = "read" /\ drive = "data" /\ sector = Asked
        /\ UNCHANGED <<file, i, sector, isIRQ14, running, setup>>
    BY <1>9 DEF ReadData, Executes, Handshake, Failed, Drq
  <2>2. /\ memory' = [memory EXCEPT ![i] = Asked]
        /\ drive' \in {"idle", "finishing"}
        /\ irq' \in BOOLEAN
    BY <1>9, <2>1 DEF ReadData, TypeOK
  <2>3. Asked \in Sectors
    BY <2>1, AskedType DEF Progress
  <2>4. TypeOK'
    BY <2>1, <2>2, <2>3 DEF TypeOK
  <2>5. Progress'
    <3>1. ASSUME NEW b \in Blocks, b < i, Reliable
          PROVE  memory'[b] = file.lba + b
      BY <1>0, <2>2, <3>1 DEF TypeOK, Progress
    <3>2. ASSUME NEW b \in Blocks
          PROVE  memory'[b] \in {file.lba + b, none}
      BY <1>0, <2>2 DEF TypeOK, Progress, Asked
    <3> QED  BY <2>1, <3>1, <3>2 DEF Progress
  <2>6. Handshake'
    <3>1. i \in Blocks => memory'[i] = Asked
      BY <2>2 DEF TypeOK
    <3> QED  BY <2>1, <2>2, <3>1 DEF Handshake, Failed, Asked
  <2> QED  BY <2>4, <2>5, <2>6
<1>10. CASE SectorDone
  <2>1. Reliable /\ i \in Blocks => memory[i] = file.lba + i
    BY <1>10 DEF SectorDone, Executes, Handshake, Drq, Asked, Failed
  <2>2. i + 1 \in Nat /\ i < ReadCount(file.size) /\ ReadCount(file.size) \in Nat
    BY <1>0, <1>10, ReadCountType DEF SectorDone, Executes, Progress
  <2>3. \A b \in Blocks : b \in Nat
    BY BlocksAreNumbers
  <2>4. Reliable => \A b \in Blocks : b < i + 1 => memory[b] = file.lba + b
    BY <1>0, <2>1, <2>3 DEF Progress
  <2>5. TypeOK' /\ Progress'
    BY <1>10, <2>2, <2>4 DEF SectorDone, Executes, TypeOK, Progress
  <2>6. Handshake'
    BY <1>10 DEF SectorDone, Executes, Handshake, Failed, Drq
  <2> QED  BY <2>5, <2>6
<1>11. CASE DriveAccepts
  <2>1. drive = "accepting" /\ UNCHANGED <<driver, sector, isIRQ14, running, setup>>
    BY <1>11 DEF DriveAccepts
  <2>2. drive' \in {"packet", "aborted"}
    BY <1>11 DEF DriveAccepts
  <2>3. irq' \in BOOLEAN
    <3>1. irq \in BOOLEAN /\ ("early" \in setup.habits) \in BOOLEAN
      BY DEF TypeOK
    <3>2. irq' \in {irq, "early" \in setup.habits} \/ irq' = TRUE
      BY <1>11 DEF DriveAccepts
    <3> QED  BY <3>1, <3>2
  <2>4. TypeOK'
    BY <2>1, <2>2, <2>3 DEF driver, TypeOK
  <2>5. Progress'
    BY <2>1 DEF driver, Progress
  <2>6. pc \in {"poll", "inner"}
    BY <2>1 DEF TypeOK, Handshake, Failed
  <2>7. Handshake'
    BY <2>1, <2>2, <2>6 DEF driver, Handshake, Failed
  <2> QED  BY <2>4, <2>5, <2>7
<1>12. CASE DriveAnswers
  BY <1>0, <1>12
     DEF DriveAnswers, driver, TypeOK, Progress, Handshake, Failed, Reliable,
         Quiet, Asked
<1>13. CASE DriveFinishes
  <2>1. /\ drive = "finishing" /\ drive' = "idle" /\ irq' = TRUE
        /\ UNCHANGED <<driver, sector, isIRQ14, running, setup>>
    BY <1>13 DEF DriveFinishes
  <2>2. TypeOK'
    BY <2>1 DEF driver, TypeOK
  <2>3. Progress'
    BY <2>1 DEF driver, Progress
  <2>4. Handshake'
    BY <2>1 DEF driver, TypeOK, Handshake, Failed, Quiet, Asked
  <2> QED  BY <2>2, <2>3, <2>4
<1>14. CASE Irq14
  <2>1. irq /\ irq' = FALSE /\ UNCHANGED <<driver, drive, sector, running, setup>>
    BY <1>14 DEF Irq14
  <2>2. isIRQ14' \in BOOLEAN
    BY <1>14 DEF Irq14, TypeOK
  <2>3. TypeOK'
    BY <2>1, <2>2 DEF driver, TypeOK
  <2>4. Progress'
    BY <2>1 DEF driver, Progress
  <2>5. Handshake'
    BY <2>1 DEF driver, Handshake, Failed, Quiet, Asked
  <2> QED  BY <2>3, <2>4, <2>5
<1>15. CASE Switch
  BY <1>0, <1>15
     DEF Switch, driver, TypeOK, Progress, Handshake, Failed, Quiet, Asked
<1>16. CASE UNCHANGED vars
  BY <1>0, <1>16
     DEF vars, TypeOK, Progress, Handshake, Failed, Quiet, Asked
<1> QED
  BY <1>1, <1>2, <1>3, <1>4, <1>5, <1>6, <1>7, <1>8, <1>9, <1>10, <1>11,
     <1>12, <1>13, <1>14, <1>15, <1>16 DEF Next, Driver, Drive

(* A drive that rejects no command and is not late asks for the packet     *)
(* before the driver gets on.                                              *)
Obedient == setup.habits \subseteq {"early", "fails"}
Asks ==
    Obedient =>
        /\ drive \notin {"aborted", "finishing"}
        /\ pc \in {"poll", "inner"} => drive \in {"accepting", "packet"}
        /\ pc \in {"prepare", "send"} => drive = "packet"

(* Every step keeps it.                                                    *)
LEMMA AsksStep ==
    ASSUME ReadInv, Asks, [Next]_vars
    PROVE  Asks'
<1> USE DEF Asks
<1>0. setup' = setup
  BY DEF Next, Driver, Drive, Open, Close, Command, Poll, PollInner, Prepare, Send,
         Wait, ReadData, SectorDone, DriveAccepts, DriveAnswers, DriveFinishes, Irq14,
         Switch, vars
<1>1. SUFFICES ASSUME Obedient, Obedient' PROVE Asks'
  BY <1>0 DEF Asks, Obedient
<1>2. \/ UNCHANGED <<pc, drive>>
      \/ (\E f \in Files : Open(f)) \/ Close \/ Command \/ Poll \/ PollInner
      \/ Prepare \/ Send \/ Wait \/ ReadData \/ SectorDone \/ Drive
  BY DEF Next, Driver, Irq14, Switch, vars, driver
<1>3. CASE (\E f \in Files : Open(f)) \/ Close \/ SectorDone
  BY <1>1, <1>3 DEF Open, Close, SectorDone
<1>4. CASE Command
  <2>1. drive \in {"idle", "failed"}
    BY <1>1, <1>4 DEF Command, Executes, ReadInv, Handshake, Failed
  <2> QED  BY <1>1, <1>4, <2>1 DEF Command, Busy
<1>5. CASE Poll \/ PollInner \/ Prepare
  BY <1>1, <1>5 DEF Poll, PollInner, Prepare, Executes, Busy
<1>6. CASE Send \/ Wait
  BY <1>1, <1>6 DEF Send, Wait, Executes
<1>7. CASE ReadData
  <2>1. pc' = "read" /\ drive' \in {drive, "idle"}
    BY <1>1, <1>7 DEF ReadData, Executes, Obedient
  <2> QED  BY <1>1, <2>1
<1>8. CASE Drive
  <2>1. /\ UNCHANGED pc
        /\ \/ drive = "accepting" /\ drive' = "packet"
           \/ drive = "seeking" /\ drive' \in {"data", "failed"}
    BY <1>1, <1>8 DEF Drive, DriveAccepts, DriveAnswers, DriveFinishes, driver, Obedient
  <2> QED  BY <1>1, <2>1 DEF ReadInv, TypeOK
<1> QED
  BY <1>1, <1>2, <1>3, <1>4, <1>5, <1>6, <1>7, <1>8

(* No packet is sent to a drive that has not asked for it, if the drive    *)
(* neither rejects a command nor is late.                                  *)
THEOREM PacketsAreAskedFor == Spec => []PacketWhenAsked
<1>1. Init => Asks
  BY DEF Init, Asks
<1>2. Asks => PacketWhenAsked
  BY DEF Asks, Obedient, PacketWhenAsked
<1>3. ReadInv /\ [Next]_vars => ReadInv'
  BY ReadStep
<1>4. ReadInv /\ Asks /\ [Next]_vars => Asks'
  BY AsksStep
<1> QED
  BY <1>1, <1>2, <1>3, <1>4, InitRead, PTL DEF Spec

(* Every part keeps its type, whatever the drive's habits.                 *)
THEOREM TypeCorrect == Spec => []TypeOK
<1>1. ReadInv => TypeOK
  BY DEF ReadInv
<1>2. ReadInv /\ [Next]_vars => ReadInv'
  BY ReadStep
<1> QED
  BY <1>1, <1>2, InitRead, PTL DEF Spec

(* No stale interrupt ends the wait for a packet's answer.                 *)
THEOREM WaitsForItsAnswer == Spec => []WaitIsAnswered
<1>1. ReadInv => WaitIsAnswered
  BY DEF ReadInv, Handshake, WaitIsAnswered, Failed
<1>2. ReadInv /\ [Next]_vars => ReadInv'
  BY ReadStep
<1> QED
  BY <1>1, <1>2, InitRead, PTL DEF Spec

(* No sector's data is in the place of another sector.                     *)
THEOREM SectorsKeepTheirPlaces == Spec => []SectorsInPlace
<1>1. ReadInv => SectorsInPlace
  BY DEF ReadInv, TypeOK, Progress, SectorsInPlace, Blocks
<1>2. ReadInv /\ [Next]_vars => ReadInv'
  BY ReadStep
<1> QED
  BY <1>1, <1>2, InitRead, PTL DEF Spec

(* A file that is returned is whole, whatever its size, if the drive does  *)
(* not fail to read.                                                       *)
THEOREM FilesAreWhole == Spec => []FileDelivered
<1>1. ReadInv => FileDelivered
  <2> SUFFICES ASSUME ReadInv, pc = "idle", Reliable, NEW b \in BlocksOf(file)
               PROVE  memory[b] = file.lba + b
    BY DEF FileDelivered, Reliable
  <2>1. file \in Files /\ file.size \in Nat /\ i \in Nat
    BY AtapiAssumption DEF ReadInv, TypeOK
  <2>2. PICK byte \in 0 .. file.size - 1 : b = byte \div SectorSize
    BY DEF BlocksOf
  <2>3. b < ReadCount(file.size) /\ ReadCount(file.size) \in Nat
    BY <2>1, <2>2, ByteIsRead, ReadCountType
  <2>4. b \in Int
    <3>1. SectorSize \in Nat /\ SectorSize > 0
      BY AtapiAssumption
    <3> QED  BY <2>1, <2>2, <3>1
  <2>5. b \in Blocks /\ b < i
    BY <2>1, <2>3, <2>4 DEF Blocks, ReadInv, Progress
  <2> QED  BY <2>5 DEF ReadInv, Progress, Reliable
<1>2. ReadInv /\ [Next]_vars => ReadInv'
  BY ReadStep
<1> QED
  BY <1>1, <1>2, InitRead, PTL DEF Spec

-----------------------------------------------------------------------------
(* The search for a name.                                                  *)

(* What the drives are made of.                                            *)
LEMMA DeviceTypes ==
    ASSUME machine \in Machines, NEW e \in Drives
    PROVE  /\ machine[e].kind \in {"none", "ata", "atapi", "mute"}
           /\ machine[e].pathTable \in Lbas
           /\ machine[e].root \in Lbas
           /\ machine[e].entries \in Seq(Entry)
           /\ Len(machine[e].entries) \in Nat
           /\ \A j \in 1..Len(machine[e].entries) :
                 /\ machine[e].entries[j].name \in Name
                 /\ machine[e].entries[j].lba \in Nat
                 /\ machine[e].entries[j].size \in Nat
<1>1. machine[e] \in Device
  BY Iso9660Assumption
<1>2. machine[e].entries \in Seq(Entry)
  BY <1>1 DEF Device
<1>3. \A j \in 1..Len(machine[e].entries) : machine[e].entries[j] \in Entry
  BY <1>2, ElementOfSeq
<1> QED
  BY <1>1, <1>2, <1>3, LenProperties DEF Device, Entry

(* The comparison of the driver says whether the name asked for begins     *)
(* with the entry's.                                                       *)
LEMMA MatchIsStartsWith ==
    ASSUME NEW a \in Names, NEW b \in Name
    PROVE  Match(a, b) <=> StartsWith(a, b)
<1>1. /\ a \in Seq(Nat) /\ b \in Seq(Nat)
      /\ Len(a) \in Nat /\ Len(b) \in Nat
      /\ Len(a) > 0 /\ Len(b) > 0
  BY Iso9660Assumption, LenProperties, EmptySeq DEF Name
<1>2. \A j \in 1..Len(a) : a[j] # NUL
  BY Iso9660Assumption
<1>3. ASSUME Match(a, b)
      PROVE  StartsWith(a, b)
  <2>1. \A n \in 0 .. Len(b) - 1 : At(a, n) = b[n + 1] /\ (n > 0 => b[n + 1] # NUL)
    <3> SUFFICES ASSUME NEW n \in 0 .. Len(b) - 1
                 PROVE  At(a, n) = b[n + 1] /\ (n > 0 => b[n + 1] # NUL)
      OBVIOUS
    <3>1. At(b, n) = b[n + 1]
      BY <1>1 DEF At
    <3> QED  BY <1>3, <3>1 DEF Match
  <2>2. Len(b) <= Len(a)
    <3> SUFFICES ASSUME Len(a) < Len(b)
                 PROVE  FALSE
      BY <1>1
    <3>1. Len(a) \in 0 .. Len(b) - 1 /\ Len(a) > 0
      BY <1>1
    <3>2. At(a, Len(a)) = NUL
      BY <1>1 DEF At
    <3> QED  BY <2>1, <3>1, <3>2
  <2>3. \A j \in 1..Len(b) : a[j] = b[j]
    <3> SUFFICES ASSUME NEW j \in 1..Len(b)
                 PROVE  a[j] = b[j]
      OBVIOUS
    <3>1. j - 1 \in 0 .. Len(b) - 1 /\ (j - 1) + 1 = j /\ j - 1 < Len(a)
      BY <1>1, <2>2
    <3>2. At(a, j - 1) = a[j]
      BY <3>1 DEF At
    <3>3. At(a, j - 1) = b[(j - 1) + 1]
      BY <2>1, <3>1
    <3> QED  BY <3>1, <3>2, <3>3
  <2>4. \A j \in 1..Len(b) : a[j] \in Nat
    BY <1>1, <2>2, ElementOfSeq
  <2>5. /\ SubSeq(a, 1, Len(b)) \in Seq(Nat)
        /\ Len(SubSeq(a, 1, Len(b))) = Len(b)
        /\ \A j \in 1..Len(b) : SubSeq(a, 1, Len(b))[j] = a[j]
    BY <1>1, <2>2, <2>4
  <2>6. b = SubSeq(a, 1, Len(b))
    BY <1>1, <2>3, <2>5, SeqEqual
  <2> QED  BY <2>2, <2>6 DEF StartsWith
<1>4. ASSUME StartsWith(a, b)
      PROVE  Match(a, b)
  <2>1. Len(b) <= Len(a) /\ b = SubSeq(a, 1, Len(b))
    BY <1>4 DEF StartsWith
  <2>2. \A j \in 1..Len(b) : b[j] = a[j]
    <3>1. \A j \in 1..Len(b) : SubSeq(a, 1, Len(b))[j] = a[j]
      BY <1>1, <2>1
    <3> QED  BY <2>1, <3>1
  <2> SUFFICES ASSUME NEW n \in 0 .. Len(b) - 1
               PROVE  At(a, n) = At(b, n) /\ (n > 0 => At(b, n) # NUL)
    BY DEF Match
  <2>3. n + 1 \in 1..Len(b) /\ n + 1 \in 1..Len(a) /\ n < Len(b) /\ n < Len(a)
    BY <1>1, <2>1
  <2>4. At(a, n) = a[n + 1] /\ At(b, n) = b[n + 1]
    BY <2>3 DEF At
  <2> QED  BY <1>2, <2>2, <2>3, <2>4
<1> QED
  BY <1>3, <1>4

----------------------------------------------------------------------------

(* What is known of the drives while they are detected and afterwards.     *)
Detected ==
    /\ \A e \in Drives :
          stage \notin {"detect", "non_ata"} \/ e < d =>
             (drives[e] = "ATAPI" <=> machine[e].kind = "atapi")
    /\ stage \in {"detect", "non_ata"} =>
          \A e \in Drives : e >= d => drives[e] = "NONE"
    /\ stage \in {"path_table", "root"} => drives[d] = "ATAPI"

(* Every sector was found through the one before it.                       *)
Chained ==
    steady => /\ stage = "path_table" => primaryVolumeDescriptor = Sector(d, 16)
              /\ stage = "root" => pathTable = Sector(d, machine[d].pathTable)

(* The root directory kept is that of the CD-ROM initialised last.         *)
LastBefore(e) ==
    /\ e < d
    /\ machine[e].kind = "atapi"
    /\ \A f \in Drives : e < f /\ f < d => machine[f].kind # "atapi"
LatestRoot ==
    steady /\ stage \notin {"detect", "non_ata"} =>
       \A e \in Drives : LastBefore(e) => Searches(e)

(* A search comes after all drives, and no entry it has passed fits.       *)
Passed ==
    /\ stage \in {"search", "returned"} => d \notin Drives /\ fileDir \in Names
    /\ stage = "search" =>
          \A e \in Drives : Searches(e) =>
             \A j \in 1..Len(machine[e].entries) :
                j < entry => ~StartsWith(fileDir, machine[e].entries[j].name)

Inv == DiscTypeOK /\ Detected /\ Chained /\ LatestRoot /\ Passed /\ FileIsFirstMatch

(* Two drives' sectors are different sectors.                              *)
LEMMA SectorOfDrive ==
    \A e, f, k, l : Sector(e, k) = Sector(f, l) => e = f /\ k = l
  BY DEF Sector

(* The root directory searched is one drive's.                             *)
LEMMA OneSearched ==
    \A e, f \in Drives : Searches(e) /\ Searches(f) => e = f
  BY DEF Searches, Sector

(* A sector read is a buffer's new contents.                               *)
LEMMA ReadTypes ==
    ASSUME NEW b, NEW lba \in Lbas, d \in Drives,
           b = Sector(d, lba) \/ b = Unread
    PROVE  b \in Buffer
  BY DEF Buffer

(* The places a volume descriptor and a path table may name.               *)
LEMMA PlaceTypes ==
    ASSUME machine \in Machines, NEW b
    PROVE  PathTableIn(b) \subseteq Lbas /\ RootIn(b) \subseteq Lbas
  BY DeviceTypes DEF PathTableIn, RootIn

(* A volume descriptor and a path table name the places their disc has.    *)
LEMMA PlaceOfDisc ==
    ASSUME NEW e \in Drives
    PROVE  /\ PathTableIn(Sector(e, 16)) = {machine[e].pathTable}
           /\ RootIn(Sector(e, machine[e].pathTable)) = {machine[e].root}
<1>1. {f \in Drives : Sector(e, 16) = Sector(f, 16)} = {e}
  BY SectorOfDrive
<1>2. PathTableIn(Sector(e, 16)) = {machine[f].pathTable : f \in {e}}
  BY <1>1 DEF PathTableIn
<1>3. {f \in Drives : Sector(e, machine[e].pathTable)
                         = Sector(f, machine[f].pathTable)} = {e}
  BY SectorOfDrive
<1>4. RootIn(Sector(e, machine[e].pathTable)) = {machine[f].root : f \in {e}}
  BY <1>3 DEF RootIn
<1> QED
  BY <1>2, <1>4

----------------------------------------------------------------------------

(* The invariant holds at first.                                           *)
LEMMA InvInit == DiscInit => Inv
<1> SUFFICES ASSUME DiscInit PROVE Inv
  OBVIOUS
<1> USE DEF DiscInit
<1>1. DiscTypeOK
  BY DEF DiscTypeOK, Buffer, NoFile, Drives
<1>2. Detected
  BY DEF Detected, Drives
<1> QED
  BY <1>1, <1>2 DEF Inv, Chained, LatestRoot, Passed, FileIsFirstMatch

(* Every step keeps the types.                                             *)
LEMMA TypeStep == DiscTypeOK /\ Passed /\ [DiscNext]_discVars => DiscTypeOK'
<1> SUFFICES ASSUME DiscTypeOK, Passed, [DiscNext]_discVars PROVE DiscTypeOK'
  OBVIOUS
<1>0. 16 \in Lbas
  BY Iso9660Assumption
<1>1. CASE DetectDriveType
  BY <1>1 DEF DetectDriveType, DiscTypeOK, buffers, search, Drives
<1>2. CASE DetectNonAta
  BY <1>2 DEF DetectNonAta, DiscTypeOK, buffers, search, Drives
<1>3. CASE DetectDone
  BY <1>3 DEF DetectDone, DiscTypeOK, buffers, search, Drives
<1>4. CASE SkipDrive
  BY <1>4 DEF SkipDrive, DiscTypeOK, buffers, search, Drives
<1>5. CASE ReadDescriptor
  <2>1. primaryVolumeDescriptor' \in Buffer /\ steady' \in BOOLEAN
    <3>1. /\ d \in Drives
          /\ primaryVolumeDescriptor' = Sector(d, 16)
                \/ primaryVolumeDescriptor' = Unread
          /\ steady' = steady \/ steady' = FALSE
      BY <1>5 DEF ReadDescriptor, ReadSector
    <3> QED  BY <1>0, <3>1, ReadTypes DEF DiscTypeOK
  <2> QED  BY <1>5, <2>1 DEF ReadDescriptor, DiscTypeOK, search
<1>6. CASE ReadPathTable
  <2>1. PICK lba \in PathTableIn(primaryVolumeDescriptor) : ReadSector(pathTable, lba)
    BY <1>6 DEF ReadPathTable
  <2>2. pathTable' \in Buffer /\ steady' \in BOOLEAN
    <3>1. lba \in Lbas /\ d \in Drives
      BY <1>6, PlaceTypes DEF ReadPathTable, DiscTypeOK
    <3>2. /\ pathTable' = Sector(d, lba) \/ pathTable' = Unread
          /\ steady' = steady \/ steady' = FALSE
      BY <2>1 DEF ReadSector
    <3> QED  BY <3>1, <3>2, ReadTypes DEF DiscTypeOK
  <2> QED  BY <1>6, <2>2 DEF ReadPathTable, DiscTypeOK, search
<1>7. CASE ReadRoot
  <2>1. PICK lba \in RootIn(pathTable) : ReadSector(rootExtent, lba)
    BY <1>7 DEF ReadRoot
  <2>2. rootExtent' \in Buffer /\ steady' \in BOOLEAN
    <3>1. lba \in Lbas /\ d \in Drives
      BY <1>7, PlaceTypes DEF ReadRoot, DiscTypeOK
    <3>2. /\ rootExtent' = Sector(d, lba) \/ rootExtent' = Unread
          /\ steady' = steady \/ steady' = FALSE
      BY <2>1 DEF ReadSector
    <3> QED  BY <3>1, <3>2, ReadTypes DEF DiscTypeOK
  <2> QED  BY <1>7, <2>2 DEF ReadRoot, DiscTypeOK, search, Drives
<1>8. CASE ReadFile
  BY <1>8 DEF ReadFile, DiscTypeOK, buffers
<1>9. CASE LookEnd
  BY <1>9 DEF LookEnd, DiscTypeOK, buffers, NoFile
<1>10. CASE LookMatch
  <2>1. PICK e \in Drives :
           /\ entry <= Len(machine[e].entries)
           /\ result' = [found |-> TRUE, lba |-> machine[e].entries[entry].lba,
                       size |-> machine[e].entries[entry].size]
    BY <1>10 DEF LookMatch
  <2>2. entry \in 1..Len(machine[e].entries)
    BY <2>1, DeviceTypes DEF DiscTypeOK
  <2>3. result' \in [found : BOOLEAN, lba : Nat, size : Nat]
    BY <2>1, <2>2, DeviceTypes DEF DiscTypeOK
  <2> QED  BY <1>10, <2>3 DEF LookMatch, DiscTypeOK, buffers
<1>11. CASE LookNext
  BY <1>11 DEF LookNext, DiscTypeOK, buffers
<1>12. CASE LookAstray
  <2>1. \A k \in Lbas : k \in Nat
    BY Iso9660Assumption
  <2>2. result' \in [found : BOOLEAN, lba : Nat, size : Nat]
    <3>1. NoFile \in [found : BOOLEAN, lba : Nat, size : Nat]
      BY DEF NoFile
    <3>2. \/ result' = NoFile
          \/ \E lba \in Lbas, size \in {0, 1} :
                result' = [found |-> TRUE, lba |-> lba, size |-> size]
      BY <1>12 DEF LookAstray
    <3>3. ASSUME NEW lba \in Lbas, NEW size \in {0, 1},
                 result' = [found |-> TRUE, lba |-> lba, size |-> size]
          PROVE  result' \in [found : BOOLEAN, lba : Nat, size : Nat]
      BY <2>1, <3>3
    <3> QED  BY <3>1, <3>2, <3>3
  <2> QED  BY <1>12, <2>2 DEF LookAstray, DiscTypeOK, buffers
<1>13. CASE UNCHANGED discVars
  BY <1>13 DEF discVars, DiscTypeOK
<1> QED
  BY <1>1, <1>2, <1>3, <1>4, <1>5, <1>6, <1>7, <1>8, <1>9, <1>10, <1>11, <1>12,
     <1>13 DEF DiscNext, Enumerate, Look

(* Every step keeps what is known of the drives.                           *)
LEMMA DetectedStep == DiscTypeOK /\ Detected /\ [DiscNext]_discVars => Detected'
<1> SUFFICES ASSUME DiscTypeOK, Detected, [DiscNext]_discVars PROVE Detected'
  OBVIOUS
<1>0. d \in 0..4 /\ drives \in [Drives -> {"NONE", "ATA", "ATAPI"}]
  BY DEF DiscTypeOK
<1>1. CASE DetectDriveType
  BY <1>0, <1>1 DEF DetectDriveType, Detected, Drives
<1>2. CASE DetectNonAta
  BY <1>0, <1>2 DEF DetectNonAta, Detected, Drives, DiscTypeOK
<1>3. CASE DetectDone
  BY <1>0, <1>3 DEF DetectDone, Detected, Drives
<1>4. CASE SkipDrive \/ ReadDescriptor \/ ReadPathTable \/ ReadRoot \/ ReadFile \/ Look
  <2>1. /\ stage \notin {"detect", "non_ata"} /\ stage' \notin {"detect", "non_ata"}
        /\ UNCHANGED <<machine, drives>>
    BY <1>4 DEF SkipDrive, ReadDescriptor, ReadPathTable, ReadRoot, ReadFile, Look,
                LookEnd, LookMatch, LookNext, LookAstray, Astray
  <2>2. stage' \in {"path_table", "root"} => d' = d /\ drives[d] = "ATAPI"
    BY <1>4 DEF SkipDrive, ReadDescriptor, ReadPathTable, ReadRoot, ReadFile, Look,
                LookEnd, LookMatch, LookNext, LookAstray, Astray, Detected
  <2> QED  BY <2>1, <2>2 DEF Detected
<1>5. CASE UNCHANGED discVars
  BY <1>5 DEF discVars, Detected
<1> QED
  BY <1>1, <1>2, <1>3, <1>4, <1>5 DEF DiscNext, Enumerate

(* Every sector is found through the one before it.                        *)
LEMMA ChainedStep == DiscTypeOK /\ Chained /\ [DiscNext]_discVars => Chained'
<1> SUFFICES ASSUME DiscTypeOK, Chained, [DiscNext]_discVars, steady'
             PROVE  /\ stage' = "path_table" =>
                          primaryVolumeDescriptor' = Sector(d', 16)
                    /\ stage' = "root" =>
                          pathTable' = Sector(d', machine'[d'].pathTable)
  BY DEF Chained
<1>1. CASE ReadDescriptor
  BY <1>1 DEF ReadDescriptor, ReadSector
<1>2. CASE ReadPathTable
  <2>1. PICK lba \in PathTableIn(primaryVolumeDescriptor) : ReadSector(pathTable, lba)
    BY <1>2 DEF ReadPathTable
  <2>2. steady /\ pathTable' = Sector(d, lba)
    BY <2>1 DEF ReadSector
  <2>3. primaryVolumeDescriptor = Sector(d, 16) /\ d \in Drives
    BY <1>2, <2>2 DEF ReadPathTable, Chained, DiscTypeOK
  <2>4. lba = machine[d].pathTable
    BY <2>1, <2>3, PlaceOfDisc
  <2> QED  BY <1>2, <2>2, <2>4 DEF ReadPathTable
<1>3. CASE DetectDriveType \/ DetectNonAta \/ DetectDone \/ SkipDrive
           \/ ReadRoot \/ ReadFile \/ Look
  BY <1>3 DEF DetectDriveType, DetectNonAta, DetectDone, SkipDrive, ReadRoot, ReadFile,
              Look, LookEnd, LookMatch, LookNext, LookAstray, Astray
<1>4. CASE UNCHANGED discVars
  BY <1>4 DEF discVars, Chained
<1> QED
  BY <1>1, <1>2, <1>3, <1>4 DEF DiscNext, Enumerate

(* The root directory kept is that of the CD-ROM initialised last.         *)
LEMMA LatestStep ==
    DiscTypeOK /\ Detected /\ Chained /\ LatestRoot /\ [DiscNext]_discVars => LatestRoot'
<1> SUFFICES ASSUME DiscTypeOK, Detected, Chained, LatestRoot, [DiscNext]_discVars,
                    steady', stage' \notin {"detect", "non_ata"},
                    NEW e \in Drives, LastBefore(e)'
             PROVE  Searches(e)'
  BY DEF LatestRoot
<1>0. d \in 0..4 /\ e \in 0..3
  BY DEF DiscTypeOK, Drives
<1>1. CASE DetectDone
  BY <1>0, <1>1 DEF DetectDone, LastBefore
<1>2. CASE SkipDrive
  <2>1. machine[d].kind # "atapi" /\ d \in Drives
    BY <1>2 DEF SkipDrive, Detected
  <2>2. d' = d + 1 /\ stage = "init" /\ UNCHANGED <<machine, rootExtent, steady>>
    BY <1>2 DEF SkipDrive, buffers
  <2>3. e < d + 1 /\ machine[e].kind = "atapi"
        /\ \A f \in Drives : e < f /\ f < d + 1 => machine[f].kind # "atapi"
    BY <2>2 DEF LastBefore
  <2>4. e < d
    BY <1>0, <2>1, <2>3
  <2>5. LastBefore(e)
    BY <1>0, <2>3, <2>4 DEF LastBefore, Drives
  <2> QED  BY <2>2, <2>5 DEF LatestRoot, Searches
<1>3. CASE ReadDescriptor \/ ReadPathTable
  <2>1. /\ stage \notin {"detect", "non_ata"}
        /\ UNCHANGED <<machine, d, rootExtent>>
        /\ steady
    BY <1>3 DEF ReadDescriptor, ReadPathTable, ReadSector
  <2>2. LastBefore(e)
    BY <2>1 DEF LastBefore
  <2> QED  BY <2>1, <2>2 DEF LatestRoot, Searches
<1>4. CASE ReadRoot
  <2>1. PICK lba \in RootIn(pathTable) : ReadSector(rootExtent, lba)
    BY <1>4 DEF ReadRoot
  <2>2. steady /\ rootExtent' = Sector(d, lba)
    BY <2>1 DEF ReadSector
  <2>3. pathTable = Sector(d, machine[d].pathTable) /\ d \in Drives
    BY <1>4, <2>2 DEF ReadRoot, Chained, DiscTypeOK
  <2>4. lba = machine[d].root
    BY <2>1, <2>3, PlaceOfDisc
  <2>5. d' = d + 1 /\ machine' = machine
    BY <1>4 DEF ReadRoot
  <2>6. machine[d].kind = "atapi"
    BY <1>4, <2>3 DEF ReadRoot, Detected
  <2>7. e < d + 1 /\ ~(e < d)
    BY <1>0, <2>3, <2>5, <2>6 DEF LastBefore, Drives
  <2>8. e = d
    BY <1>0, <2>7
  <2> QED  BY <2>2, <2>4, <2>5, <2>8 DEF Searches
<1>5. CASE ReadFile \/ Look
  <2>1. /\ stage \notin {"detect", "non_ata"}
        /\ UNCHANGED <<machine, d, rootExtent, steady>>
    BY <1>5 DEF ReadFile, Look, LookEnd, LookMatch, LookNext, LookAstray, Astray,
                buffers
  <2>2. LastBefore(e)
    BY <2>1 DEF LastBefore
  <2> QED  BY <2>1, <2>2 DEF LatestRoot, Searches
<1>6. CASE DetectDriveType \/ DetectNonAta
  BY <1>6 DEF DetectDriveType, DetectNonAta
<1>7. CASE UNCHANGED discVars
  <2>1. /\ stage \notin {"detect", "non_ata"} /\ steady /\ LastBefore(e)
    BY <1>7 DEF discVars, LastBefore
  <2> QED  BY <1>7, <2>1 DEF discVars, LatestRoot, Searches
<1> QED
  BY <1>1, <1>2, <1>3, <1>4, <1>5, <1>6, <1>7 DEF DiscNext, Enumerate

(* No entry a search has passed is one it should have stopped at.          *)
LEMMA PassedStep == DiscTypeOK /\ Passed /\ [DiscNext]_discVars => Passed'
<1> SUFFICES ASSUME DiscTypeOK, Passed, [DiscNext]_discVars PROVE Passed'
  OBVIOUS
<1>1. CASE Enumerate
  <2>1. stage' \notin {"search", "returned"}
    BY <1>1 DEF Enumerate, DetectDriveType, DetectNonAta, DetectDone, SkipDrive,
                ReadDescriptor, ReadPathTable, ReadRoot
  <2> QED  BY <2>1 DEF Passed
<1>2. CASE ReadFile
  <2>1. d' \notin Drives /\ fileDir' \in Names /\ entry' = 1
    BY <1>2 DEF ReadFile
  <2>2. \A j \in Nat : j < 1 => j = 0
    OBVIOUS
  <2>3. ASSUME NEW e \in Drives, NEW j \in 1..Len(machine'[e].entries)
        PROVE  ~(j < entry')
    BY <2>1
  <2> QED  BY <2>1, <2>3 DEF Passed
<1>3. CASE LookNext
  <2>1. PICK e \in Drives :
           /\ Searches(e) /\ entry <= Len(machine[e].entries)
           /\ ~Match(fileDir, machine[e].entries[entry].name)
    BY <1>3 DEF LookNext
  <2>2. stage = "search" /\ stage' = "search" /\ entry' = entry + 1
        /\ UNCHANGED <<machine, d, rootExtent, fileDir>>
    BY <1>3 DEF LookNext, buffers
  <2>3. fileDir \in Names /\ d \notin Drives
    BY <2>2 DEF Passed
  <2>4. entry \in 1..Len(machine[e].entries) /\ entry \in Nat
    BY <2>1, DeviceTypes DEF DiscTypeOK
  <2>5. ~StartsWith(fileDir, machine[e].entries[entry].name)
    BY <2>1, <2>3, <2>4, MatchIsStartsWith, DeviceTypes DEF DiscTypeOK
  <2>6. ASSUME NEW f \in Drives, Searches(f),
               NEW j \in 1..Len(machine[f].entries), j < entry + 1
        PROVE  ~StartsWith(fileDir, machine[f].entries[j].name)
    <3>1. f = e
      BY <2>1, <2>6, OneSearched
    <3>2. j = entry \/ j < entry
      BY <2>4, <2>6
    <3> QED  BY <2>2, <2>5, <2>6, <3>1, <3>2 DEF Passed
  <2>7. \A f \in Drives : Searches(f)' <=> Searches(f)
    BY <2>2 DEF Searches
  <2> QED  BY <2>2, <2>3, <2>6, <2>7 DEF Passed
<1>4. CASE LookEnd \/ LookMatch \/ LookAstray
  <2>1. stage = "search" /\ stage' = "returned" /\ UNCHANGED <<d, fileDir>>
    BY <1>4 DEF LookEnd, LookMatch, LookAstray, Astray
  <2> QED  BY <2>1 DEF Passed
<1>5. CASE UNCHANGED discVars
  BY <1>5 DEF discVars, Passed, Searches
<1> QED
  BY <1>1, <1>2, <1>3, <1>4, <1>5 DEF DiscNext, Look

(* A search that ends has found the first entry that fits, or there is     *)
(* none.                                                                   *)
LEMMA MatchStep ==
    DiscTypeOK /\ LatestRoot /\ Passed /\ FileIsFirstMatch /\ [DiscNext]_discVars
       => FileIsFirstMatch'
<1> SUFFICES ASSUME DiscTypeOK, LatestRoot, Passed, FileIsFirstMatch, [DiscNext]_discVars
             PROVE  FileIsFirstMatch'
  OBVIOUS
<1>1. CASE Enumerate \/ ReadFile \/ LookNext
  <2>1. stage' # "returned"
    BY <1>1 DEF Enumerate, DetectDriveType, DetectNonAta, DetectDone, SkipDrive,
                ReadDescriptor, ReadPathTable, ReadRoot, ReadFile, LookNext
  <2> QED  BY <2>1 DEF FileIsFirstMatch
<1>2. CASE UNCHANGED discVars
  BY <1>2 DEF discVars, FileIsFirstMatch, LastDisc
<1>3. CASE LookEnd \/ LookMatch \/ LookAstray
  <2> DEFINE root(e) == machine[e].entries
             Fit(e, j) == StartsWith(fileDir, root(e)[j].name)
  <2>1. stage = "search" /\ UNCHANGED <<machine, fileDir, steady>>
    BY <1>3 DEF LookEnd, LookMatch, LookAstray, Astray
  <2>2. fileDir \in Names /\ d = 4
    BY <2>1 DEF Passed, DiscTypeOK, Drives
  <2> SUFFICES ASSUME steady, NEW e \in Drives, LastDisc(e)
               PROVE  \/ /\ ~result'.found
                         /\ \A j \in 1..Len(root(e)) : ~Fit(e, j)
                      \/ \E j \in 1..Len(root(e)) :
                            /\ Fit(e, j)
                            /\ \A k \in 1 .. j - 1 : ~Fit(e, k)
                            /\ result' = [found |-> TRUE, lba |-> root(e)[j].lba,
                                        size |-> root(e)[j].size]
    BY <2>1 DEF FileIsFirstMatch, LastDisc
  <2>3. Searches(e)
    <3>1. LastBefore(e)
      BY <2>2 DEF LastDisc, LastBefore, Drives
    <3> QED  BY <2>1, <3>1 DEF LatestRoot
  <2>4. \A f \in Drives : Searches(f) => f = e
    BY <2>3, OneSearched
  <2>5. \A j \in 1..Len(root(e)) : j < entry => ~Fit(e, j)
    BY <2>1, <2>3 DEF Passed
  <2>6. Len(root(e)) \in Nat /\ entry \in Nat \ {0}
    BY DeviceTypes DEF DiscTypeOK
  <2>7. CASE LookEnd
    <3>1. entry > Len(root(e)) /\ result' = NoFile
      BY <2>4, <2>7 DEF LookEnd
    <3>2. \A j \in 1..Len(root(e)) : j < entry
      BY <2>6, <3>1
    <3>3. ~result'.found
      BY <3>1 DEF NoFile
    <3> QED  BY <2>5, <3>2, <3>3
  <2>8. CASE LookMatch
    <3>1. /\ entry <= Len(root(e))
          /\ Match(fileDir, root(e)[entry].name)
          /\ result' = [found |-> TRUE, lba |-> root(e)[entry].lba,
                      size |-> root(e)[entry].size]
      BY <2>4, <2>8 DEF LookMatch
    <3>2. entry \in 1..Len(root(e))
      BY <2>6, <3>1
    <3>3. root(e)[entry].name \in Name
      BY <3>2, DeviceTypes DEF DiscTypeOK
    <3>4. Fit(e, entry)
      BY <2>2, <3>1, <3>3, MatchIsStartsWith
    <3>5. \A k \in 1 .. entry - 1 : k \in 1..Len(root(e)) /\ k < entry
      BY <2>6, <3>2
    <3> HIDE DEF Fit
    <3> QED  BY <2>5, <3>1, <3>2, <3>4, <3>5
  <2>9. CASE LookAstray
    BY <2>3, <2>9 DEF LookAstray, Astray
  <2> QED  BY <1>3, <2>7, <2>8, <2>9
<1> QED
  BY <1>1, <1>2, <1>3 DEF DiscNext, Look

----------------------------------------------------------------------------

(* Every step keeps it.                                                    *)
LEMMA InvStep == Inv /\ [DiscNext]_discVars => Inv'
  BY TypeStep, DetectedStep, ChainedStep, LatestStep, PassedStep, MatchStep DEF Inv

(* So it always holds.                                                     *)
LEMMA Invariance == DiscSpec => []Inv
  BY InvInit, InvStep, PTL DEF DiscSpec

(* Enumeration and search keep their types with any drives, discs and      *)
(* names (enumerate_drives, atapi_iso9660_init, atapi_read_file).          *)
THEOREM DiscTypeCorrect == DiscSpec => []DiscTypeOK
<1>1. Inv => DiscTypeOK
  BY DEF Inv
<1> QED
  BY <1>1, Invariance, PTL

(* Unless a read fails, atapi_read_file returns the first entry of the     *)
(* last CD-ROM's root directory that the name asked for begins with, and   *)
(* nothing only if there is none, whatever the directory holds.            *)
THEOREM FirstMatchIsFound == DiscSpec => []FileIsFirstMatch
<1>1. Inv => FileIsFirstMatch
  BY DEF Inv
<1> QED
  BY <1>1, Invariance, PTL
=============================================================================
