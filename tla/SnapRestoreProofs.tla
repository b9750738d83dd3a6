-------------------------- MODULE SnapRestoreProofs --------------------------
(***************************************************************************)
(* Proofs about SnapRestore, for every set of observed pages, every bound  *)
(* on the epochs and every set of faults.                                  *)
(***************************************************************************)
EXTENDS SnapRestore, TLAPS

\* What OVMF leaves in a page is the contents of a page.
LEMMA FirmwareType == Firmware \in PageContent
<1>1. NumPages \in Nat /\ NumPages > 0 /\ 0 \in Epochs
  BY LayoutAssumption, ConstantsAssumption DEF Epochs
<1> QED
  BY <1>1 DEF Firmware, PageContent

\* A load puts the pages of a part, which pmemload counts in bytes, back to the
\* frames they were cut out of, as far as the file goes.
LEMMA LoadedFrames ==
  ASSUME NEW d, d.len \in Nat, NEW p \in Pages
  PROVE  /\ p < HoleFirst /\ d.len = Dd1Count => Loaded(d, Part1)[p] = PageIn(d, p)
         /\ HoleEnd <= p /\ d.len = Dd2Count => Loaded(d, Part2)[p] = PageIn(d, p)
         /\ HoleFirst <= p => Loaded(d, Part1)[p] = mem[p]
         /\ p < HoleEnd => Loaded(d, Part2)[p] = mem[p]
         /\ Loaded(d, Part1)[p] \in {mem[p], PageIn(d, p)}
         /\ Loaded(d, Part2)[p] \in {mem[p], PageIn(d, p)}
<1> USE LayoutAssumption DEF PAGE
<1>1. p \in Int /\ 0 <= p /\ p < NumPages
  BY ConstantsAssumption
<1>2. /\ p * PAGE < Part1.val + Part1.size <=> p < HoleFirst
      /\ Part1.val <= p * PAGE
      /\ PageOf(p, Part1) = p /\ PageOf(p, Part1) + Part1.skip = p
  BY <1>1 DEF Part1, PageOf
<1>3. /\ Part2.val <= p * PAGE <=> HoleEnd <= p
      /\ p * PAGE < Part2.val + Part2.size
      /\ PageOf(p, Part2) = p - HoleEnd /\ PageOf(p, Part2) + Part2.skip = p
  BY <1>1 DEF Part2, PageOf
<1>4. Loaded(d, Part1)[p] = IF p < HoleFirst /\ p < d.len
                            THEN PageIn(d, p) ELSE mem[p]
  BY <1>2 DEF Loaded
<1>5. Loaded(d, Part2)[p] = IF HoleEnd <= p /\ p - HoleEnd < d.len
                            THEN PageIn(d, p) ELSE mem[p]
  BY <1>3 DEF Loaded
<1> QED
  BY <1>1, <1>4, <1>5

\* The result of a load is a memory of the target.
LEMMA LoadedType ==
  ASSUME TypeOK, NEW d \in Dump, NEW part \in {Part1, Part2}
  PROVE  Loaded(d, part) \in [Pages -> PageContent]
<1> SUFFICES ASSUME NEW p \in Pages
             PROVE  Loaded(d, part)[p] \in PageContent
  BY DEF Loaded
<1>1. d.len \in Nat
  BY LayoutAssumption DEF Dump
<1>2. Loaded(d, part)[p] \in {mem[p], PageIn(d, p)}
  BY <1>1, LoadedFrames
<1>3. PageIn(d, p) \in PageContent
  BY ConstantsAssumption DEF PageIn, PageContent, Dump
<1> QED
  BY <1>2, <1>3 DEF TypeOK

\* A part never reaches into the hole.
LEMMA LoadedHole ==
  ASSUME NEW d \in Dump, NEW part \in {Part1, Part2}, NEW p \in Hole
  PROVE  Loaded(d, part)[p] = mem[p]
<1>1. p \in Pages /\ HoleFirst <= p /\ p < HoleEnd /\ d.len \in Nat
  BY LayoutAssumption DEF Hole, Dump
<1> QED
  BY <1>1, LoadedFrames

\* What reaches the disk is a dump of the same epoch, whole when the disk is not
\* full.
LEMMA WrittenDump ==
  ASSUME NEW d \in Dump, NEW w \in Written(d)
  PROVE  /\ w \in Dump /\ w.epoch = d.epoch /\ w.linux = d.linux
         /\ ~May("short") => w = d
BY ConstantsAssumption, LayoutAssumption DEF Written, Dump

\* And so is a part of it; a part of a whole dump has the length dd was told.
LEMMA CutDump ==
  ASSUME NEW d \in Dump, NEW part \in {Part1, Part2}
  PROVE  /\ Cut(d, part) \in Dump /\ Cut(d, part).epoch = d.epoch
         /\ d.len = NumPages => Cut(d, part).len = part.count
<1>1. d.len \in 0..NumPages /\ part.skip \in Nat /\ part.count \in Nat
        /\ part.skip + part.count <= NumPages /\ NumPages \in Nat
  BY LayoutAssumption DEF Dump, Part1, Part2
<1> DEFINE n == IF d.len < part.skip THEN 0
                ELSE IF d.len - part.skip < part.count THEN d.len - part.skip
                ELSE part.count
<1>2. n \in 0..NumPages /\ (d.len = NumPages => n = part.count)
  BY <1>1
<1>3. Cut(d, part) = [d EXCEPT !.len = n]
  BY DEF Cut
<1> HIDE DEF n
<1> QED
  BY <1>2, <1>3 DEF Dump

\* The files that stay as they are while a dump is written.
OtherFiles == <<file.dev, file.qemu, file.gen, file.blob, file.cpu>>

\* What pmemsave leaves: a dump of the source as it stands, or no file.
LEMMA PmemSaved ==
  ASSUME TypeOK, PmemSave
  PROVE  /\ file' \in Files /\ UNCHANGED <<file.part1, file.part2, OtherFiles>>
         /\ \/ file'.dump = file.dump /\ May("pmemsave")
            \/ /\ file'.dump.epoch = epoch
               /\ ~May("short") => file'.dump.len = NumPages
<1> DEFINE d == [epoch |-> epoch, linux |-> stage = "linux",
                 len |-> NumPages, nx |-> FALSE, tss |-> FALSE]
<1>1. d \in Dump /\ d.epoch = epoch /\ d.len = NumPages
  BY LayoutAssumption DEF Dump, TypeOK
<1>2. \/ \E w \in Written(d) : file' = [file EXCEPT !.dump = w]
      \/ May("pmemsave") /\ file' = file
  BY DEF PmemSave
<1> HIDE DEF d
<1>3. CASE file' = file /\ May("pmemsave")
  BY <1>3 DEF TypeOK, OtherFiles
<1>4. ASSUME NEW w \in Written(d), file' = [file EXCEPT !.dump = w]
      PROVE  /\ file' \in Files /\ file'.dump = w
             /\ UNCHANGED <<file.part1, file.part2, OtherFiles>>
  BY <1>1, <1>4, WrittenDump DEF TypeOK, Files, OtherFiles
<1> QED
  BY <1>1, <1>2, <1>3, <1>4, WrittenDump

\* What modify-mem-dump leaves: the same dump but for the patches.
LEMMA DumpModified ==
  ASSUME TypeOK, ModifyMemDump
  PROVE  /\ file' \in Files /\ UNCHANGED <<file.part1, file.part2, OtherFiles>>
         /\ \/ file'.dump = file.dump
            \/ /\ file.dump # NoDump
               /\ file'.dump.epoch = file.dump.epoch
               /\ file'.dump.len = file.dump.len
<1>1. file.dump \in Dump
  BY DEF TypeOK, Files
<1>2. CASE file.dump = NoDump
  BY <1>2 DEF ModifyMemDump, TypeOK, OtherFiles
<1>3. CASE file.dump # NoDump
  <2> DEFINE Same(d) == d \in Dump /\ d.epoch = file.dump.epoch /\ d.len = file.dump.len
  <2>1. ASSUME file' = [file EXCEPT !.dump.nx = file.dump.linux, !.dump.tss = TRUE]
        PROVE  \E d : Same(d) /\ file' = [file EXCEPT !.dump = d]
    <3> DEFINE d == [file.dump EXCEPT !.nx = file.dump.linux, !.tss = TRUE]
    <3>1. file' = [file EXCEPT !.dump = d]
      BY <2>1 DEF TypeOK, Files
    <3>2. Same(d)
      BY <1>1 DEF Dump
    <3> QED BY <3>1, <3>2
  <2>2. ASSUME NEW nx \in {FALSE, file.dump.linux}, file' = [file EXCEPT !.dump.nx = nx]
        PROVE  \E d : Same(d) /\ file' = [file EXCEPT !.dump = d]
    <3> DEFINE d == [file.dump EXCEPT !.nx = nx]
    <3>1. file' = [file EXCEPT !.dump = d]
      BY <2>2 DEF TypeOK, Files
    <3>2. Same(d)
      BY <1>1 DEF Dump
    <3> QED BY <3>1, <3>2
  <2>3. PICK d : Same(d) /\ file' = [file EXCEPT !.dump = d]
    BY <1>3, <2>1, <2>2 DEF ModifyMemDump
  <2> QED BY <1>3, <2>3 DEF TypeOK, Files, OtherFiles
<1> QED
  BY <1>2, <1>3

\* What the two dd's leave: a part of the dump's epoch, or what was there.
LEMMA PartsCut ==
  ASSUME TypeOK
  PROVE  /\ DdPart1 =>
              /\ file' \in Files /\ UNCHANGED <<file.dump, file.part2, OtherFiles>>
              /\ \/ file'.part1 = file.part1 /\ (file.dump = NoDump \/ May("dd1"))
                 \/ /\ file.dump # NoDump /\ file'.part1.epoch = file.dump.epoch
                    /\ ~May("short") /\ file.dump.len = NumPages =>
                         file'.part1.len = Dd1Count
         /\ DdPart2 =>
              /\ file' \in Files /\ UNCHANGED <<file.dump, file.part1, OtherFiles>>
              /\ \/ file'.part2 = file.part2 /\ (file.dump = NoDump \/ May("dd2"))
                 \/ /\ file.dump # NoDump /\ file'.part2.epoch = file.dump.epoch
                    /\ ~May("short") /\ file.dump.len = NumPages =>
                         file'.part2.len = Dd2Count
<1>1. file.dump \in Dump
  BY DEF TypeOK, Files
<1>2. ASSUME NEW part \in {Part1, Part2}, NEW w \in Written(Cut(file.dump, part))
      PROVE  /\ w \in Dump /\ w.epoch = file.dump.epoch
             /\ ~May("short") /\ file.dump.len = NumPages => w.len = part.count
  BY <1>1, CutDump, WrittenDump
<1>3. Part1.count = Dd1Count /\ Part2.count = Dd2Count
  BY DEF Part1, Part2
<1>4. ASSUME DdPart1
      PROVE  /\ file' \in Files /\ UNCHANGED <<file.dump, file.part2, OtherFiles>>
             /\ \/ file'.part1 = file.part1 /\ (file.dump = NoDump \/ May("dd1"))
                \/ /\ file.dump # NoDump /\ file'.part1.epoch = file.dump.epoch
                   /\ ~May("short") /\ file.dump.len = NumPages =>
                        file'.part1.len = Dd1Count
  <2>1. CASE \E w \in Written(Cut(file.dump, Part1)) :
               file.dump # NoDump /\ file' = [file EXCEPT !.part1 = w]
    <3>1. PICK w \in Written(Cut(file.dump, Part1)) :
               file.dump # NoDump /\ file' = [file EXCEPT !.part1 = w]
      BY <2>1
    <3>2. file'.part1 = w /\ file' \in Files
            /\ UNCHANGED <<file.dump, file.part2, OtherFiles>>
      BY <1>2, <3>1 DEF TypeOK, Files, OtherFiles
    <3> QED BY <1>2, <1>3, <3>1, <3>2
  <2>2. CASE file' = file /\ (file.dump = NoDump \/ May("dd1"))
    BY <2>2 DEF TypeOK, OtherFiles
  <2> QED BY <1>4, <2>1, <2>2 DEF DdPart1
<1>5. ASSUME DdPart2
      PROVE  /\ file' \in Files /\ UNCHANGED <<file.dump, file.part1, OtherFiles>>
             /\ \/ file'.part2 = file.part2 /\ (file.dump = NoDump \/ May("dd2"))
                \/ /\ file.dump # NoDump /\ file'.part2.epoch = file.dump.epoch
                   /\ ~May("short") /\ file.dump.len = NumPages =>
                        file'.part2.len = Dd2Count
  <2>1. CASE \E w \in Written(Cut(file.dump, Part2)) :
               file.dump # NoDump /\ file' = [file EXCEPT !.part2 = w]
    <3>1. PICK w \in Written(Cut(file.dump, Part2)) :
               file.dump # NoDump /\ file' = [file EXCEPT !.part2 = w]
      BY <2>1
    <3>2. file'.part2 = w /\ file' \in Files
            /\ UNCHANGED <<file.dump, file.part1, OtherFiles>>
      BY <1>2, <3>1 DEF TypeOK, Files, OtherFiles
    <3> QED BY <1>2, <1>3, <3>1, <3>2
  <2>2. CASE file' = file /\ (file.dump = NoDump \/ May("dd2"))
    BY <2>2 DEF TypeOK, OtherFiles
  <2> QED BY <1>5, <2>1, <2>2 DEF DdPart2
<1> QED
  BY <1>4, <1>5

\* Type correctness of the whole workflow, under any faults.
THEOREM TypeCorrect == Spec => []TypeOK
<1> USE ConstantsAssumption, LayoutAssumption DEF Epochs
<1>1. Init => TypeOK
  <2> SUFFICES ASSUME Init PROVE TypeOK
    OBVIOUS
  <2>1. file \in Files
    BY DEF Init, Files, Dump, NoDump
  <2>2. mem \in [Pages -> PageContent]
    BY FirmwareType DEF Init
  <2>3. 0 \in Epochs
    OBVIOUS
  <2>4. /\ sh \in ShPoints
        /\ said \in {"nothing", "ready", "finished"}
        /\ proc \in {"off", "source", "target"}
        /\ stage \in {"none", "booting", "waiting", "linux", "crashed"}
    BY DEF Init, ShPoints
  <2>5. paused \in BOOLEAN /\ flag \in BOOLEAN
    BY Zenon DEF Init
  <2>6. epoch = 0 /\ cpu = 0 /\ dev = 0 /\ disk = 0 /\ save3 = 0
          /\ faults \in FaultSets
    BY DEF Init
  <2> QED BY <2>1, <2>2, <2>3, <2>4, <2>5, <2>6 DEF TypeOK
<1>2. TypeOK /\ [Next]_vars => TypeOK'
  <2> SUFFICES ASSUME TypeOK, [Next]_vars PROVE TypeOK'
    OBVIOUS
  <2>0. faults' \in FaultSets
    BY DEF TypeOK, Next, vars
  <2> USE <2>0 DEF TypeOK, ShPoints
  <2>1. CASE Guest
    <3> USE <2>1 DEF target
    <3>1. CASE SourceBoots BY <3>1 DEF SourceBoots
    <3>2. CASE GuestRuns BY <3>2 DEF GuestRuns
    <3>3. CASE HandlerStarts BY <3>3 DEF HandlerStarts
    <3>4. CASE GuestResumes BY <3>4 DEF GuestResumes
    <3>5. CASE GuestCrashes BY <3>5 DEF GuestCrashes
    <3>6. CASE FirmwareWrites
      <4>1. PICK p \in Pages : mem' = [mem EXCEPT ![p] = Firmware]
        BY <3>6 DEF FirmwareWrites
      <4>2. mem' \in [Pages -> PageContent]
        BY <4>1, FirmwareType
      <4>3. dev' \in Epochs
        BY <3>6 DEF FirmwareWrites
      <4> QED BY <3>6, <4>2, <4>3 DEF FirmwareWrites
    <3> QED BY <3>1, <3>2, <3>3, <3>4, <3>5, <3>6 DEF Guest
  <2>2. CASE Snap
    <3> USE <2>2 DEF target, machine, Go
    <3>1. CASE StartSource
      <4>1. epoch' \in Epochs BY <3>1 DEF StartSource
      <4>2. paused' \in BOOLEAN BY <3>1, Zenon DEF StartSource
      <4>3. /\ sh' = "boot" /\ said' = "nothing" /\ proc' = "source"
            /\ stage' = "booting" /\ file' = file /\ save3' = save3
            /\ UNCHANGED target
        BY <3>1 DEF StartSource
      <4> QED BY <4>1, <4>2, <4>3
    <3>2. CASE SleepForBoot BY <3>2 DEF SleepForBoot
    <3>3. CASE RemoveOldDumps
      <4>1. NoDump \in Dump BY DEF NoDump, Dump
      <4>2. 0 \in Epochs OBVIOUS
      <4>3. file' \in Files BY <3>3, <4>1, <4>2 DEF RemoveOldDumps, Files
      <4> QED BY <3>3, <4>3 DEF RemoveOldDumps
    <3>4. CASE SnapConnect BY <3>4 DEF SnapConnect
    <3>5. CASE InfoRegisters
      <4>1. file' \in Files BY <3>5 DEF InfoRegisters, Files
      <4> QED BY <3>5, <4>1 DEF InfoRegisters
    <3>6. CASE SaveVm BY <3>6 DEF SaveVm
    <3>7. CASE PmemSave
      <4>1. file' \in Files BY <3>7, PmemSaved
      <4> QED BY <3>7, <4>1 DEF PmemSave
    <3>8. CASE SaveDevices
      <4>1. file' \in Files BY <3>8 DEF SaveDevices, Files
      <4> QED BY <3>8, <4>1 DEF SaveDevices
    <3>9. CASE SnapQuit BY <3>9 DEF SnapQuit
    <3>10. CASE SearchCr3 BY <3>10 DEF SearchCr3
    <3>11. CASE ModifyMemDump
      <4>1. file' \in Files BY <3>11, DumpModified
      <4> QED BY <3>11, <4>1 DEF ModifyMemDump
    <3>12. CASE DdPart1
      <4>1. file' \in Files BY <3>12, PartsCut
      <4> QED BY <3>12, <4>1 DEF DdPart1
    <3>13. CASE DdPart2
      <4>1. file' \in Files BY <3>13, PartsCut
      <4> QED BY <3>13, <4>1 DEF DdPart2
    <3>14. CASE ProcessRegisters
      <4>1. file' \in Files BY <3>14 DEF ProcessRegisters, Ready, Files
      <4> QED BY <3>14, <4>1 DEF ProcessRegisters, Ready
    <3>15. CASE CompileBlob
      <4>1. file' \in Files BY <3>15 DEF CompileBlob, Ready, Files
      <4> QED BY <3>15, <4>1 DEF CompileBlob, Ready
    <3>16. CASE WriteCpuState
      <4>1. file' \in Files BY <3>16 DEF WriteCpuState, Ready, Files
      <4> QED BY <3>16, <4>1 DEF WriteCpuState, Ready
    <3> QED BY <3>1, <3>2, <3>3, <3>4, <3>5, <3>6, <3>7, <3>8, <3>9, <3>10,
               <3>11, <3>12, <3>13, <3>14, <3>15, <3>16 DEF Snap
  <2>3. CASE Restore
    <3> USE <2>3 DEF target, machine, Go
    <3>1. CASE StartTarget
      <4>1. file.cpu \in Epochs BY DEF Files
      <4>2. mem' \in [Pages -> PageContent]
        BY <3>1, FirmwareType DEF StartTarget
      <4>3. 0 \in Epochs OBVIOUS
      <4>4. CASE UNCHANGED machine BY <3>1, <4>4 DEF StartTarget
      <4>5. CASE ~UNCHANGED machine
        <5>1. /\ proc' = "target" /\ stage' = "booting" /\ sh' = "r_connect"
              /\ said' = "nothing" /\ cpu' = file.cpu /\ dev' = 0
              /\ disk' = save3 /\ epoch' = epoch /\ save3' = save3
              /\ file' = file
          BY <3>1, <4>5 DEF StartTarget
        <5>2. paused' \in BOOLEAN /\ flag' \in BOOLEAN
          BY <3>1, <4>5, Zenon DEF StartTarget
        <5> QED BY <5>1, <5>2, <4>1, <4>2, <4>3
      <4> QED BY <4>4, <4>5
    <3>2. CASE LoadConnect BY <3>2 DEF LoadConnect
    <3>3. CASE PmemLoad1
      <4>1. file.part1 \in Dump BY DEF Files
      <4> QED BY <3>3, <4>1, LoadedType DEF PmemLoad1
    <3>4. CASE PmemLoad2
      <4>1. file.part2 \in Dump BY DEF Files
      <4> QED BY <3>4, <4>1, LoadedType DEF PmemLoad2
    <3>5. CASE LoadDevices BY <3>5 DEF LoadDevices, Files
    <3>6. CASE LoadFlag BY <3>6 DEF LoadFlag
    <3>7. CASE LoadCont BY <3>7 DEF LoadCont
    <3> QED BY <3>1, <3>2, <3>3, <3>4, <3>5, <3>6, <3>7 DEF Restore
  <2>4. CASE OperatorQuit BY <2>4 DEF OperatorQuit, target
  <2>5. CASE UNCHANGED vars BY <2>5 DEF vars
  <2> QED BY <2>1, <2>2, <2>3, <2>4, <2>5 DEF Next
<1> QED
  BY <1>1, <1>2, PTL DEF Spec

\* No load, whatever file it reads and whatever went wrong before, touches the
\* migration handler's pages.
THEOREM Isolation == Spec => []HandlerIsolated
<1>1. Init => HandlerIsolated
  BY DEF Init, HandlerIsolated, Hole
<1>2. TypeOK /\ HandlerIsolated /\ [Next]_vars => HandlerIsolated'
  <2> SUFFICES ASSUME TypeOK, HandlerIsolated, [Next]_vars, NEW p \in Hole
               PROVE  mem'[p] = Firmware
    BY DEF HandlerIsolated, Hole
  <2>1. CASE UNCHANGED mem
    BY <2>1 DEF HandlerIsolated
  <2>2. CASE StartTarget
    BY <2>2 DEF StartTarget, HandlerIsolated, Hole, machine, target
  <2>3. CASE PmemLoad1
    BY <2>3, LoadedHole DEF PmemLoad1, HandlerIsolated, TypeOK, Files
  <2>4. CASE PmemLoad2
    BY <2>4, LoadedHole DEF PmemLoad2, HandlerIsolated, TypeOK, Files
  <2>5. CASE FirmwareWrites
    BY <2>5 DEF FirmwareWrites, HandlerIsolated, Hole, TypeOK
  <2>6. ~(StartTarget \/ PmemLoad1 \/ PmemLoad2 \/ FirmwareWrites) => UNCHANGED mem
    BY DEF Next, vars, Guest, SourceBoots, GuestRuns, HandlerStarts,
       GuestResumes, GuestCrashes, Snap, StartSource, SleepForBoot,
       RemoveOldDumps, SnapConnect, InfoRegisters, SaveVm, PmemSave,
       SaveDevices, SnapQuit, SearchCr3, ModifyMemDump, DdPart1, DdPart2,
       ProcessRegisters, CompileBlob, WriteCpuState, Restore, LoadConnect,
       LoadDevices, LoadFlag, LoadCont, OperatorQuit, machine, target
  <2> QED
    BY <2>1, <2>2, <2>3, <2>4, <2>5, <2>6
<1> QED
  BY <1>1, <1>2, TypeCorrect, PTL DEF Spec

\* The files of a snapshot agree, under any faults: CaptureInv is inductive
\* over the steps that capture, and the others leave the files alone.
LEMMA Capture == Spec => []CaptureInv
<1> USE DEF CaptureInv, SnapshotFrozen, Captured
<1>1. Init => CaptureInv
  BY DEF Init, NoDump
<1>2. TypeOK /\ CaptureInv /\ [Next]_vars => CaptureInv'
  <2> SUFFICES ASSUME TypeOK, CaptureInv, [Next]_vars PROVE CaptureInv'
    OBVIOUS
  <2>1. CASE Guest
    BY <2>1 DEF Guest, SourceBoots, GuestRuns, HandlerStarts, GuestResumes,
                FirmwareWrites, GuestCrashes
  <2>2. CASE StartSource \/ SleepForBoot
    BY <2>2 DEF StartSource, SleepForBoot, Go, machine
  <2>3. CASE RemoveOldDumps
    BY <2>3 DEF RemoveOldDumps, Go, NoDump, TypeOK, Files
  <2>4. CASE SnapConnect
    BY <2>4 DEF SnapConnect, Go
  <2>5. CASE InfoRegisters
    BY <2>5 DEF InfoRegisters, Go, machine, TypeOK, Files
  <2>6. CASE SaveVm
    BY <2>6 DEF SaveVm, Go
  <2>7. CASE PmemSave
    BY <2>7, PmemSaved DEF PmemSave, Go, machine, OtherFiles
  <2>8. CASE SaveDevices
    BY <2>8 DEF SaveDevices, Go, machine, TypeOK, Files
  <2>9. CASE SnapQuit \/ SearchCr3
    BY <2>9 DEF SnapQuit, SearchCr3, Go, machine
  <2>10. CASE ModifyMemDump
    BY <2>10, DumpModified DEF ModifyMemDump, Go, machine, OtherFiles
  <2>11. CASE DdPart1
    BY <2>11, PartsCut DEF DdPart1, Go, machine, OtherFiles
  <2>12. CASE DdPart2
    BY <2>12, PartsCut DEF DdPart2, Go, machine, OtherFiles
  <2>13. CASE ProcessRegisters \/ CompileBlob \/ WriteCpuState
    BY <2>13 DEF ProcessRegisters, CompileBlob, WriteCpuState, Ready, Go,
                 machine, TypeOK, Files
  <2>14. CASE Restore \/ OperatorQuit
    BY <2>14 DEF Restore, StartTarget, LoadConnect, PmemLoad1, PmemLoad2,
                 LoadDevices, LoadFlag, LoadCont, OperatorQuit, Go
  <2>15. CASE UNCHANGED vars
    BY <2>15 DEF vars
  <2> QED
    BY <2>1, <2>2, <2>3, <2>4, <2>5, <2>6, <2>7, <2>8, <2>9, <2>10, <2>11,
       <2>12, <2>13, <2>14, <2>15 DEF Next, Snap
<1> QED
  BY <1>1, <1>2, TypeCorrect, PTL DEF Spec

\* Under any faults the captured files never show two instants.
THEOREM Frozen == Spec => []SnapshotFrozen
<1>1. CaptureInv => SnapshotFrozen
  BY DEF CaptureInv
<1> QED
  BY <1>1, Capture, PTL

\* The snapshot half of the invariant is inductive when every capture either
\* succeeds or leaves the second part out.
LEMMA SnapStep ==
  ASSUME TypeOK, SnapInv, [Next]_vars, Harmless
  PROVE  SnapInv'
<1> USE DEF SnapInv, CompleteWhen, Go
<1>0. /\ ~May("savevm") /\ ~May("devsave") /\ ~May("regs") /\ ~May("gcc")
      /\ ~May("short") /\ ~May("dd1") /\ ~May("blob")
  BY DEF May, Harmless, HarmlessFaults
<1>1. CASE Guest
  <2>1. CASE GuestRuns
    <3>1. epoch' # 0
      BY <2>1, ConstantsAssumption DEF GuestRuns, TypeOK, Epochs
    <3> QED BY <2>1, <3>1 DEF GuestRuns
  <2>2. CASE ~GuestRuns
    BY <1>1, <2>2 DEF Guest, SourceBoots, HandlerStarts, GuestResumes,
                      FirmwareWrites, GuestCrashes
  <2> QED BY <2>1, <2>2
<1>2. CASE StartSource
  BY <1>2, ConstantsAssumption DEF StartSource, TypeOK, Epochs
<1>3. CASE SleepForBoot
  BY <1>3 DEF SleepForBoot, machine
<1>4. CASE RemoveOldDumps
  BY <1>4 DEF RemoveOldDumps, machine, TypeOK, Files
<1>5. CASE SnapConnect
  BY <1>5 DEF SnapConnect
<1>6. CASE InfoRegisters
  BY <1>6 DEF InfoRegisters, machine, TypeOK, Files
<1>7. CASE SaveVm
  BY <1>0, <1>7 DEF SaveVm
<1>8. CASE PmemSave
  BY <1>0, <1>8, PmemSaved DEF PmemSave, machine, OtherFiles
<1>9. CASE SaveDevices
  BY <1>0, <1>9 DEF SaveDevices, machine, TypeOK, Files
<1>10. CASE SnapQuit
  BY <1>10 DEF SnapQuit
<1>11. CASE SearchCr3
  BY <1>11 DEF SearchCr3, machine
<1>12. CASE ModifyMemDump
  BY <1>12, DumpModified DEF ModifyMemDump, machine, OtherFiles
<1>13. CASE DdPart1
  BY <1>0, <1>13, PartsCut DEF DdPart1, machine, OtherFiles, NoDump
<1>14. CASE DdPart2
  BY <1>0, <1>14, PartsCut DEF DdPart2, machine, OtherFiles
<1>15. CASE ProcessRegisters
  BY <1>0, <1>15 DEF ProcessRegisters, Ready, machine, TypeOK, Files
<1>16. CASE CompileBlob
  BY <1>0, <1>16 DEF CompileBlob, Ready, machine, TypeOK, Files
<1>17. CASE WriteCpuState
  BY <1>0, <1>17 DEF WriteCpuState, Ready, machine, TypeOK, Files
<1>18. CASE StartTarget
  BY <1>18 DEF StartTarget, machine
<1>19. CASE LoadConnect \/ LoadCont \/ OperatorQuit
  BY <1>19 DEF LoadConnect, LoadCont, OperatorQuit
<1>20. CASE PmemLoad1 \/ PmemLoad2 \/ LoadDevices \/ LoadFlag
  BY <1>20 DEF PmemLoad1, PmemLoad2, LoadDevices, LoadFlag
<1>21. CASE UNCHANGED vars
  BY <1>21 DEF vars
<1> QED
  BY <1>1, <1>2, <1>3, <1>4, <1>5, <1>6, <1>7, <1>8, <1>9, <1>10, <1>11,
     <1>12, <1>13, <1>14, <1>15, <1>16, <1>17, <1>18, <1>19, <1>20, <1>21
     DEF Next, Snap, Restore

\* The restore half: what has been loaded so far, and that the flag comes last.
LEMMA LoadStep ==
  ASSUME TypeOK, SnapInv, LoadInv, [Next]_vars, Harmless
  PROVE  LoadInv'
<1> USE DEF LoadInv, Go
<1>0. ~May("load1") /\ ~May("devload") /\ ~May("early")
  BY DEF May, Harmless, HarmlessFaults
<1>1. CASE Guest
  <2>1. CASE SourceBoots \/ GuestRuns
    BY <2>1 DEF SourceBoots, GuestRuns
  <2>2. CASE HandlerStarts
    BY <2>2 DEF HandlerStarts
  <2>3. CASE GuestResumes \/ FirmwareWrites \/ GuestCrashes
    BY <2>3 DEF GuestResumes, FirmwareWrites, GuestCrashes, target
  <2> QED BY <1>1, <2>1, <2>2, <2>3 DEF Guest
<1>2. CASE Snap
  <2>1. proc' # "target"
    BY <1>2 DEF Snap, StartSource, SleepForBoot, RemoveOldDumps, SnapConnect,
       InfoRegisters, SaveVm, PmemSave, SaveDevices, SnapQuit, SearchCr3,
       ModifyMemDump, DdPart1, DdPart2, ProcessRegisters, CompileBlob,
       WriteCpuState, Ready, machine, SnapInv
  <2> QED BY <2>1
<1>3. CASE StartTarget
  BY <1>3 DEF StartTarget, machine
<1>4. CASE LoadConnect
  BY <1>0, <1>4 DEF LoadConnect, target
<1>5. CASE PmemLoad1
  <2>1. CASE file.part1 = NoDump /\ UNCHANGED mem
    BY <1>5, <2>1 DEF PmemLoad1
  <2>2. CASE mem' = Loaded(file.part1, Part1)
    <3>1. \A p \in Pages : /\ p < HoleFirst /\ file.part1 # NoDump =>
                                mem'[p] = PageIn(file.part1, p)
                           /\ HoleEnd <= p => mem'[p] = mem[p]
      <4>1. file.part1.len \in Nat
        BY LayoutAssumption DEF TypeOK, Files, Dump
      <4>2. file.part1 # NoDump => file.part1.len = Dd1Count
        BY DEF SnapInv
      <4> QED BY <2>2, <4>1, <4>2, LoadedFrames, LayoutAssumption, ConstantsAssumption
    <3> QED BY <1>5, <3>1 DEF PmemLoad1, PageIn
  <2> QED BY <1>0, <1>5, <2>1, <2>2 DEF PmemLoad1
<1>6. CASE PmemLoad2
  <2>1. CASE UNCHANGED mem
    BY <1>6, <2>1 DEF PmemLoad2
  <2>2. CASE file.part2 # NoDump /\ mem' = Loaded(file.part2, Part2)
    <3>1. \A p \in Pages : /\ HoleEnd <= p => mem'[p] = PageIn(file.part2, p)
                           /\ p < HoleFirst => mem'[p] = mem[p]
      <4>1. file.part2.len \in Nat
        BY LayoutAssumption DEF TypeOK, Files, Dump
      <4>2. file.part2.len = Dd2Count
        BY <2>2 DEF SnapInv
      <4> QED BY <2>2, <4>1, <4>2, LoadedFrames, LayoutAssumption, ConstantsAssumption
    <3> QED BY <1>6, <2>2, <3>1 DEF PmemLoad2, PageIn
  <2> QED BY <1>6, <2>1, <2>2 DEF PmemLoad2
<1>7. CASE LoadDevices
  BY <1>0, <1>7 DEF LoadDevices
<1>8. CASE LoadFlag
  BY <1>8 DEF LoadFlag
<1>9. CASE LoadCont
  BY <1>9 DEF LoadCont, target
<1>10. CASE OperatorQuit
  BY <1>10 DEF OperatorQuit
<1>11. CASE UNCHANGED vars
  BY <1>11 DEF vars
<1> QED
  BY <1>1, <1>2, <1>3, <1>4, <1>5, <1>6, <1>7, <1>8, <1>9, <1>10, <1>11
     DEF Next, Restore

\* The argument for ResumeConsistent holds in every reachable state.
LEMMA Resumes ==
  ASSUME HoleEnd <= GuestGdt
  PROVE  Spec => []ResumeInv
<1>1. Init => ResumeInv
  BY DEF Init, ResumeInv, SnapInv, LoadInv, ResumeConsistent
<1>2. TypeOK /\ ResumeInv /\ [Next]_vars => ResumeInv'
  <2> SUFFICES ASSUME TypeOK, SnapInv, LoadInv, ResumeConsistent, [Next]_vars,
                      Harmless
               PROVE  SnapInv' /\ LoadInv' /\ ResumeConsistent'
    BY DEF ResumeInv, Harmless, Next, vars
  <2>1. SnapInv' /\ LoadInv'
    BY SnapStep, LoadStep
  <2>2. ResumeConsistent'
    <3> USE DEF ResumeConsistent, WholeAt, Harmless
    <3>1. CASE GuestResumes
      <4> SUFFICES ASSUME stage' = "linux"
                   PROVE  \E e \in Epochs \ {0} :
                            /\ cpu = e /\ dev = e /\ disk = e
                            /\ \A p \in Pages \ Hole :
                                 mem[p].epoch = e /\ mem[p].frame = p
        BY <3>1 DEF GuestResumes, target
      <4>1. flag /\ proc = "target" /\ mem[GuestGdt].fix
        BY <3>1 DEF GuestResumes, TrampolineWorks
      <4>2. GuestGdt \in Pages /\ mem[GuestGdt] # Firmware
        BY <4>1, ConstantsAssumption DEF Firmware
      <4>3. /\ file.part2 # NoDump
            /\ \A p \in Pages : HoleEnd <= p => mem[p] = PageIn(file.part2, p)
        BY <4>1, <4>2 DEF LoadInv
      <4> DEFINE e == file.part2.epoch
      <4>4. /\ e \in Epochs \ {0} /\ save3 = e /\ file.dev = e /\ file.cpu = e
            /\ file.part1 # NoDump /\ file.part1.epoch = e
        BY <4>1, <4>3 DEF SnapInv, CompleteWhen, LoadInv, TypeOK, Files, Dump
      <4>5. cpu = e /\ dev = e /\ disk = e
        BY <4>1, <4>4 DEF LoadInv
      <4>6. \A p \in Pages \ Hole : mem[p].epoch = e /\ mem[p].frame = p
        <5> TAKE p \in Pages \ Hole
        <5>1. p < HoleFirst \/ HoleEnd <= p
          BY ConstantsAssumption, LayoutAssumption DEF Hole
        <5>2. mem[p] = PageIn(file.part1, p) \/ mem[p] = PageIn(file.part2, p)
          BY <4>1, <4>3, <4>4, <5>1 DEF LoadInv
        <5> QED BY <4>4, <5>2 DEF PageIn
      <4> QED BY <4>4, <4>5, <4>6
    <3>2. CASE ~GuestResumes
      <4>1. SUFFICES ASSUME proc' = "target", stage' = "linux"
                     PROVE  proc = "target" /\ stage = "linux" /\ UNCHANGED <<mem, cpu, dev, disk>>
        OBVIOUS
      <4>2. CASE Guest \/ Snap \/ OperatorQuit
        BY <3>2, <4>1, <4>2 DEF Guest, SourceBoots, GuestRuns, HandlerStarts,
           FirmwareWrites, GuestCrashes, Snap, StartSource, SleepForBoot, RemoveOldDumps, SnapConnect,
           InfoRegisters, SaveVm, PmemSave, SaveDevices, SnapQuit, SearchCr3,
           ModifyMemDump, DdPart1, DdPart2, ProcessRegisters, CompileBlob,
           WriteCpuState, OperatorQuit, machine, target
      <4>3. CASE Restore
        BY <4>1, <4>3 DEF Restore, StartTarget, LoadConnect, PmemLoad1,
           PmemLoad2, LoadDevices, LoadFlag, LoadCont, LoadInv, Go, machine, target
      <4>4. CASE UNCHANGED vars
        BY <4>1, <4>4 DEF vars
      <4> QED BY <4>2, <4>3, <4>4 DEF Next
    <3> QED BY <3>1, <3>2
  <2> QED BY <2>1, <2>2
<1> QED
  BY <1>1, <1>2, TypeCorrect, PTL DEF Spec

\* As long as nothing worse than the harmless faults happens, and the guest's
\* GDT lies above the hole, a Linux that runs in the target is the source at
\* one instant: registers, devices, disk and memory agree.
THEOREM Consistency ==
  ASSUME HoleEnd <= GuestGdt
  PROVE  Spec => []ResumeConsistent
<1>1. ResumeInv => ResumeConsistent
  BY DEF ResumeInv, ResumeConsistent
<1> QED
  BY <1>1, Resumes, PTL

-----------------------------------------------------------------------------
(* The scripts' messages.                                                  *)

\* When nothing fails no part is left out: there is a dump from the capture on,
\* a second part from the last dd on, and a restore that began has a target
\* whose handler is waiting.
CleanSnap ==
  /\ sh \in {"s_dev", "s_quit", "s_cr3", "s_modify", "s_dd1", "s_dd2"} =>
       file.dump # NoDump
  /\ sh \in {"g_parse", "g_gcc", "g_run"} \/ said = "ready" => file.part2 # NoDump
  /\ sh \in {"idle", "r_connect", "r_load1", "r_load2", "r_dev", "r_flag",
             "r_cont"} => file.part2 # NoDump \/ save3 = 0
  /\ said # "nothing" => sh = "idle"

CleanLoad ==
  /\ proc = "target" => file.part2 # NoDump
  /\ sh = "r_connect" => proc # "source"
  /\ sh \in {"r_load1", "r_load2", "r_dev", "r_flag", "r_cont"} => proc = "target"
  /\ proc = "target" /\ (sh \in {"r_dev", "r_flag", "r_cont"} \/ said = "finished") =>
       \A p \in Pages : HoleEnd <= p => mem[p] = PageIn(file.part2, p)
  /\ proc = "target" /\ (sh = "r_cont" \/ said = "finished") => flag
  /\ proc = "target" /\ (sh \in {"r_load1", "r_load2", "r_dev", "r_flag", "r_cont"}
                          \/ said = "finished") => stage # "booting"

CleanInv == faults = {} => SnapInv /\ LoadInv /\ CleanSnap /\ CleanLoad

\* Without failures no step of the snapshot leaves a file out.
LEMMA CleanSnapStep ==
  ASSUME TypeOK, SnapInv, CleanSnap, [Next]_vars, faults = {}
  PROVE  CleanSnap'
<1> USE DEF CleanSnap, Go
<1>0. \A f : ~May(f)
  BY DEF May
<1>1. CASE Guest
  BY <1>1 DEF Guest, SourceBoots, GuestRuns, HandlerStarts, GuestResumes,
     FirmwareWrites, GuestCrashes
<1>2. CASE StartSource \/ SleepForBoot \/ RemoveOldDumps
  BY <1>2 DEF StartSource, SleepForBoot, RemoveOldDumps, machine
<1>3. CASE SnapConnect \/ InfoRegisters \/ SaveVm
  BY <1>0, <1>3 DEF SnapConnect, InfoRegisters, SaveVm, machine
<1>4. CASE PmemSave
  <2>1. epoch # 0
    BY <1>4 DEF PmemSave, SnapInv
  <2>2. file'.dump # NoDump
    BY <1>0, <1>4, <2>1, PmemSaved DEF NoDump
  <2> QED BY <1>4, <2>2 DEF PmemSave
<1>5. CASE SaveDevices
  BY <1>5 DEF SaveDevices, TypeOK, Files
<1>6. CASE SnapQuit \/ SearchCr3
  BY <1>0, <1>6 DEF SnapQuit, SearchCr3
<1>7. CASE ModifyMemDump
  <2>1. file.dump # NoDump /\ file.dump.epoch # 0
    BY <1>7 DEF ModifyMemDump, SnapInv, CompleteWhen
  <2>2. file'.dump # NoDump
    BY <1>7, <2>1, DumpModified DEF NoDump
  <2> QED BY <1>7, <2>2 DEF ModifyMemDump
<1>8. CASE DdPart1 \/ DdPart2
  <2>1. file.dump # NoDump /\ file.dump.epoch # 0
    BY <1>8 DEF DdPart1, DdPart2, SnapInv, CompleteWhen
  <2>2. DdPart2 => file'.part2 # NoDump
    BY <1>0, <2>1, PartsCut DEF NoDump
  <2>3. UNCHANGED file.dump
    BY <1>8, PartsCut
  <2> QED BY <1>8, <2>1, <2>2, <2>3 DEF DdPart1, DdPart2
<1>9. CASE ProcessRegisters \/ CompileBlob \/ WriteCpuState
  BY <1>9 DEF ProcessRegisters, CompileBlob, WriteCpuState, Ready, TypeOK, Files
<1>10. CASE Restore \/ OperatorQuit
  BY <1>10 DEF Restore, StartTarget, LoadConnect, PmemLoad1, PmemLoad2,
     LoadDevices, LoadFlag, LoadCont, OperatorQuit, machine
<1>11. CASE UNCHANGED vars
  BY <1>11 DEF vars
<1> QED
  BY <1>1, <1>2, <1>3, <1>4, <1>5, <1>6, <1>7, <1>8, <1>9, <1>10, <1>11
     DEF Next, Snap

\* Without failures a restore that runs finds its target as the script expects it.
LEMMA CleanLoadStep ==
  ASSUME TypeOK, SnapInv, LoadInv, CleanSnap, CleanLoad, [Next]_vars, faults = {}
  PROVE  CleanLoad'
<1> USE DEF CleanLoad, Go
<1>0. \A f : ~May(f)
  BY DEF May
<1>1. CASE Guest
  BY <1>1 DEF Guest, SourceBoots, GuestRuns, HandlerStarts, GuestResumes,
     FirmwareWrites, GuestCrashes, target, LoadInv
<1>2. CASE Snap
  <2>1. /\ proc' # "target"
        /\ sh' \notin {"r_connect", "r_load1", "r_load2", "r_dev", "r_flag", "r_cont"}
    BY <1>2 DEF Snap, StartSource, SleepForBoot, RemoveOldDumps, SnapConnect,
       InfoRegisters, SaveVm, PmemSave, SaveDevices, SnapQuit, SearchCr3,
       ModifyMemDump, DdPart1, DdPart2, ProcessRegisters, CompileBlob,
       WriteCpuState, Ready, machine, SnapInv
  <2> QED BY <2>1
<1>3. CASE StartTarget
  BY <1>3 DEF StartTarget, machine, CleanSnap
<1>4. CASE LoadConnect
  <2>1. CASE proc = "off"
    BY <1>0, <1>4, <2>1 DEF LoadConnect, target
  <2>2. CASE proc # "off"
    <3>1. proc = "target" /\ stage = "waiting" /\ said = "nothing"
      BY <1>0, <1>4, <2>2 DEF LoadConnect, TypeOK, CleanSnap
    <3> QED BY <1>0, <1>4, <2>2, <3>1 DEF LoadConnect, target
  <2> QED BY <2>1, <2>2
<1>5. CASE PmemLoad1
  BY <1>5 DEF PmemLoad1, CleanSnap
<1>6. CASE PmemLoad2
  <2>1. mem' = Loaded(file.part2, Part2)
    BY <1>0, <1>6 DEF PmemLoad2
  <2>2. \A p \in Pages : HoleEnd <= p => mem'[p] = PageIn(file.part2, p)
    <3>1. file.part2.len \in Nat
      BY LayoutAssumption DEF TypeOK, Files, Dump
    <3>2. file.part2.len = Dd2Count
      BY <1>6 DEF PmemLoad2, CleanSnap, CleanLoad, SnapInv
    <3> QED BY <2>1, <3>1, <3>2, LoadedFrames
  <2> QED BY <1>6, <2>2 DEF PmemLoad2, PageIn, CleanSnap
<1>7. CASE LoadDevices
  BY <1>7 DEF LoadDevices, CleanSnap
<1>8. CASE LoadFlag
  BY <1>0, <1>8 DEF LoadFlag, CleanSnap
<1>9. CASE LoadCont
  <2>1. flag
    BY <1>9 DEF LoadCont
  <2> QED BY <1>9, <2>1 DEF LoadCont, target
<1>10. CASE OperatorQuit
  BY <1>10 DEF OperatorQuit
<1>11. CASE UNCHANGED vars
  BY <1>11 DEF vars
<1> QED
  BY <1>1, <1>2, <1>3, <1>4, <1>5, <1>6, <1>7, <1>8, <1>9, <1>10, <1>11
     DEF Next, Restore

\* When nothing fails "Now you can run" and "+ Finished restore" are true, for any
\* pages and any number of snapshots.
THEOREM Messages == Spec => []CleanMessagesTrue
<1>1. Init => CleanInv
  BY DEF Init, CleanInv, SnapInv, LoadInv, CleanSnap, CleanLoad
<1>2. TypeOK /\ CleanInv /\ [Next]_vars => CleanInv'
  <2> SUFFICES ASSUME TypeOK, [Next]_vars, faults = {},
                      SnapInv, LoadInv, CleanSnap, CleanLoad
               PROVE  SnapInv' /\ LoadInv' /\ CleanSnap' /\ CleanLoad'
    BY DEF CleanInv, Next, vars
  <2>1. Harmless
    BY DEF Harmless
  <2> QED BY <2>1, SnapStep, LoadStep, CleanSnapStep, CleanLoadStep
<1>3. TypeOK /\ CleanInv => CleanMessagesTrue
  <2> SUFFICES ASSUME TypeOK, SnapInv, LoadInv, CleanSnap, CleanLoad
               PROVE  ReadyMeansRestorable /\ FinishedMeansRestored
    BY DEF CleanInv, CleanMessagesTrue
  <2> DEFINE e == file.part2.epoch
  <2>1. ASSUME said # "nothing", file.part2 # NoDump
        PROVE  /\ sh = "idle" /\ e # 0 /\ save3 = e /\ file.dev = e /\ file.cpu = e
               /\ file.part1 # NoDump /\ file.part1.epoch = e
    BY <2>1 DEF SnapInv, CompleteWhen, CleanSnap
  <2>2. ReadyMeansRestorable
    BY <2>1 DEF ReadyMeansRestorable, CleanSnap
  <2>3. FinishedMeansRestored
    <3> SUFFICES ASSUME said = "finished", proc = "target"
                 PROVE  dev = disk /\ \A p \in Pages \ Hole : mem[p].epoch = disk
      BY DEF FinishedMeansRestored
    <3>1. /\ flag /\ file.part2 # NoDump
          /\ \A p \in Pages : HoleEnd <= p => mem[p] = PageIn(file.part2, p)
      BY DEF CleanLoad
    <3>2. disk = e /\ dev = e
      BY <2>1, <3>1 DEF LoadInv
    <3>3. \A p \in Pages : p < HoleFirst => mem[p] = PageIn(file.part1, p)
      BY <2>1, <3>1 DEF LoadInv
    <3>4. ASSUME NEW p \in Pages \ Hole PROVE mem[p].epoch = disk
      <4>1. p < HoleFirst \/ HoleEnd <= p
        BY ConstantsAssumption, LayoutAssumption DEF Hole
      <4>2. mem[p] = PageIn(file.part1, p) \/ mem[p] = PageIn(file.part2, p)
        BY <3>1, <3>3, <4>1
      <4> QED BY <2>1, <3>1, <3>2, <4>2 DEF PageIn
    <3> QED BY <3>2, <3>4
  <2> QED BY <2>2, <2>3
<1> QED
  BY <1>1, <1>2, <1>3, TypeCorrect, PTL DEF Spec

-----------------------------------------------------------------------------
(* The scripts implement module Resume.                                    *)

LinuxUp == proc = "target" /\ stage = "linux"
Now == IF Harmless THEN epoch ELSE 0
Saved == IF Harmless /\ file.part2 # NoDump THEN file.part2.epoch ELSE 0
Running == IF ~Harmless \/ proc # "target" \/ stage # "linux" THEN 0
           ELSE IF WholeAt(disk) THEN disk ELSE -1

\* A guest that runs in the target is whole: the mapping never takes the value
\* for a guest of no single instant.
LEMMA RunningDisk ==
  ASSUME ResumeConsistent, Harmless
  PROVE  /\ LinuxUp => Running = disk /\ disk \in Epochs \ {0}
         /\ ~LinuxUp => Running = 0
<1>1. ASSUME LinuxUp PROVE Running = disk /\ disk \in Epochs \ {0}
  <2>1. PICK e \in Epochs \ {0} : WholeAt(e)
    BY <1>1 DEF LinuxUp, ResumeConsistent
  <2>2. disk = e
    BY <2>1 DEF WholeAt
  <2>3. WholeAt(disk)
    BY <2>1, <2>2, Zenon
  <2> QED BY <1>1, <2>1, <2>2, <2>3 DEF Running, LinuxUp
<1>2. ASSUME ~LinuxUp PROVE Running = 0
  BY <1>2 DEF Running, LinuxUp
<1> QED BY <1>1, <1>2

\* A second part is always the complete snapshot of the internal one.
LEMMA SavedDisk ==
  ASSUME TypeOK, SnapInv, file.part2 # NoDump
  PROVE  file.part2.epoch = save3 /\ save3 # 0
BY DEF SnapInv, CompleteWhen

\* The five steps of the promise, and the stutter, in terms of the workflow.
Moves ==
  \/ ~LinuxUp /\ ~LinuxUp' /\ epoch' > epoch /\ file'.part2 = file.part2
  \/ /\ file.part2 = NoDump /\ epoch # 0 /\ file'.part2 # NoDump
     /\ file'.part2.epoch = epoch /\ epoch' = epoch /\ ~LinuxUp /\ ~LinuxUp'
  \/ file'.part2 = NoDump /\ epoch' = epoch /\ ~LinuxUp /\ ~LinuxUp'
  \/ /\ file.part2 # NoDump /\ ~LinuxUp /\ LinuxUp' /\ disk' = save3
     /\ epoch' = epoch /\ file'.part2 = file.part2
  \/ LinuxUp /\ ~LinuxUp' /\ epoch' = epoch /\ file'.part2 = file.part2
  \/ /\ LinuxUp' = LinuxUp /\ epoch' = epoch /\ file'.part2 = file.part2
     /\ LinuxUp => disk' = disk

\* Every step of the guest is one of them.
LEMMA GuestMoves ==
  ASSUME TypeOK, SnapInv, LoadInv, Harmless, HoleEnd <= GuestGdt, Guest
  PROVE  Moves
<1>0. epoch \in Nat
  BY ConstantsAssumption DEF TypeOK, Epochs
<1>1. CASE SourceBoots
  BY <1>1 DEF SourceBoots, Moves, LinuxUp, target
<1>2. CASE GuestRuns
  BY <1>0, <1>2 DEF GuestRuns, Moves, LinuxUp, target
<1>3. CASE HandlerStarts
  BY <1>3 DEF HandlerStarts, Moves, LinuxUp
<1>4. CASE GuestResumes
  <2>1. CASE TrampolineWorks
    <3>1. /\ flag /\ proc = "target" /\ mem[GuestGdt].fix /\ ~LinuxUp /\ LinuxUp'
          /\ UNCHANGED <<epoch, disk, file>>
      BY <1>4, <2>1 DEF GuestResumes, TrampolineWorks, LinuxUp, target
    <3>2. GuestGdt \in Pages /\ mem[GuestGdt] # Firmware
      BY <3>1, ConstantsAssumption DEF Firmware
    <3>3. file.part2 # NoDump
      BY <3>1, <3>2 DEF LoadInv
    <3>4. disk = save3
      BY <3>1 DEF LoadInv
    <3> QED BY <3>1, <3>3, <3>4 DEF Moves
  <2>2. CASE ~TrampolineWorks
    BY <1>4, <2>2 DEF GuestResumes, Moves, LinuxUp, target
  <2> QED BY <2>1, <2>2
<1>5. CASE FirmwareWrites \/ GuestCrashes
  BY <1>5 DEF FirmwareWrites, GuestCrashes, Moves, LinuxUp, target
<1> QED
  BY <1>1, <1>2, <1>3, <1>4, <1>5 DEF Guest

\* Every step of the snapshot scripts is one of them.
LEMMA SnapMoves ==
  ASSUME TypeOK, SnapInv, CaptureInv, Harmless, Snap
  PROVE  Moves
<1> USE DEF Moves, LinuxUp, Go, machine, target
<1>0. epoch \in Nat /\ file \in Files
  BY ConstantsAssumption DEF TypeOK, Epochs
<1>1. CASE StartSource
  BY <1>0, <1>1 DEF StartSource
<1>2. CASE SleepForBoot
  BY <1>2 DEF SleepForBoot
<1>3. CASE RemoveOldDumps
  <2>1. proc = "source" /\ file'.part2 = NoDump
    BY <1>0, <1>3 DEF RemoveOldDumps, SnapInv, Files
  <2> QED BY <1>3, <2>1 DEF RemoveOldDumps
<1>4. CASE SnapConnect \/ SaveVm \/ SnapQuit \/ SearchCr3
  BY <1>4 DEF SnapConnect, SaveVm, SnapQuit, SearchCr3, SnapInv
<1>5. CASE InfoRegisters
  <2>1. file'.part2 = file.part2
    BY <1>0, <1>5 DEF InfoRegisters, Files
  <2> QED BY <1>5, <2>1 DEF InfoRegisters
<1>6. CASE PmemSave \/ SaveDevices \/ ModifyMemDump \/ DdPart1
  <2>1. file'.part2 = file.part2
    BY <1>0, <1>6, PmemSaved, DumpModified, PartsCut DEF SaveDevices, Files
  <2> QED BY <1>6, <2>1 DEF PmemSave, SaveDevices, ModifyMemDump, DdPart1
<1>7. CASE DdPart2
  <2>1. sh = "s_dd2" /\ proc = "off" /\ file.part2 = NoDump
    BY <1>7 DEF DdPart2, SnapInv
  <2>2. CASE file'.part2 = file.part2
    BY <1>7, <2>1, <2>2 DEF DdPart2
  <2>3. CASE file.dump # NoDump /\ file'.part2.epoch = file.dump.epoch
    <3>1. file.dump.epoch # 0 /\ file.dump.epoch \in {0, epoch}
      BY <2>1, <2>3 DEF SnapInv, CompleteWhen, CaptureInv, Captured
    <3>2. file'.part2 # NoDump
      BY <2>3, <3>1 DEF NoDump
    <3> QED BY <1>7, <2>1, <2>3, <3>1, <3>2 DEF DdPart2
  <2> QED BY <1>7, <2>2, <2>3, PartsCut
<1>8. CASE ProcessRegisters \/ CompileBlob \/ WriteCpuState
  <2>1. file'.part2 = file.part2
    BY <1>0, <1>8 DEF ProcessRegisters, CompileBlob, WriteCpuState, Files
  <2> QED BY <1>8, <2>1 DEF ProcessRegisters, CompileBlob, WriteCpuState, Ready
<1> QED
  BY <1>1, <1>2, <1>3, <1>4, <1>5, <1>6, <1>7, <1>8 DEF Snap

\* Every step of the restore scripts is one of them.
LEMMA RestoreMoves ==
  ASSUME TypeOK, LoadInv, Restore \/ OperatorQuit
  PROVE  Moves
<1> USE DEF Moves, LinuxUp, Go, machine, target
<1>1. CASE StartTarget
  BY <1>1 DEF StartTarget
<1>2. CASE LoadConnect
  BY <1>2 DEF LoadConnect
<1>3. CASE PmemLoad1 \/ PmemLoad2 \/ LoadDevices \/ LoadFlag \/ LoadCont
  BY <1>3 DEF PmemLoad1, PmemLoad2, LoadDevices, LoadFlag, LoadCont
<1>4. CASE OperatorQuit
  BY <1>4 DEF OperatorQuit
<1> QED
  BY <1>1, <1>2, <1>3, <1>4 DEF Restore

\* Under the harmless faults, and with the guest's GDT above the hole, the scripts
\* implement Resume: a complete snapshot is the last instant of the source, and
\* the guest that a restore brings to life is that snapshot, whole.
THEOREM Implementation ==
  ASSUME HoleEnd <= GuestGdt
  PROVE  Spec => KeepsPromise
<1>1. Init => Promise!Init
  BY DEF Init, Promise!Init
<1>2. TypeOK /\ CaptureInv /\ ResumeInv /\ ResumeInv' /\ [Next]_vars
        => [Promise!Next]_(Promise!resume)
  <2> SUFFICES ASSUME TypeOK, CaptureInv, ResumeInv, ResumeInv', [Next]_vars
               PROVE  [Promise!Next]_(Promise!resume)
    OBVIOUS
  <2>0. faults' = faults
    BY DEF Next, vars
  <2>1. CASE ~Harmless
    BY <2>0, <2>1 DEF Harmless, Promise!resume
  <2>2. CASE Harmless
    <3>1. Moves
      <4>1. CASE UNCHANGED vars
        BY <4>1 DEF vars, Moves, LinuxUp
      <4> QED
        BY <2>2, <4>1, GuestMoves, SnapMoves, RestoreMoves DEF ResumeInv, Next
    <3>2. Harmless' /\ ResumeConsistent /\ ResumeConsistent' /\ SnapInv
      BY <2>0, <2>2 DEF Harmless, ResumeInv
    <3>3. /\ LinuxUp => Running = disk /\ disk # 0
          /\ ~LinuxUp => Running = 0
      BY <2>2, <3>2, RunningDisk
    <3>4. /\ LinuxUp' => Running' = disk' /\ disk' # 0
          /\ ~LinuxUp' => Running' = 0
      <4>1. ASSUME LinuxUp' PROVE Running' = disk' /\ disk' # 0
        <5>1. PICK e \in Epochs \ {0} : WholeAt(e)'
          BY <3>2, <4>1 DEF LinuxUp, ResumeConsistent, Epochs
        <5>2. disk' = e
          BY <5>1 DEF WholeAt
        <5>3. WholeAt(disk)'
          BY <5>1, <5>2 DEF WholeAt
        <5> QED BY <3>2, <4>1, <5>1, <5>2, <5>3 DEF Running, LinuxUp
      <4>2. ASSUME ~LinuxUp' PROVE Running' = 0
        BY <4>2 DEF Running, LinuxUp
      <4> QED BY <4>1, <4>2
    <3>5. Now = epoch /\ Now' = epoch'
      BY <2>2, <3>2 DEF Now
    <3>6. /\ Saved = IF file.part2 # NoDump THEN file.part2.epoch ELSE 0
          /\ Saved' = IF file'.part2 # NoDump THEN file'.part2.epoch ELSE 0
      BY <2>2, <3>2 DEF Saved
    <3>7. file.part2 # NoDump => Saved = save3 /\ Saved # 0
      BY <3>2, <3>6, SavedDisk
    <3>8. \/ Running = 0 /\ Now' > Now /\ Saved' = Saved /\ Running' = Running
          \/ /\ Saved = 0 /\ Now # 0 /\ Saved' = Now
             /\ Now' = Now /\ Running' = Running
          \/ /\ Saved # 0 /\ Running = 0 /\ Saved' = 0
             /\ Now' = Now /\ Running' = Running
          \/ /\ Saved # 0 /\ Running = 0 /\ Running' = Saved
             /\ Now' = Now /\ Saved' = Saved
          \/ /\ Running # 0 /\ Running' = 0 /\ Now' = Now /\ Saved' = Saved
          \/ Now' = Now /\ Saved' = Saved /\ Running' = Running
      BY <3>1, <3>3, <3>4, <3>5, <3>6, <3>7 DEF Moves
    <3> QED
      BY <3>8, Zenon DEF Now, Saved, Running, Promise!Next, Promise!Work,
         Promise!Take, Promise!Discard, Promise!Start, Promise!Stop, Promise!resume
  <2> QED BY <2>1, <2>2
<1> QED
  BY <1>1, <1>2, TypeCorrect, Capture, Resumes, PTL
     DEF Spec, KeepsPromise, Promise!Spec
=============================================================================
