----------------------------- MODULE SnapRestore -----------------------------
(***************************************************************************)
(* The snapshot / restore workflow of the demo: run-plain-and-snap.sh and  *)
(* snap-vm-qmp.py take a snapshot of a source VM, generate_cpu_state.sh    *)
(* turns its registers into cpu_state.bin, just-restore-from-snap.sh and   *)
(* reload-saved-memory-qmp.py rebuild the snapshot inside a target VM that *)
(* has booted OVMF's migration handler.                                    *)
(*                                                                         *)
(* Data are abstracted to epochs.  The source guest is in epoch e while it *)
(* runs; everything captured from it (a register dump, a page, a device    *)
(* state, a disk snapshot) is the number e, and 0 stands for "no such      *)
(* file" (or an empty one), "reset" or "firmware".  Two captures belong    *)
(* together exactly when their epochs are equal.                           *)
(***************************************************************************)
EXTENDS Integers

CONSTANTS
  NumPages,   \* page frames of the guest (-m 1G)
  HoleFirst,  \* frames HoleFirst .. HoleEnd - 1 are the migration handler's
  HoleEnd,
  Dd1Count,   \* snap-vm-qmp.py, in pages: count of the first dd, 0x80b
  Dd2Skip,    \* skip of the second, 0x80e
  Dd2Count,   \* and its count, 0x3f7f2
  Load1Size,  \* reload-saved-memory-qmp.py, in bytes: size of the first
              \* pmemload, 0x80b000
  Load2Val,   \* val of the second, 0x80e000
  Load2Size,  \* and its size, 0x3F7F2000
  GDT_PAGE,   \* frame of gdt_phys_addr, fixed in modify-mem-dump.c
  Pages,      \* guest page frames that are observed (any set of them)
  PtePage,    \* frame of the page table holding the trampoline page's PTE
  GuestGdt,   \* frame of the guest's GDT
  MaxEpoch,   \* bound on the number of source epochs
  Cuts,       \* lengths, in pages, at which a full disk cuts a file off
  FaultSets   \* sets of faults: in a run only those of one set happen

\* "slowboot": Linux is not up when the sleeps of run-plain-and-snap.sh end
\* "early":    the migration handler is not waiting when sleep 5 ends
\* "connect":  a QMP client cannot connect and dies with an exception
\* "hmp":      human-monitor-command returns an error, rsp['return'] raises
\* "cr3":      no "CR3=" in the register dump, m[1] raises after the quit
\* "short":    the disk is full, pmemsave or a dd leaves a file that is cut off
\* the others: that one command fails and leaves no file (or what was there),
\*             which only prints an error or makes "set -e" leave
\*             generate_cpu_state.sh
\* "stop", "quit" and rm -f are taken to succeed.
AllFaults == {"slowboot", "early", "connect", "hmp", "cr3", "savevm", "short",
              "pmemsave", "devsave", "modify", "dd1", "dd2", "regs", "gcc",
              "blob", "load1", "load2", "devload", "flag", "cont"}

PAGE == 4096   \* bs of dd, in bytes

\* The numbers of the two scripts, in their two units, describe one hole, the
\* handler's, and with it all of the guest's memory.
ASSUME LayoutAssumption ==
  /\ {NumPages, HoleFirst, HoleEnd, Dd2Count} \subseteq Nat
  /\ HoleFirst < HoleEnd /\ HoleEnd + Dd2Count = NumPages
  /\ Dd1Count = HoleFirst /\ Load1Size = HoleFirst * PAGE
  /\ Dd2Skip = HoleEnd /\ Load2Val = HoleEnd * PAGE
  /\ Load2Size = Dd2Count * PAGE

ASSUME ConstantsAssumption ==
  /\ Pages \subseteq 0..(NumPages - 1)
  /\ {PtePage, GuestGdt, GDT_PAGE} \subseteq Pages
  /\ MaxEpoch \in Nat \ {0}
  /\ Cuts \subseteq 0..NumPages
  /\ FaultSets \subseteq SUBSET AllFaults

VARIABLES
  sh,      \* control point of the operator's scripts
  said,    \* what the last script that ended told the operator
  proc,    \* the QEMU process: "off", "source" or "target"
  paused,  \* run state of the guest
  stage,   \* what the guest executes
  epoch,   \* current epoch of the source guest
  mem,     \* target memory: epoch of each page and whether it is patched
  cpu,     \* target: epoch of the CPU state passed through fw_cfg
  dev,     \* target: epoch of the device state, 0 if it is not a snapshot's
  disk,    \* target: epoch the disk was reverted to by -loadvm
  flag,    \* target: the handler's mailbox holds the content of mem-flag.bin
  save3,   \* epoch of the internal snapshot in the disk image
  file,    \* the files in the working directory and in state-blob/
  faults   \* what may go wrong in this run: fixed

vars == <<sh, said, proc, paused, stage, epoch, mem, cpu, dev, disk, flag,
          save3, file, faults>>
target == <<mem, cpu, dev, disk, flag>>
machine == <<proc, paused, stage, epoch, save3, target>>

Epochs == 0..MaxEpoch
Hole == {p \in Pages : HoleFirst <= p /\ p < HoleEnd}

\* A memory dump: the epoch it shows, whether Linux was running in it, its
\* length in pages and the two patches modify-mem-dump applies (NX of the PTE,
\* busy bit of the TSS).
Dump == [epoch : Epochs, linux : BOOLEAN, len : 0..NumPages,
         nx : BOOLEAN, tss : BOOLEAN]
Files == [dump : Dump, part1 : Dump, part2 : Dump, dev : Epochs,
          qemu : Epochs, gen : Epochs, blob : Epochs, cpu : Epochs]
NoDump == [epoch |-> 0, linux |-> FALSE, len |-> 0, nx |-> FALSE, tss |-> FALSE]

\* A page of the target: the epoch and the frame of the source page it holds,
\* and whether that page was patched.
PageContent == [epoch : Epochs, frame : 0..(NumPages - 1), fix : BOOLEAN]
Firmware == [epoch |-> 0, frame |-> 0, fix |-> FALSE]

\* The parts of the memory dump: dd cuts count pages from page skip on out of
\* mem-dump.bin, pmemload writes up to size bytes of the part at address val.
\* Mutant: a part that is one page too long.
Part1TooLong ==
  [skip |-> 0, count |-> Dd1Count + 1, val |-> 0, size |-> Load1Size + PAGE]
\* Mutant: dd skips a page.
Part1Shifted == [skip |-> 1, count |-> Dd1Count, val |-> 0, size |-> Load1Size]

Part1 == [skip |-> 0, count |-> Dd1Count, val |-> 0, size |-> Load1Size]
Part2 == [skip |-> Dd2Skip, count |-> Dd2Count, val |-> Load2Val, size |-> Load2Size]

ShPoints == {"idle", "boot", "rm", "s_connect", "s_regs", "s_savevm", "s_dump",
             "s_dev", "s_quit", "s_cr3", "s_modify", "s_dd1", "s_dd2",
             "g_parse", "g_gcc", "g_run", "r_connect", "r_load1", "r_load2",
             "r_dev", "r_flag", "r_cont"}

\* The scripts' type invariant.
TypeOK ==
  /\ sh \in ShPoints
  /\ said \in {"nothing", "ready", "finished"}
  /\ proc \in {"off", "source", "target"}
  /\ paused \in BOOLEAN
  /\ stage \in {"none", "booting", "waiting", "linux", "crashed"}
  /\ epoch \in Epochs
  /\ mem \in [Pages -> PageContent]
  /\ cpu \in Epochs /\ dev \in Epochs /\ disk \in Epochs /\ save3 \in Epochs
  /\ flag \in BOOLEAN
  /\ file \in Files
  /\ faults \in FaultSets

Init ==
  /\ sh = "idle" /\ said = "nothing"
  /\ proc = "off" /\ paused = FALSE /\ stage = "none" /\ epoch = 0
  /\ mem = [p \in Pages |-> Firmware]
  /\ cpu = 0 /\ dev = 0 /\ disk = 0 /\ flag = FALSE /\ save3 = 0
  /\ file = [dump |-> NoDump, part1 |-> NoDump, part2 |-> NoDump, dev |-> 0,
             qemu |-> 0, gen |-> 0, blob |-> 0, cpu |-> 0]
  /\ faults \in FaultSets

May(f) == f \in faults
Go(from, to) == sh = from /\ sh' = to

-----------------------------------------------------------------------------
(* The guest.  OVMF and Linux are not part of this repository.             *)

\* The source reaches Linux.
SourceBoots ==
  /\ proc = "source" /\ ~paused /\ stage = "booting"
  /\ stage' = "linux"
  /\ UNCHANGED <<sh, said, proc, paused, epoch, target, save3, file>>

\* A running Linux keeps changing its memory, registers, devices and disk.
GuestRuns ==
  /\ proc = "source" /\ ~paused /\ stage = "linux" /\ epoch < MaxEpoch
  /\ epoch' = epoch + 1
  /\ UNCHANGED <<sh, said, proc, paused, stage, target, save3, file>>

\* The target's OVMF reaches the migration handler, which waits for the flag.
\* Whether it clears the mailbox on its way is not known.
HandlerStarts ==
  /\ proc = "target" /\ ~paused /\ stage = "booting"
  /\ stage' = "waiting"
  /\ flag' \in {flag, FALSE}
  /\ UNCHANGED <<sh, said, proc, paused, epoch, mem, cpu, dev, disk, save3, file>>

\* The handler sees the flag and runs the trampoline.  It needs its own pages, a
\* CPU state, an executable trampoline page in the source page table and a TSS
\* that is not marked busy; otherwise it faults.
TrampolineWorks ==
  /\ \A p \in Hole : mem[p] = Firmware
  /\ cpu # 0
  /\ mem[PtePage].fix /\ mem[GuestGdt].fix

GuestResumes ==
  /\ proc = "target" /\ ~paused /\ stage = "waiting" /\ flag
  /\ stage' = IF TrampolineWorks THEN "linux" ELSE "crashed"
  /\ UNCHANGED <<sh, said, proc, paused, epoch, target, save3, file>>

\* Firmware that still boots writes its pages and resets the devices, also those
\* that have just been loaded ...
FirmwareWrites ==
  /\ proc = "target" /\ ~paused /\ stage = "booting"
  /\ \E p \in Pages : mem[p] # Firmware /\ mem' = [mem EXCEPT ![p] = Firmware]
  /\ dev' \in {dev, 0}
  /\ UNCHANGED <<sh, said, proc, paused, stage, epoch, cpu, disk, flag, save3, file>>

\* ... or, overwritten under its feet, it crashes.
GuestCrashes ==
  /\ proc = "target" /\ ~paused /\ stage = "booting"
  /\ \E p \in Pages : mem[p] # Firmware
  /\ stage' = "crashed"
  /\ UNCHANGED <<sh, said, proc, paused, epoch, target, save3, file>>

Guest == \/ SourceBoots \/ GuestRuns
         \/ HandlerStarts \/ FirmwareWrites \/ GuestCrashes \/ GuestResumes

-----------------------------------------------------------------------------
(* run-plain-and-snap.sh                                                   *)

\* run_plain_vm.sh in a new pane: a fresh source VM.
StartSource ==
  /\ Go("idle", "boot")
  /\ proc = "off" /\ epoch < MaxEpoch
  /\ proc' = "source" /\ paused' = FALSE /\ stage' = "booting"
  /\ epoch' = epoch + 1 /\ said' = "nothing"
  /\ UNCHANGED <<target, save3, file>>

\* The sleeps, Enter for grub and the login.
SleepForBoot ==
  /\ Go("boot", "rm")
  /\ May("slowboot") \/ stage = "linux"
  /\ UNCHANGED <<said, machine, file>>

\* Mutant: devices-state.bin is not removed.
KeepOldDevices ==
  /\ Go("rm", "s_connect")
  /\ file' = [file EXCEPT !.dump = NoDump, !.part1 = NoDump,
                          !.part2 = NoDump, !.qemu = 0]
  /\ UNCHANGED <<said, machine>>

\* rm -f of the dumps; the shell truncates qemu.txt when it starts the client.
RemoveOldDumps ==
  /\ Go("rm", "s_connect")
  /\ file' = [file EXCEPT !.dump = NoDump, !.part1 = NoDump,
                          !.part2 = NoDump, !.dev = 0, !.qemu = 0]
  /\ UNCHANGED <<said, machine>>

-----------------------------------------------------------------------------
(* snap-vm-qmp.py.  An exception leads to g_parse: the shell ignores the   *)
(* exit status and runs generate_cpu_state.sh next.                        *)

\* connect and "stop"
SnapConnect ==
  /\ \/ May("connect") /\ Go("s_connect", "g_parse") /\ UNCHANGED paused
     \/ Go("s_connect", "s_regs") /\ paused' = TRUE
  /\ UNCHANGED <<said, proc, stage, epoch, save3, target, file>>

\* "info registers" and the other info / gva2gpa / x commands.  An error reply
\* to one of them leaves the registers in qemu.txt or not.
InfoRegisters ==
  /\ \/ Go("s_regs", "s_savevm") /\ file' = [file EXCEPT !.qemu = epoch]
     \/ /\ May("hmp") /\ Go("s_regs", "g_parse")
        /\ file' \in {file, [file EXCEPT !.qemu = epoch]}
  /\ UNCHANGED <<said, machine>>

\* Mutant: no savevm.
SaveVmOtherName ==
  /\ Go("s_savevm", "s_dump")
  /\ UNCHANGED <<said, machine, file>>

\* HMP errors of savevm are text; QEMU may have deleted the old save3 first.
SaveVm ==
  /\ \/ Go("s_savevm", "s_dump") /\ save3' = epoch
     \/ May("savevm") /\ Go("s_savevm", "s_dump") /\ save3' \in {save3, 0}
     \/ May("hmp") /\ Go("s_savevm", "g_parse") /\ UNCHANGED save3
  /\ UNCHANGED <<said, proc, paused, stage, epoch, target, file>>

\* What of the file d gets onto the disk.
Written(d) ==
  {d} \cup {[d EXCEPT !.len = c] : c \in {c \in Cuts : May("short") /\ c < d.len}}

PmemSave ==
  /\ Go("s_dump", "s_dev")
  /\ \/ \E d \in Written([epoch |-> epoch, linux |-> stage = "linux",
                           len |-> NumPages, nx |-> FALSE, tss |-> FALSE]) :
          file' = [file EXCEPT !.dump = d]
     \/ May("pmemsave") /\ UNCHANGED file
  /\ UNCHANGED <<said, machine>>

\* Mutant: "cont" once everything has been saved.
SaveDevicesCont ==
  /\ Go("s_dev", "s_quit")
  /\ \/ file' = [file EXCEPT !.dev = epoch]
     \/ May("devsave") /\ UNCHANGED file
  /\ paused' = FALSE
  /\ UNCHANGED <<said, proc, stage, epoch, save3, target>>

SaveDevices ==
  /\ Go("s_dev", "s_quit")
  /\ \/ file' = [file EXCEPT !.dev = epoch]
     \/ May("devsave") /\ UNCHANGED file
  /\ UNCHANGED <<said, machine>>

SnapQuit ==
  /\ Go("s_quit", "s_cr3")
  /\ proc' = "off" /\ stage' = "none" /\ paused' = FALSE
  /\ UNCHANGED <<said, epoch, save3, target, file>>

SearchCr3 ==
  /\ Go("s_cr3", "s_modify") \/ (May("cr3") /\ Go("s_cr3", "g_parse"))
  /\ UNCHANGED <<said, machine, file>>

\* The page walk succeeds only on Linux's page tables; the GDT is patched at its
\* fixed address whatever the walk returned.  A dump that is cut off may lack the
\* page tables or the GDT, and mapping or reading it kills the tool.
ModifyMemDump ==
  /\ Go("s_modify", "s_dd1")
  /\ \/ file.dump = NoDump /\ UNCHANGED file
     \/ /\ file.dump # NoDump
        /\ file' = [file EXCEPT !.dump.nx = file.dump.linux, !.dump.tss = TRUE]
     \/ /\ file.dump # NoDump /\ (May("modify") \/ file.dump.len < NumPages)
        /\ \E nx \in {FALSE, file.dump.linux} :
             file' = [file EXCEPT !.dump.nx = nx]
  /\ UNCHANGED <<said, machine>>

\* dd copies what the dump has of the part, with status 0 even if that is short.
Cut(d, part) ==
  [d EXCEPT !.len = IF d.len < part.skip THEN 0
                    ELSE IF d.len - part.skip < part.count THEN d.len - part.skip
                    ELSE part.count]

DdPart1 ==
  /\ Go("s_dd1", "s_dd2")
  /\ \/ /\ file.dump # NoDump
        /\ \E d \in Written(Cut(file.dump, Part1)) : file' = [file EXCEPT !.part1 = d]
     \/ (file.dump = NoDump \/ May("dd1")) /\ UNCHANGED file
  /\ UNCHANGED <<said, machine>>

DdPart2 ==
  /\ Go("s_dd2", "g_parse")
  /\ \/ /\ file.dump # NoDump
        /\ \E d \in Written(Cut(file.dump, Part2)) : file' = [file EXCEPT !.part2 = d]
     \/ (file.dump = NoDump \/ May("dd2")) /\ UNCHANGED file
  /\ UNCHANGED <<said, machine>>

-----------------------------------------------------------------------------
(* generate_cpu_state.sh (set -e), then "Now you can run:" in any case     *)

Ready(from) == Go(from, "idle") /\ said' = "ready"

\* process_qemu_info_registers.py: a register without a value is a KeyError,
\* after the shell has truncated generated-state.i.
ProcessRegisters ==
  /\ \/ /\ file.qemu # 0 /\ Go("g_parse", "g_gcc")
        /\ file' = [file EXCEPT !.gen = file.qemu] /\ UNCHANGED said
     \/ /\ file.qemu = 0 \/ May("regs")
        /\ Ready("g_parse") /\ file' = [file EXCEPT !.gen = 0]
  /\ UNCHANGED machine

CompileBlob ==
  /\ \/ /\ Go("g_gcc", "g_run")
        /\ file' = [file EXCEPT !.blob = file.gen] /\ UNCHANGED said
     \/ May("gcc") /\ Ready("g_gcc") /\ UNCHANGED file
  /\ UNCHANGED machine

\* state-blob tests neither fopen nor fwrite.
WriteCpuState ==
  /\ Ready("g_run")
  /\ \/ file' = [file EXCEPT !.cpu = file.blob]
     \/ May("blob") /\ file' \in {file, [file EXCEPT !.cpu = 0]}
  /\ UNCHANGED machine

Snap == \/ StartSource \/ SleepForBoot \/ RemoveOldDumps
        \/ SnapConnect \/ InfoRegisters \/ SaveVm \/ PmemSave \/ SaveDevices
        \/ SnapQuit \/ SearchCr3 \/ ModifyMemDump \/ DdPart1 \/ DdPart2
        \/ ProcessRegisters \/ CompileBlob \/ WriteCpuState

-----------------------------------------------------------------------------
(* just-restore-from-snap.sh and reload-saved-memory-qmp.py                *)

\* restore_snapshot_plain_vm.sh: QEMU exits at once without save3 or without
\* the fw_cfg file, but takes an empty one.  -loadvm brings the disk, the memory
\* and the devices back, but OVMF then boots over memory and resets the devices:
\* which pages survive is not known, so none counts as the source's.
StartTarget ==
  /\ Go("idle", "r_connect")
  /\ proc = "off" /\ said' = "nothing"
  /\ \/ (save3 = 0 \/ file.cpu = 0) /\ UNCHANGED machine
     \/ /\ save3 # 0 /\ (file.cpu # 0 \/ May("blob"))
        /\ proc' = "target" /\ paused' = FALSE /\ stage' = "booting"
        /\ mem' = [p \in Pages |-> Firmware]
        /\ cpu' = file.cpu /\ dev' = 0 /\ disk' = save3 /\ flag' = FALSE
        /\ UNCHANGED <<epoch, save3>>
  /\ UNCHANGED file

\* sleep 5 (see "early"), then connect and "stop"; a client that cannot connect
\* dies, and the script says that it finished.
LoadConnect ==
  /\ May("early") \/ proc = "off" \/ stage = "waiting"
  /\ \/ /\ proc = "off" \/ May("connect")
        /\ Go("r_connect", "idle") /\ said' = "finished" /\ UNCHANGED paused
     \/ /\ proc # "off"
        /\ Go("r_connect", "r_load1") /\ paused' = TRUE /\ UNCHANGED said
  /\ UNCHANGED <<proc, stage, epoch, save3, target, file>>

\* Page p of a dump as modify-mem-dump left it.
PageIn(d, p) == [epoch |-> d.epoch, frame |-> p,
                 fix |-> (p = PtePage /\ d.nx) \/ (p = GDT_PAGE /\ d.tss)]

\* pmemload of a part: size bytes at address val, or fewer when the file is
\* shorter.  PageOf is the page of the file that comes to lie in frame p.
PageOf(p, part) == (p * PAGE - part.val) \div PAGE

Loaded(d, part) ==
  [p \in Pages |->
    IF /\ part.val <= p * PAGE /\ p * PAGE < part.val + part.size
       /\ PageOf(p, part) < d.len
    THEN PageIn(d, PageOf(p, part) + part.skip) ELSE mem[p]]

PmemLoad1 ==
  /\ Go("r_load1", "r_load2")
  /\ \/ file.part1 # NoDump /\ mem' = Loaded(file.part1, Part1)
     \/ (file.part1 = NoDump \/ May("load1")) /\ UNCHANGED mem
  /\ UNCHANGED <<said, proc, paused, stage, epoch, save3, cpu, dev, disk, flag, file>>

PmemLoad2 ==
  /\ Go("r_load2", "r_dev")
  /\ \/ file.part2 # NoDump /\ mem' = Loaded(file.part2, Part2)
     \/ (file.part2 = NoDump \/ May("load2")) /\ UNCHANGED mem
  /\ UNCHANGED <<said, proc, paused, stage, epoch, save3, cpu, dev, disk, flag, file>>

LoadDevices ==
  /\ Go("r_dev", "r_flag")
  /\ \/ file.dev # 0 /\ dev' = file.dev
     \/ (file.dev = 0 \/ May("devload")) /\ UNCHANGED dev
  /\ UNCHANGED <<said, proc, paused, stage, epoch, save3, mem, cpu, disk, flag, file>>

LoadFlag ==
  /\ Go("r_flag", "r_cont")
  /\ flag' = TRUE \/ (May("flag") /\ UNCHANGED flag)
  /\ UNCHANGED <<said, proc, paused, stage, epoch, save3, mem, cpu, dev, disk, file>>

\* Mutant: no "cont".
LoadNoCont ==
  /\ Go("r_cont", "idle") /\ said' = "finished"
  /\ UNCHANGED <<machine, file>>

LoadCont ==
  /\ Go("r_cont", "idle") /\ said' = "finished"
  /\ paused' = FALSE \/ (May("cont") /\ UNCHANGED paused)
  /\ UNCHANGED <<proc, stage, epoch, save3, target, file>>

Restore == \/ StartTarget \/ LoadConnect \/ PmemLoad1 \/ PmemLoad2
           \/ LoadDevices \/ LoadFlag \/ LoadCont

\* send-qmp-cmd.py <socket> quit, or ctrl-a x in QEMU's pane.
OperatorQuit ==
  /\ sh = "idle" /\ proc # "off"
  /\ proc' = "off" /\ stage' = "none" /\ paused' = FALSE
  /\ UNCHANGED <<sh, said, epoch, save3, target, file>>

Next == (Guest \/ Snap \/ Restore \/ OperatorQuit) /\ UNCHANGED faults

\* A script that has been started runs on, and so does a guest that is not
\* paused; nobody has to start a script or to quit a VM.
Fairness == /\ WF_vars((Snap \/ Restore) /\ sh # "idle" /\ UNCHANGED faults)
            /\ WF_vars((SourceBoots \/ HandlerStarts \/ GuestResumes \/ GuestCrashes)
                       /\ UNCHANGED faults)

Spec == Init /\ [][Next]_vars /\ Fairness

-----------------------------------------------------------------------------
(* Properties                                                              *)

Captured == {file.dump.epoch, file.part1.epoch, file.part2.epoch, file.dev}

\* One snapshot: the files the restore loads into the target were all captured
\* in the same epoch, whatever failed and whatever older runs left behind.
\* (snap-vm-qmp.py stops the VM first, run-plain-and-snap.sh:29 removes the
\* old dumps.)
SnapshotFrozen ==
  \A i, j \in Captured : i # 0 /\ j # 0 => i = j

\* Why it holds: nothing is left of older snapshots before the first capture,
\* and from the stop to the last copy the source's epoch cannot change.
CaptureInv ==
  /\ SnapshotFrozen
  /\ sh \in {"s_connect", "s_regs", "s_savevm", "s_dump"} => Captured = {0}
  /\ sh \in {"s_dev", "s_quit", "s_cr3", "s_modify", "s_dd1", "s_dd2"} =>
       Captured \subseteq {0, epoch}
  /\ sh \in {"s_regs", "s_savevm", "s_dump", "s_dev", "s_quit"} => paused
  /\ sh \in {"s_cr3", "s_modify", "s_dd1", "s_dd2"} => proc = "off"

\* The loads leave the handler's pages alone: code, stack and mailbox of the
\* trampoline lie in the hole between mem-dump-1.bin and mem-dump-2.bin.
HandlerIsolated == \A p \in Hole : mem[p] = Firmware

\* The faults after which a restored Linux is still one the source really was.
\* The others can leave a stale or unloaded piece behind that no later step notices.
HarmlessFaults == {"slowboot", "connect", "hmp", "cr3", "pmemsave", "modify",
                   "dd2", "load2", "flag", "cont"}
Harmless == faults \subseteq HarmlessFaults

\* The target is the source at the instant e.
WholeAt(e) ==
  /\ cpu = e /\ dev = e /\ disk = e
  /\ \A p \in Pages \ Hole : mem[p].epoch = e /\ mem[p].frame = p

\* As long as nothing worse happens than the harmless faults, a Linux that runs
\* in the target is one the source really was: registers, devices, disk and every
\* page outside the hole come from one epoch, and every page is in its place.
ResumeConsistent ==
  proc = "target" /\ stage = "linux" /\ Harmless =>
    \E e \in Epochs \ {0} : WholeAt(e)

\* Why ResumeConsistent holds.  A second part exists only next to a complete
\* snapshot, which the restore then finds unchanged; and the flag is up only
\* after everything has been loaded.
CompleteWhen(e) ==   \* what belongs to the snapshot e at the current point
  /\ e # 0 /\ save3 = e
  /\ sh \notin {"s_dev"} => file.dev = e
  /\ sh \in {"s_dev", "s_quit", "s_cr3", "s_modify", "s_dd1", "s_dd2",
             "g_parse"} => file.qemu = e
  /\ sh = "s_dd2" \/ file.part2 # NoDump => file.part1.epoch = e /\ file.part1 # NoDump
  /\ sh = "g_gcc" => file.gen = e
  /\ sh = "g_run" => file.blob = e
  /\ sh \in {"idle", "boot", "rm", "r_connect", "r_load1", "r_load2", "r_dev",
             "r_flag", "r_cont"} => file.cpu = e

SnapInv ==
  /\ sh \in {"boot", "rm", "s_connect", "s_regs", "s_savevm", "s_dump", "s_dev",
            "s_quit"} => epoch # 0 /\ proc = "source"
  /\ sh \in {"s_cr3", "s_modify", "s_dd1", "s_dd2"} => proc = "off"
  /\ sh \in {"g_parse", "g_gcc", "g_run"} => proc # "target"
  /\ sh \in {"s_regs", "s_savevm", "s_dump", "s_dev", "s_quit"} => paused
  /\ sh \in {"s_savevm", "s_dump", "s_dev"} => file.qemu = epoch
  /\ sh \in {"s_dump", "s_dev"} => save3 = epoch
  /\ sh \in {"s_connect", "s_regs", "s_savevm", "s_dump"} => file.dump = NoDump
  /\ sh \in {"s_connect", "s_regs", "s_savevm", "s_dump", "s_dev", "s_quit",
            "s_cr3", "s_modify", "s_dd1", "s_dd2"} => file.part2 = NoDump
  /\ sh = "s_dev" /\ file.dump # NoDump => file.dump.epoch = epoch
  /\ file.dump # NoDump => file.dump.len = NumPages
  /\ file.part1 # NoDump => file.part1.len = Dd1Count
  /\ file.part2 # NoDump => file.part2.len = Dd2Count
  /\ sh \in {"s_dev", "s_quit", "s_cr3", "s_modify", "s_dd1", "s_dd2"}
       /\ file.dump # NoDump => CompleteWhen(file.dump.epoch)
  /\ file.part2 # NoDump => CompleteWhen(file.part2.epoch)

LoadInv ==
  proc = "target" =>
    /\ sh \in {"idle", "r_connect", "r_load1", "r_load2", "r_dev", "r_flag", "r_cont"}
    /\ cpu = file.cpu /\ disk = save3
    /\ sh \notin {"idle", "r_connect"} => paused
    /\ flag => sh \in {"idle", "r_cont"}
    /\ stage = "linux" => flag
    /\ stage = "booting" => /\ sh \in {"idle", "r_connect"}
                            /\ ~flag /\ \A p \in Pages : mem[p] = Firmware
    /\ sh \in {"r_load2", "r_dev", "r_flag", "r_cont"} \/ flag =>
         \A p \in Pages : p < HoleFirst /\ file.part1 # NoDump =>
           mem[p] = PageIn(file.part1, p)
    /\ \/ \A p \in Pages : HoleEnd <= p => mem[p] = Firmware
       \/ /\ file.part2 # NoDump
          /\ \A p \in Pages : HoleEnd <= p => mem[p] = PageIn(file.part2, p)
    /\ (sh \in {"r_flag", "r_cont"} \/ flag) /\ file.dev # 0 => dev = file.dev

ResumeInv == Harmless => SnapInv /\ LoadInv /\ ResumeConsistent

\* Under the harmless faults the scripts implement module Resume: a complete
\* snapshot is the last instant of the source, and a guest that comes to life in
\* the target is the snapshot of that moment.  With other faults nothing is
\* promised, and the mapping stands still.  -1 is a guest of no single instant.
Promise == INSTANCE Resume WITH
  now <- IF Harmless THEN epoch ELSE 0,
  saved <- IF Harmless /\ file.part2 # NoDump THEN file.part2.epoch ELSE 0,
  running <- IF ~Harmless \/ proc # "target" \/ stage # "linux" THEN 0
             ELSE IF WholeAt(disk) THEN disk ELSE -1

KeepsPromise == Promise!Spec

\* "Now you can run: ./just-restore-from-snap.sh" is true when it is printed.
ReadyMeansRestorable ==
  said = "ready" =>
    \A i \in {file.part1.epoch, file.part2.epoch, file.dev, file.cpu} :
      i # 0 /\ i = save3

\* "+ Finished restore": the memory and the devices of the snapshot are in place.
FinishedMeansRestored ==
  said = "finished" /\ proc = "target" =>
    /\ dev = disk
    /\ \A p \in Pages \ Hole : mem[p].epoch = disk

\* When nothing fails the scripts' messages are true.
CleanMessagesTrue == faults = {} => ReadyMeansRestorable /\ FinishedMeansRestored

\* When nothing fails a restore that is started ends with Linux running in the
\* target, unless the operator quits the VM (or QEMU never started for lack of a
\* snapshot).
RestoreCompletes ==
  (sh = "r_connect" /\ proc = "target" /\ faults = {}) ~> (stage = "linux" \/ proc = "off")

=============================================================================
