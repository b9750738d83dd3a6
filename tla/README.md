# Resume from OVMF: verification project

The repository demonstrates how a running Linux guest can be rebuilt inside a
second VM by a *migration handler* in OVMF: scripts stop a source VM, save its
registers, memory and devices, patch the memory dump, and load everything into a
target VM in which OVMF waits for a flag. It also carries the Linux sources the
demo changes: `apic.c`, `apic.h` and the `zzzloop` debugging module. This
directory holds TLA+ models of that code, the TLC configurations that check
them, and TLAPS proofs about them.

    tlc -config SnapRestore.cfg MCSnapRestore.tla      # a run (see PROJECT.json)
    tlapm SnapRestoreProofs.tla                        # a proof module

## 1. The system

| Component | Source | State it keeps | Operations | Interacts with |
|---|---|---|---|---|
| Snapshot workflow | `run-plain-and-snap.sh`, `run_plain_vm.sh`, `snap-vm-qmp.py` | dump files, internal snapshot `save3`, script position | start VM, stop, info registers, savevm, pmemsave, xen-save-devices-state, quit, split the dump | QEMU over QMP; `modify-mem-dump`; the files it leaves are all the restore gets |
| CPU state generation | `state-blob/*` | `qemu.txt`, `generated-state.i`, `cpu_state.bin` | parse registers, compile, write | reads the snapshot's log, feeds fw_cfg of the target |
| `modify-mem-dump` | `memdump/modify-mem-dump.c` | the mapped dump | walk the guest's page tables, clear NX, clear the TSS busy bit | patches what the OVMF trampoline will execute |
| Restore workflow | `just-restore-from-snap.sh`, `restore_snapshot_plain_vm.sh`, `reload-saved-memory-qmp.py`, `send-qmp-cmd.py` | target VM | start, stop, pmemload x2, load devices, set flag, cont | migration handler in OVMF (external) through the mailbox |
| Local APIC life cycle | `apic.c` | APIC registers, `apic_pm_state` | init, setup, suspend, resume, offline, shutdown, disconnect | IO-APIC, firmware, an earlier or later kernel |
| Spurious and error interrupts | `apic.c` 2118-2213 | ESR, the APIC's latched errors | read and clear ESR, acknowledge | shares the registers with the life cycle |
| APIC mode: detection, mode selection, x2APIC | `apic.c` 1294-1441, 1745-2116 | `x2apic_state`, `x2apic_mode`, `apic_phys`, the driver, APICBASE of each processor | detect, switch, fall back, set up each processor, suspend, resume | firmware, command line, interrupt remapping |
| Interprocessor interrupt command register | `apic.c` 249-290, `apic.h` | ICR, ICR2 | write, wait, read | tasks and interrupt handlers on one processor |
| APIC timer and its calibration | `apic.c` 314-370, 462-1109 | LVTT, TMICT, `lapic_events`, `lapic_timer_period` | calibrate, verify, register, set a mode, program an event, broadcast | clock event core, PIT, PM timer, TSC, an earlier kernel |
| Stale interrupt clearing | `apic.c` 1484-1550 | IRR/ISR copies, round counter | read, acknowledge, repeat | the APIC, which moves bits meanwhile |
| Extended LVT offsets | `apic.c` 378-459 | `eilvt_offsets[]`, one register per offset and processor | reserve, program, free | drivers on all processors at once |
| Processor registration | `apic.c` 2302-2479 | `cpuid_to_apicid[]`, counters and maps | register, refuse, (unplug) | firmware enumeration, ACPI hotplug |
| `zzzloop` timer | `fs/proc/zzzloop.c` 140-216 | timer, counter | start, delete, tick | the kernel's timer core (external) |
| `zzzloop` loops | `fs/proc/zzzloop.c` 1-140 | debug flags | endless loops left by changing RIP | `generate_cpu_state.sh --escape-zzzloop` |
| Register access | `apic.h` | none | memory-mapped or MSR accessors | chosen by the installed driver |
| Small tools | `read-ovmf-log.py`, `connect-to-qemu-sock.sh` | none | print, connect | |

What is hard about it:

* The workflow is a chain of commands whose failures are mostly printed and
  ignored, over files that survive from one snapshot to the next, with fixed
  sleeps where it should wait. The property that matters is that whatever comes
  to life in the target *is* the source at one instant.
* `modify-mem-dump` repeats the processor's page walk in C. The four levels
  differ by a shift, and an error of one level still finds a plausible entry.
* The APIC code is a list of register accesses whose *order* is the algorithm.
  Firmware, a crash or a kexec may leave the registers in any of the states
  that lie between two accesses.
* The offset table is a lock-free compare-and-swap protocol; the stale-interrupt
  loop reads registers that change under it; the registration allocates IDs that
  must survive any history of hotplug.
* The timer handler re-arms itself on one processor while another deletes it.
* The APIC's mode is recorded in four places, written at different times by firmware,
  options and remapping; a disagreement makes every later access wrong.
* The timer is calibrated against references that may themselves run at the wrong
  speed, and its interrupts may be those of a kernel that is gone.

PROJECT.json lists the hazards line by line with the properties that watch them.

## 2. The modules

### SnapRestore: snapshot and restore

Data are abstracted to *epochs*: a running source moves from epoch to epoch, a
capture is the number of the epoch it was made in, 0 is "no such file", "reset"
or "firmware". Two captures belong together exactly when their epochs agree. A
memory dump also records whether Linux was running in it, its length and which patches
it has; a page of the target records the epoch and the *frame* of the source page it
holds, so a part that is shifted by a page is visible.

`sh` is the position in the operator's scripts. Every QMP or shell command that
changes state is an action (`SnapConnect` ... `DdPart2`, `ProcessRegisters`,
`CompileBlob`, `WriteCpuState`, `StartTarget` ... `LoadCont`), with its failure
as a second disjunct; `stop`, `quit` and `rm -f` are taken to succeed:

* an exception in `snap-vm-qmp.py` goes to `g_parse`, because the calling shell
  script ignores the exit status and runs `generate_cpu_state.sh` next;
* an error *reply* is printed and the next command follows;
* `set -e` in `generate_cpu_state.sh` leaves it; the shell script prints "Now you
  can run:" in any case (`Ready`);
* a shell redirection truncates its file before the command runs, and `state-blob`,
  which tests no call, may leave an empty one that QEMU accepts;
* the status of `os.system` is not looked at: a `dd` or `modify-mem-dump` that fails is
  followed by the next command;
* on a full disk (`short`) `pmemsave` and `dd` leave a file that is cut off, the next
  `dd` copies what there is with status 0, and `pmemload` loads what there is.

`dd` counts in pages and `pmemload` in bytes. Each has its own constants (`Dd1Count`,
`Dd2Skip`, `Dd2Count`; `Load1Size`, `Load2Val`, `Load2Size`), `PageOf` finds the page of the
file that comes to lie at an address, and `LayoutAssumption`, which TLC evaluates for the
scripts' numbers, says that both describe one hole.

The guest (`SourceBoots`, `GuestRuns`, `HandlerStarts`, `FirmwareWrites`, `GuestResumes`,
`GuestCrashes`) is external. The handler survives only if its own pages are
untouched, and the trampoline works only with the patched PTE, the patched
TSS and a CPU state. Firmware that is overwritten while it boots may crash, write over what was
loaded, or go on. `faults` is chosen at the start and fixed: in a behaviour only faults of
that set happen, so one run covers "nothing fails", "harmless failures", the failures of
QEMU's commands and those of the tools that write the snapshot's files.

Instance: the scripts' own numbers (the hole from page 0x80b to 0x80e, 1 GiB)
observed at nine pages: both sides of every boundary, the first and last page,
and the two pages that are patched. A file can be cut off (`MCCuts`) within the first part
or before the last page of the guest. `MaxEpoch` 3 lets two further snapshots follow
a first one, or a guest run between two captures: two are needed to mix
snapshots, the third is slack.

| Property | Says |
|---|---|
| `HandlerIsolated` | no load ever writes a page of the handler |
| `SnapshotFrozen` | the files of a snapshot never show two instants, whatever failed before |
| `ResumeConsistent` | after harmless faults, a Linux in the target has registers, devices, disk and every page from one epoch, each page in its place |
| `KeepsPromise` | after harmless faults, the workflow implements Resume |
| `CleanMessagesTrue` | without faults, "Now you can run" and "+ Finished restore" are true when printed |
| `RestoreCompletes` | without faults, a restore that was started ends with Linux running |

`HarmlessFaults` is maximal: adding any other fault breaks `ResumeConsistent` in TLC.
A source that takes too long to boot, lost connections, HMP errors, a missing CR3, a failing
`pmemsave` or `modify-mem-dump`, a failing second `dd` or second `pmemload`, a flag or a `cont`
that does not arrive all end in no guest or in a consistent one. After the others (`savevm`,
`short`, `devsave`, `dd1`, `regs`, `gcc`, `blob`, `load1`, `devload`) a stale, missing or short
piece is left that no later step notices; and when the migration handler is not ready after
`sleep 5` (`early`), firmware may write over pages or reset devices that have just been loaded
and then start Linux. Nothing in the scripts prevents that, so no property promises anything
about it: `SnapshotFrozen` and `HandlerIsolated` hold under every fault, the others say which
they allow.

Resume is the abstract specification, in three variables: the instant `now` the
source has reached, the instant `saved` of the complete snapshot (0 if there is
none) and the instant `running` that a restored guest started from. A snapshot is
taken at `now`, the last instant of the source, so nothing that the source did
is missing from it; a guest starts only from `saved`; the source does not run next
to it, since both write the same disk. `ResumeConsistent` says that a restored
guest is *some* instant; `KeepsPromise` says *which* one, at which moment it is
fixed, and in what order. The mapping: `now` is `epoch`, `saved` the epoch of the second
part of the dump (the last file of a snapshot to be written), `running` the
target's disk if the target is whole at that epoch and -1, a value that no step of Resume can
take, if it is not. With a fault that is not harmless nothing is promised and the
mapping stands still. The mutant "cont after saving" shows what it sees that the
other properties do not: each captured file agrees with the others, and yet the source went
on behind the snapshot's back.

Fairness: a script that runs goes on, a guest that is not paused goes on. Nobody
has to start a script or quit a VM.

### MemDump: `modify-mem-dump`

The walk as one action per level (`WalkPgd` ... `ClearNx`), its error returns, and
`PatchTss`, which runs whatever the walk returned. A page has `Entries` = 2 words,
so an address has four binary digits and every index and mask still has its own
digit; `NumFrames` = 4 allows tables that point to themselves and to each other.
The processor's walk (`HwPgd` ... `HwPte`, external) is written independently.
TLC starts from every filling of the dump's path with table words and checks

* `PatchExact`: the words changed are exactly the NX bit of the PTE the processor
  uses and the busy bit of the TSS word, also when the walk passes the same table
  twice;
* `FailureIsClean`: an error return means that only the TSS word was changed, and that no 4K page maps the
  address.

`MemDumpHuge.cfg` shows the exception, `NxCleared`: an address mapped by a huge
page is walked as if the huge page were a page table. The program returns 0,
leaves the page no-execute and clears bit 63 of a word of guest data.

### CpuEnum: `generic_processor_info`

One action per outcome (`Refuse`, `RegisterBoot`, `RegisterKnown`, `RegisterNew`) and
the external `Unplug`. Six APICs, four logical CPUs and one APIC that
`disable_cpu_apicid` names reach every limit. `MappingInjective`, `BootSlotFree`, the
invariant `EnumInv` (the allocated IDs are contiguous and agree with both counters) and
the action property `Persistent` ("an ID once given keeps its APIC") are checked and
proved.

### ZzzTimer: the periodic timer

The handler's three steps (re-arm, read, write) against processes that read the
start and delete files on two processors. The timer core is external: one base
per timer, one handler at a time, and a timer changes its base only while its
handler is not running. `CounterExact`: the unprotected increment loses nothing.
`KeepsTicking`: a started timer ticks, under weak fairness of the softirq; a new
start may always move the deadline. `MaxTicks` bounds the counter.
`ZzzTimerDel.cfg` shows `DeletedMeansStopped` violated: `del_timer` does not wait,
so on two processors the handler re-arms a timer that was reported deleted.

### Eilvt: extended LVT offsets

`setup_APIC_eilvt` per processor: read the register, read the table, decide,
compare-and-swap until the table holds the own entry (`Reserved`), and, as a step of its own
since the table may change again meanwhile, check and write the register (`Program`).
`requests` is what drivers ask for, fixed in a behaviour: enabling only, or
enabling, masking and freeing. Two processors, two vectors and one offset (calls
for different offsets share nothing), `MaxCalls` 2 each, and firmware that left
nothing, a masked or a live entry.

`ConsistentOffsets` (one vector per offset on all processors while nobody frees),
`ReservationKept` (a stale copy never hands a reserved offset on),
`LiveRegisterKept` (a live register is never switched to another vector) and
`CallReturns`. Fairness: callers run with preemption disabled, so a call goes on.
What happens after a processor frees an offset that others use is in the model, but no
property holds of it (section 5).

### PendingIntr: `apic_pending_intr_clear`

Every read of one IRR or ISR bit, every EOI and every move of a bit by the APIC is
a step; the code reads 32 bits at once, so the model has more interleavings, not
fewer. `obeys` says whether the APIC keeps up. `NothingMissed` (a return without the
warning means nothing is pending), `AckHasTarget` (no superfluous EOI),
and `NeverGivesUp` (an APIC that obeys is clear within N + 2 rounds: 512 rounds are
plenty for 256 vectors). N = 4 and `MaxLoops` = N + 2 = 6, the least
for which `NeverGivesUp` may hold. Only an APIC that obeys is assumed to move.

StaleClear is the abstract specification: one flag for "something is stale", which
may vanish but never comes back, and a return that is silent only when nothing is
left. `KeepsPromise` is the refinement (`Promise`: the flag is IRR \cup ISR # {}, the
outcome is `pc`), including that the call returns; its safety part is proved.

### LocalApic: the registers from boot to shutdown

A function is a sequence of accesses kept in `todo`; `Continue` makes the next one
on the modelled APIC, which behaves as the code's comments rely on: a software
disabled APIC forces all mask bits, writing an LVT entry with vector zero is an
error, ESR shows errors after a write (or, up to three LVT entries, until a
read). The callers are actions (`EarlyInit`, `Setup`, `Suspend`, `Resume`, `Offline`,
`Shutdown`, `Disconnect`). `NewKernel` is a crash or kexec *between any two accesses*.
The configuration (`hw`) is arbitrary and fixed: CPU 0 or another, 3 or 6 LVT
entries (the proofs allow any), SMP configuration, `noapic`, `apic_extnmi=`, `nolapic`; except
`mapped`, which each kernel decides anew. It stands for `x2apic_mode || apic_phys`, without which
`clear_local_APIC` and `disable_local_APIC` return early: with `nolapic`, and, as X2apic shows
(`x2apic_clear`), with an APIC that *is* mapped after x2APIC mode has been given up. Firmware hands over
reset registers or virtual wire mode with an open error entry and a foreign TPR.

| Property | Says |
|---|---|
| `NoStrayError` | none of the kernel's own accesses raises an error interrupt; after an early return of `clear_local_APIC` the last ones of `disconnect_bsp_APIC` may |
| `MaskedBeforeCleaned` | while shutting down, no enabled source is rewritten before it is masked |
| `DownIsClean` | an APIC that is down is disabled and masked, with clean entries and no latched error. After the early returns: only that it is disabled, by `apic_soft_disable`, and CPU 0's is left enabled |
| `ErrorsReported` | a running kernel has LVTERR open and no error of its own setup or of an earlier kernel; an error of the bus it has not read yet is about to be reported |
| `EnabledWhenReady` | the APIC is enabled with TPR set and no stale interrupt (or after the warning) |
| `SwitchedWhenQuiet` | suspend and resume switch it only while the IO-APIC is masked |
| `ResumeRestores` | resume brings every register back, whatever the firmware did |
| `LegacyDelivered` | legacy interrupts pass in virtual wire mode and without an IO-APIC |

`apic_pending_intr_clear` appears here as one step with the promise of StaleClear.
`DetectError` may latch an error at any moment once the kernel sets the APIC up. The
first one after a write of ESR requests an interrupt, later ones do not: an error that was
latched while LVTERR was masked, and not cleared afterwards, would deafen the APIC.
`sysvec_error_interrupt` is again a sequence of accesses, put in front of the function
it interrupts. `Errors` tells "real" ones from "old" ones, which the kernel caused itself
by writing vector zero or which an earlier kernel left.

### X2apic: the register interface

Three records (`x2apic_state`, `x2apic_mode`, `driver`) and the hardware (`base`, the mode
bits of APICBASE per processor). `pc` is where a processor is in its boot: for the boot
processor `setup_nox2apic`, `check_x2apic`, `init_apic_mappings`, `__apic_intr_mode_select`,
`enable_IR_x2apic` (remapping may fail to prepare, to enable, or come up in either mode;
saving the IO-APIC may fail), the probe of the drivers (external), the setup, suspend and
resume; for the others `x2apic_setup` after firmware has left them in a mode of its own.
`conf` is the firmware and the command line, arbitrary within `Sensible`. The drivers' `probe`
routines are external and taken to follow `x2apic_mode`. The two
writes of `__x2apic_disable` are two steps. Interprocessor interrupts are sent by a task and
by a handler that interrupts it anywhere interrupts are on.

| Property | Says |
|---|---|
| `RightInterface` | every access uses the interface the processor's APIC answers to |
| `LegalSwitch` | APICBASE is never written in a way the processor refuses |
| `BigIdAddressable` | an APIC whose ID only x2APIC can address stays in x2APIC mode |
| `IpiIntact` | an interprocessor interrupt goes where it was sent |

Two application processors (one comes up while the other runs), two destinations. The
states "panic" and "pic" end the model, hence no deadlock check. `StrayWake` = FALSE says
that firmware does not wake a kernel in x2APIC mode that had left it. Setting it to
TRUE violates `RightInterface`, so this hazard is described and not excluded: `lapic_resume` sets only the enable bit, and just
`x2apic_setup` has a fallback ("disable it if already enabled from BIOS", apic.c:1805).
`X2apicClear.cfg` shows `ClearNotSkipped` violated, see section 5.

### LapicCal and LapicTimer: the local APIC timer

LapicCal is the measurement: `lapic_cal_handler`, the polling loop, `calibrate_by_pmtimer`
and the period that comes out, with the code's integer divisions on small numbers. `bench` is the truth that the code does not
know: how long a tick of the reference really lasts, how fast the timer counts, where the
PM timer starts. All three counters are finite: the APIC's starts at `Tmict` (the largest
unsigned int, over the divisor) and starts again at it after zero, the PM timer wraps at
`PmWrap`, and the arithmetic is that of `long`, `u64` and `unsigned int` (`Word`, `Uint`).
LapicTimer composes it with the registers (`lvtt`, `count`, `dl`), the interrupt,
the device `evt` and the boot: calibration, verification, registration, the clock event
core's calls, broadcast, and hotplug. Register writes are made one by one from `todo` with
interrupts off. In xAPIC mode a write of LVTT waits in `post` until `Drain`, later writes
of APIC registers come after it, MSR writes do not: that is what the `mfence` is for.

| Property | Says |
|---|---|
| `CalibrationHonest` | an accepted period that was referenced by the PM timer is right to 1 %; one verified by jiffies to the ticks the check allows |
| `TickSource` | a machine that skips the PIT has a local timer that is not a dummy |
| `StrayHarmless` | a timer an earlier kernel left on is silent after at most two interrupts; none finds the freed handler |
| `Fires` | every event programmed has its handler called |
| `BootEnds` | calibration ends |

Fairness: the hardware acts, the processor makes the writes it has begun, takes its
interrupts and goes on booting; the core and hotplug need not do anything. A machine without
TSC polls jiffies, which move because such a machine has the PIT (`NeedsPit`).
Instance: all combinations of eleven features (for machines that calibrate, the ones that change
nothing are fixed), a tick of 40 units so that 1 % of the 200 measured is 2,
references that are true, slow by 2.3 (the factor the source reports) and fast, a stall
longer than two ticks, a PM timer that wraps during the measurement; timers of rates 1,
3 and 40: the first below the minimum unless a slow reference flatters it, the second above it
unless a fast one does the opposite, the third the fastest the hypotheses of `CalibratedRight`
(section 4) allow with `Uint` = 2^17. `Word` = 2^26 is the least power of two
that `CalAssumption` allows.

## 3. The runs

| Run | Module | Distinct states | Shows |
|---|---|---|---|
| `snap` | MCSnapRestore | 1 101 065 | all properties of SnapRestore, and that it implements Resume |
| `memdump` | MCMemDump | 404 236 | the patch is exact, failures are clean |
| `memdump_huge` | MCMemDump | violation | a huge page is taken for a page table |
| `cpu_enum` | MCCpuEnum | 2 490 | ID allocation under any hotplug history |
| `zzz_smp` | MCZzzTimer | 2 560 | counter and liveness of the timer |
| `zzz_del_race` | MCZzzTimer | violation | deleted is not stopped |
| `eilvt` | MCEilvt | 264 605 | the reservation protocol |
| `pending` | MCPendingIntr | 22 976 | the clearing loop |
| `local_apic` | MCLocalApic | 2 639 082 | the order of register accesses, error interrupts |
| `x2apic` | MCX2apic | 58 475 | one interface, legal switches, intact interprocessor interrupts |
| `x2apic_clear` | MCX2apic | violation | a mapped APIC is not cleared |
| `lapic_timer` | MCLapicTimer | 117 707 | calibration, stray interrupts, liveness of the timer |

Deadlock is checked except where the system may stop: SnapRestore (no more
epochs), MemDump (the program ends), Eilvt (`MaxCalls`), PendingIntr (returned),
X2apic (panic, PIC mode) and LapicTimer (a machine without a timer).
Every checked property has a mutant: an operator marked "Mutant:" next to the
definition it replaces, a plausible bug that TLC finds through that property. Type invariants
are proved (section 4) and not repeated as invariants of the runs, except LocalApic's, which
says something by itself: the task priority stays in its range.

## 4. The proofs

For all values of the constants, under the named ASSUMEs of each module:

| Theorem | Statement |
|---|---|
| `TypeCorrect` of all but CpuEnumProofs, and `ToolingProofs!ZzzTypeCorrect` | `Spec => []TypeOK` |
| `LocalApicProofs!NeverStray, DownClean, Reported, Restores, Delivered` | the five state properties of LocalApic, from `LvtAssumption` and `FirmwareAssumption` |
| `LocalApicProofs!MaskedFirst, ReadyFirst, QuietFirst` | its three action properties |
| `X2apicProofs!InterfaceRight, BigIdKept, SwitchesLegal` | the mode, any number of processors, if firmware does not wake in a mode the kernel left (`StrayWake = FALSE`) |
| `X2apicProofs!IpisIntact` | `Spec => []IpiIntact`, any destinations |
| `X2apicProofs!ClearsAfterOtherFirmware` | `ClearNotSkipped` after any firmware that had not enabled x2APIC mode |
| `LapicTimerProofs!StraysSilenced, TickKept` | `Spec => []StrayHarmless`, `Spec => []TickSource`, any machines |
| `LapicTimerProofs!CalibratedRight` | `Spec => []CalibrationHonest`, any numbers with which the measurement stays below one turn of the PM timer and below zero of the APIC's counter, and the period fits an `unsigned int` |
| `ToolingProofs!TicksCounted` | `ZzzSpec => []CounterExact`, any processors and processes |
| `ToolingProofs!DeletedOnOneCpu` | `DeletedMeansStopped` with a single processor |
| `ToolingProofs!PatchedExactly, FailsCleanly` | the patch, any radix, dump and tables |
| `ToolingProofs!SmallPageExecutable` | after the tool a 4K page can be executed |
| `SnapRestoreProofs!Isolation` | `Spec => []HandlerIsolated`, any faults, from `LayoutAssumption` (the pages of `dd` and the bytes of `pmemload` describe one hole, and the parts tile the rest) |
| `SnapRestoreProofs!Frozen` | `Spec => []SnapshotFrozen`, any faults |
| `SnapRestoreProofs!Messages` | `Spec => []CleanMessagesTrue`, any pages and number of snapshots |
| `SnapRestoreProofs!Consistency` | `Spec => []ResumeConsistent`, if the GDT lies above the hole |
| `SnapRestoreProofs!Implementation` | `Spec => KeepsPromise`: SnapRestore implements Resume, if the GDT lies above the hole |
| `CpuEnumProofs!Enumeration, Injective, BootSlot, Persistence` | the allocation, for any IDs and limits |
| `EilvtProofs!Consistency, Reservation, LiveRegister` | the table protocol and the registers, any processors, offsets, vectors |
| `PendingIntrProofs!Cleared, AckTargets, Terminates` | the loop, any number of vectors and rounds |
| `PendingIntrProofs!Implementation` | `Spec => Promise!Safety`: PendingIntr implements StaleClear |

ToolingProofs extends both MemDump and ZzzTimer; that is why the common names of ZzzTimer
carry a prefix (`ZzzInit`, `ZzzNext`, `ZzzSpec`, `ZzzTypeOK`). Three of the theorems belong
to a violation run and draw its limits: the run shows that the property fails, the theorem that
it holds everywhere else (a huge page, a second processor, x2APIC enabled by firmware).

Every safety property that a passing run checks, invariant or action property, is a theorem.

The inductive invariants, and why the property alone is not enough:

* `CaptureInv` for `SnapshotFrozen`: before the first capture nothing of an older
  snapshot is left, and from the stop to the last copy the epoch cannot change.
* `ResumeInv` = `SnapInv` /\ `LoadInv` for `ResumeConsistent`. A second part exists only
  next to a complete snapshot (`CompleteWhen`), whose files have their full length; while the
  firmware boots nothing has been loaded; the target's registers and disk are
  those of the files; the flag is up only when the first part and the devices have
  been loaded. A trampoline that works needs the patched GDT page, which lies in the
  second part: so the second part was loaded, so the snapshot was complete. This
  argument is why a failing second `pmemload` is harmless and a failing first is not.
* `Moves`, for SnapRestore's `KeepsPromise`: every action is one of six changes of
  `epoch`, the second part and the running guest (`GuestMoves`, `SnapMoves`,
  `RestoreMoves`), and each of those is a step of Resume or a stutter. A new
  second part is of the current epoch by `CaptureInv`; the guest that starts is the
  saved one by `LoadInv` and `CompleteWhen`; it is whole by `ResumeConsistent`.
* `EnumInv` for CpuEnum: the allocated slots are an initial segment, injective, and
  the boot APIC has no second slot; the counters equal cardinalities.
* `CleanSnap` and `CleanLoad` for `CleanMessagesTrue`: without faults no file is left out,
  and a restore that runs has a target whose handler was waiting before the first load;
  with `SnapInv` and `LoadInv` what is there is then the whole of one snapshot.
* `TableInv` for Eilvt: the table holds the vector of every programmed register, and of every
  one that a call is about to program.
  `OldCurrent` for `LiveRegisterKept`: the register a call read at its start has not changed
  since, because only its own processor writes it, when the call ends.
* `RunInv` and `SeenInv` for PendingIntr: a bit that was passed in this round was seen
  as a request or in service; with `DueInv` the EOIs still due never exceed what is in
  service. `RoundsInv` for `NeverGivesUp`: `Progress` says that a round of an APIC that obeys
  reads something in service or finds everything clear, `Account` that the first round
  acknowledges what is not requested and each later one at least one interrupt.
* `IInv` for LocalApic speaks of what is still to come. A function is a sequence of accesses in
  `todo`, and any tail of it may be what is left. Three predicates on a sequence `s` and
  sets of accesses suffice, and each is kept by taking the head off and by putting sequences in
  a row: `Free(s, X)`, no access of X is to come; `Ordered(s, X, Y)`, none of Y comes after one
  of X; and `Settles(s, X, Y)`, moreover none of Y when none of X. What an access has reached is claimed once it is
  no longer to come: "LVT0 is masked" when `Free(todo, {SetMask("LVT0")})`. For each program a lemma
  (`ClearProgram`, `BspSetup`, `DownProgram`, `ResumeProgram`, ...) shows once, for every value
  of `hw`, that it is ordered as the invariant needs; for each kind of access `AccessEffect` says
  what it does to the registers; a step then needs neither the programs nor the hardware.
  `StrayInv`: no entry gets vector zero unless LVTERR is masked or about to stay so.
  All of that is claimed of a `mapped` APIC; for one that is not, `DownUnmapped` says that the ways
  down only save, mask the IO-APIC and call `apic_soft_disable`, and `Detached` that
  only a disconnection may then raise an error.
  `WireInv`, `SetupInv`, `DownInv`, `ResumeInv`: what the early setup, the setup, the ways down
  and the resume have reached so far. `SavedInv`: from the save to the last restore `pm.saved` is
  what suspend found. `QuietInv`: SPIV is switched only after the IO-APIC has been masked.
  `UpInv`, `DownState`, `ResumedState`: the phases with nothing to come. `ErrorInv`: ESR is cleared
  before LVTERR is opened and once more after it, so that what is latched when both are done was
  detected with the entry open, and its interrupt is requested. The accesses of `sysvec_error_interrupt` are put in
  front of the rest, which the lemmas on `\o` cover.
* `IInv` for X2apic: at every point of the boot the records determine the hardware. `Records` ties
  the records to each other and to what the firmware did, `BootMode` is the mode of the
  boot processor label by label, `ApMode` says that the others follow a boot processor
  that is up. `SendInv` for `IpiIntact`: at most one sender is between its writes and it has
  interrupts off. `PhysSet` for `ClearsAfterOtherFirmware`: past `init_apic_mappings` `apic_phys`
  is set unless that function took the exit for x2APIC mode or there is no APIC at all.
* `IInv` for LapicTimer: `Handlers` says which handler the device has at each point of the
  boot; `Stray` that after the first interrupt without a handler the timer is masked or is
  about to be (`Silencing`: `todo`, `post` and `lvtt` taken together), so that at most one
  more was pending; `Calibrated` that every way for the verification's interrupt to arrive
  is closed before the init memory can go. `TickInv` for `TickSource`: a machine that skips
  the PIT never calibrates, and the template is not a dummy (or becomes a deadline timer)
  from `setup_boot_APIC_clock` on, each time a processor sets its device up.
* `CalInv` for `CalibrationHonest`: the k-th call of `lapic_cal_handler` after the first reading
  comes at most k times `M` later (`Measuring`; `M` bounds a tick of the reference plus a delay
  of the loop), and while the timer is verified exactly k of its periods later (`Verifying`).
  `Overrun` then says that the difference of two PM timer readings, with ACPI_PM_OVRRUN added if it is
  negative, is the time between them, `Accurate` and `Agreed` what the code's
  integer divisions make of it. The hypotheses are needed. `L * M < PmWrap`: with a measurement
  longer than one turn of the PM timer (4.7 s) TLC finds a wrong period that is accepted, since
  `calibrate_by_pmtimer` allows for one overrun only. `r * ((L + 2) * M) < Tmict` for every rate
  r: a counter that passes zero during the measurement or the verification loses a turn (with `Uint` = 2^16
  TLC finds the wrong period). With the code's 0x0fffffff and an APIC bus of 1 GHz that is 4.3 s, less than the PM timer's
  turn. `Div * r * U < Uint`: the period must fit the `unsigned int` it is stored in.
* `ZzzInv` for ZzzTimer: a handler runs only on the timer's base (`OnBase`), so two never
  overlap, and one that is between its read and its write has read the present value
  (`Counting`). `Stopped`, with one processor: who has read "deleted" keeps the handler out.
* `IInv` for MemDump: `OnTheWay`, the tool's frame at each level is the processor's, and
  `Changed`, which words may differ from the first dump; self-referencing tables are no
  exception since nothing is written before the walk has ended.

Only model-checked: liveness (`RestoreCompletes`, `KeepsTicking`, `CallReturns`, `Fires`,
`BootEnds`, the liveness of PendingIntr's `KeepsPromise`), because fairness and ENABLED are out
of the prover's reach.

## 5. Findings and observations

The violation runs are findings in PROJECT.json:

* `memdump_huge`: `ClearPageNXFlag` walks a huge page as if it were a page table, reports
  success, leaves the page no-execute and changes a word of guest data.
* `zzz_del_race`: `del_timer` does not wait for a running handler, which re-arms the timer
  after "zzzloop_timer deleted" was printed.
* `x2apic_clear`: firmware enabled x2APIC mode, `init_apic_mappings` therefore returned
  before setting `apic_phys`, and the kernel later fell back to xAPIC mode. The APIC is mapped
  then, but `clear_local_APIC` and `disable_local_APIC` still take the exit of "APIC hasn't
  been mapped yet" at suspend, shutdown and kexec. LocalApic (`mapped` = FALSE) has the
  consequence: the boot processor's APIC stays enabled with its entries as they were, and
  `disconnect_bsp_APIC` may raise an error interrupt, which `DownIsClean` and `NoStrayError` except.

Seen on the way, without a run:

* "+ Finished restore" and "Now you can run:" are printed whatever the QMP commands
  returned, also after a refused `pmemload`. `CleanMessagesTrue` therefore speaks of behaviours
  without failures.
* `just-restore-from-snap.sh` sleeps five seconds and calls it waiting for the
  handler. When OVMF is slower, memory is overwritten under a booting firmware. What that
  firmware does then is not in this repository; the model (`early`) lets it crash, write over
  what was loaded or go on, and TLC finds a Linux that is not the source's at any instant. It is therefore not among the harmless faults.
* The comment at apic.c:865, "there is no way the lapic can underflow", holds for a calibration
  that is not delayed: a fast APIC bus underflows before the PM timer wraps (section 4).
* One processor's APIC_EILVT_MASKED frees the shared table entry while others still use the
  offset, which is then given to a second vector, although the comment at apic.c:380 asks for
  one vector on all cores. `ConsistentOffsets` speaks of behaviours in which nobody frees.
* The compare-and-swap loop ends only when it finds its own entry. Two processors
  that keep asking for the masked and the enabled form of one vector can undo each
  other's swap for ever; `CallReturns` therefore speaks of enabling requests only.
* After -EBUSY the reservation of the offset stays in the table.
* `setup_local_APIC` reads LINT0's mask bit (line 1686) after it has disabled the APIC
  (line 1572), which sets that bit: `!value` is never true, and LINT0 stays open only
  without an IO-APIC.
* `lapic_resume` does not leave x2APIC mode when firmware wakes in it a kernel that runs in
  xAPIC mode (`StrayWake`).
* `apic_needs_pit` looks at the TSC deadline feature before `noapictimer`: on a UP machine with
  both there is neither a PIT nor a local timer. `TickSource` excepts it. On SMP the same
  option registers a real deadline timer, where the comment (apic.c:1010-1014) says dummy.
* `lapic_timer_shutdown` does not disarm a TSC deadline; it stays armed behind the mask and
  may fire when the timer is set to one-shot mode again. In the model it is an early tick.
* A timer of an earlier kernel that is still on when the calibration starts would be
  stopped by `local_apic_timer_interrupt` together with the counter that is being measured.
  It does not happen only because `setup_local_APIC` masks the entry and retires what is pending.

## 6. What is not modelled

* The text of the register dump and of `generated-state.i`; the endless loops of `zzzloop` and
  `--escape-zzzloop`, which replaces RIP: they rely on where the compiler puts the NOP
  slide, which no source shows.
* What survives of `-loadvm`'s memory after OVMF has booted over it: no page counts
  as the source's until it is loaded. OVMF and QEMU are external.
* The GDT address in `modify-mem-dump.c` is fixed in the source: that it is the guest's
  is an assumption of the instance (`GuestGdt`), and the low bits of CR3 are zero.
* In SnapRestore: a failure of `stop`, `quit` or `rm -f`, and the operator's interrupt of a
  script that runs.
* In PendingIntr the APIC's priority is per vector, not per class of 16.
* In LocalApic: the 32-bit branches and the 82489DX, `legacy_pic->mask_all` and interrupt
  remapping. A real error is one kind; its bits are only printed.
* In X2apic: the `probe` routines and the driver picked from the MADT, the CPU families of `detect_init_APIC`, the comparison of two reads of
  the ID in `__apic_intr_mode_select`, the wait for an idle ICR (its time-out only counts), and
  application processors that come up at the same moment (the hotplug lock prevents it).
* In LapicTimer: `lapic_update_tsc_freq`, which races with the clock event core of other
  processors, the TSC readings of the calibration (printed only), the erratum table, and
  the message that `apic_zzz_debug_flag` adds to the timer interrupt. The reads of
  one `lapic_cal_handler` call are taken to happen at one moment.
* Command-line parsing, log printing, the small tools.

## 7. What could follow

1. `RightInterface` with a hypothesis on each resume instead of `StrayWake = FALSE` for all.
2. LapicTimer with a second processor, for `lapic_update_tsc_freq` and the broadcast of a
   processor that goes idle.

The passing runs ask 40 properties of eight models; the longest takes under two minutes.
A property of a new module should replace a weaker one rather than lengthen the list.
