------------------------------- MODULE X2apic -------------------------------
(***************************************************************************)
(* The register interface of the local APIC (arch/x86/kernel/apic/apic.c):  *)
(* the kernel command line, the firmware and interrupt remapping decide     *)
(* whether the APICs run in xAPIC mode, reached through memory, or in       *)
(* x2APIC mode, reached through MSRs.  Three records of that decision must  *)
(* agree with the hardware at every access: x2apic_state, x2apic_mode and   *)
(* the installed driver.  A boot processor, processors that come and go,    *)
(* suspend and resume, and interprocessor interrupts sent from a task and   *)
(* from the interrupt handler that interrupts it.                           *)
(***************************************************************************)
EXTENDS Naturals

CONSTANTS
  Boot,        \* the boot processor
  Aps,         \* the application processors
  Dests,       \* destinations of interprocessor interrupts
  StrayWake    \* firmware may wake in x2APIC mode a kernel that left it

Cpus == Aps \cup {Boot}
Modes == {"off", "xapic", "x2apic"}

ASSUME X2apicAssumption ==
  Boot \notin Aps /\ StrayWake \in BOOLEAN /\ Dests # {}

\* What the firmware left and the command line asks for.
Confs == [bios : Modes,         \* mode of the APICs
          apic : BOOLEAN,       \* the CPU feature bit, not cleared by nolapic
          x2apic : BOOLEAN,     \* the X2APIC feature bit
          big : BOOLEAN,        \* the boot processor's ID is >= 255
          maxbig : BOOLEAN,     \* max_physical_apicid > 255
          hyper : BOOLEAN,      \* the hypervisor's x2apic_available
          madt : BOOLEAN,       \* acpi_lapic: the MADT lists local APICs
          smp : BOOLEAN,        \* smp_found_config
          lapic : BOOLEAN,      \* "lapic" on a 32-bit kernel
          nox2apic : BOOLEAN, skip : BOOLEAN, nosmp : BOOLEAN]

\* An x2APIC was enabled by firmware that describes it; "nolapic" with such
\* firmware is left out, as is an MP table of a machine whose APIC is off.
Sensible(f) ==
  /\ f.bios = "x2apic" => f.apic /\ f.x2apic /\ f.madt
  /\ f.big => f.bios = "x2apic"
  /\ f.bios = "off" => ~f.apic /\ ~f.x2apic /\ ~f.smp
  /\ f.madt => f.apic
  /\ f.lapic => f.bios = "off"

VARIABLES
  conf,          \* the configuration: fixed
  caps,          \* boot_cpu_data's feature bits
  base,          \* per CPU: the mode bits of MSR_IA32_APICBASE
  x2apic_state, x2apic_mode, x2apic_phys,
  apic_phys,     \* apic_phys is set
  mapped,        \* FIX_APIC_BASE maps the registers
  driver,        \* apic: "mem", "msr" or "noop"
  intr_mode,     \* apic_intr_mode
  pc,            \* per CPU: what it does next
  ipi,           \* interprocessor interrupts being sent by Boot
  sent           \* the last one sent: as asked for, as delivered

soft == <<caps, x2apic_state, x2apic_mode, x2apic_phys>>
regs == <<apic_phys, mapped, driver, intr_mode>>
sends == <<ipi, sent>>
vars == <<conf, soft, regs, sends, base, pc>>

None == "none"
Senders == {"task", "irq"}
Idle == [step |-> "idle", dest |-> None]

Init ==
  /\ conf \in {f \in Confs : Sensible(f)}
  /\ caps = (IF conf.apic THEN {"APIC"} ELSE {})
            \cup (IF conf.x2apic THEN {"X2APIC"} ELSE {})
  /\ base = [c \in Cpus |-> conf.bios]
  /\ x2apic_state = "OFF" /\ x2apic_mode = FALSE /\ x2apic_phys = FALSE
  /\ apic_phys = FALSE /\ mapped = FALSE
  /\ driver = "mem" /\ intr_mode = None
  /\ pc = [c \in Cpus |-> IF c = Boot THEN "param" ELSE "dead"]
  /\ ipi = [by |-> [x \in Senders |-> Idle], irqoff |-> FALSE, icr2 |-> None]
  /\ sent = [ask |-> None, got |-> None]

At(c, l) == pc[c] = l
Goto(c, l) == pc' = [pc EXCEPT ![c] = l]

-----------------------------------------------------------------------------
(* Switching one CPU                                                       *)

x2apic_enabled == "X2APIC" \in caps /\ base[Boot] = "x2apic"

\* Mutant: one write clears the x2APIC bit and leaves the APIC enabled.
X2apicOffDirect(c, on, done) ==
  IF "APIC" \in caps /\ base[c] = "x2apic"
  THEN base' = [base EXCEPT ![c] = "xapic"] /\ Goto(c, on)
  ELSE Goto(c, done) /\ UNCHANGED base

\* __x2apic_disable: the first write turns the APIC off, Reenable makes the
\* second.  The CPU goes to `on` in between and to `done` when there is
\* nothing to disable.
X2apicOff(c, on, done) ==
  IF "APIC" \in caps /\ base[c] = "x2apic"
  THEN base' = [base EXCEPT ![c] = "off"] /\ Goto(c, on)
  ELSE Goto(c, done) /\ UNCHANGED base

Reenable(c) ==
  /\ \/ At(c, "param_off") /\ Goto(c, "check")
     \/ At(c, "disable_off") /\ Goto(c, "register")
     \/ At(c, "ap_off") /\ Goto(c, "ap_setup")
  /\ base' = [base EXCEPT ![c] = "xapic"]
  /\ UNCHANGED <<conf, soft, regs, sends>>

\* __x2apic_enable
X2apicOn(c) == base' = [base EXCEPT ![c] = "x2apic"]

-----------------------------------------------------------------------------
(* The boot processor                                                      *)

\* setup_nox2apic
Nox2apic ==
  /\ At(Boot, "param") /\ conf.nox2apic
  /\ ~(x2apic_enabled /\ conf.big)
  /\ caps' = caps \ {"X2APIC"} /\ x2apic_state' = "DISABLED"
  /\ x2apic_mode' = FALSE
  /\ IF x2apic_enabled THEN X2apicOff(Boot, "param_off", "check")
     ELSE Goto(Boot, "check") /\ UNCHANGED base
  /\ UNCHANGED <<conf, x2apic_phys, regs, sends>>

\* The option is not given, or cannot be enforced.
KeepX2apic ==
  /\ At(Boot, "param")
  /\ ~conf.nox2apic \/ (x2apic_enabled /\ conf.big)
  /\ Goto(Boot, "check")
  /\ UNCHANGED <<conf, soft, regs, sends, base>>

\* check_x2apic, then the tables: the MADT picks the driver by
\* x2apic_enabled, and an MP or ACPI table has register_lapic_address called.
CheckX2apic ==
  /\ At(Boot, "check") /\ Goto(Boot, "mappings")
  /\ x2apic_mode' = (x2apic_mode \/ x2apic_enabled)
  /\ x2apic_state' = IF x2apic_enabled THEN "ON"
                     ELSE IF "X2APIC" \notin caps THEN "DISABLED"
                     ELSE x2apic_state
  /\ driver' = IF conf.madt /\ x2apic_enabled THEN "msr" ELSE driver
  /\ mapped' = (mapped \/ ((conf.madt \/ conf.smp) /\ ~x2apic_mode'))
  /\ UNCHANGED <<conf, caps, x2apic_phys, apic_phys, intr_mode, sends,
                 base>>

\* init_apic_mappings, with detect_init_APIC: "lapic" has apic_force_enable
\* turn on an APIC the firmware left off.
InitMappings ==
  /\ At(Boot, "mappings") /\ Goto(Boot, "read_id")
  /\ IF x2apic_mode THEN UNCHANGED <<caps, base, regs>>
     ELSE IF ~conf.smp /\ "APIC" \notin caps /\ ~conf.lapic
     THEN driver' = "noop"
          /\ UNCHANGED <<caps, base, apic_phys, mapped, intr_mode>>
     ELSE /\ base' = [base EXCEPT ![Boot] = IF @ = "off" THEN "xapic" ELSE @]
          /\ caps' = IF conf.smp THEN caps ELSE caps \cup {"APIC"}
          /\ apic_phys' = TRUE /\ mapped' = (mapped \/ (~conf.madt /\ ~conf.smp))
          /\ UNCHANGED <<driver, intr_mode>>
  /\ UNCHANGED <<conf, x2apic_state, x2apic_mode, x2apic_phys, sends>>

\* The read of the boot processor's ID at its end, then
\* __apic_intr_mode_select, whose last step reads the ID too.
IntrModeSelect ==
  /\ At(Boot, "read_id") /\ Goto(Boot, "mode_init")
  /\ intr_mode' = IF "APIC" \notin caps THEN "PIC"
                  ELSE IF ~conf.smp THEN
                    IF conf.madt THEN "VIRTUAL_WIRE"
                    ELSE "VIRTUAL_WIRE_NO_CONFIG"
                  ELSE IF conf.nosmp THEN "SYMMETRIC_IO_NO_ROUTING"
                  ELSE "SYMMETRIC_IO"
  /\ UNCHANGED <<conf, soft, apic_phys, mapped, driver, sends, base>>

\* apic_intr_mode_init
IntrModeInit ==
  /\ At(Boot, "mode_init")
  /\ Goto(Boot, CASE intr_mode = "PIC" -> "pic"
                  [] intr_mode = "SYMMETRIC_IO_NO_ROUTING" -> "setup"
                  [] OTHER -> "enable_ir")
  /\ UNCHANGED <<conf, soft, regs, sends, base>>

\* Mutant: the panic is gone.
X2apicDisableAny ==
  /\ x2apic_mode' = FALSE /\ x2apic_state' = "DISABLED"
  /\ IF x2apic_state # "ON" THEN Goto(Boot, "probe") /\ UNCHANGED base
     ELSE X2apicOff(Boot, "disable_off", "register")
  /\ UNCHANGED x2apic_phys

\* x2apic_disable, up to the first write.  With the ID read through the
\* driver it panics rather than leave an ID xAPIC mode cannot express.
X2apicDisable ==
  /\ x2apic_mode' = FALSE /\ x2apic_state' = "DISABLED"
  /\ IF x2apic_state # "ON" THEN Goto(Boot, "probe") /\ UNCHANGED base
     ELSE IF conf.big THEN Goto(Boot, "panic") /\ UNCHANGED base
     ELSE X2apicOff(Boot, "disable_off", "register")
  /\ UNCHANGED x2apic_phys

\* Mutant: the MSR is switched and the flag forgotten.
X2apicEnableNoFlag ==
  /\ Goto(Boot, "probe")
  /\ IF x2apic_state = "OFF"
     THEN x2apic_state' = "ON" /\ X2apicOn(Boot) /\ UNCHANGED x2apic_mode
     ELSE UNCHANGED <<x2apic_mode, x2apic_state, base>>

\* x2apic_enable
X2apicEnable ==
  /\ Goto(Boot, "probe")
  /\ IF x2apic_state = "OFF"
     THEN x2apic_mode' = TRUE /\ x2apic_state' = "ON" /\ X2apicOn(Boot)
     ELSE UNCHANGED <<x2apic_mode, x2apic_state, base>>

\* try_to_enable_x2apic
TryToEnable(r) ==
  IF x2apic_state = "DISABLED"
  THEN Goto(Boot, "probe")
       /\ UNCHANGED <<x2apic_state, x2apic_mode, x2apic_phys, base>>
  ELSE IF r = "x2apic" THEN X2apicEnable /\ UNCHANGED x2apic_phys
  ELSE IF conf.maxbig \/ ~conf.hyper THEN X2apicDisable
  ELSE X2apicEnable /\ x2apic_phys' = TRUE

\* "noapic", or disable_ioapic_support without an SMP configuration
skip_ioapic_setup == conf.skip \/ ~conf.smp

\* enable_IR_x2apic: remapping fails to prepare or to enable ("none"), or
\* comes up in one of two modes; saving the I/O APIC entries may fail.
EnableIR ==
  /\ At(Boot, "enable_ir")
  /\ \E r \in {"none", "xapic", "x2apic"}, prepared, saved \in BOOLEAN :
       /\ r # "none" => prepared
       /\ IF skip_ioapic_setup \/ (~prepared /\ "X2APIC" \notin caps) \/ ~saved
          THEN Goto(Boot, "probe")
               /\ UNCHANGED <<x2apic_state, x2apic_mode, x2apic_phys, base>>
          ELSE TryToEnable(r)
  /\ UNCHANGED <<conf, caps, apic_phys, mapped, driver, intr_mode, sends>>

\* register_lapic_address at the end of x2apic_disable
RegisterAddress ==
  /\ At(Boot, "register") /\ Goto(Boot, "probe")
  /\ mapped' = (mapped \/ ~x2apic_mode)
  /\ UNCHANGED <<conf, soft, apic_phys, driver, intr_mode, sends, base>>

\* default_setup_apic_routing: the first driver whose probe succeeds.  Neither it nor
\* the probes are part of this repository; x2apic_mode is taken to decide, and a driver
\* chosen from the MADT before to have done so by the same rule.
Probe ==
  /\ At(Boot, "probe") /\ Goto(Boot, "setup")
  /\ driver' = IF x2apic_mode THEN "msr" ELSE "mem"
  /\ UNCHANGED <<conf, soft, apic_phys, mapped, intr_mode, sends, base>>

\* apic_bsp_setup: the registers are written, apic_pm_activate
BspSetup ==
  /\ At(Boot, "setup") /\ Goto(Boot, "up")
  /\ UNCHANGED <<conf, soft, regs, sends, base>>

-----------------------------------------------------------------------------
(* Application processors, one at a time; the firmware or an earlier kernel *)
(* left their APICs in a mode of its own.                                   *)

FirmwareModes == IF conf.x2apic THEN {"xapic", "x2apic"} ELSE {"xapic"}

Wake(c) ==
  /\ At(Boot, "up") /\ At(c, "dead") /\ intr_mode = "SYMMETRIC_IO"
  /\ \A d \in Aps : pc[d] \in {"dead", "up"}
  /\ \E m \in FirmwareModes : base' = [base EXCEPT ![c] = m]
  /\ Goto(c, "cpu_init")
  /\ UNCHANGED <<conf, soft, regs, sends>>

\* x2apic_setup, called by cpu_init
X2apicSetup(c) ==
  /\ At(c, "cpu_init")
  /\ IF x2apic_state # "ON" THEN X2apicOff(c, "ap_off", "ap_setup")
     ELSE X2apicOn(c) /\ Goto(c, "ap_setup")
  /\ UNCHANGED <<conf, soft, regs, sends>>

\* apic_ap_setup
ApSetup(c) ==
  /\ At(c, "ap_setup") /\ Goto(c, "up")
  /\ UNCHANGED <<conf, soft, regs, sends, base>>

Unplug(c) ==
  /\ At(Boot, "up") /\ At(c, "up") /\ Goto(c, "dead")
  /\ UNCHANGED <<conf, soft, regs, sends, base>>

-----------------------------------------------------------------------------
(* Suspend and resume of the boot processor                                *)

Quiet == \A x \in Senders : ipi.by[x] = Idle

\* lapic_suspend: disable_local_APIC turns off again what "lapic" turned on.
Suspend ==
  /\ At(Boot, "up") /\ Quiet /\ \A c \in Aps : At(c, "dead")
  /\ Goto(Boot, "asleep")
  /\ base' = IF conf.lapic THEN [base EXCEPT ![Boot] = "off"] ELSE base
  /\ UNCHANGED <<conf, soft, regs, sends>>

\* The firmware hands over in the mode of a reset or in one of its own.
WakeModes ==
  {"xapic"} \cup (IF conf.lapic THEN {"off"} ELSE {})
    \cup (IF conf.x2apic /\ (x2apic_mode \/ StrayWake) THEN {"x2apic"} ELSE {})

FirmwareWake ==
  /\ At(Boot, "asleep") /\ Goto(Boot, "resume")
  /\ \E m \in WakeModes : base' = [base EXCEPT ![Boot] = m]
  /\ UNCHANGED <<conf, soft, regs, sends>>

\* lapic_resume: without x2apic_mode it only sets the enable bit.
Resume ==
  /\ At(Boot, "resume") /\ Goto(Boot, "setup")
  /\ IF x2apic_mode THEN X2apicOn(Boot)
     ELSE base' = [base EXCEPT ![Boot] = IF @ = "off" THEN "xapic" ELSE @]
  /\ UNCHANGED <<conf, soft, regs, sends>>

-----------------------------------------------------------------------------
(* Interprocessor interrupts: driver->icr_write.  An interrupt is taken     *)
(* between any two steps of a task unless it has turned interrupts off.     *)

Starts(x) ==
  /\ At(Boot, "up") /\ driver # "noop" /\ ipi.by[x] = Idle
  /\ x = "task" => ipi.by["irq"] = Idle
  /\ x = "irq" => ~ipi.irqoff

\* Mutant: the two writes are not protected.
IcrSaveNot(x, d) ==
  /\ driver = "mem" /\ Starts(x)
  /\ ipi' = [ipi EXCEPT !.by[x] = [step |-> "icr2", dest |-> d],
                        !.irqoff = (x = "irq")]
  /\ UNCHANGED <<conf, soft, regs, sent, base, pc>>

\* native_apic_icr_write: local_irq_save
IcrSave(x, d) ==
  /\ driver = "mem" /\ Starts(x)
  /\ ipi' = [ipi EXCEPT !.by[x] = [step |-> "icr2", dest |-> d],
                        !.irqoff = TRUE]
  /\ UNCHANGED <<conf, soft, regs, sent, base, pc>>

\* apic_write(APIC_ICR2, SET_APIC_DEST_FIELD(id))
IcrDest(x) ==
  /\ ipi.by[x].step = "icr2" /\ (x = "task" => ipi.by["irq"] = Idle)
  /\ ipi' = [ipi EXCEPT !.icr2 = ipi.by[x].dest, !.by[x].step = "icr"]
  /\ UNCHANGED <<conf, soft, regs, sent, base, pc>>

\* apic_write(APIC_ICR, low) sends to the destination in ICR2; the flags are
\* restored (and the interrupt returns).
IcrSend(x) ==
  /\ ipi.by[x].step = "icr" /\ (x = "task" => ipi.by["irq"] = Idle)
  /\ sent' = [ask |-> ipi.by[x].dest, got |-> ipi.icr2]
  /\ ipi' = [ipi EXCEPT !.by[x] = Idle, !.irqoff = FALSE]
  /\ UNCHANGED <<conf, soft, regs, base, pc>>

\* native_x2apic_icr_write: one wrmsr holds both halves
IcrMsr(x, d) ==
  /\ driver = "msr" /\ Starts(x)
  /\ sent' = [ask |-> d, got |-> d]
  /\ UNCHANGED <<conf, soft, regs, ipi, base, pc>>

-----------------------------------------------------------------------------
BootStep ==
  \/ Nox2apic \/ KeepX2apic \/ CheckX2apic \/ InitMappings \/ IntrModeSelect
  \/ IntrModeInit \/ EnableIR \/ RegisterAddress \/ Probe \/ BspSetup
  \/ Suspend \/ FirmwareWake \/ Resume

ApStep(c) == Wake(c) \/ X2apicSetup(c) \/ ApSetup(c) \/ Unplug(c)

Send(x) ==
  \/ \E d \in Dests : IcrSave(x, d) \/ IcrMsr(x, d)
  \/ IcrDest(x) \/ IcrSend(x)

Next ==
  \/ BootStep
  \/ \E c \in Cpus : Reenable(c)
  \/ \E c \in Aps : ApStep(c)
  \/ \E x \in Senders : Send(x)

Spec == Init /\ [][Next]_vars

-----------------------------------------------------------------------------
Labels == {"param", "param_off", "check", "mappings", "read_id", "mode_init",
           "enable_ir", "disable_off", "register", "probe", "setup", "up",
           "asleep", "resume", "pic", "panic", "dead", "cpu_init", "ap_off",
           "ap_setup"}

TypeOK ==
  /\ conf \in Confs /\ Sensible(conf)
  /\ caps \in SUBSET {"APIC", "X2APIC"}
  /\ base \in [Cpus -> Modes] /\ pc \in [Cpus -> Labels]
  /\ x2apic_state \in {"OFF", "ON", "DISABLED"}
  /\ x2apic_mode \in BOOLEAN /\ x2apic_phys \in BOOLEAN
  /\ apic_phys \in BOOLEAN /\ mapped \in BOOLEAN
  /\ driver \in {"mem", "msr", "noop"}
  /\ ipi \in [by : [Senders -> [step : {"idle", "icr2", "icr"},
                              dest : Dests \cup {None}]],
             irqoff : BOOLEAN, icr2 : Dests \cup {None}]
  /\ sent \in [ask : Dests \cup {None}, got : Dests \cup {None}]

\* Wherever a CPU is about to access its local APIC (reading its ID, setting
\* it up, or at any time once it is up), the installed driver is the one its
\* APIC answers to: MSRs in x2APIC mode, mapped memory in xAPIC mode.
Accessing == {"read_id", "enable_ir", "setup", "up", "ap_setup"}
RightInterface ==
  \A c \in Cpus : pc[c] \in Accessing =>
    /\ driver = "mem" => base[c] = "xapic" /\ mapped
    /\ driver = "msr" => base[c] = "x2apic"

\* An ID of 255 or more, which only x2APIC mode can address, is never given
\* up: neither nox2apic nor failing interrupt remapping switches back an APIC
\* that has one, at boot or at resume.
BigIdAddressable ==
  conf.big /\ pc[Boot] \in Accessing => base[Boot] = "x2apic"

\* Every interprocessor interrupt goes to the CPU it was meant for, even when
\* an interrupt handler sends one while a task is between its two writes.
IpiIntact == sent.ask = sent.got

\* The processor allows no direct way from x2APIC to xAPIC mode, nor from off
\* to x2APIC: no write of the code to APICBASE asks for one (it would fault).
Firmware == {"asleep", "dead"}
LegalMoves == {<<"off", "xapic">>, <<"xapic", "x2apic">>, <<"xapic", "off">>,
               <<"x2apic", "off">>}
LegalSwitch ==
  [][\A c \in Cpus : base'[c] # base[c] /\ pc[c] \notin Firmware
       => <<base[c], base'[c]>> \in LegalMoves]_vars

\* clear_local_APIC and disable_local_APIC skip their work when "APIC hasn't
\* been mapped yet": a CPU that reaches its mapped APIC never skips it.
ClearNotSkipped ==
  pc[Boot] = "up" /\ mapped => apic_phys \/ x2apic_mode
=============================================================================
