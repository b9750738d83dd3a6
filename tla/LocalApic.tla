------------------------------ MODULE LocalApic ------------------------------
(***************************************************************************)
(* The life of one processor's local APIC in arch/x86/kernel/apic/apic.c    *)
(* (64-bit build): early virtual wire mode, setup, use, suspend and resume, *)
(* hotplug, shutdown, and a crash or kexec into a new kernel at any moment. *)
(* A function is the sequence of register accesses it makes; they are taken *)
(* one at a time from todo, because the APIC acts on each of them.          *)
(***************************************************************************)
EXTENDS Integers, Sequences

CONSTANTS
  MaxLvts,       \* lapic_get_maxlvt() of the processors considered, from 3 up
  Firmware       \* register contents a kernel may start or wake up with

ASSUME LvtAssumption == MaxLvts \subseteq 3..6

\* An LVT entry is its mask bit and what it delivers.  "zero" is vector 0.
Lvt == {"LVTT", "LVT0", "LVT1", "LVTERR", "LVTPC", "LVTTHMR", "LVTCMCI"}
Delivery == {"zero", "error", "timer", "extint", "nmi", "other"}
Entry(d, m) == [vec |-> d, masked |-> m]
MaskOn(e) == [e EXCEPT !.masked = TRUE]
Clean == Entry("zero", TRUE)

\* The other registers: ID; DFR and LDR; TPR; SPIV; TDCR and TMICT.
Regs == Lvt \cup {"ID", "LDR", "TASKPRI", "SPIV", "TIMER"}
Spiv(v, on) == [vec |-> v, on |-> on]

VARIABLES
  hw,         \* the processor, the command line and what boot made of them
  regs,       \* the APIC's registers
  errs, esr,  \* errors detected since ESR was last written; ESR as read
  errirq,     \* an error interrupt is requested
  stray,      \* history: this kernel's own accesses raised an error interrupt
  stale,      \* a bit in IRR or ISR
  warned,     \* apic_pending_intr_clear gave up
  ioapic,     \* the IO-APIC entries are masked
  pm,         \* apic_pm_state: active and the saved registers
  before,     \* history: the registers when lapic_suspend was called
  todo,       \* accesses still to make in the function under way
  phase

vars == <<hw, regs, errs, esr, errirq, stray, stale, warned, ioapic, pm, before, todo, phase>>

\* Errors are real ones of this kernel's time, or old: an earlier kernel's, or of
\* the kernel's own doing, when it writes vector zero.
Errors == {"old", "real"}

\* CPU 0 or another one, which needs an SMP configuration and enabled APICs.
\* mapped: x2apic_mode or apic_phys is set.  Neither is with the APIC disabled, or
\* when boot gave up the x2APIC mode of the firmware for want of interrupt remapping.
Configs ==
  {c \in [cpu : 0..1, maxlvt : MaxLvts, smp_found_config : BOOLEAN, noapic : BOOLEAN,
          extnmi : {"bsp", "all", "none"}, disable_apic : BOOLEAN, mapped : BOOLEAN] :
     /\ c.cpu # 0 => c.smp_found_config /\ ~c.disable_apic
     /\ ~c.mapped => c.disable_apic \/ (c.smp_found_config /\ ~c.noapic)}

\* The LVT entries this processor has.
Has(r) == \/ r \notin {"LVTPC", "LVTTHMR", "LVTCMCI"}
          \/ r = "LVTPC" /\ hw.maxlvt >= 4
          \/ r = "LVTTHMR" /\ hw.maxlvt >= 5
          \/ r = "LVTCMCI" /\ hw.maxlvt >= 6

Phases == {"boot", "early", "wired", "setup", "up", "suspend", "suspended", "asleep",
           "resume", "resumed", "stop", "offline", "halted", "detach", "legacy"}

RegsOK(f) ==
  /\ DOMAIN f = Regs
  /\ \A r \in Lvt : f[r] \in [vec : Delivery, masked : BOOLEAN]
  /\ f["SPIV"] \in [vec : {"spurious", "legacy", "reset"}, on : BOOLEAN]
  /\ f["TASKPRI"] \in {0, 16, 32}
  /\ \A r \in {"ID", "LDR", "TIMER"} : f[r] \in {"reset", "set"}

ASSUME FirmwareAssumption == \A f \in Firmware : RegsOK(f)

\* A variable of a kernel that has just started.
Zeroed == [r \in Regs |-> IF r \in Lvt THEN Entry("zero", FALSE)
                         ELSE IF r = "SPIV" THEN Spiv("reset", FALSE)
                         ELSE IF r = "TASKPRI" THEN 0 ELSE "reset"]

TypeOK ==
  /\ hw \in Configs /\ RegsOK(regs) /\ RegsOK(before) /\ RegsOK(pm.saved)
  /\ pm.active \in BOOLEAN /\ phase \in Phases /\ ioapic \in {"masked", "open"}
  /\ \A b \in {errirq, stray, stale, warned} : b \in BOOLEAN
  /\ errs \subseteq Errors /\ esr \subseteq Errors

Init ==
  /\ hw \in Configs
  /\ regs \in Firmware
  /\ errs = {} /\ esr = {} /\ errirq = FALSE /\ stray = FALSE /\ warned = FALSE
  /\ stale \in BOOLEAN /\ ioapic = "open"
  /\ pm = [active |-> FALSE, saved |-> Zeroed] /\ before = Zeroed
  /\ todo = <<>> /\ phase = "boot"

-----------------------------------------------------------------------------
(* What the APIC does with an access.                                      *)

apic == <<regs, errs, esr, errirq, stray, stale, warned>>

On == regs["SPIV"].on

\* While software disabled it keeps every mask bit set, and disabling sets them.
Stored(r, v) ==
  IF r = "SPIV" /\ ~v.on
  THEN [x \in Regs |-> IF x \in Lvt THEN MaskOn(regs[x])
                       ELSE IF x = r THEN v ELSE regs[x]]
  ELSE [regs EXCEPT ![r] = IF r \in Lvt /\ ~On THEN MaskOn(v) ELSE v]

\* Writing an entry whose vector is zero is an error, masked or not; an error
\* raises an interrupt unless LVTERR is masked.
apic_write(r, v) ==
  LET bad == r \in Lvt /\ v.vec = "zero" IN
  /\ regs' = Stored(r, v)
  /\ errs' = IF bad THEN errs \cup {"old"} ELSE errs
  /\ stray' = (stray \/ (bad /\ ~regs'["LVTERR"].masked))
  /\ UNCHANGED <<esr, errirq, stale, warned, ioapic, pm>>

\* A write to ESR shows the errors detected so far and forgets them.
WriteEsr ==
  /\ esr' = errs /\ errs' = {}
  /\ UNCHANGED <<regs, errirq, stray, stale, warned, ioapic, pm>>

\* The oldest APICs forget them when ESR is read.
ReadEsr ==
  /\ IF hw.maxlvt > 3 THEN UNCHANGED <<esr, errs>> ELSE esr' = {} /\ errs' = {}
  /\ UNCHANGED <<regs, errirq, stray, stale, warned, ioapic, pm>>

-----------------------------------------------------------------------------
(* The accesses, as members of todo.                                       *)

Write(r, v) == [op |-> "write", reg |-> r, val |-> v]
SetMask(r) == [op |-> "mask", reg |-> r]
Restore(r) == [op |-> "restore", reg |-> r]
Op(o) == [op |-> o]
If(b, s) == IF b THEN s ELSE <<>>

\* The steps of clear_local_APIC, which returns early unless hw.mapped.
MaskError == <<Write("LVTERR", Entry("error", TRUE))>>
MaskAll ==
  <<SetMask("LVTT"), SetMask("LVT0"), SetMask("LVT1")>>
  \o If(Has("LVTPC"), <<SetMask("LVTPC")>>)
  \o If(Has("LVTTHMR"), <<SetMask("LVTTHMR")>>)
  \o If(Has("LVTCMCI"), <<Op("mask_open_cmci")>>)
CleanAll ==
  <<Write("LVTT", Clean), Write("LVT0", Clean), Write("LVT1", Clean), Write("LVTERR", Clean)>>
  \o If(Has("LVTPC"), <<Write("LVTPC", Clean)>>)
ClearEsr == If(hw.maxlvt > 3, <<Op("write_esr")>>) \o <<Op("read_esr")>>

\* Mutant: LVTERR is not masked first.
ClearErrLate == If(hw.mapped, MaskAll \o CleanAll \o ClearEsr)

\* Mutant: the entries are not masked first.
ClearUnmasked == If(hw.mapped, MaskError \o CleanAll \o ClearEsr)

clear_local_APIC == If(hw.mapped, MaskError \o MaskAll \o CleanAll \o ClearEsr)

\* Mutant: the entries are left as they are.
SoftDisableOnly == <<Op("spiv_off")>>

apic_soft_disable == clear_local_APIC \o <<Op("spiv_off")>>

\* The same early return; on 64-bit kernels MSR_IA32_APICBASE is left alone.
disable_local_APIC == If(hw.mapped, apic_soft_disable)

\* Mutant: ESR is cleared once, after enabling the vector.
SetupEsrOnce == <<Write("LVTERR", Entry("error", FALSE))>> \o ClearEsr

lapic_setup_esr == ClearEsr \o <<Write("LVTERR", Entry("error", FALSE))>> \o ClearEsr

\* LINT1: NMI on the boot processor, unless apic_extnmi= says otherwise.
Lint1 == Entry("nmi", ~((hw.cpu = 0 /\ hw.extnmi # "none") \/ hw.extnmi = "all"))

skip_ioapic_setup == hw.noapic \/ ~hw.smp_found_config

\* The APIC is shut, told its logical ID and enabled; then the LINT pins are set up.
Enable == <<Write("SPIV", Spiv("spurious", TRUE))>>
Pins == If(Has("LVTPC"), <<Write("LVTPC", Entry("nmi", FALSE))>>) \o <<Op("lvt0"), Write("LVT1", Lint1)>>

\* Mutant: stale bits are cleared before the APIC is disabled.
SetupClearFirst ==
  <<Op("pending_intr_clear"), Op("spiv_off"), Write("LDR", "set"), Op("taskpri")>> \o Enable \o Pins

setup_local_APIC ==
  <<Op("spiv_off"), Write("LDR", "set"), Op("taskpri"), Op("pending_intr_clear")>> \o Enable \o Pins

end_local_APIC_setup == lapic_setup_esr \o <<Op("pm_activate")>>

\* With apic disabled neither of the two is called.
apic_ap_setup == setup_local_APIC \o end_local_APIC_setup
apic_bsp_setup(upmode) ==
  If(~hw.disable_apic, If(upmode, <<Write("ID", "set")>>) \o apic_ap_setup)

\* lapic_suspend: nothing unless apic_pm_state.active.
\* Mutant: the IO-APIC is masked after the local APIC.
SuspendMaskLast ==
  If(pm.active, <<Op("save")>> \o disable_local_APIC \o <<Op("mask_ioapic_entries")>>)

lapic_suspend ==
  If(pm.active, <<Op("save"), Op("mask_ioapic_entries")>> \o disable_local_APIC)

\* Mutant: the APIC is enabled after its entries are restored, and still forces
\* their mask bits.
ResumeSpivLast ==
  If(pm.active,
     <<Op("mask_ioapic_entries")>> \o MaskError
     \o <<Restore("ID"), Restore("LDR"), Restore("TASKPRI"), Restore("LVT0"), Restore("LVT1")>>
     \o If(Has("LVTPC"), <<Restore("LVTPC")>>) \o <<Restore("LVTT"), Restore("TIMER")>>
     \o <<Restore("SPIV"), Restore("LVTERR"), Op("write_esr"), Op("read_esr")>>)

\* 64-bit: x2apic mode or MSR_IA32_APICBASE are set up again first.
lapic_resume ==
  If(pm.active,
     <<Op("mask_ioapic_entries")>> \o MaskError
     \o <<Restore("ID"), Restore("LDR"), Restore("TASKPRI"), Restore("SPIV")>>
     \o <<Restore("LVT0"), Restore("LVT1")>>
     \o If(Has("LVTTHMR"), <<Restore("LVTTHMR")>>)
     \o If(Has("LVTCMCI"), <<Restore("LVTCMCI")>>)
     \o If(Has("LVTPC"), <<Restore("LVTPC")>>)
     \o <<Restore("LVTT"), Restore("TIMER"), Op("write_esr"), Op("read_esr")>>
     \o <<Restore("LVTERR"), Op("write_esr"), Op("read_esr")>>)

\* Back to virtual wire mode, through the local APIC or not.
disconnect_bsp_APIC(virt_wire_setup) ==
  <<Write("SPIV", Spiv("legacy", TRUE))>>
  \o <<Write("LVT0", IF virt_wire_setup THEN Clean ELSE Entry("extint", FALSE))>>
  \o <<Write("LVT1", Entry("nmi", FALSE))>>

init_bsp_APIC ==
  clear_local_APIC
  \o <<Write("SPIV", Spiv("spurious", TRUE)), Write("LVT0", Entry("extint", FALSE))>>
  \o <<Write("LVT1", Entry("nmi", hw.extnmi = "none"))>>

-----------------------------------------------------------------------------
(* One access.                                                             *)

\* Mutant: only an entry the firmware left open is kept open.
Lint0Open == hw.cpu = 0 /\ ~regs["LVT0"].masked

\* LINT0 passes ExtINT on CPU 0 if it was open or there is no IO-APIC.
Lint0 == hw.cpu = 0 /\ (~regs["LVT0"].masked \/ skip_ioapic_setup)

\* Mutant: APIC_TPRI_MASK is not cleared before 0x10 is or-ed in.
TaskPriOr == IF regs["TASKPRI"] = 32 THEN 48 ELSE 16

\* 'accept all except vectors 0-31', whatever was there.
TaskPri == 16

\* The promise of module StaleClear: stale interrupts are gone or it has warned.
apic_pending_intr_clear ==
  /\ stale' \in {FALSE, stale} /\ errirq' \in {FALSE, errirq}
  /\ warned' \in {TRUE, stale' \/ errirq'}
  /\ UNCHANGED <<regs, errs, esr, stray, ioapic, pm>>

Access(a) ==
  CASE a.op = "write" -> apic_write(a.reg, a.val)
    [] a.op = "mask" -> apic_write(a.reg, MaskOn(regs[a.reg]))
    [] a.op = "restore" -> apic_write(a.reg, pm.saved[a.reg])
    [] a.op = "spiv_off" -> apic_write("SPIV", [regs["SPIV"] EXCEPT !.on = FALSE])
    [] a.op = "mask_open_cmci" ->
         IF regs["LVTCMCI"].masked
         THEN UNCHANGED <<apic, ioapic, pm>>
         ELSE apic_write("LVTCMCI", MaskOn(regs["LVTCMCI"]))
    [] a.op = "taskpri" -> apic_write("TASKPRI", TaskPri)
    [] a.op = "lvt0" -> apic_write("LVT0", Entry("extint", ~Lint0))
    [] a.op = "write_esr" -> WriteEsr
    [] a.op = "read_esr" -> ReadEsr
    [] a.op = "pending_intr_clear" -> apic_pending_intr_clear
    [] a.op = "ack_APIC_irq" -> UNCHANGED <<apic, ioapic, pm>>
    [] a.op = "save" -> /\ pm' = [pm EXCEPT !.saved = regs]
                        /\ UNCHANGED <<apic, ioapic>>
    [] a.op = "pm_activate" -> /\ pm' = [pm EXCEPT !.active = TRUE]
                               /\ UNCHANGED <<apic, ioapic>>
    [] a.op = "mask_ioapic_entries" ->
         ioapic' = "masked" /\ UNCHANGED <<apic, pm>>

\* The function under way makes its next access.
Continue ==
  /\ todo # <<>> /\ Access(Head(todo)) /\ todo' = Tail(todo)
  /\ UNCHANGED <<hw, before, phase>>

-----------------------------------------------------------------------------
(* Calls.                                                                  *)

\* A function is called in phase p and leads to phase q when it is done.
Call(p, q, s) ==
  /\ todo = <<>> /\ phase = p /\ phase' = q /\ todo' = s
  /\ UNCHANGED <<hw, apic, ioapic, pm>>

Done(p, q) == Call(p, q, <<>>) /\ UNCHANGED before

\* init_bsp_APIC runs only without an SMP configuration.
NeedsEarly == hw.cpu = 0 /\ ~hw.smp_found_config /\ ~hw.disable_apic

EarlyInit == NeedsEarly /\ Call("boot", "early", init_bsp_APIC) /\ UNCHANGED before

\* apic_bsp_setup, apic_ap_setup; an AP that is plugged in again starts here too.
Setup ==
  /\ \/ /\ hw.cpu = 0
        /\ \E upmode \in BOOLEAN :
             \/ ~NeedsEarly /\ Call("boot", "setup", apic_bsp_setup(upmode))
             \/ Call("wired", "setup", apic_bsp_setup(upmode))
     \/ /\ hw.cpu # 0
        /\ Call("boot", "setup", apic_ap_setup) \/ Call("offline", "setup", apic_ap_setup)
  /\ UNCHANGED before

Suspend == /\ hw.cpu = 0 /\ Call("up", "suspend", lapic_suspend)
           /\ before' = regs

Resume == Call("asleep", "resume", lapic_resume) /\ UNCHANGED before

\* apic_soft_disable when a processor is unplugged, lapic_shutdown on the way
\* to a reboot or kexec, which ends in disconnect_bsp_APIC.
lapic_shutdown == If(~hw.disable_apic, disable_local_APIC)
Offline == hw.cpu # 0 /\ Call("up", "stop", apic_soft_disable) /\ UNCHANGED before
Shutdown == hw.cpu = 0 /\ Call("up", "stop", lapic_shutdown) /\ UNCHANGED before
Disconnect == \E v \in BOOLEAN :
  /\ ~hw.disable_apic
  /\ Call("halted", "detach", disconnect_bsp_APIC(v)) /\ UNCHANGED before

\* A function returns.
Return ==
  \/ Done("early", "wired") \/ Done("setup", "up") \/ Done("suspend", "suspended")
  \/ Done("resume", "resumed") \/ Done("detach", "legacy")
  \/ Done("stop", IF hw.cpu = 0 THEN "halted" ELSE "offline")

-----------------------------------------------------------------------------
(* The rest of the system.                                                 *)

Quiet == UNCHANGED <<hw, errs, esr, stray, warned, pm, todo>>

\* Mutant: ESR is only read.
ErrorHandlerReads == <<Op("read_esr"), Op("ack_APIC_irq")>>

\* sysvec_error_interrupt: tickle the hardware, then report.
sysvec_error_interrupt == ClearEsr \o <<Op("ack_APIC_irq")>>

\* An error on the APIC bus.  The first since ESR was written, which re-arms the
\* APIC, requests an interrupt.
DetectError ==
  /\ On /\ phase \in {"setup", "up", "resume"} /\ "real" \notin errs
  /\ errs' = errs \cup {"real"}
  /\ errirq' = (errirq \/ (errs = {} /\ ~regs["LVTERR"].masked))
  /\ UNCHANGED <<hw, regs, esr, stray, stale, warned, ioapic, pm, before, todo, phase>>

\* Interrupts are on once the kernel is up, and during the setup of CPU 0; the next
\* one waits until this one is acknowledged.
ErrorInterrupt ==
  /\ errirq /\ On /\ errirq' = FALSE
  /\ \A i \in DOMAIN todo : todo[i].op # "ack_APIC_irq"
  /\ phase = "up" \/ (phase = "setup" /\ hw.cpu = 0)
  /\ todo' = sysvec_error_interrupt \o todo
  /\ UNCHANGED <<hw, regs, errs, esr, stray, stale, warned, ioapic, pm, before, phase>>

\* The machine sleeps: registers survive or are the firmware's when it wakes up.
SleepAndWake ==
  /\ todo = <<>> /\ phase = "suspended" /\ phase' = "asleep"
  /\ regs' \in Firmware \cup {regs} /\ ioapic' \in {"open", "masked"}
  /\ stale' = FALSE /\ errirq' = FALSE
  /\ Quiet /\ UNCHANGED before

\* The IO-APIC has its own resume routine.
IoapicResumes ==
  /\ todo = <<>> /\ phase = "resumed" /\ phase' = "up" /\ ioapic' = "open"
  /\ before' = Zeroed
  /\ UNCHANGED <<regs, stale, errirq>> /\ Quiet

\* Drivers use the timer, the thermal and the CMCI entry.
Use ==
  /\ todo = <<>> /\ phase = "up" /\ pm.active
  /\ \/ regs' \in {[regs EXCEPT !["LVTT"] = Entry("timer", m), !["TIMER"] = "set"] :
                     m \in BOOLEAN}
     \/ regs' = [r \in Regs |-> IF r \in {"LVTTHMR", "LVTCMCI"} /\ Has(r)
                                THEN Entry("other", FALSE) ELSE regs[r]]
  /\ UNCHANGED <<stale, errirq, ioapic, phase, before>> /\ Quiet

\* An interrupt arrives at an enabled APIC; a kernel that is up serves it, if the
\* vector is not used in spurious_interrupt, which acknowledges what is in service.
Interrupt ==
  /\ On /\ ~stale /\ phase # "up" /\ stale' = TRUE
  /\ UNCHANGED <<regs, errirq, ioapic, phase, before>> /\ Quiet
Serve ==
  /\ stale /\ phase = "up" /\ todo = <<>> /\ stale' = FALSE
  /\ UNCHANGED <<regs, errirq, ioapic, phase, before>> /\ Quiet

\* A crash at any moment, or kexec after the shutdown: a new kernel starts with
\* the registers as they are, decides anew how it reaches them, and an error
\* detected before it is none of its own.
NewKernel ==
  /\ phase \notin {"boot", "suspended", "asleep"}
  /\ phase' = "boot" /\ todo' = <<>>
  /\ pm' = [active |-> FALSE, saved |-> Zeroed] /\ before' = Zeroed
  /\ ioapic' = "open" /\ warned' = FALSE /\ stale' \in {stale \/ errirq, TRUE}
  /\ errs' = (IF errs = {} THEN {} ELSE {"old"}) /\ esr' = {} /\ errirq' = FALSE
  /\ stray' = FALSE
  /\ \E b \in BOOLEAN : hw' = [hw EXCEPT !.mapped = b]
  /\ hw' \in Configs
  /\ UNCHANGED regs

Next == \/ EarlyInit \/ Setup \/ Suspend \/ Resume \/ Offline \/ Shutdown \/ Disconnect
        \/ Continue \/ Return
        \/ DetectError \/ ErrorInterrupt
        \/ SleepAndWake \/ IoapicResumes \/ Use \/ Interrupt \/ Serve \/ NewKernel

Spec == Init /\ [][Next]_vars

-----------------------------------------------------------------------------
\* "Mask LVTERR first to prevent this": whatever the firmware, an earlier kernel
\* or a crash left in the registers, none of the kernel's own accesses raises an
\* error interrupt; but for the last ones of a kernel whose clear_local_APIC returned
\* early: disconnect_bsp_APIC then writes LVT0 with LVTERR open.
NoStrayError == stray => phase \in {"detach", "legacy"} /\ ~hw.mapped

\* After lapic_resume every register reads as before lapic_suspend, whatever the
\* firmware did to the APIC while the machine slept.
ResumeRestores ==
  phase = "resumed" /\ pm.active => \A r \in Regs : Has(r) => regs[r] = before[r]

\* "the state of the local APIC has no dangling leftovers": an APIC that is down
\* is disabled and delivers nothing; and where clear_local_APIC does not return early
\* its entries are clean and no error of the cleaning waits for the next user.  CPU 0
\* is left as it is, enabled, when disable_local_APIC returns early.
DownIsClean ==
  phase \in {"suspended", "offline", "halted"} /\ ~hw.disable_apic =>
    /\ hw.mapped \/ hw.cpu # 0 => ~On /\ \A r \in Lvt : Has(r) => regs[r].masked
    /\ hw.mapped =>
         /\ "old" \notin errs
         /\ \A r \in {"LVTT", "LVT0", "LVT1", "LVTERR", "LVTPC"} : Has(r) => regs[r] = Clean

\* "First tickle the hardware, only then report what went on": a running kernel
\* has its error entry open and nothing latched that its own setup or resume, or an
\* earlier kernel, caused; and an error it has not read yet is about to be reported,
\* whenever during setup, resume or an earlier error interrupt it was detected.  An
\* error latched without an interrupt would keep the APIC from raising the next.
ErrorsReported ==
  phase \in {"up", "resumed"} /\ pm.active =>
    /\ "old" \notin errs \cup esr /\ regs["LVTERR"] = Entry("error", FALSE)
    /\ errs # {} => errirq \/ todo # <<>>

\* Legacy interrupts pass through an APIC in virtual wire mode, early in boot and
\* after the shutdown; and without an IO-APIC they still do after the setup, which
\* has masked LINT0 on its way.
LegacyDelivered ==
  /\ phase = "wired" => On /\ regs["LVT0"] = Entry("extint", FALSE)
  /\ phase = "legacy" => On /\ regs["LVT1"] = Entry("nmi", FALSE)
  /\ phase = "up" /\ pm.active /\ hw.cpu = 0 /\ skip_ioapic_setup =>
       On /\ regs["LVT0"] = Entry("extint", FALSE)

\* "We have to set masks only first": while the APIC is shut down no entry is
\* rewritten before its source has been masked.
MaskedBeforeCleaned ==
  [][(phase \in {"suspend", "stop"} /\ phase' = phase /\ On) =>
       (\A r \in Lvt : regs'[r].vec # regs[r].vec => regs[r].masked \/ r = "LVTERR")]_vars

\* setup_local_APIC and lapic_resume enable the APIC only while vectors 0 to 31 are
\* shut out; setup only when no interrupt of an earlier kernel is left, unless it
\* has warned of it.
EnabledWhenReady ==
  [][(phase \in {"setup", "resume"} /\ phase' = phase /\ ~On /\ regs'["SPIV"].on) =>
       regs["TASKPRI"] = 16 /\ (phase = "setup" => ~stale \/ warned)]_vars

\* "Mask IOAPIC before disabling the local APIC to prevent stale IRR entries" and
\* "to make sure the interrupt subsystem is completely quiet": suspend and resume
\* switch the local APIC off and on only while the IO-APIC is masked.
SwitchedWhenQuiet ==
  [][(phase \in {"suspend", "resume"} /\ phase' = phase /\ On # regs'["SPIV"].on) =>
       ioapic = "masked"]_vars
=============================================================================
