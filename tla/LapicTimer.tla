----------------------------- MODULE LapicTimer -----------------------------
(***************************************************************************)
(* The local APIC timer of one processor (arch/x86/kernel/apic/apic.c): the *)
(* timer an earlier kernel left running, its calibration by LapicCal, its   *)
(* registration as a clock event device, and its use by the clock event     *)
(* core (external), with the processor unplugged and brought up again.  The *)
(* registers are written one by one with interrupts off, the hardware acts  *)
(* in between, and in xAPIC mode a write of LVTT takes effect later.        *)
(***************************************************************************)
EXTENDS LapicCal

CONSTANT Machines   \* the machines and command lines considered

VARIABLES
  conf,       \* the machine and the command line: fixed
  pc,         \* where the boot of this processor is
  todo,       \* the register writes still to make, interrupts off
  lvtt, post, \* LVTT in effect, and a write of it on its way
  count, dl,  \* the counter runs, a TSC deadline is armed
  irr,        \* a timer interrupt is pending
  evt,        \* this CPU's lapic_events
  dummy,      \* lapic_clockevent has CLOCK_EVT_FEAT_DUMMY
  verdict,    \* history: how the calibration was accepted
  prog,       \* an event was programmed and its handler not called yet
  spurious,   \* history: timer interrupts that found no handler
  freed       \* the init memory, and lapic_cal_handler with it, is gone

hard == <<lvtt, post, count, dl, irr>>
vars == <<cal, conf, pc, todo, hard, evt, dummy, verdict, prog, spurious, freed>>

Confs == [deadline : BOOLEAN,           \* X86_FEATURE_TSC_DEADLINE_TIMER
          known : BOOLEAN,              \* lapic_timer_period is known already
          tsc : BOOLEAN,                \* tsc_khz and cpu_khz are known
          pm : BOOLEAN,                 \* there is a PM timer
          hpet : BOOLEAN,               \* a global clock event besides the PIT
          arat : BOOLEAN,               \* X86_FEATURE_ARAT
          usable : BOOLEAN,             \* the interrupt mode uses the timer
          up : BOOLEAN,                 \* num_possible_cpus() is 1
          disabled : BOOLEAN,           \* disable_apic_timer
          x2 : BOOLEAN,                 \* x2APIC mode: writes act at once
          stale : BOOLEAN]              \* an earlier kernel left the timer on

\* A processor with a TSC deadline has a TSC whose frequency is known.
ASSUME MachineAssumption ==
  Machines \subseteq Confs /\ \A f \in Machines : f.deadline => f.tsc

Lvtts == [mode : {"oneshot", "periodic", "deadline"}, masked : BOOLEAN]
Masked == [mode |-> "oneshot", masked |-> TRUE]
None == [mode |-> "none", masked |-> TRUE]

\* At most one write of LVTT, then a step of another kind.
Work == [set : Lvtts \cup {None}, then : {"none", "fence", "count", "stop"}]
NoWork == [set |-> None, then |-> "none"]

\* The zeroed per-CPU variable; its handler, set_next_event and state.
Device == [handler : {"null", "cal", "tick", "noop"}, dummy : BOOLEAN,
           deadline : BOOLEAN,
           state : {"detached", "shutdown", "periodic", "oneshot"}]
ZeroDevice == [handler |-> "null", dummy |-> FALSE, deadline |-> FALSE,
               state |-> "detached"]

Init ==
  /\ conf \in Machines
  /\ CalInit
  /\ pc = "early" /\ todo = NoWork
  /\ lvtt = IF conf.stale THEN [mode |-> "periodic", masked |-> FALSE] ELSE Masked
  /\ post = None /\ count = conf.stale /\ dl = FALSE /\ irr = conf.stale
  /\ evt = ZeroDevice /\ dummy = TRUE
  /\ verdict = "none" /\ prog = FALSE /\ spurious = 0 /\ freed = FALSE

-----------------------------------------------------------------------------
(* The hardware                                                            *)

\* A write of LVTT takes effect: changing between TSC deadline and the other
\* modes disarms the timer.
Effective(v) ==
  /\ lvtt' = v
  /\ count' = (count /\ v.mode # "deadline")
  /\ dl' = (dl /\ v.mode = "deadline")

Drain ==
  /\ post # None /\ Effective(post) /\ post' = None
  /\ UNCHANGED <<cal, conf, pc, todo, irr, evt, dummy, verdict, prog, spurious,
                 freed>>

\* The counter reaches zero, or the TSC the deadline.  While the calibration
\* is verified each period takes its time, and interrupts are not merged.
Fire ==
  /\ IF lvtt.mode = "deadline" THEN dl ELSE count
  /\ pc = "verify" => ~irr /\ loops <= L
  /\ irr' = (irr \/ ~lvtt.masked)
  /\ dl' = FALSE /\ count' = (count /\ lvtt.mode = "periodic")
  /\ now' = IF pc = "verify" /\ ~lvtt.masked THEN now + Lasts ELSE now
  /\ UNCHANGED <<loops, start, at1, at2, period, bench, conf, pc, todo, lvtt, post,
                 evt, dummy, verdict, prog, spurious, freed>>

-----------------------------------------------------------------------------
(* Sequences of register writes                                            *)

\* Mutant: no mfence after selecting TSC deadline mode.
SetupLvttNoFence(oneshot, irqen) ==
  LET mode == IF ~oneshot THEN "periodic"
              ELSE IF conf.deadline THEN "deadline" ELSE "oneshot"
  IN [set  |-> [mode |-> mode, masked |-> ~irqen],
      then |-> IF ~oneshot THEN "count" ELSE "none"]

\* __setup_APIC_LVTT
SetupLvtt(oneshot, irqen) ==
  LET mode == IF ~oneshot THEN "periodic"
              ELSE IF conf.deadline THEN "deadline" ELSE "oneshot"
  IN [set  |-> [mode |-> mode, masked |-> ~irqen],
      then |-> IF mode = "deadline" THEN "fence"
               ELSE IF ~oneshot THEN "count" ELSE "none"]

\* lapic_timer_shutdown: the read of LVTT sees a write still on its way.
Shutdown == [set  |-> [(IF post # None THEN post ELSE lvtt)
                         EXCEPT !.masked = TRUE],
             then |-> "stop"]

\* apic_write(APIC_LVTT, ...), of which there is at most one on its way
WriteLvtt ==
  /\ todo.set # None
  /\ IF conf.x2 THEN Effective(todo.set) /\ UNCHANGED post
     ELSE post = None /\ post' = todo.set /\ UNCHANGED <<lvtt, count, dl>>
  /\ todo' = [todo EXCEPT !.set = None]
  /\ UNCHANGED <<cal, conf, pc, irr, evt, dummy, verdict, prog, spurious, freed>>

\* mfence, or a write of TMICT, which comes after the write of LVTT
WriteThen ==
  /\ todo.set = None /\ todo.then # "none" /\ post = None
  /\ count' = CASE todo.then = "count" -> TRUE
                [] todo.then = "stop" -> FALSE
                [] OTHER -> count
  /\ todo' = NoWork
  /\ UNCHANGED <<cal, conf, pc, lvtt, post, dl, irr, evt, dummy, verdict, prog,
                 spurious, freed>>

-----------------------------------------------------------------------------
(* sysvec_apic_timer_interrupt and local_apic_timer_interrupt              *)

IrqsOn == todo = NoWork /\ pc \notin {"judge", "offline"}

Acknowledge == IrqsOn /\ irr /\ irr' = FALSE

\* Mutant: the interrupt is discarded, the timer left running.
DiscardOnly ==
  /\ Acknowledge /\ evt.handler = "null"
  /\ spurious' = IF spurious < 3 THEN spurious + 1 ELSE spurious
  /\ UNCHANGED <<cal, conf, pc, todo, lvtt, post, count, dl, evt, dummy, verdict,
                 prog, freed>>

\* No handler: an interrupt of an earlier kernel; the timer is switched off.
Discard ==
  /\ Acknowledge /\ evt.handler = "null"
  /\ spurious' = IF spurious < 3 THEN spurious + 1 ELSE spurious
  /\ todo' = IF evt.dummy THEN NoWork ELSE Shutdown
  /\ UNCHANGED <<cal, conf, pc, lvtt, post, count, dl, evt, dummy, verdict, prog,
                 freed>>

CalInterrupt ==
  /\ Acknowledge /\ evt.handler = "cal" /\ Handler(now)
  /\ UNCHANGED <<start, period, bench, conf, pc, todo, lvtt, post, count, dl, evt, dummy,
                 verdict, prog, spurious, freed>>

Tick ==
  /\ Acknowledge /\ evt.handler \in {"tick", "noop"} /\ prog' = FALSE
  /\ UNCHANGED <<cal, conf, pc, todo, lvtt, post, count, dl, evt, dummy, verdict,
                 spurious, freed>>

-----------------------------------------------------------------------------
(* Boot                                                                    *)

\* Mutant: "noapictimer" is not looked at.
NeedsPitEager ==
  \/ ~conf.tsc \/ ~conf.usable \/ ~conf.arat
  \/ ~conf.deadline /\ ~conf.known

\* apic_needs_pit
NeedsPit ==
  \/ ~conf.tsc \/ ~conf.usable \/ ~conf.arat
  \/ ~conf.deadline /\ (conf.disabled \/ ~conf.known)

\* global_clock_event
GlobalTick == conf.hpet \/ NeedsPit

\* apic_intr_mode_init: setup_local_APIC masks LVTT and retires what is
\* pending.  Of the modes without the timer the virtual wire calls it, PIC
\* mode leaves the local APIC as it is.
SetupLocal ==
  /\ pc = "early" /\ todo = NoWork /\ post = None
  /\ pc' = IF conf.usable THEN "boot" ELSE "up"
  /\ \/ lvtt' = [lvtt EXCEPT !.masked = TRUE] /\ irr' = FALSE
     \/ ~conf.usable /\ UNCHANGED <<lvtt, irr>>
  /\ UNCHANGED <<cal, conf, todo, post, count, dl, evt, dummy, verdict, prog,
                 spurious, freed>>

\* setup_boot_APIC_clock and the beginning of calibrate_APIC_clock
SetupBoot ==
  /\ pc = "boot" /\ ~irr
  /\ IF conf.disabled
     THEN /\ pc' = IF conf.up THEN "up" ELSE "setup"
          /\ UNCHANGED <<cal, todo, dummy>>
     ELSE IF conf.deadline \/ conf.known
     THEN pc' = "setup" /\ dummy' = FALSE /\ UNCHANGED <<cal, todo>>
     ELSE /\ pc' = "calibrate" /\ todo' = SetupLvtt(FALSE, FALSE)
          /\ CalBegin(conf.pm) /\ UNCHANGED dummy
  /\ UNCHANGED <<conf, hard, evt, verdict, prog, spurious, freed>>

\* The polling loop; without a TSC it waits for the global clock event.
Poll ==
  /\ pc = "calibrate" /\ todo = NoWork /\ (conf.tsc \/ GlobalTick)
  /\ \E s \in Stalls : CalTick(conf.tsc, s)
  /\ UNCHANGED <<conf, pc, todo, hard, evt, dummy, verdict, prog, spurious, freed>>

\* The loop is over: the readings become lapic_timer_period.
Measure ==
  /\ pc = "calibrate" /\ loops > L
  /\ period' = Measured(conf.pm) /\ pc' = "measured"
  /\ UNCHANGED <<loops, now, start, at1, at2, bench, conf, todo, hard, evt,
                 dummy, verdict, prog, spurious, freed>>

\* Too slow, or trusted because the PM timer or nothing else measured it.
Decide ==
  /\ pc = "measured" /\ pc' = "judge"
  /\ period < MinPeriod \/ ByPm(DeltaPm(conf.pm)) \/ ~GlobalTick
  /\ verdict' = IF period < MinPeriod THEN "rejected"
                ELSE IF ByPm(DeltaPm(conf.pm)) THEN "pm" ELSE "unverified"
  /\ UNCHANGED <<cal, conf, todo, hard, evt, dummy, prog, spurious, freed>>

\* Mutant: the timer is started masked.
VerifyMasked ==
  /\ pc = "measured" /\ pc' = "verify"
  /\ period >= MinPeriod /\ ~ByPm(DeltaPm(conf.pm)) /\ GlobalTick
  /\ evt' = [evt EXCEPT !.handler = "cal"] /\ loops' = -1
  /\ todo' = SetupLvtt(FALSE, FALSE)
  /\ UNCHANGED <<now, start, at1, at2, period, bench, conf, hard, dummy, verdict,
                 prog, spurious, freed>>

\* The timer itself calls lapic_cal_handler, to compare it with jiffies.
Verify ==
  /\ pc = "measured" /\ pc' = "verify"
  /\ period >= MinPeriod /\ ~ByPm(DeltaPm(conf.pm)) /\ GlobalTick
  /\ evt' = [evt EXCEPT !.handler = "cal"] /\ loops' = -1
  /\ todo' = SetupLvtt(FALSE, TRUE)
  /\ UNCHANGED <<now, start, at1, at2, period, bench, conf, hard, dummy, verdict,
                 prog, spurious, freed>>

VerifyEnd ==
  /\ pc = "verify" /\ loops > L /\ todo = NoWork /\ pc' = "judge"
  /\ todo' = Shutdown
  /\ verdict' = IF JiffiesAgree(conf.tsc) THEN "jiffies" ELSE "rejected"
  /\ evt' = [evt EXCEPT !.dummy = ~JiffiesAgree(conf.tsc)]
  /\ UNCHANGED <<cal, conf, hard, dummy, prog, spurious, freed>>

\* calibrate_APIC_clock returns: setup_boot_APIC_clock registers the timer,
\* or a dummy for the broadcast, and on UP nothing.  (The readings, of no use
\* any more, are dropped.)
Return ==
  /\ pc = "judge" /\ todo = NoWork
  /\ dummy' = (verdict = "rejected")
  /\ pc' = IF dummy' /\ conf.up THEN "up" ELSE "setup"
  /\ loops' = -1 /\ now' = 0 /\ start' = 0 /\ at1' = 0 /\ at2' = 0
  /\ period' = 0 /\ bench' = NoBench
  /\ UNCHANGED <<conf, todo, hard, evt, verdict, prog, spurious, freed>>

\* setup_APIC_timer: the template is copied over the device.  What was
\* pending when interrupts were enabled has been delivered.
SetupTimer ==
  /\ pc = "setup" /\ todo = NoWork /\ ~irr /\ pc' = "register"
  /\ evt' = [ZeroDevice EXCEPT !.dummy = dummy /\ ~conf.deadline,
                               !.deadline = conf.deadline]
  /\ UNCHANGED <<cal, conf, todo, hard, dummy, verdict, prog, spurious, freed>>

\* The core shuts the new device down and gives it a handler.
Register ==
  /\ pc = "register" /\ todo = NoWork /\ pc' = "up"
  /\ todo' = IF evt.dummy THEN NoWork ELSE Shutdown
  /\ evt' = [evt EXCEPT !.handler = "tick", !.state = "shutdown"]
  /\ UNCHANGED <<cal, conf, hard, dummy, verdict, prog, spurious, freed>>

FreeInit ==
  /\ pc = "up" /\ todo = NoWork /\ ~irr /\ freed' = TRUE
  /\ UNCHANGED <<cal, conf, pc, todo, hard, evt, dummy, verdict, prog, spurious>>

-----------------------------------------------------------------------------
(* Use: the clock event core switches the device between its states         *)

Ready == pc = "up" /\ todo = NoWork /\ evt.state # "detached"

Switch(s, work) ==
  /\ Ready /\ ~evt.dummy
  /\ evt' = [evt EXCEPT !.state = s] /\ todo' = work /\ prog' = FALSE
  /\ UNCHANGED <<cal, conf, pc, hard, dummy, verdict, spurious, freed>>

\* lapic_timer_set_periodic, not offered by a TSC deadline timer
SetPeriodic == ~evt.deadline /\ Switch("periodic", SetupLvtt(FALSE, TRUE))

\* lapic_timer_set_oneshot
SetOneshot == evt.state # "oneshot" /\ Switch("oneshot", SetupLvtt(TRUE, TRUE))

SetShutdown == evt.state # "shutdown" /\ Switch("shutdown", Shutdown)

\* lapic_next_event, a write after that of LVTT; lapic_next_deadline, an MSR
\* the processor ignores unless TSC deadline mode is in effect.
NextEvent ==
  /\ Ready /\ evt.state = "oneshot" /\ prog' = TRUE
  /\ \/ ~evt.deadline /\ post = None /\ count' = TRUE /\ UNCHANGED dl
     \/ evt.deadline /\ dl' = (dl \/ lvtt.mode = "deadline") /\ UNCHANGED count
  /\ UNCHANGED <<cal, conf, pc, todo, lvtt, post, irr, evt, dummy, verdict,
                 spurious, freed>>

\* lapic_timer_broadcast, by another processor for this one's dummy
Broadcast ==
  /\ Ready /\ evt.dummy /\ irr' = TRUE
  /\ UNCHANGED <<cal, conf, pc, todo, lvtt, post, count, dl, evt, dummy, verdict,
                 prog, spurious, freed>>

\* Hotplug: clear_local_APIC and the reset leave the timer off.
Unplug ==
  /\ Ready /\ freed /\ ~conf.up /\ pc' = "offline"
  /\ evt' = [evt EXCEPT !.handler = "noop", !.state = "detached"]
  /\ lvtt' = Masked /\ post' = None /\ count' = FALSE /\ dl' = FALSE
  /\ irr' = FALSE /\ prog' = FALSE
  /\ UNCHANGED <<cal, conf, todo, dummy, verdict, spurious, freed>>

\* setup_secondary_APIC_clock
Replug ==
  /\ pc = "offline" /\ pc' = "setup"
  /\ UNCHANGED <<cal, conf, todo, hard, evt, dummy, verdict, prog, spurious,
                 freed>>

-----------------------------------------------------------------------------
Interrupt == Discard \/ CalInterrupt \/ Tick
Boot ==
  \/ SetupLocal \/ SetupBoot \/ Poll \/ Measure \/ Decide \/ Verify \/ VerifyEnd
  \/ Return \/ SetupTimer \/ Register
Core == SetPeriodic \/ SetOneshot \/ SetShutdown \/ NextEvent
Machine == FreeInit \/ Broadcast \/ Unplug \/ Replug
Next == Drain \/ Fire \/ WriteLvtt \/ WriteThen \/ Interrupt \/ Boot \/ Core
        \/ Machine

Spec == Init /\ [][Next]_vars

\* The hardware acts, the processor makes the writes it has begun, takes its
\* interrupts and goes on booting; the core and hotplug need not do anything.
FairSpec ==
  /\ Spec
  /\ WF_vars(Drain) /\ WF_vars(Fire) /\ WF_vars(WriteLvtt)
  /\ WF_vars(WriteThen) /\ WF_vars(Interrupt) /\ WF_vars(Boot)

-----------------------------------------------------------------------------
TypeOK ==
  /\ conf \in Machines
  /\ pc \in {"early", "boot", "calibrate", "measured", "verify", "judge",
             "setup", "register", "up", "offline"}
  /\ todo \in Work /\ lvtt \in Lvtts /\ post \in Lvtts \cup {None}
  /\ count \in BOOLEAN /\ dl \in BOOLEAN /\ irr \in BOOLEAN
  /\ evt \in Device /\ dummy \in BOOLEAN /\ prog \in BOOLEAN
  /\ freed \in BOOLEAN /\ spurious \in 0..3
  /\ verdict \in {"none", "rejected", "pm", "jiffies", "unverified"}

\* A period the code accepts is right.  Referenced by the PM timer, it is
\* within 1 % (and a count) of the true tick whatever the reference, lost
\* ticks, stalls or a wrap of the PM timer did to the loop; verified against
\* jiffies, L of its periods take L ticks, give or take the two allowed and
\* the two partial ones.
True == Div * bench.rate * U
CalibrationHonest ==
  /\ pc = "judge" /\ verdict = "pm" =>
       100 * (period - True) \in -(True + 100)..(True + 100)
  /\ pc = "judge" /\ verdict = "jiffies" =>
       LET tick == IF conf.tsc THEN U ELSE bench.tick
       IN L * Lasts \in ((L - 3) * tick)..((L + 3) * tick)

\* A machine that skips the PIT because apic_needs_pit said so has a tick once
\* it is up: the local APIC timer is registered as a real device.  (On UP
\* "noapictimer" with a TSC deadline timer is the exception: apic_needs_pit
\* looks at the feature before it looks at the option.)
TickSource ==
  /\ pc = "up" /\ ~GlobalTick
  /\ ~(conf.up /\ conf.disabled /\ conf.deadline)
  => evt.state # "detached" /\ ~evt.dummy

\* Timer interrupts nobody programmed do no harm: of a timer an earlier kernel
\* left on at most two are discarded before it is silent, and once the init
\* memory is gone no interrupt can find lapic_cal_handler.
StrayHarmless ==
  /\ spurious <= 2
  /\ freed /\ evt.handler = "cal" => lvtt.masked /\ post = None /\ ~irr

\* An event the core programs has its handler called, in TSC deadline mode
\* too, where the processor drops a deadline it gets before the mode.
Fires == prog ~> ~prog

\* Calibration ends: what its loops wait for is there to wait for.
BootEnds == <>(pc = "up")
=============================================================================
