-------------------------- MODULE LapicTimerProofs --------------------------
(***************************************************************************)
(* On every machine and command line stray timer interrupts do no harm, a   *)
(* machine without a PIT has a tick, and a period that is accepted is right. *)
(***************************************************************************)
EXTENDS LapicTimer, TLAPS

\* The timer is off, and nothing on its way turns it on.
Silent == lvtt.masked /\ post.masked /\ todo.set.masked

\* It is off, or what is on its way will switch it off.
Silencing ==
  /\ post.masked /\ todo.set.masked
  /\ todo.set = None /\ post = None => lvtt.masked
  /\ todo = NoWork => post = None

\* Which handler the device has at each point of the boot.
Handlers ==
  /\ evt.handler = "null" => evt.state = "detached" /\ (evt.dummy => pc = "register")
  /\ evt.handler = "cal" =>
       evt.state = "detached" /\ pc \in {"verify", "judge", "setup", "up"}
  /\ evt.handler = "tick" => pc = "up"
  /\ evt.handler = "noop" => evt.state = "detached" /\ pc \in {"offline", "setup"}
  /\ pc \in {"boot", "calibrate", "measured"} => evt.handler = "null"
  /\ pc = "verify" => evt.handler = "cal"
  /\ pc = "offline" => evt.handler = "noop"
  /\ pc = "early" => evt = ZeroDevice
  /\ freed => pc \in {"up", "offline", "setup", "register"}
  /\ freed /\ pc = "setup" => evt.handler # "cal"

\* What the register writes still to make are.
Writes ==
  /\ pc = "verify" => todo.then = "count" \/ (todo = NoWork /\ post = None)
  /\ todo.set # None => todo.then # "none" \/ (pc = "up" /\ evt.handler = "tick")
  /\ pc \in {"boot", "register"} => todo = NoWork
  /\ pc = "up" /\ evt.handler = "cal" => todo = NoWork

\* The timer of an earlier kernel.  One that does not use the timer may leave it on for good.
Stray ==
  /\ spurious <= 2
  /\ pc = "early" \/ (pc = "up" /\ evt.handler = "null") =>
       /\ spurious = 0 => todo = NoWork /\ post = None
       /\ spurious >= 1 => Silencing
       /\ spurious = 2 => lvtt.masked /\ ~irr
  /\ pc \notin {"early", "up"} /\ evt.handler = "null" => Silent /\ ~irr
  /\ pc \in {"boot", "calibrate", "measured", "judge", "setup"} /\ evt.handler = "null" =>
       (todo = NoWork => post = None)

\* The timer the verification started.
Calibrated ==
  /\ pc = "judge" /\ evt.handler = "cal" => Silencing
  /\ evt.handler = "cal" /\ pc \in {"setup", "up"} =>
       lvtt.masked /\ post = None /\ todo = NoWork
  /\ evt.handler = "cal" /\ freed => ~irr
  /\ pc = "offline" \/ evt.handler = "noop" => Silent /\ ~irr

IInv == Handlers /\ Writes /\ Stray /\ Calibrated

-----------------------------------------------------------------------------
\* The records of a silent timer and of a device nobody has set up.
LEMMA MaskedTypes ==
  /\ Masked \in Lvtts /\ NoWork \in Work /\ ZeroDevice \in Device
  /\ Masked.masked /\ None.masked /\ NoWork.set = None /\ NoWork.then = "none"
  /\ ZeroDevice.handler = "null" /\ ZeroDevice.state = "detached"
  /\ ~ZeroDevice.dummy /\ None \notin Lvtts
BY DEF Masked, NoWork, ZeroDevice, None, Lvtts, Work, Device

\* __setup_APIC_LVTT and lapic_timer_shutdown prepare writes of LVTT.
LEMMA WorkTypes ==
  ASSUME TypeOK, NEW oneshot \in BOOLEAN, NEW irqen \in BOOLEAN
  PROVE  /\ SetupLvtt(oneshot, irqen) \in Work
         /\ SetupLvtt(oneshot, irqen).set \in Lvtts
         /\ SetupLvtt(oneshot, irqen).set.masked <=> ~irqen
         /\ ~oneshot => SetupLvtt(oneshot, irqen).then = "count"
         /\ Shutdown \in Work /\ Shutdown.set \in Lvtts
         /\ Shutdown.set.masked /\ Shutdown.then = "stop"
<1>1. conf.deadline \in BOOLEAN
  BY MachineAssumption DEF TypeOK, Confs
<1>2. /\ SetupLvtt(oneshot, irqen) \in Work
      /\ SetupLvtt(oneshot, irqen).set \in Lvtts
      /\ SetupLvtt(oneshot, irqen).set.masked <=> ~irqen
      /\ ~oneshot => SetupLvtt(oneshot, irqen).then = "count"
  BY <1>1 DEF SetupLvtt, Work, Lvtts
<1>3. (IF post # None THEN post ELSE lvtt) \in Lvtts
  BY DEF TypeOK
<1>4. /\ Shutdown \in Work /\ Shutdown.set \in Lvtts
      /\ Shutdown.set.masked /\ Shutdown.then = "stop"
  BY <1>3 DEF Shutdown, Work, Lvtts
<1> QED BY <1>2, <1>4

-----------------------------------------------------------------------------
\* The types at boot.
LEMMA TypeInit == Init => TypeOK
<1> SUFFICES ASSUME Init PROVE TypeOK
  OBVIOUS
<1>1. conf \in Machines /\ conf.stale \in BOOLEAN
  BY MachineAssumption DEF Init, Confs
<1>2. lvtt \in Lvtts
  BY MaskedTypes, <1>1 DEF Init, Lvtts
<1>3. irr \in BOOLEAN /\ count \in BOOLEAN
  BY <1>1 DEF Init
<1>4. todo \in Work /\ evt \in Device /\ post \in Lvtts \cup {None}
  BY MaskedTypes DEF Init
<1>5. /\ pc = "early" /\ verdict = "none" /\ spurious = 0
  BY DEF Init
<1>6. dl \in BOOLEAN /\ dummy \in BOOLEAN
  BY DEF Init
<1>7. prog \in BOOLEAN /\ freed \in BOOLEAN
  BY DEF Init
<1> QED BY <1>1, <1>2, <1>3, <1>4, <1>5, <1>6, <1>7 DEF TypeOK

\* No step breaks the types.
LEMMA TypeNext == TypeOK /\ [Next]_vars => TypeOK'
<1> SUFFICES ASSUME TypeOK, [Next]_vars PROVE TypeOK'
  OBVIOUS
<1> USE MaskedTypes
<1>w. todo.set \in Lvtts \cup {None} /\ todo \in [set : Lvtts \cup {None}, then : {"none", "fence", "count", "stop"}]
  BY DEF TypeOK, Work
<1>c. conf \in Confs
  BY MachineAssumption DEF TypeOK
<1>1. CASE UNCHANGED vars
  BY <1>1 DEF TypeOK, vars, hard
<1>2. CASE Drain
  <2>1. lvtt' \in Lvtts
    BY <1>2 DEF Drain, Effective, TypeOK
  <2> QED BY <1>2, <2>1 DEF Drain, Effective, TypeOK
<1>3. CASE Fire
  BY <1>3 DEF Fire, TypeOK
<1>4. CASE WriteLvtt
  <2>1. todo' \in Work
    BY <1>4, <1>w DEF WriteLvtt, Work, None
  <2>2. lvtt' \in Lvtts /\ post' \in Lvtts \cup {None} /\ count' \in BOOLEAN /\ dl' \in BOOLEAN
    BY <1>4, <1>w DEF WriteLvtt, Effective, TypeOK
  <2> QED BY <1>4, <2>1, <2>2 DEF WriteLvtt, TypeOK
<1>5. CASE WriteThen
  BY <1>5 DEF WriteThen, TypeOK
<1>6. CASE Interrupt
  <2>1. CASE Discard
    <3>1. todo' \in Work BY <2>1, WorkTypes DEF Discard
    <3>2. spurious' \in 0..3 BY <2>1 DEF Discard, TypeOK
    <3> QED BY <2>1, <3>1, <3>2 DEF Discard, Acknowledge, TypeOK
  <2>2. CASE CalInterrupt BY <2>2 DEF CalInterrupt, Acknowledge, TypeOK
  <2>3. CASE Tick BY <2>3 DEF Tick, Acknowledge, TypeOK
  <2> QED BY <1>6, <2>1, <2>2, <2>3 DEF Interrupt
<1>7. CASE Boot
  <2>1. CASE SetupLocal
    <3>1. lvtt' \in Lvtts BY <2>1 DEF SetupLocal, TypeOK, Lvtts
    <3> QED BY <2>1, <3>1 DEF SetupLocal, TypeOK
  <2>2. CASE SetupBoot
    <3>1. todo' \in Work BY <2>2, WorkTypes DEF SetupBoot, TypeOK
    <3>2. dummy' \in BOOLEAN BY <2>2 DEF SetupBoot, TypeOK
    <3>3. pc' \in {"up", "setup", "calibrate"} BY <2>2 DEF SetupBoot
    <3> QED BY <2>2, <3>1, <3>2, <3>3 DEF SetupBoot, hard, TypeOK
  <2>3. CASE Poll BY <2>3 DEF Poll, hard, TypeOK
  <2>4. CASE Measure BY <2>4 DEF Measure, hard, TypeOK
  <2>5. CASE Decide
    <3>1. verdict' \in {"rejected", "pm", "unverified"} BY <2>5 DEF Decide
    <3> QED BY <2>5, <3>1 DEF Decide, hard, TypeOK
  <2>6. CASE Verify
    <3>1. todo' \in Work BY <2>6, WorkTypes DEF Verify
    <3>2. evt' \in Device BY <2>6 DEF Verify, TypeOK, Device
    <3> QED BY <2>6, <3>1, <3>2 DEF Verify, hard, TypeOK
  <2>7. CASE VerifyEnd
    <3>1. todo' \in Work BY <2>7, WorkTypes DEF VerifyEnd
    <3>2. JiffiesAgree(conf.tsc) \in BOOLEAN BY DEF JiffiesAgree
    <3>3. evt' \in Device BY <2>7, <3>2 DEF VerifyEnd, TypeOK, Device
    <3> QED BY <2>7, <3>1, <3>2, <3>3 DEF VerifyEnd, hard, TypeOK
  <2>8. CASE Return
    <3>1. dummy' \in BOOLEAN /\ pc' \in {"up", "setup"} BY <2>8 DEF Return
    <3> QED BY <2>8, <3>1 DEF Return, hard, TypeOK
  <2>9. CASE SetupTimer
    <3>1. evt' \in Device
      BY <2>9, <1>c DEF SetupTimer, TypeOK, Device, ZeroDevice, Confs
    <3> QED BY <2>9, <3>1 DEF SetupTimer, hard, TypeOK
  <2>10. CASE Register
    <3>1. todo' \in Work BY <2>10, WorkTypes DEF Register
    <3>2. evt' \in Device BY <2>10 DEF Register, TypeOK, Device
    <3> QED BY <2>10, <3>1, <3>2 DEF Register, hard, TypeOK
  <2> QED BY <1>7, <2>1, <2>2, <2>3, <2>4, <2>5, <2>6, <2>7, <2>8, <2>9, <2>10
          DEF Boot
<1>8. CASE Core
  <2>1. ASSUME NEW s \in {"periodic", "oneshot", "shutdown"},
               NEW work \in Work, Switch(s, work)
        PROVE  TypeOK'
    <3>1. evt' \in Device BY <2>1 DEF Switch, TypeOK, Device
    <3> QED BY <2>1, <3>1 DEF Switch, hard, TypeOK
  <2>2. CASE SetPeriodic BY <2>1, <2>2, WorkTypes DEF SetPeriodic
  <2>3. CASE SetOneshot BY <2>1, <2>3, WorkTypes DEF SetOneshot
  <2>4. CASE SetShutdown BY <2>1, <2>4, WorkTypes DEF SetShutdown
  <2>5. CASE NextEvent
    <3>1. dl' \in BOOLEAN /\ count' \in BOOLEAN BY <2>5 DEF NextEvent, TypeOK
    <3> QED BY <2>5, <3>1 DEF NextEvent, TypeOK
  <2> QED BY <1>8, <2>2, <2>3, <2>4, <2>5 DEF Core
<1>9. CASE Machine
  <2>1. CASE FreeInit BY <2>1 DEF FreeInit, hard, TypeOK
  <2>2. CASE Broadcast BY <2>2 DEF Broadcast, TypeOK
  <2>3. CASE Unplug
    <3>1. evt' \in Device BY <2>3 DEF Unplug, TypeOK, Device
    <3> QED BY <2>3, <3>1 DEF Unplug, TypeOK
  <2>4. CASE Replug BY <2>4 DEF Replug, hard, TypeOK
  <2> QED BY <1>9, <2>1, <2>2, <2>3, <2>4 DEF Machine
<1> QED
  BY <1>1, <1>2, <1>3, <1>4, <1>5, <1>6, <1>7, <1>8, <1>9 DEF Next

\* The variables of the timer keep their types: the registers, the writes still to
\* make and the clock event device of arch/x86/kernel/apic/apic.c.
THEOREM TypeCorrect == Spec => []TypeOK
<1> QED BY TypeInit, TypeNext, PTL DEF Spec

-----------------------------------------------------------------------------
\* A kernel that boots has no handler and has seen no stray interrupt.
LEMMA StrayInit == Init => IInv
<1> SUFFICES ASSUME Init PROVE IInv
  OBVIOUS
<1>1. pc = "early" /\ evt = ZeroDevice /\ freed = FALSE /\ spurious = 0
      /\ todo = NoWork /\ post = None
  BY DEF Init
<1> QED BY <1>1, MaskedTypes DEF IInv, Handlers, Writes, Stray, Calibrated

\* The hardware, and the writes the processor has begun.
LEMMA StrayWrites ==
  ASSUME TypeOK, IInv, Drain \/ Fire \/ WriteLvtt \/ WriteThen
  PROVE  IInv'
<1> USE MaskedTypes DEF IInv, Handlers, Writes, Stray, Calibrated, Silent, Silencing
<1>1. CASE Drain
  BY <1>1 DEF Drain, Effective, TypeOK
<1>2. CASE Fire
  BY <1>2 DEF Fire, TypeOK
<1>3. CASE WriteLvtt
  <2>1. /\ todo'.set = None /\ todo'.then = todo.then
        /\ todo.then = "none" => pc = "up" /\ evt.handler = "tick"
    BY <1>3 DEF WriteLvtt, TypeOK, Work
  <2>2. /\ UNCHANGED <<pc, evt, irr, spurious, freed>>
        /\ \/ lvtt' = todo.set /\ post' = post
           \/ lvtt' = lvtt /\ post' = todo.set
        /\ todo.set # None
    BY <1>3 DEF WriteLvtt, Effective
  <2>3. todo' = NoWork => pc = "up" /\ evt.handler = "tick"
    BY <2>1
  <2>4. (todo.set.masked /\ post.masked => lvtt'.masked \/ lvtt' = lvtt)
        /\ (todo.set.masked /\ post.masked => post'.masked)
    BY <2>2
  <2>5. todo # NoWork
    BY <2>2
  <2>6. Handlers'
    BY <2>2
  <2>7. Writes'
    <3>1. pc \notin {"boot", "register"} /\ (pc = "verify" => todo'.then = "count")
      BY <2>1, <2>5
    <3>2. ~(pc = "up" /\ evt.handler = "cal")
      BY <2>5
    <3> QED BY <2>1, <2>2, <3>1, <3>2
  <2>8. Silencing => Silencing' \/ evt.handler = "tick"
    BY <2>1, <2>2, <2>3, <2>4
  <2>9. Silent => Silent'
    BY <2>1, <2>2, <2>4
  <2>10. Stray'
    <3>1. pc \in {"early", "up"} /\ evt.handler = "null" /\ spurious = 2 => lvtt'.masked
      BY <2>2, <2>4, <2>5
    <3> QED BY <2>2, <2>5, <2>8, <2>9, <3>1 DEF TypeOK
  <2>11. Calibrated'
    BY <2>2, <2>5, <2>8, <2>9
  <2> QED BY <2>6, <2>7, <2>10, <2>11
<1>4. CASE WriteThen
  BY <1>4 DEF WriteThen, TypeOK, Work, NoWork
<1> QED BY <1>1, <1>2, <1>3, <1>4

\* A timer interrupt, with a handler or without (local_apic_timer_interrupt).
LEMMA StrayInterrupt == ASSUME TypeOK, IInv, Interrupt PROVE IInv'
<1> USE MaskedTypes DEF IInv, Handlers, Writes, Stray, Calibrated, Silent, Silencing
<1>1. CASE Discard
  <2>1. /\ pc \in {"early", "up"} /\ evt.handler = "null" /\ ~evt.dummy
        /\ spurious \in 0..1 /\ todo = NoWork
    BY <1>1 DEF Discard, Acknowledge, IrqsOn, TypeOK
  <2>2. todo' = Shutdown /\ spurious' = spurious + 1 /\ irr' = FALSE
    BY <1>1, <2>1 DEF Discard, Acknowledge
  <2>3. todo'.set.masked /\ todo'.set \in Lvtts /\ todo'.then = "stop"
    BY <2>2, WorkTypes
  <2>4. post = None /\ (spurious = 1 => lvtt.masked)
    BY <2>1
  <2>5. UNCHANGED <<pc, lvtt, post, evt, freed>>
    BY <1>1 DEF Discard
  <2>6. todo' # NoWork /\ todo'.set # None
    BY <2>3
  <2>7. Handlers' /\ Writes'
    BY <2>1, <2>3, <2>5
  <2>8. Stray'
    BY <2>1, <2>2, <2>3, <2>4, <2>5, <2>6
  <2>9. Calibrated'
    BY <2>1, <2>5
  <2> QED BY <2>7, <2>8, <2>9
<1>2. CASE CalInterrupt
  BY <1>2 DEF CalInterrupt, Acknowledge, TypeOK
<1>3. CASE Tick
  BY <1>3 DEF Tick, Acknowledge, TypeOK
<1> QED BY <1>1, <1>2, <1>3 DEF Interrupt

\* The steps of the boot (setup_boot_APIC_clock and the calibration).
LEMMA StrayBoot == ASSUME TypeOK, IInv, Boot PROVE IInv'
<1> USE MaskedTypes DEF IInv, Handlers, Writes, Stray, Calibrated, Silent, Silencing
<1>1. CASE SetupLocal
  <2>1. CASE lvtt' = [lvtt EXCEPT !.masked = TRUE] /\ irr' = FALSE
    <3>1. lvtt'.masked BY <2>1 DEF TypeOK, Lvtts
    <3> QED BY <1>1, <2>1, <3>1 DEF SetupLocal, TypeOK
  <2>2. CASE ~conf.usable /\ UNCHANGED <<lvtt, irr>>
    BY <1>1, <2>2 DEF SetupLocal, TypeOK
  <2> QED BY <1>1, <2>1, <2>2 DEF SetupLocal
<1>2. CASE SetupBoot
  <2>1. /\ todo'.set.masked
        /\ todo' = todo \/ (todo'.set \in Lvtts /\ todo'.then = "count" /\ pc' = "calibrate")
    BY <1>2, WorkTypes DEF SetupBoot
  <2> QED BY <1>2, <2>1 DEF SetupBoot, hard, TypeOK
<1>3. CASE Poll BY <1>3 DEF Poll, hard, TypeOK
<1>4. CASE Measure BY <1>4 DEF Measure, hard, TypeOK
<1>5. CASE Decide BY <1>5 DEF Decide, hard, TypeOK
<1>6. CASE Verify
  <2>1. todo'.set \in Lvtts /\ todo'.then = "count" BY <1>6, WorkTypes DEF Verify
  <2>2. evt'.handler = "cal" /\ evt'.state = evt.state
    BY <1>6 DEF Verify, TypeOK, Device
  <2> QED BY <1>6, <2>1, <2>2 DEF Verify, hard, TypeOK
<1>7. CASE VerifyEnd
  <2>1. todo'.set \in Lvtts /\ todo'.set.masked /\ todo'.then = "stop"
    BY <1>7, WorkTypes DEF VerifyEnd
  <2>2. evt'.handler = "cal" /\ evt'.state = evt.state
    BY <1>7 DEF VerifyEnd, TypeOK, Device
  <2> QED BY <1>7, <2>1, <2>2 DEF VerifyEnd, hard, TypeOK
<1>8. CASE Return BY <1>8 DEF Return, hard, TypeOK
<1>9. CASE SetupTimer
  <2>1. evt'.handler = "null" /\ evt'.state = "detached"
    BY <1>9 DEF SetupTimer, ZeroDevice
  <2> QED BY <1>9, <2>1 DEF SetupTimer, hard, TypeOK, Device
<1>10. CASE Register
  <2>1. evt'.handler = "tick" BY <1>10 DEF Register, TypeOK, Device
  <2>2. todo'.set # None => todo'.then # "none"
    BY <1>10, WorkTypes DEF Register
  <2> QED BY <1>10, <2>1, <2>2 DEF Register, hard, TypeOK
<1> QED BY <1>1, <1>2, <1>3, <1>4, <1>5, <1>6, <1>7, <1>8, <1>9, <1>10 DEF Boot

\* The clock event core and the machine.
LEMMA StrayUse == ASSUME TypeOK, IInv, Core \/ Machine PROVE IInv'
<1> USE MaskedTypes DEF IInv, Handlers, Writes, Stray, Calibrated, Silent, Silencing
<1>1. ASSUME NEW s \in {"periodic", "oneshot", "shutdown"},
             NEW work \in Work, Switch(s, work)
      PROVE  IInv'
  <2>1. evt.handler = "tick" /\ pc = "up"
    BY <1>1 DEF Switch, Ready, TypeOK, Device
  <2>2. evt'.handler = "tick" BY <1>1, <2>1 DEF Switch, TypeOK, Device
  <2> QED BY <1>1, <2>1, <2>2 DEF Switch, hard
<1>2. CASE SetPeriodic BY <1>1, <1>2, WorkTypes DEF SetPeriodic
<1>3. CASE SetOneshot BY <1>1, <1>3, WorkTypes DEF SetOneshot
<1>4. CASE SetShutdown BY <1>1, <1>4, WorkTypes DEF SetShutdown
<1>5. CASE NextEvent BY <1>5 DEF NextEvent, Ready, TypeOK
<1>6. CASE FreeInit BY <1>6 DEF FreeInit, hard, TypeOK
<1>7. CASE Broadcast
  <2>1. evt.handler = "tick" BY <1>7 DEF Broadcast, Ready, TypeOK, Device
  <2> QED BY <1>7, <2>1 DEF Broadcast, Ready, TypeOK
<1>8. CASE Unplug
  <2>1. evt'.handler = "noop" /\ evt'.state = "detached"
    BY <1>8 DEF Unplug, TypeOK, Device
  <2>2. /\ pc' = "offline" /\ todo' = NoWork /\ lvtt' = Masked /\ post' = None /\ irr' = FALSE
        /\ UNCHANGED <<spurious, freed>>
    BY <1>8 DEF Unplug, Ready
  <2>3. Handlers' /\ Writes'
    BY <2>1, <2>2
  <2>4. Stray' /\ Calibrated'
    BY <2>1, <2>2
  <2> QED BY <2>3, <2>4
<1>9. CASE Replug BY <1>9 DEF Replug, hard, TypeOK
<1> QED BY <1>2, <1>3, <1>4, <1>5, <1>6, <1>7, <1>8, <1>9 DEF Core, Machine

\* The invariant on stray timer interrupts is inductive.
LEMMA StrayNext == TypeOK /\ IInv /\ [Next]_vars => IInv'
<1> SUFFICES ASSUME TypeOK, IInv, [Next]_vars PROVE IInv'
  OBVIOUS
<1>1. CASE UNCHANGED vars
  BY <1>1 DEF vars, hard, IInv, Handlers, Writes, Stray, Calibrated, Silent, Silencing
<1>2. CASE Next
  BY <1>2, StrayWrites, StrayInterrupt, StrayBoot, StrayUse DEF Next
<1> QED BY <1>1, <1>2

\* At most two timer interrupts of an earlier kernel are discarded, and none
\* finds lapic_cal_handler once the init memory is gone (apic.c,
\* local_apic_timer_interrupt and calibrate_APIC_clock), on every machine and
\* command line and whatever the references measure.
THEOREM StraysSilenced == Spec => []StrayHarmless
<1>1. IInv => StrayHarmless
  BY DEF IInv, Handlers, Stray, Calibrated, StrayHarmless
<1> QED BY <1>1, TypeCorrect, StrayInit, StrayNext, PTL DEF Spec

-----------------------------------------------------------------------------
\* The machines that skip the PIT, but for the exception TickSource names.
Skips == ~GlobalTick /\ ~(conf.up /\ conf.disabled /\ conf.deadline)

\* On them nothing is measured, and what setup_boot_APIC_clock decided about
\* the template still holds when a processor sets its device up again.
TickInv ==
  Skips =>
    /\ pc \notin {"calibrate", "measured", "verify", "judge"}
    /\ pc \notin {"early", "boot"} => conf.deadline \/ ~dummy
    /\ pc = "register" => ~evt.dummy
    /\ pc = "up" => evt.state # "detached" /\ ~evt.dummy

\* Where the PIT is not needed the timer is in use, and needs no calibration.
LEMMA SkipsKnown ==
  ASSUME Skips
  PROVE  conf.usable /\ (~conf.deadline => ~conf.disabled /\ conf.known)
BY DEF Skips, GlobalTick, NeedsPit

\* The invariant on the source of ticks is inductive, next to the types.
LEMMA TickInvNext == TypeOK /\ TickInv /\ [Next]_vars => TickInv'
<1> SUFFICES ASSUME TypeOK, TickInv, [Next]_vars, Skips'
             PROVE  TickInv'
  BY DEF TickInv
<1>1. conf' = conf /\ Skips
  <2>1. conf' = conf
    BY DEF Next, Drain, Fire, WriteLvtt, WriteThen, Interrupt, Discard,
       CalInterrupt, Tick, Boot, SetupLocal, SetupBoot, Poll, Measure, Decide,
       Verify, VerifyEnd, Return, SetupTimer, Register, Core, SetPeriodic,
       SetOneshot, SetShutdown, Switch, NextEvent, Machine, FreeInit, Broadcast,
       Unplug, Replug, vars
  <2> QED BY <2>1 DEF Skips, GlobalTick, NeedsPit
<1>2. /\ pc \notin {"calibrate", "measured", "verify", "judge"}
      /\ pc \notin {"early", "boot"} => conf.deadline \/ ~dummy
      /\ pc = "register" => ~evt.dummy
      /\ pc = "up" => evt.state # "detached" /\ ~evt.dummy
  BY <1>1 DEF TickInv
<1>3. ASSUME UNCHANGED <<pc, evt, dummy>>
      PROVE  TickInv'
  BY <1>1, <1>2, <1>3 DEF TickInv
<1>4. CASE SetupLocal
  BY <1>1, <1>2, <1>4, SkipsKnown DEF SetupLocal, TickInv
<1>5. CASE SetupBoot
  <2>1. pc' = "setup" /\ (dummy' = FALSE \/ conf.deadline)
    BY <1>1, <1>5, SkipsKnown DEF SetupBoot, Skips
  <2> QED BY <1>1, <2>1 DEF TickInv
<1>6. CASE SetupTimer
  <2>1. conf.deadline \/ ~dummy
    BY <1>2, <1>6 DEF SetupTimer
  <2>2. evt'.dummy = (dummy /\ ~conf.deadline)
    BY <1>6 DEF SetupTimer, ZeroDevice
  <2>3. pc' = "register" /\ dummy' = dummy /\ ~evt'.dummy
    BY <1>6, <2>1, <2>2 DEF SetupTimer
  <2> QED BY <1>1, <2>1, <2>3 DEF TickInv
<1>7. CASE Register
  <2>1. evt'.state = "shutdown" /\ evt'.dummy = evt.dummy
    BY <1>7 DEF Register, TypeOK, Device
  <2>2. pc = "register" /\ pc' = "up" /\ dummy' = dummy
    BY <1>7 DEF Register
  <2> QED BY <1>1, <1>2, <2>1, <2>2 DEF TickInv
<1>8. CASE Core
  <2>1. ASSUME NEW s \in {"periodic", "oneshot", "shutdown"}, NEW work,
               Switch(s, work)
        PROVE  TickInv'
    <3>1. evt'.state = s /\ evt'.dummy = evt.dummy
      BY <2>1 DEF Switch, TypeOK, Device
    <3>2. pc = "up" /\ pc' = "up" /\ dummy' = dummy
      BY <2>1 DEF Switch, Ready
    <3> QED BY <1>1, <1>2, <3>1, <3>2 DEF TickInv
  <2> QED
    BY <1>3, <1>8, <2>1 DEF Core, SetPeriodic, SetOneshot, SetShutdown, NextEvent
<1>9. CASE Machine
  <2>1. CASE Unplug
    <3>1. pc = "up" /\ pc' = "offline" /\ dummy' = dummy
      BY <2>1 DEF Unplug, Ready
    <3> QED BY <1>1, <1>2, <3>1 DEF TickInv
  <2>2. CASE Replug
    <3>1. pc = "offline" /\ pc' = "setup" /\ UNCHANGED <<evt, dummy>>
      BY <2>2 DEF Replug
    <3> QED BY <1>1, <1>2, <3>1 DEF TickInv
  <2> QED
    BY <1>3, <1>9, <2>1, <2>2 DEF Machine, FreeInit, Broadcast
<1>10. CASE Poll \/ Measure \/ Decide \/ Verify \/ VerifyEnd \/ Return
  BY <1>2, <1>10 DEF Poll, Measure, Decide, Verify, VerifyEnd, Return
<1>11. CASE Drain \/ Fire \/ WriteLvtt \/ WriteThen \/ Interrupt \/ UNCHANGED vars
  BY <1>3, <1>11 DEF Drain, Fire, WriteLvtt, WriteThen, Interrupt, Discard,
     CalInterrupt, Tick, vars
<1> QED
  BY <1>4, <1>5, <1>6, <1>7, <1>8, <1>9, <1>10, <1>11 DEF Next, Boot

\* A machine that skips the PIT on the word of apic_needs_pit has a tick
\* whenever it is up, after hotplug too, on every machine and command line but
\* the one TickSource excepts.
THEOREM TickKept == Spec => []TickSource
<1>1. Init => TickInv
  BY DEF Init, TickInv
<1>2. TickInv => TickSource
  BY DEF TickInv, TickSource, Skips
<1> QED BY <1>1, <1>2, TypeCorrect, TickInvNext, PTL DEF Spec
-----------------------------------------------------------------------------
(* The period of a calibration that was accepted.  M bounds a tick of the    *)
(* reference and the delay of the loop together, whatever they are.          *)

\* The readings are times and counts, and there is a timer while it is measured.
CalTypes ==
  /\ loops \in Int /\ now \in Nat /\ start \in Nat /\ at1 \in Nat /\ at2 \in Nat
  /\ period \in Nat
  /\ bench \in [tick : Nat, rate : Nat, pm : Nat]
  /\ pc \in {"calibrate", "measured", "verify", "judge"} =>
       bench.tick \in Ticks /\ bench.rate \in Rates /\ bench.pm \in 0..(PmWrap - 1)

\* The two readings lie L calls apart, the last of them L + 2 calls after the beginning.
Readings(M) == at2 - at1 \in 0..(L * M) /\ at2 <= (L + 2) * M

\* The loop that measures begins at zero; between its two readings lie L calls.
Measuring(M) ==
  /\ pc \in {"early", "boot"} => loops = -1 /\ now = 0 /\ start = 0
  /\ pc = "calibrate" =>
       /\ loops >= -1 /\ start <= now
       /\ loops <= L => now <= (loops + 1) * M
       /\ loops \in 1..L => now - at1 \in 0..((loops - 1) * M)
       /\ loops > L => Readings(M)
  /\ pc = "measured" => Readings(M) /\ period = Measured(conf.pm)

\* What a measurement may last at most: less than a turn of the PM timer, and less than the
\* counter of the fastest timer, whose period is an unsigned int.
InRange(M) ==
  /\ \A t \in Ticks, s \in Stalls : t + s <= M
  /\ L * M < PmWrap
  /\ \A r \in Rates : r * ((L + 2) * M) < Tmict /\ Div * r * U < Uint

\* While the timer is verified each of its interrupts is one period after the last.
Verifying ==
  pc = "verify" =>
    /\ loops >= -1
    /\ loops \in 1..L => now = at1 + (loops - 1) * Lasts + (IF irr THEN Lasts ELSE 0)
    /\ loops > L => at2 = at1 + L * Lasts

CalInv(M) == CalTypes /\ Measuring(M) /\ Verifying /\ CalibrationHonest
-----------------------------------------------------------------------------
\* What the division of natural numbers yields.
LEMMA Divides ==
  ASSUME NEW x \in Nat, NEW d \in Nat \ {0}
  PROVE  x \div d \in Nat /\ d * (x \div d) <= x /\ x < d * (x \div d) + d
OBVIOUS

\* A product keeps the order of its factors.
LEMMA Product ==
  ASSUME NEW a \in Int, NEW b \in Int, NEW d \in Nat, a <= b
  PROVE  d * a <= d * b
<1>1. d * a \in Int /\ d * b \in Int /\ d * (b - a) \in Int /\ d * (b - a) = d * b - d * a
  OBVIOUS
<1>2. b - a \in Nat /\ d * (b - a) >= 0
  OBVIOUS
<1> QED BY <1>1, <1>2

\* A division without a rest.
LEMMA Exact ==
  ASSUME NEW x \in Nat, NEW d \in Nat \ {0}
  PROVE  (x * d) \div d = x
<1> DEFINE q == (x * d) \div d
<1>1. x * d \in Nat /\ x * d = d * x
  OBVIOUS
<1>2. q \in Nat /\ d * q <= d * x /\ d * x < d * q + d
  BY <1>1, Divides
<1> HIDE DEF q
<1>3. CASE q >= x + 1
  <2>1. d * (x + 1) <= d * q
    BY <1>2, <1>3, Product
  <2>2. d * (x + 1) = d * x + d
    OBVIOUS
  <2> QED BY <1>1, <1>2, <2>1, <2>2
<1>4. CASE x >= q + 1
  <2>1. d * (q + 1) <= d * x
    BY <1>2, <1>4, Product
  <2>2. d * (q + 1) = d * q + d
    BY <1>2
  <2> QED BY <1>1, <1>2, <2>1, <2>2
<1> QED BY <1>2, <1>3, <1>4 DEF q

\* The remainder is the only one.
LEMMA Remainder ==
  ASSUME NEW d \in Nat \ {0}, NEW q \in Int, NEW x \in Nat, NEW s \in 0..(d - 1), x = d * q + s
  PROVE  x % d = s
<1> DEFINE p == x \div d
<1>1. p \in Int /\ (x % d) \in 0..(d - 1) /\ x = d * p + (x % d)
  OBVIOUS
<1> HIDE DEF p
<1>2. d * p \in Int /\ d * q \in Int
  BY <1>1
<1>3. CASE p >= q + 1
  <2>1. d * (q + 1) <= d * p
    BY <1>1, <1>3, Product
  <2>2. d * (q + 1) = d * q + d
    OBVIOUS
  <2> QED BY <1>1, <1>2, <2>1, <2>2
<1>4. CASE q >= p + 1
  <2>1. d * (p + 1) <= d * q
    BY <1>1, <1>4, Product
  <2>2. d * (p + 1) = d * p + d
    BY <1>1
  <2> QED BY <1>1, <1>2, <2>1, <2>2
<1>5. CASE p = q
  BY <1>1, <1>2, <1>5
<1> QED BY <1>1, <1>3, <1>4, <1>5

\* A counter that wraps gives the distance if it wraps at most once (calibrate_APIC_clock
\* adds ACPI_PM_OVRRUN to a negative difference).
LEMMA Overrun ==
  ASSUME NEW w \in Nat \ {0}, NEW x \in Nat, NEW d \in 0..(w - 1)
  PROVE  ((x + d) % w) - (x % w) + (IF (x + d) % w < x % w THEN w ELSE 0) = d
<1> DEFINE q == x \div w
           r == x % w
<1>1. q \in Int /\ r \in 0..(w - 1) /\ x = w * q + r
  OBVIOUS
<1> HIDE DEF q
<1>2. SUFFICES ((x + d) % w) - r + (IF (x + d) % w < r THEN w ELSE 0) = d
  OBVIOUS
<1> HIDE DEF r
<1>3. CASE r + d < w
  <2>1. (x + d) % w = r + d
    BY <1>1, <1>3, Remainder
  <2> QED BY <1>1, <2>1
<1>4. CASE r + d >= w
  <2>1. w * (q + 1) = w * q + w /\ w * q \in Int
    BY <1>1
  <2>2. x + d = w * (q + 1) + (r + d - w) /\ r + d - w \in 0..(w - 1)
    BY <1>1, <1>4, <2>1
  <2> DEFINE y == x + d
             s == r + d - w
  <2>3. q + 1 \in Int /\ y \in Nat /\ s \in 0..(w - 1) /\ y = w * (q + 1) + s
    BY <1>1, <2>2
  <2> HIDE DEF y, s
  <2>4. y % w = s
    BY <2>3, Remainder
  <2>5. (x + d) % w = r + d - w
    BY <2>4 DEF y, s
  <2> QED BY <1>1, <1>4, <2>5
<1> QED BY <1>1, <1>3, <1>4

\* calibrate_by_pmtimer: a period within a hundredth, and a count, of the true tick, whether the
\* PM timer confirms the reference or corrects it.
LEMMA Accurate ==
  ASSUME NEW r \in Nat \ {0}, NEW d \in Nat \ {0}, NEW l \in Nat \ {0}, NEW u \in Nat \ {0},
         NEW k \in Nat \ {0}, NEW delta \in Nat,
         delta = IF d > l * u - (l * u) \div 100 /\ d < l * u + (l * u) \div 100
                 THEN r * d ELSE ((r * d) * (l * u)) \div d
  PROVE  100 * ((delta * k) \div l - k * r * u) \in -(k * r * u + 100)..(k * r * u + 100)
<1> DEFINE t == k * r * u
           p == (delta * k) \div l
           m == l * u
           e == m \div 100
<1>1. t \in Nat /\ m \in Nat /\ delta * k \in Nat
  OBVIOUS
<1>2. p \in Nat /\ l * p <= delta * k /\ delta * k < l * p + l
  BY <1>1, Divides
<1>3. e \in Nat /\ 100 * e <= m
  BY <1>1, Divides
<1>4. l * t = (k * r) * m /\ l * t \in Nat
  OBVIOUS
<1> HIDE DEF p, e
<1>5. SUFFICES 100 * (p - t) \in -(t + 100)..(t + 100)
  BY DEF p
<1>6. CASE d > m - e /\ d < m + e
  <2>1. delta * k = (k * r) * d /\ k * r \in Nat
    BY <1>6 DEF e
  <2>2. 100 * d <= 101 * m /\ 99 * m <= 100 * d
    BY <1>1, <1>3, <1>6
  <2> DEFINE x == k * r
             v == x * d
             z == x * m
  <2>3. x * (100 * d) <= x * (101 * m) /\ x * (99 * m) <= x * (100 * d)
    BY <1>1, <2>1, <2>2, Product
  <2>4. v \in Nat /\ z \in Nat /\ 100 * v <= 101 * z /\ 99 * z <= 100 * v
    BY <1>1, <2>1, <2>3
  <2>5. v = delta * k /\ z = l * t
    BY <1>4, <2>1
  <2> HIDE DEF t, m, x, v, z
  <2>6. l * p \in Nat /\ l * t \in Nat
    BY <1>1, <1>2
  <2>7. 100 * (l * p) <= 101 * (l * t) /\ 99 * (l * t) < 100 * (l * p) + 100 * l
    BY <1>2, <2>4, <2>5, <2>6
  <2>8. 100 * p <= 101 * t
    <3>1. ASSUME 101 * t + 1 <= 100 * p PROVE FALSE
      <4>1. l * (101 * t + 1) <= l * (100 * p)
        BY <1>1, <1>2, <3>1, Product
      <4>2. l * (101 * t + 1) = 101 * (l * t) + l /\ l * (100 * p) = 100 * (l * p)
        BY <1>1, <1>2
      <4> QED BY <2>6, <2>7, <4>1, <4>2
    <3> QED BY <1>1, <1>2, <3>1
  <2>9. 99 * t <= 100 * p + 100
    <3>1. ASSUME 100 * p + 100 + 1 <= 99 * t PROVE FALSE
      <4>1. l * (100 * p + 101) <= l * (99 * t)
        BY <1>1, <1>2, <3>1, Product
      <4>2. l * (100 * p + 101) = 100 * (l * p) + 101 * l /\ l * (99 * t) = 99 * (l * t)
        BY <1>1, <1>2
      <4> QED BY <2>6, <2>7, <4>1, <4>2
    <3> QED BY <1>1, <1>2, <3>1
  <2> QED BY <1>1, <1>2, <2>8, <2>9
<1>7. CASE ~(d > m - e /\ d < m + e)
  <2>1. r * m \in Nat /\ (r * d) * m = (r * m) * d
    BY <1>1
  <2>2. delta = ((r * d) * m) \div d
    BY <1>7 DEF e
  <2>3. delta = r * m
    BY <2>1, <2>2, Exact
  <2>4. delta * k = t * l
    BY <2>3
  <2>5. p = t
    BY <1>1, <2>4, Exact DEF p
  <2> QED BY <1>1, <2>5
<1> QED BY <1>6, <1>7

\* The verification by jiffies: two counts of ticks that differ by at most two from L are
\* taken at times that differ by less than three ticks more.
LEMMA Agreed ==
  ASSUME NEW a \in Nat, NEW b \in Nat, NEW d \in Nat \ {0}, NEW l \in Nat,
         (a \div d) - (b \div d) \in (l - 2)..(l + 2)
  PROVE  a - b \in ((l - 3) * d)..((l + 3) * d)
<1> DEFINE p == a \div d
           q == b \div d
<1>1. p \in Nat /\ d * p <= a /\ a < d * p + d
  BY Divides
<1>2. q \in Nat /\ d * q <= b /\ b < d * q + d
  BY Divides
<1> HIDE DEF p, q
<1>3. p - q \in (l - 2)..(l + 2)
  BY DEF p, q
<1>4. d * (p - q) = d * p - d * q /\ d * p \in Int /\ d * q \in Int
  BY <1>1, <1>2
<1>5. d * (l - 2) <= d * (p - q) /\ d * (p - q) <= d * (l + 2)
  BY <1>1, <1>2, <1>3, Product
<1>6. /\ d * (l - 2) = d * l - 2 * d /\ d * (l + 2) = d * l + 2 * d /\ d * l \in Int
      /\ (l - 3) * d = d * l - 3 * d /\ (l + 3) * d = d * l + 3 * d
  OBVIOUS
<1> QED BY <1>1, <1>2, <1>4, <1>5, <1>6

-----------------------------------------------------------------------------
\* The constants of the calibration, one by one.
LEMMA CalConstants ==
  /\ L \in Nat \ {0} /\ U \in Nat \ {0} /\ Div \in Nat \ {0} /\ PmWrap \in Nat \ {0}
  /\ Ticks \subseteq Nat \ {0} /\ Rates \subseteq Nat \ {0} /\ Stalls \subseteq Nat
  /\ PmStarts \subseteq 0..(PmWrap - 1)
  /\ Uint \in Nat \ {0} /\ Word \in Nat \ {0}
BY CalAssumption

\* TMICT is set to a count whose clocks fit an unsigned int.
LEMMA TmictType == Tmict \in Nat \ {0} /\ Div * Tmict < Uint
<1>1. Div \in Nat \ {0} /\ Uint \in Nat \ {0} /\ Div < Uint
  BY CalAssumption
<1> DEFINE q == (Uint - 1) \div Div
<1>2. q \in Nat /\ Div * q <= Uint - 1 /\ Uint - 1 < Div * q + Div
  BY <1>1, Divides
<1> HIDE DEF q
<1>3. q # 0
  BY <1>1, <1>2
<1> QED BY <1>1, <1>2, <1>3 DEF Tmict, q

\* A long holds what is less than half of the range.
LEMMA LongSmall ==
  ASSUME NEW x \in Nat, 2 * (x + 1) <= Word
  PROVE  Long(x) = x
<1>1. Word \in Nat \ {0} /\ x < Word /\ 2 \in Nat \ {0}
  BY CalConstants
<1>2. x = Word * 0 + x /\ x \in 0..(Word - 1)
  BY <1>1
<1>3. x % Word = x
  BY <1>1, <1>2, Remainder
<1> DEFINE h == Word \div 2
<1>4. h \in Nat /\ Word < 2 * h + 2
  BY <1>1, Divides
<1>5. x < h
  BY <1>1, <1>4
<1> QED BY <1>3, <1>5 DEF Long

\* Longs are integers, and so are their quotients.
LEMMA Integers ==
  /\ \A x \in Int : Long(x) \in Int
  /\ \A x \in Int, d \in Nat \ {0} : Quotient(x, d) \in Int
<1>1. ASSUME NEW x \in Int PROVE Long(x) \in Int
  <2>1. x % Word \in Int /\ Word \in Int
    BY CalConstants
  <2> QED BY <2>1 DEF Long
<1>2. ASSUME NEW x \in Int, NEW d \in Nat \ {0} PROVE Quotient(x, d) \in Int
  <2>1. x \div d \in Int /\ (-x) \div d \in Int
    OBVIOUS
  <2> QED BY <2>1 DEF Quotient
<1> QED BY <1>1, <1>2

\* The period is the quotient itself if that fits an unsigned int.
LEMMA Fits ==
  ASSUME NEW x \in Nat, x < L * Uint
  PROVE  Quotient(Long(x), L) % Uint = x \div L
<1> USE CalConstants
<1> DEFINE q == x \div L
           b == L * Uint
<1>1. q \in Nat /\ L * q <= x
  BY Divides
<1>2. b \in Nat /\ 2 * b <= Word
  <2>1. 2 * Uint * L * U = (2 * b) * U /\ b \in Nat /\ 2 * b \in Nat
    OBVIOUS
  <2> DEFINE c == 2 * b
  <2> HIDE DEF b
  <2>2. c * 1 <= c * U
    BY <2>1, Product
  <2> QED BY <2>1, <2>2, CalAssumption
<1>3. x + 1 <= b
  BY <1>2
<1>4. Long(x) = x
  <2> HIDE DEF b
  <2> QED BY <1>2, <1>3, LongSmall
<1>5. q < Uint
  <2>1. CASE Uint <= q
    <3>1. L * Uint <= L * q
      BY <1>1, <2>1, Product
    <3> QED BY <1>1, <3>1
  <2> QED BY <1>1, <2>1
<1>6. q = Uint * 0 + q /\ q \in 0..(Uint - 1)
  BY <1>1, <1>5
<1>7. q % Uint = q
  <2> HIDE DEF q
  <2> QED BY <1>1, <1>6, Remainder
<1> QED BY <1>4, <1>7 DEF Quotient

\* The counter has counted the time between the readings if it did not start again.
LEMMA Counted ==
  ASSUME NEW r \in Nat, NEW a \in Nat, NEW b \in Nat, a <= b, r * b < Tmict
  PROVE  (Tmict - ((r * a) % Tmict)) - (Tmict - ((r * b) % Tmict)) = r * (b - a)
<1>1. r * a <= r * b /\ r * a \in Nat /\ r * b \in Nat /\ r * (b - a) = r * b - r * a
  BY Product
<1> DEFINE x == r * a
           y == r * b
<1>2. x \in 0..(Tmict - 1) /\ y \in 0..(Tmict - 1) /\ r * (b - a) = y - x
  BY <1>1, TmictType
<1> HIDE DEF x, y
<1>3. x = Tmict * 0 + x /\ y = Tmict * 0 + y
  BY <1>2, TmictType
<1>4. x % Tmict = x /\ y % Tmict = y
  BY <1>2, <1>3, TmictType, Remainder
<1>5. (Tmict - (x % Tmict)) - (Tmict - (y % Tmict)) = y - x
  BY <1>2, <1>4, TmictType
<1> QED BY <1>2, <1>5 DEF x, y

\* The correction by the PM timer in u64 is exact: the product fits, and so does the result.
LEMMA Corrected ==
  ASSUME NEW r \in Nat \ {0}, NEW d \in Nat \ {0}, r * d < Tmict, Div * r * U < Uint
  PROVE  /\ Long((((r * d) * Pm100ms) % Word) \div d) = ((r * d) * (L * U)) \div d
         /\ ((r * d) * (L * U)) \div d = r * (L * U)
<1> USE CalConstants
<1> DEFINE m == L * U
           v == r * d
           w == v * m
<1>1. m \in Nat /\ v \in Nat /\ w \in Nat /\ Pm100ms = m
  BY DEF Pm100ms
<1>2. 2 * (Uint * m) <= Word
  <2>1. 2 * Uint * L * U = 2 * (Uint * m)
    OBVIOUS
  <2> QED BY <2>1, CalAssumption
<1>3. v < Uint
  <2>1. 1 * Tmict <= Div * Tmict
    BY TmictType
  <2> QED BY <2>1, TmictType
<1>4. w < Word
  <2> HIDE DEF v, m
  <2>1. m * v <= m * Uint /\ m * Uint = Uint * m /\ m * v = w /\ Uint * m \in Nat
    BY <1>1, <1>3, Product
  <2> HIDE DEF w
  <2> QED BY <1>1, <1>2, <2>1
<1>5. w % Word = w
  <2> HIDE DEF w
  <2>1. w = Word * 0 + w /\ w \in 0..(Word - 1)
    BY <1>1, <1>4
  <2> QED BY <1>1, <2>1, Remainder
<1>6. w \div d = r * m
  <2>1. w = (r * m) * d /\ r * m \in Nat
    BY <1>1
  <2> QED BY <2>1, Exact
<1>7. 2 * (r * m + 1) <= Word
  <2> DEFINE y == r * U
             z == Div * y
  <2>1. y \in Nat /\ z = Div * r * U /\ z \in Nat
    OBVIOUS
  <2>2. z < Uint
    BY <2>1
  <2>3. y + 1 <= Uint
    <3> HIDE DEF y
    <3>1. y * 1 <= y * Div
      BY <2>1, Product
    <3> QED BY <2>1, <2>2, <3>1
  <2>4. L * (y + 1) <= L * Uint /\ L * (y + 1) = L * y + L /\ L * y = r * m /\ L * y \in Nat
    <3>1. L * y = r * m /\ L * (y + 1) = L * y + L /\ L * y \in Nat
      OBVIOUS
    <3> HIDE DEF y, m
    <3> QED BY <2>1, <2>3, <3>1, Product
  <2>5. L * Uint <= Uint * m
    <3> DEFINE b == L * Uint
    <3>1. b \in Nat /\ b * U = Uint * m
      OBVIOUS
    <3> HIDE DEF b, m
    <3>2. b * 1 <= b * U
      BY <3>1, Product
    <3> QED BY <3>1, <3>2 DEF b
  <2> HIDE DEF y, m
  <2>6. L * Uint \in Nat /\ Uint * m \in Nat /\ r * m \in Nat
    BY <1>1, <2>4
  <2> QED BY <1>2, <2>4, <2>5, <2>6
<1>8. Long(r * m) = r * m
  <2>1. r * m \in Nat
    BY <1>1
  <2> DEFINE y == r * m
  <2> HIDE DEF y
  <2>2. y \in Nat /\ 2 * (y + 1) <= Word
    BY <1>7, <2>1 DEF y
  <2>3. Long(y) = y
    BY <2>2, LongSmall
  <2> QED BY <2>3 DEF y
<1> QED BY <1>1, <1>5, <1>6, <1>8

\* The duration of a period is a number.
LEMMA LastsType ==
  ASSUME CalTypes, pc \in {"calibrate", "measured", "verify", "judge"}
  PROVE  Lasts \in Nat
<1>1. period \in Nat /\ bench.rate \in Nat \ {0} /\ Div \in Nat \ {0}
  BY CalConstants DEF CalTypes
<1>2. period \div Div \in Nat
  BY <1>1, Divides
<1> QED BY <1>1, <1>2, Divides DEF Lasts

\* calibrate_by_pmtimer knows the time between the two readings, if the PM timer wraps once at most.
LEMMA Distance ==
  ASSUME CalTypes, pc \in {"calibrate", "measured"}, at2 - at1 \in 0..(PmWrap - 1)
  PROVE  DeltaPm(TRUE) = at2 - at1
<1> DEFINE x == bench.pm + at1
           d == at2 - at1
<1>1. x \in Nat /\ d \in 0..(PmWrap - 1) /\ x + d = bench.pm + at2
  BY DEF CalTypes
<1> HIDE DEF d
<1>2. ((x + d) % PmWrap) - (x % PmWrap) + (IF (x + d) % PmWrap < x % PmWrap THEN PmWrap ELSE 0) = d
  BY <1>1, CalConstants, Overrun
<1>3. Pm(at1) = x % PmWrap /\ Pm(at2) = (x + d) % PmWrap
  BY <1>1 DEF Pm
<1>4. DeltaPm(TRUE) = d
  BY <1>2, <1>3 DEF DeltaPm
<1> QED BY <1>4 DEF d

\* The period is an unsigned int, whatever the readings are.
LEMMA MeasuredType ==
  ASSUME CalTypes, pc = "calibrate", at2 - at1 \in 0..(PmWrap - 1), conf.pm \in BOOLEAN
  PROVE  Measured(conf.pm) \in Nat
<1> DEFINE d == DeltaPm(conf.pm)
           delta == Counter(at1) - Counter(at2)
           c == (delta * Pm100ms) % Word
<1>1. d \in Nat
  BY Distance, CalConstants DEF DeltaPm
<1>2. delta \in Int
  <2>1. \A t \in Nat : Counter(t) \in Int
    BY TmictType DEF Counter, CalTypes
  <2> QED BY <2>1 DEF CalTypes
<1>3. Pm100ms \in Nat
  BY CalConstants DEF Pm100ms
<1>4. c \in Nat
  <2>1. delta * Pm100ms \in Int
    BY <1>2, <1>3
  <2> QED BY <2>1, CalConstants
<1>5. Delta(d) = delta \/ (d # 0 /\ Delta(d) = Long(c \div d))
  BY DEF Delta
<1> HIDE DEF d, delta, c
<1>6. d # 0 => c \div d \in Int
  BY <1>1, <1>4
<1>7. Delta(d) \in Int
  BY <1>2, <1>5, <1>6, Integers
<1> DEFINE q == Quotient(Long(Delta(d) * Div), L)
<1>8. q \in Int
  <2>1. Delta(d) * Div \in Int
    BY <1>7, CalConstants
  <2> QED BY <2>1, CalConstants, Integers
<1> HIDE DEF q
<1>9. q % Uint \in Nat
  BY <1>8, CalConstants
<1> QED BY <1>9 DEF Measured, d, q

\* A step that leaves the readings and the boot alone.
LEMMA CalSame ==
  ASSUME NEW M, CalInv(M), UNCHANGED <<cal, conf, pc, verdict>>, pc = "verify" => irr' = irr
  PROVE  CalInv(M)'
<1>1. /\ loops' = loops /\ now' = now /\ start' = start /\ at1' = at1 /\ at2' = at2
      /\ period' = period /\ bench' = bench /\ conf' = conf /\ pc' = pc /\ verdict' = verdict
  BY DEF cal
<1>2. Lasts' = Lasts /\ True' = True /\ Measured(conf.pm)' = Measured(conf.pm)
  BY <1>1 DEF Lasts, True, Measured, Delta, DeltaPm, Pm, Counter
<1>3. CalTypes'
  BY <1>1 DEF CalInv, CalTypes
<1>4. Measuring(M)'
  BY <1>1, <1>2 DEF CalInv, Measuring, Readings
<1>5. Verifying'
  BY <1>1, <1>2 DEF CalInv, Verifying
<1>6. CalibrationHonest'
  BY <1>1, <1>2 DEF CalInv, CalibrationHonest
<1> QED BY <1>3, <1>4, <1>5, <1>6 DEF CalInv

\* Outside the calibration nothing but the types is claimed.
LEMMA CalOver ==
  ASSUME NEW M, CalTypes',
         pc' \notin {"early", "boot", "calibrate", "measured", "verify", "judge"}
  PROVE  CalInv(M)'
BY DEF CalInv, Measuring, Verifying, CalibrationHonest

\* A turn of the polling loop of calibrate_APIC_clock, on time or late.
LEMMA CalPoll ==
  ASSUME NEW M \in Nat, InRange(M), CalInv(M), Poll
  PROVE  CalInv(M)'
<1> USE CalConstants
<1>1. PICK s \in Stalls : CalTick(conf.tsc, s)
  BY DEF Poll
<1>2. pc = "calibrate" /\ UNCHANGED <<conf, pc, verdict, period, bench>>
  BY <1>1 DEF Poll, CalTick
<1> DEFINE due == start + bench.tick
           t == (IF now > due THEN now ELSE due) + s
<1>3. /\ bench.tick \in Nat \ {0} /\ bench.tick + s <= M /\ s \in Nat
      /\ loops \in Int /\ now \in Nat /\ start \in Nat /\ at1 \in Nat /\ at2 \in Nat
      /\ loops >= -1 /\ loops <= L /\ start <= now /\ now <= (loops + 1) * M
      /\ loops \in 1..L => now - at1 \in 0..((loops - 1) * M)
  BY <1>1, <1>2 DEF CalInv, CalTypes, Measuring, CalTick, InRange
<1>4. t \in Nat /\ now <= t /\ t - now <= M /\ due <= t /\ due \in Nat
  BY <1>3
<1>5. /\ loops' = loops + 1 /\ now' = t
      /\ at1' = (IF loops = 0 THEN t ELSE at1) /\ at2' = (IF loops = L THEN t ELSE at2)
      /\ start' = IF conf.tsc THEN due ELSE bench.tick * (t \div bench.tick)
  BY <1>1 DEF CalTick, Handler
<1> HIDE DEF t, due
<1>6. start' \in Nat /\ start' <= now'
  <2>1. t \div bench.tick \in Nat /\ bench.tick * (t \div bench.tick) <= t
    BY <1>3, <1>4, Divides
  <2>2. bench.tick * (t \div bench.tick) \in Nat
    BY <1>3, <2>1
  <2> QED BY <1>4, <1>5, <2>1, <2>2
<1>7. CalTypes'
  BY <1>2, <1>3, <1>4, <1>5, <1>6 DEF CalInv, CalTypes
<1>8. loops \in 1..L => t - at1 \in 0..(loops * M)
  <2>1. loops \in 1..L => loops * M = (loops - 1) * M + M /\ (loops - 1) * M \in Int
    BY <1>3
  <2> QED BY <1>3, <1>4, <2>1
<1>10. now' <= (loops' + 1) * M
  <2>1. (loops' + 1) * M = (loops + 1) * M + M /\ (loops + 1) * M \in Int
    BY <1>3, <1>5
  <2> QED BY <1>3, <1>4, <1>5, <2>1
<1>9. Measuring(M)'
  <2>1. loops' >= -1 /\ start' <= now'
    BY <1>3, <1>5, <1>6
  <2>2. ASSUME loops' \in 1..L PROVE now' - at1' \in 0..((loops' - 1) * M)
    <3>1. CASE loops = 0
      BY <1>4, <1>5, <3>1
    <3>2. CASE loops \in 1..L
      <4>1. at1' = at1 /\ loops' - 1 = loops
        BY <1>3, <1>5, <3>2
      <4> QED BY <1>5, <1>8, <3>2, <4>1
    <3> QED BY <1>3, <1>5, <2>2, <3>1, <3>2
  <2>3. ASSUME loops' > L PROVE Readings(M)'
    <3>1. loops = L /\ at2' = t /\ at1' = at1 /\ now' = t /\ loops' + 1 = L + 2
      BY <1>3, <1>5, <2>3
    <3> QED BY <1>8, <1>10, <3>1 DEF Readings
  <2> QED BY <1>2, <1>10, <2>1, <2>2, <2>3 DEF Measuring
<1> QED BY <1>2, <1>7, <1>9 DEF CalInv, Verifying, CalibrationHonest

\* lapic_cal_handler, called by the timer itself while it is verified.
LEMMA CalCounts ==
  ASSUME NEW M, TypeOK, IInv, CalInv(M), CalInterrupt
  PROVE  CalInv(M)'
<1> USE CalConstants
<1>1. /\ pc \in {"verify", "setup", "up"} /\ irr /\ ~irr'
      /\ UNCHANGED <<conf, pc, verdict, period, bench, start>>
      /\ loops' = loops + 1 /\ now' = now
      /\ at1' = (IF loops = 0 THEN now ELSE at1) /\ at2' = (IF loops = L THEN now ELSE at2)
  BY DEF CalInterrupt, Acknowledge, IrqsOn, Handler, IInv, Handlers
<1>2. CalTypes'
  BY <1>1 DEF CalInv, CalTypes
<1>3. CASE pc # "verify"
  BY <1>1, <1>2, <1>3, CalOver
<1>4. CASE pc = "verify"
  <2>1. Lasts' = Lasts /\ Lasts \in Nat
    BY <1>1, <1>4, LastsType DEF Lasts, CalInv
  <2> DEFINE s == Lasts
  <2>2. /\ loops \in Int /\ loops >= -1 /\ now \in Nat /\ at1 \in Nat
        /\ loops \in 1..L => now = at1 + (loops - 1) * s + s
        /\ loops > L => at2 = at1 + L * s
    BY <1>1, <1>4 DEF CalInv, CalTypes, Verifying
  <2>3. /\ loops' \in 1..L => now' = at1' + (loops' - 1) * s
        /\ loops' > L => at2' = at1' + L * s
    <3> HIDE DEF s
    <3>1. s \in Nat
      BY <2>1 DEF s
    <3>2. loops \in 1..L => now = at1 + loops * s
      <4>1. loops \in 1..L => loops * s = (loops - 1) * s + s /\ (loops - 1) * s \in Int
        BY <3>1
      <4> QED BY <2>2, <3>1, <4>1
    <3>3. CASE loops <= 0
      <4>1. loops' > 0 => loops = 0 /\ loops' = 1 /\ at1' = now /\ now' = now /\ 0 * s = 0
        BY <1>1, <2>2, <3>1, <3>3
      <4> QED BY <1>1, <2>2, <3>3, <4>1
    <3>4. CASE loops \in 1..L
      <4>1. at1' = at1 /\ now' = now /\ loops' - 1 = loops /\ (loops' > L => loops = L /\ at2' = now)
        BY <1>1, <2>2, <3>4
      <4> QED BY <3>2, <3>4, <4>1
    <3>5. CASE loops > L
      BY <1>1, <2>2, <3>5
    <3> QED BY <2>2, <3>3, <3>4, <3>5
  <2>4. Verifying'
    <3>1. loops' >= -1 /\ (loops' - 1) * s \in Int /\ at1' \in Int
      BY <1>1, <2>1, <2>2
    <3> QED BY <1>1, <2>1, <2>3, <3>1 DEF Verifying
  <2> QED BY <1>1, <1>2, <1>4, <2>4 DEF CalInv, Measuring, CalibrationHonest
<1> QED BY <1>3, <1>4

\* The timer runs out: while it is verified one period has passed.
LEMMA CalFires ==
  ASSUME NEW M, TypeOK, CalInv(M), Fire
  PROVE  CalInv(M)'
<1> USE CalConstants
<1>1. UNCHANGED <<loops, start, at1, at2, period, bench, conf, pc, verdict>>
  BY DEF Fire
<1>2. CASE pc # "verify"
  BY <1>1, <1>2, CalSame DEF Fire, cal
<1>3. CASE pc = "verify"
  <2>1. Lasts' = Lasts /\ Lasts \in Nat
    BY <1>1, <1>3, LastsType DEF Lasts, CalInv
  <2>2. ~irr /\ loops <= L /\ irr' \in BOOLEAN /\ now' = IF irr' THEN now + Lasts ELSE now
    BY <1>3 DEF Fire, TypeOK, Lvtts
  <2>3. CalTypes'
    BY <1>1, <2>1, <2>2 DEF CalInv, CalTypes
  <2>4. /\ loops \in Int /\ now \in Nat /\ at1 \in Nat /\ loops >= -1
        /\ loops \in 1..L => now = at1 + (loops - 1) * Lasts
    <3>1. (loops - 1) * Lasts \in Int /\ at1 \in Nat
      BY <2>1 DEF CalInv, CalTypes
    <3> QED BY <1>3, <2>2, <3>1 DEF CalInv, CalTypes, Verifying
  <2>5. Verifying'
    <3>1. loops' = loops /\ at1' = at1 /\ (loops - 1) * Lasts \in Int
      BY <1>1, <2>1, <2>4
    <3> QED BY <1>1, <2>1, <2>2, <2>4, <3>1 DEF Verifying
  <2> QED BY <1>1, <1>3, <2>3, <2>5 DEF CalInv, Measuring, CalibrationHonest
<1> QED BY <1>2, <1>3

\* The boot begins to calibrate.
LEMMA CalStarts ==
  ASSUME NEW M \in Nat, CalInv(M), SetupBoot
  PROVE  CalInv(M)'
<1> USE CalConstants
<1>1. /\ pc = "boot" /\ pc' \in {"up", "setup", "calibrate"}
      /\ UNCHANGED <<loops, now, start, at1, at2, period>>
      /\ pc' # "calibrate" => bench' = bench
      /\ pc' = "calibrate" => CalBegin(conf.pm)
  BY DEF SetupBoot, CalBegin, cal
<1>2. pc' = "calibrate" => /\ bench'.tick \in Ticks /\ bench'.rate \in Rates
                           /\ bench'.pm \in 0..(PmWrap - 1)
                           /\ bench' \in [tick : Nat, rate : Nat, pm : Nat]
  <2> SUFFICES ASSUME pc' = "calibrate"
               PROVE  \E t \in Ticks, r \in Rates, q \in 0..(PmWrap - 1) :
                        bench' = [tick |-> t, rate |-> r, pm |-> q]
    OBVIOUS
  <2>1. PICK t \in Ticks, r \in Rates, q \in IF conf.pm THEN PmStarts ELSE {0} :
          bench' = [tick |-> t, rate |-> r, pm |-> q]
    BY <1>1 DEF CalBegin
  <2> QED BY <2>1
<1>3. CalTypes'
  BY <1>1, <1>2 DEF CalInv, CalTypes
<1>4. Measuring(M)'
  <2>1. (-1 + 1) * M = 0
    OBVIOUS
  <2> QED BY <1>1, <2>1 DEF CalInv, CalTypes, Measuring
<1> QED BY <1>1, <1>3, <1>4 DEF CalInv, Verifying, CalibrationHonest

\* The loop is over and the readings become lapic_timer_period.
LEMMA CalMeasured ==
  ASSUME NEW M \in Nat, InRange(M), TypeOK, CalInv(M), Measure
  PROVE  CalInv(M)'
<1> USE CalConstants
<1>1. /\ pc = "calibrate" /\ pc' = "measured" /\ loops > L /\ period' = Measured(conf.pm)
      /\ UNCHANGED <<loops, now, start, at1, at2, bench, conf>>
  BY DEF Measure
<1>2. Readings(M) /\ L * M \in Nat
  BY <1>1 DEF CalInv, Measuring
<1>3. at2 - at1 \in 0..(PmWrap - 1)
  BY <1>2 DEF Readings, InRange
<1>4. conf.pm \in BOOLEAN
  BY MachineAssumption DEF TypeOK, Confs
<1>5. period' \in Nat
  BY <1>1, <1>3, <1>4, MeasuredType DEF CalInv
<1>6. CalTypes'
  BY <1>1, <1>5 DEF CalInv, CalTypes
<1>7. Measured(conf.pm)' = Measured(conf.pm)
  BY <1>1 DEF Measured, Delta, DeltaPm, Pm, Counter
<1>8. Measuring(M)'
  BY <1>1, <1>2, <1>7 DEF Measuring, Readings
<1> QED BY <1>1, <1>6, <1>8 DEF CalInv, Verifying, CalibrationHonest

\* A period the PM timer has referenced is accepted.
LEMMA CalAccepted ==
  ASSUME NEW M \in Nat, InRange(M), TypeOK, CalInv(M), Decide
  PROVE  CalInv(M)'
<1> USE CalConstants
<1>1. /\ pc = "measured" /\ pc' = "judge"
      /\ UNCHANGED <<loops, now, start, at1, at2, period, bench, conf>>
      /\ \/ verdict' \in {"rejected", "unverified"}
         \/ verdict' = "pm" /\ ByPm(DeltaPm(conf.pm))
  BY DEF Decide, cal
<1>2. CalTypes'
  BY <1>1 DEF CalInv, CalTypes
<1>3. Measuring(M)' /\ Verifying'
  BY <1>1 DEF Measuring, Verifying
<1>4. ASSUME verdict' = "pm"
      PROVE  100 * (period - True) \in -(True + 100)..(True + 100)
  <2> DEFINE d == at2 - at1
             r == bench.rate
             delta == Delta(d)
  <2>1. /\ d \in 0..(L * M) /\ L * M \in Nat /\ period = Measured(conf.pm)
        /\ r \in Rates /\ r \in Nat \ {0}
    BY <1>1 DEF CalInv, CalTypes, Measuring, Readings
  <2>2. conf.pm \in BOOLEAN /\ DeltaPm(conf.pm) # 0
    BY <1>1, <1>4, MachineAssumption DEF ByPm, TypeOK, Confs
  <2>3. conf.pm /\ DeltaPm(conf.pm) = d
    <3>1. conf.pm = TRUE
      BY <2>2 DEF DeltaPm
    <3>2. d \in 0..(PmWrap - 1)
      BY <2>1 DEF InRange
    <3> QED BY <1>1, <3>1, <3>2, Distance DEF CalInv
  <2>4. d \in Nat \ {0}
    <3>1. d # 0
      BY <2>2, <2>3
    <3>2. d \in Nat
      BY <2>1
    <3> HIDE DEF d
    <3> QED BY <3>1, <3>2
  <2>a. at1 \in Nat /\ at2 \in Nat /\ at1 <= at2 /\ r * at2 < Tmict /\ r * d < Tmict
    <3>1. at1 \in Nat /\ at2 \in Nat /\ at1 <= at2 /\ d <= at2 /\ d \in Nat
      BY <1>1, <2>1 DEF CalInv, CalTypes
    <3>2. at2 <= (L + 2) * M /\ (L + 2) * M \in Nat
      BY <1>1 DEF CalInv, Measuring, Readings
    <3>3. r * at2 <= r * ((L + 2) * M) /\ r * d <= r * at2
      <4> DEFINE z == (L + 2) * M
      <4> HIDE DEF z, d, r
      <4> QED BY <2>1, <3>1, <3>2, Product DEF z
    <3>4. r * ((L + 2) * M) < Tmict
      BY <2>1 DEF InRange
    <3>5. r * at2 \in Nat /\ r * d \in Nat /\ r * ((L + 2) * M) \in Nat /\ Tmict \in Nat
      BY <2>1, <3>1, <3>2, TmictType
    <3> QED BY <3>1, <3>3, <3>4, <3>5
  <2>b. Counter(at1) - Counter(at2) = r * d
    BY <2>1, <2>a, Counted DEF Counter
  <2>c. Div * r * U < Uint
    BY <2>1 DEF InRange
  <2>d. /\ Long((((r * d) * Pm100ms) % Word) \div d) = ((r * d) * (L * U)) \div d
        /\ ((r * d) * (L * U)) \div d = r * (L * U)
    <3> HIDE DEF d, r
    <3> QED BY <2>1, <2>4, <2>a, <2>c, Corrected
  <2>5. delta = IF d > L * U - (L * U) \div 100 /\ d < L * U + (L * U) \div 100
                THEN r * d ELSE ((r * d) * (L * U)) \div d
    <3>1. d # 0 /\ Pm100ms = L * U
      BY <2>4 DEF Pm100ms
    <3> QED BY <2>b, <2>d, <3>1 DEF Delta
  <2>7. True = Div * r * U
    BY DEF True
  <2>8. delta \in Nat /\ delta * Div < L * Uint
    <3> HIDE DEF delta
    <3>1. CASE delta = r * d
      <4> DEFINE v == r * d
      <4>1. v \in Nat /\ v < Tmict
        BY <2>1, <2>4, <2>a
      <4> HIDE DEF v
      <4>2. Div * v <= Div * Tmict /\ Div * v = v * Div /\ 1 * Uint <= L * Uint
        BY <4>1, TmictType, Product
      <4>3. v * Div \in Nat /\ L * Uint \in Nat /\ Div * Tmict \in Nat
        BY <4>1, TmictType
      <4> QED BY <3>1, <4>1, <4>2, <4>3, TmictType DEF v
    <3>2. CASE delta = r * (L * U)
      <4> DEFINE z == Div * r * U
      <4>1. delta * Div = L * z /\ z \in Nat /\ delta \in Nat
        BY <2>1, <3>2
      <4> HIDE DEF z
      <4>2. L * (z + 1) <= L * Uint /\ L * (z + 1) = L * z + L /\ L * z \in Nat
        BY <2>c, <4>1, Product DEF z
      <4> QED BY <4>1, <4>2
    <3> QED BY <2>5, <2>d, <3>1, <3>2
  <2>6. period = (delta * Div) \div L
    <3>1. period = Quotient(Long(delta * Div), L) % Uint
      BY <2>1, <2>3 DEF Measured
    <3> HIDE DEF delta
    <3>2. delta * Div \in Nat
      BY <2>8
    <3> QED BY <2>8, <3>1, <3>2, Fits
  <2> HIDE DEF d, r, delta
  <2> QED BY <2>1, <2>4, <2>5, <2>6, <2>7, <2>8, Accurate
<1>5. True' = True
  BY <1>1 DEF True
<1>6. CalibrationHonest'
  BY <1>1, <1>4, <1>5 DEF CalibrationHonest
<1> QED BY <1>2, <1>3, <1>6 DEF CalInv

\* The verification begins.
LEMMA CalVerified ==
  ASSUME NEW M, CalInv(M), Verify
  PROVE  CalInv(M)'
<1>1. /\ pc = "measured" /\ pc' = "verify" /\ loops' = -1
      /\ UNCHANGED <<now, start, at1, at2, period, bench>>
  BY DEF Verify
<1>2. CalTypes'
  BY <1>1 DEF CalInv, CalTypes
<1> QED BY <1>1, <1>2, CalConstants DEF CalInv, Measuring, Verifying, CalibrationHonest

\* The verification ends: the timer and jiffies agree, or it is rejected.
LEMMA CalJudged ==
  ASSUME NEW M, TypeOK, CalInv(M), VerifyEnd
  PROVE  CalInv(M)'
<1> USE CalConstants
<1>1. /\ pc = "verify" /\ pc' = "judge" /\ loops > L
      /\ UNCHANGED <<loops, now, start, at1, at2, period, bench, conf>>
      /\ verdict' = "rejected" \/ (verdict' = "jiffies" /\ JiffiesAgree(conf.tsc))
  BY DEF VerifyEnd, cal
<1>2. CalTypes'
  BY <1>1 DEF CalInv, CalTypes
<1>3. Measuring(M)' /\ Verifying'
  BY <1>1 DEF Measuring, Verifying
<1> DEFINE tick == IF conf.tsc THEN U ELSE bench.tick
<1>4. ASSUME verdict' = "jiffies"
      PROVE  L * Lasts \in ((L - 3) * tick)..((L + 3) * tick)
  <2>1. tick \in Nat \ {0} /\ at1 \in Nat /\ at2 \in Nat
    BY <1>1 DEF CalInv, CalTypes
  <2>2. (at2 \div tick) - (at1 \div tick) \in (L - 2)..(L + 2)
    BY <1>1, <1>4 DEF JiffiesAgree, Jiffies
  <2>3. at2 = at1 + L * Lasts /\ Lasts \in Nat
    BY <1>1, LastsType DEF CalInv, Verifying
  <2> HIDE DEF tick
  <2>4. at2 - at1 \in ((L - 3) * tick)..((L + 3) * tick)
    BY <2>1, <2>2, Agreed
  <2>5. L * Lasts \in Int /\ at2 - at1 = L * Lasts
    BY <2>1, <2>3
  <2> QED BY <2>4, <2>5
<1>5. Lasts' = Lasts /\ conf' = conf /\ bench' = bench
  BY <1>1 DEF Lasts
<1>6. CalibrationHonest'
  BY <1>1, <1>4, <1>5 DEF CalibrationHonest
<1> QED BY <1>2, <1>3, <1>6 DEF CalInv

\* The rest of the boot, and the use of the timer, measure nothing.
LEMMA CalUnmoved ==
  ASSUME NEW M, TypeOK, IInv, CalInv(M),
         \/ Drain \/ WriteLvtt \/ WriteThen \/ Discard \/ Tick
         \/ SetupLocal \/ Return \/ SetupTimer \/ Register \/ Core \/ Machine
  PROVE  CalInv(M)'
<1>1. ASSUME UNCHANGED cal, pc' \in {"setup", "register", "up", "offline"} PROVE CalInv(M)'
  <2>1. CalTypes'
    BY <1>1 DEF cal, CalInv, CalTypes
  <2> QED BY <1>1, <2>1, CalOver
<1>2. CASE Drain \/ WriteLvtt \/ WriteThen
  BY <1>2, CalSame DEF Drain, WriteLvtt, WriteThen
<1>3. CASE Discard \/ Tick
  <2>1. pc # "verify"
    BY <1>3 DEF Discard, Tick, IInv, Handlers
  <2> QED BY <1>3, <2>1, CalSame DEF Discard, Tick
<1>4. CASE SetupLocal
  <2>1. UNCHANGED cal /\ pc = "early" /\ pc' \in {"boot", "up"}
    BY <1>4 DEF SetupLocal
  <2>2. CASE pc' = "boot"
    BY <2>1, <2>2 DEF cal, CalInv, CalTypes, Measuring, Verifying, CalibrationHonest
  <2> QED BY <1>1, <2>1, <2>2
<1>5. CASE Return
  <2>1. /\ loops' = -1 /\ now' = 0 /\ start' = 0 /\ at1' = 0 /\ at2' = 0 /\ period' = 0
        /\ bench' = NoBench /\ pc' \in {"up", "setup"}
    BY <1>5 DEF Return
  <2>2. CalTypes'
    BY <2>1 DEF CalTypes, NoBench
  <2> QED BY <2>1, <2>2, CalOver
<1>6. CASE SetupTimer \/ Register
  BY <1>1, <1>6 DEF SetupTimer, Register
<1>7. CASE Core
  <2>1. UNCHANGED cal /\ pc' = "up"
    BY <1>7 DEF Core, SetPeriodic, SetOneshot, SetShutdown, NextEvent, Switch, Ready
  <2> QED BY <1>1, <2>1
<1>8. CASE Machine
  <2>1. UNCHANGED cal /\ pc' \in {"up", "offline", "setup"}
    BY <1>8 DEF Machine, FreeInit, Broadcast, Unplug, Replug, Ready
  <2> QED BY <1>1, <2>1
<1> QED BY <1>2, <1>3, <1>4, <1>5, <1>6, <1>7, <1>8

\* The invariant on the calibration is inductive.
LEMMA CalNext ==
  ASSUME NEW M \in Nat, InRange(M), TypeOK, IInv, CalInv(M), [Next]_vars
  PROVE  CalInv(M)'
<1>1. CASE UNCHANGED vars
  BY <1>1, CalSame DEF vars, hard
<1>2. CASE Next
  BY <1>2, CalPoll, CalCounts, CalFires, CalStarts, CalMeasured, CalAccepted, CalVerified,
     CalJudged, CalUnmoved DEF Next, Interrupt, Boot
<1> QED BY <1>1, <1>2

\* A period calibrate_APIC_clock accepts is right, for any speed of the reference and the
\* timer and any delay of the loop with which the measurement is in range: L ticks of the
\* reference and the delays between them take less than one turn of the PM timer, and L + 2
\* of them less than the counter, which starts again at zero (the comment at apic.c:865 says
\* that "there is no way the lapic can underflow"); and the true period fits an unsigned int.
THEOREM CalibratedRight ==
  ASSUME NEW M \in Nat,
         \A t \in Ticks, s \in Stalls : t + s <= M,
         L * M < PmWrap,
         \A r \in Rates : r * ((L + 2) * M) < Tmict /\ Div * r * U < Uint
  PROVE  Spec => []CalibrationHonest
<1>r. InRange(M)
  BY DEF InRange
<1>1. Init => CalInv(M)
  BY CalConstants DEF Init, CalInit, NoBench, CalInv, CalTypes, Measuring, Verifying,
     CalibrationHonest
<1>2. TypeOK /\ IInv /\ CalInv(M) /\ [Next]_vars => CalInv(M)'
  BY <1>r, CalNext
<1>3. CalInv(M) => CalibrationHonest
  BY DEF CalInv
<1> QED BY <1>1, <1>2, <1>3, TypeInit, TypeNext, StrayInit, StrayNext, PTL DEF Spec
=============================================================================
