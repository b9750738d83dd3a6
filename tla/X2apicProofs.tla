---------------------------- MODULE X2apicProofs ----------------------------
(* The driver agrees with the hardware, for any number of CPUs.             *)
EXTENDS X2apic, TLAPS

BootLabels == {"param", "param_off", "check", "mappings", "read_id",
               "mode_init", "enable_ir", "disable_off", "register", "probe",
               "setup", "up", "asleep", "resume", "pic", "panic"}
ApLabels == {"dead", "cpu_init", "ap_off", "ap_setup", "up"}

\* Before check_x2apic has recorded what the firmware did.
Early == {"param", "param_off", "check"}

\* The kernel's records agree with each other.
Records ==
  /\ x2apic_mode <=> x2apic_state = "ON"
  /\ "X2APIC" \in caps => conf.x2apic
  /\ pc[Boot] \in Early =>
       ~x2apic_mode /\ driver = "mem" /\ ("APIC" \in caps <=> conf.apic)
  /\ pc[Boot] \notin Early =>
       /\ x2apic_state # "DISABLED" => conf.x2apic
       /\ conf.big /\ pc[Boot] # "panic" => x2apic_mode

\* The boot processor's mode, step by step.
Settled ==
  \/ x2apic_mode /\ base[Boot] = "x2apic" /\ driver = "msr"
  \/ ~x2apic_mode /\ base[Boot] = "xapic" /\ driver = "mem" /\ mapped

BootMode ==
  LET l == pc[Boot]  b == base[Boot] IN
  /\ l = "param" => b = conf.bios /\ ("X2APIC" \in caps <=> conf.x2apic)
  /\ l = "param_off" => b = "off" /\ ~conf.big /\ conf.bios = "x2apic"
  /\ l = "check" =>
       /\ b = "x2apic" => "X2APIC" \in caps /\ conf.madt
       /\ b = "off" => conf.bios = "off"
       /\ conf.big => b = "x2apic"
  /\ l = "mappings" =>
       \/ x2apic_mode /\ b = "x2apic" /\ driver = "msr"
       \/ /\ ~x2apic_mode /\ b # "x2apic" /\ driver = "mem"
          /\ conf.madt \/ conf.smp => mapped /\ b = "xapic"
          /\ "APIC" \in caps => b = "xapic"
  /\ l \in {"read_id", "mode_init"} =>
       \/ Settled
       \/ driver = "noop" /\ "APIC" \notin caps /\ ~x2apic_mode
  /\ l = "mode_init" => ("APIC" \notin caps => intr_mode = "PIC")
  /\ l \in {"enable_ir", "setup", "up"} => Settled
  /\ l = "disable_off" => b = "off" /\ ~x2apic_mode
  /\ l = "register" => b = "xapic" /\ ~x2apic_mode
  /\ l = "probe" => \/ x2apic_mode /\ b = "x2apic"
                    \/ ~x2apic_mode /\ b = "xapic" /\ mapped
  /\ l \in {"asleep", "resume"} =>
       \/ x2apic_mode /\ driver = "msr"
       \/ ~x2apic_mode /\ driver = "mem" /\ mapped
  /\ l = "resume" => \/ x2apic_mode /\ b # "off"
                     \/ ~x2apic_mode /\ b # "x2apic"
  /\ l \in {"enable_ir", "disable_off", "register", "probe", "setup", "up",
            "asleep", "resume"} => "APIC" \in caps

\* Application processors follow the decision of a boot processor that is up.
ApMode ==
  \A c \in Aps :
    /\ pc[c] \in ApLabels
    /\ pc[c] # "dead" => pc[Boot] = "up"
    /\ pc[c] = "cpu_init" => base[c] # "off"
    /\ pc[c] = "ap_off" => base[c] = "off" /\ ~x2apic_mode
    /\ pc[c] \in {"ap_setup", "up"} =>
         base[c] = IF x2apic_mode THEN "x2apic" ELSE "xapic"

IInv == TypeOK /\ pc[Boot] \in BootLabels /\ Records /\ BootMode /\ ApMode

-----------------------------------------------------------------------------
(* Every variable stays within its type: one step per action.              *)
LEMMA TypeStep == TypeOK /\ [Next]_vars => TypeOK'
<1> SUFFICES ASSUME TypeOK, [Next]_vars PROVE TypeOK'
  OBVIOUS
<1> USE DEF TypeOK, Cpus, Modes, Labels, soft, regs, sends, At, Goto, Senders
<1>1. ASSUME NEW c \in Cpus, Reenable(c) PROVE TypeOK'
  BY <1>1 DEF Reenable
<1>2. CASE Nox2apic
  <2>1. base' \in [Cpus -> Modes] /\ pc' \in [Cpus -> Labels]
    BY <1>2 DEF Nox2apic, X2apicOff
  <2>2. caps' \in SUBSET {"APIC", "X2APIC"} /\ x2apic_mode' = FALSE
    BY <1>2 DEF Nox2apic
  <2> QED BY <1>2, <2>1, <2>2 DEF Nox2apic
<1>3. CASE KeepX2apic
  BY <1>3 DEF KeepX2apic
<1>4. CASE CheckX2apic
  BY <1>4 DEF CheckX2apic
<1>5. CASE InitMappings
  <2>1. base' \in [Cpus -> Modes] /\ pc' \in [Cpus -> Labels]
    BY <1>5 DEF InitMappings
  <2>2. caps' \in SUBSET {"APIC", "X2APIC"}
    BY <1>5 DEF InitMappings
  <2>3. /\ apic_phys' \in BOOLEAN /\ mapped' \in BOOLEAN
        /\ driver' \in {"mem", "msr", "noop"}
    BY <1>5 DEF InitMappings
  <2> QED BY <1>5, <2>1, <2>2, <2>3 DEF InitMappings
<1>6. CASE IntrModeSelect
  BY <1>6 DEF IntrModeSelect
<1>7. CASE IntrModeInit
  BY <1>7 DEF IntrModeInit
<1>8. CASE EnableIR
  <2>1. base' \in [Cpus -> Modes] /\ pc' \in [Cpus -> Labels]
    BY <1>8 DEF EnableIR, TryToEnable, X2apicEnable, X2apicDisable,
                X2apicOff, X2apicOn
  <2>2. /\ x2apic_state' \in {"OFF", "ON", "DISABLED"}
        /\ x2apic_mode' \in BOOLEAN /\ x2apic_phys' \in BOOLEAN
    BY <1>8 DEF EnableIR, TryToEnable, X2apicEnable, X2apicDisable
  <2> QED BY <1>8, <2>1, <2>2 DEF EnableIR
<1>9. CASE RegisterAddress
  BY <1>9 DEF RegisterAddress
<1>10. CASE Probe
  BY <1>10 DEF Probe
<1>11. CASE BspSetup
  BY <1>11 DEF BspSetup
<1>12. CASE Suspend
  BY <1>12 DEF Suspend
<1>13. CASE FirmwareWake
  BY <1>13 DEF FirmwareWake, WakeModes
<1>14. CASE Resume
  BY <1>14 DEF Resume, X2apicOn
<1>15. ASSUME NEW c \in Aps, ApStep(c) PROVE TypeOK'
  <2>1. base' \in [Cpus -> Modes] /\ pc' \in [Cpus -> Labels]
    BY <1>15 DEF ApStep, Wake, X2apicSetup, ApSetup, Unplug, X2apicOff,
                 X2apicOn, FirmwareModes
  <2>2. UNCHANGED <<conf, soft, regs, sends>>
    BY <1>15 DEF ApStep, Wake, X2apicSetup, ApSetup, Unplug
  <2> QED BY <2>1, <2>2
<1>16. ASSUME NEW x \in Senders, Send(x) PROVE TypeOK'
  <2>1. ASSUME NEW d \in Dests, IcrSave(x, d) PROVE TypeOK'
    BY <2>1 DEF IcrSave
  <2>2. ASSUME NEW d \in Dests, IcrMsr(x, d) PROVE TypeOK'
    BY <2>2 DEF IcrMsr
  <2>3. CASE IcrDest(x)
    <3> DEFINE b == [ipi.by EXCEPT ![x].step = "icr"]
    <3>1. b \in [Senders -> [step : {"idle", "icr2", "icr"},
                             dest : Dests \cup {None}]]
      OBVIOUS
    <3>2. ipi' = [by |-> b, irqoff |-> ipi.irqoff, icr2 |-> ipi.by[x].dest]
      BY <2>3 DEF IcrDest
    <3>3. ipi.by[x].dest \in Dests \cup {None} /\ ipi.irqoff \in BOOLEAN
      OBVIOUS
    <3>4. ipi' \in [by : [Senders -> [step : {"idle", "icr2", "icr"},
                                     dest : Dests \cup {None}]],
                   irqoff : BOOLEAN, icr2 : Dests \cup {None}]
      <4> HIDE DEF b
      <4> QED BY <3>1, <3>2, <3>3
    <3> QED BY <2>3, <3>4 DEF IcrDest
  <2>4. CASE IcrSend(x)
    BY <2>4 DEF IcrSend, Idle
  <2> QED BY <1>16, <2>1, <2>2, <2>3, <2>4 DEF Send
<1>17. CASE UNCHANGED vars
  BY <1>17 DEF vars
<1> QED
  BY <1>1, <1>2, <1>3, <1>4, <1>5, <1>6, <1>7, <1>8, <1>9, <1>10, <1>11,
     <1>12, <1>13, <1>14, <1>15, <1>16, <1>17 DEF Next, BootStep

\* The types at power-on.
LEMMA TypeInit == Init => TypeOK
<1> SUFFICES ASSUME Init PROVE TypeOK
  OBVIOUS
<1> USE DEF Init
<1>1. conf \in Confs /\ Sensible(conf) /\ conf.bios \in Modes
  BY DEF Confs
<1>2. caps \in SUBSET {"APIC", "X2APIC"}
  OBVIOUS
<1>3. base \in [Cpus -> Modes] /\ pc \in [Cpus -> Labels]
  BY <1>1 DEF Cpus, Labels
<1>4. /\ ipi \in [by : [Senders -> [step : {"idle", "icr2", "icr"},
                                   dest : Dests \cup {None}]],
                  irqoff : BOOLEAN, icr2 : Dests \cup {None}]
      /\ sent \in [ask : Dests \cup {None}, got : Dests \cup {None}]
  BY DEF Idle
<1> QED BY <1>1, <1>2, <1>3, <1>4 DEF TypeOK

\* Every register, flag and step keeps its type.
THEOREM TypeCorrect == Spec => []TypeOK
BY TypeInit, TypeStep, PTL DEF Spec

-----------------------------------------------------------------------------
(* The records, the boot processor and the others stay in step.            *)
Rest == pc[Boot] \in BootLabels /\ Records /\ BootMode /\ ApMode

\* A step of the boot processor leaves what is said of the others and of the senders.
LEMMA BootKeeps ==
  ASSUME IInv, StrayWake = FALSE, BootStep PROVE Rest'
<1> USE X2apicAssumption DEF IInv, TypeOK, Cpus, Modes, soft, regs, sends, At,
        Goto, Rest, BootLabels, Early, Confs, Sensible
<1>1. CASE Nox2apic
  <2>1. Records' /\ BootMode' /\ pc'[Boot] \in BootLabels
    <3>1. pc'[Boot] \in BootLabels
      BY <1>1 DEF Nox2apic, X2apicOff, x2apic_enabled
    <3>2. Records'
      BY <1>1 DEF Nox2apic, X2apicOff, x2apic_enabled, Records, BootMode
    <3>3. BootMode'
      BY <1>1 DEF Nox2apic, X2apicOff, x2apic_enabled, Records, BootMode, Settled
    <3> QED BY <3>1, <3>2, <3>3
  <2>2. ApMode'
    BY <1>1 DEF Nox2apic, X2apicOff, ApMode, ApLabels
  <2> QED BY <2>1, <2>2
<1>2. CASE KeepX2apic
  <2>1. Records' /\ BootMode' /\ pc'[Boot] \in BootLabels
    BY <1>2 DEF KeepX2apic, x2apic_enabled, Records, BootMode, Settled
  <2>2. ApMode'
    BY <1>2 DEF KeepX2apic, ApMode, ApLabels
  <2> QED BY <2>1, <2>2
<1>3. CASE CheckX2apic
  <2>1. Records' /\ BootMode' /\ pc'[Boot] \in BootLabels
    BY <1>3 DEF CheckX2apic, x2apic_enabled, Records, BootMode, Settled
  <2>2. ApMode'
    BY <1>3 DEF CheckX2apic, ApMode, ApLabels
  <2> QED BY <2>1, <2>2
<1>4. CASE InitMappings
  <2>1. Records' /\ BootMode' /\ pc'[Boot] \in BootLabels
    <3>1. pc'[Boot] \in BootLabels
      BY <1>4 DEF InitMappings
    <3>2. Records'
      BY <1>4 DEF InitMappings, Records, BootMode
    <3>3. BootMode'
      BY <1>4 DEF InitMappings, Records, BootMode, Settled
    <3> QED BY <3>1, <3>2, <3>3
  <2>2. ApMode'
    BY <1>4 DEF InitMappings, ApMode, ApLabels
  <2> QED BY <2>1, <2>2
<1>5. CASE IntrModeSelect
  <2>1. Records' /\ BootMode' /\ pc'[Boot] \in BootLabels
    BY <1>5 DEF IntrModeSelect, Records, BootMode, Settled
  <2>2. ApMode'
    BY <1>5 DEF IntrModeSelect, ApMode, ApLabels
  <2> QED BY <2>1, <2>2
<1>6. CASE IntrModeInit
  <2>1. Records' /\ BootMode' /\ pc'[Boot] \in BootLabels
    BY <1>6 DEF IntrModeInit, Records, BootMode, Settled
  <2>2. ApMode'
    BY <1>6 DEF IntrModeInit, ApMode, ApLabels
  <2> QED BY <2>1, <2>2
<1>7. CASE EnableIR
  <2> USE <1>7
  <2>1. Records' /\ BootMode' /\ pc'[Boot] \in BootLabels
    <3>1. /\ pc[Boot] = "enable_ir" /\ Settled
          /\ UNCHANGED <<conf, caps, apic_phys, mapped, driver, intr_mode>>
      BY DEF EnableIR, BootMode
    <3>2. \/ Goto(Boot, "probe") /\ UNCHANGED <<x2apic_state, x2apic_mode, base>>
          \/ X2apicEnable /\ x2apic_state # "DISABLED"
          \/ X2apicDisable /\ x2apic_state # "DISABLED"
      BY DEF EnableIR, TryToEnable
    <3> HIDE <1>7
    <3>3. CASE Goto(Boot, "probe") /\ UNCHANGED <<x2apic_state, x2apic_mode, base>>
      BY <3>1, <3>3 DEF Records, BootMode, Settled
    <3>4. CASE X2apicEnable /\ x2apic_state # "DISABLED"
      BY <3>1, <3>4 DEF X2apicEnable, X2apicOn, Records, BootMode, Settled
    <3>5. CASE X2apicDisable /\ x2apic_state # "DISABLED"
      <4>1. CASE x2apic_state # "ON"
        BY <3>1, <3>5, <4>1 DEF X2apicDisable, Records, BootMode, Settled
      <4>2. CASE x2apic_state = "ON" /\ conf.big
        BY <3>1, <3>5, <4>2 DEF X2apicDisable, Records, BootMode, Settled
      <4>3. CASE x2apic_state = "ON" /\ ~conf.big
        <5>1. /\ x2apic_mode' = FALSE /\ x2apic_state' = "DISABLED"
              /\ base' = [base EXCEPT ![Boot] = "off"] /\ Goto(Boot, "disable_off")
          BY <3>1, <3>5, <4>3 DEF X2apicDisable, X2apicOff, Records, BootMode,
                                  Settled
        <5> QED BY <3>1, <4>3, <5>1 DEF Records, BootMode, Settled
      <4> QED BY <4>1, <4>2, <4>3
    <3> QED BY <3>2, <3>3, <3>4, <3>5
  <2>2. ApMode'
    BY DEF EnableIR, TryToEnable, X2apicEnable, X2apicDisable, X2apicOff,
           X2apicOn, ApMode, ApLabels
  <2> QED BY <2>1, <2>2
<1>8. CASE RegisterAddress
  <2>1. Records' /\ BootMode' /\ pc'[Boot] \in BootLabels
    BY <1>8 DEF RegisterAddress, Records, BootMode, Settled
  <2>2. ApMode'
    BY <1>8 DEF RegisterAddress, ApMode, ApLabels
  <2> QED BY <2>1, <2>2
<1>9. CASE Probe
  <2>1. Records' /\ BootMode' /\ pc'[Boot] \in BootLabels
    BY <1>9 DEF Probe, Records, BootMode, Settled
  <2>2. ApMode'
    BY <1>9 DEF Probe, ApMode, ApLabels
  <2> QED BY <2>1, <2>2
<1>10. CASE BspSetup
  <2>1. Records' /\ BootMode' /\ pc'[Boot] \in BootLabels
    BY <1>10 DEF BspSetup, Records, BootMode, Settled
  <2>2. ApMode'
    BY <1>10 DEF BspSetup, ApMode, ApLabels
  <2> QED BY <2>1, <2>2
<1>11. CASE Suspend
  <2>1. Records' /\ BootMode' /\ pc'[Boot] \in BootLabels
    BY <1>11 DEF Suspend, Records, BootMode, Settled
  <2>2. ApMode'
    BY <1>11 DEF Suspend, ApMode, ApLabels
  <2> QED BY <2>1, <2>2
<1>12. CASE FirmwareWake
  <2>1. Records' /\ BootMode' /\ pc'[Boot] \in BootLabels
    BY <1>12 DEF FirmwareWake, WakeModes, Records, BootMode, Settled
  <2>2. ApMode'
    BY <1>12 DEF FirmwareWake, ApMode, ApLabels
  <2> QED BY <2>1, <2>2
<1>13. CASE Resume
  <2>1. Records' /\ BootMode' /\ pc'[Boot] \in BootLabels
    BY <1>13 DEF Resume, X2apicOn, Records, BootMode, Settled
  <2>2. ApMode'
    BY <1>13 DEF Resume, X2apicOn, ApMode, ApLabels
  <2> QED BY <2>1, <2>2
<1> QED
  BY <1>1, <1>2, <1>3, <1>4, <1>5, <1>6, <1>7, <1>8, <1>9, <1>10, <1>11,
     <1>12, <1>13 DEF BootStep

\* So does a step of another processor or of a sender.
LEMMA OthersKeep ==
  ASSUME IInv,
         \/ \E c \in Cpus : Reenable(c)
         \/ \E c \in Aps : ApStep(c)
         \/ \E x \in Senders : Send(x)
         \/ UNCHANGED vars
  PROVE  Rest'
<1> USE X2apicAssumption DEF IInv, TypeOK, Cpus, Modes, soft, regs, sends, At,
        Goto, Rest, BootLabels, ApLabels, Early, Confs, Sensible
<1>1. ASSUME Reenable(Boot) PROVE Rest'
  <2>1. Records' /\ pc'[Boot] \in BootLabels
    BY <1>1 DEF Reenable, Records, BootMode
  <2>2. BootMode'
    BY <1>1 DEF Reenable, Records, BootMode, Settled
  <2>3. ApMode'
    BY <1>1 DEF Reenable, ApMode
  <2> QED BY <2>1, <2>2, <2>3
<1>2. ASSUME NEW c \in Aps, Reenable(c) \/ ApStep(c) PROVE Rest'
  <2>1. /\ UNCHANGED <<conf, soft, regs, sends>>
        /\ pc'[Boot] = pc[Boot] /\ base'[Boot] = base[Boot]
    BY <1>2 DEF Reenable, ApStep, Wake, X2apicSetup, ApSetup, Unplug,
                X2apicOff, X2apicOn
  <2>2. Records' /\ BootMode' /\ pc'[Boot] \in BootLabels
    BY <2>1 DEF Records, BootMode, Settled
  <2>3. pc[Boot] = "up" /\ "APIC" \in caps
    BY <1>2 DEF Reenable, ApStep, Wake, X2apicSetup, ApSetup, Unplug, ApMode,
                BootMode
  <2>4. \A d \in Aps \ {c} : pc'[d] = pc[d] /\ base'[d] = base[d]
    BY <1>2 DEF Reenable, ApStep, Wake, X2apicSetup, ApSetup, Unplug,
                X2apicOff, X2apicOn
  <2> DEFINE Good ==
        /\ pc'[c] \in ApLabels
        /\ pc'[c] = "cpu_init" => base'[c] # "off"
        /\ pc'[c] = "ap_off" => base'[c] = "off" /\ ~x2apic_mode
        /\ pc'[c] \in {"ap_setup", "up"} =>
             base'[c] = IF x2apic_mode THEN "x2apic" ELSE "xapic"
  <2>5. ASSUME Reenable(c) PROVE Good
    BY <2>5 DEF Reenable, ApMode
  <2>6. ASSUME Wake(c) PROVE Good
    BY <2>6 DEF Wake, FirmwareModes
  <2>7. ASSUME X2apicSetup(c) PROVE Good
    BY <2>3, <2>7 DEF X2apicSetup, X2apicOff, X2apicOn, ApMode, Records
  <2>8. ASSUME ApSetup(c) PROVE Good
    BY <2>8 DEF ApSetup, ApMode
  <2>9. ASSUME Unplug(c) PROVE Good
    BY <2>9 DEF Unplug
  <2>10. Good
    BY <1>2, <2>5, <2>6, <2>7, <2>8, <2>9 DEF ApStep
  <2>11. ApMode'
    BY <2>1, <2>3, <2>4, <2>10 DEF ApMode
  <2> QED BY <2>2, <2>11
<1>3. ASSUME UNCHANGED <<conf, soft, regs, base, pc>> PROVE Rest'
  BY <1>3 DEF Records, BootMode, Settled, ApMode
<1>4. ASSUME NEW x \in Senders, Send(x) PROVE Rest'
  BY <1>3, <1>4 DEF Send, IcrSave, IcrMsr, IcrDest, IcrSend
<1> QED BY <1>1, <1>2, <1>3, <1>4 DEF vars

\* The invariant when the kernel is entered.
LEMMA InvInit == Init => IInv
<1> SUFFICES ASSUME Init PROVE Rest
  BY TypeInit DEF IInv, Rest
<1> USE X2apicAssumption, TypeInit DEF Init, TypeOK, Confs, Sensible, Cpus
<1>1. Records /\ pc[Boot] \in BootLabels
  BY DEF Records, BootLabels, Early
<1>2. BootMode
  BY DEF BootMode
<1>3. ApMode
  BY DEF ApMode, ApLabels
<1> QED BY <1>1, <1>2, <1>3 DEF Rest

\* The invariant on every behaviour, if firmware does not wake in a mode the kernel left.
LEMMA InvHolds == ASSUME StrayWake = FALSE PROVE Spec => []IInv
<1>1. IInv /\ [Next]_vars => IInv'
  BY TypeStep, BootKeeps, OthersKeep DEF IInv, Rest, Next
<1> QED BY <1>1, InvInit, PTL DEF Spec

\* If no firmware wakes in x2APIC mode a kernel that left it, every access
\* any CPU makes to its local APIC goes through the interface the APIC
\* answers to, for any number of CPUs coming and going.
THEOREM InterfaceRight ==
  ASSUME StrayWake = FALSE PROVE Spec => []RightInterface
<1>1. IInv => RightInterface
  BY X2apicAssumption DEF IInv, TypeOK, Cpus, BootLabels, ApLabels, BootMode,
     ApMode, Settled, RightInterface, Accessing
<1> QED BY <1>1, InvHolds, PTL

\* An ID of 255 or more is never given up.
THEOREM BigIdKept ==
  ASSUME StrayWake = FALSE PROVE Spec => []BigIdAddressable
<1>1. IInv => BigIdAddressable
  BY DEF IInv, TypeOK, Records, BootMode, Settled, BigIdAddressable, Accessing,
     Early, BootLabels
<1> QED BY <1>1, InvHolds, PTL

-----------------------------------------------------------------------------
(* The writes of APICBASE: the invariant says from which mode each starts.  *)
LEMMA MoveLegal ==
  ASSUME IInv, StrayWake = FALSE, [Next]_vars,
         NEW c \in Cpus, base'[c] # base[c], pc[c] \notin Firmware
  PROVE  <<base[c], base'[c]>> \in LegalMoves
<1> USE X2apicAssumption DEF IInv, TypeOK, Cpus, Modes, At, Firmware,
        LegalMoves, soft, regs, sends
<1>1. ASSUME NEW d \in Cpus, Reenable(d)
      PROVE  <<base[c], base'[c]>> \in LegalMoves
  BY <1>1 DEF Reenable, BootMode, ApMode, BootLabels, ApLabels
<1>2. CASE Nox2apic
  BY <1>2 DEF Nox2apic, X2apicOff
<1>3. CASE InitMappings
  BY <1>3 DEF InitMappings
<1>4. CASE EnableIR
  BY <1>4 DEF EnableIR, TryToEnable, X2apicEnable, X2apicDisable, X2apicOff,
              X2apicOn, BootMode, Settled
<1>5. CASE Resume
  BY <1>5 DEF Resume, X2apicOn, BootMode
<1>6. CASE Suspend
  BY <1>6 DEF Suspend, BootMode, Settled, Records, Sensible, Early, Confs
<1>7. ASSUME NEW d \in Aps, ApStep(d)
      PROVE  <<base[c], base'[c]>> \in LegalMoves
  BY <1>7 DEF ApStep, Wake, X2apicSetup, ApSetup, Unplug, X2apicOff, X2apicOn,
              ApMode
<1>8. ASSUME NEW x \in Senders, Send(x) PROVE FALSE
  BY <1>8 DEF Send, IcrSave, IcrMsr, IcrDest, IcrSend
<1> QED
  BY <1>1, <1>2, <1>3, <1>4, <1>5, <1>6, <1>7, <1>8
  DEF Next, BootStep, vars, KeepX2apic, CheckX2apic, IntrModeSelect,
      IntrModeInit, RegisterAddress, Probe, BspSetup, FirmwareWake

\* The code never asks the processor for a mode change it does not allow.
THEOREM SwitchesLegal ==
  ASSUME StrayWake = FALSE PROVE Spec => LegalSwitch
<1>1. IInv /\ [Next]_vars
        => [\A c \in Cpus : base'[c] # base[c] /\ pc[c] \notin Firmware
              => <<base[c], base'[c]>> \in LegalMoves]_vars
  BY MoveLegal
<1> QED BY <1>1, InvHolds, PTL DEF Spec, LegalSwitch

-----------------------------------------------------------------------------
(* Interprocessor interrupts: at most one send is under way, interrupts are *)
(* off meanwhile, and ICR2 holds what its second write will use.            *)
SendInv ==
  /\ ipi.by["task"] = Idle \/ ipi.by["irq"] = Idle
  /\ ipi.by["task"].step = "idle" => ipi.by["task"] = Idle
  /\ ipi.by["irq"].step = "idle" => ipi.by["irq"] = Idle
  /\ ipi.by["task"] # Idle \/ ipi.by["irq"] # Idle => ipi.irqoff
  /\ \A x \in Senders : ipi.by[x].step = "icr" => ipi.icr2 = ipi.by[x].dest
  /\ IpiIntact

\* No interrupt is sent to a destination meant for another one.
THEOREM IpisIntact == Spec => []IpiIntact
<1>1. Init => SendInv
  BY DEF Init, SendInv, Idle, Senders, IpiIntact
<1>2. TypeOK /\ SendInv /\ [Next]_vars => SendInv'
  <2> SUFFICES ASSUME TypeOK, SendInv, [Next]_vars PROVE SendInv'
    OBVIOUS
  <2> USE DEF TypeOK, SendInv, Senders, IpiIntact, Idle
  <2>1. ASSUME UNCHANGED sends PROVE SendInv'
    BY <2>1 DEF sends
  <2>2. ASSUME NEW x \in Senders, NEW d \in Dests, IcrSave(x, d)
        PROVE  SendInv'
    BY <2>2 DEF IcrSave, Starts
  <2>3. ASSUME NEW x \in Senders, NEW d \in Dests, IcrMsr(x, d)
        PROVE  SendInv'
    BY <2>3 DEF IcrMsr
  <2>4. ASSUME NEW x \in Senders, IcrDest(x) PROVE SendInv'
    BY <2>4 DEF IcrDest
  <2>5. ASSUME NEW x \in Senders, IcrSend(x) PROVE SendInv'
    BY <2>5 DEF IcrSend
  <2>6. CASE ~ \E x \in Senders : Send(x)
    BY <2>1, <2>6 DEF Next, BootStep, ApStep, Reenable, Nox2apic, KeepX2apic,
       CheckX2apic, InitMappings, IntrModeSelect, IntrModeInit, EnableIR,
       RegisterAddress, Probe, BspSetup, Suspend, FirmwareWake, Resume, Wake,
       X2apicSetup, ApSetup, Unplug, vars
  <2> QED BY <2>2, <2>3, <2>4, <2>5, <2>6 DEF Send
<1>3. SendInv => IpiIntact
  BY DEF SendInv
<1> QED BY <1>1, <1>2, <1>3, TypeCorrect, PTL DEF Spec
-----------------------------------------------------------------------------
(* Which firmware the exit of clear_local_APIC is wrong for.               *)

\* After any firmware but one that enabled x2APIC, init_apic_mappings has set apic_phys
\* on every way that leads to a running APIC.
PhysSet ==
  conf.bios # "x2apic" =>
    /\ pc[Boot] \in {"param", "param_off", "check", "mappings"} => base[Boot] # "x2apic"
    /\ pc[Boot] \notin {"param", "param_off", "check", "mappings"} =>
         \/ apic_phys
         \/ pc[Boot] \in {"read_id", "mode_init", "pic"} /\ "APIC" \notin caps

\* Only the boot decides whether apic_phys is set.
LEMMA PhysNext == IInv /\ StrayWake = FALSE /\ PhysSet /\ [Next]_vars => PhysSet'
<1> SUFFICES ASSUME IInv, StrayWake = FALSE, PhysSet, [Next]_vars PROVE PhysSet'
  OBVIOUS
<1> USE X2apicAssumption DEF IInv, TypeOK, Cpus, Modes, At, Goto, soft, regs, sends, PhysSet
<1>1. ASSUME UNCHANGED <<conf, caps, apic_phys>>, pc'[Boot] = pc[Boot], base'[Boot] = base[Boot]
      PROVE  PhysSet'
  BY <1>1
<1>2. ASSUME UNCHANGED <<conf, caps, apic_phys>>,
             pc[Boot] \notin {"param", "param_off", "check", "mappings", "read_id", "mode_init", "pic"},
             pc'[Boot] \notin {"param", "param_off", "check", "mappings"}
      PROVE  PhysSet'
  BY <1>2
<1>3. CASE Nox2apic \/ KeepX2apic \/ CheckX2apic
  BY <1>3 DEF Nox2apic, KeepX2apic, CheckX2apic, X2apicOff
<1>4. CASE InitMappings
  <2>1. conf.bios # "x2apic" => ~x2apic_mode
    BY <1>4 DEF InitMappings, BootMode
  <2> QED BY <1>4, <2>1 DEF InitMappings
<1>5. CASE IntrModeSelect
  BY <1>5 DEF IntrModeSelect
<1>6. CASE IntrModeInit
  BY <1>6 DEF IntrModeInit, BootMode
<1>7. CASE EnableIR
  BY <1>2, <1>7 DEF EnableIR, TryToEnable, X2apicEnable, X2apicDisable, X2apicOff
<1>8. CASE RegisterAddress \/ Probe \/ BspSetup \/ Suspend \/ FirmwareWake \/ Resume
  BY <1>2, <1>8 DEF RegisterAddress, Probe, BspSetup, Suspend, FirmwareWake, Resume
<1>9. ASSUME NEW c \in Cpus, Reenable(c) PROVE PhysSet'
  <2>1. CASE c = Boot
    BY <1>9, <2>1 DEF Reenable, BootMode, BootLabels
  <2>2. CASE c # Boot
    BY <1>1, <1>9, <2>2 DEF Reenable
  <2> QED BY <2>1, <2>2
<1>10. ASSUME NEW c \in Aps, ApStep(c) PROVE PhysSet'
  BY <1>1, <1>10 DEF ApStep, Wake, X2apicSetup, ApSetup, Unplug, X2apicOff, X2apicOn
<1>11. ASSUME NEW x \in Senders, Send(x) PROVE PhysSet'
  BY <1>1, <1>11 DEF Send, IcrSave, IcrMsr, IcrDest, IcrSend
<1>12. CASE UNCHANGED vars
  BY <1>1, <1>12 DEF vars
<1> QED
  BY <1>3, <1>4, <1>5, <1>6, <1>7, <1>8, <1>9, <1>10, <1>11, <1>12 DEF Next, BootStep

\* clear_local_APIC and disable_local_APIC take a mapped APIC for one that "hasn't been
\* mapped yet" only where firmware had enabled x2APIC mode: after any other firmware they
\* never skip their work.
THEOREM ClearsAfterOtherFirmware ==
  ASSUME StrayWake = FALSE
  PROVE  Spec => [](conf.bios # "x2apic" => ClearNotSkipped)
<1>1. Init => PhysSet
  BY X2apicAssumption DEF Init, PhysSet, Cpus
<1>2. PhysSet => (conf.bios # "x2apic" => ClearNotSkipped)
  BY DEF PhysSet, ClearNotSkipped
<1>3. IInv /\ PhysSet /\ [Next]_vars => PhysSet'
  BY PhysNext
<1> QED BY <1>1, <1>2, <1>3, InvHolds, PTL DEF Spec
=============================================================================
