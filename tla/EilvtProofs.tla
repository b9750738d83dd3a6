----------------------------- MODULE EilvtProofs -----------------------------
(***************************************************************************)
(* The extended LVT table for any number of processors, offsets, vectors    *)
(* and calls.                                                               *)
(***************************************************************************)
EXTENDS Eilvt, TLAPS

\* Every step keeps the types of the table, the registers and the locals.
LEMMA StepType ==
  ASSUME EilvtAssumption, TypeOK, [Next]_vars
  PROVE  TypeOK'
<1>0. requests' \in Menus /\ requests \subseteq Entries
  BY DEF TypeOK, Next, vars, EilvtAssumption
<1>1. ASSUME NEW c \in Cpus, RejectOffset(c, BadOffset)
      PROVE  TypeOK'
  BY <1>0, <1>1 DEF RejectOffset, TypeOK, EilvtAssumption
<1>2. ASSUME NEW c \in Cpus, NEW o \in Offsets, NEW n \in requests,
             setup_APIC_eilvt(c, o, n)
      PROVE  TypeOK'
  BY <1>0, <1>2 DEF setup_APIC_eilvt, TypeOK, EilvtAssumption
<1>3. ASSUME NEW c \in Cpus, ReserveRead(c)
      PROVE  TypeOK'
  BY <1>0, <1>3 DEF ReserveRead, TypeOK
<1>4. ASSUME NEW c \in Cpus, Refuse(c)
      PROVE  TypeOK'
  BY <1>0, <1>4 DEF Refuse, TypeOK
<1>5. ASSUME NEW c \in Cpus, Retry(c)
      PROVE  TypeOK'
  BY <1>0, <1>5 DEF Retry, Swapped, TypeOK
<1>6. ASSUME NEW c \in Cpus, Reserved(c)
      PROVE  TypeOK'
  BY <1>0, <1>6 DEF Reserved, TypeOK
<1>7. ASSUME NEW c \in Cpus, Program(c)
      PROVE  TypeOK'
  <2>1. arg[c].off \in Offsets /\ arg[c].new \in Entries
    BY DEF TypeOK
  <2>2. pc' \in [Cpus -> {"idle", "read", "cas", "program"}]
    BY <1>7 DEF Program, TypeOK
  <2>3. reg' \in [Cpus -> [Offsets -> Entries]]
    <3>1. reg' = reg \/ reg' = [reg EXCEPT ![c][arg[c].off] = arg[c].new]
      BY <1>7 DEF Program
    <3>2. reg \in [Cpus -> [Offsets -> Entries]]
      BY DEF TypeOK
    <3>. QED
      BY <2>1, <3>1, <3>2
  <2>4. claimed' \in [Cpus -> SUBSET Offsets]
    <3>1. claimed' = claimed \/ claimed' = [claimed EXCEPT ![c] = @ \cup {arg[c].off}]
      BY <1>7 DEF Program
    <3>2. claimed \in [Cpus -> SUBSET Offsets]
      BY DEF TypeOK
    <3>. QED
      BY <2>1, <3>1, <3>2
  <2>. QED
    BY <1>0, <1>7, <2>2, <2>3, <2>4 DEF Program, TypeOK
<1>8. CASE UNCHANGED vars
  BY <1>0, <1>8 DEF vars, TypeOK
<1>. QED
  BY <1>1, <1>2, <1>3, <1>4, <1>5, <1>6, <1>7, <1>8 DEF Next, Call, Step

\* The types hold in every reachable state.
THEOREM TypeCorrect ==
  ASSUME EilvtAssumption
  PROVE  Spec => []TypeOK
<1>1. Init => TypeOK
  BY DEF Init, TypeOK, EilvtAssumption, Empty, Entries
<1>2. TypeOK /\ [Next]_vars => TypeOK'
  BY StepType
<1>. QED
  BY <1>1, <1>2, PTL DEF Spec

-----------------------------------------------------------------------------
\* The one step that writes the table replaces an entry it has checked: the
\* vector stays, or the offset is freed.
LEMMA SwapKeeps ==
  ASSUME EilvtAssumption, TypeOK, NEW c \in Cpus, Retry(c), NEW o \in Offsets,
         eilvt_offsets[o].vec # None
  PROVE  eilvt_offsets'[o].vec = eilvt_offsets[o].vec \/ eilvt_offsets'[o] = Free
<1>1. CASE o = arg[c].off /\ eilvt_offsets[o] = rsvd[c]
  <2>1. eilvt_offsets'[o] = arg[c].new
    BY <1>1 DEF Retry, Swapped, TypeOK
  <2>2. eilvt_entry_is_changeable(Unmasked(rsvd[c]), arg[c].new)
    BY <1>1 DEF Retry, Conflict
  <2>3. arg[c].new = Free \/ Unmasked(arg[c].new) = Unmasked(rsvd[c])
    BY <2>2 DEF eilvt_entry_is_changeable, Unmasked
  <2>4. arg[c].new = Free \/ arg[c].new.vec = rsvd[c].vec
    BY <2>3 DEF Unmasked
  <2>. QED
    BY <1>1, <2>1, <2>4
<1>2. CASE ~(o = arg[c].off /\ eilvt_offsets[o] = rsvd[c])
  <2>1. eilvt_offsets'[o] = eilvt_offsets[o]
    BY <1>2 DEF Retry, Swapped, TypeOK
  <2>. QED
    BY <2>1
<1>. QED
  BY <1>1, <1>2

\* A reserved offset is not handed to another vector in any step, whatever
\* stale copies the other processors hold.
THEOREM Reservation ==
  ASSUME EilvtAssumption
  PROVE  Spec => ReservationKept
<1>1. TypeOK /\ [Next]_vars =>
        [\A o \in Offsets : eilvt_offsets[o].vec # None =>
           eilvt_offsets'[o].vec = eilvt_offsets[o].vec \/ eilvt_offsets'[o] = Free]_vars
  <2>. SUFFICES ASSUME TypeOK, Next, NEW o \in Offsets, eilvt_offsets[o].vec # None
                PROVE  eilvt_offsets'[o].vec = eilvt_offsets[o].vec
                         \/ eilvt_offsets'[o] = Free
    OBVIOUS
  <2>1. ASSUME NEW c \in Cpus, Retry(c)
        PROVE  eilvt_offsets'[o].vec = eilvt_offsets[o].vec \/ eilvt_offsets'[o] = Free
    BY <2>1, SwapKeeps
  <2>2. ASSUME NEW c \in Cpus,
               Call(c) \/ ReserveRead(c) \/ Refuse(c) \/ Reserved(c) \/ Program(c)
        PROVE  eilvt_offsets' = eilvt_offsets
    BY <2>2 DEF Call, RejectOffset, setup_APIC_eilvt, ReserveRead, Refuse, Reserved,
                Program
  <2>. QED
    BY <2>1, <2>2 DEF Next, Step
<1>. QED
  BY <1>1, TypeCorrect, PTL DEF Spec, ReservationKept

-----------------------------------------------------------------------------
\* The calls under way carry a real request.
ArgsReal == \A c \in Cpus : pc[c] # "idle" => arg[c].new.vec # None

TableInv == TypeOK /\ (NeverFreed => ArgsReal /\ TableAgrees)

\* Every step keeps the table in agreement with the programmed registers.
LEMMA StepTable ==
  ASSUME EilvtAssumption, TableInv, [Next]_vars
  PROVE  TableInv'
<1>0. TypeOK' /\ TypeOK
  BY StepType DEF TableInv
<1>. SUFFICES ASSUME NeverFreed, ArgsReal, TableAgrees
              PROVE  ArgsReal' /\ TableAgrees'
  BY <1>0 DEF TableInv, NeverFreed, Next, vars
<1>1. ArgsReal'
  <2>1. ASSUME NEW c \in Cpus, RejectOffset(c, BadOffset)
        PROVE  ArgsReal'
    BY <2>1 DEF RejectOffset, ArgsReal
  <2>2. ASSUME NEW c \in Cpus, NEW o \in Offsets, NEW n \in requests,
               setup_APIC_eilvt(c, o, n)
        PROVE  ArgsReal'
    BY <1>0, <2>2 DEF setup_APIC_eilvt, ArgsReal, NeverFreed, TypeOK
  <2>3. ASSUME NEW c \in Cpus, Step(c)
        PROVE  ArgsReal'
    BY <1>0, <2>3 DEF Step, ReserveRead, Refuse, Retry, Reserved, Program,
                         ArgsReal, TypeOK
  <2>4. CASE UNCHANGED vars
    BY <2>4 DEF vars, ArgsReal
  <2>. QED
    BY <2>1, <2>2, <2>3, <2>4 DEF Next, Call
<1>2. TableAgrees'
  <2>1. ASSUME NEW c \in Cpus, Retry(c)
        PROVE  TableAgrees'
    <3>1. ASSUME NEW o \in Offsets, eilvt_offsets[o].vec # None
          PROVE  eilvt_offsets'[o].vec = eilvt_offsets[o].vec
      <4>1. eilvt_offsets'[o].vec = eilvt_offsets[o].vec \/ eilvt_offsets'[o] = Free
        BY <1>0, <2>1, <3>1, SwapKeeps
      <4>2. eilvt_offsets'[o] \in {eilvt_offsets[o], arg[c].new}
        BY <1>0, <2>1 DEF Retry, Swapped, TypeOK
      <4>3. arg[c].new.vec # None
        BY <2>1 DEF Retry, ArgsReal
      <4>4. eilvt_offsets'[o] # Free
        BY <3>1, <4>2, <4>3 DEF Free
      <4>. QED
        BY <4>1, <4>4
    <3>2. \A d \in Cpus : claimed[d] \subseteq Offsets /\ arg[d].off \in Offsets
      BY <1>0 DEF TypeOK
    <3>3. UNCHANGED <<reg, claimed, arg, pc>>
      BY <2>1 DEF Retry
    <3>4. \A d \in Cpus : pc[d] = "program" => arg[d].new.vec # None
      BY DEF ArgsReal
    <3>. QED
      BY <3>1, <3>2, <3>3, <3>4 DEF TableAgrees
  <2>2. ASSUME NEW c \in Cpus, Program(c)
        PROVE  TableAgrees'
    <3>1. /\ arg[c].off \in Offsets /\ arg[c].new.vec # None
          /\ eilvt_offsets[arg[c].off].vec = arg[c].new.vec
      BY <1>0, <2>2 DEF Program, TypeOK, ArgsReal, TableAgrees
    <3>2. ASSUME NEW d \in Cpus, NEW o \in claimed'[d]
          PROVE  reg'[d][o].vec = eilvt_offsets[o].vec /\ eilvt_offsets[o].vec # None
      <4>1. CASE d = c /\ o = arg[c].off /\ reg' # reg
        BY <1>0, <2>2, <3>1, <4>1 DEF Program, TypeOK
      <4>2. CASE ~(d = c /\ o = arg[c].off /\ reg' # reg) /\ o \in claimed[d]
        <5>1. o \in Offsets
          BY <1>0, <4>2 DEF TypeOK
        <5>2. reg'[d][o] = reg[d][o]
          BY <1>0, <2>2, <3>1, <4>2, <5>1 DEF Program, TypeOK
        <5>. QED
          BY <4>2, <5>2 DEF TableAgrees
      <4>3. CASE ~(d = c /\ o = arg[c].off /\ reg' # reg) /\ o \notin claimed[d]
        <5>1. d = c /\ o = arg[c].off /\ reg' = reg
          BY <1>0, <2>2, <3>2, <4>3 DEF Program, TypeOK
        <5>2. reg' = [reg EXCEPT ![c][arg[c].off] = arg[c].new]
          BY <1>0, <2>2, <3>2, <4>3 DEF Program, TypeOK
        <5>3. reg'[c][arg[c].off] = arg[c].new
          BY <1>0, <3>1, <5>2 DEF TypeOK
        <5>. QED
          BY <3>1, <5>1, <5>3
      <4>. QED
        BY <4>1, <4>2, <4>3
    <3>3. ASSUME NEW d \in Cpus, pc'[d] = "program"
          PROVE  eilvt_offsets[arg[d].off].vec = arg[d].new.vec
      BY <1>0, <2>2, <3>3 DEF Program, TypeOK, TableAgrees
    <3>. QED
      BY <2>2, <3>2, <3>3 DEF Program, TableAgrees
  <2>3. ASSUME NEW c \in Cpus, Reserved(c)
        PROVE  TableAgrees'
    BY <1>0, <2>3 DEF Reserved, TableAgrees, TypeOK
  <2>4. ASSUME NEW c \in Cpus, Call(c) \/ ReserveRead(c) \/ Refuse(c)
        PROVE  TableAgrees'
    BY <1>0, <2>4 DEF Call, RejectOffset, setup_APIC_eilvt, ReserveRead, Refuse,
                      TableAgrees, TypeOK
  <2>5. CASE UNCHANGED vars
    BY <2>5 DEF vars, TableAgrees
  <2>. QED
    BY <2>1, <2>2, <2>3, <2>4, <2>5 DEF Next, Step
<1>. QED
  BY <1>1, <1>2

\* As long as no driver frees an offset, processors that have programmed the
\* same offset use it for the same vector.
THEOREM Consistency ==
  ASSUME EilvtAssumption
  PROVE  Spec => []ConsistentOffsets
<1>1. Init => TableInv
  <2>1. Init => TypeOK
    BY DEF Init, TypeOK, EilvtAssumption, Empty, Entries
  <2>. QED
    BY <2>1 DEF Init, TableInv, ArgsReal, TableAgrees
<1>2. TableInv /\ [Next]_vars => TableInv'
  BY StepTable
<1>3. TableInv => ConsistentOffsets
  BY DEF TableInv, TableAgrees, ConsistentOffsets, SameVector
<1>. QED
  BY <1>1, <1>2, <1>3, PTL DEF Spec

-----------------------------------------------------------------------------
\* The register a call read when it began is unchanged while the call runs: only
\* its own processor writes it, in the step that ends the call.
OldCurrent == \A c \in Cpus : pc[c] # "idle" => old[c] = reg[c][arg[c].off]

\* No step makes the register a call read at its start stale (reserve_eilvt_offset, setup_APIC_eilvt).
LEMMA StepOld ==
  ASSUME EilvtAssumption, TypeOK, OldCurrent, [Next]_vars
  PROVE  OldCurrent'
<1>1. ASSUME NEW c \in Cpus, NEW o \in Offsets, NEW n \in requests,
             setup_APIC_eilvt(c, o, n)
      PROVE  OldCurrent'
  BY <1>1 DEF setup_APIC_eilvt, OldCurrent, TypeOK
<1>2. ASSUME NEW c \in Cpus, ReserveRead(c) \/ Refuse(c) \/ Retry(c) \/ Reserved(c)
      PROVE  OldCurrent'
  BY <1>2 DEF ReserveRead, Refuse, Retry, Reserved, OldCurrent, TypeOK
<1>3. ASSUME NEW c \in Cpus, Program(c)
      PROVE  OldCurrent'
  <2>. SUFFICES ASSUME NEW d \in Cpus, pc'[d] # "idle"
                PROVE  old'[d] = reg'[d][arg'[d].off]
    BY DEF OldCurrent
  <2>1. d # c /\ pc[d] # "idle"
    BY <1>3 DEF Program, TypeOK
  <2>2. reg'[d] = reg[d]
    BY <1>3, <2>1 DEF Program, TypeOK
  <2>. QED
    BY <1>3, <2>1, <2>2 DEF Program, OldCurrent
<1>4. ASSUME NEW c \in Cpus, RejectOffset(c, BadOffset)
      PROVE  OldCurrent'
  BY <1>4 DEF RejectOffset, OldCurrent
<1>5. CASE UNCHANGED vars
  BY <1>5 DEF vars, OldCurrent
<1>. QED
  BY <1>1, <1>2, <1>3, <1>4, <1>5 DEF Next, Call, Step

\* A register that delivers interrupts is never switched to another vector,
\* although it is read when the call begins and written when it ends.
THEOREM LiveRegister ==
  ASSUME EilvtAssumption
  PROVE  Spec => LiveRegisterKept
<1>1. Init => TypeOK /\ OldCurrent
  BY DEF Init, TypeOK, EilvtAssumption, Empty, Entries, OldCurrent
<1>2. TypeOK /\ OldCurrent /\ [Next]_vars => TypeOK' /\ OldCurrent'
  BY StepType, StepOld
<1>3. TypeOK /\ OldCurrent /\ [Next]_vars =>
        [\A c \in Cpus, o \in Offsets : ~reg[c][o].masked =>
           \/ reg'[c][o] = Free
           \/ Unmasked(reg'[c][o]) = reg[c][o]]_vars
  <2>. SUFFICES ASSUME TypeOK, OldCurrent, Next, NEW d \in Cpus, NEW o \in Offsets,
                       ~reg[d][o].masked
                PROVE  reg'[d][o] = Free \/ Unmasked(reg'[d][o]) = reg[d][o]
    OBVIOUS
  <2>0. Unmasked(reg[d][o]) = reg[d][o]
    <3>1. reg[d][o] \in Entries
      BY DEF TypeOK
    <3>. QED
      BY <3>1 DEF Entries, Unmasked
  <2>1. CASE reg'[d][o] = reg[d][o]
    BY <2>0, <2>1
  <2>2. CASE reg'[d][o] # reg[d][o]
    <3>1. PICK c \in Cpus : Program(c)
      BY <2>2 DEF Next, Call, Step, RejectOffset, setup_APIC_eilvt, ReserveRead,
                  Refuse, Retry, Reserved
    <3>2. /\ reg' = [reg EXCEPT ![c][arg[c].off] = arg[c].new]
          /\ eilvt_entry_is_changeable(old[c], arg[c].new)
      BY <2>2, <3>1 DEF Program
    <3>3. d = c /\ o = arg[c].off /\ reg'[d][o] = arg[c].new
      BY <2>2, <3>2 DEF TypeOK
    <3>4. old[c] = reg[d][o]
      BY <3>1, <3>3 DEF OldCurrent, Program
    <3>. QED
      BY <3>2, <3>3, <3>4 DEF eilvt_entry_is_changeable
  <2>. QED
    BY <2>1, <2>2
<1>. QED
  BY <1>1, <1>2, <1>3, PTL DEF Spec, LiveRegisterKept
=============================================================================
