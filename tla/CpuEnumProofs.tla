---------------------------- MODULE CpuEnumProofs ----------------------------
(* Proofs about CpuEnum for any APIC IDs and any limits.                     *)
EXTENDS CpuEnum, FiniteSetTheorems, TLAPS

USE DEF Cpus, Slot, NoApic

\* The set of present CPUs is finite, so that it can be counted.
LEMMA PresentFinite == ASSUME TypeOK PROVE IsFiniteSet(present)
<1>1. IsFiniteSet(Cpus)
  BY FS_Interval, CpuEnumAssumption
<1> QED
  BY <1>1, FS_Subset DEF TypeOK

\* What the common tail does to the counted part of the invariant.
LEMMA PublishCounts ==
  ASSUME EnumInv, NEW c \in Cpus, NEW a \in ApicIds, c \notin present,
         num_processors < NrCpuIds, Publish(c, a),
         cpuid_to_apicid' \in [Cpus -> Slot],
         cpuid_to_apicid'[c] = a,
         \A d \in present : cpuid_to_apicid'[d] = cpuid_to_apicid[d]
  PROVE  /\ CountsAgree'
         /\ phys_cpu_present_map' \in SUBSET ApicIds
         /\ present' \in SUBSET Cpus
         /\ x86_cpu_to_apicid' \in [Cpus -> Slot]
         /\ max_physical_apicid' \in Nat
         /\ num_processors' \in 0..NrCpuIds
         /\ disabled_cpus' \in 0..MaxDisabled
<1> USE CpuEnumAssumption DEF EnumInv, TypeOK, Publish
<1>1. num_processors' = Cardinality(present')
  BY PresentFinite, FS_AddElement DEF CountsAgree
<1>2. \A d \in present' : /\ x86_cpu_to_apicid'[d] = cpuid_to_apicid'[d]
                          /\ x86_cpu_to_apicid'[d] \in phys_cpu_present_map'
  BY DEF CountsAgree
<1>3. \A b \in phys_cpu_present_map' : b <= max_physical_apicid'
  BY DEF CountsAgree
<1>4. CountsAgree'
  BY <1>1, <1>2, <1>3 DEF CountsAgree
<1> QED
  BY <1>4

\* The mapping stays injective, contiguous and consistent with what the rest of
\* the kernel reads, for any sequence of enumeration, plugging and unplugging.
THEOREM Enumeration == Spec => []EnumInv
<1> USE CpuEnumAssumption
<1>1. Init => EnumInv
  BY FS_EmptySet DEF Init, EnumInv, TypeOK, MappingInjective, Contiguous, CountsAgree
<1>2. EnumInv /\ [Next]_vars => EnumInv'
  <2> SUFFICES ASSUME EnumInv, [Next]_vars PROVE EnumInv'
    OBVIOUS
  <2>1. ASSUME NEW a \in ApicIds, Enumerable(a), Refuse(a) PROVE EnumInv'
    BY <2>1 DEF EnumInv, TypeOK, MappingInjective, Contiguous, CountsAgree, Refuse
  <2>2. ASSUME NEW a \in ApicIds, Enumerable(a), RegisterBoot(a) PROVE EnumInv'
    <3>1. 0 \in Cpus /\ 0 \notin present /\ num_processors < NrCpuIds
      BY <2>2 DEF RegisterBoot, Enumerable, Refused, LimitReached, EnumInv, TypeOK,
                  CountsAgree, MappingInjective
    <3>2. /\ cpuid_to_apicid' \in [Cpus -> Slot] /\ cpuid_to_apicid'[0] = a
          /\ \A d \in Cpus \ {0} : cpuid_to_apicid'[d] = cpuid_to_apicid[d]
          /\ a = BootApicId /\ nr_logical_cpuids' = nr_logical_cpuids
          /\ Publish(0, a)
      BY <2>2, <3>1 DEF RegisterBoot, EnumInv, TypeOK
    <3>3. /\ CountsAgree' /\ TypeOK'
      BY <3>1, <3>2, PublishCounts DEF TypeOK, EnumInv
    <3>4. MappingInjective' /\ Contiguous'
      BY <3>1, <3>2 DEF EnumInv, MappingInjective, Contiguous
    <3> QED BY <3>2, <3>3, <3>4 DEF EnumInv
  <2>3. ASSUME NEW a \in ApicIds, Enumerable(a), RegisterKnown(a) PROVE EnumInv'
    <3>1. PICK c \in KnownCpu(a) : Publish(c, a)
      BY <2>3 DEF RegisterKnown
    <3>2. /\ c \in Cpus /\ c \notin present /\ num_processors < NrCpuIds
          /\ cpuid_to_apicid[c] = a
      BY <2>3 DEF RegisterKnown, KnownCpu, Enumerable, Refused, LimitReached,
                  EnumInv, TypeOK, CountsAgree
    <3>3. UNCHANGED <<nr_logical_cpuids, cpuid_to_apicid>>
      BY <2>3 DEF RegisterKnown
    <3>4. CountsAgree' /\ TypeOK'
      BY <3>1, <3>2, <3>3, PublishCounts DEF TypeOK, EnumInv
    <3> QED BY <3>3, <3>4 DEF EnumInv, MappingInjective, Contiguous
  <2>4. ASSUME NEW a \in ApicIds, Enumerable(a), RegisterNew(a) PROVE EnumInv'
    <3> DEFINE n == nr_logical_cpuids
    <3>1. n \in Cpus \ {0} /\ num_processors < NrCpuIds /\ a # BootApicId
      BY <2>4 DEF RegisterNew, Refused, LimitReached, NoCpuid, EnumInv, TypeOK
    <3>2. cpuid_to_apicid[n] = NoApic
      BY <3>1 DEF EnumInv, Contiguous, TypeOK
    <3>3. n \notin present
      BY <3>1, <3>2 DEF EnumInv, CountsAgree, TypeOK
    <3>4. /\ cpuid_to_apicid' \in [Cpus -> Slot] /\ cpuid_to_apicid'[n] = a
          /\ \A d \in Cpus \ {n} : cpuid_to_apicid'[d] = cpuid_to_apicid[d]
          /\ nr_logical_cpuids' = n + 1 /\ Publish(n, a)
      BY <2>4, <3>1 DEF RegisterNew, EnumInv, TypeOK
    <3>5. CountsAgree' /\ TypeOK'
      <4>1. n + 1 \in 1..NrCpuIds BY <3>1
      <4> QED BY <3>1, <3>3, <3>4, <4>1, PublishCounts DEF TypeOK, EnumInv
    <3>6. \A d \in Cpus : cpuid_to_apicid[d] # a
      <4> TAKE d \in Cpus
      <4>1. CASE d < n BY <2>4, <4>1 DEF RegisterNew, KnownCpu
      <4>2. CASE ~(d < n)
        BY <4>2, <3>1 DEF EnumInv, Contiguous, TypeOK
      <4> QED BY <4>1, <4>2
    <3>7. MappingInjective'
      BY <3>1, <3>4, <3>6 DEF EnumInv, MappingInjective
    <3>8. Contiguous'
      BY <3>1, <3>4 DEF EnumInv, Contiguous, TypeOK
    <3> QED BY <3>1, <3>4, <3>5, <3>7, <3>8 DEF EnumInv
  <2>5. ASSUME NEW c \in Cpus, Unplug(c) PROVE EnumInv'
    <3>1. Cardinality(present') = Cardinality(present) - 1 /\ Cardinality(present) \in Nat
      BY <2>5, PresentFinite, FS_RemoveElement, FS_CardinalityType DEF Unplug, EnumInv
    <3>2. Cardinality(present') \in Nat
      <4>1. IsFiniteSet(present')
        BY <2>5, PresentFinite, FS_RemoveElement DEF Unplug, EnumInv
      <4> QED BY <4>1, FS_CardinalityType
    <3>3. TypeOK' /\ CountsAgree'
      BY <2>5, <3>1, <3>2 DEF Unplug, EnumInv, TypeOK, CountsAgree
    <3> QED BY <2>5, <3>3 DEF Unplug, EnumInv, MappingInjective, Contiguous
  <2>6. CASE UNCHANGED vars
    BY <2>6 DEF vars, EnumInv, TypeOK, MappingInjective, Contiguous, CountsAgree
  <2> QED
    BY <2>1, <2>2, <2>3, <2>4, <2>5, <2>6 DEF Next, generic_processor_info
<1> QED
  BY <1>1, <1>2, PTL DEF Spec

\* Two logical CPUs never share an APIC, and CPU 0 is the boot processor.
THEOREM Injective == Spec => []MappingInjective
<1>1. EnumInv => MappingInjective
  BY DEF EnumInv
<1> QED
  BY <1>1, Enumeration, PTL

\* The boot CPU always finds a place.
THEOREM BootSlot == Spec => []BootSlotFree
<1> USE CpuEnumAssumption DEF BootSlotFree
<1>1. Init => BootSlotFree
  BY DEF Init
<1>2. EnumInv /\ BootSlotFree /\ [Next]_vars => BootSlotFree'
  <2> SUFFICES ASSUME EnumInv, BootSlotFree, [Next]_vars,
                      BootApicId \notin phys_cpu_present_map'
               PROVE  num_processors' < NrCpuIds
    OBVIOUS
  <2> USE DEF EnumInv, TypeOK
  <2>1. ASSUME NEW a \in ApicIds, generic_processor_info(a)
        PROVE  num_processors' < NrCpuIds
    <3>1. CASE Refuse(a) BY <3>1 DEF Refuse
    <3>2. CASE RegisterBoot(a) BY <3>2 DEF RegisterBoot, Publish
    <3>3. CASE RegisterKnown(a) \/ RegisterNew(a)
      <4>1. ~KeepBootSlot(a) /\ a # BootApicId
        BY <3>3 DEF RegisterKnown, RegisterNew, Refused
      <4>2. num_processors' = num_processors + 1
            /\ phys_cpu_present_map' = phys_cpu_present_map \cup {a}
        BY <3>3 DEF RegisterKnown, RegisterNew, Publish
      <4> QED BY <4>1, <4>2 DEF KeepBootSlot, boot_cpu_detected
    <3> QED BY <2>1, <3>1, <3>2, <3>3 DEF generic_processor_info
  <2>2. ASSUME NEW c \in Cpus, Unplug(c) PROVE num_processors' < NrCpuIds
    BY <2>2 DEF Unplug
  <2>3. CASE UNCHANGED vars BY <2>3 DEF vars
  <2> QED BY <2>1, <2>2, <2>3 DEF Next
<1> QED
  BY <1>1, <1>2, Enumeration, PTL DEF Spec

\* An allocated logical CPU ID keeps its APIC for ever.
THEOREM Persistence == Spec => Persistent
<1> USE CpuEnumAssumption
<1>1. EnumInv /\ [Next]_vars =>
        [\A c \in Cpus : cpuid_to_apicid[c] # NoApic =>
           cpuid_to_apicid'[c] = cpuid_to_apicid[c]]_vars
  <2> SUFFICES ASSUME EnumInv, Next, NEW c \in Cpus, cpuid_to_apicid[c] # NoApic
               PROVE  cpuid_to_apicid'[c] = cpuid_to_apicid[c]
    OBVIOUS
  <2>1. ASSUME NEW a \in ApicIds, RegisterBoot(a)
        PROVE  cpuid_to_apicid'[c] = cpuid_to_apicid[c]
    BY <2>1 DEF RegisterBoot, EnumInv, TypeOK, MappingInjective
  <2>2. ASSUME NEW a \in ApicIds, RegisterNew(a)
        PROVE  cpuid_to_apicid'[c] = cpuid_to_apicid[c]
    <3>1. nr_logical_cpuids # c
      BY DEF EnumInv, TypeOK, Contiguous
    <3> QED BY <2>2, <3>1 DEF RegisterNew, EnumInv, TypeOK
  <2>3. ASSUME NEW a \in ApicIds, Refuse(a) \/ RegisterKnown(a)
        PROVE  cpuid_to_apicid'[c] = cpuid_to_apicid[c]
    BY <2>3 DEF Refuse, RegisterKnown
  <2>4. ASSUME NEW d \in Cpus, Unplug(d)
        PROVE  cpuid_to_apicid'[c] = cpuid_to_apicid[c]
    BY <2>4 DEF Unplug
  <2> QED BY <2>1, <2>2, <2>3, <2>4 DEF Next, generic_processor_info
<1> QED
  BY <1>1, Enumeration, PTL DEF Spec, Persistent
=============================================================================
