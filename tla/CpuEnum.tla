------------------------------- MODULE CpuEnum -------------------------------
(***************************************************************************)
(* Registration of processors in arch/x86/kernel/apic/apic.c:              *)
(* generic_processor_info and allocate_logical_cpuid, called for every     *)
(* local APIC the firmware's tables list and again when a processor is     *)
(* plugged in at run time.                                                 *)
(***************************************************************************)
EXTENDS Integers, FiniteSets

CONSTANTS
  ApicIds,              \* APIC IDs the firmware may report
  BootApicId,           \* boot_cpu_physical_apicid, as read_apic_id() returns it
  DisabledApicId,       \* disabled_cpu_apicid= parameter, or BAD_APICID
  NrCpuIds,             \* nr_cpu_ids
  MaxDisabled           \* bound on disabled_cpus

NoApic == -1            \* BAD_APICID, and an empty slot of cpuid_to_apicid

ASSUME CpuEnumAssumption ==
  /\ ApicIds \subseteq Nat /\ BootApicId \in ApicIds
  /\ DisabledApicId \in ApicIds \cup {NoApic}
  /\ NrCpuIds \in Nat \ {0} /\ MaxDisabled \in Nat

VARIABLES
  nr_logical_cpuids,
  cpuid_to_apicid,
  phys_cpu_present_map,  \* APIC IDs ever registered
  present,               \* registered CPUs that are plugged in
  x86_cpu_to_apicid,
  max_physical_apicid,
  num_processors,
  disabled_cpus

vars == <<nr_logical_cpuids, cpuid_to_apicid, phys_cpu_present_map, present,
          x86_cpu_to_apicid, max_physical_apicid, num_processors, disabled_cpus>>

Cpus == 0..(NrCpuIds - 1)
Slot == ApicIds \cup {NoApic}

TypeOK ==
  /\ nr_logical_cpuids \in 1..NrCpuIds
  /\ cpuid_to_apicid \in [Cpus -> Slot]
  /\ phys_cpu_present_map \in SUBSET ApicIds
  /\ present \in SUBSET Cpus
  /\ x86_cpu_to_apicid \in [Cpus -> Slot]
  /\ max_physical_apicid \in Nat
  /\ num_processors \in 0..NrCpuIds
  /\ disabled_cpus \in 0..MaxDisabled

Init ==
  /\ nr_logical_cpuids = 1
  /\ cpuid_to_apicid = [c \in Cpus |-> NoApic]
  /\ phys_cpu_present_map = {} /\ present = {}
  /\ x86_cpu_to_apicid = [c \in Cpus |-> NoApic]
  /\ max_physical_apicid = 0 /\ num_processors = 0 /\ disabled_cpus = 0

-----------------------------------------------------------------------------
boot_cpu_detected == BootApicId \in phys_cpu_present_map

\* The refusals, in the order of the code.
Requested(a) == DisabledApicId # NoApic /\ DisabledApicId # BootApicId
                  /\ DisabledApicId = a
KeepBootSlot(a) == ~boot_cpu_detected /\ num_processors >= NrCpuIds - 1
                     /\ a # BootApicId
LimitReached == num_processors >= NrCpuIds

\* Mutant: only CPUs that are plugged in are searched.
KnownPresent(a) == {c \in present : c < nr_logical_cpuids /\ cpuid_to_apicid[c] = a}

\* allocate_logical_cpuid: the CPU an APIC ID had before, else the next one.
KnownCpu(a) == {c \in Cpus : c < nr_logical_cpuids /\ cpuid_to_apicid[c] = a}

\* Mutant: the limit is tested one too late.
NoCpuidOffByOne(a) ==
  a # BootApicId /\ KnownCpu(a) = {} /\ nr_logical_cpuids > NrCpuIds

NoCpuid(a) == a # BootApicId /\ KnownCpu(a) = {} /\ nr_logical_cpuids >= NrCpuIds

\* Mutant: num_processors alone is tested against the limit.
RefusedLate(a) == Requested(a) \/ LimitReached

Refused(a) == Requested(a) \/ KeepBootSlot(a) \/ LimitReached \/ NoCpuid(a)

\* disabled_cpus++ and an error code
Refuse(a) ==
  /\ Refused(a) /\ disabled_cpus < MaxDisabled
  /\ disabled_cpus' = disabled_cpus + 1
  /\ UNCHANGED <<nr_logical_cpuids, cpuid_to_apicid, phys_cpu_present_map,
                 present, x86_cpu_to_apicid, max_physical_apicid, num_processors>>

\* The tail of generic_processor_info for the logical CPU c.
Publish(c, a) ==
  /\ max_physical_apicid' = IF a > max_physical_apicid THEN a ELSE max_physical_apicid
  /\ x86_cpu_to_apicid' = [x86_cpu_to_apicid EXCEPT ![c] = a]
  /\ phys_cpu_present_map' = phys_cpu_present_map \cup {a}
  /\ present' = present \cup {c}
  /\ num_processors' = num_processors + 1
  /\ UNCHANGED disabled_cpus

RegisterBoot(a) ==
  /\ ~Refused(a) /\ a = BootApicId
  /\ cpuid_to_apicid' = [cpuid_to_apicid EXCEPT ![0] = a]
  /\ Publish(0, a)
  /\ UNCHANGED nr_logical_cpuids

RegisterKnown(a) ==
  /\ ~Refused(a) /\ a # BootApicId
  /\ \E c \in KnownCpu(a) :
       /\ \A d \in KnownCpu(a) : c <= d
       /\ Publish(c, a)
  /\ UNCHANGED <<nr_logical_cpuids, cpuid_to_apicid>>

\* Mutant: the counter is not advanced.
RegisterNewSame(a) ==
  /\ ~Refused(a) /\ a # BootApicId /\ KnownCpu(a) = {}
  /\ cpuid_to_apicid' = [cpuid_to_apicid EXCEPT ![nr_logical_cpuids] = a]
  /\ Publish(nr_logical_cpuids, a)
  /\ UNCHANGED nr_logical_cpuids

RegisterNew(a) ==
  /\ ~Refused(a) /\ a # BootApicId /\ KnownCpu(a) = {}
  /\ cpuid_to_apicid' = [cpuid_to_apicid EXCEPT ![nr_logical_cpuids] = a]
  /\ nr_logical_cpuids' = nr_logical_cpuids + 1
  /\ Publish(nr_logical_cpuids, a)

\* The firmware lists a processor once, and plugs one in only after it has been
\* removed: the caller sees to it that the APIC is not registered already.
Enumerable(a) == \A c \in present : x86_cpu_to_apicid[c] # a

generic_processor_info(a) ==
  /\ Enumerable(a)
  /\ Refuse(a) \/ RegisterBoot(a) \/ RegisterKnown(a) \/ RegisterNew(a)

\* acpi_unmap_cpu: the processor leaves, its logical CPU ID stays taken.
Unplug(c) ==
  /\ c \in present \ {0}
  /\ x86_cpu_to_apicid' = [x86_cpu_to_apicid EXCEPT ![c] = NoApic]
  /\ present' = present \ {c}
  /\ num_processors' = num_processors - 1
  /\ UNCHANGED <<nr_logical_cpuids, cpuid_to_apicid, phys_cpu_present_map,
                 max_physical_apicid, disabled_cpus>>

Next == \/ \E a \in ApicIds : generic_processor_info(a)
        \/ \E c \in Cpus : Unplug(c)

Spec == Init /\ [][Next]_vars

-----------------------------------------------------------------------------
\* Two logical CPUs never stand for the same APIC, whatever is unplugged and
\* plugged in again, and slot 0 is the boot processor's.
MappingInjective ==
  /\ \A c, d \in Cpus : cpuid_to_apicid[c] = cpuid_to_apicid[d]
                          /\ cpuid_to_apicid[c] # NoApic => c = d
  /\ cpuid_to_apicid[0] \in {NoApic, BootApicId}

\* "All allocated CPU IDs should be in the [0, nr_logical_cpuids) range": the
\* slots below the counter are taken (0 only by the boot CPU), those above free.
Contiguous ==
  \A c \in Cpus \ {0} : cpuid_to_apicid[c] # NoApic <=> c < nr_logical_cpuids

\* "keep one slot free for boot cpu": however many processors are listed before
\* it, the boot CPU still finds a place.  (Either KeepBootSlot or the limit on
\* logical CPU IDs, which start at 1, is enough for that.)
BootSlotFree ==
  BootApicId \notin phys_cpu_present_map => num_processors < NrCpuIds

\* What the rest of the kernel reads agrees with the allocation: a present CPU
\* has the APIC ID of its slot and num_processors counts the present CPUs.
CountsAgree ==
  /\ \A c \in present : /\ x86_cpu_to_apicid[c] = cpuid_to_apicid[c]
                        /\ x86_cpu_to_apicid[c] \in phys_cpu_present_map
  /\ \A a \in phys_cpu_present_map : a <= max_physical_apicid
  /\ num_processors = Cardinality(present)

\* Together these are inductive; the boot APIC never has a second slot.
EnumInv ==
  /\ TypeOK /\ MappingInjective /\ Contiguous /\ CountsAgree
  /\ \A c \in Cpus \ {0} : cpuid_to_apicid[c] # BootApicId

\* "cpuid <-> apicid mapping is persistent": an allocated slot never changes its
\* APIC, so a processor that returns gets its old logical CPU ID back.
Persistent ==
  [][\A c \in Cpus : cpuid_to_apicid[c] # NoApic =>
       cpuid_to_apicid'[c] = cpuid_to_apicid[c]]_vars
=============================================================================
