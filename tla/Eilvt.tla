-------------------------------- MODULE Eilvt --------------------------------
(***************************************************************************)
(* Extended LVT offsets in arch/x86/kernel/apic/apic.c: setup_APIC_eilvt    *)
(* claims an offset for a vector in the table eilvt_offsets, shared by all  *)
(* processors and changed only by compare-and-swap, and then programs the   *)
(* register of its own processor.  Any number of processors run it at once. *)
(***************************************************************************)
EXTENDS Integers

CONSTANTS
  Cpus,
  Offsets,     \* offsets below APIC_EILVT_NR_MAX
  BadOffset,   \* an offset that is too large
  Vectors,     \* vector and message type, never zero
  Menus,       \* sets of entries: in a run drivers ask for those of one set
  Bios,        \* what the firmware may leave in a register
  MaxCalls     \* bound on the calls each processor makes

None == 0

\* The 32 bits of a register: 0 is unassigned, Free is APIC_EILVT_MASKED alone.
Entries == [vec : Vectors \cup {None}, masked : BOOLEAN]
Empty == [vec |-> None, masked |-> FALSE]
Free == [vec |-> None, masked |-> TRUE]

ASSUME EilvtAssumption ==
  /\ BadOffset \notin Offsets /\ None \notin Vectors
  /\ Menus \subseteq SUBSET (Entries \ {Empty}) /\ Bios \subseteq Entries
  /\ MaxCalls \in Nat

VARIABLES
  eilvt_offsets,   \* the shared table
  reg,             \* reg[c][o]: APIC_EILVTn(o) of processor c
  pc,              \* where processor c is: "idle", "read", "cas", "program"
  arg,             \* the offset and the entry of its call
  old,             \* its register when the call began
  rsvd,            \* its local copy of the table's entry
  claimed,         \* history: offsets the processor's calls programmed
  calls,           \* calls made so far
  requests         \* the entries drivers ask for: fixed

vars == <<eilvt_offsets, reg, pc, arg, old, rsvd, claimed, calls, requests>>

TypeOK ==
  /\ eilvt_offsets \in [Offsets -> Entries]
  /\ reg \in [Cpus -> [Offsets -> Entries]]
  /\ pc \in [Cpus -> {"idle", "read", "cas", "program"}]
  /\ arg \in [Cpus -> [off : Offsets, new : Entries]]
  /\ old \in [Cpus -> Entries]
  /\ rsvd \in [Cpus -> Entries]
  /\ claimed \in [Cpus -> SUBSET Offsets]
  /\ calls \in [Cpus -> 0..MaxCalls]
  /\ requests \in Menus

Init ==
  /\ eilvt_offsets = [o \in Offsets |-> Empty]
  /\ reg \in [Cpus -> [Offsets -> Bios]]
  /\ pc = [c \in Cpus |-> "idle"]
  /\ \E o \in Offsets : arg = [c \in Cpus |-> [off |-> o, new |-> Empty]]
  /\ old = [c \in Cpus |-> Empty]
  /\ rsvd = [c \in Cpus |-> Empty]
  /\ claimed = [c \in Cpus |-> {}]
  /\ calls = [c \in Cpus |-> 0]
  /\ requests \in Menus

-----------------------------------------------------------------------------
\* x & ~APIC_EILVT_MASKED
Unmasked(e) == [vec |-> e.vec, masked |-> FALSE]

\* Mutant: an entry may be given to another vector of the same kind.
ChangeableAlways(o, n) == o.masked \/ n = Free \/ n.vec # None

eilvt_entry_is_changeable(o, n) == o.masked \/ n = Free \/ Unmasked(n) = o

\* A call with an offset beyond the table only returns -EINVAL.
RejectOffset(c, o) ==
  /\ pc[c] = "idle" /\ calls[c] < MaxCalls /\ o = BadOffset
  /\ calls' = [calls EXCEPT ![c] = @ + 1]
  /\ UNCHANGED <<eilvt_offsets, reg, pc, arg, old, rsvd, claimed>>

\* setup_APIC_eilvt(o, ...) begins: old = apic_read(reg).
setup_APIC_eilvt(c, o, n) ==
  /\ pc[c] = "idle" /\ calls[c] < MaxCalls
  /\ calls' = [calls EXCEPT ![c] = @ + 1]
  /\ arg' = [arg EXCEPT ![c] = [off |-> o, new |-> n]]
  /\ old' = [old EXCEPT ![c] = reg[c][o]]
  /\ pc' = [pc EXCEPT ![c] = "read"]
  /\ UNCHANGED <<eilvt_offsets, reg, rsvd, claimed>>

\* rsvd = atomic_read(&eilvt_offsets[offset])
ReserveRead(c) ==
  /\ pc[c] = "read"
  /\ rsvd' = [rsvd EXCEPT ![c] = eilvt_offsets[arg[c].off]]
  /\ pc' = [pc EXCEPT ![c] = "cas"]
  /\ UNCHANGED <<eilvt_offsets, reg, arg, old, claimed, calls>>

\* The vector the table holds is another one: the call ends with -EINVAL.
Conflict(c) ==
  /\ rsvd[c].vec # None
  /\ ~eilvt_entry_is_changeable(Unmasked(rsvd[c]), arg[c].new)

Refuse(c) ==
  /\ pc[c] = "cas" /\ Conflict(c)
  /\ pc' = [pc EXCEPT ![c] = "idle"]
  /\ UNCHANGED <<eilvt_offsets, reg, arg, old, rsvd, claimed, calls>>

\* The compare-and-swap stores the entry if the copy is current.
Swapped(c) ==
  IF eilvt_offsets[arg[c].off] = rsvd[c]
  THEN [eilvt_offsets EXCEPT ![arg[c].off] = arg[c].new]
  ELSE eilvt_offsets

\* Mutant: the table is written blindly, without comparing.
RetryStore(c) ==
  /\ pc[c] = "cas" /\ ~Conflict(c)
  /\ eilvt_offsets[arg[c].off] # arg[c].new
  /\ rsvd' = [rsvd EXCEPT ![c] = arg[c].new]
  /\ eilvt_offsets' = [eilvt_offsets EXCEPT ![arg[c].off] = arg[c].new]
  /\ UNCHANGED <<reg, pc, arg, old, claimed, calls>>

\* Mutant: the value found is not taken over.
RetryStale(c) ==
  /\ pc[c] = "cas" /\ ~Conflict(c)
  /\ eilvt_offsets[arg[c].off] # arg[c].new
  /\ eilvt_offsets' = Swapped(c)
  /\ UNCHANGED <<rsvd, reg, pc, arg, old, claimed, calls>>

\* It found another value than new, be it the one it has just replaced: once
\* more with that value.
Retry(c) ==
  /\ pc[c] = "cas" /\ ~Conflict(c)
  /\ eilvt_offsets[arg[c].off] # arg[c].new
  /\ rsvd' = [rsvd EXCEPT ![c] = eilvt_offsets[arg[c].off]]
  /\ eilvt_offsets' = Swapped(c)
  /\ UNCHANGED <<reg, pc, arg, old, claimed, calls>>

\* It found new: the offset is reserved.
Reserved(c) ==
  /\ pc[c] = "cas" /\ ~Conflict(c)
  /\ eilvt_offsets[arg[c].off] = arg[c].new
  /\ pc' = [pc EXCEPT ![c] = "program"]
  /\ UNCHANGED <<eilvt_offsets, reg, arg, old, rsvd, claimed, calls>>

\* Mutant: this processor's own register is not looked at.
ProgramAnyway(c) ==
  /\ pc[c] = "program"
  /\ reg' = [reg EXCEPT ![c][arg[c].off] = arg[c].new]
  /\ claimed' = [claimed EXCEPT ![c] = @ \cup {arg[c].off}]
  /\ pc' = [pc EXCEPT ![c] = "idle"]
  /\ UNCHANGED <<eilvt_offsets, arg, old, rsvd, calls>>

\* -EBUSY if this processor's register may not change, else it is programmed,
\* whatever has become of the table in the meantime.
Program(c) ==
  /\ pc[c] = "program"
  /\ IF eilvt_entry_is_changeable(old[c], arg[c].new)
     THEN /\ reg' = [reg EXCEPT ![c][arg[c].off] = arg[c].new]
          /\ claimed' = [claimed EXCEPT ![c] = @ \cup {arg[c].off}]
     ELSE UNCHANGED <<reg, claimed>>
  /\ pc' = [pc EXCEPT ![c] = "idle"]
  /\ UNCHANGED <<eilvt_offsets, arg, old, rsvd, calls>>

Step(c) == \/ ReserveRead(c) \/ Refuse(c) \/ Retry(c) \/ Reserved(c)
           \/ Program(c)

Call(c) == \/ RejectOffset(c, BadOffset)
           \/ \E o \in Offsets, n \in requests : setup_APIC_eilvt(c, o, n)

Next == (\E c \in Cpus : Call(c) \/ Step(c)) /\ UNCHANGED requests

Spec == Init /\ [][Next]_vars

\* The caller runs with preemption disabled: a call once begun goes on.
FairSpec == Spec /\ \A c \in Cpus : WF_vars(Step(c) /\ UNCHANGED requests)

-----------------------------------------------------------------------------
NeverFreed == \A n \in requests : n.vec # None

\* Two processors that have programmed the same offset use it for one vector.
SameVector ==
  \A c, d \in Cpus : \A o \in claimed[c] \cap claimed[d] :
    reg[c][o].vec = reg[d][o].vec \/ None \in {reg[c][o].vec, reg[d][o].vec}

\* "the offsets must be consistent for all cores", while no driver frees one.
ConsistentOffsets == NeverFreed => SameVector

\* What makes ConsistentOffsets inductive while no driver frees an offset: the
\* table holds the vector of every programmed register, and of every register a
\* processor is about to program.
TableAgrees ==
  \A c \in Cpus :
    /\ \A o \in claimed[c] : /\ reg[c][o].vec = eilvt_offsets[o].vec
                            /\ eilvt_offsets[o].vec # None
    /\ pc[c] = "program" => eilvt_offsets[arg[c].off].vec = arg[c].new.vec

\* A reserved offset is never handed to another vector by a processor whose copy
\* is stale: its entry changes only in the mask, or becomes free.
ReservationKept ==
  [][\A o \in Offsets : eilvt_offsets[o].vec # None =>
       eilvt_offsets'[o].vec = eilvt_offsets[o].vec \/ eilvt_offsets'[o] = Free]_vars

\* A register that delivers interrupts, set by the firmware or by an earlier
\* call, is never switched to another vector; it has to be masked first.
LiveRegisterKept ==
  [][\A c \in Cpus, o \in Offsets : ~reg[c][o].masked =>
       \/ reg'[c][o] = Free
       \/ Unmasked(reg'[c][o]) = reg[c][o]]_vars

\* The compare-and-swap loop ends when all drivers ask for enabled entries.  (It
\* ends only when it finds its own entry in the table, so two processors that
\* keep asking for the masked and the enabled form can undo each other's swap.)
CallReturns == \A c \in Cpus :
  (pc[c] # "idle" /\ \A n \in requests : ~n.masked) ~> pc[c] = "idle"
=============================================================================
