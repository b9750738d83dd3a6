----------------------------- MODULE PendingIntr -----------------------------
(***************************************************************************)
(* apic_pending_intr_clear in arch/x86/kernel/apic/apic.c: setup_local_APIC *)
(* retires the interrupts an earlier kernel left in the request (IRR) and   *)
(* in-service (ISR) registers, reading them piece by piece while the APIC   *)
(* goes on moving requests into service.  The APIC is software disabled, so *)
(* no new request arrives.  A read takes one bit here, in the code the 32   *)
(* bits of a register: the model has every interleaving of the code.        *)
(***************************************************************************)
EXTENDS Integers, FiniteSets

CONSTANTS
  N,          \* APIC_IR_BITS; a bit is a vector, numbered by priority
  MaxLoops    \* 512

Bits == 0..(N - 1)

ASSUME PendingAssumption ==
  N \in Nat \ {0} /\ MaxLoops \in Nat \ {0}

VARIABLES
  IRR, ISR,   \* the APIC's registers
  irr, isr,   \* the copies apic_check_and_ack reads
  k,          \* next bit to read, or acknowledgements still to give
  i,          \* the round
  obeys,      \* the APIC has moved what it can when a round begins: fixed
  pc          \* "irr", "isr", "ack", "clear" (returned), "warn" (gave up)

vars == <<IRR, ISR, irr, isr, k, i, obeys, pc>>

TypeOK ==
  /\ IRR \in SUBSET Bits /\ ISR \in SUBSET Bits
  /\ irr \in SUBSET Bits /\ isr \in SUBSET Bits
  /\ k \in 0..N /\ i \in 0..MaxLoops /\ obeys \in BOOLEAN
  /\ pc \in {"irr", "isr", "ack", "clear", "warn"}

Init ==
  /\ IRR \in SUBSET Bits /\ ISR \in SUBSET Bits
  /\ irr = {} /\ isr = {} /\ k = 0 /\ i = 0 /\ pc = "irr"
  /\ obeys \in BOOLEAN

-----------------------------------------------------------------------------
\* A request is put in service when it outranks everything in service.
Promotable(b) == b \in IRR /\ \A s \in ISR : b > s

\* The APIC may do so at any time.
Promote(b) ==
  /\ Promotable(b) /\ \A r \in IRR : r <= b
  /\ IRR' = IRR \ {b} /\ ISR' = ISR \cup {b}
  /\ UNCHANGED <<irr, isr, k, i, pc>>

\* Read the IRRs: irr->regs[k] = apic_read(APIC_IRR + k * 0x10)
ReadIRR ==
  /\ pc = "irr" /\ k < N
  /\ k = 0 => ~obeys \/ \A b \in Bits : ~Promotable(b)
  /\ irr' = IF k \in IRR THEN irr \cup {k} ELSE irr \ {k}
  /\ k' = k + 1
  /\ UNCHANGED <<IRR, ISR, isr, i, pc>>

IRRDone ==
  /\ pc = "irr" /\ k = N
  /\ pc' = "isr" /\ k' = 0
  /\ UNCHANGED <<IRR, ISR, irr, isr, i>>

\* Read the ISRs: isr->regs[k] = apic_read(APIC_ISR + k * 0x10)
ReadISR ==
  /\ pc = "isr" /\ k < N
  /\ isr' = IF k \in ISR THEN isr \cup {k} ELSE isr \ {k}
  /\ k' = k + 1
  /\ UNCHANGED <<IRR, ISR, irr, i, pc>>

\* Mutant: the counter is not advanced.
NextRoundSame == i' = i /\ k' = 0 /\ pc' = IF i + 1 < MaxLoops THEN "irr" ELSE "warn"

\* The next round, or the end of the loop and the warning.
NextRound ==
  /\ i' = i + 1 /\ k' = 0
  /\ pc' = IF i + 1 < MaxLoops THEN "irr" ELSE "warn"

\* Mutant: an EOI for every bit seen, requests included.
DecideAckAll ==
  /\ pc = "isr" /\ k = N
  /\ IF isr # {} THEN pc' = "ack" /\ k' = Cardinality(isr \cup irr) /\ UNCHANGED i
     ELSE IF irr # {} THEN NextRound
     ELSE pc' = "clear" /\ UNCHANGED <<k, i>>
  /\ UNCHANGED <<IRR, ISR, irr, isr>>

\* Something in service: acknowledge it, one EOI per bit that was read.
\* Otherwise another round if there are requests, or the loop is left.
Decide ==
  /\ pc = "isr" /\ k = N
  /\ IF isr # {} THEN pc' = "ack" /\ k' = Cardinality(isr) /\ UNCHANGED i
     ELSE IF irr # {} THEN NextRound
     ELSE pc' = "clear" /\ UNCHANGED <<k, i>>
  /\ UNCHANGED <<IRR, ISR, irr, isr>>

\* Mutant: the acknowledgement is lost.
AckNothing ==
  /\ pc = "ack" /\ k > 0
  /\ k' = k - 1
  /\ UNCHANGED <<IRR, ISR, irr, isr, i, pc>>

\* ack_APIC_irq: the APIC retires the highest interrupt in service.
Ack ==
  /\ pc = "ack" /\ k > 0
  /\ k' = k - 1
  /\ ISR' = {b \in ISR : \E s \in ISR : s > b}
  /\ UNCHANGED <<IRR, irr, isr, i, pc>>

Acked ==
  /\ pc = "ack" /\ k = 0
  /\ NextRound
  /\ UNCHANGED <<IRR, ISR, irr, isr>>

\* Mutant: the in-service registers are read before the request registers.
KernelISRFirst ==
  \/ /\ pc = "irr" /\ k < N
     /\ isr' = IF k \in ISR THEN isr \cup {k} ELSE isr \ {k}
     /\ k' = k + 1 /\ UNCHANGED <<IRR, ISR, irr, i, pc>>
  \/ /\ pc = "isr" /\ k < N
     /\ irr' = IF k \in IRR THEN irr \cup {k} ELSE irr \ {k}
     /\ k' = k + 1 /\ UNCHANGED <<IRR, ISR, isr, i, pc>>
  \/ IRRDone \/ Decide \/ Ack \/ Acked

Kernel == ReadIRR \/ IRRDone \/ ReadISR \/ Decide \/ Ack \/ Acked

Next == ((\E b \in Bits : Promote(b)) \/ Kernel) /\ UNCHANGED obeys

Spec == Init /\ [][Next]_vars

\* The loop is plain code: it goes on.  Only an APIC that obeys has to move.
FairSpec == Spec /\ WF_vars(Kernel /\ UNCHANGED obeys)
                 /\ WF_vars(obeys /\ (\E b \in Bits : Promote(b)) /\ UNCHANGED obeys)

-----------------------------------------------------------------------------
\* When the loop is left without the warning nothing is pending, although the
\* registers were read one after the other while bits moved between them.  A bit
\* that moves from IRR to ISR is seen in one of them because IRR is read first.
NothingMissed == pc = "clear" => IRR = {} /\ ISR = {}

\* "Issue an ACK per set bit": no EOI is ever issued with nothing in service,
\* where it would retire an interrupt that comes later.
AckHasTarget == pc = "ack" => k <= Cardinality(ISR)

\* "512 loops are way oversized": an APIC that obeys is clear after at most one
\* round for what was in service, one per request and one that sees nothing.
NeverGivesUp == obeys /\ MaxLoops > N + 1 => pc # "warn"

\* The loop keeps the promise of StaleClear: it always ends, it brings no interrupt
\* back once all are gone, and it is silent only when all are gone.
Promise == INSTANCE StaleClear WITH
  stale <- IRR \cup ISR # {},
  outcome <- IF pc \in {"clear", "warn"} THEN pc ELSE "busy"

KeepsPromise == Promise!Spec

\* Why nothing is missed: a bit of the registers already read in this round was
\* seen, as a request or in service.
SeenInv ==
  /\ pc = "irr" => \A b \in Bits : b < k /\ b \in IRR => b \in irr
  /\ pc = "isr" => /\ IRR \subseteq irr
                   /\ \A b \in Bits : b < k /\ b \in ISR => b \in isr \cup irr
  /\ NothingMissed
=============================================================================
