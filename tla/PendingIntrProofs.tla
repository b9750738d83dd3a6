-------------------------- MODULE PendingIntrProofs --------------------------
(***************************************************************************)
(* apic_pending_intr_clear for any number of vectors and rounds, and for an *)
(* APIC that moves requests into service at any moment or not at all.       *)
(***************************************************************************)
EXTENDS PendingIntr, FiniteSetTheorems, WellFoundedInduction, TLAPS

\* A set of bits is finite and has at most N members.
LEMMA BitsFinite ==
  ASSUME PendingAssumption, NEW S \in SUBSET Bits
  PROVE  IsFiniteSet(S) /\ Cardinality(S) \in 0..N
<1>1. IsFiniteSet(Bits) /\ Cardinality(Bits) = N
  BY FS_Interval DEF Bits, PendingAssumption
<1>2. IsFiniteSet(S) /\ Cardinality(S) \in Nat /\ Cardinality(S) <= N
  BY <1>1, FS_Subset, FS_CardinalityType
<1>. QED
  BY <1>2 DEF PendingAssumption

\* The loop is left when its counter reaches the limit.
RoundInv == pc \in {"irr", "isr", "ack"} => i < MaxLoops

RunInv == TypeOK /\ RoundInv

\* Every step keeps the types and the counter below its limit.
LEMMA StepRun ==
  ASSUME PendingAssumption, RunInv, [Next]_vars
  PROVE  RunInv'
<1>0. TypeOK /\ RoundInv
  BY DEF RunInv
<1>00. obeys' = obeys /\ obeys \in BOOLEAN
  BY <1>0, Zenon DEF TypeOK, Next, vars
<1>1. ASSUME NEW b \in Bits, Promote(b)
      PROVE  RunInv'
  BY <1>0, <1>00, <1>1 DEF Promote, TypeOK, RoundInv, RunInv
<1>2. CASE ReadIRR
  <2>1. k \in Bits /\ k + 1 \in 0..N
    BY <1>0, <1>00, <1>2 DEF ReadIRR, Bits, TypeOK, PendingAssumption
  <2>. QED
    BY <1>0, <1>00, <1>2, <2>1 DEF ReadIRR, TypeOK, RoundInv, RunInv
<1>3. CASE IRRDone
  BY <1>0, <1>00, <1>3 DEF IRRDone, TypeOK, RoundInv, RunInv, PendingAssumption
<1>4. CASE ReadISR
  <2>1. k \in Bits /\ k + 1 \in 0..N
    BY <1>0, <1>00, <1>4 DEF ReadISR, Bits, TypeOK, PendingAssumption
  <2>. QED
    BY <1>0, <1>00, <1>4, <2>1 DEF ReadISR, TypeOK, RoundInv, RunInv
<1>5. ASSUME i < MaxLoops, NextRound, UNCHANGED <<IRR, ISR, irr, isr>>
      PROVE  RunInv'
  BY <1>0, <1>00, <1>5 DEF NextRound, TypeOK, RoundInv, RunInv, PendingAssumption
<1>6. CASE Decide
  <2>1. Cardinality(isr) \in 0..N
    BY <1>0, <1>00, BitsFinite DEF TypeOK
  <2>2. CASE isr # {}
    BY <1>0, <1>00, <1>6, <2>1, <2>2 DEF Decide, TypeOK, RoundInv, RunInv
  <2>3. CASE isr = {} /\ irr # {}
    BY <1>0, <1>00, <1>5, <1>6, <2>3 DEF Decide, RoundInv
  <2>4. CASE isr = {} /\ irr = {}
    BY <1>0, <1>00, <1>6, <2>4 DEF Decide, TypeOK, RoundInv, RunInv
  <2>. QED
    BY <2>2, <2>3, <2>4
<1>7. CASE Ack
  <2>1. k - 1 \in 0..N
    BY <1>0, <1>00, <1>7 DEF Ack, TypeOK, PendingAssumption
  <2>. QED
    BY <1>0, <1>00, <1>7, <2>1 DEF Ack, TypeOK, RoundInv, RunInv
<1>8. CASE Acked
  BY <1>0, <1>00, <1>5, <1>8 DEF Acked, RoundInv
<1>9. CASE UNCHANGED vars
  BY <1>0, <1>00, <1>9 DEF vars, TypeOK, RoundInv, RunInv
<1>. QED
  BY <1>1, <1>2, <1>3, <1>4, <1>6, <1>7, <1>8, <1>9 DEF Next, Kernel

\* The initial state is typed and the loop has rounds left.
LEMMA InitRun ==
  ASSUME PendingAssumption, Init
  PROVE  RunInv
BY DEF Init, TypeOK, RoundInv, RunInv, PendingAssumption

\* The types hold in every reachable state.
THEOREM TypeCorrect ==
  ASSUME PendingAssumption
  PROVE  Spec => []TypeOK
<1>1. RunInv /\ [Next]_vars => RunInv'
  BY StepRun
<1>2. Init => RunInv
  BY InitRun
<1>3. RunInv => TypeOK
  BY DEF RunInv
<1>. QED
  BY <1>1, <1>2, <1>3, PTL DEF Spec

-----------------------------------------------------------------------------
\* Every step keeps the account of what has been seen in this round.
LEMMA StepSeen ==
  ASSUME PendingAssumption, RunInv, SeenInv, [Next]_vars
  PROVE  SeenInv'
<1>0. TypeOK
  BY DEF RunInv
<1>1. ASSUME NEW b \in Bits, Promote(b)
      PROVE  SeenInv'
  <2>1. IRR' \subseteq IRR /\ ISR' \subseteq ISR \cup IRR /\ UNCHANGED <<irr, isr, k, pc>>
    BY <1>1 DEF Promote, Promotable
  <2>2. pc = "clear" => IRR' = {} /\ ISR' = {}
    BY <2>1 DEF SeenInv, NothingMissed
  <2>. QED
    BY <2>1, <2>2 DEF SeenInv, NothingMissed
<1>2. CASE ReadIRR
  <2>1. pc' = "irr" /\ k' = k + 1 /\ IRR' = IRR /\ k \in 0..N
    BY <1>0, <1>2 DEF ReadIRR, TypeOK
  <2>2. ASSUME NEW b \in Bits, b < k', b \in IRR
        PROVE  b \in irr'
    <3>1. b = k \/ b < k
      BY <2>1, <2>2 DEF Bits
    <3>. QED
      BY <1>2, <2>2, <3>1 DEF ReadIRR, SeenInv
  <2>. QED
    BY <2>1, <2>2 DEF SeenInv, NothingMissed
<1>3. CASE IRRDone
  <2>1. IRR \subseteq irr
    BY <1>0, <1>3 DEF IRRDone, SeenInv, TypeOK, Bits
  <2>2. pc' = "isr" /\ k' = 0 /\ UNCHANGED <<IRR, ISR, irr, isr>>
    BY <1>3 DEF IRRDone
  <2>. QED
    BY <2>1, <2>2 DEF SeenInv, NothingMissed, Bits
<1>4. CASE ReadISR
  <2>1. pc = "isr" /\ pc' = "isr" /\ k' = k + 1 /\ k \in 0..N
          /\ UNCHANGED <<IRR, ISR, irr>>
    BY <1>0, <1>4 DEF ReadISR, TypeOK
  <2>2. ASSUME NEW b \in Bits, b < k', b \in ISR
        PROVE  b \in isr' \cup irr
    <3>1. b = k \/ b < k
      BY <2>1, <2>2 DEF Bits
    <3>. QED
      BY <1>4, <2>1, <2>2, <3>1 DEF ReadISR, SeenInv
  <2>. QED
    BY <2>1, <2>2 DEF SeenInv, NothingMissed
<1>5. ASSUME NextRound
      PROVE  SeenInv'
  <2>1. k' = 0 /\ pc' \in {"irr", "warn"}
    BY <1>5 DEF NextRound
  <2>. QED
    BY <2>1 DEF SeenInv, NothingMissed, Bits
<1>6. CASE Decide
  <2>1. CASE isr # {}
    BY <1>6, <2>1 DEF Decide, SeenInv, NothingMissed
  <2>2. CASE isr = {} /\ irr # {}
    BY <1>5, <1>6, <2>2 DEF Decide
  <2>3. CASE isr = {} /\ irr = {}
    <3>1. pc' = "clear" /\ UNCHANGED <<IRR, ISR>>
      BY <1>6, <2>3 DEF Decide
    <3>2. IRR = {}
      BY <1>6, <2>3 DEF Decide, SeenInv
    <3>3. ISR = {}
      BY <1>0, <1>6, <2>3 DEF Decide, SeenInv, TypeOK, Bits
    <3>. QED
      BY <3>1, <3>2, <3>3 DEF SeenInv, NothingMissed
  <2>. QED
    BY <2>1, <2>2, <2>3
<1>7. CASE Ack
  BY <1>7 DEF Ack, SeenInv, NothingMissed
<1>8. CASE Acked
  BY <1>5, <1>8 DEF Acked
<1>9. CASE UNCHANGED vars
  BY <1>9 DEF vars, SeenInv, NothingMissed
<1>. QED
  BY <1>1, <1>2, <1>3, <1>4, <1>6, <1>7, <1>8, <1>9 DEF Next, Kernel

\* When the loop is left without the warning nothing is pending.
THEOREM Cleared ==
  ASSUME PendingAssumption
  PROVE  Spec => []NothingMissed
<1>1. Init => RunInv /\ SeenInv
  BY InitRun DEF Init, SeenInv, NothingMissed, Bits
<1>2. RunInv /\ SeenInv /\ [Next]_vars => RunInv' /\ SeenInv'
  BY StepRun, StepSeen
<1>3. SeenInv => NothingMissed
  BY DEF SeenInv
<1>. QED
  BY <1>1, <1>2, <1>3, PTL DEF Spec

-----------------------------------------------------------------------------
\* An EOI retires at most one interrupt.
LEMMA EoiRetiresOne ==
  ASSUME PendingAssumption, NEW S \in SUBSET Bits, NEW T,
         T = {b \in S : \E s \in S : s > b}
  PROVE  Cardinality(T) >= Cardinality(S) - 1
<1>1. IsFiniteSet(S) /\ Cardinality(S) \in Nat
  BY BitsFinite
<1>2. CASE S = T
  <2>1. Cardinality(T) = Cardinality(S)
    BY <1>2, Zenon
  <2>. QED
    BY <1>1, <2>1
<1>3. CASE S # T
  <2>1. PICK m \in S : m \notin T
    BY <1>3
  <2>2. \A b \in S : b \in Int
    BY DEF Bits, PendingAssumption
  <2>3. \A s \in S : ~(s > m)
    BY <2>1
  <2>4. \A b \in S \ {m} : m > b
    BY <2>1, <2>2, <2>3
  <2>5. T = S \ {m}
    BY <2>1, <2>4
  <2>6. Cardinality(S \ {m}) = Cardinality(S) - 1
    BY <1>1, <2>1, FS_RemoveElement
  <2>7. Cardinality(T) = Cardinality(S) - 1
    BY <2>5, <2>6, Zenon
  <2>. QED
    BY <1>1, <2>7
<1>. QED
  BY <1>2, <1>3

\* What was read in service is still in service, and an acknowledgement is due
\* only for such a bit.
DueInv ==
  /\ pc = "isr" => \A b \in Bits : b < k /\ b \in isr => b \in ISR
  /\ AckHasTarget

\* Every step keeps the acknowledgements covered.
LEMMA StepDue ==
  ASSUME PendingAssumption, RunInv, DueInv, [Next]_vars
  PROVE  DueInv'
<1>0. TypeOK
  BY DEF RunInv
<1>00. ISR \in SUBSET Bits /\ isr \in SUBSET Bits /\ k \in 0..N
  BY <1>0 DEF TypeOK
<1>1. ASSUME NEW b \in Bits, Promote(b)
      PROVE  DueInv'
  <2>1. ISR \subseteq ISR' /\ ISR' \in SUBSET Bits /\ UNCHANGED <<isr, k, pc>>
    BY <1>00, <1>1 DEF Promote
  <2>2. Cardinality(ISR) <= Cardinality(ISR')
    BY <2>1, BitsFinite, FS_Subset
  <2>3. Cardinality(ISR) \in Nat /\ Cardinality(ISR') \in Nat
    BY <1>00, <2>1, BitsFinite
  <2>4. AckHasTarget'
    BY <1>00, <2>1, <2>2, <2>3 DEF DueInv, AckHasTarget
  <2>. QED
    BY <2>1, <2>4 DEF DueInv
<1>2. CASE ReadIRR
  BY <1>2 DEF ReadIRR, DueInv, AckHasTarget
<1>3. CASE IRRDone
  BY <1>3 DEF IRRDone, DueInv, AckHasTarget, Bits
<1>4. CASE ReadISR
  <2>1. pc = "isr" /\ pc' = "isr" /\ k' = k + 1 /\ ISR' = ISR
    BY <1>4 DEF ReadISR
  <2>2. ASSUME NEW b \in Bits, b < k', b \in isr'
        PROVE  b \in ISR
    <3>1. b = k \/ b < k
      BY <1>00, <2>1, <2>2 DEF Bits
    <3>. QED
      BY <1>4, <2>1, <2>2, <3>1 DEF ReadISR, DueInv
  <2>. QED
    BY <2>1, <2>2 DEF DueInv, AckHasTarget
<1>5. ASSUME NextRound
      PROVE  DueInv'
  <2>1. pc' \in {"irr", "warn"}
    BY <1>5 DEF NextRound
  <2>. QED
    BY <2>1 DEF DueInv, AckHasTarget
<1>6. CASE Decide
  <2>1. CASE isr # {}
    <3>1. isr \subseteq ISR
      BY <1>00, <1>6 DEF Decide, DueInv, Bits
    <3>2. Cardinality(isr) <= Cardinality(ISR)
      BY <1>00, <3>1, BitsFinite, FS_Subset
    <3>3. pc' = "ack" /\ k' = Cardinality(isr) /\ ISR' = ISR
      BY <1>6, <2>1 DEF Decide
    <3>. QED
      BY <3>2, <3>3 DEF DueInv, AckHasTarget
  <2>2. CASE isr = {} /\ irr # {}
    BY <1>5, <1>6, <2>2 DEF Decide
  <2>3. CASE isr = {} /\ irr = {}
    BY <1>6, <2>3 DEF Decide, DueInv, AckHasTarget
  <2>. QED
    BY <2>1, <2>2, <2>3
<1>7. CASE Ack
  <2>1. ISR' \in SUBSET Bits /\ Cardinality(ISR') >= Cardinality(ISR) - 1
    BY <1>00, <1>7, EoiRetiresOne DEF Ack
  <2>2. Cardinality(ISR) \in Nat /\ Cardinality(ISR') \in Nat
    BY <1>00, <2>1, BitsFinite
  <2>3. pc = "ack" /\ pc' = "ack" /\ k' = k - 1
    BY <1>7 DEF Ack
  <2>4. k <= Cardinality(ISR)
    BY <2>3 DEF DueInv, AckHasTarget
  <2>5. k' <= Cardinality(ISR')
    BY <1>00, <2>1, <2>2, <2>3, <2>4
  <2>. QED
    BY <2>3, <2>5 DEF DueInv, AckHasTarget
<1>8. CASE Acked
  BY <1>5, <1>8 DEF Acked
<1>9. CASE UNCHANGED vars
  BY <1>9 DEF vars, DueInv, AckHasTarget
<1>. QED
  BY <1>1, <1>2, <1>3, <1>4, <1>6, <1>7, <1>8, <1>9 DEF Next, Kernel

\* No EOI is ever issued with nothing in service.
THEOREM AckTargets ==
  ASSUME PendingAssumption
  PROVE  Spec => []AckHasTarget
<1>1. Init => RunInv /\ DueInv
  BY InitRun DEF Init, DueInv, AckHasTarget
<1>2. RunInv /\ DueInv /\ [Next]_vars => RunInv' /\ DueInv'
  BY StepRun, StepDue
<1>3. DueInv => AckHasTarget
  BY DEF DueInv
<1>. QED
  BY <1>1, <1>2, <1>3, PTL DEF Spec

-----------------------------------------------------------------------------
\* Something in service has a highest priority.
LEMMA Highest ==
  ASSUME PendingAssumption, NEW S \in SUBSET Bits, S # {}
  PROVE  \E m \in S : \A b \in S : b <= m
<1>. DEFINE above == {b..(N - 1) : b \in S}
<1>0. N \in Nat /\ \A b \in S : b \in Nat /\ b <= N - 1
  BY DEF Bits, PendingAssumption
<1>1. above \subseteq FiniteSubsetsOf(Nat) /\ above # {}
  <2>1. ASSUME NEW b \in S PROVE b..(N - 1) \in FiniteSubsetsOf(Nat)
    <3>1. b \in Int /\ N - 1 \in Int /\ b..(N - 1) \in SUBSET Nat
      BY <1>0
    <3>2. IsFiniteSet(b..(N - 1))
      BY <3>1, FS_Interval
    <3>. QED
      BY <3>1, <3>2 DEF FiniteSubsetsOf
  <2>. QED
    BY <2>1
<1>2. PICK x \in above : \A y \in above : <<y, x>> \notin StrictSubsetOrdering(Nat)
  BY <1>1, WFMin, FS_StrictSubsetOrderingWellFounded
<1>3. PICK m \in S : x = m..(N - 1)
  BY <1>2
<1>4. ASSUME NEW b \in S, b > m PROVE FALSE
  <2>1. b..(N - 1) \subseteq x /\ b..(N - 1) # x /\ x \subseteq Nat
    BY <1>0, <1>3, <1>4
  <2>2. <<b..(N - 1), x>> \in StrictSubsetOrdering(Nat)
    BY <2>1 DEF StrictSubsetOrdering
  <2>. QED
    BY <1>2, <2>2
<1>. QED
  BY <1>0, <1>4

\* An EOI retires exactly one interrupt when there is one in service.
LEMMA EoiRetires ==
  ASSUME PendingAssumption, NEW S \in SUBSET Bits, S # {}, NEW T,
         T = {b \in S : \E s \in S : s > b}
  PROVE  Cardinality(T) = Cardinality(S) - 1
<1>1. PICK m \in S : \A b \in S : b <= m
  BY Highest
<1>2. \A b \in S : b \in Int
  BY DEF Bits, PendingAssumption
<1>3. T = S \ {m}
  BY <1>1, <1>2
<1>4. Cardinality(S \ {m}) = Cardinality(S) - 1
  BY <1>1, BitsFinite, FS_RemoveElement
<1>. QED
  BY <1>3, <1>4, Zenon

\* Interrupts pending, one that is requested and in service counted twice.
Pending == Cardinality(IRR) + Cardinality(ISR)

\* With an APIC that obeys, what is pending when round i begins, and once the
\* acknowledgements still due have been given.
Account ==
  /\ pc \in {"irr", "isr"} => i = 0 \/ Pending <= N - i + 1
  /\ pc = "ack" => Pending - k <= N - i

\* Why a round that finds anything acknowledges something: whatever is in service when
\* it begins is read, and if nothing is then nothing is requested either.
Progress ==
  /\ pc = "isr" => \A b \in IRR \cap ISR : b < k => b \in isr
  /\ pc = "irr" /\ k > 0 => ISR # {} \/ (IRR = {} /\ \A b \in irr : b >= k)
  /\ pc = "isr" => \/ \E b \in ISR : b >= k \/ b \in isr
                   \/ IRR = {} /\ ISR = {} /\ irr = {}

RoundsInv == obeys => Account /\ Progress /\ NeverGivesUp

\* The acknowledgements of the first round cover what is not requested.
LEMMA FirstRound ==
  ASSUME PendingAssumption, TypeOK, isr \subseteq ISR, IRR \cap ISR \subseteq isr
  PROVE  Pending - Cardinality(isr) <= N
<1>1. IRR \in SUBSET Bits /\ ISR \in SUBSET Bits /\ isr \in SUBSET Bits
  BY DEF TypeOK
<1>2. /\ IsFiniteSet(ISR \ isr)
      /\ Cardinality(ISR \ isr) = Cardinality(ISR) - Cardinality(ISR \cap isr)
  BY <1>1, BitsFinite, FS_Difference
<1>3. ISR \cap isr = isr /\ IRR \cap (ISR \ isr) = {}
  OBVIOUS
<1>4. Cardinality(ISR \ isr) = Cardinality(ISR) - Cardinality(isr)
  BY <1>2, <1>3
<1>5. Cardinality(IRR \cup (ISR \ isr))
        = Cardinality(IRR) + Cardinality(ISR \ isr) - Cardinality(IRR \cap (ISR \ isr))
  BY <1>1, <1>2, BitsFinite, FS_Union
<1>6. Cardinality(IRR \cap (ISR \ isr)) = 0
  BY <1>3, FS_EmptySet
<1>7. Cardinality(IRR \cup (ISR \ isr)) \in 0..N
  <2>1. IRR \cup (ISR \ isr) \in SUBSET Bits
    BY <1>1
  <2>. QED
    BY <2>1, BitsFinite
<1>8. Cardinality(IRR) \in 0..N /\ Cardinality(ISR) \in 0..N /\ Cardinality(isr) \in 0..N
  BY <1>1, BitsFinite
<1>. QED
  BY <1>4, <1>5, <1>6, <1>7, <1>8 DEF Pending, PendingAssumption

\* Every step keeps the account of an APIC that obeys.
LEMMA StepRounds ==
  ASSUME PendingAssumption, RunInv, DueInv, RoundsInv, [Next]_vars
  PROVE  RoundsInv'
<1>0. /\ IRR \in SUBSET Bits /\ ISR \in SUBSET Bits /\ irr \in SUBSET Bits
      /\ isr \in SUBSET Bits /\ k \in 0..N /\ i \in 0..MaxLoops /\ N \in Nat /\ N > 0
      /\ MaxLoops \in Nat
  BY DEF RunInv, TypeOK, PendingAssumption
<1>c. /\ IsFiniteSet(IRR) /\ IsFiniteSet(ISR) /\ IsFiniteSet(isr)
      /\ Cardinality(IRR) \in 0..N /\ Cardinality(ISR) \in 0..N /\ Cardinality(isr) \in 0..N
  BY <1>0, BitsFinite
<1>. SUFFICES ASSUME obeys', obeys, Account, Progress, NeverGivesUp
              PROVE  Account' /\ Progress' /\ NeverGivesUp'
  BY DEF RoundsInv, Next, vars
<1>1. ASSUME NEW b \in Bits, Promote(b)
      PROVE  Account' /\ Progress' /\ NeverGivesUp'
  <2>1. /\ IRR' = IRR \ {b} /\ ISR' = ISR \cup {b} /\ b \in IRR /\ b \notin ISR
        /\ UNCHANGED <<irr, isr, k, i, pc>>
    BY <1>0, <1>1 DEF Promote, Promotable, Bits
  <2>2. Cardinality(IRR') = Cardinality(IRR) - 1 /\ Cardinality(ISR') = Cardinality(ISR) + 1
    BY <1>c, <2>1, FS_AddElement, FS_RemoveElement
  <2>3. Pending' = Pending
    BY <1>c, <2>2 DEF Pending
  <2>4. Account' /\ NeverGivesUp'
    BY <2>1, <2>3 DEF Account, NeverGivesUp
  <2>5. Progress'
    BY <2>1 DEF Progress
  <2>. QED
    BY <2>4, <2>5
<1>2. CASE ReadIRR
  <2>1. /\ pc = "irr" /\ pc' = "irr" /\ k' = k + 1 /\ UNCHANGED <<IRR, ISR, isr, i>>
        /\ irr' = IF k \in IRR THEN irr \cup {k} ELSE irr \ {k}
    BY <1>2 DEF ReadIRR
  <2>2. Account' /\ NeverGivesUp'
    BY <2>1 DEF Account, NeverGivesUp, Pending
  <2>3. ISR # {} \/ (IRR = {} /\ \A b \in irr : b >= k)
    <3>1. CASE k = 0
      <4>1. ASSUME ISR = {} PROVE IRR = {}
        BY <1>0, <1>2, <3>1, <4>1 DEF ReadIRR, Promotable
      <4>2. \A b \in irr : b >= k
        BY <1>0, <3>1 DEF Bits
      <4>. QED
        BY <4>1, <4>2
    <3>2. CASE k > 0
      BY <2>1, <3>2 DEF Progress
    <3>. QED
      BY <1>0, <3>1, <3>2
  <2>4. Progress'
    <3>1. ISR' # {} \/ (IRR' = {} /\ \A b \in irr' : b >= k')
      BY <1>0, <2>1, <2>3 DEF Bits
    <3>. QED
      BY <2>1, <3>1 DEF Progress
  <2>. QED
    BY <2>2, <2>4
<1>3. CASE IRRDone
  <2>1. /\ pc = "irr" /\ k = N /\ pc' = "isr" /\ k' = 0
        /\ UNCHANGED <<IRR, ISR, irr, isr, i>>
    BY <1>3 DEF IRRDone
  <2>2. Account' /\ NeverGivesUp'
    BY <2>1 DEF Account, NeverGivesUp, Pending
  <2>3. ISR # {} \/ (IRR = {} /\ irr = {})
    BY <1>0, <2>1 DEF Progress, Bits
  <2>4. \A b \in Bits : b >= 0 /\ ~(b < 0)
    BY DEF Bits
  <2>5. (\E b \in ISR' : b >= k') \/ (IRR' = {} /\ ISR' = {} /\ irr' = {})
    BY <1>0, <2>1, <2>3, <2>4
  <2>6. \A b \in IRR' \cap ISR' : ~(b < k')
    BY <1>0, <2>1, <2>4
  <2>7. Progress'
    BY <2>1, <2>5, <2>6 DEF Progress
  <2>. QED
    BY <2>2, <2>7
<1>4. CASE ReadISR
  <2>1. /\ pc = "isr" /\ pc' = "isr" /\ k' = k + 1 /\ UNCHANGED <<IRR, ISR, irr, i>>
        /\ isr' = IF k \in ISR THEN isr \cup {k} ELSE isr \ {k}
    BY <1>4 DEF ReadISR
  <2>2. Account' /\ NeverGivesUp'
    BY <2>1 DEF Account, NeverGivesUp, Pending
  <2>3. ASSUME NEW b \in IRR \cap ISR, b < k' PROVE b \in isr'
    <3>1. b = k \/ b < k
      BY <1>0, <2>1, <2>3 DEF Bits
    <3>. QED
      BY <2>1, <2>3, <3>1 DEF Progress
  <2>4. ASSUME NEW b \in ISR, b >= k \/ b \in isr PROVE b >= k' \/ b \in isr'
    <3>1. b = k \/ b >= k' \/ (b # k /\ b \in isr)
      BY <1>0, <2>1, <2>4 DEF Bits
    <3>. QED
      BY <2>1, <2>4, <3>1
  <2>5. Progress'
    BY <2>1, <2>3, <2>4 DEF Progress
  <2>. QED
    BY <2>2, <2>5
<1>5. CASE Decide
  <2>0. pc = "isr" /\ k = N /\ UNCHANGED <<IRR, ISR, irr, isr>>
    BY <1>5 DEF Decide
  <2>1. CASE isr # {}
    <3>1. pc' = "ack" /\ k' = Cardinality(isr) /\ i' = i
      BY <1>5, <2>1 DEF Decide
    <3>2. Cardinality(isr) # 0
      BY <1>c, <2>1, FS_EmptySet
    <3>3. CASE i = 0
      <4>1. isr \subseteq ISR /\ IRR \cap ISR \subseteq isr
        BY <1>0, <2>0 DEF DueInv, Progress, Bits
      <4>2. Pending - Cardinality(isr) <= N
        BY <4>1, FirstRound DEF RunInv
      <4>. QED
        BY <1>0, <2>0, <3>1, <3>3, <4>2 DEF Account, Progress, NeverGivesUp, Pending
    <3>4. CASE i # 0
      <4>1. Pending <= N - i + 1
        BY <2>0, <3>4 DEF Account
      <4>2. Pending - Cardinality(isr) <= N - i
        BY <1>0, <1>c, <3>2, <4>1 DEF Pending
      <4>. QED
        BY <2>0, <3>1, <4>2 DEF Account, Progress, NeverGivesUp, Pending
    <3>. QED
      BY <3>3, <3>4
  <2>2. CASE isr = {}
    <3>1. irr = {}
      BY <1>0, <2>0, <2>2 DEF Progress, Bits
    <3>2. pc' = "clear"
      BY <1>5, <2>2, <3>1 DEF Decide
    <3>. QED
      BY <3>2 DEF Account, Progress, NeverGivesUp
  <2>. QED
    BY <2>1, <2>2
<1>6. CASE Ack
  <2>1. /\ pc = "ack" /\ pc' = "ack" /\ k > 0 /\ k' = k - 1 /\ i' = i /\ IRR' = IRR
        /\ ISR' = {b \in ISR : \E s \in ISR : s > b}
    BY <1>6 DEF Ack
  <2>2. ISR # {}
    BY <1>0, <1>c, <2>1, FS_EmptySet DEF DueInv, AckHasTarget
  <2>3. Cardinality(ISR') = Cardinality(ISR) - 1
    BY <1>0, <2>1, <2>2, EoiRetires
  <2>4. Pending' - k' = Pending - k
    BY <1>0, <1>c, <2>1, <2>3 DEF Pending
  <2>5. Account'
    BY <2>1, <2>4 DEF Account
  <2>. QED
    BY <2>1, <2>5 DEF Progress, NeverGivesUp
<1>7. CASE Acked
  <2>1. /\ pc = "ack" /\ k = 0 /\ i' = i + 1 /\ k' = 0 /\ UNCHANGED <<IRR, ISR, irr, isr>>
        /\ pc' = IF i + 1 < MaxLoops THEN "irr" ELSE "warn"
    BY <1>7 DEF Acked, NextRound
  <2>2. Pending <= N - i /\ Pending' = Pending
    BY <1>0, <1>c, <2>1 DEF Account, Pending
  <2>3. Pending >= 0 /\ Pending \in Int
    BY <1>c DEF Pending
  <2>4. i + 1 <= N + 1 /\ Pending' <= N - i' + 1
    BY <1>0, <2>1, <2>2, <2>3
  <2>5. Account'
    BY <2>1, <2>4 DEF Account
  <2>6. NeverGivesUp'
    BY <1>0, <2>1, <2>4 DEF NeverGivesUp
  <2>. QED
    BY <2>1, <2>5, <2>6 DEF Progress
<1>8. CASE UNCHANGED vars
  BY <1>8 DEF vars, Account, Progress, NeverGivesUp, Pending
<1>. QED
  BY <1>1, <1>2, <1>3, <1>4, <1>5, <1>6, <1>7, <1>8 DEF Next, Kernel

\* With an APIC that obeys the loop never reaches its limit, if that exceeds the
\* number of vectors by two: 512 for 256 vectors is more than enough.
THEOREM Terminates ==
  ASSUME PendingAssumption
  PROVE  Spec => []NeverGivesUp
<1>1. Init => RunInv /\ DueInv /\ RoundsInv
  BY InitRun DEF Init, DueInv, AckHasTarget, RoundsInv, Account, Progress, NeverGivesUp
<1>2. RunInv /\ DueInv /\ RoundsInv /\ [Next]_vars => RunInv' /\ DueInv' /\ RoundsInv'
  BY StepRun, StepDue, StepRounds
<1>3. RoundsInv => NeverGivesUp
  BY DEF RoundsInv, NeverGivesUp
<1>. QED
  BY <1>1, <1>2, <1>3, PTL DEF Spec

-----------------------------------------------------------------------------
Stale == IRR \cup ISR # {}
Outcome == IF pc \in {"clear", "warn"} THEN pc ELSE "busy"

\* A step that is not the end of the loop leaves the interrupts, makes them vanish
\* while the loop is busy, or moves one to another register.
LEMMA StepPromise ==
  ASSUME PendingAssumption, RunInv, SeenInv, SeenInv', [Next]_vars
  PROVE  \/ Outcome = "busy" /\ Stale /\ ~Stale' /\ Outcome' = "busy"
         \/ Outcome = "busy" /\ ~Stale /\ ~Stale' /\ Outcome' = "clear"
         \/ Outcome = "busy" /\ (Stale' <=> Stale) /\ Outcome' = "warn"
         \/ (Stale' <=> Stale) /\ Outcome' = Outcome
<1>0. TypeOK
  BY DEF RunInv
<1>1. ASSUME NEW b \in Bits, Promote(b)
      PROVE  (Stale' <=> Stale) /\ Outcome' = Outcome
  BY <1>1 DEF Promote, Promotable, Stale, Outcome
<1>2. CASE ReadIRR \/ IRRDone \/ ReadISR
  BY <1>2 DEF ReadIRR, IRRDone, ReadISR, Stale, Outcome
<1>3. ASSUME NextRound, pc \in {"isr", "ack"}, UNCHANGED <<IRR, ISR>>
      PROVE  /\ Outcome = "busy" /\ (Stale' <=> Stale)
             /\ Outcome' \in {"warn", "busy"}
  BY <1>3 DEF NextRound, Stale, Outcome
<1>4. CASE Decide
  <2>1. CASE isr # {}
    BY <1>4, <2>1 DEF Decide, Stale, Outcome
  <2>2. CASE isr = {} /\ irr # {}
    BY <1>3, <1>4, <2>2 DEF Decide
  <2>3. CASE isr = {} /\ irr = {}
    <3>1. pc = "isr" /\ pc' = "clear" /\ UNCHANGED <<IRR, ISR>>
      BY <1>4, <2>3 DEF Decide
    <3>2. IRR' = {} /\ ISR' = {}
      BY <3>1 DEF SeenInv, NothingMissed
    <3>. QED
      BY <3>1, <3>2 DEF Stale, Outcome
  <2>. QED
    BY <2>1, <2>2, <2>3
<1>5. CASE Ack
  <2>1. pc = "ack" /\ pc' = "ack" /\ IRR' = IRR /\ ISR' \subseteq ISR
    BY <1>5 DEF Ack
  <2>. QED
    BY <2>1 DEF Stale, Outcome
<1>6. CASE Acked
  BY <1>3, <1>6 DEF Acked
<1>7. CASE UNCHANGED vars
  BY <1>7 DEF vars, Stale, Outcome
<1>. QED
  BY <1>1, <1>2, <1>3, <1>4, <1>5, <1>6, <1>7 DEF Next, Kernel

\* The loop implements what its caller relies on, for any number of vectors and
\* rounds: interrupts vanish for good, and a return without warning means that
\* none is left.
THEOREM Implementation ==
  ASSUME PendingAssumption
  PROVE  Spec => Promise!Safety
<1>1. Init => RunInv /\ SeenInv
  BY InitRun DEF Init, SeenInv, NothingMissed, Bits
<1>2. RunInv /\ SeenInv /\ [Next]_vars => RunInv' /\ SeenInv'
  BY StepRun, StepSeen
<1>3. Init => Promise!Init
  BY DEF Init, Promise!Init
<1>4. RunInv /\ SeenInv /\ SeenInv' /\ [Next]_vars => [Promise!Next]_(Promise!clearing)
  BY StepPromise, Zenon
     DEF Stale, Outcome, Promise!Next, Promise!Vanish, Promise!ReturnClear,
         Promise!ReturnWarned, Promise!clearing
<1>. QED
  BY <1>1, <1>2, <1>3, <1>4, PTL DEF Spec, Promise!Safety
=============================================================================
