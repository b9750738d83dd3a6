---------------------------- MODULE ToolingProofs ----------------------------
(***************************************************************************)
(* The two programs of the demonstration outside the APIC code: the patch   *)
(* modify-mem-dump applies to a dump, for page tables of any radix and with *)
(* any contents, and the zzzloop timer, on any number of processors.        *)
(***************************************************************************)
EXTENDS MemDump, ZzzTimer, FiniteSetTheorems, TLAPS

-----------------------------------------------------------------------------
(* modify-mem-dump patches the dump exactly where the processor will look.  *)

\* The four entries on the way of va, as long as the processor takes that way.
OnTheWay ==
  Mapped4K(orig) =>
    /\ pc = "pgd" => at = HwPgd
    /\ pc = "pud" => at = HwPud(orig)
    /\ pc = "pmd" => at = HwPmd(orig)
    /\ pc = "pte" => at = HwPte(orig)

\* What the tool has changed so far.
Changed ==
  /\ pc \in {"open", "exit", "pgd", "pud", "pmd", "pte"} => physmem = orig /\ rc = 0
  /\ pc = "tss" => \/ rc < 0 /\ physmem = orig
                   \/ rc = 0 /\ physmem = [orig EXCEPT ![at].nx = FALSE]
  /\ pc = "done" =>
       \/ rc < 0 /\ physmem = TssPatched(orig)
       \/ rc = 0 /\ physmem = TssPatched([orig EXCEPT ![at].nx = FALSE])
  /\ pc \in {"tss", "done"} /\ Mapped4K(orig) => rc = 0 /\ at = HwPte(orig)

IInv == TypeOK /\ OnTheWay /\ Changed

-----------------------------------------------------------------------------
\* A word of a frame lies in the dump.
LEMMA WordInDump ==
  ASSUME NEW frame \in Frames, NEW index \in 0..(Entries - 1)
  PROVE  WordAt(frame, index) \in Words
<1>1. Entries \in Nat \ {0} /\ NumFrames \in Nat \ {0}
  BY MemDumpAssumption
<1>2. frame \in 0..(NumFrames - 1)
  BY DEF Frames
<1>3. /\ frame * Entries >= 0 /\ frame * Entries \in Int
      /\ NumFrames * Entries \in Int
  BY <1>1, <1>2
<1>4. (frame + 1) * Entries <= NumFrames * Entries
  BY <1>1, <1>2
<1>5. (frame + 1) * Entries = frame * Entries + Entries
  BY <1>1, <1>2
<1> QED BY <1>1, <1>3, <1>4, <1>5 DEF WordAt, Words

\* The mask of a huge page's frame number keeps it in the dump.
LEMMA MaskedFrame ==
  ASSUME NEW d \in Nat \ {0}, NEW x \in Nat
  PROVE  x % d \in 0..(d - 1) /\ x - (x % d) \in 0..x
<1>1. x % d \in 0..(d - 1)
  OBVIOUS
<1>2. x \div d \in Nat
  OBVIOUS
<1>3. x = d * (x \div d) + (x % d)
  OBVIOUS
<1>4. d * (x \div d) \in Nat
  BY <1>2
<1> QED BY <1>1, <1>3, <1>4

\* Each of the four indices of an address is an index of a table.
LEMMA Indices ==
  ASSUME NEW a \in Nat
  PROVE  /\ pte_index(a) \in 0..(Entries - 1) /\ pmd_index(a) \in 0..(Entries - 1)
         /\ pud_index(a) \in 0..(Entries - 1) /\ pgd_index(a) \in 0..(Entries - 1)
<1> DEFINE e2 == Entries * Entries
           e3 == Entries * Entries * Entries
<1>1. Entries \in Nat \ {0}
  BY MemDumpAssumption
<1>2. e2 \in Nat \ {0}
  BY <1>1
<1>3. e3 \in Nat \ {0}
  BY <1>1, <1>2
<1> HIDE DEF e2, e3
<1>4. a \div Entries \in Nat /\ a \div e2 \in Nat /\ a \div e3 \in Nat
  BY <1>1, <1>2, <1>3
<1>5. /\ a % Entries \in 0..(Entries - 1)
      /\ (a \div Entries) % Entries \in 0..(Entries - 1)
      /\ (a \div e2) % Entries \in 0..(Entries - 1)
      /\ (a \div e3) % Entries \in 0..(Entries - 1)
  BY <1>1, <1>4, MaskedFrame
<1> QED BY <1>5 DEF e2, e3, pte_index, pmd_index, pud_index, pgd_index

\* The frame an entry points to, masked for its level, is a frame of the dump.
LEMMA Pages ==
  ASSUME NEW w \in Word
  PROVE  /\ pgd_page(w) \in Frames /\ pud_page(w) \in Frames
         /\ pmd_page(w) \in Frames
<1> DEFINE e2 == Entries * Entries
<1>1. Entries \in Nat \ {0} /\ NumFrames \in Nat \ {0}
  BY MemDumpAssumption
<1>2. e2 \in Nat \ {0}
  BY <1>1
<1> HIDE DEF e2
<1>3. w.frame \in 0..(NumFrames - 1)
  BY DEF Word, Frames
<1>4. ASSUME NEW d \in Nat \ {0} PROVE w.frame - (w.frame % d) \in 0..w.frame
  <2>1. w.frame \in Nat
    BY <1>1, <1>3
  <2> HIDE <1>1, <1>2, <1>3
  <2> QED BY <2>1, MaskedFrame
<1>5. /\ w.frame - (w.frame % e2) \in 0..(NumFrames - 1)
      /\ w.frame - (w.frame % Entries) \in 0..(NumFrames - 1)
  BY <1>1, <1>2, <1>3, <1>4
<1> QED BY <1>3, <1>5 DEF e2, Frames, pgd_page, pud_page, pmd_page

-----------------------------------------------------------------------------
\* Before the tool runs nothing is changed.
LEMMA IInvInit == Init => IInv
<1> SUFFICES ASSUME Init PROVE IInv
  OBVIOUS
<1>1. 0 \in Frames /\ 0 \in Words
  <2>1. Entries \in Nat \ {0} /\ NumFrames \in Nat \ {0}
    BY MemDumpAssumption
  <2>2. 0 \in Frames
    BY <2>1 DEF Frames
  <2>3. 0 \in 0..(Entries - 1) /\ WordAt(0, 0) = 0
    BY <2>1 DEF WordAt
  <2> QED BY <2>2, <2>3, WordInDump
<1>2. Data \in Word
  BY <1>1 DEF Data, Word
<1>3. physmem \in [Words -> Word]
  <2>1. physmem \in Dumps(va)
    BY DEF Init
  <2>2. TableWords \subseteq Word
    BY MemDumpAssumption
  <2>3. PICK e4 \in TableWords, e3 \in TableWords, e2 \in TableWords, e1 \in TableWords :
          physmem = [w \in Words |->
            CASE w = WordAt(Cr3, pgd_index(va)) -> e4
              [] w = WordAt(e4.frame, pud_index(va)) -> e3
              [] w = WordAt(e3.frame, pmd_index(va)) -> e2
              [] w = WordAt(e2.frame, pte_index(va)) -> e1
              [] OTHER -> Data]
    BY <2>1 DEF Dumps
  <2> QED BY <1>2, <2>2, <2>3
<1>4. TypeOK
  BY <1>1, <1>3 DEF Init, TypeOK
<1> QED BY <1>4 DEF IInv, Init, OnTheWay, Changed

\* No step of the tool leaves the dump.
LEMMA TypeNext == IInv /\ [Next]_vars => TypeOK'
<1> SUFFICES ASSUME IInv, [Next]_vars PROVE TypeOK'
  OBVIOUS
<1> USE DEF IInv, TypeOK, Return, Advance
<1>1. Cr3 \in Frames /\ va \in Nat
  BY MemDumpAssumption
<1>2. physmem[at] \in Word
  OBVIOUS
<1>3. /\ pgd_page(physmem[at]) \in Frames /\ pud_page(physmem[at]) \in Frames
      /\ pmd_page(physmem[at]) \in Frames
  BY <1>2, Pages
<1>4. /\ WordAt(Cr3, pgd_index(va)) \in Words
      /\ WordAt(pgd_page(physmem[at]), pud_index(va)) \in Words
      /\ WordAt(pud_page(physmem[at]), pmd_index(va)) \in Words
      /\ WordAt(pmd_page(physmem[at]), pte_index(va)) \in Words
  BY <1>1, <1>3, Indices, WordInDump
<1>5. [physmem[at] EXCEPT !.nx = FALSE] \in Word
  BY <1>2 DEF Word
<1>6. CASE OpenDump BY <1>4, <1>6 DEF OpenDump
<1>7. CASE WalkPgd BY <1>4, <1>7 DEF WalkPgd
<1>8. CASE WalkPud BY <1>4, <1>8 DEF WalkPud
<1>9. CASE WalkPmd BY <1>4, <1>9 DEF WalkPmd
<1>10. CASE ClearNx BY <1>5, <1>10 DEF ClearNx
<1>11. CASE PatchTss
  <2>1. physmem[TssWord] \in Word
    BY MemDumpAssumption
  <2>2. [physmem[TssWord] EXCEPT !.b41 = FALSE] \in Word
    BY <2>1 DEF Word
  <2> QED BY <1>11, <2>2 DEF PatchTss
<1>12. CASE UNCHANGED vars BY <1>12 DEF vars
<1> QED BY <1>6, <1>7, <1>8, <1>9, <1>10, <1>11, <1>12 DEF Next

\* The code and the MMU take the same step, at every level.
LEMMA SameWay == IInv /\ [Next]_vars => OnTheWay' /\ Changed'
<1> SUFFICES ASSUME IInv, [Next]_vars PROVE OnTheWay' /\ Changed'
  OBVIOUS
<1> USE DEF IInv, OnTheWay, Changed, Return, Advance
<1>m. UNCHANGED <<va, orig>> => (Mapped4K(orig))' = Mapped4K(orig)
                                /\ HwPgd' = HwPgd /\ (HwPud(orig))' = HwPud(orig)
                                /\ (HwPmd(orig))' = HwPmd(orig)
                                /\ (HwPte(orig))' = HwPte(orig)
  BY DEF Mapped4K, HwPgd, HwPud, HwPmd, HwPte
<1>z. ASSUME NEW w, w.p PROVE w # Zero
  BY <1>z DEF Zero
<1>1. CASE OpenDump BY <1>1, <1>m DEF OpenDump, HwPgd
<1>2. CASE WalkPgd
  <2>1. Mapped4K(orig) => physmem[at] # Zero
                          /\ WordAt(pgd_page(physmem[at]), pud_index(va)) = HwPud(orig)
    BY <1>2, <1>z DEF WalkPgd, Mapped4K, IsTable, pgd_page, HwPud
  <2> QED BY <1>2, <1>m, <2>1 DEF WalkPgd
<1>3. CASE WalkPud
  <2>1. Mapped4K(orig) => physmem[at] # Zero
                          /\ WordAt(pud_page(physmem[at]), pmd_index(va)) = HwPmd(orig)
    BY <1>3, <1>z DEF WalkPud, Mapped4K, IsTable, pud_page, HwPmd
  <2> QED BY <1>3, <1>m, <2>1 DEF WalkPud
<1>4. CASE WalkPmd
  <2>1. Mapped4K(orig) => physmem[at] # Zero
                          /\ WordAt(pmd_page(physmem[at]), pte_index(va)) = HwPte(orig)
    BY <1>4, <1>z DEF WalkPmd, Mapped4K, IsTable, pmd_page, HwPte
  <2> QED BY <1>4, <1>m, <2>1 DEF WalkPmd
<1>5. CASE ClearNx BY <1>5, <1>m DEF ClearNx
<1>6. CASE PatchTss
  <2>1. pc' = "done" /\ rc' = rc /\ at' = at /\ physmem' = TssPatched(physmem)
        /\ pc = "tss" /\ UNCHANGED <<va, orig>>
    BY <1>6 DEF PatchTss, TssPatched
  <2>2. TssPatched(orig)' = TssPatched(orig)
        /\ TssPatched([orig EXCEPT ![at].nx = FALSE])'
             = TssPatched([orig EXCEPT ![at].nx = FALSE])
    BY <2>1 DEF TssPatched
  <2> QED BY <1>m, <2>1, <2>2
<1>7. CASE UNCHANGED vars
  BY <1>7, <1>m DEF vars, TssPatched
<1> QED BY <1>1, <1>2, <1>3, <1>4, <1>5, <1>6, <1>7 DEF Next

\* The tool's invariant is inductive.
LEMMA IInvNext == IInv /\ [Next]_vars => IInv'
BY TypeNext, SameWay DEF IInv

\* The walk stays inside the dump: every word modify-mem-dump.c reads or writes
\* is one of the mapped file, for page-table entries that point into it.
THEOREM TypeCorrect == Spec => []TypeOK
<1>1. IInv => TypeOK
  BY DEF IInv
<1> QED BY <1>1, IInvInit, IInvNext, PTL DEF Spec

\* ClearPageNXFlag changes the PTE the processor uses and nothing else but the
\* TSS word (memdump/modify-mem-dump.c).
THEOREM PatchedExactly == Spec => []PatchExact
<1>1. IInv => PatchExact
  BY DEF IInv, Changed, PatchExact
<1> QED BY <1>1, IInvInit, IInvNext, PTL DEF Spec

\* An error of ClearPageNXFlag leaves the tables alone, and is no accident.
THEOREM FailsCleanly == Spec => []FailureIsClean
<1>1. IInv => FailureIsClean
  BY DEF IInv, TypeOK, Changed, FailureIsClean
<1> QED BY <1>1, IInvInit, IInvNext, PTL DEF Spec

\* What the tool is for: when it has run, the processor can execute a page of 4K whose
\* upper tables do not forbid it.  A huge page is the exception (NxCleared).
THEOREM SmallPageExecutable ==
  Spec => [](pc = "done" /\ Mapped4K(orig) /\ MappedLeafNx(orig) => Executable(physmem))
<1>1. ASSUME IInv, pc = "done", Mapped4K(orig), MappedLeafNx(orig)
      PROVE  Executable(physmem)
  <2> DEFINE cleared == [orig EXCEPT ![HwPte(orig)].nx = FALSE]
  <2>1. physmem = TssPatched(cleared) /\ HwPte(orig) \in Words
    BY <1>1 DEF IInv, TypeOK, Changed
  <2>2. \A w \in Words : /\ physmem[w].p = orig[w].p /\ physmem[w].pse = orig[w].pse
                         /\ physmem[w].frame = orig[w].frame
                         /\ physmem[w].nx = IF w = HwPte(orig) THEN FALSE ELSE orig[w].nx
    BY <1>1, <2>1 DEF IInv, TypeOK, TssPatched, Word
  <2>3. HwPgd \in Words
    BY <1>1, MemDumpAssumption, Indices, WordInDump DEF IInv, TypeOK, HwPgd
  <2>4. HwPud(physmem) = HwPud(orig) /\ HwPud(orig) \in Words
    <3>1. HwPud(physmem) = HwPud(orig)
      BY <2>2, <2>3 DEF HwPud
    <3>2. orig[HwPgd].frame \in Frames /\ va \in Nat
      BY <1>1, <2>3, MemDumpAssumption DEF IInv, TypeOK, Word
    <3> QED BY <3>1, <3>2, Indices, WordInDump DEF HwPud
  <2>5. HwPmd(physmem) = HwPmd(orig) /\ HwPmd(orig) \in Words
    <3>1. HwPmd(physmem) = HwPmd(orig)
      BY <2>2, <2>4 DEF HwPmd
    <3>2. orig[HwPud(orig)].frame \in Frames /\ va \in Nat
      BY <1>1, <2>4, MemDumpAssumption DEF IInv, TypeOK, Word
    <3> QED BY <3>1, <3>2, Indices, WordInDump DEF HwPmd
  <2>6. HwPte(physmem) = HwPte(orig)
    BY <2>2, <2>5 DEF HwPte
  <2>7. ~orig[HwPud(orig)].pse /\ ~orig[HwPmd(orig)].pse
    BY <1>1 DEF Mapped4K, IsTable
  <2>8. MappedLeafNx(physmem)
    BY <1>1, <2>1, <2>2, <2>3, <2>4, <2>5, <2>6, <2>7 DEF MappedLeafNx, IsTable
  <2>9. ~physmem[HwPte(physmem)].nx /\ ~physmem[HwPud(physmem)].pse /\ ~physmem[HwPmd(physmem)].pse
    BY <2>1, <2>2, <2>4, <2>5, <2>6, <2>7
  <2> QED BY <2>8, <2>9 DEF Executable
<1> QED BY <1>1, IInvInit, IInvNext, PTL DEF Spec

-----------------------------------------------------------------------------
(* The plain increment of zzzloop_counter loses no tick.                    *)

\* The handler runs on the CPU of the timer's base.
OnBase == \A c \in Cpus : hpc[c] # "out" => base = c

\* A handler that is still to count began below the bound; one that is between
\* its read and its write is one ahead of the counter.
Counting ==
  \A c \in Cpus :
    /\ hpc[c] \in {"rearm", "read"} => runs < MaxTicks /\ zzzloop_counter = runs
    /\ hpc[c] = "write" => seen[c] = zzzloop_counter /\ runs = zzzloop_counter + 1

Between == (\A c \in Cpus : hpc[c] # "write") => zzzloop_counter = runs

ZzzInv == ZzzTypeOK /\ OnBase /\ Counting /\ Between

-----------------------------------------------------------------------------
\* A timer that was never started.
LEMMA ZzzInvInit == ZzzInit => ZzzInv
<1> SUFFICES ASSUME ZzzInit PROVE ZzzInv
  OBVIOUS
<1>1. ZzzTypeOK
  <2>1. /\ hpc \in [Cpus -> {"out", "rearm", "read", "write"}]
        /\ rpc \in [Cpus -> {"idle", "start", "del", "deleted"}]
    BY DEF ZzzInit
  <2>2. seen \in [Cpus -> 0..MaxTicks] /\ zzzloop_counter \in 0..MaxTicks
        /\ runs \in 0..MaxTicks
    BY ZzzTimerAssumption DEF ZzzInit
  <2>3. pending \in BOOLEAN /\ wanted \in BOOLEAN /\ base \in Cpus
    BY DEF ZzzInit
  <2> QED BY <2>1, <2>2, <2>3 DEF ZzzTypeOK
<1>2. OnBase /\ Counting /\ Between
  BY DEF ZzzInit, OnBase, Counting, Between
<1> QED BY <1>1, <1>2 DEF ZzzInv

\* The handler, from its start on the timer's base to its last write.
LEMMA HandlerSteps ==
  ASSUME ZzzInv, NEW c \in Cpus, Expire(c) \/ Handler(c)
  PROVE  ZzzInv'
<1> USE ZzzTimerAssumption DEF ZzzInv
\* Nobody else is inside the handler.
<1>1. base = c /\ \A d \in Cpus \ {c} : hpc[d] = "out" /\ hpc'[d] = "out"
  BY DEF Expire, Handler, HandlerRearms, HandlerReads, HandlerWrites, OnBase,
         ZzzTypeOK
<1>2. CASE Expire(c)
  <2>1. hpc'[c] = "rearm" /\ runs < MaxTicks /\ zzzloop_counter = runs
    BY <1>1, <1>2 DEF Expire, Between, ZzzTypeOK
  <2>2. ZzzTypeOK' BY <1>2 DEF Expire, ZzzTypeOK
  <2>3. OnBase' BY <1>1, <1>2 DEF Expire, OnBase
  <2>4. Counting' /\ Between' BY <1>1, <1>2, <2>1 DEF Expire, Counting, Between
  <2> QED BY <2>2, <2>3, <2>4
<1>3. CASE HandlerRearms(c)
  <2>1. base' = base /\ hpc'[c] = "read" /\ pending' = TRUE
    BY <1>1, <1>3 DEF HandlerRearms, mod_timer, ZzzTypeOK
  <2>2. ZzzTypeOK' BY <1>3, <2>1 DEF HandlerRearms, ZzzTypeOK
  <2>3. OnBase' BY <1>1, <1>3, <2>1 DEF HandlerRearms, OnBase
  <2>4. Counting' /\ Between'
    BY <1>1, <1>3, <2>1 DEF HandlerRearms, Counting, Between
  <2> QED BY <2>2, <2>3, <2>4
<1>4. CASE HandlerReads(c)
  <2>1. hpc'[c] = "write" /\ seen'[c] = zzzloop_counter
    BY <1>4 DEF HandlerReads, ZzzTypeOK
  <2>2. ZzzTypeOK' BY <1>4 DEF HandlerReads, ZzzTypeOK, Counting
  <2>3. OnBase' BY <1>1, <1>4 DEF HandlerReads, OnBase
  <2>4. Counting' BY <1>1, <1>4, <2>1 DEF HandlerReads, Counting, ZzzTypeOK
  <2>5. Between' BY <2>1 DEF Between
  <2> QED BY <2>2, <2>3, <2>4, <2>5
<1>5. CASE HandlerWrites(c)
  <2>1. hpc'[c] = "out" /\ zzzloop_counter' = runs
    BY <1>5 DEF HandlerWrites, ZzzTypeOK, Counting
  <2>2. ZzzTypeOK' BY <1>5, <2>1 DEF HandlerWrites, ZzzTypeOK
  <2>3. OnBase' BY <1>1, <1>5, <2>1 DEF HandlerWrites, OnBase
  <2>4. Counting' /\ Between'
    BY <1>1, <1>5, <2>1 DEF HandlerWrites, Counting, Between
  <2> QED BY <2>2, <2>3, <2>4
<1> QED BY <1>2, <1>3, <1>4, <1>5 DEF Handler

\* The /proc files touch neither the handler nor the counter.
LEMMA ProcSteps ==
  ASSUME ZzzInv, NEW c \in Cpus,
         \/ OpenProc(c) \/ zzzloop_timer_start_proc_show(c)
         \/ zzzloop_timer_del_proc_show(c) \/ CloseProc(c)
  PROVE  ZzzInv'
<1> USE DEF ZzzInv, OpenProc, zzzloop_timer_start_proc_show,
            zzzloop_timer_del_proc_show, CloseProc
<1>1. UNCHANGED <<hpc, seen, zzzloop_counter, runs>>
  OBVIOUS
<1>2. base' = base \/ (base' = c /\ \A d \in Cpus : hpc[d] = "out")
  BY DEF mod_timer
<1>3. base' \in Cpus
  BY <1>2 DEF ZzzTypeOK
<1>4. rpc' \in [Cpus -> {"idle", "start", "del", "deleted"}]
  BY DEF ZzzTypeOK
<1>5. pending' \in BOOLEAN /\ wanted' \in BOOLEAN
  BY DEF ZzzTypeOK, mod_timer
<1>6. ZzzTypeOK'
  BY <1>1, <1>3, <1>4, <1>5 DEF ZzzTypeOK
<1>7. OnBase'
  BY <1>1, <1>2 DEF OnBase
<1>8. Counting' /\ Between'
  BY <1>1 DEF Counting, Between
<1> QED BY <1>6, <1>7, <1>8

\* The timer's invariant is inductive.
LEMMA ZzzInvNext == ZzzInv /\ [ZzzNext]_zzz_vars => ZzzInv'
<1> SUFFICES ASSUME ZzzInv, [ZzzNext]_zzz_vars PROVE ZzzInv'
  OBVIOUS
<1>1. CASE UNCHANGED zzz_vars
  BY <1>1 DEF zzz_vars, ZzzInv, ZzzTypeOK, OnBase, Counting, Between
<1>2. CASE ZzzNext
  BY <1>2, HandlerSteps, ProcSteps DEF ZzzNext
<1> QED BY <1>1, <1>2

\* The variables of the zzzloop timer keep their types, and its counter its bound.
THEOREM ZzzTypeCorrect == ZzzSpec => []ZzzTypeOK
<1>1. ZzzInv => ZzzTypeOK
  BY DEF ZzzInv
<1> QED BY <1>1, ZzzInvInit, ZzzInvNext, PTL DEF ZzzSpec

\* zzzloop_counter++ in zzzloop_timer_handler (fs/proc/zzzloop.c) loses no tick,
\* on any number of CPUs: two handlers never overlap.
THEOREM TicksCounted == ZzzSpec => []CounterExact
<1>1. ASSUME ZzzInv PROVE CounterExact
  <2>1. {c \in Cpus : hpc[c] # "out"} \subseteq {base}
    BY <1>1 DEF ZzzInv, OnBase
  <2>2. IsFiniteSet({base}) /\ Cardinality({base}) = 1
    BY FS_Singleton
  <2>3. /\ Cardinality({c \in Cpus : hpc[c] # "out"}) <= Cardinality({base})
    BY <2>1, <2>2, FS_Subset
  <2>4. Cardinality({c \in Cpus : hpc[c] # "out"}) <= 1
    BY <2>2, <2>3
  <2> QED BY <1>1, <2>4 DEF ZzzInv, Between, CounterExact
<1> QED BY <1>1, ZzzInvInit, ZzzInvNext, PTL DEF ZzzSpec
-----------------------------------------------------------------------------
\* On one processor a reader that has the answer "deleted" keeps the handler out.
Stopped == \A c \in Cpus : rpc[c] = "deleted" => ~pending /\ hpc[c] = "out" /\ ~wanted

\* With a single processor no step lets a deleted timer come back before the file is closed.
LEMMA StoppedNext ==
  ASSUME \A c, d \in Cpus : c = d, ZzzInv, Stopped, [ZzzNext]_zzz_vars
  PROVE  Stopped'
<1> USE DEF ZzzInv, ZzzTypeOK, Stopped
<1>1. CASE UNCHANGED zzz_vars
  BY <1>1 DEF zzz_vars
<1>2. ASSUME NEW c \in Cpus, Expire(c) PROVE Stopped'
  BY <1>2 DEF Expire
<1>3. ASSUME NEW c \in Cpus, Handler(c) PROVE Stopped'
  BY <1>3 DEF Handler, HandlerRearms, HandlerReads, HandlerWrites
<1>4. ASSUME NEW c \in Cpus, OpenProc(c) \/ CloseProc(c) PROVE Stopped'
  BY <1>4 DEF OpenProc, CloseProc
<1>5. ASSUME NEW c \in Cpus, zzzloop_timer_start_proc_show(c) PROVE Stopped'
  BY <1>5 DEF zzzloop_timer_start_proc_show
<1>6. ASSUME NEW c \in Cpus, zzzloop_timer_del_proc_show(c) PROVE Stopped'
  BY <1>6 DEF zzzloop_timer_del_proc_show, Process
<1> QED BY <1>1, <1>2, <1>3, <1>4, <1>5, <1>6 DEF ZzzNext

\* On the single processor of the demonstration "zzzloop_timer deleted" is true, although
\* zzzloop_timer_del_proc_show calls del_timer and not del_timer_sync.
THEOREM DeletedOnOneCpu ==
  ASSUME \A c, d \in Cpus : c = d
  PROVE  ZzzSpec => []DeletedMeansStopped
<1>1. ZzzInit => Stopped
  BY DEF ZzzInit, Stopped
<1>2. ZzzInv /\ Stopped /\ [ZzzNext]_zzz_vars => Stopped'
  BY StoppedNext
<1>3. Stopped => DeletedMeansStopped
  <2> SUFFICES ASSUME Stopped, NEW c \in Cpus, rpc[c] = "deleted", NEW d \in Cpus
               PROVE  ~pending /\ hpc[d] # "rearm"
    BY DEF DeletedMeansStopped
  <2>1. d = c
    OBVIOUS
  <2> QED BY <2>1 DEF Stopped
<1> QED BY <1>1, <1>2, <1>3, ZzzInvInit, ZzzInvNext, PTL DEF ZzzSpec
=============================================================================
