------------------------------- MODULE MemDump -------------------------------
(***************************************************************************)
(* memdump/modify-mem-dump.c: walk the guest's page tables inside the      *)
(* memory dump, clear NX in the PTE of one virtual address and the busy    *)
(* bit of the TSS descriptor in the GDT.                                   *)
(*                                                                         *)
(* The radix of the page tables is a parameter: a page has Entries words   *)
(* (512 in the code) and a virtual address is a page number of four        *)
(* digits.  A word keeps the bits the walk looks at or changes.            *)
(***************************************************************************)
EXTENDS Integers

CONSTANTS
  Entries,     \* words in a page (512)
  NumFrames,   \* page frames in the dump
  Cr3,         \* frame of the top-level table
  Vas,         \* virtual page numbers asked for
  TssWord,     \* address of the word at gdt_phys_addr + tss_offset
  TableWords   \* what the guest may have put into a page-table entry

Frames == 0..(NumFrames - 1)
Words == 0..(NumFrames * Entries - 1)
Word == [frame : Frames, p : BOOLEAN, pse : BOOLEAN, nx : BOOLEAN, b41 : BOOLEAN]
\* The word 0, and guest data that is no page-table entry.
Zero == [frame |-> 0, p |-> FALSE, pse |-> FALSE, nx |-> FALSE, b41 |-> FALSE]
Data == [frame |-> 0, p |-> TRUE, pse |-> TRUE, nx |-> TRUE, b41 |-> TRUE]

ASSUME MemDumpAssumption ==
  /\ Entries \in Nat \ {0} /\ NumFrames \in Nat \ {0}
  /\ Cr3 \in Frames /\ TssWord \in Words
  /\ Vas \subseteq 0..(Entries * Entries * Entries * Entries - 1)
  /\ TableWords \subseteq Word

VARIABLES
  pc,       \* next statement of modify_mem_dump / ClearPageNXFlag
  va,       \* the address asked for
  physmem,  \* the dump, a shared mapping of the file
  orig,     \* the dump before the program started
  at,       \* address of the entry the walk has reached
  rc        \* what ClearPageNXFlag returned

vars == <<pc, va, physmem, orig, at, rc>>

\* pgd_index ... pte_index: the digit of the page number at a level.
pte_index(a) == a % Entries
pmd_index(a) == (a \div Entries) % Entries
pud_index(a) == (a \div (Entries * Entries)) % Entries
pgd_index(a) == (a \div (Entries * Entries * Entries)) % Entries

\* The frame an entry points to: pmd_pfn_mask and pud_pfn_mask drop the low
\* digits of a huge page's frame number.
pgd_page(w) == w.frame
pud_page(w) == IF w.pse THEN w.frame - (w.frame % (Entries * Entries)) ELSE w.frame
pmd_page(w) == IF w.pse THEN w.frame - (w.frame % Entries) ELSE w.frame

WordAt(frame, index) == frame * Entries + index

-----------------------------------------------------------------------------
(* The MMU, an external reference: the walk the processor does.            *)

HwPgd == WordAt(Cr3, pgd_index(va))
HwPud(m) == WordAt(m[HwPgd].frame, pud_index(va))
HwPmd(m) == WordAt(m[HwPud(m)].frame, pmd_index(va))
HwPte(m) == WordAt(m[HwPmd(m)].frame, pte_index(va))

IsTable(w) == w.p /\ ~w.pse
\* va is mapped by a page of the smallest size
Mapped4K(m) == /\ IsTable(m[HwPgd]) /\ IsTable(m[HwPud(m)])
               /\ IsTable(m[HwPmd(m)]) /\ m[HwPte(m)].p
\* va is mapped by a page of any size, and only the leaf may forbid execution.
MappedLeafNx(m) ==
  /\ IsTable(m[HwPgd]) /\ ~m[HwPgd].nx /\ m[HwPud(m)].p
  /\ m[HwPud(m)].pse \/ (~m[HwPud(m)].nx /\ m[HwPmd(m)].p)
  /\ m[HwPud(m)].pse \/ m[HwPmd(m)].pse \/ (~m[HwPmd(m)].nx /\ m[HwPte(m)].p)
Executable(m) ==
  /\ MappedLeafNx(m)
  /\ CASE m[HwPud(m)].pse -> ~m[HwPud(m)].nx
       [] m[HwPmd(m)].pse /\ ~m[HwPud(m)].pse -> ~m[HwPmd(m)].nx
       [] OTHER -> ~m[HwPte(m)].nx

-----------------------------------------------------------------------------
\* A dump: a chain of four entries on the way of va, data everywhere else.
Dumps(a) ==
  {[w \in Words |->
      CASE w = WordAt(Cr3, pgd_index(a)) -> e4
        [] w = WordAt(e4.frame, pud_index(a)) -> e3
        [] w = WordAt(e3.frame, pmd_index(a)) -> e2
        [] w = WordAt(e2.frame, pte_index(a)) -> e1
        [] OTHER -> Data] : e4, e3, e2, e1 \in TableWords}

Init ==
  /\ pc = "open" /\ rc = 0 /\ at = 0
  /\ va \in Vas
  /\ physmem \in Dumps(va)
  /\ orig = physmem

Return(code) == rc' = code /\ pc' = "tss" /\ UNCHANGED <<va, physmem, orig, at>>
Advance(word, to) == at' = word /\ pc' = to /\ UNCHANGED <<va, physmem, orig, rc>>

\* open, fstat and mmap; a dump that cannot be opened ends the program.
OpenDump ==
  /\ pc = "open"
  /\ \/ Advance(WordAt(Cr3, pgd_index(va)), "pgd")
     \/ pc' = "exit" /\ UNCHANGED <<va, physmem, orig, at, rc>>

\* An entry is followed unless the whole word is zero.
WalkPgd ==
  /\ pc = "pgd"
  /\ IF physmem[at] = Zero THEN Return(-1)
     ELSE Advance(WordAt(pgd_page(physmem[at]), pud_index(va)), "pud")

\* Mutant: the index of the wrong level.
WalkPudWrongIndex ==
  /\ pc = "pud"
  /\ IF physmem[at] = Zero THEN Return(-2)
     ELSE Advance(WordAt(pud_page(physmem[at]), pud_index(va)), "pmd")

WalkPud ==
  /\ pc = "pud"
  /\ IF physmem[at] = Zero THEN Return(-2)
     ELSE Advance(WordAt(pud_page(physmem[at]), pmd_index(va)), "pmd")

\* Mutant: the entry is compared with zero as a signed number.
WalkPmdSigned ==
  /\ pc = "pmd"
  /\ IF physmem[at] = Zero \/ physmem[at].nx THEN Return(-3)
     ELSE Advance(WordAt(pmd_page(physmem[at]), pte_index(va)), "pte")

WalkPmd ==
  /\ pc = "pmd"
  /\ IF physmem[at] = Zero THEN Return(-3)
     ELSE Advance(WordAt(pmd_page(physmem[at]), pte_index(va)), "pte")

\* ptep is an address and never null, so -4 is not returned.
ClearNx ==
  /\ pc = "pte"
  /\ physmem' = [physmem EXCEPT ![at].nx = FALSE]
  /\ rc' = 0 /\ pc' = "tss"
  /\ UNCHANGED <<va, orig, at>>

\* rc is only printed: the TSS descriptor is patched in any case.
PatchTss ==
  /\ pc = "tss"
  /\ physmem' = [physmem EXCEPT ![TssWord].b41 = FALSE]
  /\ pc' = "done"
  /\ UNCHANGED <<va, orig, at, rc>>

Next == OpenDump \/ WalkPgd \/ WalkPud \/ WalkPmd \/ ClearNx \/ PatchTss

Spec == Init /\ [][Next]_vars

-----------------------------------------------------------------------------
TypeOK ==
  /\ pc \in {"open", "pgd", "pud", "pmd", "pte", "tss", "done", "exit"}
  /\ va \in Vas /\ physmem \in [Words -> Word] /\ orig \in [Words -> Word]
  /\ at \in Words /\ rc \in -3..0

TssPatched(m) == [m EXCEPT ![TssWord].b41 = FALSE]

\* On an address the processor maps by a 4K page, ClearPageNXFlag changes NX of
\* exactly the PTE the processor uses, and apart from the TSS word nothing else
\* in the dump: the walk of the code and the walk of the MMU agree.
PatchExact ==
  pc = "done" /\ Mapped4K(orig) =>
    /\ rc = 0
    /\ physmem = TssPatched([orig EXCEPT ![HwPte(orig)].nx = FALSE])

\* ClearPageNXFlag that returns an error has changed nothing, and it does so
\* only for an address that no 4K page maps.
FailureIsClean ==
  rc < 0 =>
    /\ physmem \in {orig, TssPatched(orig)}
    /\ ~Mapped4K(orig)

\* "--- clear NX flag": when the tool has run and ClearPageNXFlag returned 0,
\* the processor can execute a page whose tables do not forbid it.
NxCleared ==
  pc = "done" /\ rc = 0 /\ MappedLeafNx(orig) => Executable(physmem)
=============================================================================
