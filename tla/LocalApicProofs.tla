--------------------------- MODULE LocalApicProofs ---------------------------
(***************************************************************************)
(* The local APIC of any processor, after any firmware, with a crash at any *)
(* access.                                                                  *)
(***************************************************************************)
EXTENDS LocalApic, TLAPS

-----------------------------------------------------------------------------
(* Orders of accesses.                                                     *)

\* None of the accesses of X is still to come in s.
Free(s, X) == \A i \in DOMAIN s : s[i] \notin X

\* After an access of X there is none of Y in s.
Ordered(s, X, Y) ==
  \A i, j \in DOMAIN s : i < j /\ s[i] \in X => s[j] \notin Y

\* There is none of Y after the last of X, also when X has been made.
Settles(s, X, Y) == Ordered(s, X, Y) /\ (Free(s, X) => Free(s, Y))

\* A sequence whose members are outside X is free of X.
LEMMA FreeOutside ==
  ASSUME NEW A, NEW s \in Seq(A), NEW X, A \cap X = {}
  PROVE  Free(s, X)
BY DEF Free

\* A sequence that is free of X or of Y is ordered.
LEMMA FreeOrdered ==
  ASSUME NEW s, NEW X, NEW Y, Free(s, X) \/ Free(s, Y)
  PROVE  Ordered(s, X, Y)
BY DEF Free, Ordered

\* Nothing is left in the empty sequence.
LEMMA FreeEmpty == \A X, Y : Free(<<>>, X) /\ Ordered(<<>>, X, Y)
BY DEF Free, Ordered

\* What is free of a set is free of its subsets.
LEMMA FreeSubset ==
  ASSUME NEW s, NEW X, NEW Y \in SUBSET X, Free(s, X)
  PROVE  Free(s, Y)
BY DEF Free

\* Taking the first access.
LEMMA FreeTail ==
  ASSUME NEW A, NEW s \in Seq(A), s # <<>>
  PROVE  /\ Head(s) \in A /\ Tail(s) \in Seq(A)
         /\ \A X : Free(s, X) <=> Head(s) \notin X /\ Free(Tail(s), X)
<1>1. Head(s) \in A /\ Tail(s) \in Seq(A) /\ Len(s) \in Nat \ {0}
  OBVIOUS
<1>2. DOMAIN s = 1..Len(s) /\ DOMAIN Tail(s) = 1..(Len(s) - 1)
  OBVIOUS
<1>3. s[1] = Head(s) /\ \A i \in 1..(Len(s) - 1) : Tail(s)[i] = s[i + 1]
  OBVIOUS
<1>4. ASSUME NEW X, Free(s, X)
      PROVE  Head(s) \notin X /\ Free(Tail(s), X)
  BY <1>1, <1>2, <1>3, <1>4 DEF Free
<1>5. ASSUME NEW X, Head(s) \notin X, Free(Tail(s), X)
      PROVE  Free(s, X)
  <2> SUFFICES ASSUME NEW i \in 1..Len(s) PROVE s[i] \notin X
    BY <1>2 DEF Free
  <2>1. CASE i = 1
    BY <2>1, <1>3, <1>5
  <2>2. CASE i # 1
    <3>1. i - 1 \in 1..(Len(s) - 1) /\ (i - 1) + 1 = i
      BY <1>1, <2>2
    <3>2. Tail(s)[i - 1] = s[i]
      BY <3>1, <1>3
    <3> QED BY <3>1, <3>2, <1>2, <1>5 DEF Free
  <2> QED BY <2>1, <2>2
<1> QED BY <1>1, <1>4, <1>5

\* The order of a sequence, from that of its tail.
LEMMA OrderedTail ==
  ASSUME NEW A, NEW s \in Seq(A), s # <<>>
  PROVE  \A X, Y : Ordered(s, X, Y)
                     <=> Ordered(Tail(s), X, Y) /\ (Head(s) \in X => Free(Tail(s), Y))
<1>1. Head(s) \in A /\ Tail(s) \in Seq(A) /\ Len(s) \in Nat \ {0}
  OBVIOUS
<1>2. DOMAIN s = 1..Len(s) /\ DOMAIN Tail(s) = 1..(Len(s) - 1)
  OBVIOUS
<1>3. s[1] = Head(s) /\ \A i \in 1..(Len(s) - 1) : Tail(s)[i] = s[i + 1]
  OBVIOUS
<1>4. ASSUME NEW X, NEW Y, Ordered(s, X, Y)
      PROVE  Ordered(Tail(s), X, Y) /\ (Head(s) \in X => Free(Tail(s), Y))
  <2>1. ASSUME NEW i \in 1..(Len(s) - 1), NEW j \in 1..(Len(s) - 1), i < j,
               Tail(s)[i] \in X
        PROVE  Tail(s)[j] \notin Y
    <3>1. i + 1 \in 1..Len(s) /\ j + 1 \in 1..Len(s) /\ i + 1 < j + 1
      BY <1>1, <2>1
    <3> QED BY <3>1, <1>2, <1>3, <1>4, <2>1 DEF Ordered
  <2>2. ASSUME Head(s) \in X, NEW j \in 1..(Len(s) - 1)
        PROVE  Tail(s)[j] \notin Y
    <3>1. 1 \in 1..Len(s) /\ j + 1 \in 1..Len(s) /\ 1 < j + 1
      BY <1>1, <2>2
    <3> QED BY <3>1, <1>2, <1>3, <1>4, <2>2 DEF Ordered
  <2> QED BY <2>1, <2>2, <1>2 DEF Ordered, Free
<1>5. ASSUME NEW X, NEW Y, Ordered(Tail(s), X, Y), Head(s) \in X => Free(Tail(s), Y)
      PROVE  Ordered(s, X, Y)
  <2> SUFFICES ASSUME NEW i \in 1..Len(s), NEW j \in 1..Len(s), i < j, s[i] \in X
               PROVE  s[j] \notin Y
    BY <1>2 DEF Ordered
  <2>1. j - 1 \in 1..(Len(s) - 1) /\ (j - 1) + 1 = j
    BY <1>1
  <2>2. Tail(s)[j - 1] = s[j]
    BY <2>1, <1>3
  <2>3. CASE i = 1
    BY <2>1, <2>2, <2>3, <1>2, <1>3, <1>5 DEF Free
  <2>4. CASE i # 1
    <3>1. i - 1 \in 1..(Len(s) - 1) /\ (i - 1) + 1 = i /\ i - 1 < j - 1
      BY <1>1, <2>4
    <3>2. Tail(s)[i - 1] = s[i]
      BY <3>1, <1>3
    <3> QED BY <3>1, <3>2, <2>1, <2>2, <1>2, <1>5 DEF Ordered
  <2> QED BY <2>3, <2>4
<1> QED BY <1>4, <1>5

\* Two sequences one after the other.
LEMMA FreeConcat ==
  ASSUME NEW A, NEW a \in Seq(A), NEW b \in Seq(A)
  PROVE  /\ a \o b \in Seq(A)
         /\ \A X : Free(a \o b, X) <=> Free(a, X) /\ Free(b, X)
<1>1. /\ a \o b \in Seq(A) /\ Len(a) \in Nat /\ Len(b) \in Nat
      /\ DOMAIN a = 1..Len(a) /\ DOMAIN b = 1..Len(b)
      /\ DOMAIN (a \o b) = 1..(Len(a) + Len(b))
  OBVIOUS
<1>2. \A i \in 1..Len(a) : (a \o b)[i] = a[i]
  OBVIOUS
<1>3. \A i \in 1..Len(b) : (a \o b)[Len(a) + i] = b[i]
  OBVIOUS
<1>4. ASSUME NEW X, Free(a \o b, X)
      PROVE  Free(a, X) /\ Free(b, X)
  <2>1. ASSUME NEW i \in 1..Len(a) PROVE a[i] \notin X
    <3>1. i \in 1..(Len(a) + Len(b))
      BY <1>1
    <3> QED BY <3>1, <1>1, <1>2, <1>4 DEF Free
  <2>2. ASSUME NEW i \in 1..Len(b) PROVE b[i] \notin X
    <3>1. Len(a) + i \in 1..(Len(a) + Len(b))
      BY <1>1
    <3> QED BY <3>1, <1>1, <1>3, <1>4 DEF Free
  <2> QED BY <2>1, <2>2, <1>1 DEF Free
<1>5. ASSUME NEW X, Free(a, X), Free(b, X)
      PROVE  Free(a \o b, X)
  <2> SUFFICES ASSUME NEW i \in 1..(Len(a) + Len(b)) PROVE (a \o b)[i] \notin X
    BY <1>1 DEF Free
  <2>1. CASE i <= Len(a)
    BY <2>1, <1>1, <1>2, <1>5 DEF Free
  <2>2. CASE i > Len(a)
    <3>1. i - Len(a) \in 1..Len(b) /\ Len(a) + (i - Len(a)) = i
      BY <1>1, <2>2
    <3> QED BY <3>1, <1>1, <1>3, <1>5 DEF Free
  <2> QED BY <2>1, <2>2, <1>1
<1> QED BY <1>1, <1>4, <1>5

\* The order of two sequences in a row.
LEMMA OrderedConcat ==
  ASSUME NEW A, NEW a \in Seq(A), NEW b \in Seq(A)
  PROVE  \A X, Y : Ordered(a \o b, X, Y)
                     <=> /\ Ordered(a, X, Y) /\ Ordered(b, X, Y)
                         /\ Free(a, X) \/ Free(b, Y)
<1>1. /\ a \o b \in Seq(A) /\ Len(a) \in Nat /\ Len(b) \in Nat
      /\ DOMAIN a = 1..Len(a) /\ DOMAIN b = 1..Len(b)
      /\ DOMAIN (a \o b) = 1..(Len(a) + Len(b))
  OBVIOUS
<1>2. \A i \in 1..Len(a) : i \in 1..(Len(a) + Len(b)) /\ (a \o b)[i] = a[i]
  OBVIOUS
<1>3. \A i \in 1..Len(b) :
        Len(a) + i \in 1..(Len(a) + Len(b)) /\ (a \o b)[Len(a) + i] = b[i]
  OBVIOUS
<1>4. ASSUME NEW X, NEW Y, Ordered(a \o b, X, Y)
      PROVE  Ordered(a, X, Y) /\ Ordered(b, X, Y) /\ (Free(a, X) \/ Free(b, Y))
  <2>1. Ordered(a, X, Y)
    BY <1>1, <1>2, <1>4 DEF Ordered
  <2>2. ASSUME NEW i \in 1..Len(b), NEW j \in 1..Len(b), i < j, b[i] \in X
        PROVE  b[j] \notin Y
    <3>1. Len(a) + i < Len(a) + j
      BY <1>1, <2>2
    <3> QED BY <3>1, <1>1, <1>3, <1>4, <2>2 DEF Ordered
  <2>3. ASSUME NEW i \in 1..Len(a), a[i] \in X, NEW j \in 1..Len(b)
        PROVE  b[j] \notin Y
    <3>1. i < Len(a) + j
      BY <1>1
    <3> QED BY <3>1, <1>1, <1>2, <1>3, <1>4, <2>3 DEF Ordered
  <2> QED BY <2>1, <2>2, <2>3, <1>1 DEF Ordered, Free
<1>5. ASSUME NEW X, NEW Y, Ordered(a, X, Y), Ordered(b, X, Y), Free(a, X) \/ Free(b, Y)
      PROVE  Ordered(a \o b, X, Y)
  <2> SUFFICES ASSUME NEW i \in 1..(Len(a) + Len(b)), NEW j \in 1..(Len(a) + Len(b)),
                      i < j, (a \o b)[i] \in X
               PROVE  (a \o b)[j] \notin Y
    BY <1>1 DEF Ordered
  <2>1. CASE j <= Len(a)
    BY <2>1, <1>1, <1>2, <1>5 DEF Ordered
  <2>2. CASE j > Len(a)
    <3>1. j - Len(a) \in 1..Len(b) /\ Len(a) + (j - Len(a)) = j
      BY <1>1, <2>2
    <3>2. (a \o b)[j] = b[j - Len(a)]
      BY <3>1, <1>3
    <3>3. CASE i <= Len(a)
      BY <3>1, <3>2, <3>3, <1>1, <1>2, <1>5 DEF Free
    <3>4. CASE i > Len(a)
      <4>1. i - Len(a) \in 1..Len(b) /\ Len(a) + (i - Len(a)) = i /\ i - Len(a) < j - Len(a)
        BY <1>1, <3>4, <2>2
      <4>2. (a \o b)[i] = b[i - Len(a)]
        BY <4>1, <1>3
      <4> QED BY <3>1, <3>2, <4>1, <4>2, <1>1, <1>5 DEF Ordered
    <3> QED BY <3>3, <3>4, <1>1
  <2> QED BY <2>1, <2>2, <1>1
<1> QED BY <1>1, <1>4, <1>5

-----------------------------------------------------------------------------
(* The accesses of each function.                                          *)

CleanRegs == {"LVTT", "LVT0", "LVT1", "LVTERR", "LVTPC"}
MaskRegs == {"LVTT", "LVT0", "LVT1", "LVTPC", "LVTTHMR"}
ErrorEntry == Entry("error", FALSE)
ExtInt == Entry("extint", FALSE)

EsrOps == {Op("write_esr"), Op("read_esr")}
MaskErr == {Write("LVTERR", Entry("error", TRUE))}
SpivOn == {Write("SPIV", Spiv("spurious", TRUE)), Write("SPIV", Spiv("legacy", TRUE))}
SpivOff == {Op("spiv_off")}

Entries == [vec : Delivery, masked : BOOLEAN]
Spivs == [vec : {"spurious", "legacy", "reset"}, on : BOOLEAN]
Ops == {"spiv_off", "mask_open_cmci", "taskpri", "lvt0", "write_esr", "read_esr",
        "pending_intr_clear", "ack_APIC_irq", "save", "pm_activate", "mask_ioapic_entries"}
Acc == {Write(r, e) : r \in Lvt, e \in Entries} \cup {Write("SPIV", v) : v \in Spivs}
       \cup {Write(r, "set") : r \in {"ID", "LDR"}}
       \cup {SetMask(r) : r \in Lvt} \cup {Restore(r) : r \in Regs} \cup {Op(o) : o \in Ops}

MaskAcc == {SetMask(r) : r \in MaskRegs} \cup {Op("mask_open_cmci")}
CleanAcc == {Write(r, Clean) : r \in CleanRegs}
ClearAcc == MaskErr \cup MaskAcc \cup CleanAcc \cup EsrOps
EarlyAcc == ClearAcc \cup SpivOn \cup {Write("LVT0", ExtInt)}
            \cup {Write("LVT1", Entry("nmi", m)) : m \in BOOLEAN}
HandlerAcc == EsrOps \cup {Op("ack_APIC_irq")}
SetupAcc ==
  HandlerAcc \cup SpivOn \cup SpivOff
  \cup {Write("ID", "set"), Write("LDR", "set"), Op("taskpri"), Op("pending_intr_clear")}
  \cup {Write("LVTPC", Entry("nmi", FALSE)), Op("lvt0")}
  \cup {Write("LVT1", Entry("nmi", m)) : m \in BOOLEAN}
  \cup {Write("LVTERR", ErrorEntry), Op("pm_activate")}
DownAcc == ClearAcc \cup SpivOff \cup {Op("save"), Op("mask_ioapic_entries")}
ResumeAcc == {Op("mask_ioapic_entries")} \cup MaskErr \cup {Restore(r) : r \in Regs} \cup EsrOps
DetachAcc == SpivOn \cup {Write("LVT0", Clean), Write("LVT0", ExtInt)}
             \cup {Write("LVT1", Entry("nmi", FALSE))}

\* What todo may hold in each phase; in the others nothing is under way.
Busy == {"early", "setup", "up", "suspend", "stop", "resume", "detach"}
Shape ==
  /\ phase \notin Busy => todo = <<>>
  /\ phase = "early" => todo \in Seq(EarlyAcc)
  /\ phase = "setup" => todo \in Seq(SetupAcc)
  /\ phase = "up" => todo \in Seq(HandlerAcc)
  /\ phase \in {"suspend", "stop"} => todo \in Seq(DownAcc)
  /\ phase = "resume" => todo \in Seq(ResumeAcc)
  /\ phase = "detach" => todo \in Seq(DetachAcc)

\* The access that forgets the errors, those that may open LVTERR, and those
\* that may write vector zero.
Clears == {IF hw.maxlvt > 3 THEN Op("write_esr") ELSE Op("read_esr")}
Opens == {Write("LVTERR", ErrorEntry), Restore("LVTERR")}
ZeroVec == {SetMask(r) : r \in Lvt} \cup {Op("mask_open_cmci")}
           \cup {Write(r, Clean) : r \in Lvt} \cup {Restore(r) : r \in Lvt \ {"LVTERR"}}

-----------------------------------------------------------------------------
(* The invariant.                                                          *)

\* The registers of a kernel that is up.
UpRegs(f) ==
  /\ f["SPIV"].on /\ f["LVTERR"] = ErrorEntry /\ f["TASKPRI"] = 16
  /\ hw.cpu = 0 /\ skip_ioapic_setup => f["LVT0"] = ExtInt

\* Types, and what pm.active says.
Typed ==
  /\ TypeOK /\ Shape /\ todo \in Seq(Acc)
  /\ pm = [active |-> pm.active, saved |-> pm.saved]
  /\ hw.disable_apic => ~pm.active /\ todo \in Seq(HandlerAcc)
  /\ ~hw.disable_apic /\ phase \in {"up", "suspend", "suspended", "asleep", "resume", "resumed"}
       => pm.active

\* While an access that may write vector zero is to come, LVTERR is masked or will
\* be masked before; it is opened, once, after the last of them.
\* That is all but a kernel that could not clear its APIC and disconnects it.
Detached == phase \in {"detach", "legacy"} /\ ~hw.mapped
StrayInv ==
  ~Detached =>
    /\ ~stray
    /\ Ordered(todo, ZeroVec, MaskErr) /\ Ordered(todo, Opens, ZeroVec) /\ Ordered(todo, Opens, Opens)
    /\ Free(todo, MaskErr) /\ ~Free(todo, ZeroVec) => regs["LVTERR"].masked

\* Virtual wire mode.
WireInv ==
  /\ phase = "early" =>
       /\ Free(todo, SpivOn) => On
       /\ Settles(todo, {Write("LVT0", ExtInt)},
                  SpivOn \cup {SetMask("LVT0"), Write("LVT0", Clean)})
       /\ Free(todo, {Write("LVT0", ExtInt)}) => regs["LVT0"] = ExtInt
  /\ phase = "wired" => On /\ regs["LVT0"] = ExtInt
  /\ phase = "detach" =>
       /\ Free(todo, SpivOn) => On
       /\ Settles(todo, {Write("LVT1", Entry("nmi", FALSE))}, SpivOn)
       /\ Free(todo, {Write("LVT1", Entry("nmi", FALSE))}) => regs["LVT1"] = Entry("nmi", FALSE)
  /\ phase = "legacy" => On /\ regs["LVT1"] = Entry("nmi", FALSE)

\* Setup: what each access has done once it is no longer to come.
SetupInv ==
  phase = "setup" /\ ~hw.disable_apic =>
    /\ Ordered(todo, SpivOn, {Op("taskpri"), Op("pending_intr_clear")})
    /\ Free(todo, {Op("taskpri")}) => regs["TASKPRI"] = 16
    /\ Settles(todo, {Op("pending_intr_clear")}, SpivOff)
    /\ Free(todo, {Op("pending_intr_clear")}) => On \/ ~stale \/ warned
    /\ Settles(todo, SpivOn, SpivOff)
    /\ Free(todo, SpivOn) => On
    /\ Settles(todo, {Op("lvt0")}, SpivOn)
    /\ Free(todo, {Op("lvt0")}) /\ hw.cpu = 0 /\ skip_ioapic_setup => regs["LVT0"] = ExtInt
    /\ Settles(todo, Opens, SpivOn \cup {Op("pending_intr_clear")})
    /\ Free(todo, {Op("pm_activate")}) => pm.active
UpInv == phase = "up" /\ ~hw.disable_apic => UpRegs(regs) /\ "old" \notin esr

\* Shutting the APIC down, for suspend too; an early return leaves it uncleaned, and
\* CPU 0 enabled.
Shut == ~On /\ \A r \in Lvt : regs[r].masked
DownInv ==
  phase \in {"suspend", "stop"} /\ ~hw.disable_apic =>
    /\ \A r \in CleanRegs :
         /\ Ordered(todo, {Write(r, Clean)}, {SetMask(r)})
         /\ Free(todo, {SetMask(r)}) /\ ~Free(todo, {Write(r, Clean)})
              => regs[r].masked \/ r = "LVTERR"
         /\ Settles(todo, {Write(r, Clean)}, IF r = "LVTERR" THEN MaskErr ELSE {})
         /\ Free(todo, {Write(r, Clean)}) /\ Has(r) /\ hw.mapped => regs[r] = Clean
    /\ Settles(todo, Clears, ZeroVec)
    /\ Free(todo, Clears) /\ hw.mapped => "old" \notin errs
    /\ Free(todo, SpivOff) /\ (hw.mapped \/ hw.cpu # 0) => Shut
DownState ==
  phase \in {"suspended", "offline", "halted"} /\ ~hw.disable_apic =>
    /\ hw.mapped \/ hw.cpu # 0 => Shut
    /\ hw.mapped => "old" \notin errs /\ \A r \in CleanRegs : Has(r) => regs[r] = Clean

\* What suspend saves is what it found, and resume brings it back.
Others == DownAcc \ {Op("save")}
SavedInv ==
  /\ phase = "suspend" /\ pm.active =>
       /\ UpRegs(before)
       /\ Ordered(todo, Others, {Op("save")})
       /\ IF Free(todo, {Op("save")}) THEN pm.saved = before ELSE regs = before
  /\ phase \in {"suspended", "asleep", "resume", "resumed"} /\ pm.active =>
       UpRegs(before) /\ pm.saved = before
QuietInv ==
  phase \in {"suspend", "resume"} /\ todo # <<>> =>
    /\ Ordered(todo, SpivOff \cup {Restore("SPIV")}, {Op("mask_ioapic_entries")})
    /\ Free(todo, {Op("mask_ioapic_entries")}) => ioapic = "masked"
ResumeInv ==
  phase = "resume" /\ pm.active =>
    /\ Ordered(todo, {Restore("SPIV")}, {Restore("TASKPRI")})
    /\ \A r \in Regs : Has(r) =>
         /\ Settles(todo, {Restore(r)}, (IF r \in Lvt THEN {Restore("SPIV")} ELSE {})
                                       \cup (IF r = "LVTERR" THEN MaskErr ELSE {}))
         /\ Free(todo, {Restore(r)}) => regs[r] = pm.saved[r]
ResumedState ==
  phase = "resumed" /\ pm.active => \A r \in Regs : Has(r) => regs[r] = pm.saved[r]

\* Errors, from setup or resume on.  Before LVTERR is opened they are forgotten;
\* and once more after it, so that one detected before cannot stay unreported.
Managed == ~hw.disable_apic /\ phase \in {"setup", "up", "resume", "resumed"}
ErrorInv ==
  Managed =>
    /\ Ordered(todo, Clears, ZeroVec)
    /\ Ordered(todo, Clears, Opens) => "old" \notin errs /\ Free(todo, ZeroVec)
    /\ Ordered(todo, Opens, Clears) => Free(todo, Opens)
    /\ Free(todo, Opens) => regs["LVTERR"] = ErrorEntry
    /\ Free(todo, Opens) /\ Free(todo, Clears) =>
         "old" \notin esr /\ (errs # {} => errirq)

IInv == /\ Typed /\ StrayInv /\ WireInv /\ SetupInv /\ UpInv /\ DownInv /\ DownState
        /\ SavedInv /\ QuietInv /\ ResumeInv /\ ResumedState /\ ErrorInv

-----------------------------------------------------------------------------
(* What an access does to the registers.                                   *)

\* The register an access writes, and what it writes.
Target(a) == CASE a.op \in {"write", "mask", "restore"} -> a.reg
               [] a.op = "spiv_off" -> "SPIV"
               [] a.op = "taskpri" -> "TASKPRI"
               [] a.op = "lvt0" -> "LVT0"
               [] a.op = "mask_open_cmci" -> "LVTCMCI"
               [] OTHER -> "none"
Value(a) == CASE a.op = "write" -> a.val
              [] a.op = "mask" -> MaskOn(regs[a.reg])
              [] a.op = "restore" -> pm.saved[a.reg]
              [] a.op = "spiv_off" -> [regs["SPIV"] EXCEPT !.on = FALSE]
              [] a.op = "taskpri" -> 16
              [] a.op = "lvt0" -> Entry("extint", ~Lint0)
              [] a.op = "mask_open_cmci" -> MaskOn(regs["LVTCMCI"])
              [] OTHER -> "none"

Fits(r, v) ==
  /\ r \in Regs /\ (r \in Lvt => v \in Entries) /\ (r = "SPIV" => v \in Spivs)
  /\ (r = "TASKPRI" => v \in {0, 16, 32}) /\ (r \in {"ID", "LDR", "TIMER"} => v \in {"reset", "set"})

\* Setting the mask bit of an entry keeps its vector.
LEMMA MaskOnType ==
  ASSUME NEW e \in Entries
  PROVE  MaskOn(e) \in Entries /\ MaskOn(e).masked /\ MaskOn(e).vec = e.vec
BY DEF MaskOn, Entries

\* The kinds of access.
LEMMA AccCases ==
  ASSUME NEW a \in Acc
  PROVE  \/ \E r \in Lvt, e \in Entries : a = Write(r, e)
         \/ \E v \in Spivs : a = Write("SPIV", v)
         \/ \E r \in {"ID", "LDR"} : a = Write(r, "set")
         \/ \E r \in Lvt : a = SetMask(r)
         \/ \E r \in Regs : a = Restore(r)
         \/ \E o \in Ops : a = Op(o)
BY DEF Acc

\* What an access writes fits its register.
LEMMA AccessWrites ==
  ASSUME NEW a \in Acc, RegsOK(regs), RegsOK(pm.saved), Target(a) # "none"
  PROVE  Fits(Target(a), Value(a))
<1>1. ASSUME NEW r \in Lvt, NEW e \in Entries, a = Write(r, e) PROVE Fits(Target(a), Value(a))
  BY <1>1 DEF Target, Value, Fits, Write, Lvt, Regs
<1>2. ASSUME NEW v \in Spivs, a = Write("SPIV", v) PROVE Fits(Target(a), Value(a))
  BY <1>2 DEF Target, Value, Fits, Write, Lvt, Regs
<1>3. ASSUME NEW r \in {"ID", "LDR"}, a = Write(r, "set") PROVE Fits(Target(a), Value(a))
  BY <1>3 DEF Target, Value, Fits, Write, Lvt, Regs
<1>4. ASSUME NEW r \in Lvt, a = SetMask(r) PROVE Fits(Target(a), Value(a))
  BY <1>4, MaskOnType DEF Target, Value, Fits, SetMask, Lvt, Regs, RegsOK, Entries
<1>5. ASSUME NEW r \in Regs, a = Restore(r) PROVE Fits(Target(a), Value(a))
  BY <1>5 DEF Target, Value, Fits, Restore, Lvt, Regs, RegsOK, Entries, Spivs
<1>6. ASSUME NEW o \in Ops, a = Op(o) PROVE Fits(Target(a), Value(a))
  <2> USE DEF Target, Value, Fits
  <2>1. CASE o = "spiv_off"
    BY <1>6, <2>1 DEF Op, Lvt, Regs, RegsOK, Spivs
  <2>2. CASE o = "lvt0"
    BY <1>6, <2>2 DEF Op, Lvt, Regs, Entries, Entry, Delivery, Lint0
  <2>3. CASE o = "mask_open_cmci"
    BY <1>6, <2>3, MaskOnType DEF Op, Lvt, Regs, RegsOK, Entries
  <2>4. CASE o = "taskpri"
    BY <1>6, <2>4 DEF Op, Lvt, Regs
  <2> QED BY <1>6, <2>1, <2>2, <2>3, <2>4 DEF Ops, Op
<1> QED BY <1>1, <1>2, <1>3, <1>4, <1>5, <1>6, AccCases

\* What is in an LVT entry, and in another register, after the access.
AfterLvt(x, r, v) ==
  IF r = "SPIV" THEN (IF v.on THEN regs[x] ELSE MaskOn(regs[x]))
  ELSE IF x = r THEN (IF On THEN v ELSE MaskOn(v)) ELSE regs[x]
After(x, r, v) == IF x \in Lvt THEN AfterLvt(x, r, v) ELSE IF x = r THEN v ELSE regs[x]

\* What a write does to each register: itself, and every mask when SPIV switches off.
LEMMA WriteEffect ==
  ASSUME RegsOK(regs), NEW r, NEW v, Fits(r, v), regs' = Stored(r, v)
  PROVE  RegsOK(regs') /\ \A x \in Regs : regs'[x] = After(x, r, v)
<1>1. r \in Regs /\ DOMAIN regs = Regs
  BY DEF Fits, RegsOK
<1>2. DOMAIN regs' = Regs /\ \A x \in Regs : regs'[x] = After(x, r, v)
  <2>1. CASE r = "SPIV" /\ ~v.on
    BY <1>1, <2>1 DEF Stored, After, AfterLvt, Regs, Lvt
  <2>2. CASE ~(r = "SPIV" /\ ~v.on)
    <3>1. regs' = [regs EXCEPT ![r] = IF r \in Lvt /\ ~On THEN MaskOn(v) ELSE v]
      BY <2>2 DEF Stored
    <3>2. DOMAIN regs' = Regs
      BY <1>1, <3>1
    <3>3. \A x \in Regs : regs'[x] = IF x = r THEN (IF r \in Lvt /\ ~On THEN MaskOn(v) ELSE v)
                                    ELSE regs[x]
      BY <1>1, <3>1
    <3>4. "SPIV" \notin Lvt
      BY DEF Lvt
    <3> QED BY <1>1, <2>2, <3>2, <3>3, <3>4 DEF After, AfterLvt
  <2> QED BY <2>1, <2>2
<1>3. \A x \in Lvt : regs[x] \in Entries
  BY DEF RegsOK, Entries
<1>4. \A x \in Lvt : x \in Regs /\ regs'[x] \in Entries
  BY <1>2, <1>3, MaskOnType DEF After, AfterLvt, Fits, Regs
<1>5. regs'["SPIV"] \in Spivs
  BY <1>2 DEF After, Fits, RegsOK, Spivs, Regs, Lvt
<1>6. regs'["TASKPRI"] \in {0, 16, 32}
  BY <1>2 DEF After, Fits, RegsOK, Regs, Lvt
<1>7. \A x \in {"ID", "LDR", "TIMER"} : regs'[x] \in {"reset", "set"}
  <2> SUFFICES ASSUME NEW x \in {"ID", "LDR", "TIMER"} PROVE regs'[x] \in {"reset", "set"}
    OBVIOUS
  <2>1. x \in Regs /\ x \notin Lvt /\ regs[x] \in {"reset", "set"}
    BY DEF RegsOK, Regs, Lvt
  <2>2. regs'[x] = IF x = r THEN v ELSE regs[x]
    BY <1>2, <2>1 DEF After
  <2> QED BY <2>1, <2>2 DEF Fits
<1> QED BY <1>2, <1>4, <1>5, <1>6, <1>7 DEF RegsOK, Entries, Spivs

\* The access writes vector zero.
Bad(a) == Target(a) \in Lvt /\ Value(a).vec = "zero"

\* Every access to the APIC in one lemma.
LEMMA AccessEffect ==
  ASSUME NEW a \in Acc, RegsOK(regs), RegsOK(pm.saved), stray \in BOOLEAN, Access(a)
  PROVE  /\ RegsOK(regs')
         /\ \A x \in Regs : regs'[x] = After(x, Target(a), Value(a))
         /\ a \notin EsrOps => esr' = esr /\ (errs' = errs \/ (Bad(a) /\ errs' = errs \cup {"old"}))
         /\ stray' \in BOOLEAN /\ (stray' => stray \/ (Bad(a) /\ ~regs'["LVTERR"].masked))
         /\ a = Op("write_esr") => esr' = errs /\ errs' = {}
         /\ a = Op("read_esr") => IF hw.maxlvt > 3 THEN UNCHANGED <<esr, errs>>
                                  ELSE esr' = {} /\ errs' = {}
         /\ a # Op("pending_intr_clear") => UNCHANGED <<errirq, stale, warned>>
         /\ a = Op("pending_intr_clear") =>
              stale' \in {FALSE, stale} /\ errirq' \in {FALSE, errirq}
              /\ warned' \in {TRUE, stale' \/ errirq'}
         /\ ioapic' = IF a = Op("mask_ioapic_entries") THEN "masked" ELSE ioapic
         /\ pm' = IF a = Op("save") THEN [pm EXCEPT !.saved = regs]
                  ELSE IF a = Op("pm_activate") THEN [pm EXCEPT !.active = TRUE] ELSE pm
<1>1. /\ a.op \in {"write", "mask", "restore"} \cup Ops
      /\ \A o \in Ops : a.op = o <=> a = Op(o)
  BY AccCases DEF Ops, Write, SetMask, Restore, Op
<1>2. CASE a.op \in {"write", "mask", "restore", "spiv_off", "taskpri", "lvt0"}
           \/ (a.op = "mask_open_cmci" /\ ~regs["LVTCMCI"].masked)
  <2>1. apic_write(Target(a), Value(a))
    BY <1>2 DEF Access, Target, Value, TaskPri
  <2>2. Target(a) # "none"
    <3>1. a.op \notin {"write", "mask", "restore"} => Target(a) # "none"
      BY <1>2 DEF Target
    <3>2. a.op \in {"write", "mask", "restore"} => a.reg # "none"
      BY AccCases DEF Write, SetMask, Restore, Op, Lvt, Regs, Ops
    <3> QED BY <3>1, <3>2 DEF Target
  <2>3. Fits(Target(a), Value(a))
    BY <2>2, AccessWrites
  <2>4. regs' = Stored(Target(a), Value(a))
    BY <2>1 DEF apic_write
  <2>5. RegsOK(regs') /\ \A x \in Regs : regs'[x] = After(x, Target(a), Value(a))
    BY <2>3, <2>4, WriteEffect
  <2>6. /\ a \notin EsrOps /\ a # Op("pending_intr_clear") /\ a # Op("mask_ioapic_entries")
        /\ a # Op("save") /\ a # Op("pm_activate") /\ a # Op("write_esr") /\ a # Op("read_esr")
    BY <1>2 DEF EsrOps, Op
  <2>7. stray' \in BOOLEAN /\ (stray' => stray \/ (Bad(a) /\ ~regs'["LVTERR"].masked))
    BY <2>1 DEF apic_write, Bad
  <2> QED BY <2>1, <2>5, <2>6, <2>7 DEF apic_write, Bad
<1>3. CASE ~(\/ a.op \in {"write", "mask", "restore", "spiv_off", "taskpri", "lvt0"}
             \/ (a.op = "mask_open_cmci" /\ ~regs["LVTCMCI"].masked))
  <2>1. a.op \in {"mask_open_cmci", "write_esr", "read_esr", "pending_intr_clear", "ack_APIC_irq",
                  "save", "pm_activate", "mask_ioapic_entries"}
    BY <1>1, <1>3 DEF Ops
  <2>2. regs' = regs /\ stray' = stray
    BY <1>3, <2>1 DEF Access, WriteEsr, ReadEsr, apic_pending_intr_clear, apic
  <2>3. \A x \in Regs : regs'[x] = After(x, Target(a), Value(a))
    <3>1. CASE a.op = "mask_open_cmci"
      <4>1. regs["LVTCMCI"].masked /\ regs["LVTCMCI"] \in Entries
        BY <1>3, <3>1 DEF RegsOK, Entries, Lvt
      <4>2. MaskOn(regs["LVTCMCI"]) = regs["LVTCMCI"]
        BY <4>1 DEF MaskOn, Entries
      <4>3. Target(a) = "LVTCMCI" /\ Value(a) = regs["LVTCMCI"]
        BY <3>1, <4>2 DEF Target, Value
      <4> QED BY <2>2, <4>2, <4>3 DEF After, AfterLvt
    <3>2. CASE a.op # "mask_open_cmci"
      <4>1. Target(a) = "none"
        BY <2>1, <3>2 DEF Target
      <4> QED BY <4>1, <2>2 DEF After, AfterLvt, Regs, Lvt
    <3> QED BY <3>1, <3>2
  <2>4. RegsOK(regs')
    BY <2>2
  <2>5. a \in EsrOps <=> a.op \in {"write_esr", "read_esr"}
    BY <1>1 DEF EsrOps, Ops
  <2>6. \A o \in {"write_esr", "read_esr", "pending_intr_clear", "mask_ioapic_entries", "save",
                  "pm_activate"} : a.op = o <=> a = Op(o)
    BY <1>1 DEF Ops
  <2>7. CASE a.op = "mask_open_cmci"
    BY <1>3, <2>2, <2>3, <2>4, <2>5, <2>6, <2>7 DEF Access, apic
  <2>8. CASE a.op = "write_esr"
    BY <2>2, <2>3, <2>4, <2>5, <2>6, <2>8 DEF Access, WriteEsr
  <2>9. CASE a.op = "read_esr"
    BY <2>2, <2>3, <2>4, <2>5, <2>6, <2>9 DEF Access, ReadEsr
  <2>10. CASE a.op = "pending_intr_clear"
    BY <2>2, <2>3, <2>4, <2>5, <2>6, <2>10 DEF Access, apic_pending_intr_clear
  <2>11. CASE a.op \in {"ack_APIC_irq", "save", "pm_activate", "mask_ioapic_entries"}
    BY <2>2, <2>3, <2>4, <2>5, <2>6, <2>11 DEF Access, apic
  <2> QED BY <2>1, <2>7, <2>8, <2>9, <2>10, <2>11
<1> QED BY <1>2, <1>3

-----------------------------------------------------------------------------
(* The programs.                                                           *)

\* The accesses of each phase are accesses.
LEMMA AccTypes ==
  /\ ClearAcc \subseteq Acc /\ EarlyAcc \subseteq Acc /\ SetupAcc \subseteq Acc /\ HandlerAcc \subseteq SetupAcc
  /\ MaskErr \subseteq Acc /\ MaskAcc \subseteq Acc /\ CleanAcc \subseteq Acc /\ EsrOps \subseteq Acc
  /\ HandlerAcc \subseteq Acc /\ DownAcc \subseteq Acc /\ ResumeAcc \subseteq Acc /\ DetachAcc \subseteq Acc
<1>1. \A o \in Ops : Op(o) \in Acc
  BY DEF Acc
<1>2. \A r \in Lvt, e \in Entries : Write(r, e) \in Acc
  BY DEF Acc
<1>3. \A r \in Lvt : SetMask(r) \in Acc
  BY DEF Acc
<1>4. \A r \in Regs : Restore(r) \in Acc
  BY DEF Acc
<1>5. \A v \in Spivs : Write("SPIV", v) \in Acc
  BY DEF Acc
<1>6. Write("ID", "set") \in Acc /\ Write("LDR", "set") \in Acc
  BY DEF Acc
<1>7. \A d \in Delivery, m \in BOOLEAN : Entry(d, m) \in Entries
  BY DEF Entry, Entries
<1>8. MaskErr \subseteq Acc
  BY <1>2, <1>7 DEF MaskErr, Lvt, Delivery
<1>9. MaskAcc \subseteq Acc
  BY <1>1, <1>3 DEF MaskAcc, MaskRegs, Lvt, Ops
<1>10. CleanAcc \subseteq Acc
  BY <1>2, <1>7 DEF CleanAcc, CleanRegs, Clean, Lvt, Delivery
<1>11. EsrOps \subseteq Acc /\ HandlerAcc \subseteq Acc
  BY <1>1 DEF EsrOps, HandlerAcc, Ops
<1>12. SpivOn \subseteq Acc /\ SpivOff \subseteq Acc
  BY <1>1, <1>5 DEF SpivOn, SpivOff, Spivs, Spiv, Ops
<1>13. ClearAcc \subseteq Acc
  BY <1>8, <1>9, <1>10, <1>11 DEF ClearAcc
<1>14. \A m \in BOOLEAN : Write("LVT1", Entry("nmi", m)) \in Acc
  BY <1>2, <1>7 DEF Lvt, Delivery
<1>15. Write("LVT0", ExtInt) \in Acc /\ Write("LVT0", Clean) \in Acc
  BY <1>2, <1>7 DEF ExtInt, Clean, Lvt, Delivery
<1>16. Write("LVTPC", Entry("nmi", FALSE)) \in Acc /\ Write("LVTERR", ErrorEntry) \in Acc
  BY <1>2, <1>7 DEF ErrorEntry, Lvt, Delivery
<1>17. /\ Op("taskpri") \in Acc /\ Op("pending_intr_clear") \in Acc /\ Op("lvt0") \in Acc
       /\ Op("pm_activate") \in Acc /\ Op("save") \in Acc /\ Op("mask_ioapic_entries") \in Acc
  BY <1>1 DEF Ops
<1>18. EarlyAcc \subseteq Acc
  BY <1>12, <1>13, <1>14, <1>15 DEF EarlyAcc
<1>19. SetupAcc \subseteq Acc
  BY <1>6, <1>11, <1>12, <1>14, <1>16, <1>17 DEF SetupAcc
<1>20. DownAcc \subseteq Acc
  BY <1>12, <1>13, <1>17 DEF DownAcc
<1>21. ResumeAcc \subseteq Acc
  BY <1>4, <1>8, <1>11, <1>17 DEF ResumeAcc
<1>22. DetachAcc \subseteq Acc
  BY <1>12, <1>14, <1>15 DEF DetachAcc
<1> QED BY <1>8, <1>9, <1>10, <1>11, <1>13, <1>18, <1>19, <1>20, <1>21, <1>22 DEF SetupAcc

\* Three and four sequences.
LEMMA Concat3 ==
  ASSUME NEW a \in Seq(Acc), NEW b \in Seq(Acc), NEW c \in Seq(Acc)
  PROVE  /\ (a \o b) \o c \in Seq(Acc)
         /\ \A X : Free((a \o b) \o c, X) <=> Free(a, X) /\ Free(b, X) /\ Free(c, X)
         /\ \A X, Y : Ordered((a \o b) \o c, X, Y)
              <=> /\ Ordered(a, X, Y) /\ Ordered(b, X, Y) /\ Ordered(c, X, Y)
                  /\ Free(a, X) \/ (Free(b, Y) /\ Free(c, Y))
                  /\ Free(b, X) \/ Free(c, Y)
<1> DEFINE d == a \o b
<1>1. d \in Seq(Acc) /\ \A X : Free(d, X) <=> Free(a, X) /\ Free(b, X)
  BY FreeConcat, Zenon
<1>2. \A X, Y : Ordered(d, X, Y)
        <=> Ordered(a, X, Y) /\ Ordered(b, X, Y) /\ (Free(a, X) \/ Free(b, Y))
  BY OrderedConcat, Zenon
<1> d \in Seq(Acc)
  BY <1>1
<1> HIDE DEF d
<1>3. d \o c \in Seq(Acc) /\ \A X : Free(d \o c, X) <=> Free(d, X) /\ Free(c, X)
  BY FreeConcat, Zenon
<1>4. \A X, Y : Ordered(d \o c, X, Y)
        <=> Ordered(d, X, Y) /\ Ordered(c, X, Y) /\ (Free(d, X) \/ Free(c, Y))
  BY OrderedConcat, Zenon
<1>5. \A X : Free(d \o c, X) <=> Free(a, X) /\ Free(b, X) /\ Free(c, X)
  BY <1>1, <1>3, Zenon
<1>6. ASSUME NEW X, NEW Y
      PROVE  Ordered(d \o c, X, Y) <=> /\ Ordered(a, X, Y) /\ Ordered(b, X, Y) /\ Ordered(c, X, Y)
                                       /\ Free(a, X) \/ (Free(b, Y) /\ Free(c, Y))
                                       /\ Free(b, X) \/ Free(c, Y)
  BY <1>1, <1>2, <1>4, Zenon
<1> QED BY <1>3, <1>5, <1>6, Zenon DEF d

\* Four sequences in a row.
LEMMA Concat4 ==
  ASSUME NEW a \in Seq(Acc), NEW b \in Seq(Acc), NEW c \in Seq(Acc), NEW d \in Seq(Acc)
  PROVE  /\ ((a \o b) \o c) \o d \in Seq(Acc)
         /\ \A X : Free(((a \o b) \o c) \o d, X)
                   <=> Free(a, X) /\ Free(b, X) /\ Free(c, X) /\ Free(d, X)
         /\ \A X, Y : Ordered(((a \o b) \o c) \o d, X, Y)
              <=> /\ Ordered(a, X, Y) /\ Ordered(b, X, Y) /\ Ordered(c, X, Y) /\ Ordered(d, X, Y)
                  /\ Free(a, X) \/ (Free(b, Y) /\ Free(c, Y) /\ Free(d, Y))
                  /\ Free(b, X) \/ (Free(c, Y) /\ Free(d, Y))
                  /\ Free(c, X) \/ Free(d, Y)
<1> DEFINE e == (a \o b) \o c
<1>1. e \in Seq(Acc) /\ \A X : Free(e, X) <=> Free(a, X) /\ Free(b, X) /\ Free(c, X)
  BY Concat3, Zenon
<1>2. \A X, Y : Ordered(e, X, Y)
        <=> /\ Ordered(a, X, Y) /\ Ordered(b, X, Y) /\ Ordered(c, X, Y)
            /\ Free(a, X) \/ (Free(b, Y) /\ Free(c, Y))
            /\ Free(b, X) \/ Free(c, Y)
  BY Concat3, Zenon
<1> e \in Seq(Acc)
  BY <1>1
<1> HIDE DEF e
<1>3. e \o d \in Seq(Acc) /\ \A X : Free(e \o d, X) <=> Free(e, X) /\ Free(d, X)
  BY FreeConcat, Zenon
<1>4. \A X, Y : Ordered(e \o d, X, Y)
        <=> Ordered(e, X, Y) /\ Ordered(d, X, Y) /\ (Free(e, X) \/ Free(d, Y))
  BY OrderedConcat, Zenon
<1>5. \A X : Free(e \o d, X) <=> Free(a, X) /\ Free(b, X) /\ Free(c, X) /\ Free(d, X)
  BY <1>1, <1>3, Zenon
<1>6. ASSUME NEW X, NEW Y
      PROVE  Ordered(e \o d, X, Y)
               <=> /\ Ordered(a, X, Y) /\ Ordered(b, X, Y) /\ Ordered(c, X, Y) /\ Ordered(d, X, Y)
                   /\ Free(a, X) \/ (Free(b, Y) /\ Free(c, Y) /\ Free(d, Y))
                   /\ Free(b, X) \/ (Free(c, Y) /\ Free(d, Y))
                   /\ Free(c, X) \/ Free(d, Y)
  BY <1>1, <1>2, <1>4, SMT
<1> QED BY <1>3, <1>5, <1>6, Zenon DEF e

\* The empty sequence is any kind of sequence.
LEMMA EmptySeq == \A A : <<>> \in Seq(A)
OBVIOUS

\* Short sequences.
LEMMA Literal ==
  /\ \A x, X : Free(<<x>>, X) <=> x \notin X
  /\ \A x, y, X : Free(<<x, y>>, X) <=> x \notin X /\ y \notin X
  /\ \A x, X, Y : Ordered(<<x>>, X, Y)
  /\ \A x, y, X, Y : Ordered(<<x, y>>, X, Y) <=> (x \in X => y \notin Y)
  /\ \A A, x : <<x>> \in Seq(A) <=> x \in A
  /\ \A A, x, y : <<x, y>> \in Seq(A) <=> x \in A /\ y \in A
BY DEF Free, Ordered

\* A sequence of three accesses.
LEMMA Literal3 ==
  /\ \A x, y, z, X : Free(<<x, y, z>>, X) <=> x \notin X /\ y \notin X /\ z \notin X
  /\ \A x, y, z, X, Y : Ordered(<<x, y, z>>, X, Y)
       <=> (x \in X => y \notin Y /\ z \notin Y) /\ (y \in X => z \notin Y)
  /\ \A A, x, y, z : <<x, y, z>> \in Seq(A) <=> x \in A /\ y \in A /\ z \in A
BY DEF Free, Ordered

\* A sequence of four accesses.
LEMMA Literal4 ==
  /\ \A x, y, z, w, X : Free(<<x, y, z, w>>, X) <=> x \notin X /\ y \notin X /\ z \notin X /\ w \notin X
  /\ \A x, y, z, w, X, Y : Ordered(<<x, y, z, w>>, X, Y)
       <=> /\ x \in X => y \notin Y /\ z \notin Y /\ w \notin Y
           /\ y \in X => z \notin Y /\ w \notin Y
           /\ z \in X => w \notin Y
  /\ \A A, x, y, z, w : <<x, y, z, w>> \in Seq(A) <=> x \in A /\ y \in A /\ z \in A /\ w \in A
BY DEF Free, Ordered

\* A sequence over fewer accesses.
LEMMA SeqSubset ==
  ASSUME NEW A, NEW B, A \subseteq B, NEW s \in Seq(A)
  PROVE  s \in Seq(B)
OBVIOUS

\* The part of clear_local_APIC that masks the entries the APIC has.
LEMMA MaskAllPiece ==
  /\ MaskAll \in Seq(MaskAcc)
  /\ \A r \in {"LVTT", "LVT0", "LVT1", "LVTPC"} : Has(r) => ~Free(MaskAll, {SetMask(r)})
<1> DEFINE a == <<SetMask("LVTT"), SetMask("LVT0"), SetMask("LVT1")>>
<1> DEFINE b == If(Has("LVTPC"), <<SetMask("LVTPC")>>)
<1> DEFINE c == If(Has("LVTTHMR"), <<SetMask("LVTTHMR")>>)
<1> DEFINE d == If(Has("LVTCMCI"), <<Op("mask_open_cmci")>>)
<1>2. a \in Seq(MaskAcc)
  BY Literal3 DEF MaskAcc, MaskRegs
<1>3. <<SetMask("LVTPC")>> \in Seq(MaskAcc) /\ <<SetMask("LVTTHMR")>> \in Seq(MaskAcc)
      /\ <<Op("mask_open_cmci")>> \in Seq(MaskAcc)
  BY Literal DEF MaskAcc, MaskRegs
<1>4. b \in Seq(MaskAcc) /\ c \in Seq(MaskAcc) /\ d \in Seq(MaskAcc)
  BY <1>3 DEF If
<1>5. \A r \in {"LVTT", "LVT0", "LVT1"} : ~Free(a, {SetMask(r)})
  BY Literal3
<1>6. Has("LVTPC") => ~Free(b, {SetMask("LVTPC")})
  BY Literal DEF If
<1>7. MaskAll = ((a \o b) \o c) \o d
  BY DEF MaskAll
<1> HIDE DEF a, b, c, d
<1>8. MaskAll \in Seq(MaskAcc) /\ \A X : Free(MaskAll, X) => Free(a, X) /\ Free(b, X)
  <2>1. a \in Seq(Acc) /\ b \in Seq(Acc) /\ c \in Seq(Acc) /\ d \in Seq(Acc)
    BY <1>2, <1>4, AccTypes, SeqSubset
  <2>2. \A X : Free(((a \o b) \o c) \o d, X) => Free(a, X) /\ Free(b, X)
    BY <2>1, Concat4, SMT
  <2>3. ((a \o b) \o c) \o d \in Seq(MaskAcc)
    BY <1>2, <1>4
  <2> QED BY <1>7, <2>2, <2>3
<1> QED BY <1>5, <1>6, <1>8

\* The part of clear_local_APIC that writes the clean values.
LEMMA CleanAllPiece ==
  /\ CleanAll \in Seq(CleanAcc)
  /\ \A r \in CleanRegs : Has(r) <=> ~Free(CleanAll, {Write(r, Clean)})
<1> DEFINE a == <<Write("LVTT", Clean), Write("LVT0", Clean), Write("LVT1", Clean), Write("LVTERR", Clean)>>
<1> DEFINE b == If(Has("LVTPC"), <<Write("LVTPC", Clean)>>)
<1>1. \A r \in CleanRegs \ {"LVTPC"} : Has(r)
  BY DEF Has, CleanRegs
<1>2. a \in Seq(CleanAcc)
  BY Literal4 DEF CleanAcc, CleanRegs
<1>3. <<Write("LVTPC", Clean)>> \in Seq(CleanAcc)
  BY Literal DEF CleanAcc, CleanRegs
<1>4. b \in Seq(CleanAcc)
  BY <1>3 DEF If
<1>5. \A r \in CleanRegs \ {"LVTPC"} : ~Free(a, {Write(r, Clean)})
  BY Literal4 DEF CleanRegs
<1>6. Free(a, {Write("LVTPC", Clean)})
  BY Literal4 DEF Write
<1>7. Has("LVTPC") <=> ~Free(b, {Write("LVTPC", Clean)})
  BY Literal, FreeEmpty DEF If
<1>8. CleanAll = a \o b
  BY DEF CleanAll
<1> HIDE DEF a, b
<1>9. CleanAll \in Seq(CleanAcc) /\ \A X : Free(CleanAll, X) <=> Free(a, X) /\ Free(b, X)
  BY <1>2, <1>4, <1>8, FreeConcat
<1> QED BY <1>1, <1>5, <1>6, <1>7, <1>9 DEF CleanRegs

\* The part of clear_local_APIC that clears the error status.
LEMMA ClearEsrPiece == ClearEsr \in Seq(EsrOps) /\ ~Free(ClearEsr, Clears)
<1> DEFINE a == If(hw.maxlvt > 3, <<Op("write_esr")>>)
<1> DEFINE b == <<Op("read_esr")>>
<1>2. <<Op("write_esr")>> \in Seq(EsrOps) /\ <<Op("read_esr")>> \in Seq(EsrOps)
  BY Literal DEF EsrOps
<1>3. a \in Seq(EsrOps) /\ (hw.maxlvt > 3 => ~Free(a, {Op("write_esr")}))
  BY <1>2, Literal DEF If
<1>4. b \in Seq(EsrOps) /\ ~Free(b, {Op("read_esr")})
  BY <1>2, Literal
<1>5. ClearEsr = a \o b
  BY DEF ClearEsr
<1> HIDE DEF a, b
<1>6. ClearEsr \in Seq(EsrOps) /\ \A X : Free(ClearEsr, X) <=> Free(a, X) /\ Free(b, X)
  BY <1>3, <1>4, <1>5, FreeConcat
<1> QED BY <1>3, <1>4, <1>6 DEF Clears

\* Which sets of accesses have nothing in common.
LEMMA Distinct ==
  /\ MaskErr \cap ZeroVec = {} /\ EsrOps \cap ZeroVec = {} /\ Clears \subseteq EsrOps
  /\ MaskErr \cap EsrOps = {} /\ MaskAcc \cap EsrOps = {} /\ CleanAcc \cap EsrOps = {}
  /\ MaskAcc \cap MaskErr = {} /\ CleanAcc \cap MaskErr = {} /\ MaskAcc \cap CleanAcc = {}
  /\ \A r \in CleanRegs : SetMask(r) \in ZeroVec /\ Write(r, Clean) \in CleanAcc
BY DEF MaskErr, ZeroVec, EsrOps, Clears, MaskAcc, CleanAcc, Write, SetMask, Restore, Op, Clean,
       Entry, Lvt, CleanRegs, MaskRegs

\* clear_local_APIC: LVTERR is masked first, then the others are; then they are
\* cleaned; and then the errors are forgotten.
LEMMA ClearProgram ==
  ASSUME hw.mapped
  PROVE  /\ clear_local_APIC \in Seq(ClearAcc)
         /\ Ordered(clear_local_APIC, ZeroVec, MaskErr) /\ Ordered(clear_local_APIC, Clears, ZeroVec)
         /\ ~Free(clear_local_APIC, MaskErr) /\ ~Free(clear_local_APIC, Clears)
         /\ \A r \in CleanRegs :
              /\ Ordered(clear_local_APIC, {Write(r, Clean)}, {SetMask(r)} \cup MaskErr)
              /\ Has(r) <=> ~Free(clear_local_APIC, {Write(r, Clean)})
              /\ Has(r) /\ r # "LVTERR" => ~Free(clear_local_APIC, {SetMask(r)})
<1> DEFINE a == MaskError
<1> DEFINE b == MaskAll
<1> DEFINE c == CleanAll
<1> DEFINE d == ClearEsr
<1>1. a \in Seq(MaskErr) /\ ~Free(a, MaskErr)
  <2> DEFINE w == Write("LVTERR", Entry("error", TRUE))
  <2>1. a = <<w>> /\ w \in MaskErr
    BY DEF MaskError, MaskErr
  <2> HIDE DEF w
  <2> QED BY <2>1, Literal
<1>2. /\ b \in Seq(MaskAcc)
      /\ \A r \in CleanRegs : Has(r) /\ r # "LVTERR" => ~Free(b, {SetMask(r)})
  BY MaskAllPiece DEF CleanRegs
<1>3. c \in Seq(CleanAcc) /\ \A r \in CleanRegs : Has(r) <=> ~Free(c, {Write(r, Clean)})
  BY CleanAllPiece
<1>4. d \in Seq(EsrOps) /\ ~Free(d, Clears)
  BY ClearEsrPiece
<1>5. clear_local_APIC = ((a \o b) \o c) \o d
  BY DEF clear_local_APIC, If
<1>6. a \in Seq(ClearAcc) /\ b \in Seq(ClearAcc) /\ c \in Seq(ClearAcc) /\ d \in Seq(ClearAcc)
  BY <1>1, <1>2, <1>3, <1>4 DEF ClearAcc
<1> HIDE DEF a, b, c, d
<1>7. /\ clear_local_APIC \in Seq(ClearAcc)
      /\ \A X : Free(clear_local_APIC, X) <=> Free(a, X) /\ Free(b, X) /\ Free(c, X) /\ Free(d, X)
      /\ \A X, Y : Ordered(clear_local_APIC, X, Y)
           <=> /\ Ordered(a, X, Y) /\ Ordered(b, X, Y) /\ Ordered(c, X, Y) /\ Ordered(d, X, Y)
               /\ Free(a, X) \/ (Free(b, Y) /\ Free(c, Y) /\ Free(d, Y))
               /\ Free(b, X) \/ (Free(c, Y) /\ Free(d, Y))
               /\ Free(c, X) \/ Free(d, Y)
  <2> DEFINE e == ((a \o b) \o c) \o d
  <2>0. a \in Seq(Acc) /\ b \in Seq(Acc) /\ c \in Seq(Acc) /\ d \in Seq(Acc)
    BY <1>1, <1>2, <1>3, <1>4, AccTypes, SeqSubset
  <2>1. e \in Seq(ClearAcc)
    BY <1>6
  <2>2. \A X : Free(e, X) <=> Free(a, X) /\ Free(b, X) /\ Free(c, X) /\ Free(d, X)
    BY <2>0, Concat4, SMT
  <2>3. \A X, Y : Ordered(e, X, Y)
           <=> /\ Ordered(a, X, Y) /\ Ordered(b, X, Y) /\ Ordered(c, X, Y) /\ Ordered(d, X, Y)
               /\ Free(a, X) \/ (Free(b, Y) /\ Free(c, Y) /\ Free(d, Y))
               /\ Free(b, X) \/ (Free(c, Y) /\ Free(d, Y))
               /\ Free(c, X) \/ Free(d, Y)
    BY <2>0, Concat4, SMT
  <2>4. clear_local_APIC = e
    BY <1>5
  <2> HIDE DEF e
  <2> QED BY <2>1, <2>2, <2>3, <2>4, Zenon
<1>10. /\ Free(a, ZeroVec) /\ Free(b, MaskErr) /\ Free(c, MaskErr) /\ Free(d, MaskErr)
       /\ Free(d, ZeroVec) /\ Free(a, Clears) /\ Free(b, Clears) /\ Free(c, Clears)
  <2>1. \A e \in Clears : e \in EsrOps
    BY DEF Clears, EsrOps
  <2>2. /\ MaskErr \cap Clears = {} /\ MaskAcc \cap Clears = {} /\ CleanAcc \cap Clears = {}
        /\ MaskErr \cap ZeroVec = {} /\ EsrOps \cap ZeroVec = {}
        /\ MaskAcc \cap MaskErr = {} /\ CleanAcc \cap MaskErr = {} /\ EsrOps \cap MaskErr = {}
    BY <2>1, Distinct
  <2>3. Free(a, ZeroVec) /\ Free(a, Clears)
    BY <1>1, <2>2, FreeOutside
  <2>4. Free(b, MaskErr) /\ Free(b, Clears)
    BY <1>2, <2>2, FreeOutside
  <2>5. Free(c, MaskErr) /\ Free(c, Clears)
    BY <1>3, <2>2, FreeOutside
  <2>6. Free(d, MaskErr) /\ Free(d, ZeroVec)
    BY <1>4, <2>2, FreeOutside
  <2> QED BY <2>3, <2>4, <2>5, <2>6
<1>11. ASSUME NEW r \in CleanRegs
       PROVE  /\ Free(a, {Write(r, Clean)}) /\ Free(b, {Write(r, Clean)}) /\ Free(d, {Write(r, Clean)})
              /\ Free(c, {SetMask(r)} \cup MaskErr) /\ Free(d, {SetMask(r)} \cup MaskErr)
  <2>1. /\ MaskErr \cap {Write(r, Clean)} = {} /\ MaskAcc \cap {Write(r, Clean)} = {}
        /\ EsrOps \cap {Write(r, Clean)} = {}
    <3>1. Write(r, Clean) \in CleanAcc
      BY DEF CleanAcc
    <3> QED BY <3>1, Distinct
  <2>2. CleanAcc \cap ({SetMask(r)} \cup MaskErr) = {} /\ EsrOps \cap ({SetMask(r)} \cup MaskErr) = {}
    <3>1. \A q \in CleanRegs : Write(q, Clean) # SetMask(r)
      BY DEF SetMask, Write
    <3>2. \A e \in EsrOps : e # SetMask(r)
      BY DEF SetMask, EsrOps, Op
    <3> QED BY <3>1, <3>2, Distinct DEF CleanAcc
  <2> QED BY <2>1, <2>2, <1>1, <1>2, <1>3, <1>4, FreeOutside
<1>12. Ordered(clear_local_APIC, ZeroVec, MaskErr)
  BY <1>7, <1>10, FreeOrdered
<1>13. Ordered(clear_local_APIC, Clears, ZeroVec)
  BY <1>7, <1>10, FreeOrdered
<1>14. ASSUME NEW r \in CleanRegs
       PROVE  /\ Ordered(clear_local_APIC, {Write(r, Clean)}, {SetMask(r)} \cup MaskErr)
              /\ Has(r) <=> ~Free(clear_local_APIC, {Write(r, Clean)})
              /\ Has(r) /\ r # "LVTERR" => ~Free(clear_local_APIC, {SetMask(r)})
  <2>1. Ordered(clear_local_APIC, {Write(r, Clean)}, {SetMask(r)} \cup MaskErr)
    BY <1>7, <1>11, FreeOrdered
  <2>2. Has(r) <=> ~Free(clear_local_APIC, {Write(r, Clean)})
    BY <1>3, <1>7, <1>11
  <2>3. Has(r) /\ r # "LVTERR" => ~Free(clear_local_APIC, {SetMask(r)})
    BY <1>2, <1>7
  <2> QED BY <2>1, <2>2, <2>3
<1> QED BY <1>1, <1>4, <1>7, <1>12, <1>13, <1>14

\* sysvec_error_interrupt forgets the errors and opens nothing.
LEMMA HandlerProgram ==
  /\ sysvec_error_interrupt \in Seq(HandlerAcc)
  /\ ~Free(sysvec_error_interrupt, Clears)
<1> DEFINE a == ClearEsr
<1> DEFINE b == <<Op("ack_APIC_irq")>>
<1>1. a \in Seq(HandlerAcc) /\ ~Free(a, Clears)
  BY ClearEsrPiece DEF HandlerAcc
<1>2. b \in Seq(HandlerAcc) /\ sysvec_error_interrupt = a \o b
  BY Literal DEF HandlerAcc, sysvec_error_interrupt
<1> HIDE DEF a, b
<1> QED BY <1>1, <1>2, FreeConcat

\* init_bsp_APIC, after clear_local_APIC, enables the APIC and then opens LINT0.
LEMMA EarlyProgram ==
  ASSUME hw.mapped
  PROVE  LET ext == {Write("LVT0", ExtInt)} IN
         /\ init_bsp_APIC \in Seq(EarlyAcc)
         /\ Ordered(init_bsp_APIC, ZeroVec, MaskErr) /\ ~Free(init_bsp_APIC, MaskErr)
         /\ ~Free(init_bsp_APIC, SpivOn) /\ ~Free(init_bsp_APIC, ext)
         /\ Ordered(init_bsp_APIC, ext, SpivOn \cup {SetMask("LVT0"), Write("LVT0", Clean)})
<1> DEFINE ext == {Write("LVT0", ExtInt)}
<1> DEFINE K == SpivOn \cup {SetMask("LVT0"), Write("LVT0", Clean)}
<1> DEFINE a == clear_local_APIC
<1> DEFINE x == Write("SPIV", Spiv("spurious", TRUE))
<1> DEFINE y == Write("LVT0", ExtInt)
<1> DEFINE z == Write("LVT1", Entry("nmi", hw.extnmi = "none"))
<1> DEFINE b == <<x, y>>
<1> DEFINE c == <<z>>
<1>1. a \in Seq(EarlyAcc) /\ Ordered(a, ZeroVec, MaskErr) /\ ~Free(a, MaskErr)
  BY ClearProgram DEF EarlyAcc
<1>2. Free(a, ext)
  <2>1. ClearAcc \cap ext = {}
    BY DEF ClearAcc, MaskErr, MaskAcc, CleanAcc, EsrOps, Write, SetMask, Op, Clean, ExtInt, Entry
  <2> QED BY <2>1, ClearProgram, FreeOutside
<1>3. x \in SpivOn /\ y \in ext /\ y \notin K /\ x \notin MaskErr /\ y \notin MaskErr /\ x \notin ext
  BY DEF SpivOn, MaskErr, Write, SetMask, Clean, ExtInt, Entry
<1>4. z \notin K /\ z \notin MaskErr /\ z \notin ext
  BY DEF SpivOn, MaskErr, Write, SetMask, Clean, ExtInt, Entry
<1>5. x \in EarlyAcc /\ y \in EarlyAcc /\ z \in EarlyAcc
  BY <1>3 DEF EarlyAcc
<1>6. init_bsp_APIC = (a \o b) \o c
  BY DEF init_bsp_APIC, ExtInt
<1> HIDE DEF a, x, y, z, ext, K
<1>7. /\ b \in Seq(EarlyAcc) /\ c \in Seq(EarlyAcc)
      /\ Free(b, MaskErr) /\ Free(c, MaskErr) /\ ~Free(b, SpivOn) /\ ~Free(b, ext)
      /\ Ordered(b, ext, K) /\ Free(c, K) /\ Free(c, ext)
  BY <1>3, <1>4, <1>5, Literal
<1> HIDE DEF b, c
<1>8. /\ init_bsp_APIC \in Seq(EarlyAcc)
      /\ \A X : Free(init_bsp_APIC, X) <=> Free(a, X) /\ Free(b, X) /\ Free(c, X)
      /\ \A X, Y : Ordered(init_bsp_APIC, X, Y)
           <=> /\ Ordered(a, X, Y) /\ Ordered(b, X, Y) /\ Ordered(c, X, Y)
               /\ Free(a, X) \/ (Free(b, Y) /\ Free(c, Y))
               /\ Free(b, X) \/ Free(c, Y)
  <2>1. a \in Seq(EarlyAcc) /\ b \in Seq(EarlyAcc) /\ c \in Seq(EarlyAcc)
    BY <1>1, <1>7
  <2>2. a \in Seq(Acc) /\ b \in Seq(Acc) /\ c \in Seq(Acc)
    BY <2>1, AccTypes, SeqSubset
  <2>3. (a \o b) \o c \in Seq(EarlyAcc)
    BY <2>1
  <2> HIDE DEF init_bsp_APIC
  <2> QED BY <1>6, <2>2, <2>3, Concat3, Zenon
<1>9. Ordered(init_bsp_APIC, ZeroVec, MaskErr)
  BY <1>1, <1>7, <1>8, FreeOrdered
<1>10. Ordered(init_bsp_APIC, ext, K)
  BY <1>2, <1>7, <1>8, FreeOrdered
<1> QED BY <1>1, <1>7, <1>8, <1>9, <1>10 DEF ext, K

\* setup_local_APIC: disable, set the task priority, wait until the stale interrupts
\* are gone, enable, and only then set up the pins.
LEMMA SetupHead ==
  LET h == setup_local_APIC IN
  /\ h \in Seq(SetupAcc) /\ Free(h, Opens) /\ Free(h, Clears)
  /\ Ordered(h, SpivOn, SpivOff \cup {Op("taskpri"), Op("pending_intr_clear")})
  /\ Ordered(h, {Op("pending_intr_clear")}, SpivOff) /\ Ordered(h, {Op("lvt0")}, SpivOn)
  /\ ~Free(h, SpivOn) /\ ~Free(h, {Op("taskpri")}) /\ ~Free(h, {Op("pending_intr_clear")})
  /\ ~Free(h, {Op("lvt0")})
<1> DEFINE K == SpivOff \cup {Op("taskpri"), Op("pending_intr_clear")}
<1> DEFINE tp == {Op("taskpri")}
<1> DEFINE pc == {Op("pending_intr_clear")}
<1> DEFINE lv == {Op("lvt0")}
<1> DEFINE x == Op("spiv_off")
<1> DEFINE y == Write("LDR", "set")
<1> DEFINE z == Op("taskpri")
<1> DEFINE w == Op("pending_intr_clear")
<1> DEFINE u == Write("SPIV", Spiv("spurious", TRUE))
<1> DEFINE v == Write("LVTPC", Entry("nmi", FALSE))
<1> DEFINE l == Op("lvt0")
<1> DEFINE n == Write("LVT1", Lint1)
<1> DEFINE a == <<x, y, z, w>>
<1> DEFINE b == <<u>>
<1> DEFINE c == If(Has("LVTPC"), <<v>>)
<1> DEFINE d == <<l, n>>
<1>1. setup_local_APIC = (a \o b) \o (c \o d)
  BY DEF setup_local_APIC, Enable, Pins
<1>2. /\ x \in SetupAcc /\ y \in SetupAcc /\ z \in SetupAcc /\ w \in SetupAcc /\ u \in SetupAcc
      /\ v \in SetupAcc /\ l \in SetupAcc /\ n \in SetupAcc
  <2>1. n \in {Write("LVT1", Entry("nmi", m)) : m \in BOOLEAN}
    BY DEF Lint1
  <2> QED BY <2>1 DEF SetupAcc, SpivOff, SpivOn
<1>3. /\ x \notin SpivOn /\ y \notin SpivOn /\ z \notin SpivOn /\ w \notin SpivOn /\ u \in SpivOn
      /\ v \notin SpivOn /\ l \notin SpivOn /\ n \notin SpivOn
  BY DEF SpivOn, Op, Write
<1>4. /\ z \in tp /\ w \in pc /\ w \notin SpivOff /\ u \notin K /\ v \notin K /\ l \notin K /\ n \notin K
      /\ x \notin pc /\ y \notin pc /\ z \notin pc /\ u \notin pc /\ v \notin pc /\ l \notin pc /\ n \notin pc
  BY DEF SpivOff, Op, Write
<1>5. /\ x \notin lv /\ y \notin lv /\ z \notin lv /\ w \notin lv /\ u \notin lv /\ v \notin lv /\ l \in lv
      /\ n \notin lv
  BY DEF Op, Write
<1>6. /\ x \notin Opens /\ y \notin Opens /\ z \notin Opens /\ w \notin Opens /\ u \notin Opens /\ v \notin Opens
      /\ l \notin Opens /\ n \notin Opens
  BY DEF Opens, Op, Write, Restore, ErrorEntry, Entry
<1>7. /\ x \notin EsrOps /\ y \notin EsrOps /\ z \notin EsrOps /\ w \notin EsrOps /\ u \notin EsrOps
      /\ v \notin EsrOps /\ l \notin EsrOps /\ n \notin EsrOps
  BY DEF EsrOps, Op, Write
<1>8. SpivOff \subseteq K /\ Clears \subseteq EsrOps
  BY DEF Clears, EsrOps
<1>9. c = <<v>> \/ c = <<>>
  BY DEF If
<1> HIDE DEF x, y, z, w, u, v, l, n, K, tp, pc, lv, c
<1>10. /\ a \in Seq(SetupAcc) /\ b \in Seq(SetupAcc) /\ d \in Seq(SetupAcc)
       /\ Free(a, SpivOn) /\ ~Free(b, SpivOn) /\ Free(d, SpivOn)
       /\ ~Free(a, tp) /\ ~Free(a, pc) /\ Free(b, pc) /\ Free(d, pc)
       /\ Ordered(a, pc, SpivOff) /\ Free(b, K) /\ Free(d, K)
       /\ Free(a, lv) /\ Free(b, lv) /\ ~Free(d, lv)
       /\ Free(a, Opens) /\ Free(b, Opens) /\ Free(d, Opens)
       /\ Free(a, EsrOps) /\ Free(b, EsrOps) /\ Free(d, EsrOps)
  BY <1>2, <1>3, <1>4, <1>5, <1>6, <1>7, Literal, Literal4
<1>11. c \in Seq(SetupAcc) /\ Free(c, SpivOn) /\ Free(c, pc) /\ Free(c, K) /\ Free(c, lv)
       /\ Free(c, Opens) /\ Free(c, EsrOps)
  <2>1. CASE c = <<v>>
    BY <1>2, <1>3, <1>4, <1>5, <1>6, <1>7, <2>1, Literal
  <2>2. CASE c = <<>>
    <3>1. <<>> \in Seq(SetupAcc)
      OBVIOUS
    <3> QED BY <2>2, <3>1, FreeEmpty, Zenon
  <2> QED BY <1>9, <2>1, <2>2
<1> HIDE DEF a, b, d
<1>12. a \in Seq(Acc) /\ b \in Seq(Acc) /\ c \in Seq(Acc) /\ d \in Seq(Acc)
  BY <1>10, <1>11, AccTypes, SeqSubset
<1>13. setup_local_APIC = ((a \o b) \o c) \o d
  BY <1>1, <1>12
<1> DEFINE h == ((a \o b) \o c) \o d
<1>14. h \in Seq(SetupAcc)
  BY <1>10, <1>11
<1>15. \A X : Free(h, X) <=> Free(a, X) /\ Free(b, X) /\ Free(c, X) /\ Free(d, X)
  BY <1>12, Concat4, SMT
<1>16. \A X, Y : Ordered(h, X, Y)
         <=> /\ Ordered(a, X, Y) /\ Ordered(b, X, Y) /\ Ordered(c, X, Y) /\ Ordered(d, X, Y)
             /\ Free(a, X) \/ (Free(b, Y) /\ Free(c, Y) /\ Free(d, Y))
             /\ Free(b, X) \/ (Free(c, Y) /\ Free(d, Y))
             /\ Free(c, X) \/ Free(d, Y)
  BY <1>12, Concat4, SMT
<1> HIDE DEF h
<1>17. Free(h, Opens) /\ Free(h, EsrOps) /\ ~Free(h, SpivOn) /\ ~Free(h, tp) /\ ~Free(h, pc) /\ ~Free(h, lv)
  BY <1>10, <1>11, <1>15
<1>18. Free(h, Clears)
  BY <1>8, <1>17, FreeSubset
<1>19. Ordered(h, SpivOn, K)
  BY <1>10, <1>11, <1>16, FreeOrdered
<1>20. Free(b, SpivOff) /\ Free(c, SpivOff) /\ Free(d, SpivOff)
  BY <1>8, <1>10, <1>11, FreeSubset
<1>21. Ordered(h, pc, SpivOff)
  BY <1>10, <1>11, <1>16, <1>20, FreeOrdered
<1>22. Ordered(h, lv, SpivOn)
  BY <1>10, <1>11, <1>16, FreeOrdered
<1>23. setup_local_APIC = h
  BY <1>13 DEF h
<1> QED BY <1>14, <1>17, <1>18, <1>19, <1>21, <1>22, <1>23 DEF K, tp, pc, lv

\* end_local_APIC_setup: LVTERR is opened once, and the errors are forgotten before
\* it and again after it.
TailAcc == EsrOps \cup {Write("LVTERR", ErrorEntry), Op("pm_activate")}
\* end_local_APIC_setup: ESR is cleared before LVTERR is opened and after.
LEMMA SetupTail ==
  LET t == end_local_APIC_setup IN
  /\ t \in Seq(TailAcc) /\ ~Free(t, Opens) /\ Ordered(t, Opens, Opens) /\ ~Free(t, {Op("pm_activate")})
  /\ ~Ordered(t, Clears, Opens) /\ ~Ordered(t, Opens, Clears)
<1> DEFINE pa == {Op("pm_activate")}
<1> DEFINE x == Write("LVTERR", ErrorEntry)
<1> DEFINE y == Op("pm_activate")
<1> DEFINE a == ClearEsr
<1> DEFINE b == <<x>>
<1> DEFINE c == <<y>>
<1>1. end_local_APIC_setup = ((a \o b) \o a) \o c
  BY DEF end_local_APIC_setup, lapic_setup_esr, ErrorEntry
<1>2. x \in TailAcc /\ x \in Opens /\ y \in TailAcc /\ y \notin Opens /\ y \in pa
  BY DEF TailAcc, Opens, Op, Write, Restore
<1>3. EsrOps \cap Opens = {}
  BY DEF EsrOps, Opens, Op, Write, Restore
<1>4. a \in Seq(EsrOps) /\ ~Free(a, Clears) /\ Free(a, Opens)
  BY <1>3, ClearEsrPiece, FreeOutside
<1> HIDE DEF x, y, a, pa
<1>5. /\ b \in Seq(TailAcc) /\ c \in Seq(TailAcc) /\ ~Free(b, Opens) /\ Free(c, Opens) /\ ~Free(c, pa)
      /\ Ordered(b, Opens, Opens)
  BY <1>2, Literal
<1>6. a \in Seq(TailAcc)
  BY <1>4 DEF TailAcc
<1> HIDE DEF b, c
<1>7. a \in Seq(Acc) /\ b \in Seq(Acc) /\ c \in Seq(Acc)
  <2>1. TailAcc \subseteq SetupAcc
    BY DEF TailAcc, SetupAcc, HandlerAcc
  <2> QED BY <1>5, <1>6, <2>1, AccTypes, SeqSubset
<1> DEFINE t == ((a \o b) \o a) \o c
<1>8. t \in Seq(TailAcc)
  BY <1>5, <1>6
<1>9. \A X : Free(t, X) <=> Free(a, X) /\ Free(b, X) /\ Free(c, X)
  BY <1>7, Concat4, SMT
<1>10. \A X, Y : Ordered(t, X, Y)
         <=> /\ Ordered(a, X, Y) /\ Ordered(b, X, Y) /\ Ordered(c, X, Y)
             /\ Free(a, X) \/ (Free(b, Y) /\ Free(a, Y) /\ Free(c, Y))
             /\ Free(b, X) \/ (Free(a, Y) /\ Free(c, Y))
             /\ Free(a, X) \/ Free(c, Y)
  BY <1>7, Concat4, SMT
<1> HIDE DEF t
<1>11. ~Free(t, Opens) /\ ~Free(t, pa)
  BY <1>5, <1>9
<1>12. Ordered(t, Opens, Opens)
  BY <1>4, <1>5, <1>10, FreeOrdered
<1>13. ~Ordered(t, Clears, Opens) /\ ~Ordered(t, Opens, Clears)
  BY <1>4, <1>5, <1>10
<1>14. end_local_APIC_setup = t
  BY <1>1 DEF t
<1> QED BY <1>8, <1>11, <1>12, <1>13, <1>14 DEF pa

\* The setup of a processor is the two together.
SetupReady(s) ==
  /\ s \in Seq(SetupAcc)
  /\ Ordered(s, SpivOn, SpivOff \cup {Op("taskpri"), Op("pending_intr_clear")})
  /\ Ordered(s, {Op("pending_intr_clear")}, SpivOff) /\ Ordered(s, {Op("lvt0")}, SpivOn)
  /\ Ordered(s, Opens, SpivOn \cup {Op("pending_intr_clear")}) /\ Ordered(s, Opens, Opens)
  /\ ~Free(s, SpivOn) /\ ~Free(s, {Op("taskpri")}) /\ ~Free(s, {Op("pending_intr_clear")})
  /\ ~Free(s, {Op("lvt0")}) /\ ~Free(s, Opens) /\ ~Free(s, {Op("pm_activate")})
  /\ ~Ordered(s, Clears, Opens) /\ ~Ordered(s, Opens, Clears)
\* apic_ap_setup, on any APIC.
LEMMA ApSetup == SetupReady(apic_ap_setup)
<1> DEFINE K == SpivOff \cup {Op("taskpri"), Op("pending_intr_clear")}
<1> DEFINE L == SpivOn \cup {Op("pending_intr_clear")}
<1> DEFINE tp == {Op("taskpri")}
<1> DEFINE pc == {Op("pending_intr_clear")}
<1> DEFINE lv == {Op("lvt0")}
<1> DEFINE pa == {Op("pm_activate")}
<1> DEFINE h == setup_local_APIC
<1> DEFINE t == end_local_APIC_setup
<1> DEFINE s == h \o t
<1>1. /\ TailAcc \cap K = {} /\ TailAcc \cap L = {} /\ TailAcc \cap SpivOn = {} /\ TailAcc \cap SpivOff = {}
      /\ TailAcc \cap tp = {} /\ TailAcc \cap pc = {} /\ TailAcc \cap lv = {} /\ TailAcc \subseteq SetupAcc
  <2>1. \A e \in TailAcc : e \notin K /\ e \notin SpivOn /\ e \notin lv
    BY DEF TailAcc, EsrOps, SpivOn, SpivOff, ErrorEntry, Entry, Op, Write, Spiv
  <2>2. TailAcc \subseteq SetupAcc
    BY DEF TailAcc, SetupAcc, HandlerAcc
  <2> QED BY <2>1, <2>2
<1>2. /\ h \in Seq(SetupAcc) /\ Free(h, Opens) /\ Ordered(h, SpivOn, K) /\ Ordered(h, pc, SpivOff)
      /\ Ordered(h, lv, SpivOn) /\ ~Free(h, SpivOn) /\ ~Free(h, tp) /\ ~Free(h, pc) /\ ~Free(h, lv)
  BY SetupHead
<1>3. /\ t \in Seq(TailAcc) /\ ~Free(t, Opens) /\ Ordered(t, Opens, Opens) /\ ~Free(t, pa)
      /\ ~Ordered(t, Clears, Opens) /\ ~Ordered(t, Opens, Clears)
  BY SetupTail
<1>4. apic_ap_setup = s
  BY DEF apic_ap_setup
<1> HIDE DEF h, t, K, L, tp, pc, lv, pa
<1>5. Free(t, K) /\ Free(t, L) /\ Free(t, SpivOn) /\ Free(t, SpivOff) /\ Free(t, pc) /\ Free(t, lv)
  BY <1>1, <1>3, FreeOutside
<1>6. h \in Seq(SetupAcc) /\ t \in Seq(SetupAcc)
  BY <1>1, <1>2, <1>3, SeqSubset
<1>7. s \in Seq(SetupAcc) /\ \A X : Free(s, X) <=> Free(h, X) /\ Free(t, X)
  BY <1>6, FreeConcat, Zenon
<1>8. \A X, Y : Ordered(s, X, Y) <=> /\ Ordered(h, X, Y) /\ Ordered(t, X, Y)
                                     /\ Free(h, X) \/ Free(t, Y)
  BY <1>6, OrderedConcat, Zenon
<1> HIDE DEF s
<1>9. Ordered(s, SpivOn, K) /\ Ordered(s, pc, SpivOff) /\ Ordered(s, lv, SpivOn)
  BY <1>2, <1>5, <1>8, FreeOrdered
<1>10. Ordered(s, Opens, L) /\ Ordered(s, Opens, Opens)
  BY <1>2, <1>3, <1>5, <1>8, FreeOrdered
<1>11. ~Free(s, SpivOn) /\ ~Free(s, tp) /\ ~Free(s, pc) /\ ~Free(s, lv) /\ ~Free(s, Opens) /\ ~Free(s, pa)
  BY <1>2, <1>3, <1>7
<1>12. ~Ordered(s, Clears, Opens) /\ ~Ordered(s, Opens, Clears)
  BY <1>3, <1>8
<1> QED BY <1>4, <1>7, <1>9, <1>10, <1>11, <1>12 DEF SetupReady, K, L, tp, pc, lv, pa

\* The same with the ID written first.
LEMMA BspSetup ==
  ASSUME NEW upmode \in BOOLEAN, ~hw.disable_apic
  PROVE  SetupReady(apic_bsp_setup(upmode))
<1> DEFINE x == Write("ID", "set")
<1> DEFINE t == apic_ap_setup
<1> DEFINE p == <<x>>
<1>1. SetupReady(t)
  BY ApSetup
<1>2. apic_bsp_setup(upmode) = p \o t \/ apic_bsp_setup(upmode) = <<>> \o t
  BY DEF apic_bsp_setup, If
<1>3. t \in Seq(SetupAcc)
  BY <1>1 DEF SetupReady
<1>4. <<>> \o t = t
  BY <1>3
<1>5. CASE apic_bsp_setup(upmode) = p \o t
  <2> DEFINE s == p \o t
  <2> DEFINE K == SpivOff \cup {Op("taskpri"), Op("pending_intr_clear")}
  <2> DEFINE pc == {Op("pending_intr_clear")}
  <2> DEFINE lv == {Op("lvt0")}
  <2>1. x \notin SpivOn /\ x \notin pc /\ x \notin lv /\ x \notin Opens /\ x \in SetupAcc
    BY DEF SpivOn, Opens, Write, Restore, Op, SetupAcc
  <2> HIDE DEF x, K, pc, lv
  <2>2. p \in Seq(SetupAcc) /\ Free(p, SpivOn) /\ Free(p, pc) /\ Free(p, lv) /\ Free(p, Opens)
    BY <2>1, Literal
  <2> HIDE DEF p, t
  <2>3. s \in Seq(SetupAcc) /\ \A X : Free(s, X) <=> Free(p, X) /\ Free(t, X)
    BY <1>3, <2>2, FreeConcat, Zenon
  <2>4. \A X, Y : Ordered(s, X, Y) <=> /\ Ordered(p, X, Y) /\ Ordered(t, X, Y)
                                       /\ Free(p, X) \/ Free(t, Y)
    BY <1>3, <2>2, OrderedConcat, Zenon
  <2> HIDE DEF s
  <2>5. Ordered(s, SpivOn, K)
    BY <1>1, <2>2, <2>4, FreeOrdered DEF SetupReady, K
  <2>6. Ordered(s, pc, SpivOff) /\ Ordered(s, lv, SpivOn)
    BY <1>1, <2>2, <2>4, FreeOrdered DEF SetupReady, pc, lv
  <2>7. Ordered(s, Opens, SpivOn \cup pc) /\ Ordered(s, Opens, Opens)
    BY <1>1, <2>2, <2>4, FreeOrdered DEF SetupReady, pc
  <2>8. ~Ordered(s, Clears, Opens) /\ ~Ordered(s, Opens, Clears)
    BY <1>1, <2>4 DEF SetupReady
  <2>9. SetupReady(s)
    BY <1>1, <2>3, <2>5, <2>6, <2>7, <2>8 DEF SetupReady, K, pc, lv
  <2> QED BY <1>5, <2>9 DEF s
<1>6. CASE apic_bsp_setup(upmode) = <<>> \o t
  BY <1>1, <1>4, <1>6
<1> QED BY <1>2, <1>5, <1>6

\* Shutting a mapped APIC down: clear_local_APIC and, last, its enable bit.
Clearing(s) ==
  /\ Ordered(s, ZeroVec, MaskErr) /\ Ordered(s, Clears, ZeroVec)
  /\ ~Free(s, MaskErr) /\ ~Free(s, Clears) /\ ~Free(s, SpivOff)
  /\ \A r \in CleanRegs :
       /\ Ordered(s, {Write(r, Clean)}, {SetMask(r)} \cup MaskErr)
       /\ Has(r) <=> ~Free(s, {Write(r, Clean)})
       /\ Has(r) /\ r # "LVTERR" => ~Free(s, {SetMask(r)})

\* Shutting any APIC down: where the early returns are taken nothing is cleared, and
\* only apic_soft_disable of another CPU than 0 takes the enable bit.
DownReady(s) ==
  /\ s \in Seq(DownAcc)
  /\ hw.mapped => Clearing(s)
  /\ ~hw.mapped => Free(s, ClearAcc \cup ZeroVec) /\ (hw.cpu # 0 => ~Free(s, SpivOff))

\* What is around clear_local_APIC disturbs none of this.
LEMMA DownExtend ==
  ASSUME NEW a \in Seq(DownAcc), NEW b \in Seq(DownAcc), NEW s, s = a \o b, hw.mapped,
         \/ /\ a = clear_local_APIC /\ b = <<Op("spiv_off")>>
         \/ /\ a = <<Op("save"), Op("mask_ioapic_entries")>> /\ DownReady(b)
  PROVE  DownReady(s)
<1>1. s \in Seq(DownAcc) /\ \A X : Free(s, X) <=> Free(a, X) /\ Free(b, X)
  BY FreeConcat, Zenon
<1>2. \A X, Y : Ordered(s, X, Y) <=> /\ Ordered(a, X, Y) /\ Ordered(b, X, Y)
                                     /\ Free(a, X) \/ Free(b, Y)
  BY OrderedConcat, Zenon
<1> DEFINE M(r) == {SetMask(r)} \cup MaskErr
<1> DEFINE W(r) == {Write(r, Clean)}
<1> DEFINE x == Op("spiv_off")
<1> DEFINE y == Op("save")
<1> DEFINE z == Op("mask_ioapic_entries")
<1>3. /\ x \notin MaskErr /\ x \notin ZeroVec /\ x \notin Clears /\ x \in SpivOff
      /\ y \notin MaskErr /\ y \notin ZeroVec /\ y \notin Clears
      /\ z \notin MaskErr /\ z \notin ZeroVec /\ z \notin Clears
  BY DEF MaskErr, ZeroVec, Clears, SpivOff, Op, Write, SetMask, Restore
<1>4. ASSUME NEW r \in CleanRegs
      PROVE  /\ x \notin M(r) /\ x \notin W(r) /\ y \notin M(r) /\ y \notin W(r)
             /\ z \notin M(r) /\ z \notin W(r)
  BY DEF MaskErr, Op, Write, SetMask
<1>5. ASSUME NEW r \in CleanRegs, Free(s, {SetMask(r)})
      PROVE  Free(a, {SetMask(r)}) /\ Free(b, {SetMask(r)})
  BY <1>1, <1>5
<1> HIDE DEF x, y, z, W, M
<1>6. CASE a = clear_local_APIC /\ b = <<x>>
  <2>1. Free(b, MaskErr) /\ Free(b, ZeroVec) /\ Free(b, Clears) /\ ~Free(b, SpivOff)
    BY <1>3, <1>6, Literal
  <2>2. /\ Ordered(a, ZeroVec, MaskErr) /\ Ordered(a, Clears, ZeroVec)
        /\ ~Free(a, MaskErr) /\ ~Free(a, Clears)
    BY <1>6, ClearProgram
  <2>3. ASSUME NEW r \in CleanRegs
        PROVE  /\ Ordered(s, W(r), M(r)) /\ (Has(r) <=> ~Free(s, W(r)))
               /\ Has(r) /\ r # "LVTERR" => ~Free(s, {SetMask(r)})
    <3>1. /\ Ordered(a, W(r), M(r)) /\ (Has(r) <=> ~Free(a, W(r)))
          /\ Has(r) /\ r # "LVTERR" => ~Free(a, {SetMask(r)})
      BY <1>6, <2>3, ClearProgram DEF W, M
    <3>2. Free(b, M(r)) /\ Free(b, W(r))
      BY <1>4, <1>6, Literal
    <3> QED BY <1>1, <1>2, <1>5, <3>1, <3>2, FreeOrdered
  <2>4. Ordered(s, ZeroVec, MaskErr) /\ Ordered(s, Clears, ZeroVec)
    BY <1>2, <2>1, <2>2, FreeOrdered
  <2> QED BY <1>1, <2>1, <2>2, <2>3, <2>4 DEF DownReady, Clearing, W, M
<1>7. CASE a = <<y, z>> /\ DownReady(b)
  <2>1. Free(a, MaskErr) /\ Free(a, ZeroVec) /\ Free(a, Clears)
    BY <1>3, <1>7, Literal
  <2>2. /\ Ordered(b, ZeroVec, MaskErr) /\ Ordered(b, Clears, ZeroVec)
        /\ ~Free(b, MaskErr) /\ ~Free(b, Clears) /\ ~Free(b, SpivOff)
    BY <1>7 DEF DownReady, Clearing
  <2>3. ASSUME NEW r \in CleanRegs
        PROVE  /\ Ordered(s, W(r), M(r)) /\ (Has(r) <=> ~Free(s, W(r)))
               /\ Has(r) /\ r # "LVTERR" => ~Free(s, {SetMask(r)})
    <3>1. /\ Ordered(b, W(r), M(r)) /\ (Has(r) <=> ~Free(b, W(r)))
          /\ Has(r) /\ r # "LVTERR" => ~Free(b, {SetMask(r)})
      BY <1>7, <2>3 DEF DownReady, Clearing, W, M
    <3>2. Free(a, M(r)) /\ Free(a, W(r))
      BY <1>4, <1>7, Literal
    <3> QED BY <1>1, <1>2, <1>5, <3>1, <3>2, FreeOrdered
  <2>4. Ordered(s, ZeroVec, MaskErr) /\ Ordered(s, Clears, ZeroVec)
    BY <1>2, <2>1, <2>2, FreeOrdered
  <2> QED BY <1>1, <2>1, <2>2, <2>3, <2>4 DEF DownReady, Clearing, W, M
<1> QED BY <1>6, <1>7 DEF x, y, z

\* lapic_suspend saves the registers first and masks the IO-APIC second.
SuspendReady(s) ==
  /\ DownReady(s) /\ ~Free(s, {Op("save")}) /\ ~Free(s, {Op("mask_ioapic_entries")})
  /\ Ordered(s, Others, {Op("save")})
  /\ Ordered(s, SpivOff \cup {Restore("SPIV")}, {Op("mask_ioapic_entries")})
\* Where clear_local_APIC returns early there is little to order.
LEMMA DownUnmapped ==
  ASSUME ~hw.mapped, NEW s \in Seq({Op("spiv_off"), Op("save"), Op("mask_ioapic_entries")}),
         hw.cpu # 0 => ~Free(s, SpivOff)
  PROVE  DownReady(s)
<1> DEFINE A == {Op("spiv_off"), Op("save"), Op("mask_ioapic_entries")}
<1>1. A \subseteq DownAcc
  BY DEF DownAcc, SpivOff
<1>2. A \cap (ClearAcc \cup ZeroVec) = {}
  <2>1. A \cap ZeroVec = {}
    BY DEF ZeroVec, Op, Write, SetMask, Restore
  <2>2. A \cap MaskErr = {} /\ A \cap CleanAcc = {} /\ A \cap EsrOps = {}
    BY DEF MaskErr, CleanAcc, EsrOps, Op, Write
  <2>3. A \cap MaskAcc = {}
    BY DEF MaskAcc, Op, SetMask
  <2> QED BY <2>1, <2>2, <2>3 DEF ClearAcc
<1> HIDE DEF A
<1>3. s \in Seq(A)
  BY DEF A
<1>4. s \in Seq(DownAcc)
  BY <1>1, <1>3, SeqSubset
<1>5. Free(s, ClearAcc \cup ZeroVec)
  BY <1>2, <1>3, FreeOutside
<1> QED BY <1>4, <1>5 DEF DownReady

\* The ways down: apic_soft_disable, lapic_shutdown and lapic_suspend.
LEMMA DownProgram ==
  ASSUME ~hw.disable_apic
  PROVE  /\ DownReady(apic_soft_disable)
         /\ hw.cpu = 0 => DownReady(lapic_shutdown)
         /\ hw.cpu = 0 /\ pm.active => SuspendReady(lapic_suspend)
<1> DEFINE a == clear_local_APIC
<1> DEFINE b == <<Op("spiv_off")>>
<1> DEFINE y == Op("save")
<1> DEFINE z == Op("mask_ioapic_entries")
<1> DEFINE i == <<y, z>>
<1> DEFINE d == apic_soft_disable
<1> DEFINE sv == {Op("save")}
<1> DEFINE mi == {Op("mask_ioapic_entries")}
<1> DEFINE K == SpivOff \cup {Restore("SPIV")}
<1>1. ClearAcc \subseteq DownAcc /\ y \in DownAcc /\ z \in DownAcc /\ Op("spiv_off") \in DownAcc
  BY DEF DownAcc, SpivOff
<1>2. i \in Seq(DownAcc) /\ b \in Seq(DownAcc)
  BY <1>1, Literal
<1>3. y \in sv /\ z \notin sv /\ y \notin Others /\ y \notin K /\ y \notin mi /\ z \in mi /\ z \notin K
  BY DEF Others, SpivOff, Op, Restore
<1>4. /\ ~Free(i, sv) /\ ~Free(i, mi) /\ Free(i, K)
      /\ Ordered(i, Others, sv) /\ Ordered(i, K, mi)
  <2> HIDE DEF y, z, sv, mi, K
  <2> QED BY <1>3, Literal
<1>5. CASE ~hw.mapped
  <2>1. DownReady(apic_soft_disable)
    <3>1. apic_soft_disable = b
      BY <1>5 DEF apic_soft_disable, clear_local_APIC, If
    <3>2. b \in Seq({Op("spiv_off"), y, z}) /\ ~Free(b, SpivOff)
      BY Literal DEF SpivOff
    <3> QED BY <1>5, <3>1, <3>2, DownUnmapped
  <2>2. disable_local_APIC = <<>>
    BY <1>5 DEF disable_local_APIC, If
  <2>3. ASSUME hw.cpu = 0 PROVE DownReady(lapic_shutdown)
    <3>1. lapic_shutdown = <<>>
      BY <2>2 DEF lapic_shutdown, If
    <3>2. lapic_shutdown \in Seq({Op("spiv_off"), y, z})
      BY <3>1, EmptySeq
    <3> QED BY <1>5, <2>3, <3>2, DownUnmapped
  <2>4. ASSUME hw.cpu = 0, pm.active PROVE SuspendReady(lapic_suspend)
    <3>1. lapic_suspend = i
      BY <2>2, <2>4 DEF lapic_suspend, If
    <3>2. i \in Seq({Op("spiv_off"), y, z})
      BY Literal
    <3>3. DownReady(i)
      BY <1>5, <2>4, <3>2, DownUnmapped
    <3> QED BY <1>4, <3>1, <3>3 DEF SuspendReady
  <2> QED BY <2>1, <2>3, <2>4
<1>6. CASE hw.mapped
  <2>1. a \in Seq(DownAcc)
    BY <1>1, <1>6, ClearProgram, SeqSubset
  <2>2. DownReady(d)
    BY <1>2, <1>6, <2>1, DownExtend DEF apic_soft_disable
  <2>3. d \in Seq(DownAcc) /\ disable_local_APIC = d /\ lapic_shutdown = d
    BY <1>6, <2>2 DEF DownReady, disable_local_APIC, lapic_shutdown, If
  <2>4. ASSUME pm.active PROVE SuspendReady(lapic_suspend)
    <3> DEFINE s == i \o d
    <3>1. lapic_suspend = s
      BY <2>3, <2>4 DEF lapic_suspend, If
    <3>2. DownReady(s)
      BY <1>2, <1>6, <2>2, <2>3, DownExtend
    <3>3. ClearAcc \cap sv = {} /\ ClearAcc \cap mi = {}
      <4>1. \A o \in {"save", "mask_ioapic_entries"} : Op(o) \notin EsrOps /\ Op(o) \notin MaskErr
        BY DEF MaskErr, EsrOps, Write, Op
      <4>2. \A o \in {"save", "mask_ioapic_entries"} : Op(o) \notin CleanAcc
        BY DEF CleanAcc, Write, Op
      <4>3. \A o \in {"save", "mask_ioapic_entries"} : Op(o) \notin MaskAcc
        BY DEF MaskAcc, SetMask, Op
      <4> QED BY <4>1, <4>2, <4>3 DEF ClearAcc
    <3>4. Free(d, sv) /\ Free(d, mi)
      <4>1. Free(a, sv) /\ Free(a, mi)
        BY <1>6, <3>3, ClearProgram, FreeOutside
      <4>2. Free(b, sv) /\ Free(b, mi)
        BY Literal DEF Op
      <4>3. d = a \o b
        BY DEF apic_soft_disable
      <4> HIDE DEF a, b, sv, mi, d
      <4> QED BY <1>2, <2>1, <4>1, <4>2, <4>3, FreeConcat
    <3> HIDE DEF y, z, sv, mi, K, d, i
    <3>5. \A X : Free(s, X) <=> Free(i, X) /\ Free(d, X)
      BY <1>2, <2>3, FreeConcat, Zenon
    <3>6. \A X, Y : Ordered(s, X, Y) <=> /\ Ordered(i, X, Y) /\ Ordered(d, X, Y)
                                         /\ Free(i, X) \/ Free(d, Y)
      BY <1>2, <2>3, OrderedConcat, Zenon
    <3> HIDE DEF s
    <3>7. Ordered(s, Others, sv) /\ Ordered(s, K, mi)
      BY <1>4, <3>4, <3>6, FreeOrdered
    <3>8. ~Free(s, sv) /\ ~Free(s, mi)
      BY <1>4, <3>5
    <3> QED BY <3>1, <3>2, <3>7, <3>8 DEF SuspendReady, K, sv, mi
  <2> QED BY <2>2, <2>3, <2>4
<1> QED BY <1>5, <1>6

\* An order holds for subsets too.
LEMMA OrderedSubset ==
  ASSUME NEW s, NEW X, NEW Y, NEW U \in SUBSET X, NEW V \in SUBSET Y, Ordered(s, X, Y)
  PROVE  Ordered(s, U, V)
BY DEF Ordered

\* lapic_resume: the IO-APIC and LVTERR are masked, the APIC is enabled, its entries
\* are restored, and LVTERR last, between two clearings of ESR.
EarlyRegs == {"ID", "LDR", "TASKPRI", "SPIV"}
RestoreLvt == {Restore(r) : r \in Lvt}
EnableAcc == {Restore("SPIV"), Restore("TASKPRI"), Op("mask_ioapic_entries")} \cup MaskErr
SpivSet == SpivOff \cup {Restore("SPIV")}
IoMask == {Op("mask_ioapic_entries")}
Late == RestoreLvt \cup ZeroVec \cup Opens \cup Clears

\* The first half of lapic_resume: LVTERR masked, then the registers up to SPIV.
LEMMA ResumeHead ==
  LET h == (<<Op("mask_ioapic_entries")>> \o MaskError)
             \o <<Restore("ID"), Restore("LDR"), Restore("TASKPRI"), Restore("SPIV")>> IN
  /\ h \in Seq(ResumeAcc) /\ Free(h, Late) /\ ~Free(h, MaskErr) /\ ~Free(h, IoMask)
  /\ \A r \in EarlyRegs : ~Free(h, {Restore(r)})
  /\ Ordered(h, {Restore("SPIV")}, {Restore("TASKPRI")}) /\ Ordered(h, SpivSet, IoMask)
<1> DEFINE x == Op("mask_ioapic_entries")
<1> DEFINE e == Write("LVTERR", Entry("error", TRUE))
<1> DEFINE i == Restore("ID")
<1> DEFINE l == Restore("LDR")
<1> DEFINE t == Restore("TASKPRI")
<1> DEFINE v == Restore("SPIV")
<1> DEFINE a == <<x>>
<1> DEFINE b == MaskError
<1> DEFINE c == <<i, l, t, v>>
<1> DEFINE h == (a \o b) \o c
<1>1. /\ x \in ResumeAcc /\ e \in ResumeAcc /\ i \in ResumeAcc /\ l \in ResumeAcc /\ t \in ResumeAcc
      /\ v \in ResumeAcc
  <2>1. \A r \in {"ID", "LDR", "TASKPRI", "SPIV"} : Restore(r) \in ResumeAcc
    BY DEF ResumeAcc, Regs
  <2> QED BY <2>1 DEF ResumeAcc, MaskErr
<1>2. \A y \in {x, e, i, l, t, v} : y \notin RestoreLvt /\ y \notin Clears
  <2>1. \A y \in {x, e, i, l, t, v} : y \notin Clears
    <3>1. x \notin EsrOps /\ e \notin EsrOps
      BY DEF EsrOps, Op, Write
    <3>2. \A r \in EarlyRegs : Restore(r) \notin EsrOps
      BY DEF EsrOps, Op, Restore
    <3>3. Clears \subseteq EsrOps
      BY DEF Clears, EsrOps
    <3> QED BY <3>1, <3>2, <3>3 DEF EarlyRegs
  <2>2. \A r \in Lvt : Restore(r) # x /\ Restore(r) # e
    BY DEF Op, Write, Restore
  <2>3. \A r \in Lvt, q \in EarlyRegs : Restore(r) # Restore(q)
    BY DEF Restore, Lvt, EarlyRegs
  <2>4. \A r \in Lvt : Restore(r) # i /\ Restore(r) # l /\ Restore(r) # t /\ Restore(r) # v
    BY <2>3 DEF EarlyRegs
  <2> QED BY <2>1, <2>2, <2>4 DEF RestoreLvt
<1>3. \A y \in {x, e, i, l, t, v} : y \notin Opens
  BY DEF Opens, Op, Write, Restore, ErrorEntry, Entry
<1>4. \A y \in {x, e, i, l, t, v} : y \notin ZeroVec
  BY DEF ZeroVec, Op, Write, Restore, SetMask, Lvt, Clean, Entry
<1>5. \A y \in {x, e, i, l, t, v} : y \notin Late
  BY <1>2, <1>3, <1>4 DEF Late
<1>6. /\ e \in MaskErr /\ x \in IoMask /\ e \notin IoMask /\ x \notin SpivSet
      /\ \A y \in {i, l, t, v} : y \notin IoMask
  BY DEF MaskErr, IoMask, SpivSet, SpivOff, Op, Write, Restore
<1>7. x \notin {v} /\ e \notin {v} /\ i \notin {v} /\ l \notin {v} /\ t \notin {v}
  BY DEF Op, Write, Restore
<1>8. b = <<e>>
  BY DEF MaskError
<1>9. \A r \in EarlyRegs : Restore(r) \in {i, l, t, v}
  BY DEF EarlyRegs
<1> HIDE DEF x, e, i, l, t, v, b
<1>10. /\ a \in Seq(ResumeAcc) /\ b \in Seq(ResumeAcc) /\ c \in Seq(ResumeAcc)
       /\ Free(a, Late) /\ Free(b, Late) /\ Free(c, Late)
       /\ ~Free(b, MaskErr) /\ ~Free(a, IoMask) /\ Free(b, IoMask) /\ Free(c, IoMask) /\ Free(a, SpivSet)
       /\ Free(a, {v}) /\ Free(b, {v})
  <2>1. c \in Seq(ResumeAcc) /\ Free(c, Late) /\ Free(c, IoMask)
    BY <1>1, <1>5, <1>6, Literal4
  <2>2. /\ a \in Seq(ResumeAcc) /\ Free(a, Late) /\ ~Free(a, IoMask) /\ Free(a, SpivSet) /\ Free(a, {v})
    BY <1>1, <1>5, <1>6, <1>7, Literal
  <2>3. b \in Seq(ResumeAcc) /\ Free(b, Late) /\ ~Free(b, MaskErr) /\ Free(b, IoMask) /\ Free(b, {v})
    BY <1>1, <1>5, <1>6, <1>7, <1>8, Literal
  <2> QED BY <2>1, <2>2, <2>3
<1>11. \A y \in {i, l, t, v} : ~Free(c, {y})
  BY Literal4
<1>12. Ordered(c, {v}, {t})
  BY <1>7, Literal4
<1> HIDE DEF a, c
<1>13. a \in Seq(Acc) /\ b \in Seq(Acc) /\ c \in Seq(Acc)
  BY <1>10, AccTypes, SeqSubset
<1>14. \A X : Free(h, X) <=> Free(a, X) /\ Free(b, X) /\ Free(c, X)
  BY <1>13, Concat3, Zenon
<1>15. \A X, Y : Ordered(h, X, Y) <=> /\ Ordered(a, X, Y) /\ Ordered(b, X, Y) /\ Ordered(c, X, Y)
                                      /\ Free(a, X) \/ (Free(b, Y) /\ Free(c, Y))
                                      /\ Free(b, X) \/ Free(c, Y)
  BY <1>13, Concat3, Zenon
<1>16. h \in Seq(ResumeAcc)
  BY <1>10
<1> HIDE DEF h
<1>17. /\ Free(h, Late) /\ ~Free(h, MaskErr) /\ ~Free(h, IoMask)
       /\ \A y \in {i, l, t, v} : ~Free(h, {y})
  BY <1>10, <1>11, <1>14
<1>18. Ordered(h, {v}, {t}) /\ Ordered(h, SpivSet, IoMask)
  BY <1>10, <1>12, <1>15, FreeOrdered
<1>19. \A r \in EarlyRegs : ~Free(h, {Restore(r)})
  BY <1>9, <1>17
<1> QED BY <1>16, <1>17, <1>18, <1>19 DEF h, a, b, c, x, e, i, l, t, v

\* Then the LVT entries, as many as the processor has.
LateAcc == RestoreLvt \cup {Restore("TIMER")} \cup EsrOps
\* What the second half of lapic_resume no longer touches.
LEMMA LateFree ==
  ASSUME NEW s \in Seq(LateAcc)
  PROVE  /\ s \in Seq(ResumeAcc) /\ Free(s, MaskErr) /\ Free(s, IoMask)
         /\ Free(s, {Restore("SPIV")}) /\ Free(s, {Restore("TASKPRI")})
<1>1. LateAcc \subseteq ResumeAcc
  <2>1. \A r \in Regs : Restore(r) \in ResumeAcc
    BY DEF ResumeAcc
  <2>2. "TIMER" \in Regs /\ Lvt \subseteq Regs
    BY DEF Regs
  <2> QED BY <2>1, <2>2 DEF LateAcc, RestoreLvt, ResumeAcc
<1>2. \A y \in LateAcc : y \notin MaskErr /\ y \notin IoMask
  <2>1. \A r \in Regs : Restore(r) \notin MaskErr /\ Restore(r) \notin IoMask
    BY DEF MaskErr, IoMask, Op, Write, Restore
  <2>2. \A y \in EsrOps : y \notin MaskErr /\ y \notin IoMask
    <3>1. \A o \in {"write_esr", "read_esr"} : Op(o) \notin MaskErr /\ Op(o) \notin IoMask
      BY DEF MaskErr, IoMask, Op, Write
    <3> QED BY <3>1 DEF EsrOps
  <2>3. "TIMER" \in Regs /\ Lvt \subseteq Regs
    BY DEF Regs
  <2> QED BY <2>1, <2>2, <2>3 DEF LateAcc, RestoreLvt
<1>3. \A y \in LateAcc : y # Restore("SPIV") /\ y # Restore("TASKPRI")
  BY DEF LateAcc, RestoreLvt, EsrOps, Lvt, Op, Restore
<1>4. LateAcc \cap MaskErr = {} /\ LateAcc \cap IoMask = {} /\ LateAcc \cap {Restore("SPIV")} = {}
      /\ LateAcc \cap {Restore("TASKPRI")} = {}
  BY <1>2, <1>3
<1> QED BY <1>1, <1>4, SeqSubset, FreeOutside

\* One optional entry of lapic_resume's second half.
LEMMA ResumeEntry ==
  ASSUME NEW r \in Lvt \ {"LVTERR"}
  PROVE  LET p == If(Has(r), <<Restore(r)>>) IN
         /\ p \in Seq(LateAcc) /\ Free(p, Opens) /\ Free(p, Clears)
         /\ Has(r) => ~Free(p, {Restore(r)})
<1> DEFINE x == Restore(r)
<1> DEFINE p == If(Has(r), <<x>>)
<1>1. x \in LateAcc /\ x \notin Opens /\ x \notin Clears
  BY DEF LateAcc, RestoreLvt, Opens, Clears, Op, Write, Restore
<1>2. (Has(r) /\ p = <<x>>) \/ (~Has(r) /\ p = <<>>)
  BY DEF If
<1> HIDE DEF x, p
<1>3. CASE Has(r) /\ p = <<x>>
  <2>1. p \in Seq(LateAcc) /\ Free(p, Opens) /\ Free(p, Clears) /\ ~Free(p, {x})
    BY <1>1, <1>3, Literal
  <2> QED BY <2>1 DEF x, p
<1>4. CASE ~Has(r) /\ p = <<>>
  <2>1. <<>> \in Seq(LateAcc)
    OBVIOUS
  <2>2. p \in Seq(LateAcc) /\ Free(p, Opens) /\ Free(p, Clears)
    BY <1>4, <2>1, FreeEmpty, Zenon
  <2> QED BY <1>4, <2>2 DEF p, x
<1> QED BY <1>2, <1>3, <1>4

\* The three last pieces.
LEMMA ResumeLast ==
  LET q == <<Restore("LVTT"), Restore("TIMER"), Op("write_esr"), Op("read_esr")>>
      t == <<Restore("LVTERR"), Op("write_esr"), Op("read_esr")>>
      p == <<Restore("LVT0"), Restore("LVT1")>> IN
  /\ p \in Seq(LateAcc) /\ Free(p, Opens) /\ Free(p, Clears)
  /\ ~Free(p, {Restore("LVT0")}) /\ ~Free(p, {Restore("LVT1")})
  /\ q \in Seq(LateAcc) /\ Free(q, Opens) /\ ~Free(q, Clears) /\ Ordered(q, Clears, ZeroVec)
  /\ ~Free(q, {Restore("LVTT")}) /\ ~Free(q, {Restore("TIMER")})
  /\ t \in Seq(LateAcc) /\ Free(t, ZeroVec) /\ Ordered(t, Opens, Opens) /\ ~Ordered(t, Opens, Clears)
  /\ ~Free(t, {Restore("LVTERR")}) /\ ~Free(t, Opens)
<1> DEFINE a == Restore("LVTT")
<1> DEFINE b == Restore("TIMER")
<1> DEFINE w == Op("write_esr")
<1> DEFINE r == Op("read_esr")
<1> DEFINE e == Restore("LVTERR")
<1> DEFINE x == Restore("LVT0")
<1> DEFINE y == Restore("LVT1")
<1> DEFINE q == <<a, b, w, r>>
<1> DEFINE t == <<e, w, r>>
<1> DEFINE p == <<x, y>>
<1>1. /\ a \in LateAcc /\ b \in LateAcc /\ w \in LateAcc /\ r \in LateAcc /\ e \in LateAcc /\ x \in LateAcc
      /\ y \in LateAcc
  <2>1. {a, e, x, y} \subseteq RestoreLvt
    BY DEF RestoreLvt, Lvt
  <2> QED BY <2>1 DEF LateAcc, EsrOps
<1>2. /\ a \notin Opens /\ b \notin Opens /\ w \notin Opens /\ r \notin Opens /\ e \in Opens /\ x \notin Opens
      /\ y \notin Opens
  BY DEF Opens, Op, Write, Restore
<1>3. /\ a \notin Clears /\ b \notin Clears /\ e \notin Clears /\ x \notin Clears /\ y \notin Clears
      /\ w \in Clears \/ r \in Clears
  BY DEF Clears, Op, Restore
<1>4. b \notin ZeroVec /\ w \notin ZeroVec /\ r \notin ZeroVec /\ e \notin ZeroVec
  BY DEF ZeroVec, Lvt, Op, Write, Restore, SetMask
<1> HIDE DEF a, b, w, r, e, x, y
<1>5. p \in Seq(LateAcc) /\ Free(p, Opens) /\ Free(p, Clears) /\ ~Free(p, {x}) /\ ~Free(p, {y})
  BY <1>1, <1>2, <1>3, Literal
<1>6. /\ q \in Seq(LateAcc) /\ Free(q, Opens) /\ ~Free(q, Clears) /\ Ordered(q, Clears, ZeroVec)
      /\ ~Free(q, {a}) /\ ~Free(q, {b})
  BY <1>1, <1>2, <1>3, <1>4, Literal4
<1>7. /\ t \in Seq(LateAcc) /\ Free(t, ZeroVec) /\ Ordered(t, Opens, Opens) /\ ~Ordered(t, Opens, Clears)
      /\ ~Free(t, {e}) /\ ~Free(t, Opens)
  BY <1>1, <1>2, <1>3, <1>4, Literal3
<1> QED BY <1>5, <1>6, <1>7 DEF a, b, w, r, e, x, y

\* All of lapic_resume.
ResumeReady(s) ==
  /\ s \in Seq(ResumeAcc)
  /\ Ordered(s, ZeroVec, MaskErr) /\ ~Free(s, MaskErr)
  /\ Ordered(s, Opens, ZeroVec) /\ Ordered(s, Opens, Opens) /\ Ordered(s, Clears, ZeroVec)
  /\ ~Ordered(s, Clears, Opens) /\ ~Ordered(s, Opens, Clears) /\ ~Free(s, Opens)
  /\ Ordered(s, SpivSet, IoMask) /\ ~Free(s, IoMask)
  /\ Ordered(s, {Restore("SPIV")}, {Restore("TASKPRI")})
  /\ Ordered(s, RestoreLvt, {Restore("SPIV")} \cup MaskErr)
  /\ \A r \in Regs : Has(r) => ~Free(s, {Restore(r)})
\* lapic_resume as a whole.
LEMMA ResumeProgram ==
  ASSUME pm.active
  PROVE  ResumeReady(lapic_resume)
<1> DEFINE h == (<<Op("mask_ioapic_entries")>> \o MaskError)
                  \o <<Restore("ID"), Restore("LDR"), Restore("TASKPRI"), Restore("SPIV")>>
<1> DEFINE a == <<Restore("LVT0"), Restore("LVT1")>>
<1> DEFINE b == If(Has("LVTTHMR"), <<Restore("LVTTHMR")>>)
<1> DEFINE c == If(Has("LVTCMCI"), <<Restore("LVTCMCI")>>)
<1> DEFINE d == If(Has("LVTPC"), <<Restore("LVTPC")>>)
<1> DEFINE e == <<Restore("LVTT"), Restore("TIMER"), Op("write_esr"), Op("read_esr")>>
<1> DEFINE f == <<Restore("LVTERR"), Op("write_esr"), Op("read_esr")>>
<1> DEFINE m == ((h \o a) \o b) \o c
<1> DEFINE s == ((m \o d) \o e) \o f
<1> DEFINE v == {Restore("SPIV")}
<1> DEFINE t == {Restore("TASKPRI")}
<1> DEFINE K == v \cup MaskErr
<1>1. lapic_resume = s
  BY DEF lapic_resume, If
<1>2. /\ h \in Seq(ResumeAcc) /\ Free(h, Late) /\ ~Free(h, MaskErr) /\ ~Free(h, IoMask)
      /\ \A r \in EarlyRegs : ~Free(h, {Restore(r)})
      /\ Ordered(h, v, t) /\ Ordered(h, SpivSet, IoMask)
  BY ResumeHead
<1>3. /\ a \in Seq(LateAcc) /\ Free(a, Opens) /\ Free(a, Clears)
      /\ ~Free(a, {Restore("LVT0")}) /\ ~Free(a, {Restore("LVT1")})
  BY ResumeLast
<1>4. /\ b \in Seq(LateAcc) /\ Free(b, Opens) /\ Free(b, Clears)
      /\ Has("LVTTHMR") => ~Free(b, {Restore("LVTTHMR")})
  BY ResumeEntry DEF Lvt
<1>5. /\ c \in Seq(LateAcc) /\ Free(c, Opens) /\ Free(c, Clears)
      /\ Has("LVTCMCI") => ~Free(c, {Restore("LVTCMCI")})
  BY ResumeEntry DEF Lvt
<1>6. /\ d \in Seq(LateAcc) /\ Free(d, Opens) /\ Free(d, Clears)
      /\ Has("LVTPC") => ~Free(d, {Restore("LVTPC")})
  BY ResumeEntry DEF Lvt
<1>7. /\ e \in Seq(LateAcc) /\ Free(e, Opens) /\ ~Free(e, Clears) /\ Ordered(e, Clears, ZeroVec)
      /\ ~Free(e, {Restore("LVTT")}) /\ ~Free(e, {Restore("TIMER")})
      /\ f \in Seq(LateAcc) /\ Free(f, ZeroVec) /\ Ordered(f, Opens, Opens) /\ ~Ordered(f, Opens, Clears)
      /\ ~Free(f, {Restore("LVTERR")}) /\ ~Free(f, Opens)
  BY ResumeLast
<1> HIDE DEF h, a, b, c, d, e, f, v, t
<1>8. /\ Free(h, Opens) /\ Free(h, Clears) /\ Free(h, ZeroVec) /\ Free(h, RestoreLvt)
  BY <1>2, FreeSubset DEF Late
<1>9. \A p \in {a, b, c, d, e, f} :
        /\ p \in Seq(ResumeAcc) /\ Free(p, MaskErr) /\ Free(p, IoMask) /\ Free(p, v) /\ Free(p, t)
  BY <1>3, <1>4, <1>5, <1>6, <1>7, LateFree DEF v, t
<1>10. \A p \in {a, b, c, d, e, f} : Free(p, K)
  BY <1>9 DEF Free
<1>11. \A p \in {h, a, b, c, d, e, f} : p \in Seq(Acc)
  BY <1>2, <1>9, AccTypes, SeqSubset
<1>12. \A X : Free(m, X) <=> Free(h, X) /\ Free(a, X) /\ Free(b, X) /\ Free(c, X)
  <2>1. h \in Seq(Acc) /\ a \in Seq(Acc) /\ b \in Seq(Acc) /\ c \in Seq(Acc)
    BY <1>11
  <2> QED BY <2>1, Concat4, SMT
<1>13. \A X, Y : Ordered(m, X, Y)
         <=> /\ Ordered(h, X, Y) /\ Ordered(a, X, Y) /\ Ordered(b, X, Y) /\ Ordered(c, X, Y)
             /\ Free(h, X) \/ (Free(a, Y) /\ Free(b, Y) /\ Free(c, Y))
             /\ Free(a, X) \/ (Free(b, Y) /\ Free(c, Y))
             /\ Free(b, X) \/ Free(c, Y)
  <2>1. h \in Seq(Acc) /\ a \in Seq(Acc) /\ b \in Seq(Acc) /\ c \in Seq(Acc)
    BY <1>11
  <2> QED BY <2>1, Concat4, SMT
<1>14. m \in Seq(ResumeAcc)
  BY <1>2, <1>9
<1> HIDE DEF m
<1>15. m \in Seq(Acc) /\ d \in Seq(Acc) /\ e \in Seq(Acc) /\ f \in Seq(Acc)
  BY <1>11, <1>14, AccTypes, SeqSubset
<1>16. \A X : Free(s, X) <=> Free(m, X) /\ Free(d, X) /\ Free(e, X) /\ Free(f, X)
  BY <1>15, Concat4, SMT
<1>17. \A X, Y : Ordered(s, X, Y)
         <=> /\ Ordered(m, X, Y) /\ Ordered(d, X, Y) /\ Ordered(e, X, Y) /\ Ordered(f, X, Y)
             /\ Free(m, X) \/ (Free(d, Y) /\ Free(e, Y) /\ Free(f, Y))
             /\ Free(d, X) \/ (Free(e, Y) /\ Free(f, Y))
             /\ Free(e, X) \/ Free(f, Y)
  BY <1>15, Concat4, SMT
<1>18. s \in Seq(ResumeAcc)
  BY <1>9, <1>14
<1> HIDE DEF s
<1>19. /\ Free(m, Opens) /\ Free(m, Clears) /\ ~Free(m, MaskErr) /\ ~Free(m, IoMask)
       /\ Ordered(m, v, t) /\ Ordered(m, SpivSet, IoMask)
  <2>1. Free(m, Opens) /\ Free(m, Clears) /\ ~Free(m, MaskErr) /\ ~Free(m, IoMask)
    BY <1>2, <1>3, <1>4, <1>5, <1>8, <1>12
  <2>2. Ordered(m, v, t) /\ Ordered(m, SpivSet, IoMask)
    BY <1>2, <1>9, <1>13, FreeOrdered
  <2> QED BY <2>1, <2>2
<1>20. Ordered(m, ZeroVec, MaskErr) /\ Ordered(m, RestoreLvt, K)
  BY <1>8, <1>9, <1>10, <1>13, FreeOrdered
<1>21. Ordered(s, ZeroVec, MaskErr) /\ Ordered(s, RestoreLvt, K)
  BY <1>9, <1>10, <1>17, <1>20, FreeOrdered
<1>22. Ordered(s, SpivSet, IoMask) /\ Ordered(s, v, t)
  BY <1>9, <1>17, <1>19, FreeOrdered
<1>23. ~Free(s, MaskErr) /\ ~Free(s, IoMask) /\ ~Free(s, Opens)
  BY <1>7, <1>16, <1>19
<1>24. Ordered(s, Opens, ZeroVec) /\ Ordered(s, Opens, Opens) /\ Ordered(s, Clears, ZeroVec)
  BY <1>6, <1>7, <1>17, <1>19, FreeOrdered
<1>25. ~Ordered(s, Clears, Opens) /\ ~Ordered(s, Opens, Clears)
  BY <1>7, <1>17
<1>26. ASSUME NEW r \in Regs, Has(r) PROVE ~Free(s, {Restore(r)})
  <2>1. CASE r \in EarlyRegs
    BY <1>2, <1>12, <1>16, <2>1
  <2>2. CASE r = "LVT0" \/ r = "LVT1"
    BY <1>3, <1>12, <1>16, <2>2
  <2>3. CASE r = "LVTTHMR"
    BY <1>4, <1>12, <1>16, <1>26, <2>3
  <2>4. CASE r = "LVTCMCI"
    BY <1>5, <1>12, <1>16, <1>26, <2>4
  <2>5. CASE r = "LVTPC"
    BY <1>6, <1>16, <1>26, <2>5
  <2>6. CASE r = "LVTT" \/ r = "TIMER" \/ r = "LVTERR"
    BY <1>7, <1>16, <2>6
  <2> QED BY <2>1, <2>2, <2>3, <2>4, <2>5, <2>6 DEF Regs, Lvt, EarlyRegs
<1> QED BY <1>1, <1>18, <1>21, <1>22, <1>23, <1>24, <1>25, <1>26 DEF ResumeReady, v, t

\* disconnect_bsp_APIC: enabled first, LINT1 opened last.
LEMMA DetachProgram ==
  ASSUME NEW virt_wire_setup \in BOOLEAN
  PROVE  LET s == disconnect_bsp_APIC(virt_wire_setup)
             y == {Write("LVT1", Entry("nmi", FALSE))} IN
         /\ s \in Seq(DetachAcc) /\ ~Free(s, SpivOn) /\ ~Free(s, y) /\ Ordered(s, y, SpivOn)
<1> DEFINE x == Write("SPIV", Spiv("legacy", TRUE))
<1> DEFINE w == Write("LVT0", IF virt_wire_setup THEN Clean ELSE Entry("extint", FALSE))
<1> DEFINE z == Write("LVT1", Entry("nmi", FALSE))
<1> DEFINE a == <<x>>
<1> DEFINE b == <<w>>
<1> DEFINE c == <<z>>
<1> DEFINE s == (a \o b) \o c
<1>1. disconnect_bsp_APIC(virt_wire_setup) = s
  BY DEF disconnect_bsp_APIC
<1>2. /\ x \in SpivOn /\ w \notin SpivOn /\ z \notin SpivOn /\ x # z /\ w # z
      /\ x \in DetachAcc /\ w \in DetachAcc /\ z \in DetachAcc
  <2>1. x \in SpivOn /\ w \notin SpivOn /\ z \notin SpivOn /\ x # z /\ w # z
    BY DEF SpivOn, Write
  <2>2. w = Write("LVT0", Clean) \/ w = Write("LVT0", ExtInt)
    BY DEF ExtInt
  <2> QED BY <2>1, <2>2 DEF DetachAcc
<1> HIDE DEF x, w, z
<1>3. /\ a \in Seq(DetachAcc) /\ b \in Seq(DetachAcc) /\ c \in Seq(DetachAcc)
      /\ ~Free(a, SpivOn) /\ Free(b, SpivOn) /\ Free(c, SpivOn)
      /\ Free(a, {z}) /\ Free(b, {z}) /\ ~Free(c, {z})
  BY <1>2, Literal
<1> HIDE DEF a, b, c
<1>4. a \in Seq(Acc) /\ b \in Seq(Acc) /\ c \in Seq(Acc)
  BY <1>3, AccTypes, SeqSubset
<1>5. s \in Seq(DetachAcc)
  BY <1>3
<1>6. ~Free(s, SpivOn) /\ ~Free(s, {z})
  <2>1. \A X : Free(s, X) <=> Free(a, X) /\ Free(b, X) /\ Free(c, X)
    BY <1>4, Concat3, Zenon
  <2> QED BY <1>3, <2>1
<1>7. Ordered(s, {z}, SpivOn)
  <2>1. \A X, Y : Ordered(s, X, Y) <=> /\ Ordered(a, X, Y) /\ Ordered(b, X, Y) /\ Ordered(c, X, Y)
                                       /\ Free(a, X) \/ (Free(b, Y) /\ Free(c, Y))
                                       /\ Free(b, X) \/ Free(c, Y)
    BY <1>4, Concat3, Zenon
  <2>2. Ordered(a, {z}, SpivOn) /\ Ordered(b, {z}, SpivOn) /\ Ordered(c, {z}, SpivOn)
    BY <1>3, FreeOrdered
  <2> HIDE DEF s
  <2> QED BY <1>3, <2>1, <2>2, Zenon
<1> QED BY <1>1, <1>5, <1>6, <1>7 DEF z

-----------------------------------------------------------------------------
(* Every step preserves the invariant.                                     *)

\* Which functions do not open LVTERR, and which do not write vector zero.
LEMMA Disjoint ==
  /\ EarlyAcc \cap Opens = {} /\ DownAcc \cap Opens = {} /\ DetachAcc \cap Opens = {}
  /\ HandlerAcc \cap Opens = {} /\ SetupAcc \cap ZeroVec = {} /\ HandlerAcc \cap ZeroVec = {}
  /\ DetachAcc \cap MaskErr = {}
<1>1. \A o : Op(o) \notin Opens /\ Op(o) \notin MaskErr
  BY DEF Opens, MaskErr, Op, Write, Restore
<1>2. \A e \in EsrOps : e \notin Opens
  BY <1>1 DEF EsrOps
<1>3. \A m \in BOOLEAN : Write("LVT1", Entry("nmi", m)) \notin Opens /\ Write("LVT1", Entry("nmi", m)) \notin MaskErr
  BY DEF Opens, MaskErr, Write, Restore
<1>4. \A r \in Lvt : SetMask(r) \notin Opens
  BY DEF Opens, SetMask, Write, Restore
<1>5. \A r \in Lvt : Write(r, Clean) \notin Opens
  BY DEF Opens, Write, Restore, Clean, ErrorEntry, Entry
<1>6. MaskErr \cap Opens = {}
  BY DEF MaskErr, Opens, Write, Restore, ErrorEntry, Entry
<1>7. SpivOn \cap Opens = {} /\ SpivOn \cap MaskErr = {}
  BY DEF SpivOn, Opens, MaskErr, Write, Restore
<1>8. Write("LVT0", ExtInt) \notin Opens /\ Write("LVT0", ExtInt) \notin MaskErr
      /\ Write("LVT0", Clean) \notin MaskErr
  BY DEF Opens, MaskErr, Write, Restore
<1>9. MaskRegs \subseteq Lvt /\ CleanRegs \subseteq Lvt
  BY DEF MaskRegs, CleanRegs, Lvt
<1>10. ClearAcc \cap Opens = {}
  BY <1>1, <1>2, <1>4, <1>5, <1>6, <1>9 DEF ClearAcc, MaskAcc, CleanAcc
<1>11. EarlyAcc \cap Opens = {}
  BY <1>3, <1>7, <1>8, <1>10 DEF EarlyAcc
<1>12. DownAcc \cap Opens = {}
  BY <1>1, <1>10 DEF DownAcc, SpivOff
<1>13. DetachAcc \cap Opens = {} /\ DetachAcc \cap MaskErr = {}
  <2>1. Write("LVT0", Clean) \notin Opens
    BY <1>5, <1>9 DEF CleanRegs
  <2> QED BY <2>1, <1>3, <1>7, <1>8 DEF DetachAcc
<1>14. HandlerAcc \cap Opens = {}
  BY <1>1, <1>2 DEF HandlerAcc
<1>15. HandlerAcc \cap ZeroVec = {}
  <2>1. Op("ack_APIC_irq") \notin ZeroVec
    BY DEF ZeroVec, Op, Write, SetMask, Restore
  <2> QED BY <2>1, Distinct DEF HandlerAcc
<1>16. SetupAcc \cap ZeroVec = {}
  <2>1. SpivOn \cap ZeroVec = {} /\ SpivOff \cap ZeroVec = {}
    <3>1. \A e : Write("SPIV", e) \notin ZeroVec
      BY DEF ZeroVec, Lvt, Op, Write, SetMask, Restore
    <3>2. Op("spiv_off") \notin ZeroVec
      BY DEF ZeroVec, Op, Write, SetMask, Restore
    <3> QED BY <3>1, <3>2 DEF SpivOn, SpivOff
  <2>2. \A r \in {"ID", "LDR"} : Write(r, "set") \notin ZeroVec
    BY DEF ZeroVec, Lvt, Op, Write, SetMask, Restore
  <2>3. \A o \in {"taskpri", "pending_intr_clear", "lvt0", "pm_activate"} : Op(o) \notin ZeroVec
    BY DEF ZeroVec, Op, Write, SetMask, Restore
  <2>4. \A r \in Lvt, m \in BOOLEAN, d \in {"nmi", "error"} : Write(r, Entry(d, m)) \notin ZeroVec
    BY DEF ZeroVec, Op, Write, SetMask, Restore, Clean, Entry
  <2> QED BY <2>1, <2>2, <2>3, <2>4, <1>15 DEF SetupAcc, Lvt, ErrorEntry
<1> QED BY <1>11, <1>12, <1>13, <1>14, <1>15, <1>16

\* Most parts speak of a few phases only.
LEMMA OtherPhases ==
  /\ phase' \notin {"early", "wired", "detach", "legacy"} => WireInv'
  /\ phase' # "setup" => SetupInv'
  /\ phase' # "up" => UpInv'
  /\ phase' \notin {"suspend", "stop"} => DownInv'
  /\ phase' \notin {"suspended", "offline", "halted"} => DownState'
  /\ phase' \notin {"suspend", "suspended", "asleep", "resume", "resumed"} => SavedInv'
  /\ phase' \notin {"suspend", "resume"} \/ todo' = <<>> => QuietInv'
  /\ phase' # "resume" => ResumeInv'
  /\ phase' # "resumed" => ResumedState'
  /\ phase' \notin {"setup", "up", "resume", "resumed"} => ErrorInv'
<1>1. phase' \notin {"early", "wired", "detach", "legacy"} => WireInv'
  BY DEF WireInv
<1>2. (phase' # "setup" => SetupInv') /\ (phase' # "up" => UpInv')
  BY DEF SetupInv, UpInv
<1>3. (phase' \notin {"suspend", "stop"} => DownInv')
      /\ (phase' \notin {"suspended", "offline", "halted"} => DownState')
  BY DEF DownInv, DownState
<1>4. phase' \notin {"suspend", "suspended", "asleep", "resume", "resumed"} => SavedInv'
  BY DEF SavedInv
<1>5. phase' \notin {"suspend", "resume"} \/ todo' = <<>> => QuietInv'
  BY DEF QuietInv
<1>6. (phase' # "resume" => ResumeInv') /\ (phase' # "resumed" => ResumedState')
  BY DEF ResumeInv, ResumedState
<1>7. phase' \notin {"setup", "up", "resume", "resumed"} => ErrorInv'
  BY DEF ErrorInv, Managed
<1> QED BY <1>1, <1>2, <1>3, <1>4, <1>5, <1>6, <1>7

\* On a processor without APIC most parts say nothing.
LEMMA NoApic ==
  ASSUME hw'.disable_apic, ~pm'.active
  PROVE  /\ SetupInv' /\ UpInv' /\ DownInv' /\ DownState' /\ SavedInv' /\ ResumeInv' /\ ResumedState'
         /\ ErrorInv'
<1>1. SetupInv' /\ UpInv' /\ DownInv' /\ DownState'
  BY DEF SetupInv, UpInv, DownInv, DownState
<1>2. SavedInv' /\ ResumeInv' /\ ResumedState'
  BY DEF SavedInv, ResumeInv, ResumedState
<1>3. ErrorInv'
  BY DEF ErrorInv, Managed
<1> QED BY <1>1, <1>2, <1>3

\* A function is called: the registers are as they were.
Same == UNCHANGED <<hw, regs, errs, esr, errirq, stray, stale, warned, ioapic, pm>>
\* A call takes the next program and touches nothing else.
LEMMA CallSame ==
  ASSUME NEW p, NEW q, NEW s, Call(p, q, s)
  PROVE  /\ Same /\ todo = <<>> /\ phase = p /\ phase' = q /\ todo' = s
         /\ hw' = hw /\ regs' = regs /\ pm' = pm /\ stray' = stray /\ errs' = errs /\ stale' = stale
BY DEF Call, Same, apic

\* Types, after a call.
LEMMA TypedCall ==
  ASSUME Typed, Same, RegsOK(before'), phase' \in Phases, Shape', todo' \in Seq(Acc),
         hw.disable_apic => todo' = <<>>,
         ~hw.disable_apic => pm.active \/ phase' \notin {"up", "suspend", "suspended", "asleep", "resume", "resumed"}
  PROVE  Typed'
<1>1. TypeOK'
  BY DEF Typed, TypeOK, Same
<1> QED BY <1>1, EmptySeq DEF Typed, Same

\* Nothing to do cannot raise an error.
LEMMA StrayQuiet ==
  ASSUME ~stray', Free(todo', ZeroVec), Ordered(todo', Opens, Opens)
  PROVE  StrayInv'
<1>1. ZeroVec' = ZeroVec /\ MaskErr' = MaskErr /\ Opens' = Opens
  BY DEF ZeroVec, MaskErr, Opens
<1> QED BY <1>1, FreeOrdered DEF StrayInv

\* init_bsp_APIC is called.
LEMMA EarlyInitStep ==
  ASSUME IInv, EarlyInit
  PROVE  IInv'
<1>1. Call("boot", "early", init_bsp_APIC) /\ before' = before /\ ~hw.disable_apic
  BY DEF EarlyInit, NeedsEarly
<1>2. /\ Same /\ phase' = "early" /\ todo' = init_bsp_APIC /\ stray' = stray /\ regs' = regs
      /\ ~stray
  BY <1>1, CallSame DEF IInv, StrayInv, Detached
<1>6. hw.mapped
  BY DEF EarlyInit, NeedsEarly, IInv, Typed, TypeOK, Configs
<1>3. Typed'
  <2>1. todo' \in Seq(EarlyAcc) /\ todo' \in Seq(Acc)
    BY <1>2, <1>6, EarlyProgram, AccTypes, SeqSubset
  <2>2. Shape'
    BY <1>2, <2>1 DEF Shape, Busy
  <2>3. RegsOK(before') /\ phase' \in Phases
    BY <1>1, <1>2 DEF IInv, Typed, TypeOK, Phases
  <2> QED BY <1>2, <1>1, <2>1, <2>2, <2>3, TypedCall DEF IInv
<1>4. StrayInv'
  <2>1. Free(todo', Opens)
    BY <1>2, <1>6, Disjoint, EarlyProgram, FreeOutside
  <2>2. Ordered(todo', ZeroVec, MaskErr) /\ ~Free(todo', MaskErr)
    BY <1>2, <1>6, EarlyProgram
  <2> QED BY <1>2, <2>1, <2>2, FreeOrdered DEF StrayInv
<1>5. WireInv'
  BY <1>2, <1>6, EarlyProgram DEF WireInv, Settles
<1> QED BY <1>2, <1>3, <1>4, <1>5, OtherPhases DEF IInv

\* The sets that depend on the processor do not change with it.
LEMMA SameHw ==
  ASSUME hw' = hw
  PROVE  Clears' = Clears /\ \A r : Has(r)' <=> Has(r)
BY DEF Clears, Has

\* A processor is set up: apic_bsp_setup or apic_ap_setup.
LEMMA SetupStep ==
  ASSUME IInv, Setup
  PROVE  IInv'
<1>1. PICK s : /\ \E p \in {"boot", "wired", "offline"} : Call(p, "setup", s)
               /\ \/ \E upmode \in BOOLEAN : s = apic_bsp_setup(upmode)
                  \/ hw.cpu # 0 /\ s = apic_ap_setup
  BY DEF Setup
<1>2. /\ Same /\ phase' = "setup" /\ todo' = s /\ stray' = stray /\ hw' = hw /\ pm' = pm
      /\ ~stray
  BY <1>1, CallSame DEF IInv, StrayInv, Detached
<1>3. hw.disable_apic => s = <<>> /\ hw.cpu = 0
  <2>1. hw.cpu # 0 => ~hw.disable_apic
    BY DEF IInv, Typed, TypeOK, Configs
  <2>2. hw.cpu \in 0..1
    BY DEF IInv, Typed, TypeOK, Configs
  <2> QED BY <1>1, <2>1, <2>2 DEF apic_bsp_setup, If
<1>4. ~hw.disable_apic => SetupReady(s)
  BY <1>1, ApSetup, BspSetup
<1>5. s \in Seq(SetupAcc)
  BY <1>3, <1>4, EmptySeq DEF SetupReady
<1>6. Typed'
  <2>1. todo' \in Seq(SetupAcc) /\ todo' \in Seq(Acc)
    BY <1>2, <1>5, AccTypes, SeqSubset
  <2>2. Shape'
    BY <1>2, <2>1 DEF Shape, Busy
  <2>3. RegsOK(before') /\ phase' \in Phases
    BY <1>2 DEF IInv, Typed, TypeOK, Phases, Setup
  <2> QED BY <1>2, <1>3, <2>1, <2>2, <2>3, TypedCall DEF IInv
<1>7. StrayInv'
  <2>1. Free(todo', ZeroVec)
    BY <1>2, <1>5, Disjoint, FreeOutside
  <2>2. Ordered(todo', Opens, Opens)
    BY <1>2, <1>3, <1>4, FreeEmpty DEF SetupReady
  <2> QED BY <1>2, <2>1, <2>2, StrayQuiet
<1>8. CASE hw.disable_apic
  <2>1. ~pm'.active /\ hw'.disable_apic
    BY <1>2, <1>8 DEF IInv, Typed
  <2> QED BY <1>2, <1>6, <1>7, <2>1, NoApic, OtherPhases DEF IInv
<1>9. CASE ~hw.disable_apic
  <2>1. SetupReady(todo')
    BY <1>2, <1>4, <1>9
  <2>2. SetupInv'
    <3>1. /\ Ordered(todo', SpivOn, {Op("taskpri"), Op("pending_intr_clear")})
          /\ Ordered(todo', SpivOn, SpivOff)
      BY <2>1, OrderedSubset DEF SetupReady
    <3> QED BY <2>1, <3>1 DEF SetupInv, SetupReady, Settles
  <2>3. ErrorInv'
    <3>1. Ordered(todo', Clears', ZeroVec)
      BY <1>2, <1>5, Disjoint, FreeOutside, FreeOrdered
    <3>2. Clears' = Clears
      BY <1>2, SameHw
    <3> QED BY <2>1, <3>1, <3>2 DEF ErrorInv, SetupReady
  <2> QED BY <1>2, <1>6, <1>7, <2>2, <2>3, OtherPhases DEF IInv
<1> QED BY <1>8, <1>9

\* Shutting the APIC down.
LEMMA DownCall ==
  ASSUME Same, ~stray, DownReady(todo'), phase' \in {"suspend", "stop"}
  PROVE  StrayInv' /\ DownInv'
<1>1. Free(todo', Opens)
  BY Disjoint, FreeOutside DEF DownReady
<1>2. /\ Clears' = Clears /\ Clears \subseteq ClearAcc /\ MaskErr \subseteq ClearAcc
      /\ hw' = hw /\ \A r : Has(r)' <=> Has(r)
  BY SameHw DEF Same, Clears, ClearAcc, EsrOps
<1>3. CASE ~hw.mapped
  <2>1. Free(todo', ClearAcc \cup ZeroVec) /\ (hw.cpu # 0 => ~Free(todo', SpivOff))
    BY <1>3 DEF DownReady
  <2>2. Free(todo', ZeroVec) /\ Free(todo', MaskErr) /\ Free(todo', {})
    BY <1>2, <2>1, FreeSubset
  <2>3. StrayInv'
    BY <1>1, <2>2, FreeOrdered DEF StrayInv, Same
  <2>4. ASSUME NEW r \in CleanRegs
        PROVE  Free(todo', {Write(r, Clean)}) /\ Ordered(todo', {Write(r, Clean)}, {SetMask(r)})
    <3>1. {Write(r, Clean)} \subseteq ClearAcc \cup ZeroVec
      BY DEF ClearAcc, CleanAcc
    <3>2. Free(todo', {Write(r, Clean)})
      BY <2>1, <3>1, FreeSubset
    <3> QED BY <3>2, FreeOrdered
  <2>5. ASSUME NEW r \in CleanRegs, NEW Y, Y = (IF r = "LVTERR" THEN MaskErr ELSE {})
        PROVE  Settles(todo', {Write(r, Clean)}, Y)
    BY <2>2, <2>4, <2>5, FreeOrdered DEF Settles
  <2>6. Settles(todo', Clears, ZeroVec)
    BY <2>2, FreeOrdered DEF Settles
  <2> QED BY <1>2, <1>3, <2>1, <2>3, <2>4, <2>5, <2>6 DEF DownInv
<1>4. CASE hw.mapped
  <2>1. StrayInv'
    BY <1>1, <1>4, FreeOrdered DEF StrayInv, DownReady, Clearing, Same
  <2>2. ASSUME NEW r \in CleanRegs
        PROVE  /\ Ordered(todo', {Write(r, Clean)}, {SetMask(r)})
               /\ ~(Free(todo', {SetMask(r)}) /\ ~Free(todo', {Write(r, Clean)}) /\ r # "LVTERR")
               /\ Settles(todo', {Write(r, Clean)}, IF r = "LVTERR" THEN MaskErr ELSE {})
               /\ ~(Free(todo', {Write(r, Clean)}) /\ Has(r))
    <3>1. /\ Ordered(todo', {Write(r, Clean)}, {SetMask(r)} \cup MaskErr)
          /\ Has(r) <=> ~Free(todo', {Write(r, Clean)})
          /\ Has(r) /\ r # "LVTERR" => ~Free(todo', {SetMask(r)})
      BY <1>4, <2>2 DEF DownReady, Clearing
    <3>2. Ordered(todo', {Write(r, Clean)}, {SetMask(r)})
      BY <3>1, OrderedSubset
    <3>3. Ordered(todo', {Write(r, Clean)}, IF r = "LVTERR" THEN MaskErr ELSE {})
      BY <3>1, OrderedSubset
    <3>4. Free(todo', {})
      BY DEF Free
    <3>5. Has("LVTERR")
      BY DEF Has
    <3> QED BY <3>1, <3>2, <3>3, <3>4, <3>5 DEF Settles
  <2>3. Settles(todo', Clears, ZeroVec) /\ ~Free(todo', Clears) /\ ~Free(todo', SpivOff)
    BY <1>4 DEF DownReady, Clearing, Settles
  <2> QED BY <1>2, <1>4, <2>1, <2>2, <2>3 DEF DownInv
<1> QED BY <1>3, <1>4

\* A processor goes offline or the machine shuts down.
LEMMA StopStep ==
  ASSUME IInv, Offline \/ Shutdown
  PROVE  IInv'
<1>1. PICK s : Call("up", "stop", s) /\ before' = before
                 /\ ((hw.cpu = 0 /\ s = lapic_shutdown) \/ (hw.cpu # 0 /\ s = apic_soft_disable))
  BY DEF Offline, Shutdown
<1>2. /\ Same /\ phase' = "stop" /\ todo' = s /\ stray' = stray /\ hw' = hw /\ pm' = pm
      /\ ~stray
  BY <1>1, CallSame DEF IInv, StrayInv, Detached
<1>3. hw.disable_apic => s = <<>>
  <2>1. hw.cpu # 0 => ~hw.disable_apic
    BY DEF IInv, Typed, TypeOK, Configs
  <2> QED BY <1>1, <2>1 DEF lapic_shutdown, If
<1>4. ~hw.disable_apic => DownReady(s)
  BY <1>1, DownProgram
<1>5. todo' \in Seq(DownAcc)
  BY <1>2, <1>3, <1>4, EmptySeq DEF DownReady
<1>6. Typed'
  <2>1. todo' \in Seq(Acc)
    BY <1>5, AccTypes, SeqSubset
  <2>2. Shape'
    BY <1>2, <1>5 DEF Shape, Busy
  <2>3. RegsOK(before') /\ phase' \in Phases
    BY <1>1, <1>2 DEF IInv, Typed, TypeOK, Phases
  <2> QED BY <1>2, <1>3, <2>1, <2>2, <2>3, TypedCall DEF IInv
<1>7. CASE hw.disable_apic
  <2>1. ~pm'.active /\ hw'.disable_apic
    BY <1>2, <1>7 DEF IInv, Typed
  <2>2. StrayInv'
    BY <1>2, <1>3, <1>7, FreeEmpty, StrayQuiet
  <2> QED BY <1>2, <1>6, <2>1, <2>2, NoApic, OtherPhases DEF IInv
<1>8. CASE ~hw.disable_apic
  <2>1. StrayInv' /\ DownInv'
    BY <1>2, <1>4, <1>8, DownCall
  <2> QED BY <1>2, <1>6, <2>1, OtherPhases DEF IInv
<1> QED BY <1>7, <1>8

\* lapic_suspend is called.
LEMMA SuspendStep ==
  ASSUME IInv, Suspend
  PROVE  IInv'
<1>1. Call("up", "suspend", lapic_suspend) /\ before' = regs /\ hw.cpu = 0
  BY DEF Suspend
<1>2. /\ Same /\ phase' = "suspend" /\ todo' = lapic_suspend /\ stray' = stray /\ hw' = hw /\ pm' = pm
      /\ regs' = regs /\ ~stray /\ phase = "up"
  BY <1>1, CallSame DEF IInv, StrayInv, Detached
<1>3. pm.active <=> ~hw.disable_apic
  BY <1>2 DEF IInv, Typed, TypeOK
<1>4. ~pm.active => todo' = <<>>
  BY <1>2 DEF lapic_suspend, If
<1>5. pm.active => SuspendReady(todo')
  BY <1>1, <1>2, <1>3, DownProgram
<1>6. todo' \in Seq(DownAcc)
  BY <1>4, <1>5, EmptySeq DEF DownReady, SuspendReady
<1>7. Typed'
  <2>1. todo' \in Seq(Acc)
    BY <1>6, AccTypes, SeqSubset
  <2>2. Shape'
    BY <1>2, <1>6 DEF Shape, Busy
  <2>3. RegsOK(before') /\ phase' \in Phases
    BY <1>1, <1>2 DEF IInv, Typed, TypeOK, Phases
  <2> QED BY <1>2, <1>3, <1>4, <2>1, <2>2, <2>3, TypedCall DEF IInv
<1>8. CASE ~pm.active
  <2>1. ~pm'.active /\ hw'.disable_apic
    BY <1>2, <1>3, <1>8
  <2>2. StrayInv'
    BY <1>2, <1>4, <1>8, FreeEmpty, StrayQuiet
  <2> QED BY <1>2, <1>4, <1>7, <1>8, <2>1, <2>2, NoApic, OtherPhases DEF IInv
<1>9. CASE pm.active
  <2>1. StrayInv' /\ DownInv'
    BY <1>2, <1>5, <1>9, DownCall DEF SuspendReady
  <2>2. QuietInv'
    BY <1>5, <1>9 DEF QuietInv, SuspendReady
  <2>3. SavedInv'
    <3>1. UpRegs(before)'
      BY <1>1, <1>2, <1>3, <1>9 DEF IInv, UpInv, UpRegs, skip_ioapic_setup
    <3> QED BY <1>1, <1>2, <1>5, <1>9, <3>1 DEF SavedInv, SuspendReady
  <2> QED BY <1>2, <1>7, <2>1, <2>2, <2>3, OtherPhases DEF IInv
<1> QED BY <1>8, <1>9

\* lapic_resume is called.
LEMMA ResumeStep ==
  ASSUME IInv, Resume
  PROVE  IInv'
<1>1. Call("asleep", "resume", lapic_resume) /\ before' = before
  BY DEF Resume
<1>2. /\ Same /\ phase' = "resume" /\ todo' = lapic_resume /\ stray' = stray /\ hw' = hw /\ pm' = pm
      /\ ~stray /\ phase = "asleep"
  BY <1>1, CallSame DEF IInv, StrayInv, Detached
<1>3. pm.active <=> ~hw.disable_apic
  BY <1>2 DEF IInv, Typed, TypeOK
<1>4. ~pm.active => todo' = <<>>
  BY <1>2 DEF lapic_resume, If
<1>5. pm.active => ResumeReady(todo')
  BY <1>2, ResumeProgram
<1>6. todo' \in Seq(ResumeAcc)
  BY <1>4, <1>5, EmptySeq DEF ResumeReady
<1>7. Typed'
  <2>1. todo' \in Seq(Acc)
    BY <1>6, AccTypes, SeqSubset
  <2>2. Shape'
    BY <1>2, <1>6 DEF Shape, Busy
  <2>3. RegsOK(before') /\ phase' \in Phases
    BY <1>1, <1>2 DEF IInv, Typed, TypeOK, Phases
  <2> QED BY <1>2, <1>3, <1>4, <2>1, <2>2, <2>3, TypedCall DEF IInv
<1>8. CASE ~pm.active
  <2>1. ~pm'.active /\ hw'.disable_apic
    BY <1>2, <1>3, <1>8
  <2>2. StrayInv'
    BY <1>2, <1>4, <1>8, FreeEmpty, StrayQuiet
  <2> QED BY <1>2, <1>4, <1>7, <1>8, <2>1, <2>2, NoApic, OtherPhases DEF IInv
<1>9. CASE pm.active
  <2>1. ResumeReady(todo')
    BY <1>5, <1>9
  <2>2. StrayInv'
    BY <1>2, <2>1 DEF StrayInv, Detached, ResumeReady
  <2>3. QuietInv'
    BY <2>1 DEF QuietInv, ResumeReady, SpivSet, IoMask
  <2>4. SavedInv'
    <3>1. UpRegs(before) /\ pm.saved = before
      BY <1>2, <1>9 DEF IInv, SavedInv
    <3>2. UpRegs(before)'
      BY <1>1, <1>2, <3>1 DEF UpRegs, skip_ioapic_setup
    <3> QED BY <1>1, <1>2, <3>1, <3>2 DEF SavedInv
  <2>5. ResumeInv'
    <3>1. \A r : Has(r)' <=> Has(r)
      BY <1>2, SameHw
    <3>2. ASSUME NEW r \in Regs, Has(r)
          PROVE  /\ Settles(todo', {Restore(r)}, (IF r \in Lvt THEN {Restore("SPIV")} ELSE {})
                                                \cup (IF r = "LVTERR" THEN MaskErr ELSE {}))
                 /\ ~Free(todo', {Restore(r)})
      <4> DEFINE Y == (IF r \in Lvt THEN {Restore("SPIV")} ELSE {})
                        \cup (IF r = "LVTERR" THEN MaskErr ELSE {})
      <4>1. ~Free(todo', {Restore(r)})
        BY <2>1, <3>2 DEF ResumeReady
      <4>2. Ordered(todo', {Restore(r)}, Y)
        <5>1. CASE r \in Lvt
          <6>1. {Restore(r)} \in SUBSET RestoreLvt /\ Y \in SUBSET ({Restore("SPIV")} \cup MaskErr)
            BY <5>1 DEF RestoreLvt
          <6>2. Ordered(todo', RestoreLvt, {Restore("SPIV")} \cup MaskErr)
            BY <2>1 DEF ResumeReady
          <6> HIDE DEF Y
          <6> QED BY <6>1, <6>2, OrderedSubset
        <5>2. CASE r \notin Lvt
          <6>1. Y = {}
            BY <5>2 DEF Lvt
          <6>2. Free(todo', {})
            BY DEF Free
          <6> QED BY <6>1, <6>2, FreeOrdered
        <5> QED BY <5>1, <5>2
      <4> QED BY <4>1, <4>2 DEF Settles
    <3>3. Ordered(todo', {Restore("SPIV")}, {Restore("TASKPRI")})
      BY <2>1 DEF ResumeReady
    <3> QED BY <3>1, <3>2, <3>3 DEF ResumeInv
  <2>6. ErrorInv'
    <3>1. Clears' = Clears
      BY <1>2, SameHw
    <3> QED BY <2>1, <3>1 DEF ErrorInv, ResumeReady
  <2> QED BY <1>2, <1>7, <2>2, <2>3, <2>4, <2>5, <2>6, OtherPhases DEF IInv
<1> QED BY <1>8, <1>9

\* disconnect_bsp_APIC is called.
LEMMA DisconnectStep ==
  ASSUME IInv, Disconnect
  PROVE  IInv'
<1>1. PICK v \in BOOLEAN : /\ Call("halted", "detach", disconnect_bsp_APIC(v)) /\ before' = before
                           /\ ~hw.disable_apic
  BY DEF Disconnect
<1>2. /\ Same /\ phase' = "detach" /\ todo' = disconnect_bsp_APIC(v) /\ stray' = stray /\ regs' = regs
      /\ ~stray /\ phase = "halted"
  BY <1>1, CallSame DEF IInv, StrayInv, Detached
<1>3. Typed'
  <2>1. todo' \in Seq(DetachAcc) /\ todo' \in Seq(Acc)
    BY <1>2, DetachProgram, AccTypes, SeqSubset
  <2>2. Shape'
    BY <1>2, <2>1 DEF Shape, Busy
  <2>3. RegsOK(before') /\ phase' \in Phases
    BY <1>1, <1>2 DEF IInv, Typed, TypeOK, Phases
  <2> QED BY <1>2, <1>1, <2>1, <2>2, <2>3, TypedCall DEF IInv
<1>4. StrayInv'
  <2>1. Free(todo', Opens) /\ Free(todo', MaskErr)
    BY <1>2, Disjoint, DetachProgram, FreeOutside
  <2>2. hw.mapped => regs'["LVTERR"].masked
    BY <1>1, <1>2 DEF IInv, DownState, Shut, Lvt
  <2>3. hw' = hw
    BY <1>2 DEF Same
  <2> QED BY <1>2, <2>1, <2>2, <2>3, FreeOrdered DEF StrayInv, Detached
<1>5. WireInv'
  BY <1>2, DetachProgram DEF WireInv, Settles
<1> QED BY <1>2, <1>3, <1>4, <1>5, OtherPhases DEF IInv

\* A function returns: what its accesses had to do is done.
LEMMA Finished ==
  ASSUME IInv, todo = <<>>
  PROVE  /\ phase = "early" => On /\ regs["LVT0"] = ExtInt
         /\ phase = "setup" /\ ~hw.disable_apic => UpRegs(regs) /\ pm.active
         /\ phase \in {"suspend", "stop"} /\ ~hw.disable_apic =>
              /\ hw.mapped \/ hw.cpu # 0 => Shut
              /\ hw.mapped => "old" \notin errs /\ \A r \in CleanRegs : Has(r) => regs[r] = Clean
         /\ phase = "suspend" /\ pm.active => pm.saved = before
         /\ phase = "resume" /\ pm.active => \A r \in Regs : Has(r) => regs[r] = pm.saved[r]
         /\ phase = "detach" => On /\ regs["LVT1"] = Entry("nmi", FALSE)
         /\ Managed => /\ "old" \notin errs \cup esr /\ regs["LVTERR"] = ErrorEntry
                       /\ errs # {} => errirq
<1>1. \A X : Free(todo, X)
  BY FreeEmpty, Zenon
<1>2. \A X, Y : Ordered(todo, X, Y)
  BY FreeEmpty, Zenon
<1>3. phase = "early" => On /\ regs["LVT0"] = ExtInt
  BY <1>1 DEF IInv, WireInv
<1>4. phase = "detach" => On /\ regs["LVT1"] = Entry("nmi", FALSE)
  BY <1>1 DEF IInv, WireInv
<1>5. Managed => /\ "old" \notin errs \cup esr /\ regs["LVTERR"] = ErrorEntry
                 /\ errs # {} => errirq
  BY <1>1, <1>2 DEF IInv, ErrorInv
<1>6. phase = "setup" /\ ~hw.disable_apic => UpRegs(regs) /\ pm.active
  BY <1>1, <1>5 DEF IInv, SetupInv, UpRegs, Managed, On
<1>7. phase \in {"suspend", "stop"} /\ ~hw.disable_apic =>
        /\ hw.mapped \/ hw.cpu # 0 => Shut
        /\ hw.mapped => "old" \notin errs /\ \A r \in CleanRegs : Has(r) => regs[r] = Clean
  BY <1>1 DEF IInv, DownInv
<1>8. phase = "suspend" /\ pm.active => pm.saved = before
  BY <1>1 DEF IInv, SavedInv
<1>9. phase = "resume" /\ pm.active => \A r \in Regs : Has(r) => regs[r] = pm.saved[r]
  BY <1>1 DEF IInv, ResumeInv
<1> QED BY <1>3, <1>4, <1>5, <1>6, <1>7, <1>8, <1>9

\* What every return leaves alone.
LEMMA ReturnQuiet ==
  ASSUME IInv, todo' = <<>>, ~stray' \/ Detached', phase' \notin {"suspend", "resume", "early", "detach"}
  PROVE  StrayInv' /\ QuietInv'
<1>1. Free(todo', ZeroVec) /\ Ordered(todo', Opens, Opens)
  BY FreeEmpty, Zenon
<1>2. Detached' => StrayInv'
  BY DEF StrayInv
<1> QED BY <1>1, <1>2, StrayQuiet, OtherPhases

\* A program has ended: what it was to reach is reached.
LEMMA ReturnStep ==
  ASSUME IInv, Return
  PROVE  IInv'
<1>1. PICK p, q : Done(p, q) /\ <<p, q>> \in {<<"early", "wired">>, <<"setup", "up">>, <<"suspend", "suspended">>,
                    <<"resume", "resumed">>, <<"detach", "legacy">>, <<"stop", "halted">>, <<"stop", "offline">>}
  BY DEF Return
<1>2. /\ Same /\ phase = p /\ phase' = q /\ todo' = <<>> /\ todo = <<>> /\ stray' = stray /\ regs' = regs
      /\ hw' = hw /\ pm' = pm /\ errs' = errs /\ before' = before
  BY <1>1, CallSame DEF Done
<1>3. \A r : Has(r)' <=> Has(r)
  BY <1>2, SameHw
<1>4. StrayInv' /\ QuietInv'
  <2>1. ~stray' \/ Detached'
    BY <1>1, <1>2 DEF IInv, StrayInv, Detached
  <2> QED BY <1>1, <1>2, <2>1, ReturnQuiet
<1>5. /\ esr' = esr /\ errirq' = errirq /\ ioapic' = ioapic
  BY <1>2 DEF Same
<1>6. /\ phase = "early" => On /\ regs["LVT0"] = ExtInt
      /\ phase = "setup" /\ ~hw.disable_apic => UpRegs(regs) /\ pm.active
      /\ phase \in {"suspend", "stop"} /\ ~hw.disable_apic =>
           /\ hw.mapped \/ hw.cpu # 0 => Shut
           /\ hw.mapped => "old" \notin errs /\ \A r \in CleanRegs : Has(r) => regs[r] = Clean
      /\ phase = "suspend" /\ pm.active => pm.saved = before
      /\ phase = "resume" /\ pm.active => \A r \in Regs : Has(r) => regs[r] = pm.saved[r]
      /\ phase = "detach" => On /\ regs["LVT1"] = Entry("nmi", FALSE)
      /\ Managed => /\ "old" \notin errs \cup esr /\ regs["LVTERR"] = ErrorEntry
                    /\ errs # {} => errirq
  BY <1>2, Finished, Zenon
<1>7. Typed'
  <2>1. Shape' /\ todo' \in Seq(Acc)
    BY <1>1, <1>2, EmptySeq DEF Shape, Busy
  <2>2. RegsOK(before') /\ phase' \in Phases
    BY <1>1, <1>2 DEF IInv, Typed, TypeOK, Phases
  <2>3. ~hw.disable_apic => pm.active \/ phase' \notin {"up", "suspend", "suspended", "asleep", "resume", "resumed"}
    BY <1>1, <1>2, <1>6 DEF IInv, Typed
  <2> QED BY <1>2, <2>1, <2>2, <2>3, TypedCall DEF IInv
<1>8. CASE q \in {"wired", "legacy"}
  <2>1. WireInv'
    BY <1>1, <1>2, <1>6, <1>8 DEF WireInv, On
  <2> QED BY <1>2, <1>4, <1>7, <1>8, <2>1, OtherPhases DEF IInv
<1>9. CASE q \in {"suspended", "halted", "offline"}
  <2>1. DownState'
    BY <1>1, <1>2, <1>3, <1>6, <1>9 DEF DownState, Shut, On
  <2>2. SavedInv'
    <3>1. UpRegs(before)' <=> UpRegs(before)
      BY <1>2 DEF UpRegs, skip_ioapic_setup
    <3> QED BY <1>1, <1>2, <1>6, <1>9, <3>1 DEF IInv, SavedInv
  <2> QED BY <1>2, <1>4, <1>7, <1>9, <2>1, <2>2, OtherPhases DEF IInv
<1>10. CASE q \in {"up", "resumed"}
  <2>1. phase \in {"setup", "resume"} /\ (Managed <=> ~hw.disable_apic) /\ (Managed' <=> ~hw.disable_apic)
    BY <1>1, <1>2, <1>10 DEF Managed
  <2>2. UpInv'
    <3>1. UpRegs(regs)' <=> UpRegs(regs)
      BY <1>2 DEF UpRegs, skip_ioapic_setup
    <3>2. esr' = esr /\ (q = "up" /\ ~hw.disable_apic => "old" \notin esr)
      BY <1>1, <1>2, <1>5, <1>6, <2>1
    <3> QED BY <1>1, <1>2, <1>6, <1>10, <3>1, <3>2 DEF UpInv
  <2>3. ErrorInv'
    <3>1. Free(todo', ZeroVec) /\ Free(todo', Opens) /\ \A X, Y : Ordered(todo', X, Y)
      BY <1>2, FreeEmpty, Zenon
    <3> QED BY <1>2, <1>5, <1>6, <2>1, <3>1 DEF ErrorInv
  <2>4. SavedInv' /\ ResumedState'
    <3>1. UpRegs(before)' <=> UpRegs(before)
      BY <1>2 DEF UpRegs, skip_ioapic_setup
    <3>2. SavedInv'
      BY <1>1, <1>2, <1>10, <3>1 DEF IInv, SavedInv
    <3> QED BY <1>1, <1>2, <1>3, <1>6, <1>10, <3>2 DEF ResumedState
  <2> QED BY <1>2, <1>4, <1>7, <1>10, <2>2, <2>3, <2>4, OtherPhases DEF IInv
<1> QED BY <1>1, <1>8, <1>9, <1>10

\* The APIC detects an error, in any phase.
LEMMA DetectErrorStep ==
  ASSUME IInv, DetectError
  PROVE  IInv'
<1>1. /\ UNCHANGED <<hw, regs, esr, stray, stale, warned, ioapic, pm, before, todo, phase>>
      /\ phase \in {"setup", "up", "resume"} /\ errs' = errs \cup {"real"}
      /\ errirq' = (errirq \/ (errs = {} /\ ~regs["LVTERR"].masked))
  BY DEF DetectError
<1>2. Clears' = Clears /\ \A r : Has(r)' <=> Has(r)
  BY <1>1, SameHw
<1>3. Typed'
  <2>1. TypeOK'
    BY <1>1 DEF IInv, Typed, TypeOK, Errors
  <2>2. Shape'
    BY <1>1 DEF IInv, Typed, Shape
  <2> QED BY <1>1, <2>1, <2>2 DEF IInv, Typed
<1>4. StrayInv'
  BY <1>1 DEF IInv, StrayInv, Detached
<1>5. SetupInv' /\ UpInv'
  BY <1>1 DEF IInv, SetupInv, UpInv, UpRegs, On, skip_ioapic_setup
<1>6. SavedInv' /\ QuietInv' /\ ResumeInv'
  <2>1. SavedInv'
    BY <1>1 DEF IInv, SavedInv, UpRegs, skip_ioapic_setup
  <2>2. QuietInv'
    BY <1>1 DEF IInv, QuietInv
  <2>3. ResumeInv'
    BY <1>1, <1>2 DEF IInv, ResumeInv
  <2> QED BY <2>1, <2>2, <2>3
<1>7. ErrorInv'
  <2>1. Managed' <=> Managed
    BY <1>1 DEF Managed
  <2>2. ASSUME Managed, Free(todo, Opens), Free(todo, Clears)
        PROVE  "old" \notin esr /\ errirq'
    <3>1. regs["LVTERR"] = ErrorEntry /\ "old" \notin esr /\ (errs # {} => errirq)
      BY <2>2 DEF IInv, ErrorInv
    <3>2. ~regs["LVTERR"].masked
      BY <3>1 DEF ErrorEntry, Entry
    <3> QED BY <1>1, <3>1, <3>2
  <2>3. errs' # {} /\ ("old" \in errs' <=> "old" \in errs)
    BY <1>1
  <2> QED BY <1>1, <1>2, <2>1, <2>2, <2>3 DEF IInv, ErrorInv
<1> QED BY <1>1, <1>3, <1>4, <1>5, <1>6, <1>7, OtherPhases DEF IInv

\* The error interrupt comes before what is left of the function it interrupts.
LEMMA ErrorInterruptStep ==
  ASSUME IInv, ErrorInterrupt
  PROVE  IInv'
<1> DEFINE h == sysvec_error_interrupt
<1>1. /\ UNCHANGED <<hw, regs, errs, esr, stray, stale, warned, ioapic, pm, before, phase>>
      /\ phase \in {"setup", "up"} /\ todo' = h \o todo /\ errirq' = FALSE
  BY DEF ErrorInterrupt
<1>2. Clears' = Clears /\ \A r : Has(r)' <=> Has(r)
  BY <1>1, SameHw
<1>3. h \in Seq(HandlerAcc) /\ ~Free(h, Clears)
  BY HandlerProgram
<1>4. /\ phase = "setup" => todo \in Seq(SetupAcc)
      /\ phase = "up" => todo \in Seq(HandlerAcc)
  BY DEF IInv, Typed, Shape
<1> HIDE DEF h
<1>5. /\ h \in Seq(SetupAcc) /\ todo \in Seq(SetupAcc)
      /\ h \in Seq(Acc) /\ todo \in Seq(Acc)
  BY <1>1, <1>3, <1>4, AccTypes, SeqSubset
<1>6. todo' \in Seq(SetupAcc) /\ \A X : Free(todo', X) <=> Free(h, X) /\ Free(todo, X)
  BY <1>1, <1>5, FreeConcat, Zenon
<1>7. \A X, Y : Ordered(todo', X, Y) <=> /\ Ordered(h, X, Y) /\ Ordered(todo, X, Y)
                                         /\ Free(h, X) \/ Free(todo, Y)
  BY <1>1, <1>5, OrderedConcat, Zenon
<1>8. Free(h, Opens) /\ Free(h, ZeroVec) /\ Free(todo', ZeroVec)
  BY <1>3, <1>6, Disjoint, FreeOutside
<1>9. Typed'
  <2>1. TypeOK'
    BY <1>1 DEF IInv, Typed, TypeOK
  <2>2. todo' \in Seq(Acc)
    BY <1>6, AccTypes, SeqSubset
  <2>3. phase = "up" => todo' \in Seq(HandlerAcc)
    BY <1>1, <1>3, <1>4
  <2>4. Shape'
    BY <1>1, <1>6, <2>3 DEF Shape, Busy
  <2>5. hw.disable_apic => todo' \in Seq(HandlerAcc)
    BY <1>1, <1>3 DEF IInv, Typed
  <2> QED BY <1>1, <2>1, <2>2, <2>4, <2>5 DEF IInv, Typed
<1>10. StrayInv'
  <2>1. Ordered(todo', Opens, Opens)
    BY <1>1, <1>7, <1>8, FreeOrdered DEF IInv, StrayInv, Detached
  <2> QED BY <1>1, <1>8, <2>1, StrayQuiet DEF IInv, StrayInv, Detached
<1>11. UpInv'
  BY <1>1 DEF IInv, UpInv, UpRegs, On, skip_ioapic_setup
<1>12. SetupInv'
  <2> DEFINE tp == {Op("taskpri")}
  <2> DEFINE pc == {Op("pending_intr_clear")}
  <2> DEFINE tpc == {Op("taskpri"), Op("pending_intr_clear")}
  <2> DEFINE lv == {Op("lvt0")}
  <2> DEFINE pa == {Op("pm_activate")}
  <2> DEFINE L == SpivOn \cup pc
  <2>1. /\ HandlerAcc \cap tp = {} /\ HandlerAcc \cap pc = {} /\ HandlerAcc \cap lv = {}
        /\ HandlerAcc \cap pa = {}
    BY DEF HandlerAcc, EsrOps, Op
  <2>2. HandlerAcc \cap SpivOn = {} /\ HandlerAcc \cap SpivOff = {}
    BY DEF HandlerAcc, EsrOps, SpivOn, SpivOff, Op, Write
  <2>3. Free(h, tp) /\ Free(h, pc) /\ Free(h, lv) /\ Free(h, pa) /\ Free(h, SpivOn) /\ Free(h, SpivOff)
    BY <1>3, <2>1, <2>2, FreeOutside
  <2>4. Free(h, L)
    BY <2>3 DEF Free
  <2> HIDE DEF tp, pc, tpc, lv, pa, L
  <2>5. /\ Free(todo', tp) <=> Free(todo, tp)
        /\ Free(todo', pc) <=> Free(todo, pc)
        /\ Free(todo', lv) <=> Free(todo, lv)
        /\ Free(todo', pa) <=> Free(todo, pa)
        /\ Free(todo', L) <=> Free(todo, L)
        /\ Free(todo', SpivOn) <=> Free(todo, SpivOn)
        /\ Free(todo', SpivOff) <=> Free(todo, SpivOff)
        /\ Free(todo', Opens) <=> Free(todo, Opens)
    BY <1>6, <1>8, <2>3, <2>4
  <2>6. /\ Ordered(todo', SpivOn, tpc) <=> Ordered(todo, SpivOn, tpc)
        /\ Ordered(todo', pc, SpivOff) <=> Ordered(todo, pc, SpivOff)
        /\ Ordered(todo', SpivOn, SpivOff) <=> Ordered(todo, SpivOn, SpivOff)
        /\ Ordered(todo', lv, SpivOn) <=> Ordered(todo, lv, SpivOn)
        /\ Ordered(todo', Opens, L) <=> Ordered(todo, Opens, L)
    BY <1>7, <1>8, <2>3, FreeOrdered
  <2>7. Opens' = Opens /\ SpivOn' = SpivOn /\ SpivOff' = SpivOff /\ On' = On
    BY <1>1 DEF Opens, SpivOn, SpivOff, On
  <2>8. SetupInv <=> (phase = "setup" /\ ~hw.disable_apic =>
    /\ Ordered(todo, SpivOn, tpc)
    /\ Free(todo, tp) => regs["TASKPRI"] = 16
    /\ Settles(todo, pc, SpivOff)
    /\ Free(todo, pc) => On \/ ~stale \/ warned
    /\ Settles(todo, SpivOn, SpivOff)
    /\ Free(todo, SpivOn) => On
    /\ Settles(todo, lv, SpivOn)
    /\ Free(todo, lv) /\ hw.cpu = 0 /\ skip_ioapic_setup => regs["LVT0"] = ExtInt
    /\ Settles(todo, Opens, L)
    /\ Free(todo, pa) => pm.active)
    BY DEF SetupInv, tpc, tp, pc, lv, pa, L
  <2>9. SetupInv' <=> (phase' = "setup" /\ ~hw'.disable_apic =>
    /\ Ordered(todo', SpivOn, tpc)
    /\ Free(todo', tp) => regs'["TASKPRI"] = 16
    /\ Settles(todo', pc, SpivOff)
    /\ Free(todo', pc) => On' \/ ~stale' \/ warned'
    /\ Settles(todo', SpivOn, SpivOff)
    /\ Free(todo', SpivOn) => On'
    /\ Settles(todo', lv, SpivOn)
    /\ Free(todo', lv) /\ hw'.cpu = 0 /\ skip_ioapic_setup' => regs'["LVT0"] = ExtInt
    /\ Settles(todo', Opens, L)
    /\ Free(todo', pa) => pm'.active)
    BY DEF SetupInv, tpc, tp, pc, lv, pa, L
  <2>10. skip_ioapic_setup' <=> skip_ioapic_setup
    BY <1>1 DEF skip_ioapic_setup
  <2>11. SetupInv
    BY DEF IInv
  <2> QED BY <1>1, <2>5, <2>6, <2>7, <2>8, <2>9, <2>10, <2>11 DEF Settles
<1>13. ErrorInv'
  <2>1. Managed' <=> Managed
    BY <1>1 DEF Managed
  <2>2. Ordered(todo', Clears, ZeroVec)
    BY <1>8, FreeOrdered
  <2>3. /\ Ordered(todo', Clears, Opens) => Ordered(todo, Clears, Opens)
        /\ Ordered(todo', Opens, Clears) => Ordered(todo, Opens, Clears)
        /\ Free(todo', Opens) <=> Free(todo, Opens)
        /\ ~Free(todo', Clears)
    BY <1>3, <1>6, <1>7, <1>8
  <2> QED BY <1>1, <1>2, <1>8, <2>1, <2>2, <2>3 DEF IInv, ErrorInv
<1> QED BY <1>1, <1>9, <1>10, <1>11, <1>12, <1>13, OtherPhases DEF IInv

\* The invariant at boot, whatever firmware left.
LEMMA InitInv ==
  ASSUME Init
  PROVE  IInv
<1>1. RegsOK(regs) /\ RegsOK(Zeroed)
  <2>1. RegsOK(regs)
    BY FirmwareAssumption DEF Init
  <2>2. RegsOK(Zeroed)
    BY DEF RegsOK, Zeroed, Regs, Lvt, Delivery, Entry, Spiv
  <2> QED BY <2>1, <2>2
<1>2. TypeOK
  BY <1>1 DEF Init, TypeOK, Phases
<1>3. Typed
  BY <1>2 DEF Init, Typed, Shape, Busy
<1>4. StrayInv
  <2>1. Free(todo, ZeroVec) /\ \A X, Y : Ordered(todo, X, Y)
    BY FreeEmpty, Zenon DEF Init
  <2> QED BY <2>1 DEF Init, StrayInv
<1>5. WireInv /\ SetupInv /\ UpInv /\ DownInv /\ DownState
  BY DEF Init, WireInv, SetupInv, UpInv, DownInv, DownState
<1>6. SavedInv /\ QuietInv /\ ResumeInv /\ ResumedState /\ ErrorInv
  BY DEF Init, SavedInv, QuietInv, ResumeInv, ResumedState, ErrorInv, Managed
<1> QED BY <1>3, <1>4, <1>5, <1>6 DEF IInv

\* The machine sleeps and firmware wakes it with registers of its own.
LEMMA SleepStep ==
  ASSUME IInv, SleepAndWake
  PROVE  IInv'
<1>1. /\ todo = <<>> /\ todo' = <<>> /\ phase = "suspended" /\ phase' = "asleep"
      /\ regs' \in Firmware \cup {regs} /\ ioapic' \in {"open", "masked"}
      /\ stale' = FALSE /\ errirq' = FALSE
      /\ UNCHANGED <<hw, errs, esr, stray, warned, pm, before>>
  BY DEF SleepAndWake, Quiet
<1>2. Typed'
  <2>1. RegsOK(regs')
    BY <1>1, FirmwareAssumption DEF IInv, Typed, TypeOK
  <2>2. TypeOK'
    BY <1>1, <2>1 DEF IInv, Typed, TypeOK, Phases
  <2>3. Shape'
    BY <1>1 DEF Shape, Busy
  <2> QED BY <1>1, <2>2, <2>3, EmptySeq DEF IInv, Typed
<1>3. StrayInv'
  BY <1>1, FreeEmpty, StrayQuiet DEF IInv, StrayInv, Detached
<1>4. SavedInv'
  <2>1. UpRegs(before)' <=> UpRegs(before)
    BY <1>1 DEF UpRegs, skip_ioapic_setup
  <2> QED BY <1>1, <2>1 DEF IInv, SavedInv
<1> QED BY <1>1, <1>2, <1>3, <1>4, OtherPhases DEF IInv

\* The IO-APIC's resume ends what lapic_suspend masked.
LEMMA IoapicResumesStep ==
  ASSUME IInv, IoapicResumes
  PROVE  IInv'
<1>1. /\ todo = <<>> /\ todo' = <<>> /\ phase = "resumed" /\ phase' = "up" /\ ioapic' = "open"
      /\ before' = Zeroed
      /\ UNCHANGED <<regs, stale, errirq, hw, errs, esr, stray, warned, pm>>
  BY DEF IoapicResumes, Quiet
<1>2. Typed'
  <2>1. RegsOK(Zeroed)
    BY DEF RegsOK, Zeroed, Regs, Lvt, Delivery, Entry, Spiv
  <2>2. TypeOK'
    BY <1>1, <2>1 DEF IInv, Typed, TypeOK, Phases
  <2>3. Shape'
    BY <1>1, EmptySeq DEF Shape, Busy
  <2> QED BY <1>1, <2>2, <2>3, EmptySeq DEF IInv, Typed
<1>3. StrayInv'
  BY <1>1, FreeEmpty, StrayQuiet DEF IInv, StrayInv, Detached
<1>4. UpInv'
  <2>1. ~hw.disable_apic => pm.active
    BY <1>1 DEF IInv, Typed
  <2>2. pm.active => \A r \in {"SPIV", "LVTERR", "TASKPRI", "LVT0"} : regs[r] = pm.saved[r]
    BY <1>1 DEF IInv, ResumedState, Has, Regs, Lvt
  <2>3. pm.active => UpRegs(regs)
    BY <1>1, <2>2 DEF IInv, SavedInv, UpRegs
  <2>4. UpRegs(regs)' <=> UpRegs(regs)
    BY <1>1 DEF UpRegs, skip_ioapic_setup
  <2>5. ~hw.disable_apic => "old" \notin esr
    <3>1. ~hw.disable_apic => Managed
      BY <1>1 DEF Managed
    <3> QED BY <1>1, <3>1, Finished
  <2> QED BY <1>1, <2>1, <2>3, <2>4, <2>5 DEF UpInv
<1>5. ErrorInv'
  <2>1. Clears' = Clears
    BY <1>1, SameHw
  <2>2. Managed' <=> Managed
    BY <1>1 DEF Managed
  <2> QED BY <1>1, <2>1, <2>2 DEF IInv, ErrorInv
<1> QED BY <1>1, <1>2, <1>3, <1>4, <1>5, OtherPhases DEF IInv

\* Use touches no register that UpRegs speaks of.
LEMMA UseStep ==
  ASSUME IInv, Use
  PROVE  IInv'
<1>1. /\ todo = <<>> /\ todo' = <<>> /\ phase = "up" /\ phase' = "up" /\ pm.active
      /\ UNCHANGED <<stale, errirq, ioapic, before, hw, errs, esr, stray, warned, pm>>
  BY DEF Use, Quiet
<1>2. RegsOK(regs)
  BY DEF IInv, Typed, TypeOK
<1>3. RegsOK(regs') /\ \A r \in {"SPIV", "LVTERR", "TASKPRI", "LVT0"} : regs'[r] = regs[r]
  <2>1. CASE \E m \in BOOLEAN : regs' = [regs EXCEPT !["LVTT"] = Entry("timer", m), !["TIMER"] = "set"]
    BY <1>2, <2>1 DEF RegsOK, Regs, Lvt, Entry, Delivery
  <2>2. CASE regs' = [r \in Regs |-> IF r \in {"LVTTHMR", "LVTCMCI"} /\ Has(r)
                                    THEN Entry("other", FALSE) ELSE regs[r]]
    BY <1>2, <2>2 DEF RegsOK, Regs, Lvt, Entry, Delivery
  <2> QED BY <2>1, <2>2 DEF Use
<1>4. Typed'
  <2>1. TypeOK'
    BY <1>1, <1>3 DEF IInv, Typed, TypeOK
  <2>2. Shape'
    BY <1>1, EmptySeq DEF Shape, Busy
  <2> QED BY <1>1, <2>1, <2>2, EmptySeq DEF IInv, Typed
<1>5. StrayInv'
  BY <1>1, FreeEmpty, StrayQuiet DEF IInv, StrayInv, Detached
<1>6. UpInv'
  BY <1>1, <1>3 DEF IInv, UpInv, UpRegs, skip_ioapic_setup
<1>7. ErrorInv'
  <2>1. Clears' = Clears
    BY <1>1, SameHw
  <2>2. Managed' <=> Managed
    BY <1>1 DEF Managed
  <2> QED BY <1>1, <1>3, <2>1, <2>2 DEF IInv, ErrorInv
<1> QED BY <1>1, <1>4, <1>5, <1>6, <1>7, OtherPhases DEF IInv

\* Only what waits for a stale interrupt depends on one; an interrupt arrives at an
\* enabled APIC.  The same holds for a step that changes nothing.
LEMMA StaleStep ==
  ASSUME IInv, Interrupt \/ Serve \/ UNCHANGED vars
  PROVE  IInv'
<1>1. /\ UNCHANGED <<regs, errirq, ioapic, phase, before, hw, errs, esr, stray, warned, pm, todo>>
      /\ stale' \in BOOLEAN /\ (stale' => stale \/ On)
  <2>1. stale \in BOOLEAN
    BY DEF IInv, Typed, TypeOK
  <2>2. CASE Interrupt
    BY <2>2 DEF Interrupt, Quiet
  <2>3. CASE Serve
    BY <2>3 DEF Serve, Quiet
  <2>4. CASE UNCHANGED vars
    BY <2>1, <2>4 DEF vars
  <2> QED BY <2>2, <2>3, <2>4
<1>2. Clears' = Clears /\ \A r : Has(r)' <=> Has(r)
  BY <1>1, SameHw
<1>3. UpRegs(regs)' <=> UpRegs(regs)
  BY <1>1 DEF UpRegs, skip_ioapic_setup
<1>4. UpRegs(before)' <=> UpRegs(before)
  BY <1>1 DEF UpRegs, skip_ioapic_setup
<1>5. Typed'
  <2>1. TypeOK'
    BY <1>1 DEF IInv, Typed, TypeOK
  <2>2. Shape'
    BY <1>1 DEF IInv, Typed, Shape
  <2> QED BY <1>1, <2>1, <2>2 DEF IInv, Typed
<1>6. StrayInv' /\ WireInv'
  BY <1>1 DEF IInv, StrayInv, Detached, WireInv, On
<1>7. SetupInv'
  BY <1>1 DEF IInv, SetupInv, On, skip_ioapic_setup
<1>8. UpInv' /\ DownInv' /\ DownState'
  BY <1>1, <1>2, <1>3 DEF IInv, UpInv, DownInv, DownState, Shut, On
<1>9. SavedInv' /\ QuietInv'
  BY <1>1, <1>4 DEF IInv, SavedInv, QuietInv
<1>10. ResumeInv' /\ ResumedState'
  BY <1>1, <1>2 DEF IInv, ResumeInv, ResumedState
<1>11. ErrorInv'
  <2>1. Managed' <=> Managed
    BY <1>1 DEF Managed
  <2> QED BY <1>1, <1>2, <2>1 DEF IInv, ErrorInv
<1> QED BY <1>5, <1>6, <1>7, <1>8, <1>9, <1>10, <1>11 DEF IInv

\* A new kernel, in the middle of whatever the one before it did.
LEMMA NewKernelStep ==
  ASSUME IInv, NewKernel
  PROVE  IInv'
<1>1. /\ phase' = "boot" /\ todo' = <<>> /\ pm' = [active |-> FALSE, saved |-> Zeroed]
      /\ before' = Zeroed /\ ioapic' = "open" /\ warned' = FALSE /\ stale' \in {stale \/ errirq, TRUE}
      /\ errs' = (IF errs = {} THEN {} ELSE {"old"}) /\ esr' = {} /\ errirq' = FALSE
      /\ hw' \in Configs /\ stray' = FALSE /\ regs' = regs
  BY DEF NewKernel
<1>2. Typed'
  <2>1. RegsOK(Zeroed)
    BY DEF RegsOK, Zeroed, Regs, Lvt, Delivery, Entry, Spiv
  <2>2. TypeOK'
    BY <1>1, <2>1 DEF IInv, Typed, TypeOK, Phases, Errors
  <2>3. Shape'
    BY <1>1 DEF Shape, Busy
  <2> QED BY <1>1, <2>2, <2>3, EmptySeq DEF Typed
<1>3. StrayInv'
  BY <1>1, FreeEmpty, StrayQuiet DEF IInv, StrayInv, Detached
<1> QED BY <1>1, <1>2, <1>3, OtherPhases DEF IInv

-----------------------------------------------------------------------------
(* A function makes its next access.                                       *)

\* What the accesses write.
LEMMA Targets ==
  /\ \A r, v : Target(Write(r, v)) = r /\ Value(Write(r, v)) = v
  /\ \A r : Target(SetMask(r)) = r /\ Value(SetMask(r)) = MaskOn(regs[r])
  /\ \A r : Target(Restore(r)) = r /\ Value(Restore(r)) = pm.saved[r]
  /\ Target(Op("spiv_off")) = "SPIV" /\ Value(Op("spiv_off")) = [regs["SPIV"] EXCEPT !.on = FALSE]
  /\ Target(Op("taskpri")) = "TASKPRI" /\ Value(Op("taskpri")) = 16
  /\ Target(Op("lvt0")) = "LVT0" /\ Value(Op("lvt0")) = Entry("extint", ~Lint0)
  /\ Target(Op("mask_open_cmci")) = "LVTCMCI" /\ Value(Op("mask_open_cmci")) = MaskOn(regs["LVTCMCI"])
  /\ \A o \in {"write_esr", "read_esr", "pending_intr_clear", "ack_APIC_irq", "save", "pm_activate",
               "mask_ioapic_entries"} : Target(Op(o)) = "none"
BY DEF Target, Value, Write, SetMask, Restore, Op

\* The target of a plain write.
LEMMA WriteTarget == \A r, v : Target(Write(r, v)) = r /\ Value(Write(r, v)) = v
BY Targets

\* Which registers each function writes, and with what.
LEMMA HandlerWrites ==
  ASSUME NEW a \in HandlerAcc
  PROVE  Target(a) = "none"
BY Targets DEF HandlerAcc, EsrOps

\* The accesses that enable the APIC.
LEMMA SpivOnWrites ==
  ASSUME NEW a \in SpivOn
  PROVE  Target(a) = "SPIV" /\ Value(a).on
BY Targets DEF SpivOn, Spiv

\* clear_local_APIC masks every entry it writes.
LEMMA ClearWrites ==
  ASSUME NEW a \in ClearAcc, RegsOK(regs)
  PROVE  /\ Target(a) \in Lvt \cup {"none"}
         /\ Target(a) \in Lvt => /\ Value(a).masked
                                 /\ \/ a = SetMask(Target(a)) \/ a = Write(Target(a), Clean)
                                    \/ a \in MaskErr /\ Target(a) = "LVTERR"
                                    \/ a = Op("mask_open_cmci")
<1>1. \A r \in Lvt : regs[r] \in Entries
  BY DEF RegsOK, Entries
<1>2. CASE a \in MaskErr
  BY <1>2, Targets DEF MaskErr, Lvt, Entry
<1>3. ASSUME NEW r \in MaskRegs, a = SetMask(r)
      PROVE  Target(a) = r /\ r \in Lvt /\ Value(a).masked
  <2>1. r \in Lvt
    BY DEF MaskRegs, Lvt
  <2> QED BY <1>1, <1>3, <2>1, Targets, MaskOnType
<1>4. CASE a = Op("mask_open_cmci")
  <2>1. "LVTCMCI" \in Lvt
    BY DEF Lvt
  <2> QED BY <1>1, <1>4, <2>1, Targets, MaskOnType
<1>5. ASSUME NEW r \in CleanRegs, a = Write(r, Clean)
      PROVE  Target(a) = r /\ r \in Lvt /\ Value(a).masked
  BY <1>5, Targets DEF CleanRegs, Lvt, Clean, Entry
<1>6. CASE a \in EsrOps
  BY <1>6, HandlerWrites DEF HandlerAcc, Lvt
<1> QED BY <1>2, <1>3, <1>4, <1>5, <1>6 DEF ClearAcc, MaskAcc, CleanAcc

\* What init_bsp_APIC writes.
LEMMA EarlyWrites ==
  ASSUME NEW a \in EarlyAcc, RegsOK(regs)
  PROVE  /\ Target(a) = "SPIV" => a \in SpivOn /\ Value(a).on
         /\ Target(a) = "LVT0" => a \in {SetMask("LVT0"), Write("LVT0", Clean), Write("LVT0", ExtInt)}
         /\ Target(a) = "LVTERR" => Value(a).masked
<1>1. CASE a \in ClearAcc
  <2>1. "SPIV" \notin Lvt /\ "LVT0" \in Lvt /\ "LVTERR" \in Lvt
    BY DEF Lvt
  <2>2. a = Op("mask_open_cmci") => Target(a) # "LVT0"
    BY Targets
  <2> QED BY <1>1, <2>1, <2>2, ClearWrites
<1>2. CASE a \in SpivOn
  BY <1>2, SpivOnWrites
<1>3. CASE a = Write("LVT0", ExtInt)
  BY <1>3, Targets
<1>4. CASE \E m \in BOOLEAN : a = Write("LVT1", Entry("nmi", m))
  BY <1>4, Targets
<1> QED BY <1>1, <1>2, <1>3, <1>4 DEF EarlyAcc

\* What the ways down write.
LEMMA DownWrites ==
  ASSUME NEW a \in DownAcc, RegsOK(regs)
  PROVE  /\ Target(a) = "SPIV" => a = Op("spiv_off") /\ Value(a).on = FALSE
         /\ Target(a) \in Lvt => /\ Value(a).masked
                                 /\ \/ a = SetMask(Target(a)) \/ a = Write(Target(a), Clean)
                                    \/ a \in MaskErr /\ Target(a) = "LVTERR"
                                    \/ a = Op("mask_open_cmci")
<1>1. CASE a \in ClearAcc
  BY <1>1, ClearWrites DEF Lvt
<1>2. CASE a = Op("spiv_off")
  <2>1. regs["SPIV"] \in Spivs
    BY DEF RegsOK, Spivs
  <2>2. Value(a).on = FALSE
    BY <1>2, <2>1, Targets DEF Spivs
  <2> QED BY <1>2, <2>2, Targets DEF Lvt
<1>3. CASE a \in {Op("save"), Op("mask_ioapic_entries")}
  BY <1>3, Targets DEF Lvt
<1> QED BY <1>1, <1>2, <1>3 DEF DownAcc, SpivOff

\* What a setup writes: no entry with vector zero.
LEMMA SetupWrites ==
  ASSUME NEW a \in SetupAcc
  PROVE  /\ Target(a) = "SPIV" => (a \in SpivOn /\ Value(a).on) \/ a \in SpivOff
         /\ Target(a) = "TASKPRI" => a = Op("taskpri")
         /\ Target(a) = "LVT0" => a = Op("lvt0")
         /\ Target(a) = "LVTERR" => a = Write("LVTERR", ErrorEntry)
         /\ Target(a) \in Lvt => Value(a).vec # "zero"
<1>1. CASE a \in HandlerAcc
  BY <1>1, HandlerWrites DEF Lvt
<1>2. CASE a \in SpivOn \/ a \in SpivOff
  <2>1. a \in SpivOff => Target(a) = "SPIV"
    BY Targets DEF SpivOff
  <2> QED BY <1>2, <2>1, SpivOnWrites DEF Lvt
<1>3. CASE a \in {Write("ID", "set"), Write("LDR", "set")}
  BY <1>3, Targets DEF Lvt
<1>4. CASE a \in {Op("taskpri"), Op("pending_intr_clear"), Op("pm_activate")}
  BY <1>4, Targets DEF Lvt
<1>5. CASE a = Op("lvt0")
  BY <1>5, Targets DEF Entry
<1>6. CASE a = Write("LVTPC", Entry("nmi", FALSE)) \/ \E m \in BOOLEAN : a = Write("LVT1", Entry("nmi", m))
  <2>1. Target(a) \in {"LVTPC", "LVT1"} /\ \E m \in BOOLEAN : Value(a) = Entry("nmi", m)
    <3>1. CASE a = Write("LVTPC", Entry("nmi", FALSE))
      BY <3>1, WriteTarget
    <3>2. ASSUME NEW m \in BOOLEAN, a = Write("LVT1", Entry("nmi", m))
          PROVE  Target(a) = "LVT1" /\ Value(a) = Entry("nmi", m)
      BY <3>2, WriteTarget
    <3> QED BY <1>6, <3>1, <3>2
  <2> QED BY <2>1 DEF Entry
<1>7. CASE a = Write("LVTERR", ErrorEntry)
  <2>1. Target(a) = "LVTERR" /\ Value(a) = ErrorEntry
    BY <1>7, Targets
  <2> QED BY <1>7, <2>1 DEF ErrorEntry, Entry
<1> QED BY <1>1, <1>2, <1>3, <1>4, <1>5, <1>6, <1>7 DEF SetupAcc

\* lapic_resume writes saved values, and LVTERR masked.
LEMMA ResumeWrites ==
  ASSUME NEW a \in ResumeAcc
  PROVE  \/ Target(a) = "none"
         \/ Target(a) \in Regs /\ a = Restore(Target(a)) /\ Value(a) = pm.saved[Target(a)]
         \/ Target(a) = "LVTERR" /\ a \in MaskErr /\ Value(a) = Entry("error", TRUE)
<1>1. CASE a \in EsrOps \/ a = Op("mask_ioapic_entries")
  BY <1>1, Targets DEF EsrOps
<1>2. CASE a \in MaskErr
  <2>1. a = Write("LVTERR", Entry("error", TRUE))
    BY <1>2 DEF MaskErr
  <2>2. Target(a) = "LVTERR" /\ Value(a) = Entry("error", TRUE)
    BY <2>1, WriteTarget
  <2> QED BY <1>2, <2>2
<1>3. ASSUME NEW r \in Regs, a = Restore(r)
      PROVE  Target(a) \in Regs /\ a = Restore(Target(a)) /\ Value(a) = pm.saved[Target(a)]
  <2>1. Target(Restore(r)) = r /\ Value(Restore(r)) = pm.saved[r]
    BY Targets
  <2> QED BY <1>3, <2>1
<1> QED BY <1>1, <1>2, <1>3 DEF ResumeAcc

\* What disconnect_bsp_APIC writes.
LEMMA DetachWrites ==
  ASSUME NEW a \in DetachAcc
  PROVE  /\ Target(a) = "SPIV" => a \in SpivOn /\ Value(a).on
         /\ Target(a) = "LVT1" => a = Write("LVT1", Entry("nmi", FALSE))
         /\ Target(a) # "LVTERR"
         /\ Target(a) \in Lvt /\ Value(a).vec = "zero" => a = Write("LVT0", Clean)
<1>1. CASE a \in SpivOn
  <2>1. Target(a) = "SPIV" /\ Value(a).on
    BY <1>1, SpivOnWrites
  <2> QED BY <1>1, <2>1 DEF Lvt
<1>2. CASE a = Write("LVT0", Clean)
  <2>1. Target(a) = "LVT0"
    BY <1>2, WriteTarget
  <2> QED BY <1>2, <2>1
<1>3. CASE a = Write("LVT0", ExtInt)
  <2>1. Target(a) = "LVT0" /\ Value(a) = ExtInt
    BY <1>3, WriteTarget
  <2> QED BY <2>1 DEF ExtInt, Entry
<1>4. CASE a = Write("LVT1", Entry("nmi", FALSE))
  <2>1. Target(a) = "LVT1" /\ Value(a) = Entry("nmi", FALSE)
    BY <1>4, WriteTarget
  <2> QED BY <1>4, <2>1 DEF Entry
<1> QED BY <1>1, <1>2, <1>3, <1>4 DEF DetachAcc

\* Access a is made and t is left: what is known of it in every phase.
Takes(a, t) ==
  /\ a \in Acc /\ t \in Seq(Acc) /\ todo' = t
  /\ \A X : Free(todo, X) <=> a \notin X /\ Free(t, X)
  /\ \A X, Y : Ordered(todo, X, Y) <=> Ordered(t, X, Y) /\ (a \in X => Free(t, Y))
Writes(a) ==
  /\ RegsOK(regs) /\ RegsOK(regs')
  /\ \A x \in Regs : regs'[x] = After(x, Target(a), Value(a))
Keeps(a) ==
  /\ hw' = hw /\ before' = before /\ phase' = phase
  /\ ioapic' = (IF a = Op("mask_ioapic_entries") THEN "masked" ELSE ioapic)
  /\ pm' = IF a = Op("save") THEN [pm EXCEPT !.saved = regs]
           ELSE IF a = Op("pm_activate") THEN [pm EXCEPT !.active = TRUE] ELSE pm
Reports(a) ==
  /\ a \notin EsrOps => esr' = esr /\ (errs' = errs \/ (Bad(a) /\ errs' = errs \cup {"old"}))
  /\ a = Op("write_esr") => esr' = errs /\ errs' = {}
  /\ a = Op("read_esr") => IF hw.maxlvt > 3 THEN UNCHANGED <<esr, errs>> ELSE esr' = {} /\ errs' = {}
  /\ stray' \in BOOLEAN /\ (stray' => stray \/ (Bad(a) /\ ~regs'["LVTERR"].masked))
  /\ a # Op("pending_intr_clear") => UNCHANGED <<errirq, stale, warned>>
  /\ a = Op("pending_intr_clear") =>
       stale' \in {FALSE, stale} /\ errirq' \in {FALSE, errirq} /\ warned' \in {TRUE, stale' \/ errirq'}

\* What the next access of a program does, in the terms of the invariant.
LEMMA ContinueFacts ==
  ASSUME IInv, Continue
  PROVE  LET a == Head(todo) IN
         Access(a) /\ Takes(a, Tail(todo)) /\ Writes(a) /\ Keeps(a) /\ Reports(a)
<1> DEFINE a == Head(todo)
<1>1. /\ todo # <<>> /\ Access(a) /\ todo' = Tail(todo)
      /\ hw' = hw /\ before' = before /\ phase' = phase
  BY DEF Continue
<1>2. todo \in Seq(Acc) /\ RegsOK(regs) /\ RegsOK(pm.saved) /\ stray \in BOOLEAN
  BY DEF IInv, Typed, TypeOK
<1>3. a \in Acc
  BY <1>1, <1>2
<1>4. Takes(a, Tail(todo))
  BY <1>1, <1>2, FreeTail, OrderedTail DEF Takes
<1> HIDE DEF a
<1>5. Writes(a) /\ Keeps(a) /\ Reports(a)
  BY <1>1, <1>2, <1>3, AccessEffect DEF Writes, Keeps, Reports
<1> QED BY <1>1, <1>4, <1>5 DEF a

\* The head of a sequence of some accesses is one of them.
LEMMA ContinueIn ==
  ASSUME NEW A, todo \in Seq(A), Continue
  PROVE  Head(todo) \in A /\ todo' \in Seq(A)
BY DEF Continue

\* A register that is not written keeps its value; one that is written takes it.
LEMMA KeptReg ==
  ASSUME NEW a, Writes(a), NEW x \in Regs, Target(a) # x,
         x \in Lvt => ~(Target(a) = "SPIV" /\ ~Value(a).on)
  PROVE  regs'[x] = regs[x]
BY DEF Writes, After, AfterLvt

\* A register holds what was written, unless the APIC is off and it is an entry.
LEMMA PutReg ==
  ASSUME NEW a, Writes(a), NEW x \in Regs, Target(a) = x, x \in Lvt => On
  PROVE  regs'[x] = Value(a)
BY DEF Writes, After, AfterLvt, Lvt

\* An entry that is written with its mask set, or masked with all, is masked.
LEMMA MaskedReg ==
  ASSUME NEW a, Writes(a), NEW x \in Lvt,
         \/ Target(a) = x /\ Value(a) \in Entries /\ Value(a).masked
         \/ Target(a) = "SPIV" /\ ~Value(a).on
         \/ Target(a) # x /\ regs[x].masked
  PROVE  regs'[x].masked
<1>1. x \in Regs /\ x # "SPIV" /\ regs[x] \in Entries
  BY DEF Regs, Lvt, Writes, RegsOK, Entries
<1>2. MaskOn(regs[x]).masked
  BY <1>1, MaskOnType
<1>3. Value(a) \in Entries => MaskOn(Value(a)).masked
  BY MaskOnType
<1> QED BY <1>1, <1>2, <1>3 DEF Writes, After, AfterLvt

\* Settles stays true, and holds its promise, as the sequence gets shorter.
LEMMA SettlesTail ==
  ASSUME NEW a, NEW t, Takes(a, t), NEW X, NEW Y, Settles(todo, X, Y)
  PROVE  Settles(t, X, Y) /\ (a \in X => Free(t, Y)) /\ (Free(t, X) /\ a \notin X => a \notin Y)
BY DEF Takes, Settles

\* The types, after the next access.
LEMMA ContinueTyped ==
  ASSUME IInv, Continue
  PROVE  Typed'
<1> DEFINE a == Head(todo)
<1>1. Takes(a, Tail(todo)) /\ Writes(a) /\ Keeps(a) /\ Reports(a)
  BY ContinueFacts
<1>2. phase' = phase /\ hw' = hw /\ todo # <<>>
  BY DEF Continue
<1>3. Shape'
  <2>1. Shape
    BY DEF IInv, Typed
  <2>2. phase \in Busy
    BY <1>2, <2>1 DEF Shape
  <2> QED BY <1>2, <2>1, <2>2, ContinueIn DEF Shape
<1> HIDE DEF a
<1>4. RegsOK(regs) /\ RegsOK(pm.saved) /\ pm = [active |-> pm.active, saved |-> pm.saved]
  BY DEF IInv, Typed, TypeOK
<1>5. pm' = [active |-> pm'.active, saved |-> pm'.saved] /\ RegsOK(pm'.saved) /\ pm'.active \in BOOLEAN
      /\ (pm'.active = pm.active \/ pm'.active = TRUE)
  BY <1>1, <1>4 DEF Keeps, IInv, Typed, TypeOK
<1>6. errs' \subseteq Errors /\ esr' \subseteq Errors
  <2>1. errs \subseteq Errors /\ esr \subseteq Errors /\ "old" \in Errors
    BY DEF IInv, Typed, TypeOK, Errors
  <2> QED BY <1>1, <2>1 DEF Reports, EsrOps
<1>7. errirq' \in BOOLEAN /\ stray' \in BOOLEAN /\ stale' \in BOOLEAN /\ warned' \in BOOLEAN
  <2>1. errirq \in BOOLEAN /\ stale \in BOOLEAN /\ warned \in BOOLEAN
    BY DEF IInv, Typed, TypeOK
  <2>2. CASE a = Op("pending_intr_clear")
    BY <1>1, <2>1, <2>2 DEF Reports
  <2>3. CASE a # Op("pending_intr_clear")
    BY <1>1, <2>1, <2>3 DEF Reports
  <2> QED BY <2>2, <2>3
<1>8. TypeOK'
  BY <1>1, <1>2, <1>5, <1>6, <1>7 DEF Writes, Keeps, IInv, Typed, TypeOK
<1>9. hw'.disable_apic => ~pm'.active /\ todo' \in Seq(HandlerAcc)
  <2>1. CASE hw.disable_apic
    <3>1. a \in HandlerAcc /\ todo' \in Seq(HandlerAcc) /\ ~pm.active
      BY <2>1, ContinueIn DEF IInv, Typed, a
    <3>2. a # Op("pm_activate") /\ a # Op("save")
      BY <3>1 DEF HandlerAcc, EsrOps, Op
    <3> QED BY <1>1, <3>1, <3>2 DEF Keeps
  <2> QED BY <1>2, <2>1
<1> QED BY <1>1, <1>2, <1>3, <1>5, <1>8, <1>9 DEF IInv, Typed, Takes

\* Only what is in ZeroVec, or LVTERR itself restored, can write vector zero, and
\* only Opens can unmask LVTERR.
LEMMA Kinds ==
  ASSUME NEW a, RegsOK(regs),
         a \in EarlyAcc \cup SetupAcc \cup DownAcc \cup ResumeAcc \cup DetachAcc
  PROVE  /\ Bad(a) => a \in ZeroVec \/ a = Restore("LVTERR")
         /\ Target(a) = "LVTERR" /\ a \notin Opens => Value(a).masked
<1>1. "LVTERR" \in Lvt /\ CleanRegs \subseteq Lvt /\ MaskRegs \subseteq Lvt
  BY DEF Lvt, CleanRegs, MaskRegs
<1>2. ASSUME Target(a) \in Lvt, a = SetMask(Target(a)) \/ a = Write(Target(a), Clean)
      PROVE  a \in ZeroVec
  BY <1>2 DEF ZeroVec
<1>3. ASSUME a \in MaskErr PROVE ~Bad(a) /\ Value(a).masked
  <2>1. Target(a) = "LVTERR" /\ Value(a) = Entry("error", TRUE)
    BY <1>3, WriteTarget DEF MaskErr
  <2> QED BY <2>1 DEF Bad, Entry
<1>4. ASSUME a = Op("mask_open_cmci") PROVE a \in ZeroVec
  BY <1>4 DEF ZeroVec
<1>5. CASE a \in DownAcc
  BY <1>1, <1>2, <1>3, <1>4, <1>5, DownWrites DEF Bad
<1>6. CASE a \in EarlyAcc
  <2>1. CASE a \in ClearAcc
    BY <2>1, <1>5 DEF DownAcc
  <2>2. CASE a \in SpivOn
    BY <2>2, SpivOnWrites DEF Bad, Lvt
  <2>3. CASE a = Write("LVT0", ExtInt)
    <3>1. Target(a) = "LVT0" /\ Value(a) = ExtInt
      BY <2>3, WriteTarget
    <3> QED BY <3>1 DEF Bad, ExtInt, Entry
  <2>4. ASSUME NEW m \in BOOLEAN, a = Write("LVT1", Entry("nmi", m))
        PROVE  ~Bad(a) /\ Target(a) # "LVTERR"
    <3>1. Target(a) = "LVT1" /\ Value(a) = Entry("nmi", m)
      BY <2>4, WriteTarget
    <3> QED BY <3>1 DEF Bad, Entry
  <2> QED BY <1>6, <2>1, <2>2, <2>3, <2>4 DEF EarlyAcc
<1>7. CASE a \in SetupAcc
  <2>1. Write("LVTERR", ErrorEntry) \in Opens
    BY DEF Opens
  <2> QED BY <1>7, <2>1, SetupWrites DEF Bad
<1>8. CASE a \in ResumeAcc
  <2>1. CASE Target(a) = "none"
    BY <2>1 DEF Bad, Lvt
  <2>2. CASE Target(a) \in Regs /\ a = Restore(Target(a))
    <3>1. Restore("LVTERR") \in Opens /\ \A r \in Lvt \ {"LVTERR"} : Restore(r) \in ZeroVec
      BY DEF Opens, ZeroVec
    <3> QED BY <2>2, <3>1 DEF Bad
  <2>3. CASE a \in MaskErr
    BY <2>3, <1>3
  <2> QED BY <1>8, <2>1, <2>2, <2>3, ResumeWrites
<1>9. CASE a \in DetachAcc
  <2>1. Target(a) # "LVTERR"
    BY <1>9, DetachWrites
  <2>2. Bad(a) => a \in ZeroVec
    <3>1. "LVT0" \in Lvt
      BY DEF Lvt
    <3> QED BY <1>9, <3>1, DetachWrites DEF Bad, ZeroVec
  <2> QED BY <2>1, <2>2
<1> QED BY <1>5, <1>6, <1>7, <1>8, <1>9

\* An access that can write vector zero leaves LVTERR masked or alone.
LEMMA ZeroVecMasks ==
  ZeroVec \cap Opens = {} /\ ZeroVec \cap MaskErr = {}
BY DEF ZeroVec, Opens, MaskErr, Op, Write, SetMask, Restore, Clean, ErrorEntry, Entry

\* In a phase where something is under way, what it may do.
LEMMA ContinuePhase ==
  ASSUME IInv, Continue
  PROVE  LET a == Head(todo) IN
         /\ phase \in Busy
         /\ phase = "early" => a \in EarlyAcc
         /\ phase = "setup" => a \in SetupAcc
         /\ phase = "up" => a \in HandlerAcc
         /\ phase \in {"suspend", "stop"} => a \in DownAcc
         /\ phase = "resume" => a \in ResumeAcc
         /\ phase = "detach" => a \in DetachAcc
         /\ a \in EarlyAcc \cup SetupAcc \cup DownAcc \cup ResumeAcc \cup DetachAcc
<1>1. Shape /\ todo # <<>>
  BY DEF IInv, Typed, Continue
<1>2. phase \in Busy
  BY <1>1 DEF Shape
<1>3. HandlerAcc \subseteq SetupAcc
  BY AccTypes
<1> QED BY <1>1, <1>2, <1>3, ContinueIn DEF Shape, Busy

\* No stray error, after the next access.
LEMMA ContinueStray ==
  ASSUME IInv, Continue
  PROVE  StrayInv'
<1> DEFINE a == Head(todo)
<1> DEFINE t == Tail(todo)
<1>1. Takes(a, t) /\ Writes(a) /\ Keeps(a) /\ Reports(a)
  BY ContinueFacts
<1>2. a \in EarlyAcc \cup SetupAcc \cup DownAcc \cup ResumeAcc \cup DetachAcc
  BY ContinuePhase
<1>3. /\ Bad(a) => a \in ZeroVec \/ a = Restore("LVTERR")
      /\ Target(a) = "LVTERR" /\ a \notin Opens => Value(a).masked
  BY <1>1, <1>2, Kinds DEF Writes
<1>4. a = Restore("LVTERR") => phase = "resume" /\ Value(a) = pm.saved["LVTERR"]
  <2> SUFFICES ASSUME a = Restore("LVTERR")
               PROVE  phase = "resume" /\ Value(a) = pm.saved["LVTERR"]
    OBVIOUS
  <2> HIDE DEF a
  <2>1. a \in Opens /\ Target(a) = "LVTERR" /\ Value(a) = pm.saved["LVTERR"]
    BY Targets DEF Opens
  <2>2. a \notin SetupAcc
    <3>1. a \in SetupAcc => a = Write("LVTERR", ErrorEntry)
      BY <2>1, SetupWrites
    <3> QED BY <3>1 DEF Write, Restore
  <2>3. a \notin EarlyAcc /\ a \notin DownAcc /\ a \notin DetachAcc /\ a \notin HandlerAcc
    BY <2>1, Disjoint
  <2> QED BY <2>1, <2>2, <2>3, ContinuePhase DEF Busy, a
<1> HIDE DEF a, t
<1> SUFFICES ASSUME ~Detached PROVE StrayInv'
  <2>1. Detached' <=> Detached
    BY DEF Continue, Detached
  <2> QED BY <2>1 DEF StrayInv
<1>5. /\ ~stray
      /\ Ordered(todo, ZeroVec, MaskErr) /\ Ordered(todo, Opens, ZeroVec) /\ Ordered(todo, Opens, Opens)
      /\ Free(todo, MaskErr) /\ ~Free(todo, ZeroVec) => regs["LVTERR"].masked
  BY DEF IInv, StrayInv
<1>6. todo' = t /\ Ordered(t, ZeroVec, MaskErr) /\ Ordered(t, Opens, ZeroVec) /\ Ordered(t, Opens, Opens)
  BY <1>1, <1>5 DEF Takes
<1>7. Target(a) = "LVTERR" => Value(a) \in Entries
  <2>1. RegsOK(pm.saved) /\ a \in Acc /\ RegsOK(regs)
    BY <1>1 DEF IInv, Typed, TypeOK, Takes, Writes
  <2> QED BY <2>1, AccessWrites DEF Fits, Lvt
<1>8. ASSUME a \notin Opens, regs["LVTERR"].masked \/ a \in MaskErr
      PROVE  regs'["LVTERR"].masked
  <2>1. a \in MaskErr => Target(a) = "LVTERR"
    BY WriteTarget DEF MaskErr
  <2> QED BY <1>1, <1>3, <1>7, <1>8, <2>1, MaskedReg DEF Lvt
<1>9. ~stray'
  <2> SUFFICES ASSUME Bad(a) PROVE regs'["LVTERR"].masked
    BY <1>1, <1>5 DEF Reports
  <2>1. CASE a \in ZeroVec
    <3>1. Free(todo, MaskErr) /\ ~Free(todo, ZeroVec) /\ a \notin Opens
      BY <1>1, <1>5, <2>1, ZeroVecMasks DEF Takes
    <3> QED BY <1>5, <1>8, <3>1
  <2>2. CASE a = Restore("LVTERR")
    <3>1. phase = "resume" /\ Value(a) = pm.saved["LVTERR"]
      BY <1>4, <2>2
    <3>2. pm.active
      <4>1. ~hw.disable_apic
        <5>1. hw.disable_apic => todo \in Seq(HandlerAcc)
          BY DEF IInv, Typed
        <5>2. a \notin HandlerAcc
          BY <2>2 DEF HandlerAcc, EsrOps, Op, Restore
        <5> QED BY <5>1, <5>2, ContinueIn DEF a
      <4> QED BY <3>1, <4>1 DEF IInv, Typed
    <3>3. pm.saved["LVTERR"] = ErrorEntry
      BY <3>1, <3>2 DEF IInv, SavedInv, UpRegs
    <3>4. FALSE
      BY <3>1, <3>3 DEF Bad, ErrorEntry, Entry
    <3> QED BY <3>4
  <2> QED BY <1>3, <2>1, <2>2
<1>10. ASSUME Free(t, MaskErr), ~Free(t, ZeroVec)
       PROVE  regs'["LVTERR"].masked
  <2>1. a \notin Opens
    BY <1>1, <1>5, <1>10 DEF Takes
  <2>2. regs["LVTERR"].masked \/ a \in MaskErr
    BY <1>1, <1>5, <1>10 DEF Takes
  <2> QED BY <2>1, <2>2, <1>8
<1> QED BY <1>6, <1>9, <1>10 DEF StrayInv

\* Virtual wire mode, after the next access.
LEMMA ContinueWire ==
  ASSUME IInv, Continue
  PROVE  WireInv'
<1> DEFINE a == Head(todo)
<1> DEFINE t == Tail(todo)
<1>1. Takes(a, t) /\ Writes(a) /\ Keeps(a)
  BY ContinueFacts
<1>2. phase \in Busy /\ (phase = "early" => a \in EarlyAcc) /\ (phase = "detach" => a \in DetachAcc)
  BY ContinuePhase
<1> HIDE DEF a, t
<1>3. todo' = t /\ phase' = phase /\ hw' = hw /\ RegsOK(regs)
  BY <1>1 DEF Takes, Keeps, Writes
<1>4. ASSUME Target(a) = "SPIV" => a \in SpivOn /\ Value(a).on,
             Free(todo, SpivOn) => On, Free(t, SpivOn)
      PROVE  On' /\ (a \notin SpivOn => On)
  <2>1. CASE a \in SpivOn
    <3>1. regs'["SPIV"] = Value(a) /\ Value(a).on
      BY <1>1, <2>1, SpivOnWrites, PutReg DEF Regs, Lvt
    <3> QED BY <2>1, <3>1 DEF On
  <2>2. CASE a \notin SpivOn
    <3>1. On
      BY <1>1, <1>4, <2>2 DEF Takes
    <3>2. regs'["SPIV"] = regs["SPIV"]
      BY <1>1, <1>4, <2>2, KeptReg DEF Regs, Lvt
    <3> QED BY <3>1, <3>2 DEF On
  <2> QED BY <2>1, <2>2
<1>5. CASE phase = "early"
  <2> DEFINE x == Write("LVT0", ExtInt)
  <2> DEFINE K == SpivOn \cup {SetMask("LVT0"), Write("LVT0", Clean)}
  <2>1. /\ Free(todo, SpivOn) => On
        /\ Settles(todo, {x}, K)
        /\ Free(todo, {x}) => regs["LVT0"] = ExtInt
    BY <1>5 DEF IInv, WireInv
  <2>2. /\ Target(a) = "SPIV" => a \in SpivOn /\ Value(a).on
        /\ Target(a) = "LVT0" => a \in {SetMask("LVT0"), Write("LVT0", Clean), x}
    BY <1>2, <1>3, <1>5, EarlyWrites
  <2>3. a = x => Target(a) = "LVT0" /\ Value(a) = ExtInt
    BY WriteTarget
  <2>4. x \notin SpivOn /\ SpivOn \subseteq K
    BY DEF SpivOn, Write
  <2>5. \A e \in {SetMask("LVT0"), Write("LVT0", Clean)} : e \in K
    OBVIOUS
  <2> HIDE DEF x, K
  <2>6. Settles(t, {x}, K)
    BY <1>1, <2>1, SettlesTail
  <2>7. Free(t, SpivOn) => On'
    BY <1>4, <2>1, <2>2
  <2>8. ASSUME Free(t, {x}) PROVE regs'["LVT0"] = ExtInt
    <3>1. Free(t, K)
      BY <2>6, <2>8 DEF Settles
    <3>2. Free(t, SpivOn)
      BY <2>4, <3>1, FreeSubset
    <3>3. CASE a = x
      <4>1. On
        BY <1>4, <2>1, <2>2, <2>4, <3>2, <3>3
      <4> QED BY <1>1, <2>3, <3>3, <4>1, PutReg DEF Regs, Lvt
    <3>4. CASE a # x
      <4>1. regs["LVT0"] = ExtInt /\ a \notin K
        <5>1. Free(todo, {x})
          BY <1>1, <2>8, <3>4 DEF Takes
        <5> QED BY <1>1, <2>1, <5>1 DEF Takes, Settles
      <4>2. Target(a) # "LVT0"
        BY <2>2, <2>5, <3>4, <4>1
      <4> QED BY <1>1, <2>2, <4>1, <4>2, KeptReg DEF Regs, Lvt
    <3> QED BY <3>3, <3>4
  <2> QED BY <1>3, <1>5, <2>6, <2>7, <2>8 DEF WireInv, x, K
<1>6. CASE phase = "detach"
  <2> DEFINE x == Write("LVT1", Entry("nmi", FALSE))
  <2>1. /\ Free(todo, SpivOn) => On
        /\ Settles(todo, {x}, SpivOn)
        /\ Free(todo, {x}) => regs["LVT1"] = Entry("nmi", FALSE)
    BY <1>6 DEF IInv, WireInv
  <2>2. /\ Target(a) = "SPIV" => a \in SpivOn /\ Value(a).on
        /\ Target(a) = "LVT1" => a = x
    BY <1>2, <1>6, DetachWrites
  <2>3. a = x => Target(a) = "LVT1" /\ Value(a) = Entry("nmi", FALSE)
    BY WriteTarget
  <2>4. x \notin SpivOn
    BY DEF SpivOn, Write
  <2> HIDE DEF x
  <2>6. Settles(t, {x}, SpivOn)
    BY <1>1, <2>1, SettlesTail
  <2>7. Free(t, SpivOn) => On'
    BY <1>4, <2>1, <2>2
  <2>8. ASSUME Free(t, {x}) PROVE regs'["LVT1"] = Entry("nmi", FALSE)
    <3>1. Free(t, SpivOn)
      BY <2>6, <2>8 DEF Settles
    <3>2. CASE a = x
      <4>1. On
        BY <1>4, <2>1, <2>2, <2>4, <3>1, <3>2
      <4> QED BY <1>1, <2>3, <3>2, <4>1, PutReg DEF Regs, Lvt
    <3>3. CASE a # x
      <4>1. regs["LVT1"] = Entry("nmi", FALSE)
        BY <1>1, <2>1, <2>8, <3>3 DEF Takes
      <4> QED BY <1>1, <2>2, <3>3, <4>1, KeptReg DEF Regs, Lvt
    <3> QED BY <3>2, <3>3
  <2> QED BY <1>3, <1>6, <2>6, <2>7, <2>8 DEF WireInv, x
<1> QED BY <1>2, <1>3, <1>5, <1>6, OtherPhases DEF Busy

\* What the accesses do to apic_pm_state.
LEMMA ContinuePm ==
  ASSUME IInv, NEW a, Keeps(a)
  PROVE  /\ a = Op("save") => pm'.saved = regs /\ pm'.active = pm.active
         /\ a = Op("pm_activate") => pm'.active
         /\ a # Op("pm_activate") => pm'.active = pm.active
         /\ a # Op("save") => pm'.saved = pm.saved
<1>1. pm = [active |-> pm.active, saved |-> pm.saved]
  BY DEF IInv, Typed
<1>2. Op("save") # Op("pm_activate")
  BY DEF Op
<1>3. CASE a = Op("save")
  <2>1. pm' = [pm EXCEPT !.saved = regs]
    BY <1>3 DEF Keeps
  <2>2. pm' = [active |-> pm.active, saved |-> regs]
    BY <1>1, <2>1
  <2> QED BY <1>2, <1>3, <2>2
<1>4. CASE a = Op("pm_activate")
  <2>1. pm' = [pm EXCEPT !.active = TRUE]
    BY <1>2, <1>4 DEF Keeps
  <2>2. pm' = [active |-> TRUE, saved |-> pm.saved]
    BY <1>1, <2>1
  <2> QED BY <1>2, <1>4, <2>2
<1>5. CASE a # Op("save") /\ a # Op("pm_activate")
  BY <1>5 DEF Keeps
<1> QED BY <1>3, <1>4, <1>5

\* Setup.
LEMMA ContinueSetup ==
  ASSUME IInv, Continue
  PROVE  SetupInv'
<1> DEFINE a == Head(todo)
<1> DEFINE t == Tail(todo)
<1>1. Takes(a, t) /\ Writes(a) /\ Keeps(a) /\ Reports(a)
  BY ContinueFacts
<1>2. phase = "setup" => a \in SetupAcc
  BY ContinuePhase
<1> HIDE DEF a, t
<1>3. todo' = t /\ phase' = phase /\ hw' = hw /\ RegsOK(regs)
  BY <1>1 DEF Takes, Keeps, Writes
<1> SUFFICES ASSUME phase = "setup", ~hw.disable_apic PROVE SetupInv'
  BY <1>3 DEF SetupInv
<1> DEFINE tp == {Op("taskpri")}
<1> DEFINE pc == {Op("pending_intr_clear")}
<1> DEFINE tpc == {Op("taskpri"), Op("pending_intr_clear")}
<1> DEFINE lv == {Op("lvt0")}
<1> DEFINE pa == {Op("pm_activate")}
<1> DEFINE L == SpivOn \cup pc
<1>4. /\ Ordered(todo, SpivOn, tpc)
      /\ Free(todo, tp) => regs["TASKPRI"] = 16
      /\ Settles(todo, pc, SpivOff)
      /\ Free(todo, pc) => On \/ ~stale \/ warned
      /\ Settles(todo, SpivOn, SpivOff)
      /\ Free(todo, SpivOn) => On
      /\ Settles(todo, lv, SpivOn)
      /\ Free(todo, lv) /\ hw.cpu = 0 /\ skip_ioapic_setup => regs["LVT0"] = ExtInt
      /\ Settles(todo, Opens, L)
      /\ Free(todo, pa) => pm.active
  BY DEF IInv, SetupInv
<1>5. /\ Target(a) = "SPIV" => (a \in SpivOn /\ Value(a).on) \/ a \in SpivOff
      /\ Target(a) = "TASKPRI" => a \in tp
      /\ Target(a) = "LVT0" => a \in lv
  BY <1>2, SetupWrites
<1>6. /\ a \in SpivOn => Target(a) = "SPIV" /\ Value(a).on
      /\ a \in tp => Target(a) = "TASKPRI" /\ Value(a) = 16
      /\ a \in lv => Target(a) = "LVT0" /\ Value(a) = Entry("extint", ~Lint0)
  BY SpivOnWrites, Targets
<1>7. (a \in pc => warned' \/ ~stale') /\ (a \notin pc => stale' = stale /\ warned' = warned)
  <2>1. stale' \in BOOLEAN /\ warned' \in BOOLEAN
    BY ContinueTyped DEF Typed, TypeOK
  <2> QED BY <1>1, <2>1 DEF Reports
<1>8. (a \in pa => pm'.active) /\ (a \notin pa => pm'.active = pm.active)
  BY <1>1, ContinuePm
<1>9. lv \cap SpivOn = {} /\ pc \cap SpivOff = {}
  BY DEF SpivOn, SpivOff, Op, Write
<1> HIDE DEF tp, pc, tpc, lv, pa, L
<1>10. Settles(t, pc, SpivOff) /\ Settles(t, SpivOn, SpivOff) /\ Settles(t, lv, SpivOn) /\ Settles(t, Opens, L)
  BY <1>1, <1>4, SettlesTail
<1>11. Ordered(t, SpivOn, tpc)
  BY <1>1, <1>4 DEF Takes
<1>12. Free(t, tp) => regs'["TASKPRI"] = 16
  <2>1. CASE a \in tp
    BY <1>1, <1>6, <2>1, PutReg DEF Regs, Lvt
  <2>2. CASE a \notin tp
    <3>1. Free(t, tp) => regs["TASKPRI"] = 16
      BY <1>1, <1>4, <2>2 DEF Takes
    <3> QED BY <1>1, <1>5, <2>2, <3>1, KeptReg DEF Regs, Lvt
  <2> QED BY <2>1, <2>2
<1>13. On /\ a \notin SpivOff => On'
  <2>1. CASE Target(a) = "SPIV"
    BY <1>1, <1>5, <2>1, PutReg DEF Regs, Lvt, On
  <2>2. CASE Target(a) # "SPIV"
    BY <1>1, <2>2, KeptReg DEF Regs, Lvt, On
  <2> QED BY <2>1, <2>2
<1>14. Free(t, pc) => On' \/ ~stale' \/ warned'
  <2>1. CASE a \in pc
    BY <1>7, <2>1
  <2>2. CASE a \notin pc /\ Free(t, pc)
    <3>1. Free(todo, pc)
      BY <1>1, <2>2 DEF Takes
    <3>2. a \notin SpivOff
      BY <1>1, <1>4, <3>1 DEF Takes, Settles
    <3> QED BY <1>4, <1>7, <1>13, <2>2, <3>1, <3>2
  <2> QED BY <2>1, <2>2
<1>15. ASSUME Free(t, SpivOn) PROVE On' /\ (a \notin SpivOn => On /\ a \notin SpivOff)
  <2>1. CASE a \in SpivOn
    <3>1. regs'["SPIV"] = Value(a) /\ Value(a).on
      BY <1>1, <1>6, <2>1, PutReg DEF Regs, Lvt
    <3> QED BY <2>1, <3>1 DEF On
  <2>2. CASE a \notin SpivOn
    <3>1. Free(todo, SpivOn)
      BY <1>1, <1>15, <2>2 DEF Takes
    <3>2. a \notin SpivOff /\ On
      BY <1>1, <1>4, <3>1 DEF Takes, Settles
    <3> QED BY <1>13, <2>2, <3>2
  <2> QED BY <2>1, <2>2
<1>16. ASSUME Free(t, lv), hw.cpu = 0, skip_ioapic_setup PROVE regs'["LVT0"] = ExtInt
  <2>1. Free(t, SpivOn)
    BY <1>10, <1>16 DEF Settles
  <2>2. CASE a \in lv
    <3>1. a \notin SpivOn
      BY <1>9, <2>2
    <3>2. Lint0
      BY <1>16 DEF Lint0
    <3>3. Value(a) = ExtInt
      BY <1>6, <2>2, <3>2 DEF ExtInt
    <3> QED BY <1>1, <1>6, <1>15, <2>1, <2>2, <3>1, <3>3, PutReg DEF Regs, Lvt
  <2>3. CASE a \notin lv
    <3>1. Free(todo, lv)
      BY <1>1, <1>16, <2>3 DEF Takes
    <3>2. regs["LVT0"] = ExtInt /\ a \notin SpivOn
      BY <1>1, <1>4, <1>16, <3>1 DEF Takes, Settles
    <3>3. Target(a) # "SPIV" /\ Target(a) # "LVT0"
      BY <1>5, <1>15, <2>1, <2>3, <3>2
    <3> QED BY <1>1, <3>2, <3>3, KeptReg DEF Regs, Lvt
  <2> QED BY <2>2, <2>3
<1>17. Free(t, pa) => pm'.active
  BY <1>1, <1>4, <1>8 DEF Takes
<1>18. skip_ioapic_setup' <=> skip_ioapic_setup
  BY <1>3 DEF skip_ioapic_setup
<1>19. SetupInv' <=> (phase' = "setup" /\ ~hw'.disable_apic =>
    /\ Ordered(todo', SpivOn, tpc)
    /\ Free(todo', tp) => regs'["TASKPRI"] = 16
    /\ Settles(todo', pc, SpivOff)
    /\ Free(todo', pc) => On' \/ ~stale' \/ warned'
    /\ Settles(todo', SpivOn, SpivOff)
    /\ Free(todo', SpivOn) => On'
    /\ Settles(todo', lv, SpivOn)
    /\ Free(todo', lv) /\ hw'.cpu = 0 /\ skip_ioapic_setup' => regs'["LVT0"] = ExtInt
    /\ Settles(todo', Opens, L)
    /\ Free(todo', pa) => pm'.active)
  BY DEF SetupInv, tpc, tp, pc, lv, pa, L
<1> QED BY <1>3, <1>10, <1>11, <1>12, <1>14, <1>15, <1>16, <1>17, <1>18, <1>19

\* A handler writes no register but ESR.
LEMMA ContinueUp ==
  ASSUME IInv, Continue
  PROVE  UpInv'
<1> DEFINE a == Head(todo)
<1>1. Takes(a, Tail(todo)) /\ Writes(a) /\ Keeps(a) /\ Reports(a)
  BY ContinueFacts
<1>2. phase = "up" => a \in HandlerAcc
  BY ContinuePhase
<1> HIDE DEF a
<1>3. phase' = phase /\ hw' = hw
  BY <1>1 DEF Keeps
<1> SUFFICES ASSUME phase = "up", ~hw.disable_apic PROVE UpInv'
  BY <1>3 DEF UpInv
<1>4. Target(a) = "none"
  BY <1>2, HandlerWrites
<1>5. \A x \in {"SPIV", "LVTERR", "TASKPRI", "LVT0"} : regs'[x] = regs[x]
  BY <1>1, <1>4, KeptReg DEF Regs, Lvt
<1>6. "old" \notin errs
  <2>1. Free(todo, Opens)
    BY Disjoint, FreeOutside DEF IInv, Typed, Shape
  <2>2. Ordered(todo, Clears, Opens)
    BY <2>1, FreeOrdered
  <2> QED BY <2>2 DEF IInv, ErrorInv, Managed
<1>7. "old" \notin esr'
  <2>1. a = Op("write_esr") => esr' = errs
    BY <1>1 DEF Reports
  <2>2. a = Op("read_esr") => esr' \in {esr, {}}
    BY <1>1 DEF Reports
  <2>3. a \notin EsrOps => esr' = esr
    BY <1>1 DEF Reports
  <2> QED BY <1>6, <2>1, <2>2, <2>3 DEF EsrOps, IInv, UpInv
<1> QED BY <1>3, <1>5, <1>7 DEF IInv, UpInv, UpRegs, skip_ioapic_setup

\* Shutting down: masks only accumulate, and what has been cleaned stays clean.
LEMMA ContinueDown ==
  ASSUME IInv, Continue
  PROVE  DownInv'
<1> DEFINE a == Head(todo)
<1> DEFINE t == Tail(todo)
<1>1. Takes(a, t) /\ Writes(a) /\ Keeps(a) /\ Reports(a)
  BY ContinueFacts
<1>2. phase \in {"suspend", "stop"} => a \in DownAcc
  BY ContinuePhase
<1> HIDE DEF a, t
<1>3. /\ todo' = t /\ phase' = phase /\ hw' = hw /\ RegsOK(regs)
      /\ Clears' = Clears /\ \A r : Has(r)' <=> Has(r)
  BY <1>1, SameHw DEF Takes, Keeps, Writes
<1> SUFFICES ASSUME phase \in {"suspend", "stop"}, ~hw.disable_apic PROVE DownInv'
  BY <1>3 DEF DownInv
<1>4. /\ Target(a) = "SPIV" => a = Op("spiv_off") /\ Value(a).on = FALSE
      /\ Target(a) \in Lvt => /\ Value(a).masked
                              /\ \/ a = SetMask(Target(a)) \/ a = Write(Target(a), Clean)
                                 \/ a \in MaskErr /\ Target(a) = "LVTERR"
                                 \/ a = Op("mask_open_cmci")
  BY <1>2, <1>3, DownWrites
<1>5. Target(a) \in Lvt => Value(a) \in Entries
  <2>1. RegsOK(pm.saved) /\ a \in Acc
    BY <1>1 DEF IInv, Typed, TypeOK, Takes
  <2> QED BY <1>3, <2>1, AccessWrites DEF Fits, Lvt
<1>6. ASSUME NEW r \in Lvt, regs[r].masked \/ Target(a) = r
      PROVE  regs'[r].masked
  BY <1>1, <1>4, <1>5, <1>6, MaskedReg
<1>7. ASSUME NEW r \in CleanRegs
      PROVE  /\ Ordered(t, {Write(r, Clean)}, {SetMask(r)})
             /\ Free(t, {SetMask(r)}) /\ ~Free(t, {Write(r, Clean)})
                  => regs'[r].masked \/ r = "LVTERR"
             /\ Settles(t, {Write(r, Clean)}, IF r = "LVTERR" THEN MaskErr ELSE {})
             /\ Free(t, {Write(r, Clean)}) /\ Has(r) /\ hw.mapped => regs'[r] = Clean
  <2> DEFINE w == {Write(r, Clean)}
  <2> DEFINE m == {SetMask(r)}
  <2> DEFINE Y == IF r = "LVTERR" THEN MaskErr ELSE {}
  <2>1. /\ Ordered(todo, w, m)
        /\ Free(todo, m) /\ ~Free(todo, w) => regs[r].masked \/ r = "LVTERR"
        /\ Settles(todo, w, Y)
        /\ Free(todo, w) /\ Has(r) /\ hw.mapped => regs[r] = Clean
    BY DEF IInv, DownInv
  <2>2. r \in Lvt /\ r \in Regs /\ r # "LVTCMCI"
    BY DEF CleanRegs, Lvt, Regs
  <2>3. (a \in m => Target(a) = r) /\ (a \in w => Target(a) = r /\ Value(a) = Clean)
    BY Targets
  <2>4. Target(a) = r => a \in m \/ a \in w \/ (r = "LVTERR" /\ a \in MaskErr)
    <3>1. a = Op("mask_open_cmci") => Target(a) = "LVTCMCI"
      BY Targets
    <3> QED BY <1>4, <2>2, <3>1
  <2> HIDE DEF w, m
  <2>5. Settles(t, w, Y) /\ (Free(t, w) /\ a \notin w => a \notin Y)
    BY <1>1, <2>1, SettlesTail
  <2>6. Ordered(t, w, m) /\ (a \in w => Free(t, m))
    BY <1>1, <2>1 DEF Takes
  <2>7. ASSUME Free(t, m), ~Free(t, w) PROVE regs'[r].masked \/ r = "LVTERR"
    <3>1. Free(todo, m) \/ a \in m
      BY <1>1, <2>7 DEF Takes
    <3>2. ~Free(todo, w)
      BY <1>1, <2>7 DEF Takes
    <3> QED BY <1>6, <2>1, <2>2, <2>3, <3>1, <3>2
  <2>8. ASSUME Free(t, w), Has(r), hw.mapped PROVE regs'[r] = Clean
    <3>1. MaskOn(Clean) = Clean
      <4>1. Clean \in Entries /\ Clean.masked = TRUE
        BY DEF Clean, Entry, Entries, Delivery
      <4> QED BY <4>1 DEF MaskOn, Entries
    <3>2. CASE a \in w
      <4>1. regs'[r] = After(r, r, Clean)
        BY <1>1, <2>2, <2>3, <3>2 DEF Writes
      <4>2. r # "SPIV"
        BY <2>2 DEF Lvt
      <4> QED BY <2>2, <3>1, <4>1, <4>2 DEF After, AfterLvt
    <3>3. CASE a \notin w
      <4>1. regs[r] = Clean /\ a \notin Y
        BY <1>1, <2>1, <2>5, <2>8, <3>3 DEF Takes
      <4>2. CASE Target(a) = r
        <5>1. a \in m /\ Value(a) = MaskOn(regs[r])
          <6>1. a \in m
            BY <2>4, <3>3, <4>1, <4>2
          <6> QED BY <6>1, Targets DEF m
        <5>2. regs'[r] = After(r, r, Clean)
          BY <1>1, <2>2, <3>1, <4>1, <4>2, <5>1 DEF Writes
        <5>3. r # "SPIV"
          BY <2>2 DEF Lvt
        <5> QED BY <2>2, <3>1, <5>2, <5>3 DEF After, AfterLvt
      <4>3. CASE Target(a) # r
        <5>1. regs'[r] = After(r, Target(a), Value(a))
          BY <1>1, <2>2 DEF Writes
        <5> QED BY <2>2, <3>1, <4>1, <4>3, <5>1 DEF After, AfterLvt
      <4> QED BY <4>2, <4>3
    <3> QED BY <3>2, <3>3
  <2> QED BY <2>5, <2>6, <2>7, <2>8 DEF w, m
<1>8. Settles(t, Clears, ZeroVec)
  BY <1>1, SettlesTail DEF IInv, DownInv
<1>9. ASSUME Free(t, Clears), hw.mapped PROVE "old" \notin errs'
  <2>1. CASE a \in Clears
    BY <1>1, <2>1 DEF Reports, Clears
  <2>2. CASE a \notin Clears
    <3>1. Free(todo, Clears)
      BY <1>1, <1>9, <2>2 DEF Takes
    <3>2. "old" \notin errs /\ a \notin ZeroVec
      BY <1>1, <1>9, <3>1 DEF IInv, DownInv, Settles, Takes
    <3>3. a # Restore("LVTERR")
      BY <1>2, Disjoint DEF Opens
    <3>4. ~Bad(a)
      BY <1>2, <1>3, <3>2, <3>3, Kinds
    <3>5. errs' \in {errs, {}}
      <4>1. a \in EsrOps => errs' \in {errs, {}}
        BY <1>1 DEF Reports, EsrOps
      <4> QED BY <1>1, <3>4, <4>1 DEF Reports
    <3> QED BY <3>2, <3>5
  <2> QED BY <2>1, <2>2
<1>10. ASSUME Free(t, SpivOff), hw.mapped \/ hw.cpu # 0
       PROVE  ~On' /\ \A r \in Lvt : regs'[r].masked
  <2>1. CASE a \in SpivOff
    <3>1. Target(a) = "SPIV" /\ Value(a).on = FALSE
      <4>1. Target(a) = "SPIV"
        BY <2>1, Targets DEF SpivOff
      <4> QED BY <1>4, <4>1
    <3>2. regs'["SPIV"] = Value(a)
      BY <1>1, <3>1, PutReg DEF Regs, Lvt
    <3>3. \A r \in Lvt : regs'[r].masked
      BY <1>1, <3>1, MaskedReg
    <3> QED BY <3>1, <3>2, <3>3 DEF On
  <2>2. CASE a \notin SpivOff
    <3>1. Free(todo, SpivOff)
      BY <1>1, <1>10, <2>2 DEF Takes
    <3>2. ~On /\ \A r \in Lvt : regs[r].masked
      BY <1>10, <3>1 DEF IInv, DownInv, Shut
    <3>3. Target(a) # "SPIV"
      BY <1>4, <2>2 DEF SpivOff
    <3>4. regs'["SPIV"] = regs["SPIV"]
      BY <1>1, <3>3, KeptReg DEF Regs, Lvt
    <3> QED BY <1>6, <3>2, <3>4 DEF On
  <2> QED BY <2>1, <2>2
<1> QED BY <1>3, <1>7, <1>8, <1>9, <1>10 DEF DownInv, Shut

\* The registers are saved before any of them is changed.
LEMMA ContinueSaved ==
  ASSUME IInv, Continue
  PROVE  SavedInv'
<1> DEFINE a == Head(todo)
<1> DEFINE t == Tail(todo)
<1>1. Takes(a, t) /\ Writes(a) /\ Keeps(a)
  BY ContinueFacts
<1>2. /\ phase \in Busy
      /\ phase = "suspend" => a \in DownAcc
      /\ phase = "resume" => a \in ResumeAcc
  BY ContinuePhase
<1> HIDE DEF a, t
<1>3. todo' = t /\ phase' = phase /\ hw' = hw /\ before' = before
  BY <1>1 DEF Takes, Keeps
<1>5. UpRegs(before)' <=> UpRegs(before)
  BY <1>3 DEF UpRegs, skip_ioapic_setup
<1>6. CASE phase = "suspend"
  <2> DEFINE sv == {Op("save")}
  <2>1. pm'.active = pm.active
    <3>1. Op("pm_activate") \notin DownAcc
      BY DEF DownAcc, ClearAcc, MaskErr, MaskAcc, CleanAcc, EsrOps, SpivOff, Op, Write, SetMask
    <3> QED BY <1>1, <1>2, <1>6, <3>1, ContinuePm
  <2> SUFFICES ASSUME pm.active
               PROVE  /\ UpRegs(before)'
                      /\ Ordered(t, Others, sv)
                      /\ IF Free(t, sv) THEN pm'.saved = before ELSE regs' = before
    BY <1>3, <1>6, <2>1 DEF SavedInv
  <2>2. /\ UpRegs(before)
        /\ Ordered(todo, Others, sv)
        /\ IF Free(todo, sv) THEN pm.saved = before ELSE regs = before
    BY <1>6 DEF IInv, SavedInv
  <2>3. a \in sv \/ a \in Others
    BY <1>2, <1>6 DEF Others
  <2>4. Ordered(t, Others, sv) /\ (a \in Others => Free(t, sv))
    BY <1>1, <2>2 DEF Takes
  <2>5. CASE a \in Others
    <3>1. Free(todo, sv) /\ Free(t, sv)
      BY <1>1, <2>4, <2>5 DEF Takes, Others
    <3>2. a # Op("save")
      BY <2>5 DEF Others
    <3> QED BY <1>1, <1>5, <2>2, <2>4, <3>1, <3>2, ContinuePm
  <2>6. CASE a \in sv
    <3>1. ~Free(todo, sv)
      BY <1>1, <2>6 DEF Takes
    <3>2. pm'.saved = regs /\ regs = before
      BY <1>1, <2>2, <2>6, <3>1, ContinuePm
    <3>3. regs' = regs
      <4>1. a.op = "save"
        BY <2>6 DEF Op
      <4> QED BY <4>1 DEF a, Continue, Access, apic
    <3> QED BY <1>5, <2>2, <2>4, <3>2, <3>3
  <2> QED BY <2>3, <2>5, <2>6
<1>7. CASE phase = "resume"
  <2>1. Op("save") \notin ResumeAcc /\ Op("pm_activate") \notin ResumeAcc
    BY DEF ResumeAcc, MaskErr, EsrOps, Op, Write, Restore
  <2>2. pm'.active = pm.active /\ pm'.saved = pm.saved
    BY <1>1, <1>2, <1>7, <2>1, ContinuePm
  <2>3. pm.active => UpRegs(before) /\ pm.saved = before
    BY <1>7 DEF IInv, SavedInv
  <2> QED BY <1>3, <1>5, <1>7, <2>2, <2>3 DEF SavedInv
<1>8. CASE phase \notin {"suspend", "resume"}
  BY <1>2, <1>3, <1>8, OtherPhases DEF Busy
<1> QED BY <1>6, <1>7, <1>8

\* The IO-APIC stays masked until its own resume routine.
LEMMA ContinueQuiet ==
  ASSUME IInv, Continue
  PROVE  QuietInv'
<1> DEFINE a == Head(todo)
<1> DEFINE t == Tail(todo)
<1> DEFINE mi == {Op("mask_ioapic_entries")}
<1> DEFINE sw == SpivOff \cup {Restore("SPIV")}
<1>1. Takes(a, t) /\ Keeps(a) /\ todo # <<>>
  BY ContinueFacts DEF Continue
<1> HIDE DEF a, t
<1>2. todo' = t /\ phase' = phase
  BY <1>1 DEF Takes, Keeps
<1>3. ioapic' = (IF a \in mi THEN "masked" ELSE ioapic)
  BY <1>1 DEF Keeps
<1> SUFFICES ASSUME phase \in {"suspend", "resume"}
             PROVE  Ordered(t, sw, mi) /\ (Free(t, mi) => ioapic' = "masked")
  BY <1>2 DEF QuietInv
<1>4. Ordered(todo, sw, mi) /\ (Free(todo, mi) => ioapic = "masked")
  BY <1>1 DEF IInv, QuietInv
<1> HIDE DEF mi, sw
<1> QED BY <1>1, <1>3, <1>4 DEF Takes

\* Resume: the APIC is enabled behind a task priority that shuts out vectors 0 to
\* 31, and what is restored once it is enabled is what the register then holds.
LEMMA ContinueResume ==
  ASSUME IInv, Continue
  PROVE  ResumeInv'
<1> DEFINE a == Head(todo)
<1> DEFINE t == Tail(todo)
<1>1. Takes(a, t) /\ Writes(a) /\ Keeps(a)
  BY ContinueFacts
<1>2. phase = "resume" => a \in ResumeAcc
  BY ContinuePhase
<1> HIDE DEF a, t
<1>3. todo' = t /\ phase' = phase /\ hw' = hw /\ \A r : Has(r)' <=> Has(r)
  BY <1>1, SameHw DEF Takes, Keeps
<1> SUFFICES ASSUME phase = "resume", pm'.active PROVE ResumeInv'
  BY <1>3 DEF ResumeInv
<1>4. pm.active /\ pm'.saved = pm.saved
  <2>1. Op("save") \notin ResumeAcc /\ Op("pm_activate") \notin ResumeAcc
    BY DEF ResumeAcc, MaskErr, EsrOps, Op, Write, Restore
  <2> QED BY <1>1, <1>2, <2>1, ContinuePm
<1>5. \A r \in Regs : r = Target(a) => a = Restore(r) \/ (r = "LVTERR" /\ a \in MaskErr)
  <2>1. "none" \notin Regs
    BY DEF Regs, Lvt
  <2>2. \/ Target(a) = "none"
        \/ a = Restore(Target(a))
        \/ Target(a) = "LVTERR" /\ a \in MaskErr
    BY <1>2, ResumeWrites
  <2> QED BY <2>1, <2>2
<1> DEFINE Y(r) == (IF r \in Lvt THEN {Restore("SPIV")} ELSE {})
                   \cup (IF r = "LVTERR" THEN MaskErr ELSE {})
<1>6. /\ Ordered(todo, {Restore("SPIV")}, {Restore("TASKPRI")})
      /\ \A r \in Regs : Has(r) =>
           /\ Settles(todo, {Restore(r)}, Y(r))
           /\ Free(todo, {Restore(r)}) => regs[r] = pm.saved[r]
  BY <1>4 DEF IInv, ResumeInv
<1>7. pm.saved["SPIV"].on
  BY <1>4 DEF IInv, SavedInv, UpRegs
<1>8. a = Restore("SPIV") => Target(a) = "SPIV" /\ Value(a) = pm.saved["SPIV"]
  BY Targets
<1>9. Has("SPIV") /\ "SPIV" \in Regs /\ "SPIV" \notin Lvt
  BY DEF Has, Regs, Lvt
<1>10. ASSUME NEW r \in Regs, Has(r)
       PROVE  /\ Settles(t, {Restore(r)}, Y(r))
              /\ Free(t, {Restore(r)}) => regs'[r] = pm.saved[r]
  <2> DEFINE re == {Restore(r)}
  <2> DEFINE Z == Y(r)
  <2>1. Settles(todo, re, Z) /\ (Free(todo, re) => regs[r] = pm.saved[r])
    BY <1>6, <1>10
  <2>2. a \in re => Target(a) = r /\ Value(a) = pm.saved[r]
    BY Targets
  <2>3. /\ r \in Lvt => Restore("SPIV") \in Z
        /\ r = "LVTERR" => MaskErr \subseteq Z
    OBVIOUS
  <2>4. r = Target(a) => a \in re \/ a \in Z
    BY <1>5, <2>3
  <2> HIDE DEF re, Z
  <2>5. Settles(t, re, Z) /\ (Free(t, re) /\ a \notin re => a \notin Z)
    BY <1>1, <2>1, SettlesTail
  <2>6. ASSUME Free(t, re) PROVE regs'[r] = pm.saved[r]
    <3>1. CASE a \in re
      <4>1. r \in Lvt => On
        <5> SUFFICES ASSUME r \in Lvt PROVE On
          OBVIOUS
        <5>1. Restore("SPIV") \notin re
          BY <1>9 DEF re, Restore
        <5>2. Free(t, {Restore("SPIV")})
          <6>1. Free(t, Z)
            BY <2>5, <2>6 DEF Settles
          <6> QED BY <2>3, <6>1, FreeSubset
        <5>3. Free(todo, {Restore("SPIV")})
          BY <1>1, <3>1, <5>1, <5>2 DEF Takes
        <5> QED BY <1>6, <1>7, <1>9, <5>3 DEF On
      <4> QED BY <1>1, <2>2, <3>1, <4>1, PutReg
    <3>2. CASE a \notin re
      <4>1. regs[r] = pm.saved[r] /\ a \notin Z
        BY <1>1, <2>1, <2>5, <2>6, <3>2 DEF Takes
      <4>2. Target(a) # r
        BY <2>4, <3>2, <4>1
      <4>3. r \in Lvt => Target(a) # "SPIV"
        BY <1>5, <1>9, <2>3, <4>1
      <4> QED BY <1>1, <4>1, <4>2, <4>3, KeptReg
    <3> QED BY <3>1, <3>2
  <2> QED BY <2>5, <2>6 DEF re, Z
<1>11. Ordered(t, {Restore("SPIV")}, {Restore("TASKPRI")})
  BY <1>1, <1>6 DEF Takes
<1> QED BY <1>3, <1>4, <1>10, <1>11 DEF ResumeInv

\* Errors are forgotten before LVTERR is opened and once more after it.
LEMMA ContinueError ==
  ASSUME IInv, Continue
  PROVE  ErrorInv'
<1> DEFINE a == Head(todo)
<1> DEFINE t == Tail(todo)
<1>1. Takes(a, t) /\ Writes(a) /\ Keeps(a) /\ Reports(a)
  BY ContinueFacts
<1>2. /\ a \in EarlyAcc \cup SetupAcc \cup DownAcc \cup ResumeAcc \cup DetachAcc
      /\ phase \in Busy
      /\ phase = "setup" => a \in SetupAcc
      /\ phase = "up" => a \in HandlerAcc
      /\ phase = "resume" => a \in ResumeAcc
  BY ContinuePhase
<1> HIDE DEF a, t
<1>3. todo' = t /\ phase' = phase /\ hw' = hw /\ Clears' = Clears /\ RegsOK(regs)
  BY <1>1, SameHw DEF Takes, Keeps, Writes
<1> SUFFICES ASSUME ~hw.disable_apic, phase \in {"setup", "up", "resume"} PROVE ErrorInv'
  BY <1>2, <1>3 DEF ErrorInv, Managed, Busy
<1>4. /\ Ordered(todo, Clears, ZeroVec)
      /\ Ordered(todo, Clears, Opens) => "old" \notin errs /\ Free(todo, ZeroVec)
      /\ Ordered(todo, Opens, Clears) => Free(todo, Opens)
      /\ Free(todo, Opens) => regs["LVTERR"] = ErrorEntry
      /\ Free(todo, Opens) /\ Free(todo, Clears) =>
           "old" \notin esr /\ (errs # {} => errirq)
  BY DEF IInv, ErrorInv, Managed
<1>5. Ordered(todo, Opens, Opens) /\ Ordered(todo, Opens, ZeroVec)
  BY DEF IInv, StrayInv, Detached, Managed
<1>6. a \in Clears => errs' = {} /\ esr' \subseteq errs
  <2>1. CASE hw.maxlvt > 3
    BY <1>1, <2>1 DEF Reports, Clears
  <2>2. CASE ~(hw.maxlvt > 3)
    BY <1>1, <2>2 DEF Reports, Clears
  <2> QED BY <2>1, <2>2
<1>7. phase = "resume" => pm.active /\ UpRegs(pm.saved)
  BY DEF IInv, Typed, SavedInv
<1>8. Bad(a) => a \in ZeroVec
  <2>1. a = Restore("LVTERR") => ~Bad(a)
    <3> SUFFICES ASSUME a = Restore("LVTERR") PROVE ~Bad(a)
      OBVIOUS
    <3>1. Value(a) = pm.saved["LVTERR"] /\ a \in Opens
      BY Targets DEF Opens
    <3>2. a \notin SetupAcc
      <4>1. a # Write("LVTERR", ErrorEntry)
        BY DEF Write, Restore
      <4>2. Target(a) = "LVTERR"
        BY Targets
      <4> QED BY <4>1, <4>2, SetupWrites
    <3>3. a \notin HandlerAcc
      BY <3>1, Disjoint
    <3>4. Value(a) = ErrorEntry
      BY <1>2, <1>7, <3>1, <3>2, <3>3 DEF UpRegs
    <3> QED BY <3>4 DEF Bad, ErrorEntry, Entry
  <2> QED BY <1>2, <1>3, <2>1, Kinds
<1>9. a \notin ZeroVec => errs' \in {errs, {}}
  <2>1. a \in EsrOps => errs' \in {errs, {}}
    BY <1>1 DEF Reports, EsrOps
  <2> QED BY <1>1, <1>8, <2>1 DEF Reports
<1>10. Ordered(t, Clears, ZeroVec)
  BY <1>1, <1>4 DEF Takes
<1>11. ASSUME Ordered(t, Clears, Opens) PROVE "old" \notin errs' /\ Free(t, ZeroVec)
  <2>1. CASE a \in Clears
    BY <1>1, <1>4, <1>6, <2>1 DEF Takes
  <2>2. CASE a \notin Clears
    <3>1. "old" \notin errs /\ Free(todo, ZeroVec)
      BY <1>1, <1>4, <1>11, <2>2 DEF Takes
    <3>2. a \notin ZeroVec /\ Free(t, ZeroVec)
      BY <1>1, <3>1 DEF Takes
    <3> QED BY <1>9, <3>1, <3>2
  <2> QED BY <2>1, <2>2
<1>12. ASSUME Ordered(t, Opens, Clears) PROVE Free(t, Opens)
  <2>1. CASE a \in Opens
    BY <1>1, <1>5, <2>1 DEF Takes
  <2>2. CASE a \notin Opens
    BY <1>1, <1>4, <1>12, <2>2 DEF Takes
  <2> QED BY <2>1, <2>2
<1>13. ASSUME Free(t, Opens) PROVE regs'["LVTERR"] = ErrorEntry
  <2>1. CASE a \in Opens
    <3>1. Target(a) = "LVTERR" /\ Value(a) = ErrorEntry /\ On
      <4>1. CASE phase = "up"
        BY <1>2, <2>1, <4>1, Disjoint
      <4>2. CASE phase = "setup"
        <5>1. a = Write("LVTERR", ErrorEntry)
          <6>1. Target(a) = "LVTERR"
            BY <2>1, Targets DEF Opens
          <6> QED BY <1>2, <4>2, <6>1, SetupWrites
        <5>2. Free(t, SpivOn) /\ a \notin SpivOn
          <6>1. Settles(todo, Opens, SpivOn \cup {Op("pending_intr_clear")})
            BY <4>2 DEF IInv, SetupInv
          <6>2. Free(t, SpivOn \cup {Op("pending_intr_clear")})
            BY <1>1, <2>1, <6>1, SettlesTail
          <6>3. a \notin SpivOn
            BY <5>1 DEF SpivOn, Write
          <6> QED BY <6>2, <6>3, FreeSubset
        <5>3. On
          BY <1>1, <4>2, <5>2 DEF Takes, IInv, SetupInv
        <5> QED BY <5>1, <5>3, WriteTarget
      <4>3. CASE phase = "resume"
        <5>1. a = Restore("LVTERR")
          <6>1. Write("LVTERR", ErrorEntry) \notin ResumeAcc
            BY DEF ResumeAcc, MaskErr, EsrOps, Write, Restore, Op, ErrorEntry, Entry
          <6> QED BY <1>2, <2>1, <4>3, <6>1 DEF Opens
        <5>2. /\ Has("LVTERR") /\ Has("SPIV") /\ "LVTERR" \in Regs /\ "SPIV" \in Regs
              /\ "LVTERR" \in Lvt
          BY DEF Has, Regs, Lvt
        <5> DEFINE Y == {Restore("SPIV")} \cup MaskErr
        <5>3. Settles(todo, {Restore("LVTERR")}, Y)
          BY <1>7, <4>3, <5>2 DEF IInv, ResumeInv
        <5>4. Free(t, {Restore("SPIV")})
          <6>1. Free(t, Y)
            BY <1>1, <5>1, <5>3, SettlesTail
          <6> QED BY <6>1, FreeSubset
        <5>5. Free(todo, {Restore("SPIV")})
          <6>1. a # Restore("SPIV")
            BY <5>1 DEF Restore
          <6> QED BY <1>1, <5>4, <6>1 DEF Takes
        <5>6. On
          BY <1>7, <4>3, <5>2, <5>5 DEF IInv, ResumeInv, UpRegs, On
        <5>7. Target(a) = "LVTERR" /\ Value(a) = pm.saved["LVTERR"]
          BY <5>1, Targets
        <5> QED BY <1>7, <4>3, <5>6, <5>7 DEF UpRegs
      <4> QED BY <4>1, <4>2, <4>3
    <3> QED BY <1>1, <3>1, PutReg DEF Regs, Lvt
  <2>2. CASE a \notin Opens
    <3>1. Free(todo, Opens) /\ regs["LVTERR"] = ErrorEntry
      BY <1>1, <1>4, <1>13, <2>2 DEF Takes
    <3>2. Target(a) # "LVTERR" /\ ~(Target(a) = "SPIV" /\ ~Value(a).on)
      <4>1. CASE phase = "up"
        BY <1>2, <4>1, HandlerWrites
      <4>2. CASE phase = "setup"
        <5>1. a \notin SpivOff
          <6>1. Free(todo, SpivOn \cup {Op("pending_intr_clear")})
            BY <3>1, <4>2 DEF IInv, SetupInv, Settles
          <6>2. Free(todo, SpivOn)
            BY <6>1, FreeSubset
          <6>3. Free(todo, SpivOff)
            BY <4>2, <6>2 DEF IInv, SetupInv, Settles
          <6> QED BY <1>1, <6>3 DEF Takes
        <5>2. Write("LVTERR", ErrorEntry) \in Opens
          BY DEF Opens
        <5> QED BY <1>2, <2>2, <4>2, <5>1, <5>2, SetupWrites
      <4>3. CASE phase = "resume"
        <5>1. Restore("LVTERR") \in Opens
          BY DEF Opens
        <5>2. a \notin MaskErr /\ a # Restore("SPIV")
          <6>1. Has("LVTERR") /\ "LVTERR" \in Regs /\ "LVTERR" \in Lvt
            BY DEF Has, Regs, Lvt
          <6> DEFINE Y == {Restore("SPIV")} \cup MaskErr
          <6>2. Settles(todo, {Restore("LVTERR")}, Y)
            BY <1>7, <4>3, <6>1 DEF IInv, ResumeInv
          <6>3. Free(todo, {Restore("LVTERR")})
            BY <3>1, <5>1, FreeSubset
          <6>4. Free(todo, Y)
            BY <6>2, <6>3 DEF Settles
          <6> QED BY <1>1, <6>4 DEF Takes
        <5>3. \/ Target(a) = "none"
              \/ a = Restore(Target(a))
              \/ Target(a) = "LVTERR" /\ a \in MaskErr
          BY <1>2, <4>3, ResumeWrites
        <5> QED BY <2>2, <5>1, <5>2, <5>3
      <4> QED BY <4>1, <4>2, <4>3
    <3> QED BY <1>1, <3>1, <3>2, KeptReg DEF Regs, Lvt
  <2> QED BY <2>1, <2>2
<1>14. ASSUME Free(t, Opens), Free(t, Clears)
       PROVE  "old" \notin esr' /\ (errs' # {} => errirq')
  <2>1. CASE a \in Clears
    <3>1. "old" \notin errs
      <4>1. Ordered(todo, Clears, Opens)
        <5>1. Ordered(t, Clears, Opens)
          BY <1>14, FreeOrdered
        <5> QED BY <1>1, <1>14, <5>1 DEF Takes
      <4> QED BY <1>4, <4>1
    <3> QED BY <1>6, <2>1, <3>1
  <2>2. CASE a \notin Clears
    <3>1. Free(todo, Clears)
      BY <1>1, <1>14, <2>2 DEF Takes
    <3>2. Free(todo, Opens)
      BY <1>4, <3>1, FreeOrdered
    <3>3. "old" \notin esr /\ (errs # {} => errirq)
      BY <1>4, <3>1, <3>2
    <3>4. Ordered(todo, Clears, Opens)
      BY <3>1, FreeOrdered
    <3>5. "old" \notin errs /\ a \notin ZeroVec
      BY <1>1, <1>4, <3>4 DEF Takes
    <3>6. errirq' = errirq
      <4>1. a # Op("pending_intr_clear")
        <5>1. CASE phase = "setup"
          <6>1. Free(todo, SpivOn \cup {Op("pending_intr_clear")})
            BY <3>2, <5>1 DEF IInv, SetupInv, Settles
          <6> QED BY <1>1, <6>1 DEF Takes
        <5>2. CASE phase = "up"
          BY <1>2, <5>2 DEF HandlerAcc, EsrOps, Op
        <5>3. CASE phase = "resume"
          <6>1. Op("pending_intr_clear") \notin ResumeAcc
            BY DEF ResumeAcc, MaskErr, EsrOps, Op, Write, Restore
          <6> QED BY <1>2, <5>3, <6>1
        <5> QED BY <5>1, <5>2, <5>3
      <4> QED BY <1>1, <4>1 DEF Reports
    <3>7. "old" \notin esr'
      <4>1. a = Op("write_esr") => esr' = errs
        BY <1>1 DEF Reports
      <4>2. a = Op("read_esr") => esr' \in {esr, {}}
        BY <1>1 DEF Reports
      <4>3. a \notin EsrOps => esr' = esr
        BY <1>1 DEF Reports
      <4> QED BY <3>3, <3>5, <4>1, <4>2, <4>3 DEF EsrOps
    <3> QED BY <1>9, <3>3, <3>5, <3>6, <3>7
  <2> QED BY <2>1, <2>2
<1>15. Opens' = Opens /\ ZeroVec' = ZeroVec
  BY DEF Opens, ZeroVec
<1> QED BY <1>3, <1>10, <1>11, <1>12, <1>13, <1>14, <1>15 DEF ErrorInv

\* A function makes its next access.
LEMMA ContinueStep ==
  ASSUME IInv, Continue
  PROVE  IInv'
<1>1. phase' = phase /\ phase \in Busy
  BY ContinuePhase DEF Continue
<1>2. DownState' /\ ResumedState'
  BY <1>1, OtherPhases DEF Busy
<1> QED BY <1>2, ContinueTyped, ContinueStray, ContinueWire, ContinueSetup, ContinueUp, ContinueDown,
           ContinueSaved, ContinueQuiet, ContinueResume, ContinueError DEF IInv

\* Every step keeps the invariant.
LEMMA NextStep ==
  ASSUME IInv, [Next]_vars
  PROVE  IInv'
<1>1. CASE EarlyInit
  BY <1>1, EarlyInitStep
<1>2. CASE Setup
  BY <1>2, SetupStep
<1>3. CASE Suspend \/ Resume
  BY <1>3, SuspendStep, ResumeStep
<1>4. CASE Offline \/ Shutdown
  BY <1>4, StopStep
<1>5. CASE Disconnect
  BY <1>5, DisconnectStep
<1>6. CASE Continue
  BY <1>6, ContinueStep
<1>7. CASE Return
  BY <1>7, ReturnStep
<1>8. CASE DetectError \/ ErrorInterrupt
  BY <1>8, DetectErrorStep, ErrorInterruptStep
<1>9. CASE SleepAndWake \/ IoapicResumes
  BY <1>9, SleepStep, IoapicResumesStep
<1>10. CASE Use
  BY <1>10, UseStep
<1>11. CASE Interrupt \/ Serve \/ UNCHANGED vars
  BY <1>11, StaleStep
<1>12. CASE NewKernel
  BY <1>12, NewKernelStep
<1> QED BY <1>1, <1>2, <1>3, <1>4, <1>5, <1>6, <1>7, <1>8, <1>9, <1>10, <1>11, <1>12 DEF Next

\* The invariant is inductive.
LEMMA Inductive == Spec => []IInv
<1>1. Init => IInv
  BY InitInv
<1>2. IInv /\ [Next]_vars => IInv'
  BY NextStep
<1> QED BY <1>1, <1>2, PTL DEF Spec

-----------------------------------------------------------------------------
(* The results.                                                            *)

\* Every variable keeps its type, for any firmware and any LVT size.
THEOREM TypeCorrect == Spec => []TypeOK
<1>1. IInv => TypeOK
  BY DEF IInv, Typed
<1> QED BY <1>1, Inductive, PTL

\* clear_local_APIC, setup and resume never raise an error interrupt themselves,
\* even when a kernel crashes between any two of their accesses; only the
\* disconnection of an APIC that could not be cleared may.
THEOREM NeverStray == Spec => []NoStrayError
<1>1. IInv => NoStrayError
  BY DEF IInv, StrayInv, Detached, NoStrayError
<1> QED BY <1>1, Inductive, PTL

\* disable_local_APIC leaves a disabled, clean and quiet APIC behind, unless its and
\* clear_local_APIC's early return is taken; apic_soft_disable a disabled one anyway.
THEOREM DownClean == Spec => []DownIsClean
<1>1. IInv => DownIsClean
  BY DEF IInv, DownState, Shut, DownIsClean, CleanRegs
<1> QED BY <1>1, Inductive, PTL

\* An error that lapic_setup_esr, lapic_resume or an error interrupt finds is
\* either forgotten before LVTERR is opened or reported.
THEOREM Reported == Spec => []ErrorsReported
<1> SUFFICES IInv => ErrorsReported
  BY Inductive, PTL
<1> SUFFICES ASSUME IInv, phase \in {"up", "resumed"}, pm.active
             PROVE  /\ "old" \notin errs \cup esr /\ regs["LVTERR"] = Entry("error", FALSE)
                    /\ errs # {} => errirq \/ todo # <<>>
  BY DEF ErrorsReported
<1>1. ~hw.disable_apic
  BY DEF IInv, Typed
<1>2. todo \in Seq(HandlerAcc) /\ (phase = "resumed" => todo = <<>>)
  BY EmptySeq DEF IInv, Typed, Shape, Busy
<1>3. Free(todo, Opens)
  BY <1>2, Disjoint, FreeOutside
<1>4. "old" \notin errs
  <2>1. Ordered(todo, Clears, Opens)
    BY <1>3, FreeOrdered
  <2> QED BY <1>1, <2>1 DEF IInv, ErrorInv, Managed
<1>5. todo = <<>> => "old" \notin esr /\ (errs # {} => errirq)
  BY <1>1, <1>3, FreeEmpty DEF IInv, ErrorInv, Managed
<1>6. "old" \notin esr
  BY <1>1, <1>2, <1>5 DEF IInv, UpInv
<1>7. regs["LVTERR"] = ErrorEntry
  BY <1>1, <1>3 DEF IInv, ErrorInv, Managed
<1> QED BY <1>4, <1>5, <1>6, <1>7 DEF ErrorEntry

\* lapic_resume brings back every register, whatever the firmware wrote.
THEOREM Restores == Spec => []ResumeRestores
<1>1. IInv => ResumeRestores
  BY DEF IInv, ResumedState, SavedInv, ResumeRestores
<1> QED BY <1>1, Inductive, PTL

\* ExtINT and NMI pass in virtual wire mode, and ExtINT without an IO-APIC.
THEOREM Delivered == Spec => []LegacyDelivered
<1> SUFFICES IInv => LegacyDelivered
  BY Inductive, PTL
<1> SUFFICES ASSUME IInv PROVE LegacyDelivered
  OBVIOUS
<1>1. pm.active => ~hw.disable_apic
  BY DEF IInv, Typed
<1> QED BY <1>1 DEF IInv, WireInv, UpInv, UpRegs, LegacyDelivered, ExtInt, On

\* Within a call, only its own next access changes a register.
LEMMA OnlyContinue ==
  ASSUME [Next]_vars, phase' = phase, phase \in {"setup", "suspend", "stop", "resume"},
         regs' # regs
  PROVE  Continue
<1>1. ~(EarlyInit \/ Setup \/ Suspend \/ Resume \/ Offline \/ Shutdown \/ Disconnect)
  BY DEF EarlyInit, Setup, Suspend, Resume, Offline, Shutdown, Disconnect, Call, apic
<1>2. ~Return
  BY DEF Return, Done, Call, apic
<1>3. ~(DetectError \/ ErrorInterrupt \/ SleepAndWake \/ IoapicResumes \/ Use \/ UNCHANGED vars)
  BY DEF DetectError, ErrorInterrupt, SleepAndWake, IoapicResumes, Use, vars
<1>4. ~(Interrupt \/ Serve \/ NewKernel)
  BY DEF Interrupt, Serve, NewKernel
<1> QED BY <1>1, <1>2, <1>3, <1>4 DEF Next

\* With apic disabled no register is written.
LEMMA NoWrites ==
  ASSUME IInv, Continue, hw.disable_apic
  PROVE  \A x \in Regs : regs'[x] = regs[x]
<1> DEFINE a == Head(todo)
<1>1. Writes(a)
  BY ContinueFacts
<1>2. a \in HandlerAcc
  BY ContinueIn DEF IInv, Typed
<1> HIDE DEF a
<1>3. Target(a) = "none"
  BY <1>2, HandlerWrites
<1> QED BY <1>1, <1>3, KeptReg DEF Regs, Lvt

\* clear_local_APIC masks an entry before it rewrites it.
LEMMA MaskedStep ==
  ASSUME IInv, Continue, phase \in {"suspend", "stop"}, NEW r \in Lvt, regs'[r].vec # regs[r].vec
  PROVE  regs[r].masked \/ r = "LVTERR"
<1> DEFINE a == Head(todo)
<1> DEFINE t == Tail(todo)
<1>1. Takes(a, t) /\ Writes(a)
  BY ContinueFacts
<1>2. a \in DownAcc
  BY ContinuePhase
<1> HIDE DEF a, t
<1>3. ~hw.disable_apic
  BY NoWrites DEF Regs
<1>4. RegsOK(regs) /\ r \in Regs /\ r # "SPIV" /\ regs[r] \in Entries
  BY <1>1 DEF Writes, Regs, Lvt, RegsOK, Entries
<1>5. MaskOn(regs[r]).vec = regs[r].vec /\ MaskOn(regs[r]) \in Entries
  BY <1>4, MaskOnType
<1>6. regs'[r] = AfterLvt(r, Target(a), Value(a))
  BY <1>1, <1>4 DEF Writes, After
<1>7. Target(a) = r /\ Value(a) # MaskOn(regs[r])
  <2>1. MaskOn(MaskOn(regs[r])).vec = regs[r].vec
    BY <1>5, MaskOnType
  <2> QED BY <1>5, <1>6, <2>1 DEF AfterLvt
<1>8. a = Write(r, Clean) \/ r = "LVTERR"
  <2>1. a # SetMask(r)
    BY <1>7, Targets
  <2>2. a # Op("mask_open_cmci")
    BY <1>7, Targets
  <2> QED BY <1>2, <1>4, <1>7, <2>1, <2>2, DownWrites
<1>9. ASSUME r # "LVTERR" PROVE regs[r].masked
  <2>1. a = Write(r, Clean)
    BY <1>8, <1>9
  <2>2. r \in CleanRegs
    <3>1. \A o : a # Op(o)
      BY <2>1 DEF Op, Write
    <3>2. \A x : a # SetMask(x)
      BY <2>1 DEF SetMask, Write
    <3>3. a \notin MaskErr
      BY <1>9, <2>1 DEF MaskErr, Write
    <3>4. a \in CleanAcc
      <4>1. a \notin MaskAcc /\ a \notin EsrOps /\ a \notin SpivOff
        BY <3>1, <3>2 DEF MaskAcc, EsrOps, SpivOff
      <4> QED BY <1>2, <3>1, <3>3, <4>1 DEF DownAcc, ClearAcc
    <3>5. \A x \in CleanRegs : a = Write(x, Clean) => x = r
      <4>1. a.reg = r /\ \A x : Write(x, Clean).reg = x
        BY <2>1 DEF Write
      <4> QED BY <4>1
    <3> QED BY <3>4, <3>5 DEF CleanAcc
  <2> DEFINE w == {Write(r, Clean)}
  <2> DEFINE m == {SetMask(r)}
  <2>3. /\ Ordered(todo, w, m)
        /\ Free(todo, m) /\ ~Free(todo, w) => regs[r].masked \/ r = "LVTERR"
    BY <1>3, <2>2 DEF IInv, DownInv
  <2>4. a \in w /\ a \notin m
    BY <2>1 DEF Write, SetMask
  <2> HIDE DEF w, m
  <2>5. Free(todo, m) /\ ~Free(todo, w)
    BY <1>1, <2>3, <2>4 DEF Takes
  <2> QED BY <1>9, <2>3, <2>5
<1> QED BY <1>9

\* A step on an entry that is not masked leaves its vector alone.
THEOREM MaskedFirst == Spec => MaskedBeforeCleaned
<1>1. ASSUME IInv, [Next]_vars, phase \in {"suspend", "stop"}, phase' = phase, On,
             NEW r \in Lvt, regs'[r].vec # regs[r].vec
      PROVE  regs[r].masked \/ r = "LVTERR"
  <2>1. Continue
    BY <1>1, OnlyContinue
  <2> QED BY <1>1, <2>1, MaskedStep
<1>2. IInv /\ [Next]_vars =>
        [(phase \in {"suspend", "stop"} /\ phase' = phase /\ On) =>
           (\A r \in Lvt : regs'[r].vec # regs[r].vec => regs[r].masked \/ r = "LVTERR")]_vars
  BY <1>1
<1> QED BY <1>2, Inductive, PTL DEF Spec, MaskedBeforeCleaned

\* Which access switches the APIC on or off.
LEMMA Switches ==
  ASSUME IInv, Continue, phase \in {"setup", "suspend", "resume"}, On # regs'["SPIV"].on
  PROVE  LET a == Head(todo) IN
         /\ ~hw.disable_apic
         /\ phase = "setup" /\ regs'["SPIV"].on => a \in SpivOn
         /\ phase = "suspend" => a \in SpivOff
         /\ phase = "resume" => a = Restore("SPIV") /\ pm.active
<1> DEFINE a == Head(todo)
<1>1. Writes(a)
  BY ContinueFacts
<1>2. /\ phase = "setup" => a \in SetupAcc
      /\ phase = "suspend" => a \in DownAcc
      /\ phase = "resume" => a \in ResumeAcc
  BY ContinuePhase
<1> HIDE DEF a
<1>3. "SPIV" \in Regs /\ "SPIV" \notin Lvt /\ RegsOK(regs)
  BY <1>1 DEF Regs, Lvt, Writes
<1>4. ~hw.disable_apic
  BY <1>3, NoWrites DEF On
<1>5. Target(a) = "SPIV" /\ regs'["SPIV"] = Value(a)
  BY <1>1, <1>3, KeptReg, PutReg DEF On
<1>6. phase = "setup" /\ regs'["SPIV"].on => a \in SpivOn
  <2>1. regs["SPIV"] \in Spivs
    BY <1>3 DEF RegsOK, Spivs
  <2>2. a \in SpivOff => Value(a) = [regs["SPIV"] EXCEPT !.on = FALSE]
    BY Targets DEF SpivOff
  <2>3. a \in SpivOff => ~Value(a).on
    BY <2>1, <2>2 DEF Spivs
  <2> QED BY <1>2, <1>5, <2>3, SetupWrites
<1>7. phase = "suspend" => a \in SpivOff
  BY <1>2, <1>3, <1>5, DownWrites DEF SpivOff
<1>8. phase = "resume" => a = Restore("SPIV") /\ pm.active
  BY <1>2, <1>4, <1>5, ResumeWrites DEF IInv, Typed
<1> QED BY <1>4, <1>6, <1>7, <1>8 DEF a

\* The APIC is enabled behind its task priority and with nothing stale pending.
THEOREM ReadyFirst == Spec => EnabledWhenReady
<1>1. ASSUME IInv, [Next]_vars, phase \in {"setup", "resume"}, phase' = phase,
             ~On, regs'["SPIV"].on
      PROVE  regs["TASKPRI"] = 16 /\ (phase = "setup" => ~stale \/ warned)
  <2> DEFINE a == Head(todo)
  <2>1. Continue
    BY <1>1, OnlyContinue DEF On
  <2>2. /\ ~hw.disable_apic
        /\ phase = "setup" => a \in SpivOn
        /\ phase = "resume" => a = Restore("SPIV") /\ pm.active
    BY <1>1, <2>1, Switches
  <2>3. Takes(a, Tail(todo))
    BY <1>1, <2>1, ContinueFacts
  <2> HIDE DEF a
  <2>4. CASE phase = "setup"
    <3> DEFINE tpc == {Op("taskpri"), Op("pending_intr_clear")}
    <3>1. Ordered(todo, SpivOn, tpc)
      BY <1>1, <2>2, <2>4 DEF IInv, SetupInv
    <3>2. a \notin tpc
      <4>1. \A v, o : Write("SPIV", v) # Op(o)
        BY DEF Write, Op
      <4> QED BY <2>2, <2>4, <4>1 DEF SpivOn
    <3>3. Free(todo, tpc)
      BY <2>2, <2>3, <2>4, <3>1, <3>2 DEF Takes
    <3>4. Free(todo, {Op("taskpri")}) /\ Free(todo, {Op("pending_intr_clear")})
      BY <3>3, FreeSubset
    <3> QED BY <1>1, <2>2, <2>4, <3>4 DEF IInv, SetupInv
  <2>5. CASE phase = "resume"
    <3>1. Ordered(todo, {Restore("SPIV")}, {Restore("TASKPRI")})
      BY <1>1, <2>2, <2>5 DEF IInv, ResumeInv
    <3>2. Restore("SPIV") # Restore("TASKPRI")
      BY DEF Restore
    <3>3. Free(todo, {Restore("TASKPRI")})
      BY <2>2, <2>3, <2>5, <3>1, <3>2 DEF Takes
    <3>4. Has("TASKPRI") /\ "TASKPRI" \in Regs
      BY DEF Has, Regs
    <3>5. regs["TASKPRI"] = pm.saved["TASKPRI"]
      BY <1>1, <2>2, <2>5, <3>3, <3>4 DEF IInv, ResumeInv
    <3>6. pm.saved["TASKPRI"] = 16
      BY <1>1, <2>2, <2>5 DEF IInv, SavedInv, UpRegs
    <3> QED BY <2>5, <3>5, <3>6
  <2> QED BY <1>1, <2>4, <2>5
<1>2. IInv /\ [Next]_vars =>
        [(phase \in {"setup", "resume"} /\ phase' = phase /\ ~On /\ regs'["SPIV"].on) =>
           regs["TASKPRI"] = 16 /\ (phase = "setup" => ~stale \/ warned)]_vars
  BY <1>1
<1> QED BY <1>2, Inductive, PTL DEF Spec, EnabledWhenReady

\* Suspend and resume switch the local APIC only behind a masked IO-APIC.
THEOREM QuietFirst == Spec => SwitchedWhenQuiet
<1>1. ASSUME IInv, [Next]_vars, phase \in {"suspend", "resume"}, phase' = phase,
             On # regs'["SPIV"].on
      PROVE  ioapic = "masked"
  <2> DEFINE a == Head(todo)
  <2> DEFINE sw == SpivOff \cup {Restore("SPIV")}
  <2> DEFINE mi == {Op("mask_ioapic_entries")}
  <2>1. Continue
    BY <1>1, OnlyContinue DEF On
  <2>2. a \in sw
    BY <1>1, <2>1, Switches
  <2>3. Takes(a, Tail(todo)) /\ todo # <<>>
    BY <1>1, <2>1, ContinueFacts DEF Continue
  <2> HIDE DEF a
  <2>4. a \notin mi
    BY <2>2 DEF SpivOff, Op, Restore
  <2>5. Ordered(todo, sw, mi) /\ (Free(todo, mi) => ioapic = "masked")
    BY <1>1, <2>3 DEF IInv, QuietInv
  <2> HIDE DEF sw, mi
  <2>6. Free(todo, mi)
    BY <2>2, <2>3, <2>4, <2>5 DEF Takes
  <2> QED BY <2>5, <2>6
<1>2. IInv /\ [Next]_vars =>
        [(phase \in {"suspend", "resume"} /\ phase' = phase /\ On # regs'["SPIV"].on) =>
           ioapic = "masked"]_vars
  BY <1>1
<1> QED BY <1>2, Inductive, PTL DEF Spec, SwitchedWhenQuiet
=============================================================================
