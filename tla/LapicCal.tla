------------------------------ MODULE LapicCal ------------------------------
(***************************************************************************)
(* How calibrate_APIC_clock in arch/x86/kernel/apic/apic.c measures the     *)
(* local APIC timer.  L + 2 ticks of a reference (the TSC when its frequency *)
(* is known, jiffies otherwise) each call lapic_cal_handler, which reads the *)
(* timer, the PM timer and jiffies at two of them; the PM timer corrects a   *)
(* reference that ran at the wrong speed.  Time is in units of 1/U of a tick *)
(* and of one PM timer step; a call's reads take no time.                    *)
(***************************************************************************)
EXTENDS Integers

CONSTANTS
  L,            \* LAPIC_CAL_LOOPS
  U,            \* units in a true tick
  Div,          \* APIC_DIVISOR
  MinPeriod,    \* 1000000 / HZ, the slowest timer accepted
  PmWrap,       \* ACPI_PM_OVRRUN
  Uint, Word,   \* the ranges of unsigned int and of u64
  Ticks,        \* what a tick of the reference may really last
  Rates,        \* timer counts per unit
  PmStarts,     \* what the PM timer may read when calibration begins
  Stalls        \* delays of the polling loop

ASSUME CalAssumption ==
  /\ {L, U, Div, MinPeriod, PmWrap, Uint, Word} \subseteq Nat \ {0}
  /\ Div < Uint /\ 2 * Uint * L * U <= Word
  /\ Ticks \subseteq Nat \ {0} /\ Rates \subseteq Nat \ {0}
  /\ PmStarts \subseteq 0..(PmWrap - 1) /\ Stalls \subseteq Nat

VARIABLES
  loops,        \* lapic_cal_loops
  now,          \* time since calibration began
  start,        \* the tick waited from: tsc_start, or jif_start
  at1, at2,     \* when the handler took its first and its last readings
  period,       \* lapic_timer_period
  bench         \* the hardware: length of a tick, timer rate, PM timer

cal == <<loops, now, start, at1, at2, period, bench>>

NoBench == [tick |-> 0, rate |-> 0, pm |-> 0]

CalInit ==
  /\ loops = -1 /\ now = 0 /\ start = 0 /\ at1 = 0 /\ at2 = 0
  /\ period = 0 /\ bench = NoBench

\* The counter is set to Tmict and the loop begins.
CalBegin(pmtimer) ==
  /\ \E t \in Ticks, r \in Rates, p \in IF pmtimer THEN PmStarts ELSE {0} :
       bench' = [tick |-> t, rate |-> r, pm |-> p]
  /\ UNCHANGED <<loops, now, start, at1, at2, period>>

\* lapic_cal_handler
Handler(t) ==
  /\ loops' = loops + 1 /\ now' = t
  /\ at1' = IF loops = 0 THEN t ELSE at1
  /\ at2' = IF loops = L THEN t ELSE at2

\* A tick elapses, the loop sees it s units late.  The TSC's ticks have a
\* fixed schedule; jiffies that passed meanwhile are not made up for.
CalTick(tsc, s) ==
  LET due == start + bench.tick
      t   == (IF now > due THEN now ELSE due) + s
  IN /\ loops <= L /\ Handler(t)
     /\ start' = IF tsc THEN due ELSE bench.tick * (t \div bench.tick)
     /\ UNCHANGED <<period, bench>>

-----------------------------------------------------------------------------
Pm(t) == (bench.pm + t) % PmWrap
Pm100ms == L * U

\* The PM timer's distance, with one overrun made up for; without a PM timer
\* both readings are 0.
DeltaPm(pmtimer) ==
  IF ~pmtimer THEN 0
  ELSE Pm(at2) - Pm(at1) + (IF Pm(at2) < Pm(at1) THEN PmWrap ELSE 0)

\* clocks / APIC_DIVISOR, for clocks = 0xffffffff: what TMICT is set to.
Tmict == (Uint - 1) \div Div

\* TMCCT counts down from TMICT; at zero the periodic timer starts again.
Counter(t) == Tmict - ((bench.rate * t) % Tmict)

\* A long, of two's complement; the quotient of longs, towards zero.
Long(x) == IF x % Word < Word \div 2 THEN x % Word ELSE (x % Word) - Word
Quotient(x, d) == IF x < 0 THEN -((-x) \div d) ELSE x \div d

\* Mutant: the correction is the wrong way round.
DeltaInverse(d) ==
  LET delta == Counter(at1) - Counter(at2) IN
  IF d = 0 \/ (d > Pm100ms - Pm100ms \div 100 /\ d < Pm100ms + Pm100ms \div 100)
  THEN delta ELSE Long(((delta * d) % Word) \div Pm100ms)

\* calibrate_by_pmtimer: whether it referenced the result, and the result,
\* corrected in u64 when the PM timer disagrees.
ByPm(d) == d # 0
Delta(d) ==
  LET delta == Counter(at1) - Counter(at2) IN
  IF d = 0 \/ (d > Pm100ms - Pm100ms \div 100 /\ d < Pm100ms + Pm100ms \div 100)
  THEN delta ELSE Long(((delta * Pm100ms) % Word) \div d)

\* lapic_timer_period, an unsigned int, from the readings
Measured(pmtimer) == Quotient(Long(Delta(DeltaPm(pmtimer)) * Div), L) % Uint

\* How long one period of the timer lasts once it is programmed.
Lasts == (period \div Div) \div bench.rate

\* Jiffies: the tick of the loop, or an independent one.
Jiffies(tsc, t) == t \div (IF tsc THEN U ELSE bench.tick)

\* The check of the verification: deltaj against LAPIC_CAL_LOOPS
JiffiesAgree(tsc) ==
  Jiffies(tsc, at2) - Jiffies(tsc, at1) \in (L - 2)..(L + 2)
=============================================================================
