------------------------------ MODULE ZzzTimer ------------------------------
(***************************************************************************)
(* The periodic timer of linux/fs/proc/zzzloop.c: a handler that re-arms   *)
(* itself and counts, and the /proc files that start and delete it.        *)
(*                                                                         *)
(* The timer core is external.  What the code relies on is modelled: a     *)
(* timer belongs to the base of one CPU, a base runs one handler at a      *)
(* time, and mod_timer moves a timer to another base only while its        *)
(* handler is not running.  del_timer does not wait for a running handler. *)
(***************************************************************************)
EXTENDS Integers, FiniteSets

CONSTANTS
  Cpus,      \* processors; the demo's VM has one
  MaxTicks   \* bound on zzzloop_counter

ASSUME ZzzTimerAssumption == Cpus # {} /\ MaxTicks \in Nat

VARIABLES
  pending,          \* the timer is queued
  base,             \* CPU of the base it belongs to
  hpc,              \* per CPU: point inside the handler, or "out"
  seen,             \* per CPU: zzzloop_counter as the increment read it
  rpc,              \* per CPU: point of the process reading a /proc file
  zzzloop_counter,
  runs,             \* handler calls that have begun to count (history)
  wanted            \* the last finished request was a start (history)

zzz_vars == <<pending, base, hpc, seen, rpc, zzzloop_counter, runs, wanted>>

ZzzTypeOK ==
  /\ pending \in BOOLEAN /\ base \in Cpus
  /\ hpc \in [Cpus -> {"out", "rearm", "read", "write"}]
  /\ seen \in [Cpus -> 0..MaxTicks]
  /\ rpc \in [Cpus -> {"idle", "start", "del", "deleted"}]
  /\ zzzloop_counter \in 0..MaxTicks /\ runs \in 0..MaxTicks
  /\ wanted \in BOOLEAN

ZzzInit ==
  /\ pending = FALSE /\ base \in Cpus
  /\ hpc = [c \in Cpus |-> "out"] /\ seen = [c \in Cpus |-> 0]
  /\ rpc = [c \in Cpus |-> "idle"]
  /\ zzzloop_counter = 0 /\ runs = 0 /\ wanted = FALSE

-----------------------------------------------------------------------------
(* The timer core                                                          *)

\* mod_timer on CPU c
mod_timer(c) ==
  /\ pending' = TRUE
  /\ base' = IF \E d \in Cpus : hpc[d] # "out" THEN base ELSE c

\* 250 ms have passed: the softirq of the base's CPU calls the handler.
Expire(c) ==
  /\ pending /\ base = c /\ hpc[c] = "out" /\ runs < MaxTicks
  /\ pending' = FALSE
  /\ hpc' = [hpc EXCEPT ![c] = "rearm"]
  /\ UNCHANGED <<base, seen, rpc, zzzloop_counter, runs, wanted>>

-----------------------------------------------------------------------------
(* zzzloop_timer_handler                                                   *)

HandlerRearms(c) ==
  /\ hpc[c] = "rearm"
  /\ mod_timer(c)
  /\ hpc' = [hpc EXCEPT ![c] = "read"]
  /\ UNCHANGED <<seen, rpc, zzzloop_counter, runs, wanted>>

\* zzzloop_counter++ is a read and a write.
HandlerReads(c) ==
  /\ hpc[c] = "read"
  /\ seen' = [seen EXCEPT ![c] = zzzloop_counter]
  /\ runs' = runs + 1
  /\ hpc' = [hpc EXCEPT ![c] = "write"]
  /\ UNCHANGED <<pending, base, rpc, zzzloop_counter, wanted>>

HandlerWrites(c) ==
  /\ hpc[c] = "write"
  /\ zzzloop_counter' = seen[c] + 1
  /\ hpc' = [hpc EXCEPT ![c] = "out"]
  /\ UNCHANGED <<pending, base, seen, rpc, runs, wanted>>

Handler(c) == HandlerRearms(c) \/ HandlerReads(c) \/ HandlerWrites(c)

-----------------------------------------------------------------------------
(* The /proc files.  A softirq on the same CPU runs to its end before the  *)
(* process goes on.                                                        *)

Process(c) == hpc[c] = "out"

\* open and read of zzzloop_timer_start or zzzloop_timer_del
OpenProc(c) ==
  /\ Process(c) /\ rpc[c] = "idle"
  /\ \E f \in {"start", "del"} : rpc' = [rpc EXCEPT ![c] = f]
  /\ UNCHANGED <<pending, base, hpc, seen, zzzloop_counter, runs, wanted>>

\* Mutant: start calls the handler to get the first tick at once.
StartCallsHandler(c) ==
  /\ Process(c) /\ rpc[c] = "start" /\ runs < MaxTicks
  /\ hpc' = [hpc EXCEPT ![c] = "rearm"]
  /\ rpc' = [rpc EXCEPT ![c] = "idle"] /\ wanted' = TRUE
  /\ UNCHANGED <<pending, base, seen, zzzloop_counter, runs>>

\* Mutant: start does not arm the timer.
StartForgetsTimer(c) ==
  /\ Process(c) /\ rpc[c] = "start"
  /\ rpc' = [rpc EXCEPT ![c] = "idle"] /\ wanted' = TRUE
  /\ UNCHANGED <<pending, base, hpc, seen, zzzloop_counter, runs>>

zzzloop_timer_start_proc_show(c) ==
  /\ Process(c) /\ rpc[c] = "start"
  /\ mod_timer(c)
  /\ rpc' = [rpc EXCEPT ![c] = "idle"] /\ wanted' = TRUE
  /\ UNCHANGED <<hpc, seen, zzzloop_counter, runs>>

\* del_timer, and then "zzzloop_timer deleted"
zzzloop_timer_del_proc_show(c) ==
  /\ Process(c) /\ rpc[c] = "del"
  /\ pending' = FALSE
  /\ rpc' = [rpc EXCEPT ![c] = "deleted"] /\ wanted' = FALSE
  /\ UNCHANGED <<base, hpc, seen, zzzloop_counter, runs>>

\* The reader has seen the text and closes the file.
CloseProc(c) ==
  /\ Process(c) /\ rpc[c] = "deleted"
  /\ rpc' = [rpc EXCEPT ![c] = "idle"]
  /\ UNCHANGED <<pending, base, hpc, seen, zzzloop_counter, runs, wanted>>

ZzzNext == \E c \in Cpus :
  \/ Expire(c) \/ Handler(c) \/ OpenProc(c)
  \/ zzzloop_timer_start_proc_show(c) \/ zzzloop_timer_del_proc_show(c)
  \/ CloseProc(c)

\* Softirqs are served and handlers run to their end.
Fairness == \A c \in Cpus : WF_zzz_vars(Expire(c) \/ Handler(c))

ZzzSpec == ZzzInit /\ [][ZzzNext]_zzz_vars /\ Fairness

-----------------------------------------------------------------------------
\* The plain increment in the handler loses no tick, although the handler re-arms
\* the timer before it counts and the timer may be started on any CPU meanwhile:
\* two CPUs are never inside it at once.
CounterExact ==
  /\ Cardinality({c \in Cpus : hpc[c] # "out"}) <= 1
  /\ (\A c \in Cpus : hpc[c] # "write") => zzzloop_counter = runs

\* "zzzloop_timer deleted": while the reader has that answer, and nobody started
\* the timer again, the timer is neither queued nor about to re-arm itself.
DeletedMeansStopped ==
  (\E c \in Cpus : rpc[c] = "deleted") /\ ~wanted =>
    ~pending /\ \A c \in Cpus : hpc[c] # "rearm"

\* "zzzloop_timer started": a timer that was started and not deleted since ticks
\* again (up to the bound on the ticks).  A new start may move the deadline.
KeepsTicking == \A n \in 0..(MaxTicks - 1) :
  (wanted /\ zzzloop_counter = n)
    ~> (zzzloop_counter > n \/ ~wanted \/ \E c \in Cpus : rpc[c] = "start")
=============================================================================
