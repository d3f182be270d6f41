----------------------------- MODULE KernelLock -----------------------------
(***************************************************************************)
(* The big kernel lock and the processors that take it: spin_lock() and    *)
(* spin_unlock() step by step (kern/spinlock.c), the start of the other    *)
(* CPUs (boot_aps() and mp_main() of kern/init.c, kern/mpentry.S), the     *)
(* entry of trap() (kern/trap.c), the exits through env_run() and          *)
(* sched_halt(), and panic().  What the kernel does under the lock is one  *)
(* step here and is module Env.                                            *)
(***************************************************************************)
EXTENDS Integers

CONSTANTS CPUs, BootCPU, NULL

ASSUME LockAssumption == BootCPU \in CPUs /\ NULL \notin CPUs

VARIABLES
  locked,          \* kernel_lock.locked
  owner,           \* kernel_lock.cpu
  cpu_status,
  mpentry_kstack,  \* the CPU whose stack mpentry_kstack points to
  kstack,          \* the CPU on whose stack this CPU runs
  panicstr,        \* TRUE after the first panic()
  pc,
  next             \* where the CPU goes on after spin_lock() or spin_unlock()

lockVars == <<locked, owner>>
bootVars == <<mpentry_kstack, kstack>>
vars == <<lockVars, bootVars, cpu_status, panicstr, pc, next>>

(***************************************************************************)
(* off: an AP before its STARTUP IPI; entry: in mpentry.S; main: in        *)
(* mp_main() before it reports; boot, aps, wait: in i386_init() and        *)
(* boot_aps().  check, check2, spin, own are spin_lock(); unlock, release  *)
(* spin_unlock().  kern: under the lock; user; hlt: the hlt of             *)
(* sched_halt(); trap: at the start of trap(); monitor: in the monitor for *)
(* good; dead: the hlt of trap() after a panic; badlock: stopped by one of *)
(* the panics of spinlock.c.                                               *)
(***************************************************************************)
PCs == {"off", "entry", "main", "boot", "aps", "wait", "check", "check2",
        "spin", "own", "kern", "unlock", "release", "user", "hlt", "trap",
        "monitor", "dead", "badlock"}

CpuStatuses == {"UNUSED", "STARTED", "HALTED"}

Init ==
  /\ locked = 0
  /\ owner = NULL
  /\ cpu_status = [c \in CPUs |-> IF c = BootCPU THEN "STARTED" ELSE "UNUSED"]
  /\ mpentry_kstack = NULL
  /\ kstack = [c \in CPUs |-> IF c = BootCPU THEN c ELSE NULL]
  /\ panicstr = FALSE
  /\ pc = [c \in CPUs |-> IF c = BootCPU THEN "boot" ELSE "off"]
  /\ next = [c \in CPUs |-> "kern"]

Goto(c, l) == pc' = [pc EXCEPT ![c] = l]

\* A call of lock_kernel() or unlock_kernel() that goes on at k.
Call(c, l, k) == Goto(c, l) /\ next' = [next EXCEPT ![c] = k]
-----------------------------------------------------------------------------
\* spin_lock(): holding() reads lk->locked, then lk->cpu.
HoldingLocked(c) ==
  /\ pc[c] = "check"
  /\ Goto(c, IF locked = 1 THEN "check2" ELSE "spin")
  /\ UNCHANGED <<lockVars, bootVars, cpu_status, panicstr, next>>

HoldingCpu(c) ==
  /\ pc[c] = "check2"
  /\ Goto(c, IF owner = c THEN "badlock" ELSE "spin")
  /\ UNCHANGED <<lockVars, bootVars, cpu_status, panicstr, next>>

\* Mutant of Xchg: the loop tests the lock and does not set it.
XchgTestOnly(c) ==
  /\ pc[c] = "spin" /\ locked = 0
  /\ Goto(c, "own")
  /\ UNCHANGED <<lockVars, bootVars, cpu_status, panicstr, next>>

\* One turn of the xchg loop; a turn that fails changes nothing.
Xchg(c) ==
  /\ pc[c] = "spin" /\ locked = 0
  /\ locked' = 1
  /\ Goto(c, "own")
  /\ UNCHANGED <<owner, bootVars, cpu_status, panicstr, next>>

RecordOwner(c) ==
  /\ pc[c] = "own"
  /\ owner' = c
  /\ Goto(c, next[c])
  /\ UNCHANGED <<locked, bootVars, cpu_status, panicstr, next>>

\* Mutant of ClearOwner: lk->cpu keeps the last owner.
ClearOwnerForgotten(c) ==
  /\ pc[c] = "unlock"
  /\ Goto(c, IF locked = 1 /\ owner = c THEN "release" ELSE "badlock")
  /\ UNCHANGED <<lockVars, bootVars, cpu_status, panicstr, next>>

\* spin_unlock(): the holding() check and lk->cpu = 0.
ClearOwner(c) ==
  /\ pc[c] = "unlock"
  /\ IF locked = 1 /\ owner = c
     THEN owner' = NULL /\ Goto(c, "release")
     ELSE Goto(c, "badlock") /\ UNCHANGED owner
  /\ UNCHANGED <<locked, bootVars, cpu_status, panicstr, next>>

\* Mutant of Release: the final exchange is missing.
ReleaseForgotten(c) ==
  /\ pc[c] = "release"
  /\ Goto(c, next[c])
  /\ UNCHANGED <<lockVars, bootVars, cpu_status, panicstr, next>>

Release(c) ==
  /\ pc[c] = "release"
  /\ locked' = 0
  /\ Goto(c, next[c])
  /\ UNCHANGED <<owner, bootVars, cpu_status, panicstr, next>>
-----------------------------------------------------------------------------
\* i386_init() takes the lock before it wakes the others.
BootLock ==
  /\ pc[BootCPU] = "boot"
  /\ Call(BootCPU, "check", "aps")
  /\ UNCHANGED <<lockVars, bootVars, cpu_status, panicstr>>

\* boot_aps(): the stack of the next AP, then its STARTUP IPI.
StartAp(a) ==
  /\ pc[BootCPU] = "aps" /\ pc[a] = "off"
  /\ mpentry_kstack' = a
  /\ pc' = [pc EXCEPT ![BootCPU] = "wait", ![a] = "entry"]
  /\ UNCHANGED <<lockVars, kstack, cpu_status, panicstr, next>>

\* Mutant of WaitAp: boot_aps() does not wait.
WaitApSkipped ==
  /\ pc[BootCPU] = "wait"
  /\ Goto(BootCPU, "aps")
  /\ UNCHANGED <<lockVars, bootVars, cpu_status, panicstr, next>>

\* It waits for the one it has just started.
WaitAp ==
  /\ pc[BootCPU] = "wait"
  /\ cpu_status[mpentry_kstack] = "STARTED"
  /\ Goto(BootCPU, "aps")
  /\ UNCHANGED <<lockVars, bootVars, cpu_status, panicstr, next>>

\* All are up: ENV_CREATE and sched_yield() under the lock.
BootDone ==
  /\ pc[BootCPU] = "aps" /\ \A a \in CPUs : pc[a] # "off"
  /\ Goto(BootCPU, "kern")
  /\ UNCHANGED <<lockVars, bootVars, cpu_status, panicstr, next>>

\* mpentry.S loads the stack pointer.
ApEntry(a) ==
  /\ pc[a] = "entry"
  /\ kstack' = [kstack EXCEPT ![a] = mpentry_kstack]
  /\ Goto(a, "main")
  /\ UNCHANGED <<lockVars, mpentry_kstack, cpu_status, panicstr, next>>

\* mp_main() reports to boot_aps() and goes for the lock.
ApMain(a) ==
  /\ pc[a] = "main"
  /\ cpu_status' = [cpu_status EXCEPT ![a] = "STARTED"]
  /\ Call(a, "check", "kern")
  /\ UNCHANGED <<lockVars, bootVars, panicstr>>
-----------------------------------------------------------------------------
\* The kernel ends in env_run() ...
KernRun(c) ==
  /\ pc[c] = "kern"
  /\ Call(c, "unlock", "user")
  /\ UNCHANGED <<lockVars, bootVars, cpu_status, panicstr>>

\* ... in sched_halt() ...
KernHalt(c) ==
  /\ pc[c] = "kern"
  /\ cpu_status' = [cpu_status EXCEPT ![c] = "HALTED"]
  /\ Call(c, "unlock", "hlt")
  /\ UNCHANGED <<lockVars, bootVars, panicstr>>

\* ... in the monitor, or in a panic.
KernMonitor(c) ==
  /\ pc[c] = "kern"
  /\ Goto(c, "monitor")
  /\ panicstr' \in {panicstr, TRUE}
  /\ UNCHANGED <<lockVars, bootVars, cpu_status, next>>

\* An interrupt in user mode or in hlt, or a fault or system call of the user;
\* trap() halts for good if some CPU has panicked.
TrapEnter(c) ==
  /\ pc[c] \in {"user", "hlt"}
  /\ next' = [next EXCEPT ![c] = pc[c]]
  /\ Goto(c, IF panicstr THEN "dead" ELSE "trap")
  /\ UNCHANGED <<lockVars, bootVars, cpu_status, panicstr>>

\* trap() locks if it was halted, and locks if it comes from user mode (next is
\* still where the trap came from): twice when both hold.
TrapLock(c) ==
  /\ pc[c] = "trap"
  /\ cpu_status' = [cpu_status EXCEPT ![c] = "STARTED"]
  /\ IF cpu_status[c] = "HALTED" \/ next[c] = "user"
     THEN Call(c, "check", IF cpu_status[c] = "HALTED" /\ next[c] = "user"
                           THEN "check" ELSE "kern")
     ELSE Call(c, "kern", "kern")
  /\ UNCHANGED <<lockVars, bootVars, panicstr>>
-----------------------------------------------------------------------------
CpuStep(c) ==
  \/ HoldingLocked(c) \/ HoldingCpu(c) \/ Xchg(c) \/ RecordOwner(c)
  \/ ClearOwner(c) \/ Release(c)
  \/ ApEntry(c) \/ ApMain(c)
  \/ KernRun(c) \/ KernHalt(c) \/ TrapEnter(c) \/ TrapLock(c)

BootStep ==
  BootLock \/ WaitAp \/ BootDone \/ \E a \in CPUs : StartAp(a)

Next == BootStep \/ \E c \in CPUs : CpuStep(c) \/ KernMonitor(c)

Spec == Init /\ [][Next]_vars
-----------------------------------------------------------------------------
\* The lock word is 0 or 1, and the other fields keep their ranges.
TypeOK ==
  /\ locked \in {0, 1}
  /\ owner \in CPUs \cup {NULL}
  /\ cpu_status \in [CPUs -> CpuStatuses]
  /\ mpentry_kstack \in CPUs \cup {NULL}
  /\ kstack \in [CPUs -> CPUs \cup {NULL}]
  /\ panicstr \in BOOLEAN
  /\ pc \in [CPUs -> PCs]
  /\ next \in [CPUs -> PCs]

\* Between the xchg that takes the lock and the one that gives it back; a CPU
\* that entered the monitor never gives it back.
InKernel(c) ==
  pc[c] \in {"own", "aps", "wait", "kern", "unlock", "release", "monitor"}

\* At most one CPU is in the kernel, from boot_aps() on.
MutualExclusion ==
  \A c, d \in CPUs : InKernel(c) /\ InKernel(d) => c = d

\* The checks of spinlock.c never fire: holding() is not fooled by the owner
\* another CPU is just writing or clearing, trap() never takes the lock that
\* the CPU already has, nor enters the kernel without it.
NoLockPanic == \A c \in CPUs : pc[c] # "badlock"

\* mpentry_kstack is one variable for all APs; each one still starts on its
\* own stack.
OwnStack == \A c \in CPUs : kstack[c] \in {c, NULL}

\* Code that runs with interrupts off goes on, the clock interrupts user code
\* and hlt, and a spinning CPU tries again.
LiveSpec ==
  /\ Spec
  /\ WF_vars(BootStep)
  /\ \A c \in CPUs : WF_vars(CpuStep(c))

\* The lock is never lost: when a CPU spins, some CPU is or comes into the
\* kernel, whether or not the one that spins wins.
LockProgress ==
  (\E c \in CPUs : pc[c] = "spin") ~> (\E d \in CPUs : InKernel(d))
=============================================================================
