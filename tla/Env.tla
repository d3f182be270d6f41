-------------------------------- MODULE Env --------------------------------
(***************************************************************************)
(* The environments (processes) of the kernel, the scheduler that puts     *)
(* them on the CPUs and the IPC that blocks and wakes them: kern/env.c,    *)
(* kern/sched.c, the trap entry of kern/trap.c and the environment and IPC *)
(* system calls of kern/syscall.c.                                         *)
(*                                                                         *)
(* A trap handler runs under the big kernel lock from trap() to the unlock *)
(* in env_run() or sched_halt(), so each handler is one action; module     *)
(* KernelLock models the lock itself.  What a CPU does after the unlock    *)
(* (env_pop_tf, which still reads the environment's trap frame) is a step  *)
(* of its own.  The pages and address spaces are in module Vm.             *)
(***************************************************************************)
EXTENDS SchedOrder, Sequences

CONSTANTS
  CPUs,      \* the processors, cpus[0..ncpu-1]
  BootCPU,   \* the one that runs i386_init()
  MaxGen,    \* the last generation of an env_id before it wraps (2^19 - 1)
  InitEnvs   \* how many environments i386_init() creates

ASSUME EnvAssumption ==
  /\ BootCPU \in CPUs
  /\ NENV \in Nat \ {0}
  /\ MaxGen \in Nat \ {0}
  /\ InitEnvs \in 1 .. NENV
  /\ NULL \notin Slots

VARIABLES
  env_status,       \* envs[e].env_status
  env_gen,          \* the generation part of envs[e].env_id
  env_parent_id,
  env_free_list,    \* a list of slots, the head first
  env_tf,           \* what the saved trap frame resumes (see TrapFrames)
  env_ipc_recving,
  curenv,           \* cpus[c].cpu_env
  cpu               \* what the CPU is doing (see CpuModes)

envVars == <<env_gen, env_parent_id, env_free_list>>
schedVars == <<env_status, curenv, cpu>>
vars == <<envVars, schedVars, env_ipc_recving, env_tf>>

Statuses == {"FREE", "DYING", "RUNNABLE", "RUNNING", "NOT_RUNNABLE"}

(***************************************************************************)
(* An env_id is a generation and a slot number.  <<0, 0>> is the envid 0   *)
(* that means "the caller" and, as a parent, "the kernel".                 *)
(***************************************************************************)
EnvIds == (0 .. MaxGen) \X Slots
ZeroId == <<0, 0>>
EnvId(e) == <<env_gen[e], e>>

(***************************************************************************)
(* What env_pop_tf() would resume: a frame built by another environment or *)
(* by the kernel for one that has not run yet ("set"), user code after a   *)
(* trap ("trap"), sys_ipc_recv with its result register still unwritten    *)
(* ("recv") or set to 0 by a sender ("ipc").                               *)
(***************************************************************************)
TrapFrames == {"set", "trap", "recv", "ipc"}

(***************************************************************************)
(* start: in mp_main()/i386_init(), about to call sched_yield(); pop: out  *)
(* of the lock, in env_pop_tf(); user; halted: in the hlt of sched_halt(); *)
(* monitor, debug, panic: in the kernel monitor, the lock held, for good.  *)
(***************************************************************************)
CpuModes == {"start", "pop", "user", "halted", "monitor", "debug", "panic"}
OnCpu == {"pop", "user"}

LockFree == \A c \in CPUs : cpu[c] \notin {"monitor", "debug", "panic"}
-----------------------------------------------------------------------------
(***************************************************************************)
(* The scheduler.  st is env_status and cur is curenv as the code that     *)
(* calls it leaves them.                                                   *)
(***************************************************************************)

\* env_run(): a context switch only when e is not already current.
EnvRun(c, e, st, cur) ==
  /\ env_status' =
       IF e = cur THEN st
       ELSE [s \in Slots |->
               IF s = e THEN "RUNNING"
               ELSE IF s = cur /\ st[s] = "RUNNING" THEN "RUNNABLE"
               ELSE st[s]]
  /\ curenv' = [curenv EXCEPT ![c] = e]
  /\ cpu' = [cpu EXCEPT ![c] = "pop"]

\* Mutant of SchedHalt: environments that run on other CPUs are not counted.
SchedHaltIgnoresRunning(c, st, cur) ==
  /\ env_status' = st
  /\ IF \A e \in Slots : st[e] # "RUNNABLE"
     THEN /\ curenv' = [curenv EXCEPT ![c] = cur]
          /\ cpu' = [cpu EXCEPT ![c] = "monitor"]
     ELSE /\ curenv' = [curenv EXCEPT ![c] = NULL]
          /\ cpu' = [cpu EXCEPT ![c] = "halted"]

\* sched_halt(): the monitor when nothing can ever run again, else hlt.
SchedHalt(c, st, cur) ==
  /\ env_status' = st
  /\ IF \A e \in Slots : st[e] \notin {"RUNNABLE", "RUNNING", "DYING"}
     THEN /\ curenv' = [curenv EXCEPT ![c] = cur]
          /\ cpu' = [cpu EXCEPT ![c] = "monitor"]
     ELSE /\ curenv' = [curenv EXCEPT ![c] = NULL]
          /\ cpu' = [cpu EXCEPT ![c] = "halted"]

\* Mutant of SchedYield: an environment that still runs is not given up.
SchedYieldKeepsCur(c, st, cur) ==
  LET R == {e \in Slots : e # cur /\ st[e] = "RUNNABLE"}
  IN  IF cur # NULL /\ st[cur] = "RUNNING" THEN EnvRun(c, cur, st, cur)
      ELSE IF R # {}
           THEN \E e \in R :
                  /\ \A f \in R : ScanDistance(cur, e) <= ScanDistance(cur, f)
                  /\ EnvRun(c, e, st, cur)
           ELSE SchedHalt(c, st, cur)

\* sched_yield(): the first runnable slot in circular order after cur (from
\* slot 0 when there is none), which never looks at cur itself; then cur if
\* it is still running; else halt.
SchedYield(c, st, cur) ==
  LET R == {e \in Slots : e # cur /\ st[e] = "RUNNABLE"}
  IN  IF R # {}
      THEN \E e \in R :
             /\ \A f \in R : ScanDistance(cur, e) <= ScanDistance(cur, f)
             /\ EnvRun(c, e, st, cur)
      ELSE IF cur # NULL /\ st[cur] = "RUNNING"
           THEN EnvRun(c, cur, st, cur)
           ELSE SchedHalt(c, st, cur)

\* The end of trap(): back to the current environment if it still runs.
TrapReturn(c, st) ==
  IF st[curenv[c]] = "RUNNING"
  THEN EnvRun(c, curenv[c], st, curenv[c])
  ELSE SchedYield(c, st, curenv[c])
-----------------------------------------------------------------------------
\* trap() from user mode, past the zombie check.  A current environment that
\* is FREE has lost its page directory; no handler is modelled for it.
Trapped(c) ==
  /\ cpu[c] = "user"
  /\ LockFree
  /\ env_status[curenv[c]] \notin {"DYING", "FREE"}

\* The trap frame is saved into curenv->env_tf.
SaveTf(c) == [env_tf EXCEPT ![curenv[c]] = "trap"]

\* envid2env(): the slot an envid names, and whether the lookup succeeds.
Target(c, id) == IF id = ZeroId THEN curenv[c] ELSE id[2]

\* Mutant of Envid2env: nobody's permission is checked.
Envid2envAnyone(c, id, checkperm) ==
  \/ id = ZeroId
  \/ env_status[id[2]] # "FREE" /\ env_gen[id[2]] = id[1]

Envid2env(c, id, checkperm) ==
  \/ id = ZeroId
  \/ LET e == id[2]
     IN  /\ env_status[e] # "FREE"
         /\ env_gen[e] = id[1]
         /\ \/ ~checkperm
            \/ e = curenv[c]
            \/ env_parent_id[e] = EnvId(curenv[c])

\* A trap that changes no environment: a system call of another module, one
\* that returns an error, a device interrupt.
SyscallReturn(c) ==
  /\ Trapped(c)
  /\ env_tf' = SaveTf(c)
  /\ TrapReturn(c, env_status)
  /\ UNCHANGED <<envVars, env_ipc_recving>>

\* sys_yield(), and the clock interrupt in user mode.
SysYield(c) ==
  /\ Trapped(c)
  /\ env_tf' = SaveTf(c)
  /\ SchedYield(c, env_status, curenv[c])
  /\ UNCHANGED <<envVars, env_ipc_recving>>

\* The clock interrupt that ends the hlt of an idle CPU.
TimerHalted(c) ==
  /\ cpu[c] = "halted"
  /\ LockFree
  /\ SchedYield(c, env_status, NULL)
  /\ UNCHANGED <<envVars, env_ipc_recving, env_tf>>

\* The first sched_yield() of each CPU; the boot CPU holds the lock since
\* before it started the others.
Start(c) ==
  /\ cpu[c] = "start"
  /\ LockFree
  /\ c = BootCPU \/ cpu[BootCPU] # "start"
  /\ SchedYield(c, env_status, NULL)
  /\ UNCHANGED <<envVars, env_ipc_recving, env_tf>>

\* env_pop_tf(), after unlock_kernel(): the CPU enters user mode.
EnvPopTf(c) ==
  /\ cpu[c] = "pop"
  /\ cpu' = [cpu EXCEPT ![c] = "user"]
  /\ UNCHANGED <<envVars, env_ipc_recving, env_status, curenv, env_tf>>
-----------------------------------------------------------------------------
\* The statuses after env_free(e).
EnvFreed(e) == [env_status EXCEPT ![e] = "FREE"]

\* Mutant of EnvFree: the freed slot replaces the head of the list.
EnvFreeLosesHead(e) ==
  env_free_list' = <<e>> \o (IF env_free_list = << >> THEN << >> ELSE Tail(env_free_list))

\* env_free(): the slot goes to the head of the free list.
EnvFree(e) == env_free_list' = <<e>> \o env_free_list

\* Mutant of TrapZombie: the zombie is switched away from, not freed.
TrapZombieKept(c) ==
  /\ cpu[c] = "user"
  /\ LockFree
  /\ env_status[curenv[c]] = "DYING"
  /\ SchedYield(c, env_status, curenv[c])
  /\ UNCHANGED <<envVars, env_ipc_recving, env_tf>>

\* trap() collects a zombie: whatever the cause of the trap.
TrapZombie(c) ==
  /\ cpu[c] = "user"
  /\ LockFree
  /\ env_status[curenv[c]] = "DYING"
  /\ EnvFree(curenv[c])
  /\ SchedYield(c, EnvFreed(curenv[c]), NULL)
  /\ UNCHANGED <<env_gen, env_parent_id, env_ipc_recving, env_tf>>

\* Mutant of EnvDestroy: frees the environment wherever it runs.
EnvDestroyAtOnce(c, e) ==
  \/ /\ e # curenv[c]
     /\ EnvFree(e)
     /\ TrapReturn(c, EnvFreed(e))
  \/ /\ e = curenv[c]
     /\ EnvFree(e)
     /\ SchedYield(c, EnvFreed(e), NULL)

\* env_destroy(): an environment that runs on another CPU becomes a zombie.
EnvDestroy(c, e) ==
  \/ /\ env_status[e] = "RUNNING" /\ e # curenv[c]
     /\ TrapReturn(c, [env_status EXCEPT ![e] = "DYING"])
     /\ UNCHANGED env_free_list
  \/ /\ env_status[e] # "RUNNING" /\ e # curenv[c]
     /\ EnvFree(e)
     /\ TrapReturn(c, EnvFreed(e))
  \/ /\ e = curenv[c]
     /\ EnvFree(e)
     /\ SchedYield(c, EnvFreed(e), NULL)

SysEnvDestroy(c, id) ==
  /\ Trapped(c)
  /\ Envid2env(c, id, TRUE)
  /\ env_tf' = SaveTf(c)
  /\ EnvDestroy(c, Target(c, id))
  /\ UNCHANGED <<env_gen, env_parent_id, env_ipc_recving>>

\* A fault the environment cannot handle: trap_dispatch() and
\* page_fault_handler() destroy it.
Fault(c) == SysEnvDestroy(c, ZeroId)

NextGen(g) == IF g = MaxGen THEN 1 ELSE g + 1

\* Mutant of EnvAlloc: env_ipc_recving is not cleared.
EnvAllocStaleRecv(e, parent) ==
  /\ env_free_list' = Tail(env_free_list)
  /\ env_gen' = [env_gen EXCEPT ![e] = NextGen(@)]
  /\ env_parent_id' = [env_parent_id EXCEPT ![e] = parent]
  /\ UNCHANGED env_ipc_recving

\* env_alloc(), of the head of the free list: a new generation.
EnvAlloc(e, parent) ==
  /\ env_free_list' = Tail(env_free_list)
  /\ env_gen' = [env_gen EXCEPT ![e] = NextGen(@)]
  /\ env_parent_id' = [env_parent_id EXCEPT ![e] = parent]
  /\ env_ipc_recving' = [env_ipc_recving EXCEPT ![e] = FALSE]

\* The child starts NOT_RUNNABLE with a copy of the caller's trap frame.
SysExofork(c) ==
  /\ Trapped(c)
  /\ env_free_list # << >>
  /\ LET e == Head(env_free_list)
     IN  /\ EnvAlloc(e, EnvId(curenv[c]))
         /\ env_tf' = [SaveTf(c) EXCEPT ![e] = "set"]
         /\ TrapReturn(c, [env_status EXCEPT ![e] = "NOT_RUNNABLE"])

SysEnvSetStatus(c, id, status) ==
  /\ Trapped(c)
  /\ status \in {"RUNNABLE", "NOT_RUNNABLE"}
  /\ Envid2env(c, id, TRUE)
  /\ env_tf' = SaveTf(c)
  /\ TrapReturn(c, [env_status EXCEPT ![Target(c, id)] = status])
  /\ UNCHANGED <<envVars, env_ipc_recving>>

\* sys_env_set_trapframe() panics on an envid it cannot find and on tf == NULL.
SysEnvSetTrapframe(c, id, null) ==
  /\ Trapped(c)
  /\ IF Envid2env(c, id, TRUE) /\ ~null
     THEN /\ env_tf' = [SaveTf(c) EXCEPT ![Target(c, id)] = "set"]
          /\ TrapReturn(c, env_status)
     ELSE /\ env_tf' = SaveTf(c)
          /\ cpu' = [cpu EXCEPT ![c] = "panic"]
          /\ UNCHANGED <<env_status, curenv>>
  /\ UNCHANGED <<envVars, env_ipc_recving>>

\* The breakpoint trap enters the monitor, which no command leaves.
Breakpoint(c) ==
  /\ Trapped(c)
  /\ env_tf' = SaveTf(c)
  /\ cpu' = [cpu EXCEPT ![c] = "debug"]
  /\ UNCHANGED <<envVars, env_ipc_recving, env_status, curenv>>
-----------------------------------------------------------------------------
\* sys_ipc_recv(): block until a sender writes the result register.
SysIpcRecv(c) ==
  /\ Trapped(c)
  /\ env_ipc_recving' = [env_ipc_recving EXCEPT ![curenv[c]] = TRUE]
  /\ env_tf' = [env_tf EXCEPT ![curenv[c]] = "recv"]
  /\ SchedYield(c, [env_status EXCEPT ![curenv[c]] = "NOT_RUNNABLE"], curenv[c])
  /\ UNCHANGED envVars

\* sys_ipc_try_send() once it succeeds.  Its error returns (bad envid, target
\* not receiving, bad or unmapped page, no memory) are SyscallReturn; the
\* page it passes is IpcSendPage of module Vm.
SysIpcTrySend(c, id) ==
  /\ Trapped(c)
  /\ Envid2env(c, id, FALSE)
  /\ LET e == Target(c, id)
     IN  /\ env_ipc_recving[e]
         /\ env_ipc_recving' = [env_ipc_recving EXCEPT ![e] = FALSE]
         /\ env_tf' = [SaveTf(c) EXCEPT ![e] = "ipc"]
         /\ TrapReturn(c, [env_status EXCEPT ![e] = "RUNNABLE"])
  /\ UNCHANGED envVars
-----------------------------------------------------------------------------
\* env_init(), then env_create() for the first InitEnvs slots.
Init ==
  /\ env_status = [e \in Slots |-> IF e < InitEnvs THEN "RUNNABLE" ELSE "FREE"]
  /\ env_gen = [e \in Slots |-> IF e < InitEnvs THEN 1 ELSE 0]
  /\ env_parent_id = [e \in Slots |-> ZeroId]
  /\ env_free_list = [i \in 1 .. NENV - InitEnvs |-> InitEnvs + i - 1]
  /\ env_tf = [e \in Slots |-> "set"]
  /\ env_ipc_recving = [e \in Slots |-> FALSE]
  /\ curenv = [c \in CPUs |-> NULL]
  /\ cpu = [c \in CPUs |-> "start"]

\* What every program may do, whatever it is.
KernelStep(c) ==
  \/ Start(c) \/ EnvPopTf(c) \/ TimerHalted(c) \/ TrapZombie(c)
  \/ SyscallReturn(c) \/ SysYield(c) \/ Breakpoint(c)
  \/ SysIpcRecv(c)
  \/ \E id \in EnvIds : SysIpcTrySend(c, id)

\* Programs that call the environment system calls as they like.
RawNext ==
  \E c \in CPUs :
    \/ KernelStep(c)
    \/ Fault(c)
    \/ SysExofork(c)
    \/ \E id \in EnvIds :
         \/ SysEnvDestroy(c, id)
         \/ \E null \in BOOLEAN : SysEnvSetTrapframe(c, id, null)
         \/ \E s \in Statuses : SysEnvSetStatus(c, id, s)

RawSpec == Init /\ [][RawNext]_vars
=============================================================================
