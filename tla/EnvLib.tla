------------------------------- MODULE EnvLib -------------------------------
(***************************************************************************)
(* Env driven by programs that use the environment system calls the way    *)
(* the user library does.  fork() (lib/fork.c), spawn() (lib/spawn.c) and  *)
(* dumbfork() make a child with sys_exofork, set it up while it is         *)
(* NOT_RUNNABLE, and make it runnable once; spawn() destroys it instead    *)
(* when a step fails.  Programs destroy themselves (exit()) and destroy a  *)
(* child at most once (user/spin.c, user/testpiperace2.c).                 *)
(***************************************************************************)
EXTENDS Env

\* A child that its parent is still setting up: it has never been runnable.
Fresh(e) == env_status[e] = "NOT_RUNNABLE" /\ env_tf[e] = "set"

\* spawn() installs the child's entry point and stack.
SpawnSetTrapframe(c, id) ==
  /\ Trapped(c)
  /\ id # ZeroId /\ Fresh(id[2]) /\ Envid2env(c, id, TRUE)
  /\ SysEnvSetTrapframe(c, id, FALSE)

\* The last step of fork() and spawn().
ForkEnd(c, id) ==
  /\ id # ZeroId /\ Fresh(id[2])
  /\ SysEnvSetStatus(c, id, "RUNNABLE")

\* A program destroys a child of its own, or spawn() one it cannot set up.  A
\* zombie child is one it has destroyed already.
KillChild(c, id) ==
  /\ Trapped(c)
  /\ id # ZeroId /\ id[2] # curenv[c]
  /\ env_status[id[2]] # "DYING"
  /\ SysEnvDestroy(c, id)

\* exit(), or a fault.
Exit(c) == Fault(c)

LibNext ==
  \E c \in CPUs :
    \/ KernelStep(c)
    \/ SysExofork(c)
    \/ Exit(c)
    \/ \E id \in EnvIds :
         SpawnSetTrapframe(c, id) \/ ForkEnd(c, id) \/ KillChild(c, id)

LibSpec == Init /\ [][LibNext]_vars
-----------------------------------------------------------------------------
\* The fields of struct Env and struct CpuInfo keep their ranges; env_alloc()
\* wraps generations, so an id never leaves its bits.
TypeOK ==
  /\ env_status \in [Slots -> Statuses]
  /\ env_gen \in [Slots -> 0 .. MaxGen]
  /\ env_parent_id \in [Slots -> EnvIds]
  /\ env_free_list \in Seq(Slots)
  /\ env_tf \in [Slots -> TrapFrames]
  /\ env_ipc_recving \in [Slots -> BOOLEAN]
  /\ curenv \in [CPUs -> Slots \cup {NULL}]
  /\ cpu \in [CPUs -> CpuModes]

\* The free list of env.c holds exactly the FREE slots, each once: an
\* environment is never both in use and up for allocation, and no slot is
\* lost, whoever destroys it and on whatever CPU it last ran.
FreeListExact ==
  /\ \A e \in Slots :
       env_status[e] = "FREE" <=> \E i \in DOMAIN env_free_list : env_free_list[i] = e
  /\ \A i, j \in DOMAIN env_free_list :
       env_free_list[i] = env_free_list[j] => i = j

\* A CPU that is in user mode, on its way there, or stopped at a breakpoint
\* has an environment that is RUNNING or a zombie; every RUNNING or zombie
\* environment is on a CPU; and no environment is on two.  sched_yield():
\* "Never choose an environment that's currently running on another CPU".
Busy == OnCpu \cup {"debug"}

OneCpuPerEnv ==
  /\ \A c \in CPUs : cpu[c] \in Busy =>
       /\ curenv[c] \in Slots
       /\ env_status[curenv[c]] \in {"RUNNING", "DYING"}
  /\ \A e \in Slots : env_status[e] \in {"RUNNING", "DYING"} =>
       \E c \in CPUs : cpu[c] \in Busy /\ curenv[c] = e
  /\ \A c, d \in CPUs : c # d /\ curenv[c] = curenv[d] => curenv[c] = NULL

\* An environment sleeps (NOT_RUNNABLE) only while its parent sets it up or
\* while it waits in sys_ipc_recv for a sender that will both clear
\* env_ipc_recving and wake it: a wake-up is never lost, and none resumes from
\* sys_ipc_recv before a sender has written its result register.
SleepersAreAwaited ==
  \A e \in Slots : env_status[e] # "FREE" =>
    /\ env_ipc_recving[e] <=> env_tf[e] = "recv"
    /\ env_status[e] = "NOT_RUNNABLE" <=> Fresh(e) \/ env_ipc_recving[e]

\* sched_halt() stops the machine in the monitor only when it is idle: no
\* other CPU is running an environment or about to, and none has one to run.
MonitorOnlyWhenIdle ==
  (\E c \in CPUs : cpu[c] = "monitor") =>
    /\ \A d \in CPUs : cpu[d] \in {"monitor", "halted", "start"}
    /\ \A e \in Slots : env_status[e] \in {"FREE", "NOT_RUNNABLE"}

\* env_run() drops the kernel lock before env_pop_tf() has read the trap frame.
\* Until the CPU is in user mode no other CPU writes that frame, neither as a
\* sender, nor as a parent, nor by reusing the slot.
TrapframeStable ==
  [][\A c \in CPUs :
       cpu[c] = "pop" => env_tf'[curenv[c]] = env_tf[curenv[c]]]_vars

\* While fork() or spawn() sets a child up, the child's slot, generation and
\* parent stay what sys_exofork made them, and only a step of its parent (or
\* of a successor of the parent with the same env_id) ends the setting up.
FreshChildKept ==
  [][\A e \in Slots :
       Fresh(e) =>
         /\ env_gen'[e] = env_gen[e] /\ env_parent_id'[e] = env_parent_id[e]
         /\ env_status'[e] # env_status[e] =>
              \E c \in CPUs : /\ cpu[c] = "user"
                              /\ EnvId(curenv[c]) = env_parent_id[e]]_vars
-----------------------------------------------------------------------------
(***************************************************************************)
(* Liveness.  Each CPU has its own periodic clock interrupt, which stays   *)
(* pending while interrupts are off: a CPU that enters user mode again and *)
(* again takes it at last (strong fairness); a halted CPU takes it, and    *)
(* code that runs with interrupts off goes on (weak fairness).  Nobody     *)
(* uses the breakpoint, which stops the machine in the monitor.            *)
(***************************************************************************)
CpuFairness ==
  \A c \in CPUs :
    /\ WF_vars(Start(c)) /\ WF_vars(EnvPopTf(c)) /\ WF_vars(TimerHalted(c))
    /\ WF_vars(TrapZombie(c)) /\ SF_vars(SysYield(c))

LiveStep(c) ==
  \/ Start(c) \/ EnvPopTf(c) \/ TimerHalted(c) \/ TrapZombie(c)
  \/ SyscallReturn(c) \/ SysYield(c) \/ SysIpcRecv(c)
  \/ \E id \in EnvIds : SysIpcTrySend(c, id) \/ ForkEnd(c, id)
  \/ SysExofork(c)

\* env_destroy(): "A zombie environment will be freed the next time it traps to
\* the kernel", and the clock makes it trap.
ZombiesAreFreed ==
  \A e \in Slots : env_status[e] = "DYING" ~> env_status[e] = "FREE"

\* Round robin starves nobody when only finitely many environments end: a
\* runnable environment is put on a CPU, whatever the others do.
RunnablesRun ==
  \A e \in Slots : env_status[e] = "RUNNABLE" ~> env_status[e] # "RUNNABLE"
=============================================================================
