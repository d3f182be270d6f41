------------------------------- MODULE MCLive -------------------------------
(***************************************************************************)
(* Who waits for a CPU or for another environment: the kernel lock         *)
(* (KernelLock), the search of sched_yield() (SchedScan), environments     *)
(* (MCEnvLive) and the users of a pipe (MCPipeLive).  Each is checked on   *)
(* its own: a behaviour is one of one of them, and the others stay where   *)
(* they begin.                                                             *)
(***************************************************************************)
EXTENDS KernelLock

CONSTANTS
  ScanNENV,                                              \* of SchedScan
  EnvCPUs, NENV, MaxGen, InitEnvs, MaxExits,             \* of EnvLib
  NProcs, NCPU, MAXFD, DupTargets, PIPEBUFSIZ, Count,    \* of Pipe
  Reader, Writer, MaxBytes, MaxTicks

VARIABLES
  part,                                                  \* the one that takes steps
  status, cur, idle, turn, done, picked,                 \* of SchedScan
  env_status, env_gen, env_parent_id, env_free_list, env_tf, env_ipc_recving,
  curenv, cpu, exits,                                    \* of EnvLib
  life, parent, running, switched, fdpage, datapage, p_rpos, p_wpos, p_buf, got,
  call, eof, ticks                                       \* of Pipe

ASSUME LiveAssumption == ScanNENV \in Nat \ {0} /\ NULL \notin 0 .. ScanNENV - 1

Scan == INSTANCE SchedScan WITH NENV <- ScanNENV, i <- turn
Sched == INSTANCE MCEnvLive WITH CPUs <- EnvCPUs
Pipes == INSTANCE MCPipeLive

scanVars == <<status, cur, idle, turn, done, picked>>
envVars == <<env_status, env_gen, env_parent_id, env_free_list, env_tf,
             env_ipc_recving, curenv, cpu>>
schedVars == <<envVars, exits>>
pipeVars == <<life, parent, running, switched, fdpage, datapage, p_rpos, p_wpos,
              p_buf, got, call, eof, ticks>>
allVars == <<part, vars, scanVars, schedVars, pipeVars>>

LiveInit ==
  /\ part \in {"lock", "scan", "sched", "pipe"}
  /\ Init /\ Scan!Init /\ Sched!Init /\ exits = 0 /\ Pipes!LiveInit
  /\ part # "scan" => cur = NULL /\ status = [s \in 0 .. ScanNENV |-> "NOT_RUNNABLE"]

LiveNext ==
  /\ \/ part = "lock" /\ Next /\ UNCHANGED <<scanVars, schedVars, pipeVars>>
     \/ part = "scan" /\ Scan!Next /\ UNCHANGED <<vars, schedVars, pipeVars>>
     \/ part = "sched" /\ Sched!LiveNext /\ UNCHANGED <<vars, scanVars, pipeVars>>
     \/ part = "pipe" /\ Pipes!LiveNext /\ UNCHANGED <<vars, scanVars, schedVars>>
  /\ UNCHANGED part

\* What KernelLock, EnvLib and MCPipeLive assume of the one that takes steps.
Fair(p, A) == part = p /\ A

Fairness ==
  /\ WF_vars(Fair("lock", BootStep))
  /\ \A c \in CPUs : WF_vars(Fair("lock", CpuStep(c)))
  /\ \A c \in EnvCPUs :
       /\ WF_envVars(Fair("sched", Sched!Start(c)))
       /\ WF_envVars(Fair("sched", Sched!EnvPopTf(c)))
       /\ WF_envVars(Fair("sched", Sched!TimerHalted(c)))
       /\ WF_envVars(Fair("sched", Sched!TrapZombie(c)))
       /\ SF_envVars(Fair("sched", Sched!SysYield(c)))
  /\ \A e \in Pipes!Procs :
       /\ SF_pipeVars(Fair("pipe", Pipes!Proceed(e) /\ UNCHANGED ticks))
       /\ SF_pipeVars(Fair("pipe", ~Pipes!Looking(e) /\ Pipes!LiveTick(e)))
       /\ WF_pipeVars(Fair("pipe", Pipes!IdleCpu(e) /\ UNCHANGED ticks))

AllSpec == LiveInit /\ [][LiveNext]_allVars /\ Fairness

\* The loop of sched_yield() finds the first runnable slot (SchedScan!FirstInOrder).
FirstInOrder == Scan!FirstInOrder

\* A zombie is freed when its CPU traps (EnvLib!ZombiesAreFreed).
ZombiesAreFreed == Sched!ZombiesAreFreed

\* Round robin starves no runnable environment (EnvLib!RunnablesRun).
RunnablesRun == part = "sched" => Sched!RunnablesRun

\* A read() learns that all writers have closed (MCPipeLive!ReadersLearnEof).
ReadersLearnEof == Pipes!ReadersLearnEof

\* A write() learns that all readers have closed (MCPipeLive!WritersLearnEof).
WritersLearnEof == Pipes!WritersLearnEof
=============================================================================
