------------------------------ MODULE MCEnvRaw ------------------------------
(***************************************************************************)
(* Env with programs that call the environment system calls in any order   *)
(* the kernel accepts: what the kernel's comments promise of any program.  *)
(***************************************************************************)
EXTENDS Env

\* sched_yield(): "Never choose an environment that's currently running on
\* another CPU".  sys_env_set_status() writes the status of an environment that
\* runs on another CPU, so the promise breaks.
NeverOnTwoCpus ==
  \A c, d \in CPUs :
    c # d /\ cpu[c] \in OnCpu /\ cpu[d] \in OnCpu => curenv[c] # curenv[d]
=============================================================================
