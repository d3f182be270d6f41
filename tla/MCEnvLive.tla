----------------------------- MODULE MCEnvLive ------------------------------
(***************************************************************************)
(* EnvLib with fair CPUs and a bound on the environments that end.  (When  *)
(* one ends its CPU searches from slot 0 again, so a program that forks    *)
(* and ends for ever can keep high slots from running.)                    *)
(***************************************************************************)
EXTENDS EnvLib

CONSTANT MaxExits

VARIABLE exits

LiveNext ==
  \E c \in CPUs :
    \/ LiveStep(c) /\ UNCHANGED exits
    \/ /\ exits < MaxExits
       /\ Exit(c) \/ \E id \in EnvIds : KillChild(c, id)
       /\ exits' = exits + 1

LiveSpec == Init /\ exits = 0 /\ [][LiveNext]_<<vars, exits>> /\ CpuFairness
=============================================================================
