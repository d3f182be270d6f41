----------------------------- MODULE SchedScan ------------------------------
(***************************************************************************)
(* The search loop of sched_yield() (kern/sched.c), one turn at a time:    *)
(* the index idle runs over 0 .. NENV, one more than envs[] has, and the   *)
(* loop makes NENV turns.  envs[] fills its pages to the last byte, so the *)
(* words taken for envs[NENV] are in the page after it, which page_alloc() *)
(* hands out: they hold whatever a program, or the kernel, left there.     *)
(* Module Env takes the result of the search as one step, for words that   *)
(* do not read as a runnable environment.                                  *)
(***************************************************************************)
EXTENDS SchedOrder

Statuses == {"RUNNABLE", "RUNNING", "NOT_RUNNABLE"}

VARIABLES
  status,  \* env_status of the slots, and what the memory after envs[] holds
  cur,     \* curenv at the call
  idle, i,
  done,    \* the search is over
  picked   \* the index it runs; NULL: sched_halt()

vars == <<status, cur, idle, i, done, picked>>

First(c) == IF c = NULL THEN 0 ELSE c + 1

Init ==
  /\ status \in [0 .. NENV -> Statuses]
  /\ cur \in Slots \cup {NULL}
  /\ idle = First(cur)
  /\ i = 0
  /\ done = FALSE /\ picked = NULL

Found ==
  /\ ~done /\ i < NENV /\ status[idle] = "RUNNABLE"
  /\ done' = TRUE /\ picked' = idle
  /\ UNCHANGED <<status, cur, idle, i>>

\* Mutant of Advance: the wrap goes to slot 1.
AdvanceLate ==
  /\ ~done /\ i < NENV /\ status[idle] # "RUNNABLE"
  /\ idle' = IF idle >= NENV THEN 1 ELSE idle + 1
  /\ i' = i + 1
  /\ UNCHANGED <<status, cur, done, picked>>

Advance ==
  /\ ~done /\ i < NENV /\ status[idle] # "RUNNABLE"
  /\ idle' = IF idle >= NENV THEN 0 ELSE idle + 1
  /\ i' = i + 1
  /\ UNCHANGED <<status, cur, done, picked>>

\* After the loop: the current environment, if it still runs, or sched_halt().
GiveUp ==
  /\ ~done /\ i = NENV
  /\ done' = TRUE
  /\ picked' = IF cur # NULL /\ status[cur] = "RUNNING" THEN cur ELSE NULL
  /\ UNCHANGED <<status, cur, idle, i>>

Next == Found \/ Advance \/ GiveUp

Spec == Init /\ [][Next]_vars
-----------------------------------------------------------------------------
\* The index of sched_yield()'s loop never goes beyond envs + NENV.
TypeOK ==
  /\ status \in [0 .. NENV -> Statuses]
  /\ cur \in Slots \cup {NULL}
  /\ idle \in 0 .. NENV /\ i \in 0 .. NENV
  /\ done \in BOOLEAN
  /\ picked \in 0 .. NENV \cup {NULL}

\* The loop of sched_yield() reads the memory after envs[] as an environment,
\* when it starts after a current one and that memory reads as runnable.
Phantom == cur # NULL /\ status[NENV] = "RUNNABLE"

\* NENV turns over NENV + 1 indices are just enough: the loop passes over no
\* runnable slot but the current one, and takes the first in circular order
\* (which is what SchedYield of module Env does in one step), unless the memory
\* after envs[] reads as runnable and no slot after the current one is.
FirstInOrder ==
  LET R == {e \in Slots : e # cur /\ status[e] = "RUNNABLE"}
  IN  done =>
        \/ /\ R = {} /\ ~Phantom
           /\ picked = IF cur # NULL /\ status[cur] = "RUNNING" THEN cur ELSE NULL
        \/ picked \in R /\ (Phantom => picked > cur)
           /\ \A f \in R : ScanDistance(cur, picked) <= ScanDistance(cur, f)
        \/ picked = NENV /\ Phantom /\ \A f \in R : f < cur
=============================================================================
