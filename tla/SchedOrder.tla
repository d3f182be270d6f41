----------------------------- MODULE SchedOrder -----------------------------
(* The slots of envs[] and the order in which sched_yield() tries them. *)
EXTENDS Integers

CONSTANTS
  NENV,      \* the length of envs[] (inc/env.h, 1024)
  NULL

Slots == 0 .. NENV - 1

ASSUME ScanAssumption == NENV \in Nat \ {0} /\ NULL \notin Slots

\* How many other slots the scan of sched_yield() passes before it looks at e.
ScanDistance(cur, e) ==
  IF cur = NULL THEN e
  ELSE IF e > cur THEN e - cur - 1 ELSE e + NENV - cur - 1
=============================================================================
