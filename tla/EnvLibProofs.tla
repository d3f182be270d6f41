---------------------------- MODULE EnvLibProofs ----------------------------
(***************************************************************************)
(* The safety invariants of EnvLib for any number of CPUs, environments    *)
(* and generations.                                                        *)
(***************************************************************************)
EXTENDS EnvLib, TLAPS

-----------------------------------------------------------------------------
(***************************************************************************)
(* The free list as a sequence.                                            *)
(***************************************************************************)

\* What env_free() does to the list: e in front, the others one place on.
LEMMA PushFront ==
  ASSUME NEW S, NEW s \in Seq(S), NEW e \in S
  PROVE  /\ <<e>> \o s \in Seq(S)
         /\ Len(<<e>> \o s) = Len(s) + 1
         /\ \A i \in 1 .. Len(s) + 1 :
              (<<e>> \o s)[i] = IF i = 1 THEN e ELSE s[i - 1]
  OBVIOUS

\* What env_alloc() does to it: the head goes, the others one place up.
LEMMA PopFront ==
  ASSUME NEW S, NEW s \in Seq(S), s # << >>
  PROVE  /\ Head(s) \in S /\ Head(s) = s[1] /\ Len(s) \in Nat \ {0}
         /\ Tail(s) \in Seq(S)
         /\ Len(Tail(s)) = Len(s) - 1
         /\ \A i \in 1 .. Len(s) - 1 : Tail(s)[i] = s[i + 1]
  OBVIOUS

\* FreeListExact of a given list and status.
ListIs(list, st) ==
  /\ \A e \in Slots :
       st[e] = "FREE" <=> \E i \in 1 .. Len(list) : list[i] = e
  /\ \A i, j \in 1 .. Len(list) : list[i] = list[j] => i = j

LEMMA ListPush ==
  ASSUME NEW list \in Seq(Slots), NEW st \in [Slots -> Statuses],
         NEW e \in Slots, st[e] # "FREE", ListIs(list, st)
  PROVE  ListIs(<<e>> \o list, [st EXCEPT ![e] = "FREE"])
<1> DEFINE l == <<e>> \o list
           s == [st EXCEPT ![e] = "FREE"]
<1>1. /\ l \in Seq(Slots) /\ Len(l) = Len(list) + 1
      /\ \A i \in 1 .. Len(list) + 1 : l[i] = IF i = 1 THEN e ELSE list[i - 1]
  BY PushFront
<1>2. Len(list) \in Nat
  OBVIOUS
<1>3. \A i \in 1 .. Len(list) : list[i] # e
  BY Zenon DEF ListIs
<1> HIDE DEF l
<1>4. ASSUME NEW f \in Slots
      PROVE  s[f] = "FREE" <=> \E i \in 1 .. Len(l) : l[i] = f
  <2>1. CASE f = e
    BY <2>1, <1>1, <1>2
  <2>2. CASE f # e
    <3>1. s[f] = "FREE" <=> \E i \in 1 .. Len(list) : list[i] = f
      BY <2>2, Zenon DEF ListIs
    <3>2. ASSUME NEW i \in 1 .. Len(list), list[i] = f
          PROVE  i + 1 \in 1 .. Len(l) /\ l[i + 1] = f
      BY <3>2, <1>1, <1>2
    <3>3. ASSUME NEW i \in 1 .. Len(l), l[i] = f
          PROVE  i - 1 \in 1 .. Len(list) /\ list[i - 1] = f
      BY <3>3, <2>2, <1>1, <1>2
    <3> QED BY <3>1, <3>2, <3>3, Zenon
  <2> QED BY <2>1, <2>2, Zenon
<1>5. ASSUME NEW i \in 1 .. Len(l), NEW j \in 1 .. Len(l), l[i] = l[j]
      PROVE  i = j
  <2>1. ASSUME NEW k \in 2 .. Len(l) PROVE k - 1 \in 1 .. Len(list) /\ l[k] = list[k - 1]
    BY <1>1, <1>2
  <2>2. l[1] = e
    <3>1. 1 \in 1 .. Len(list) + 1
      BY <1>2
    <3> QED BY <3>1, <1>1, Zenon
  <2>3. ASSUME NEW k \in 1 .. Len(l), l[k] = e PROVE k = 1
    <3>1. k # 1 => k \in 2 .. Len(l)
      BY <1>1, <1>2
    <3> QED BY <3>1, <2>1, <2>3, <1>3, Zenon
  <2>5. CASE i = 1 \/ j = 1
    BY <2>2, <2>3, <2>5, <1>5, Zenon
  <2>4. CASE i # 1 /\ j # 1
    <3>1. i \in 2 .. Len(l) /\ j \in 2 .. Len(l)
      BY <2>4, <1>1, <1>2
    <3>2. i - 1 = j - 1
      BY <3>1, <2>1, <1>5 DEF ListIs
    <3> QED BY <3>1, <3>2
  <2> QED BY <2>4, <2>5, Zenon
<1> QED BY <1>4, <1>5, Zenon DEF ListIs, l

LEMMA ListPop ==
  ASSUME NEW list \in Seq(Slots), NEW st \in [Slots -> Statuses],
         list # << >>, ListIs(list, st)
  PROVE  /\ st[Head(list)] = "FREE"
         /\ ListIs(Tail(list), [st EXCEPT ![Head(list)] = "NOT_RUNNABLE"])
<1> DEFINE e == Head(list)
           l == Tail(list)
           s == [st EXCEPT ![e] = "NOT_RUNNABLE"]
<1>1. /\ e \in Slots /\ e = list[1] /\ Len(list) \in Nat \ {0}
      /\ l \in Seq(Slots) /\ Len(l) = Len(list) - 1
      /\ \A i \in 1 .. Len(list) - 1 : l[i] = list[i + 1]
  BY PopFront, Zenon
<1> HIDE DEF e, l
<1>2. st[e] = "FREE"
  BY <1>1 DEF ListIs
<1>3. ASSUME NEW f \in Slots
      PROVE  s[f] = "FREE" <=> \E i \in 1 .. Len(l) : l[i] = f
  <2>1. CASE f = e
    <3>1. \A i \in 1 .. Len(l) : l[i] # f
      BY <1>1, <2>1 DEF ListIs
    <3> QED BY <3>1, <2>1, Zenon
  <2>2. CASE f # e
    <3>1. s[f] = "FREE" <=> \E i \in 1 .. Len(list) : list[i] = f
      BY <2>2, Zenon DEF ListIs
    <3>2. ASSUME NEW i \in 1 .. Len(list), list[i] = f
          PROVE  i - 1 \in 1 .. Len(l) /\ l[i - 1] = f
      BY <3>2, <2>2, <1>1
    <3>3. ASSUME NEW i \in 1 .. Len(l), l[i] = f
          PROVE  i + 1 \in 1 .. Len(list) /\ list[i + 1] = f
      BY <3>3, <1>1
    <3> QED BY <3>1, <3>2, <3>3, Zenon
  <2> QED BY <2>1, <2>2, Zenon
<1>4. ASSUME NEW i \in 1 .. Len(l), NEW j \in 1 .. Len(l), l[i] = l[j]
      PROVE  i = j
  BY <1>1, <1>4 DEF ListIs
<1> QED BY <1>2, <1>3, <1>4, Zenon DEF ListIs, e, l
-----------------------------------------------------------------------------
(***************************************************************************)
(* The inductive invariant.  OneCpuPerEnv says nothing of a CPU that is    *)
(* not busy; the scheduler relies on such a CPU having no environment.     *)
(***************************************************************************)
IdleHasNone ==
  \A c \in CPUs : cpu[c] \in {"start", "halted"} => curenv[c] = NULL

Inv ==
  /\ TypeOK
  /\ ListIs(env_free_list, env_status)
  /\ OneCpuPerEnv
  /\ IdleHasNone
  /\ SleepersAreAwaited

(***************************************************************************)
(* The state in which a handler on CPU c leaves the environments when it   *)
(* enters the scheduler with statuses st and current environment cur: the  *)
(* other CPUs are as OneCpuPerEnv wants them, and cur, if any, is on c.    *)
(***************************************************************************)
Ready(c, st, cur) ==
  /\ st \in [Slots -> Statuses]
  /\ cur \in Slots \cup {NULL}
  /\ cur # NULL => st[cur] \in {"RUNNING", "NOT_RUNNABLE"}
  /\ \A d \in CPUs \ {c} : curenv[d] # NULL =>
       /\ cpu[d] \in Busy
       /\ curenv[d] # cur
       /\ st[curenv[d]] \in {"RUNNING", "DYING"}
  /\ \A d \in CPUs \ {c} : cpu[d] \in Busy => curenv[d] # NULL
  /\ \A d \in CPUs \ {c} : cpu[d] \in {"start", "halted"} => curenv[d] = NULL
  /\ \A d, f \in CPUs \ {c} : d # f /\ curenv[d] = curenv[f] => curenv[d] = NULL
  /\ \A e \in Slots : st[e] \in {"RUNNING", "DYING"} =>
       e = cur \/ \E d \in CPUs \ {c} : cpu[d] \in Busy /\ curenv[d] = e

\* What the scheduler may do to the statuses: run a runnable one, make cur
\* runnable.
Switched(st, cur) ==
  /\ env_status' \in [Slots -> Statuses]
  /\ \A e \in Slots :
       \/ env_status'[e] = st[e]
       \/ st[e] = "RUNNABLE" /\ env_status'[e] = "RUNNING"
       \/ e = cur /\ st[e] = "RUNNING" /\ env_status'[e] = "RUNNABLE"

SchedTypes ==
  /\ curenv \in [CPUs -> Slots \cup {NULL}]
  /\ cpu \in [CPUs -> CpuModes]

Scheduled(st, cur) ==
  /\ Switched(st, cur)
  /\ SchedTypes'
  /\ OneCpuPerEnv'
  /\ IdleHasNone'

\* env_run() of a runnable environment, or of the current one.
LEMMA EnvRunOk ==
  ASSUME SchedTypes, NEW c \in CPUs, NEW st, NEW cur, NEW e \in Slots,
         Ready(c, st, cur), EnvRun(c, e, st, cur),
         \/ e = cur /\ st[e] = "RUNNING"
         \/ e # cur /\ st[e] = "RUNNABLE"
  PROVE  Scheduled(st, cur)
<1> USE EnvAssumption DEF Busy, OnCpu, CpuModes, SchedTypes
<1>1. /\ curenv' = [curenv EXCEPT ![c] = e]
      /\ cpu' = [cpu EXCEPT ![c] = "pop"]
  BY Zenon DEF EnvRun
<1>2. Switched(st, cur)
  BY Zenon DEF Switched, EnvRun, Ready, Statuses
<1>3. SchedTypes'
  BY <1>1, Zenon
<1>4. env_status'[e] = "RUNNING"
  BY Zenon DEF EnvRun, Ready
<1>5. \A d \in CPUs \ {c} : curenv[d] # NULL =>
        curenv[d] \in Slots /\ curenv[d] # e /\ env_status'[curenv[d]] = st[curenv[d]]
  BY <1>2 DEF Ready, Switched
<1>6. \A s \in Slots : env_status'[s] \in {"RUNNING", "DYING"} =>
        s = e \/ (s # cur /\ st[s] \in {"RUNNING", "DYING"})
  BY DEF EnvRun, Ready
<1>7. OneCpuPerEnv'
  <2>1. ASSUME NEW d \in CPUs, cpu'[d] \in Busy
        PROVE  curenv'[d] \in Slots /\ env_status'[curenv'[d]] \in {"RUNNING", "DYING"}
    BY <1>1, <1>4, <1>5, <2>1 DEF Ready
  <2>2. ASSUME NEW s \in Slots, env_status'[s] \in {"RUNNING", "DYING"}
        PROVE  \E d \in CPUs : cpu'[d] \in Busy /\ curenv'[d] = s
    BY <1>1, <1>6, <2>2 DEF Ready
  <2>3. ASSUME NEW d \in CPUs, NEW f \in CPUs, d # f, curenv'[d] = curenv'[f]
        PROVE  curenv'[d] = NULL
    BY <1>1, <1>5, <2>3 DEF Ready
  <2> QED BY <2>1, <2>2, <2>3, Zenon DEF OneCpuPerEnv
<1>8. IdleHasNone'
  BY <1>1 DEF IdleHasNone, Ready
<1> QED BY <1>2, <1>3, <1>7, <1>8, Zenon DEF Scheduled

LEMMA SchedHaltOk ==
  ASSUME SchedTypes, NEW c \in CPUs, NEW st, NEW cur,
         Ready(c, st, cur), SchedHalt(c, st, cur), cur # NULL => st[cur] # "RUNNING"
  PROVE  Scheduled(st, cur)
<1> USE EnvAssumption DEF Busy, OnCpu, CpuModes, SchedTypes
<1>1. env_status' = st
  BY Zenon DEF SchedHalt
<1>2. PICK x \in {cur, NULL}, m \in {"monitor", "halted"} :
        /\ curenv' = [curenv EXCEPT ![c] = x] /\ cpu' = [cpu EXCEPT ![c] = m]
        /\ m = "halted" => x = NULL
  BY Zenon DEF SchedHalt
<1>3. Switched(st, cur)
  BY <1>1, Zenon DEF Switched, Ready
<1>4. SchedTypes'
  BY <1>2 DEF Ready
<1>5. OneCpuPerEnv'
  <2>1. ASSUME NEW d \in CPUs, cpu'[d] \in Busy
        PROVE  curenv'[d] \in Slots /\ env_status'[curenv'[d]] \in {"RUNNING", "DYING"}
    BY <1>1, <1>2, <2>1 DEF Ready
  <2>2. ASSUME NEW s \in Slots, env_status'[s] \in {"RUNNING", "DYING"}
        PROVE  \E d \in CPUs : cpu'[d] \in Busy /\ curenv'[d] = s
    BY <1>1, <1>2, <2>2 DEF Ready
  <2>3. ASSUME NEW d \in CPUs, NEW f \in CPUs, d # f, curenv'[d] = curenv'[f]
        PROVE  curenv'[d] = NULL
    BY <1>2, <2>3 DEF Ready
  <2> QED BY <2>1, <2>2, <2>3, Zenon DEF OneCpuPerEnv
<1>6. IdleHasNone'
  BY <1>2 DEF IdleHasNone, Ready
<1> QED BY <1>3, <1>4, <1>5, <1>6, Zenon DEF Scheduled

\* sched_yield() from any such state.
LEMMA SchedYieldOk ==
  ASSUME SchedTypes, NEW c \in CPUs, NEW st, NEW cur,
         Ready(c, st, cur), SchedYield(c, st, cur)
  PROVE  Scheduled(st, cur)
<1> DEFINE R == {e \in Slots : e # cur /\ st[e] = "RUNNABLE"}
<1>1. CASE R # {}
  <2>1. PICK e \in R : EnvRun(c, e, st, cur)
    BY <1>1, Zenon DEF SchedYield
  <2> QED BY <2>1, EnvRunOk, Zenon
<1>2. CASE R = {} /\ cur # NULL /\ st[cur] = "RUNNING"
  <2>1. EnvRun(c, cur, st, cur) /\ cur \in Slots
    BY <1>2, Zenon DEF SchedYield, Ready
  <2> QED BY <2>1, <1>2, EnvRunOk, Zenon
<1>3. CASE R = {} /\ ~(cur # NULL /\ st[cur] = "RUNNING")
  <2>1. SchedHalt(c, st, cur)
    BY <1>3, Zenon DEF SchedYield
  <2> QED BY <2>1, <1>3, SchedHaltOk, Zenon
<1> QED BY <1>1, <1>2, <1>3, Zenon

\* The return to the current environment at the end of trap().
LEMMA TrapReturnOk ==
  ASSUME SchedTypes, NEW c \in CPUs, NEW st, curenv[c] \in Slots,
         Ready(c, st, curenv[c]), TrapReturn(c, st)
  PROVE  Scheduled(st, curenv[c])
  BY EnvRunOk, SchedYieldOk, Zenon DEF TrapReturn
-----------------------------------------------------------------------------
(***************************************************************************)
(* How a handler enters and leaves.                                        *)
(***************************************************************************)

\* A CPU that traps from a live environment.
LEMMA TrappedReady ==
  ASSUME Inv, NEW c \in CPUs, Trapped(c)
  PROVE  /\ curenv[c] \in Slots /\ env_status[curenv[c]] = "RUNNING"
         /\ Ready(c, env_status, curenv[c])
  BY EnvAssumption
  DEF Inv, TypeOK, Trapped, LockFree, OneCpuPerEnv, IdleHasNone, Busy, OnCpu,
      CpuModes, Ready

\* A CPU without an environment.
LEMMA IdleReady ==
  ASSUME Inv, NEW c \in CPUs, LockFree, cpu[c] \in {"start", "halted"}
  PROVE  Ready(c, env_status, NULL)
  BY EnvAssumption
  DEF Inv, TypeOK, LockFree, OneCpuPerEnv, IdleHasNone, Busy, OnCpu,
      CpuModes, Ready

\* A CPU whose environment is given up: a zombie, or one that destroys itself.
LEMMA GivenUpReady ==
  ASSUME Inv, NEW c \in CPUs, LockFree, cpu[c] = "user"
  PROVE  /\ curenv[c] \in Slots /\ env_status[curenv[c]] # "FREE"
         /\ Ready(c, EnvFreed(curenv[c]), NULL)
<1> USE EnvAssumption DEF Inv, TypeOK, Busy, OnCpu
<1>1. curenv[c] \in Slots /\ env_status[curenv[c]] \in {"RUNNING", "DYING"}
  BY Zenon DEF OneCpuPerEnv
<1> DEFINE st == EnvFreed(curenv[c])
<1>2. /\ st \in [Slots -> Statuses] /\ st[curenv[c]] = "FREE"
      /\ \A e \in Slots : e # curenv[c] => st[e] = env_status[e]
  BY <1>1, Zenon DEF EnvFreed, Statuses
<1> HIDE DEF st
<1>3. ASSUME NEW d \in CPUs \ {c}, curenv[d] # NULL
      PROVE  /\ cpu[d] \in Busy /\ curenv[d] \in Slots \ {curenv[c]}
             /\ st[curenv[d]] \in {"RUNNING", "DYING"}
  <2>1. cpu[d] \in Busy
    BY <1>3, Zenon DEF LockFree, IdleHasNone, CpuModes
  <2> QED BY <2>1, <1>1, <1>2, <1>3 DEF OneCpuPerEnv
<1>4. ASSUME NEW e \in Slots, st[e] \in {"RUNNING", "DYING"}
      PROVE  \E d \in CPUs \ {c} : cpu[d] \in Busy /\ curenv[d] = e
  <2>1. e # curenv[c] /\ env_status[e] \in {"RUNNING", "DYING"}
    BY <1>2, <1>4, Zenon
  <2>2. OneCpuPerEnv
    BY Zenon
  <2>3. \E d \in CPUs : cpu[d] \in Busy /\ curenv[d] = e
    BY <2>1, <2>2, Zenon DEF OneCpuPerEnv
  <2> QED BY <2>1, <2>3, Zenon
<1>5. Ready(c, st, NULL)
  <2>1. \A d \in CPUs \ {c} : curenv[d] # NULL =>
          cpu[d] \in Busy /\ curenv[d] # NULL /\ st[curenv[d]] \in {"RUNNING", "DYING"}
    BY <1>3, Zenon
  <2>2. \A d \in CPUs \ {c} : cpu[d] \in Busy => curenv[d] # NULL
    BY EnvAssumption DEF OneCpuPerEnv
  <2>3. /\ \A d \in CPUs \ {c} : cpu[d] \in {"start", "halted"} => curenv[d] = NULL
        /\ \A d, f \in CPUs \ {c} : d # f /\ curenv[d] = curenv[f] => curenv[d] = NULL
    BY Zenon DEF OneCpuPerEnv, IdleHasNone
  <2> QED BY <1>2, <1>4, <2>1, <2>2, <2>3, Zenon DEF Ready
<1> QED BY <1>1, <1>5, Zenon DEF st

\* The handler changes statuses, but not which environments are on a CPU, apart
\* from its own.
LEMMA ReadySame ==
  ASSUME NEW c \in CPUs, NEW st0, NEW st \in [Slots -> Statuses], NEW cur,
         Ready(c, st0, cur), SchedTypes,
         cur # NULL => st[cur] \in {"RUNNING", "NOT_RUNNABLE"},
         \A e \in Slots : e # cur =>
           (st[e] \in {"RUNNING", "DYING"} <=> st0[e] \in {"RUNNING", "DYING"})
  PROVE  Ready(c, st, cur)
<1>1. ASSUME NEW d \in CPUs \ {c}, curenv[d] # NULL
      PROVE  /\ cpu[d] \in Busy /\ curenv[d] # cur
             /\ st[curenv[d]] \in {"RUNNING", "DYING"}
  <2>1. curenv[d] \in Slots
    BY <1>1, Zenon DEF SchedTypes
  <2> QED BY <1>1, <2>1, Zenon DEF Ready
<1>2. ASSUME NEW e \in Slots, st[e] \in {"RUNNING", "DYING"}
      PROVE  e = cur \/ \E d \in CPUs \ {c} : cpu[d] \in Busy /\ curenv[d] = e
  BY <1>2, Zenon DEF Ready
<1> QED BY <1>1, <1>2, Zenon DEF Ready

\* The handler changes one environment that no CPU runs, without running it.
LEMMA ReadyExcept ==
  ASSUME NEW c \in CPUs, NEW st, NEW cur, Ready(c, st, cur), SchedTypes,
         NEW e \in Slots, NEW s \in {"FREE", "RUNNABLE", "NOT_RUNNABLE"},
         st[e] \notin {"RUNNING", "DYING"}, e # cur
  PROVE  Ready(c, [st EXCEPT ![e] = s], cur)
  BY EnvAssumption DEF Ready, Statuses, SchedTypes

\* SleepersAreAwaited of given statuses, frames and receivers.
SleepersOf(st, tf, recving) ==
  \A e \in Slots : st[e] # "FREE" =>
    /\ recving[e] <=> tf[e] = "recv"
    /\ st[e] = "NOT_RUNNABLE" <=> (st[e] = "NOT_RUNNABLE" /\ tf[e] = "set") \/ recving[e]

OtherTypes ==
  /\ env_gen \in [Slots -> 0 .. MaxGen]
  /\ env_parent_id \in [Slots -> EnvIds]
  /\ env_free_list \in Seq(Slots)
  /\ env_tf \in [Slots -> TrapFrames]
  /\ env_ipc_recving \in [Slots -> BOOLEAN]

LEMMA InvFacts ==
  Inv <=> /\ env_status \in [Slots -> Statuses]
          /\ SchedTypes /\ OtherTypes
          /\ ListIs(env_free_list, env_status)
          /\ OneCpuPerEnv /\ IdleHasNone
          /\ SleepersOf(env_status, env_tf, env_ipc_recving)
  BY Zenon DEF Inv, TypeOK, SchedTypes, OtherTypes, SleepersAreAwaited, SleepersOf, Fresh

LEMMA InvNext ==
  ASSUME env_status' \in [Slots -> Statuses], SchedTypes', OtherTypes',
         ListIs(env_free_list', env_status'), OneCpuPerEnv', IdleHasNone',
         SleepersOf(env_status', env_tf', env_ipc_recving')
  PROVE  Inv'
<1>1. TypeOK'
  BY Zenon DEF TypeOK, SchedTypes, OtherTypes
<1>2. SleepersAreAwaited'
  BY Zenon DEF SleepersAreAwaited, SleepersOf, Fresh
<1>3. ListIs(env_free_list, env_status)'
  BY Zenon DEF ListIs
<1> QED BY <1>1, <1>2, <1>3, Zenon DEF Inv

\* After the scheduler, the invariant is what it was for the statuses st.
LEMMA Leave ==
  ASSUME NEW st, NEW cur, st \in [Slots -> Statuses],
         Scheduled(st, cur), OtherTypes',
         ListIs(env_free_list', st), SleepersOf(st, env_tf', env_ipc_recving')
  PROVE  Inv'
<1>1. /\ env_status' \in [Slots -> Statuses]
      /\ \A e \in Slots : /\ env_status'[e] = "FREE" <=> st[e] = "FREE"
                          /\ env_status'[e] = "NOT_RUNNABLE" <=> st[e] = "NOT_RUNNABLE"
  BY Zenon DEF Scheduled, Switched
<1>2. ListIs(env_free_list', env_status')
  BY <1>1, Zenon DEF ListIs
<1>3. SleepersOf(env_status', env_tf', env_ipc_recving')
  BY <1>1, Zenon DEF SleepersOf
<1>4. SchedTypes' /\ OneCpuPerEnv' /\ IdleHasNone'
  BY Zenon DEF Scheduled
<1> QED BY <1>1, <1>2, <1>3, <1>4, InvNext, Zenon
-----------------------------------------------------------------------------
(***************************************************************************)
(* One lemma per handler.                                                  *)
(***************************************************************************)

\* Saving the frame of a running environment disturbs no sleeper.
LEMMA SaveTfOk ==
  ASSUME Inv, NEW c \in CPUs, Trapped(c)
  PROVE  /\ SaveTf(c) \in [Slots -> TrapFrames]
         /\ SaveTf(c)[curenv[c]] = "trap"
         /\ \A e \in Slots : e # curenv[c] => SaveTf(c)[e] = env_tf[e]
         /\ ~env_ipc_recving[curenv[c]]
         /\ SleepersOf(env_status, SaveTf(c), env_ipc_recving)
<1>1. curenv[c] \in Slots /\ env_status[curenv[c]] = "RUNNING"
  BY TrappedReady, Zenon
<1>2. /\ SaveTf(c) \in [Slots -> TrapFrames]
      /\ SaveTf(c)[curenv[c]] = "trap"
      /\ \A e \in Slots : e # curenv[c] => SaveTf(c)[e] = env_tf[e]
  BY <1>1, Zenon DEF Inv, TypeOK, SaveTf, TrapFrames
<1>3. ~env_ipc_recving[curenv[c]]
  BY <1>1, Zenon DEF Inv, SleepersAreAwaited
<1>4. SleepersOf(env_status, SaveTf(c), env_ipc_recving)
  BY <1>1, <1>2, <1>3, Zenon DEF Inv, SleepersAreAwaited, SleepersOf, Fresh
<1> QED BY <1>2, <1>3, <1>4, Zenon

LEMMA SyscallReturnInv ==
  ASSUME Inv, NEW c \in CPUs, SyscallReturn(c) \/ SysYield(c)
  PROVE  Inv'
<1>1. Trapped(c) /\ UNCHANGED <<envVars, env_ipc_recving>> /\ env_tf' = SaveTf(c)
  BY Zenon DEF SyscallReturn, SysYield
<1>2. SchedTypes /\ OtherTypes /\ ListIs(env_free_list, env_status)
      /\ env_status \in [Slots -> Statuses]
  BY InvFacts, Zenon
<1>3. Scheduled(env_status, curenv[c])
  BY <1>1, <1>2, TrappedReady, TrapReturnOk, SchedYieldOk, Zenon DEF SyscallReturn, SysYield
<1>4. OtherTypes' /\ SleepersOf(env_status, env_tf', env_ipc_recving')
  BY <1>1, <1>2, SaveTfOk, Zenon DEF OtherTypes, envVars
<1> QED BY <1>1, <1>2, <1>3, <1>4, Leave, Zenon DEF envVars

LEMMA IdleInv ==
  ASSUME Inv, NEW c \in CPUs, Start(c) \/ TimerHalted(c)
  PROVE  Inv'
<1>1. /\ UNCHANGED <<envVars, env_ipc_recving, env_tf>>
      /\ SchedYield(c, env_status, NULL) /\ Ready(c, env_status, NULL)
  BY IdleReady, Zenon DEF Start, TimerHalted
<1>2. /\ SchedTypes /\ OtherTypes /\ ListIs(env_free_list, env_status)
      /\ env_status \in [Slots -> Statuses]
      /\ SleepersOf(env_status, env_tf, env_ipc_recving)
  BY InvFacts, Zenon
<1>3. Scheduled(env_status, NULL)
  BY <1>1, <1>2, SchedYieldOk, Zenon
<1>4. OtherTypes' /\ SleepersOf(env_status, env_tf', env_ipc_recving')
  BY <1>1, <1>2, Zenon DEF OtherTypes, envVars
<1> QED BY <1>1, <1>2, <1>3, <1>4, Leave, Zenon DEF envVars

\* env_pop_tf() and the breakpoint only change what the CPU is doing.
LEMMA ModeInv ==
  ASSUME Inv, NEW c \in CPUs, EnvPopTf(c) \/ Breakpoint(c)
  PROVE  Inv'
<1>1. /\ UNCHANGED <<envVars, env_ipc_recving, env_status, curenv>>
      /\ cpu[c] \in OnCpu
      /\ \E m \in {"user", "debug"} : cpu' = [cpu EXCEPT ![c] = m]
  BY Zenon DEF EnvPopTf, Breakpoint, Trapped, OnCpu
<1>2. env_tf' \in [Slots -> TrapFrames]
      /\ SleepersOf(env_status, env_tf', env_ipc_recving)
  BY SaveTfOk, InvFacts, Zenon DEF EnvPopTf, Breakpoint, OtherTypes
<1>3. SchedTypes' /\ OneCpuPerEnv' /\ IdleHasNone'
  BY <1>1 DEF Inv, TypeOK, SchedTypes, OneCpuPerEnv, IdleHasNone, CpuModes, Busy, OnCpu
<1>4. /\ env_status \in [Slots -> Statuses] /\ OtherTypes
      /\ ListIs(env_free_list, env_status)
  BY InvFacts, Zenon
<1>5. OtherTypes' /\ env_status' \in [Slots -> Statuses]
  BY <1>1, <1>2, <1>4, Zenon DEF OtherTypes, envVars
<1>6. ListIs(env_free_list', env_status')
  BY <1>1, <1>4, Zenon DEF ListIs, envVars
<1>7. SleepersOf(env_status', env_tf', env_ipc_recving')
  BY <1>1, <1>2, Zenon DEF SleepersOf
<1> QED BY <1>3, <1>5, <1>6, <1>7, InvNext, Zenon

LEMMA ZombieInv ==
  ASSUME Inv, NEW c \in CPUs, TrapZombie(c)
  PROVE  Inv'
<1> DEFINE st == EnvFreed(curenv[c])
<1>1. /\ UNCHANGED <<env_gen, env_parent_id, env_ipc_recving, env_tf>>
      /\ EnvFree(curenv[c]) /\ SchedYield(c, st, NULL)
      /\ curenv[c] \in Slots /\ env_status[curenv[c]] # "FREE" /\ Ready(c, st, NULL)
  BY GivenUpReady, Zenon DEF TrapZombie
<1>2. /\ SchedTypes /\ OtherTypes /\ ListIs(env_free_list, env_status)
      /\ env_status \in [Slots -> Statuses]
      /\ SleepersOf(env_status, env_tf, env_ipc_recving)
  BY InvFacts, Zenon
<1>3. Scheduled(st, NULL)
  BY <1>1, <1>2, SchedYieldOk, Zenon
<1>4. ListIs(env_free_list', st) /\ env_free_list' \in Seq(Slots)
  BY <1>1, <1>2, ListPush, PushFront, Zenon DEF EnvFree, EnvFreed, OtherTypes
<1>5. st \in [Slots -> Statuses] /\ SleepersOf(st, env_tf, env_ipc_recving)
  BY <1>1, <1>2, Zenon DEF EnvFreed, Statuses, SleepersOf
<1>6. OtherTypes'
  BY <1>1, <1>2, <1>4, Zenon DEF OtherTypes
<1> QED BY <1>1, <1>3, <1>4, <1>5, <1>6, Leave, Zenon

\* What a lookup that succeeds finds: a slot in use.
LEMMA TargetOk ==
  ASSUME Inv, NEW c \in CPUs, Trapped(c), NEW id \in EnvIds, NEW p \in BOOLEAN,
         Envid2env(c, id, p)
  PROVE  Target(c, id) \in Slots /\ env_status[Target(c, id)] # "FREE"
<1>1. curenv[c] \in Slots /\ env_status[curenv[c]] = "RUNNING"
  BY TrappedReady, Zenon
<1> QED BY <1>1, Zenon DEF Target, Envid2env, EnvIds, ZeroId

\* env_destroy() of an environment that is not a zombie of another CPU.
LEMMA DestroyInv ==
  ASSUME Inv, NEW c \in CPUs, NEW id \in EnvIds, SysEnvDestroy(c, id),
         Target(c, id) # curenv[c] => env_status[Target(c, id)] # "DYING"
  PROVE  Inv'
<1> DEFINE e == Target(c, id)
<1>1. /\ Trapped(c) /\ env_tf' = SaveTf(c) /\ EnvDestroy(c, e)
      /\ UNCHANGED <<env_gen, env_parent_id, env_ipc_recving>>
  BY Zenon DEF SysEnvDestroy
<1>2. e \in Slots /\ env_status[e] # "FREE"
  BY <1>1, TargetOk, Zenon DEF SysEnvDestroy
<1>3. /\ curenv[c] \in Slots /\ env_status[curenv[c]] = "RUNNING"
      /\ Ready(c, env_status, curenv[c])
  BY <1>1, TrappedReady, Zenon
<1>4. /\ SchedTypes /\ OtherTypes /\ ListIs(env_free_list, env_status)
      /\ env_status \in [Slots -> Statuses]
  BY InvFacts, Zenon
<1>5. env_tf' \in [Slots -> TrapFrames]
      /\ SleepersOf(env_status, env_tf', env_ipc_recving')
  BY <1>1, SaveTfOk, Zenon
<1> HIDE DEF e
<1>6. ASSUME EnvFree(e)
      PROVE  /\ ListIs(env_free_list', EnvFreed(e)) /\ OtherTypes'
             /\ EnvFreed(e) \in [Slots -> Statuses]
             /\ SleepersOf(EnvFreed(e), env_tf', env_ipc_recving')
  <2>1. ListIs(env_free_list', EnvFreed(e)) /\ env_free_list' \in Seq(Slots)
    BY <1>2, <1>4, <1>6, ListPush, PushFront, Zenon DEF EnvFree, EnvFreed, OtherTypes
  <2>2. EnvFreed(e) \in [Slots -> Statuses]
        /\ SleepersOf(EnvFreed(e), env_tf', env_ipc_recving')
    BY <1>2, <1>4, <1>5, Zenon DEF EnvFreed, Statuses, SleepersOf
  <2> QED BY <2>1, <2>2, <1>1, <1>4, <1>5, Zenon DEF OtherTypes
<1>7. CASE env_status[e] = "RUNNING" /\ e # curenv[c]
  <2> DEFINE st == [env_status EXCEPT ![e] = "DYING"]
  <2>1. TrapReturn(c, st) /\ UNCHANGED env_free_list
    BY <1>1, <1>7, Zenon DEF EnvDestroy
  <2>2. /\ st \in [Slots -> Statuses] /\ st[e] = "DYING"
        /\ \A f \in Slots : f # e => st[f] = env_status[f]
    BY <1>2, <1>4, Zenon DEF Statuses
  <2> HIDE DEF st
  <2>3. Ready(c, st, curenv[c])
    <3>1. curenv[c] # NULL => st[curenv[c]] \in {"RUNNING", "NOT_RUNNABLE"}
      BY <1>3, <1>7, <2>2, Zenon
    <3>2. \A f \in Slots : f # curenv[c] =>
            (st[f] \in {"RUNNING", "DYING"} <=> env_status[f] \in {"RUNNING", "DYING"})
      BY <1>7, <2>2, Zenon
    <3> QED BY <1>3, <1>4, <2>2, <3>1, <3>2, ReadySame, Zenon
  <2>4. Scheduled(st, curenv[c])
    BY <1>3, <1>4, <2>1, <2>3, TrapReturnOk, Zenon
  <2>5. ListIs(env_free_list', st) /\ SleepersOf(st, env_tf', env_ipc_recving')
    <3>1. \A f \in Slots : st[f] = "FREE" <=> env_status[f] = "FREE"
      BY <1>7, <2>2, Zenon
    <3>2. ListIs(env_free_list', st)
      BY <1>4, <2>1, <3>1 DEF ListIs
    <3>3. SleepersOf(st, env_tf', env_ipc_recving')
      BY <1>5, <1>7, <2>2, Zenon DEF SleepersOf
    <3> QED BY <3>2, <3>3, Zenon
  <2>6. OtherTypes'
    BY <1>1, <1>4, <1>5, <2>1, Zenon DEF OtherTypes
  <2> QED BY <2>2, <2>4, <2>5, <2>6, Leave, Zenon
<1>8. CASE env_status[e] # "RUNNING" /\ e # curenv[c]
  <2>1. EnvFree(e) /\ TrapReturn(c, EnvFreed(e))
    BY <1>1, <1>8, Zenon DEF EnvDestroy
  <2>2. Ready(c, EnvFreed(e), curenv[c])
    BY <1>2, <1>3, <1>4, <1>8, ReadyExcept, Zenon DEF EnvFreed, e
  <2>3. Scheduled(EnvFreed(e), curenv[c])
    BY <1>3, <1>4, <2>1, <2>2, TrapReturnOk, Zenon
  <2> QED BY <2>1, <2>3, <1>6, Leave, Zenon
<1>9. CASE e = curenv[c]
  <2>1. EnvFree(e) /\ SchedYield(c, EnvFreed(e), NULL)
    BY <1>1, <1>9, Zenon DEF EnvDestroy
  <2>2. Ready(c, EnvFreed(e), NULL)
    BY <1>1, <1>9, GivenUpReady, Zenon DEF Trapped
  <2>3. Scheduled(EnvFreed(e), NULL)
    BY <1>4, <2>1, <2>2, SchedYieldOk, Zenon
  <2> QED BY <2>1, <2>3, <1>6, Leave, Zenon
<1> QED BY <1>7, <1>8, <1>9, Zenon

LEMMA ExoforkInv ==
  ASSUME Inv, NEW c \in CPUs, SysExofork(c)
  PROVE  Inv'
<1> DEFINE e == Head(env_free_list)
           st == [env_status EXCEPT ![e] = "NOT_RUNNABLE"]
<1>1. /\ Trapped(c) /\ env_free_list # << >>
      /\ env_free_list' = Tail(env_free_list)
      /\ env_gen' = [env_gen EXCEPT ![e] = NextGen(@)]
      /\ env_parent_id' = [env_parent_id EXCEPT ![e] = EnvId(curenv[c])]
      /\ env_ipc_recving' = [env_ipc_recving EXCEPT ![e] = FALSE]
      /\ env_tf' = [SaveTf(c) EXCEPT ![e] = "set"]
      /\ TrapReturn(c, st)
  BY Zenon DEF SysExofork, EnvAlloc
<1>2. /\ SchedTypes /\ OtherTypes /\ ListIs(env_free_list, env_status)
      /\ env_status \in [Slots -> Statuses]
  BY InvFacts, Zenon
<1>3. /\ e \in Slots /\ env_status[e] = "FREE"
      /\ Tail(env_free_list) \in Seq(Slots) /\ ListIs(Tail(env_free_list), st)
  BY <1>1, <1>2, ListPop, PopFront, Zenon DEF OtherTypes
<1>4. /\ curenv[c] \in Slots /\ env_status[curenv[c]] = "RUNNING"
      /\ Ready(c, env_status, curenv[c])
  BY <1>1, TrappedReady, Zenon
<1> HIDE DEF e
<1>5. Ready(c, st, curenv[c])
  BY <1>2, <1>3, <1>4, ReadyExcept, Zenon
<1>6. Scheduled(st, curenv[c])
  BY <1>1, <1>2, <1>4, <1>5, TrapReturnOk, Zenon
<1>7. st \in [Slots -> Statuses]
  BY <1>2, Zenon DEF Statuses
<1>8. OtherTypes'
  <2>1. env_gen' \in [Slots -> 0 .. MaxGen]
    <3>1. \A g \in 0 .. MaxGen : NextGen(g) \in 0 .. MaxGen
      BY EnvAssumption DEF NextGen
    <3>2. env_gen \in [Slots -> 0 .. MaxGen]
          /\ env_gen' = [env_gen EXCEPT ![e] = NextGen(env_gen[e])]
      BY <1>1, <1>2, Zenon DEF OtherTypes
    <3> QED BY <3>1, <3>2, <1>3, Zenon
  <2>2. EnvId(curenv[c]) \in EnvIds
    BY <1>2, <1>4, Zenon DEF OtherTypes, EnvId, EnvIds
  <2>3. env_parent_id' \in [Slots -> EnvIds]
    BY <2>2, <1>1, <1>2, Zenon DEF OtherTypes
  <2>4. SaveTf(c) \in [Slots -> TrapFrames]
    BY <1>1, SaveTfOk, Zenon
  <2>5. env_tf' \in [Slots -> TrapFrames]
    BY <2>4, <1>1, Zenon DEF TrapFrames
  <2>6. env_ipc_recving' \in [Slots -> BOOLEAN]
    BY <1>1, <1>2, Zenon DEF OtherTypes
  <2> QED BY <2>1, <2>3, <2>5, <2>6, <1>1, <1>3, Zenon DEF OtherTypes
<1>9. SleepersOf(st, env_tf', env_ipc_recving')
  <2>1. /\ SleepersOf(env_status, SaveTf(c), env_ipc_recving)
        /\ SaveTf(c) \in [Slots -> TrapFrames]
    BY <1>1, SaveTfOk, Zenon
  <2> QED BY <2>1, <1>1, <1>2, <1>3, Zenon DEF SleepersOf, OtherTypes
<1> QED BY <1>1, <1>3, <1>6, <1>7, <1>8, <1>9, Leave, Zenon

\* fork() and spawn() make a child they have set up runnable.
LEMMA ForkEndInv ==
  ASSUME Inv, NEW c \in CPUs, NEW id \in EnvIds, ForkEnd(c, id)
  PROVE  Inv'
<1> DEFINE e == id[2]
           st == [env_status EXCEPT ![e] = "RUNNABLE"]
<1>1. /\ Trapped(c) /\ env_tf' = SaveTf(c) /\ TrapReturn(c, st)
      /\ UNCHANGED <<envVars, env_ipc_recving>> /\ Fresh(e) /\ e \in Slots
  BY Zenon DEF ForkEnd, SysEnvSetStatus, Target, EnvIds
<1>2. /\ SchedTypes /\ OtherTypes /\ ListIs(env_free_list, env_status)
      /\ env_status \in [Slots -> Statuses]
      /\ SleepersOf(env_status, env_tf, env_ipc_recving)
  BY InvFacts, Zenon
<1>3. /\ curenv[c] \in Slots /\ env_status[curenv[c]] = "RUNNING"
      /\ Ready(c, env_status, curenv[c])
  BY <1>1, TrappedReady, Zenon
<1> HIDE DEF e
<1>4. Ready(c, st, curenv[c])
  BY <1>1, <1>2, <1>3, ReadyExcept, Zenon DEF Fresh
<1>5. Scheduled(st, curenv[c])
  BY <1>1, <1>2, <1>3, <1>4, TrapReturnOk, Zenon
<1>6. st \in [Slots -> Statuses] /\ ListIs(env_free_list', st)
  BY <1>1, <1>2 DEF Statuses, ListIs, Fresh, envVars
<1>7. SleepersOf(st, env_tf', env_ipc_recving')
  <2>1. /\ SleepersOf(env_status, SaveTf(c), env_ipc_recving)
        /\ SaveTf(c)[e] = "set" /\ ~env_ipc_recving[e]
    BY <1>1, <1>2, <1>3, SaveTfOk, Zenon DEF Fresh, SleepersOf
  <2> QED BY <2>1, <1>1, <1>2, Zenon DEF SleepersOf
<1>8. OtherTypes'
  BY <1>1, <1>2, SaveTfOk, Zenon DEF OtherTypes, envVars
<1> QED BY <1>5, <1>6, <1>7, <1>8, Leave, Zenon

LEMMA SetTrapframeInv ==
  ASSUME Inv, NEW c \in CPUs, NEW id \in EnvIds, SpawnSetTrapframe(c, id)
  PROVE  Inv'
<1> DEFINE e == id[2]
<1>1. /\ Trapped(c) /\ env_tf' = [SaveTf(c) EXCEPT ![e] = "set"]
      /\ TrapReturn(c, env_status)
      /\ UNCHANGED <<envVars, env_ipc_recving>> /\ Fresh(e) /\ e \in Slots
  BY Zenon DEF SpawnSetTrapframe, SysEnvSetTrapframe, Target, EnvIds
<1>2. /\ SchedTypes /\ OtherTypes /\ ListIs(env_free_list, env_status)
      /\ env_status \in [Slots -> Statuses]
  BY InvFacts, Zenon
<1>3. /\ SaveTf(c) \in [Slots -> TrapFrames]
      /\ SleepersOf(env_status, SaveTf(c), env_ipc_recving)
      /\ \A f \in Slots : f # curenv[c] => SaveTf(c)[f] = env_tf[f]
  BY <1>1, SaveTfOk, Zenon
<1>4. curenv[c] \in Slots /\ env_status[curenv[c]] = "RUNNING"
  BY <1>1, TrappedReady, Zenon
<1>5. Scheduled(env_status, curenv[c])
  BY <1>1, <1>2, <1>4, TrappedReady, TrapReturnOk, Zenon
<1> HIDE DEF e
<1>6. env_tf' = SaveTf(c)
  BY <1>1, <1>3, <1>4, Zenon DEF Fresh
<1>7. OtherTypes' /\ SleepersOf(env_status, env_tf', env_ipc_recving')
  BY <1>1, <1>2, <1>3, <1>6, Zenon DEF OtherTypes, envVars
<1> QED BY <1>1, <1>2, <1>5, <1>7, Leave, Zenon DEF envVars

LEMMA RecvInv ==
  ASSUME Inv, NEW c \in CPUs, SysIpcRecv(c)
  PROVE  Inv'
<1> DEFINE e == curenv[c]
           st == [env_status EXCEPT ![e] = "NOT_RUNNABLE"]
<1>1. /\ Trapped(c) /\ SchedYield(c, st, e) /\ UNCHANGED envVars
      /\ env_ipc_recving' = [env_ipc_recving EXCEPT ![e] = TRUE]
      /\ env_tf' = [env_tf EXCEPT ![e] = "recv"]
  BY Zenon DEF SysIpcRecv
<1>2. /\ SchedTypes /\ OtherTypes /\ ListIs(env_free_list, env_status)
      /\ env_status \in [Slots -> Statuses]
      /\ SleepersOf(env_status, env_tf, env_ipc_recving)
  BY InvFacts, Zenon
<1>3. e \in Slots /\ env_status[e] = "RUNNING" /\ Ready(c, env_status, e)
  BY <1>1, TrappedReady, Zenon
<1>4. /\ st \in [Slots -> Statuses] /\ st[e] = "NOT_RUNNABLE"
      /\ \A f \in Slots : f # e => st[f] = env_status[f]
  BY <1>2, <1>3, Zenon DEF Statuses
<1> HIDE DEF st
<1>5. Ready(c, st, e)
  <2>1. \A f \in Slots : f # e =>
          (st[f] \in {"RUNNING", "DYING"} <=> env_status[f] \in {"RUNNING", "DYING"})
    BY <1>4, Zenon
  <2> QED BY <1>2, <1>3, <1>4, <2>1, ReadySame, Zenon
<1>6. Scheduled(st, e)
  BY <1>1, <1>2, <1>5, SchedYieldOk, Zenon
<1>7. ListIs(env_free_list', st)
  BY <1>1, <1>2, <1>3, <1>4 DEF ListIs, envVars
<1>8. SleepersOf(st, env_tf', env_ipc_recving')
  BY <1>1, <1>2, <1>3, <1>4 DEF SleepersOf, OtherTypes
<1>9. env_tf' \in [Slots -> TrapFrames]
  BY <1>1, <1>2, Zenon DEF OtherTypes, TrapFrames
<1>10. env_ipc_recving' \in [Slots -> BOOLEAN]
  BY <1>1, <1>2, Zenon DEF OtherTypes
<1>11. OtherTypes'
  BY <1>1, <1>2, <1>9, <1>10, Zenon DEF OtherTypes, envVars
<1> QED BY <1>4, <1>6, <1>7, <1>8, <1>11, Leave, Zenon

LEMMA SendInv ==
  ASSUME Inv, NEW c \in CPUs, NEW id \in EnvIds, SysIpcTrySend(c, id)
  PROVE  Inv'
<1> DEFINE e == Target(c, id)
           st == [env_status EXCEPT ![e] = "RUNNABLE"]
<1>1. /\ Trapped(c) /\ TrapReturn(c, st) /\ UNCHANGED envVars
      /\ env_ipc_recving[e]
      /\ env_ipc_recving' = [env_ipc_recving EXCEPT ![e] = FALSE]
      /\ env_tf' = [SaveTf(c) EXCEPT ![e] = "ipc"]
  BY Zenon DEF SysIpcTrySend
<1>2. e \in Slots /\ env_status[e] # "FREE"
  BY <1>1, TargetOk, Zenon DEF SysIpcTrySend
<1>3. /\ SchedTypes /\ OtherTypes /\ ListIs(env_free_list, env_status)
      /\ env_status \in [Slots -> Statuses]
      /\ SleepersOf(env_status, env_tf, env_ipc_recving)
  BY InvFacts, Zenon
<1>4. /\ curenv[c] \in Slots /\ env_status[curenv[c]] = "RUNNING"
      /\ Ready(c, env_status, curenv[c])
  BY <1>1, TrappedReady, Zenon
<1>5. /\ SaveTf(c) \in [Slots -> TrapFrames]
      /\ SleepersOf(env_status, SaveTf(c), env_ipc_recving)
  BY <1>1, SaveTfOk, Zenon
<1> HIDE DEF e
<1>6. env_status[e] = "NOT_RUNNABLE"
  BY <1>1, <1>2, <1>3, Zenon DEF SleepersOf
<1>7. Ready(c, st, curenv[c])
  BY <1>2, <1>3, <1>4, <1>6, ReadyExcept, Zenon
<1>8. Scheduled(st, curenv[c])
  BY <1>1, <1>3, <1>4, <1>7, TrapReturnOk, Zenon
<1>9. /\ st \in [Slots -> Statuses] /\ st[e] = "RUNNABLE"
      /\ \A f \in Slots : f # e => st[f] = env_status[f]
  BY <1>2, <1>3, Zenon DEF Statuses
<1> HIDE DEF st
<1>10. ListIs(env_free_list', st)
  BY <1>1, <1>2, <1>3, <1>9 DEF ListIs, envVars
<1>11. SleepersOf(st, env_tf', env_ipc_recving')
  <2>1. /\ env_tf'[e] = "ipc" /\ ~env_ipc_recving'[e]
        /\ \A f \in Slots : f # e => /\ env_tf'[f] = SaveTf(c)[f]
                                    /\ env_ipc_recving'[f] = env_ipc_recving[f]
    BY <1>1, <1>2, <1>3, <1>5, Zenon DEF OtherTypes
  <2> QED BY <1>5, <1>9, <2>1 DEF SleepersOf
<1>12. env_tf' \in [Slots -> TrapFrames]
  BY <1>1, <1>5, Zenon DEF TrapFrames
<1>13. env_ipc_recving' \in [Slots -> BOOLEAN]
  BY <1>1, <1>3, Zenon DEF OtherTypes
<1>14. OtherTypes'
  BY <1>1, <1>3, <1>12, <1>13, Zenon DEF OtherTypes, envVars
<1> QED BY <1>8, <1>9, <1>10, <1>11, <1>14, Leave, Zenon
-----------------------------------------------------------------------------
LEMMA InitInv == Init => Inv
<1> SUFFICES ASSUME Init PROVE Inv
  BY Zenon
<1> USE EnvAssumption DEF Init
<1>1. TypeOK
  BY DEF TypeOK, Slots, Statuses, EnvIds, ZeroId, TrapFrames, CpuModes
<1>2. /\ Len(env_free_list) = NENV - InitEnvs
      /\ \A i \in 1 .. NENV - InitEnvs : env_free_list[i] = InitEnvs + i - 1
  BY <1>1 DEF TypeOK
<1>3. ListIs(env_free_list, env_status)
  <2>1. ASSUME NEW e \in Slots, env_status[e] = "FREE"
        PROVE  \E i \in 1 .. NENV - InitEnvs : env_free_list[i] = e
    <3>1. e - InitEnvs + 1 \in 1 .. NENV - InitEnvs
      BY <2>1 DEF Slots
    <3> QED BY <3>1, <1>2 DEF Slots
  <2>2. ASSUME NEW e \in Slots, NEW i \in 1 .. NENV - InitEnvs, env_free_list[i] = e
        PROVE  env_status[e] = "FREE"
    BY <2>2, <1>2 DEF Slots
  <2>3. ASSUME NEW i \in 1 .. NENV - InitEnvs, NEW j \in 1 .. NENV - InitEnvs,
               env_free_list[i] = env_free_list[j]
        PROVE  i = j
    BY <2>3, <1>2
  <2>4. Len(env_free_list) = NENV - InitEnvs
    BY <1>2, Zenon
  <2> HIDE DEF Init
  <2> QED BY <2>1, <2>2, <2>3, <2>4, Zenon DEF ListIs
<1>4. OneCpuPerEnv /\ IdleHasNone
  BY Zenon DEF OneCpuPerEnv, IdleHasNone, Busy, OnCpu
<1>5. SleepersAreAwaited
  BY Zenon DEF SleepersAreAwaited, Fresh
<1> QED BY <1>1, <1>3, <1>4, <1>5, Zenon DEF Inv

LEMMA NextInv == Inv /\ [LibNext]_vars => Inv'
<1> SUFFICES ASSUME Inv, [LibNext]_vars PROVE Inv'
  BY Zenon
<1>1. CASE UNCHANGED vars
  BY <1>1
  DEF vars, envVars, schedVars, Inv, TypeOK, ListIs, OneCpuPerEnv, IdleHasNone,
      SleepersAreAwaited, Fresh
<1>2. ASSUME NEW c \in CPUs, KernelStep(c) PROVE Inv'
  BY <1>2, IdleInv, ModeInv, ZombieInv, SyscallReturnInv, RecvInv, SendInv, Zenon
  DEF KernelStep
<1>3. ASSUME NEW c \in CPUs, SysExofork(c) PROVE Inv'
  BY <1>3, ExoforkInv, Zenon
<1>4. ASSUME NEW c \in CPUs, Exit(c) PROVE Inv'
  <2>1. ZeroId \in EnvIds /\ Target(c, ZeroId) = curenv[c]
    BY EnvAssumption DEF ZeroId, EnvIds, Target, Slots
  <2> QED BY <2>1, <1>4, DestroyInv, Zenon DEF Exit, Fault
<1>5. ASSUME NEW c \in CPUs, NEW id \in EnvIds, KillChild(c, id) PROVE Inv'
  <2>1. SysEnvDestroy(c, id) /\ env_status[Target(c, id)] # "DYING"
    BY <1>5, Zenon DEF KillChild, Target
  <2> QED BY <2>1, DestroyInv, Zenon
<1> QED
  BY <1>1, <1>2, <1>3, <1>4, <1>5, ForkEndInv, SetTrapframeInv, Zenon DEF LibNext
-----------------------------------------------------------------------------
(***************************************************************************)
(* The monitor.  Once a CPU is in it the lock is never free again, so only *)
(* the step that enters it has to be looked at.                            *)
(***************************************************************************)
NoPanic == \A c \in CPUs : cpu[c] # "panic"

Quiet ==
  (\E c \in CPUs : cpu[c] = "monitor") =>
    \A e \in Slots : env_status[e] \in {"FREE", "NOT_RUNNABLE"}

LEMMA QuietYield ==
  ASSUME SchedTypes, LockFree, NEW c \in CPUs, NEW st \in [Slots -> Statuses], NEW cur,
         SchedYield(c, st, cur)
  PROVE  NoPanic' /\ Quiet'
<1>1. PICK x \in {"pop", "halted", "monitor"} :
               /\ cpu' = [cpu EXCEPT ![c] = x]
               /\ x = "monitor" =>
                    /\ env_status' = st
                    /\ \A e \in Slots : st[e] \notin {"RUNNABLE", "RUNNING", "DYING"}
  BY Zenon DEF SchedYield, SchedHalt, EnvRun
<1>2. \A d \in CPUs : cpu'[d] = IF d = c THEN x ELSE cpu[d]
  BY <1>1, Zenon DEF SchedTypes
<1>3. NoPanic'
  BY <1>1, <1>2, Zenon DEF NoPanic, LockFree
<1>4. ASSUME NEW d \in CPUs, cpu'[d] = "monitor" PROVE x = "monitor"
  BY <1>2, <1>4, Zenon DEF LockFree
<1>5. x = "monitor" => \A e \in Slots : env_status'[e] \in {"FREE", "NOT_RUNNABLE"}
  BY <1>1, Zenon DEF Statuses
<1> QED BY <1>3, <1>4, <1>5, Zenon DEF Quiet

LEMMA QuietReturn ==
  ASSUME SchedTypes, LockFree, NEW c \in CPUs, NEW st \in [Slots -> Statuses],
         TrapReturn(c, st)
  PROVE  NoPanic' /\ Quiet'
<1>1. CASE EnvRun(c, curenv[c], st, curenv[c])
  BY <1>1, Zenon DEF EnvRun, NoPanic, Quiet, LockFree, SchedTypes
<1>2. CASE SchedYield(c, st, curenv[c])
  BY <1>2, QuietYield, Zenon
<1> QED BY <1>1, <1>2, Zenon DEF TrapReturn

LEMMA NextQuiet == Inv /\ NoPanic /\ Quiet /\ [LibNext]_vars => NoPanic' /\ Quiet'
<1> SUFFICES ASSUME Inv, NoPanic, Quiet, [LibNext]_vars PROVE NoPanic' /\ Quiet'
  BY Zenon
<1>1. SchedTypes /\ env_status \in [Slots -> Statuses]
  BY InvFacts, Zenon
<1>2. \A e, s : s \in Statuses => [env_status EXCEPT ![e] = s] \in [Slots -> Statuses]
  BY <1>1, Zenon
<1> USE <1>1
<1>3. CASE UNCHANGED vars
  BY <1>3, Zenon DEF vars, schedVars, NoPanic, Quiet
<1>4. ASSUME NEW c \in CPUs, EnvPopTf(c) PROVE NoPanic' /\ Quiet'
  BY <1>4, Zenon DEF EnvPopTf, NoPanic, Quiet, SchedTypes
<1>5. ASSUME NEW c \in CPUs, Breakpoint(c) PROVE NoPanic' /\ Quiet'
  BY <1>5, Zenon DEF Breakpoint, Trapped, LockFree, NoPanic, Quiet, SchedTypes
<1>6. ASSUME NEW c \in CPUs, LockFree, NEW st \in [Slots -> Statuses],
             TrapReturn(c, st) \/ \E cur : SchedYield(c, st, cur)
      PROVE  NoPanic' /\ Quiet'
  BY <1>6, QuietYield, QuietReturn, Zenon
<1>7. ASSUME NEW c \in CPUs, Start(c) \/ TimerHalted(c) \/ SyscallReturn(c) \/ SysYield(c)
      PROVE  NoPanic' /\ Quiet'
  BY <1>6, <1>7, Zenon DEF Start, TimerHalted, SyscallReturn, SysYield, Trapped
<1>8. ASSUME NEW c \in CPUs, TrapZombie(c) PROVE NoPanic' /\ Quiet'
  BY <1>2, <1>6, <1>8, Zenon DEF TrapZombie, EnvFreed, Statuses
<1>9. ASSUME NEW c \in CPUs, SysIpcRecv(c) PROVE NoPanic' /\ Quiet'
  BY <1>2, <1>6, <1>9, Zenon DEF SysIpcRecv, Trapped, Statuses
<1>10. ASSUME NEW c \in CPUs, NEW id, SysIpcTrySend(c, id) PROVE NoPanic' /\ Quiet'
  BY <1>2, <1>6, <1>10, Zenon DEF SysIpcTrySend, Trapped, Statuses
<1>11. ASSUME NEW c \in CPUs, SysExofork(c) PROVE NoPanic' /\ Quiet'
  BY <1>2, <1>6, <1>11, Zenon DEF SysExofork, EnvAlloc, Trapped, Statuses
<1>12. ASSUME NEW c \in CPUs, NEW id, SysEnvDestroy(c, id) PROVE NoPanic' /\ Quiet'
  BY <1>2, <1>6, <1>12, Zenon DEF SysEnvDestroy, EnvDestroy, EnvFreed, Trapped, Statuses
<1>13. ASSUME NEW c \in CPUs, NEW id, ForkEnd(c, id) PROVE NoPanic' /\ Quiet'
  BY <1>2, <1>6, <1>13, Zenon DEF ForkEnd, SysEnvSetStatus, Trapped, Statuses
<1>14. ASSUME NEW c \in CPUs, NEW id, SpawnSetTrapframe(c, id) PROVE NoPanic' /\ Quiet'
  BY <1>6, <1>14, Zenon DEF SpawnSetTrapframe, SysEnvSetTrapframe, Trapped
<1> QED
  BY <1>3, <1>4, <1>5, <1>7, <1>8, <1>9, <1>10, <1>11, <1>12, <1>13, <1>14, Zenon
  DEF LibNext, KernelStep, Exit, Fault, KillChild

LEMMA Idle == Inv /\ NoPanic /\ Quiet => MonitorOnlyWhenIdle
<1> SUFFICES ASSUME Inv, NoPanic, Quiet, NEW c \in CPUs, cpu[c] = "monitor"
             PROVE  /\ \A d \in CPUs : cpu[d] \in {"monitor", "halted", "start"}
                    /\ \A e \in Slots : env_status[e] \in {"FREE", "NOT_RUNNABLE"}
  BY Zenon DEF MonitorOnlyWhenIdle
<1>1. \A e \in Slots : env_status[e] \in {"FREE", "NOT_RUNNABLE"}
  BY Zenon DEF Quiet
<1>2. \A d \in CPUs : cpu[d] \notin Busy
  BY <1>1, Zenon DEF Inv, OneCpuPerEnv
<1>3. \A d \in CPUs : cpu[d] \in CpuModes \ {"panic"}
  BY Zenon DEF Inv, TypeOK, NoPanic
<1> QED BY <1>1, <1>2, <1>3, Zenon DEF CpuModes, Busy, OnCpu
-----------------------------------------------------------------------------
LEMMA Invariance == LibSpec => [](Inv /\ NoPanic /\ Quiet)
<1>1. Init => NoPanic /\ Quiet
  BY Zenon DEF Init, NoPanic, Quiet
<1> QED BY <1>1, InitInv, NextInv, NextQuiet, PTL DEF LibSpec

\* The variables of Env keep their types: an env_id never leaves its range,
\* whatever the generation, and a CPU that has an environment has a real one.
THEOREM EnvTypes == LibSpec => []TypeOK
  BY Invariance, PTL DEF Inv

\* The free list of env.c is exact on any number of CPUs.
THEOREM FreeListCorrect == LibSpec => []FreeListExact
<1>1. ASSUME Inv PROVE FreeListExact
  <2>1. DOMAIN env_free_list = 1 .. Len(env_free_list)
    BY <1>1 DEF Inv, TypeOK
  <2> QED BY <1>1, <2>1, Zenon DEF Inv, ListIs, FreeListExact
<1> QED BY <1>1, Invariance, PTL

\* No environment is ever on two CPUs, and none that runs has been freed, for
\* programs that use the environment system calls as the library does.
THEOREM ScheduledOnce == LibSpec => []OneCpuPerEnv
  BY Invariance, PTL DEF Inv

\* No wake-up is lost between sys_ipc_recv and sys_ipc_try_send.
THEOREM WakeupsKept == LibSpec => []SleepersAreAwaited
  BY Invariance, PTL DEF Inv

\* sched_halt() enters the monitor only when the whole machine is idle.
THEOREM MonitorIdle == LibSpec => []MonitorOnlyWhenIdle
  BY Idle, Invariance, PTL
-----------------------------------------------------------------------------
(***************************************************************************)
(* Who writes a trap frame: the trapping environment's own, or that of an  *)
(* environment that is on no CPU.                                          *)
(***************************************************************************)
Asleep(e) == env_status[e] \in {"FREE", "NOT_RUNNABLE"}

LEMMA FrameWriters ==
  ASSUME Inv, LibNext
  PROVE  \/ env_tf' = env_tf
         \/ \E c \in CPUs : /\ cpu[c] = "user"
                            /\ \A e \in Slots : env_tf'[e] # env_tf[e] =>
                                 e = curenv[c] \/ Asleep(e)
<1> DEFINE Writes(c) == /\ cpu[c] = "user"
                        /\ \A e \in Slots : env_tf'[e] # env_tf[e] =>
                             e = curenv[c] \/ Asleep(e)
<1>1. ASSUME NEW c \in CPUs, Trapped(c), env_tf' = SaveTf(c) PROVE Writes(c)
  BY <1>1, SaveTfOk, Zenon DEF Trapped
<1>2. ASSUME NEW c \in CPUs, Trapped(c), NEW x \in Slots, Asleep(x), NEW f,
             env_tf' = [SaveTf(c) EXCEPT ![x] = f]
      PROVE  Writes(c)
  BY <1>2, SaveTfOk, Zenon DEF Trapped
<1>3. CASE \E c \in CPUs : Start(c) \/ EnvPopTf(c) \/ TimerHalted(c) \/ TrapZombie(c)
  BY <1>3, Zenon DEF Start, EnvPopTf, TimerHalted, TrapZombie
<1>4. ASSUME NEW c \in CPUs, NEW id,
             \/ SyscallReturn(c) \/ SysYield(c) \/ Breakpoint(c)
             \/ SysEnvDestroy(c, id) \/ ForkEnd(c, id)
      PROVE  Writes(c)
  BY <1>1, <1>4, Zenon
  DEF SyscallReturn, SysYield, Breakpoint, SysEnvDestroy, ForkEnd, SysEnvSetStatus
<1>5. ASSUME NEW c \in CPUs, SysIpcRecv(c) PROVE Writes(c)
  <2>1. Trapped(c) /\ env_tf' = [env_tf EXCEPT ![curenv[c]] = "recv"]
    BY <1>5, Zenon DEF SysIpcRecv
  <2> QED BY <2>1, Zenon DEF Trapped, Inv, TypeOK
<1>6. ASSUME NEW c \in CPUs, SysExofork(c) PROVE Writes(c)
  <2>1. Head(env_free_list) \in Slots /\ Asleep(Head(env_free_list))
    BY <1>6, ListPop, PopFront, Zenon DEF SysExofork, EnvAlloc, Inv, TypeOK, Asleep
  <2> QED BY <2>1, <1>2, <1>6, Zenon DEF SysExofork, EnvAlloc
<1>7. ASSUME NEW c \in CPUs, NEW id \in EnvIds, SysIpcTrySend(c, id) PROVE Writes(c)
  <2> DEFINE e == Target(c, id)
  <2>1. Trapped(c) /\ env_ipc_recving[e] /\ env_tf' = [SaveTf(c) EXCEPT ![e] = "ipc"]
    BY <1>7, Zenon DEF SysIpcTrySend
  <2>2. e \in Slots /\ env_status[e] # "FREE"
    BY <1>7, <2>1, TargetOk, Zenon DEF SysIpcTrySend
  <2>3. Asleep(e)
    BY <2>1, <2>2, Zenon DEF Inv, SleepersAreAwaited, Asleep
  <2> QED BY <2>1, <2>2, <2>3, <1>2, Zenon
<1>8. ASSUME NEW c \in CPUs, NEW id \in EnvIds, SpawnSetTrapframe(c, id) PROVE Writes(c)
  <2>1. /\ Trapped(c) /\ id[2] \in Slots /\ Asleep(id[2])
        /\ env_tf' = [SaveTf(c) EXCEPT ![id[2]] = "set"]
    BY <1>8, Zenon DEF SpawnSetTrapframe, SysEnvSetTrapframe, Target, EnvIds, Fresh, Asleep
  <2> QED BY <2>1, <1>2, Zenon
<1> QED
  BY <1>3, <1>4, <1>5, <1>6, <1>7, <1>8, Zenon DEF LibNext, KernelStep, Exit, Fault, KillChild

\* The frame that env_pop_tf() reads without the lock is not written under it.
THEOREM FrameStable == LibSpec => TrapframeStable
<1>1. ASSUME Inv, [LibNext]_vars, NEW c \in CPUs, cpu[c] = "pop"
      PROVE  env_tf'[curenv[c]] = env_tf[curenv[c]]
  <2>1. curenv[c] \in Slots /\ env_status[curenv[c]] \in {"RUNNING", "DYING"}
    BY <1>1, Zenon DEF Inv, OneCpuPerEnv, Busy, OnCpu
  <2>2. CASE UNCHANGED vars
    BY <2>2, Zenon DEF vars
  <2>3. ASSUME NEW d \in CPUs, cpu[d] = "user"
        PROVE  curenv[c] # curenv[d]
    BY <1>1, <2>1, <2>3, EnvAssumption, Zenon DEF Inv, OneCpuPerEnv
  <2>4. CASE LibNext
    BY <1>1, <2>1, <2>3, <2>4, FrameWriters, Zenon DEF Asleep
  <2> QED BY <1>1, <2>2, <2>4, Zenon
<1>2. Inv /\ [LibNext]_vars => \A c \in CPUs :
        cpu[c] = "pop" => env_tf'[curenv[c]] = env_tf[curenv[c]]
  BY <1>1, Zenon
<1> QED BY <1>2, Invariance, PTL DEF LibSpec, TrapframeStable
-----------------------------------------------------------------------------
\* The scheduler leaves a sleeper asleep.
LEMMA YieldKeepsSleepers ==
  ASSUME NEW c \in CPUs, NEW st \in [Slots -> Statuses],
         NEW e \in Slots, st[e] = "NOT_RUNNABLE",
         TrapReturn(c, st) \/ \E cur : SchedYield(c, st, cur)
  PROVE  env_status'[e] = "NOT_RUNNABLE"
<1>1. ASSUME NEW cur, NEW r, EnvRun(c, r, st, cur), r = cur \/ st[r] = "RUNNABLE"
      PROVE  env_status'[e] = "NOT_RUNNABLE"
  BY <1>1, Zenon DEF EnvRun
<1>2. ASSUME NEW cur, SchedYield(c, st, cur) PROVE env_status'[e] = "NOT_RUNNABLE"
  BY <1>1, <1>2, Zenon DEF SchedYield, SchedHalt
<1> QED BY <1>1, <1>2, Zenon DEF TrapReturn

\* A lookup with checkperm that finds another environment finds a child.
LEMMA ChildOf ==
  ASSUME NEW c \in CPUs, NEW id, Envid2env(c, id, TRUE), Target(c, id) # curenv[c]
  PROVE  env_parent_id[Target(c, id)] = EnvId(curenv[c])
  BY Zenon DEF Envid2env, Target

LEMMA FreshStep ==
  ASSUME Inv, LibNext, NEW e \in Slots, Fresh(e)
  PROVE  /\ env_gen'[e] = env_gen[e] /\ env_parent_id'[e] = env_parent_id[e]
         /\ env_status'[e] # env_status[e] =>
              \E c \in CPUs : cpu[c] = "user" /\ EnvId(curenv[c]) = env_parent_id[e]
<1> DEFINE Keeps == env_gen'[e] = env_gen[e] /\ env_parent_id'[e] = env_parent_id[e]
           Mine == \E c \in CPUs : cpu[c] = "user" /\ EnvId(curenv[c]) = env_parent_id[e]
           Asleep2 == env_status'[e] = "NOT_RUNNABLE"
<1>1. /\ env_status[e] = "NOT_RUNNABLE" /\ env_tf[e] = "set"
      /\ env_status \in [Slots -> Statuses] /\ ~env_ipc_recving[e]
  BY Zenon DEF Fresh, Inv, TypeOK, SleepersAreAwaited
<1>2. ASSUME NEW c \in CPUs, Trapped(c) \/ cpu[c] = "user" PROVE curenv[c] # e
  BY <1>1, <1>2, Zenon DEF Trapped, Inv, OneCpuPerEnv, Busy, OnCpu
<1>3. ASSUME NEW c \in CPUs, NEW f, NEW s \in Statuses, f # e,
             \/ TrapReturn(c, [env_status EXCEPT ![f] = s])
             \/ \E cur : SchedYield(c, [env_status EXCEPT ![f] = s], cur)
      PROVE  Asleep2
  <2>1. [env_status EXCEPT ![f] = s] \in [Slots -> Statuses]
        /\ [env_status EXCEPT ![f] = s][e] = "NOT_RUNNABLE"
    BY <1>1, <1>3, Zenon
  <2> QED BY <1>3, <2>1, YieldKeepsSleepers, Zenon
<1>4. ASSUME NEW c \in CPUs,
             TrapReturn(c, env_status) \/ \E cur : SchedYield(c, env_status, cur)
      PROVE  Asleep2
  BY <1>1, <1>4, YieldKeepsSleepers, Zenon
<1>5. ASSUME NEW c \in CPUs,
             \/ Start(c) \/ EnvPopTf(c) \/ TimerHalted(c) \/ SyscallReturn(c)
             \/ SysYield(c) \/ Breakpoint(c)
      PROVE  Keeps /\ Asleep2
  BY <1>1, <1>4, <1>5, Zenon
  DEF Start, EnvPopTf, TimerHalted, SyscallReturn, SysYield, Breakpoint, envVars
<1>6. ASSUME NEW c \in CPUs, TrapZombie(c) PROVE Keeps /\ Asleep2
  BY <1>2, <1>3, <1>6, Zenon DEF TrapZombie, EnvFreed, Statuses
<1>7. ASSUME NEW c \in CPUs, SysIpcRecv(c) PROVE Keeps /\ Asleep2
  BY <1>2, <1>3, <1>7, Zenon DEF SysIpcRecv, Statuses, envVars
<1>8. ASSUME NEW c \in CPUs, NEW id, SysIpcTrySend(c, id) PROVE Keeps /\ Asleep2
  BY <1>1, <1>3, <1>8, Zenon DEF SysIpcTrySend, Statuses, envVars
<1>9. ASSUME NEW c \in CPUs, SysExofork(c) PROVE Keeps /\ Asleep2
  <2>1. Head(env_free_list) # e
    BY <1>1, <1>9, ListPop, Zenon DEF SysExofork, EnvAlloc, Inv, TypeOK
  <2> QED BY <1>3, <1>9, <2>1, Zenon DEF SysExofork, EnvAlloc, Statuses, Inv, TypeOK
<1>10. ASSUME NEW c \in CPUs, NEW id \in EnvIds, SpawnSetTrapframe(c, id) PROVE Keeps /\ Asleep2
  BY <1>4, <1>10, Zenon DEF SpawnSetTrapframe, SysEnvSetTrapframe, envVars
<1>11. ASSUME NEW c \in CPUs, NEW id \in EnvIds, ForkEnd(c, id) \/ SysEnvDestroy(c, id)
       PROVE  Keeps /\ (Asleep2 \/ Mine)
  <2>1. /\ Keeps /\ Trapped(c) /\ cpu[c] = "user" /\ Envid2env(c, id, TRUE)
        /\ curenv[c] # e
    BY <1>2, <1>11, Zenon DEF ForkEnd, SysEnvSetStatus, SysEnvDestroy, Trapped, envVars
  <2>2. CASE Target(c, id) = e
    BY <2>1, <2>2, ChildOf, Zenon
  <2>3. CASE Target(c, id) # e
    <3> DEFINE f == Target(c, id)
               St(s) == [env_status EXCEPT ![f] = s]
    <3>1. \E s \in Statuses :
            \/ TrapReturn(c, St(s))
            \/ \E cur : SchedYield(c, St(s), cur)
      BY <1>11, Zenon DEF ForkEnd, SysEnvSetStatus, SysEnvDestroy, EnvDestroy, EnvFreed, Statuses
    <3>2. PICK s \in Statuses :
            \/ TrapReturn(c, St(s))
            \/ \E cur : SchedYield(c, St(s), cur)
      BY <3>1, Zenon
    <3>3. f # e
      BY <2>3, Zenon
    <3>4. St(s) \in [Slots -> Statuses] /\ St(s)[e] = "NOT_RUNNABLE"
      BY <1>1, <3>2, <3>3, Zenon
    <3> HIDE DEF St
    <3> QED BY <2>1, <3>2, <3>4, YieldKeepsSleepers, Zenon
  <2> QED BY <2>1, <2>2, <2>3, Zenon
<1>12. ZeroId \in EnvIds
  BY EnvAssumption DEF ZeroId, EnvIds, Slots
<1>13. Keeps /\ (Asleep2 \/ Mine)
  <2>1. PICK c \in CPUs :
          \/ KernelStep(c) \/ SysExofork(c) \/ SysEnvDestroy(c, ZeroId)
          \/ \E id \in EnvIds : \/ SpawnSetTrapframe(c, id) \/ ForkEnd(c, id)
                               \/ SysEnvDestroy(c, id)
    BY Zenon DEF LibNext, Exit, Fault, KillChild
  <2>2. CASE KernelStep(c)
    <3> HIDE DEF Keeps, Asleep2, Mine
    <3> QED BY <2>2, <1>5, <1>6, <1>7, <1>8, Zenon DEF KernelStep
  <2> HIDE DEF Keeps, Asleep2, Mine
  <2> QED BY <2>1, <2>2, <1>9, <1>10, <1>11, <1>12, Zenon
<1> QED BY <1>1, <1>13, Zenon

\* A child under construction is touched by its parent only.
THEOREM FreshKept == LibSpec => FreshChildKept
<1>1. Inv /\ [LibNext]_vars =>
        \A e \in Slots :
          Fresh(e) =>
            /\ env_gen'[e] = env_gen[e] /\ env_parent_id'[e] = env_parent_id[e]
            /\ env_status'[e] # env_status[e] =>
                 \E c \in CPUs : /\ cpu[c] = "user"
                                 /\ EnvId(curenv[c]) = env_parent_id[e]
  BY FreshStep, Zenon DEF vars, envVars, schedVars
<1> QED BY <1>1, Invariance, PTL DEF LibSpec, FreshChildKept
=============================================================================
