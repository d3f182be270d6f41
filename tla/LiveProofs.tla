-------------------------- MODULE LiveProofs --------------------------------
(***************************************************************************)
(* Mutual exclusion of the kernel, and the soundness of the checks of      *)
(* spinlock.c, for any number of CPUs; and the search of sched_yield(),    *)
(* which finds what module Env says it finds, for every length of envs[]   *)
(* and whatever the memory after it holds.                                 *)
(***************************************************************************)
EXTENDS MCLive, TLAPS

\* Who has the lock, and what lk->cpu says of it.
LockInv ==
  /\ MutualExclusion
  /\ locked = 1 <=> \E c \in CPUs : InKernel(c)
  /\ \A c \in CPUs :
       owner = c <=> pc[c] \in {"aps", "wait", "kern", "unlock", "monitor"}

\* Where a CPU goes on, and that it takes the lock once per trap: cpu_status is
\* HALTED exactly from sched_halt() to the next trap().
FlowInv ==
  \A c \in CPUs :
    /\ pc[c] # "badlock"
    /\ pc[c] \in {"check", "check2", "spin", "own"} =>
         /\ next[c] = "kern" \/ (c = BootCPU /\ next[c] = "aps")
         /\ cpu_status[c] = "STARTED"
    /\ pc[c] \in {"unlock", "release"} =>
         \/ next[c] = "user" /\ cpu_status[c] = "STARTED"
         \/ next[c] = "hlt" /\ cpu_status[c] = "HALTED"
    /\ pc[c] = "trap" =>
         \/ next[c] = "user" /\ cpu_status[c] = "STARTED"
         \/ next[c] = "hlt" /\ cpu_status[c] = "HALTED"
    /\ pc[c] \in {"user", "kern", "boot", "aps", "wait"} => cpu_status[c] = "STARTED"
    /\ pc[c] = "hlt" => cpu_status[c] = "HALTED"

\* One AP at a time is between the STARTUP IPI and its report, and
\* mpentry_kstack is its stack.
BootInv ==
  /\ OwnStack
  /\ pc[BootCPU] \notin {"off", "entry", "main"}
  /\ \A a \in CPUs : pc[a] \in {"boot", "aps", "wait"} => a = BootCPU
  /\ pc[BootCPU] = "wait" => mpentry_kstack \in CPUs
  /\ \A a \in CPUs : pc[a] \in {"entry", "main"} =>
       /\ pc[BootCPU] = "wait" /\ mpentry_kstack = a
       /\ cpu_status[a] = "UNUSED"
  /\ \A a \in CPUs : pc[a] = "off" => cpu_status[a] = "UNUSED"

Inv == TypeOK /\ LockInv /\ FlowInv /\ BootInv

LEMMA InitInv == Init => Inv
<1> SUFFICES ASSUME Init PROVE Inv
  BY Zenon
<1> USE LockAssumption DEF Init
<1>1. TypeOK
  BY Zenon DEF TypeOK, PCs, CpuStatuses
<1>2. LockInv
  BY DEF LockInv, MutualExclusion, InKernel
<1>3. FlowInv
  BY Zenon DEF FlowInv
<1>4. BootInv
  BY Zenon DEF BootInv, OwnStack
<1> QED BY <1>1, <1>2, <1>3, <1>4, Zenon DEF Inv

\* The goto of one CPU, seen from all of them.
LEMMA GotoEffect ==
  ASSUME TypeOK, NEW c \in CPUs, NEW l, Goto(c, l)
  PROVE  \A d \in CPUs : pc'[d] = IF d = c THEN l ELSE pc[d]
  BY Zenon DEF Goto, TypeOK

LEMMA TypeStep == Inv /\ [Next]_vars => TypeOK'
<1> SUFFICES ASSUME Inv, [Next]_vars PROVE TypeOK'
  BY Zenon
<1> USE LockAssumption DEF Inv, TypeOK, Goto, Call, lockVars, bootVars
<1>1. CASE UNCHANGED vars
  BY <1>1, Zenon DEF vars
<1>2. ASSUME NEW c \in CPUs, HoldingLocked(c) \/ HoldingCpu(c) \/ Xchg(c) PROVE TypeOK'
  BY <1>2 DEF HoldingLocked, HoldingCpu, Xchg, PCs
<1>3. ASSUME NEW c \in CPUs, RecordOwner(c) \/ ClearOwner(c) \/ Release(c) PROVE TypeOK'
  BY <1>3 DEF RecordOwner, ClearOwner, Release, PCs
<1>4. ASSUME NEW c \in CPUs, ApEntry(c) \/ ApMain(c) PROVE TypeOK'
  BY <1>4 DEF ApEntry, ApMain, PCs, CpuStatuses
<1>5. ASSUME NEW c \in CPUs, KernRun(c) \/ KernHalt(c) \/ KernMonitor(c) PROVE TypeOK'
  <2>1. CASE KernRun(c)
    BY <2>1, Zenon DEF KernRun, PCs
  <2>2. CASE KernHalt(c)
    BY <2>2, Zenon DEF KernHalt, PCs, CpuStatuses
  <2>3. CASE KernMonitor(c)
    BY <2>3, Zenon DEF KernMonitor, PCs
  <2> QED BY <1>5, <2>1, <2>2, <2>3, Zenon
<1>6. ASSUME NEW c \in CPUs, TrapEnter(c) \/ TrapLock(c) PROVE TypeOK'
  BY <1>6 DEF TrapEnter, TrapLock, PCs, CpuStatuses
<1>7. CASE BootStep
  BY <1>7 DEF BootStep, BootLock, StartAp, WaitAp, BootDone, PCs
<1> QED BY <1>1, <1>2, <1>3, <1>4, <1>5, <1>6, <1>7, Zenon DEF Next, CpuStep

LEMMA LockStep == Inv /\ [Next]_vars => LockInv'
<1> SUFFICES ASSUME Inv, [Next]_vars PROVE LockInv'
  BY Zenon
<1> USE LockAssumption DEF Inv, LockInv, MutualExclusion, InKernel
<1>1. CASE UNCHANGED vars
  BY <1>1, Zenon DEF vars, lockVars
\* The steps that neither take nor give back the lock.
<1>2. ASSUME NEW c \in CPUs, NEW l, Goto(c, l), UNCHANGED lockVars,
             LET own == {"aps", "wait", "kern", "unlock", "monitor"}
                 free == {"off", "entry", "main", "boot", "check", "check2", "spin",
                          "user", "hlt", "trap", "dead"}
             IN  (pc[c] \in own /\ l \in own) \/ (pc[c] \in free /\ l \in free)
      PROVE  LockInv'
  <2>1. \A d \in CPUs : pc'[d] = IF d = c THEN l ELSE pc[d]
    BY <1>2, GotoEffect
  <2> QED BY <1>2, <2>1 DEF lockVars
<1>3. ASSUME NEW c \in CPUs, HoldingLocked(c) \/ ApEntry(c) \/ ApMain(c) \/ TrapEnter(c)
      PROVE  LockInv'
  BY <1>2, <1>3, Zenon DEF HoldingLocked, ApEntry, ApMain, TrapEnter, Call
<1>4. ASSUME NEW c \in CPUs, HoldingCpu(c) PROVE LockInv'
  <2>1. owner # c
    BY <1>4, Zenon DEF HoldingCpu
  <2> QED BY <1>2, <1>4, <2>1, Zenon DEF HoldingCpu
<1>5. ASSUME NEW c \in CPUs, TrapLock(c) PROVE LockInv'
  <2>1. Goto(c, "check") /\ UNCHANGED lockVars /\ pc[c] = "trap"
    BY <1>5, Zenon DEF TrapLock, Call, FlowInv
  <2> QED BY <1>2, <2>1, Zenon
<1>6. ASSUME NEW c \in CPUs, KernRun(c) \/ KernHalt(c) \/ KernMonitor(c) PROVE LockInv'
  BY <1>2, <1>6, Zenon DEF KernRun, KernHalt, KernMonitor, Call
<1>7. ASSUME NEW c \in CPUs, Xchg(c) PROVE LockInv'
  <2>1. \A d \in CPUs : pc'[d] = IF d = c THEN "own" ELSE pc[d]
    BY <1>7, GotoEffect DEF Xchg
  <2> QED BY <1>7, <2>1 DEF Xchg
<1>8. ASSUME NEW c \in CPUs, RecordOwner(c) PROVE LockInv'
  <2>1. next[c] \in {"kern", "aps"}
    BY <1>8, Zenon DEF RecordOwner, FlowInv
  <2>2. \A d \in CPUs : pc'[d] = IF d = c THEN next[c] ELSE pc[d]
    BY <1>8, GotoEffect DEF RecordOwner
  <2> QED BY <1>8, <2>1, <2>2 DEF RecordOwner
<1>9. ASSUME NEW c \in CPUs, ClearOwner(c) PROVE LockInv'
  <2>1. locked = 1 /\ owner = c
    BY <1>9, Zenon DEF ClearOwner
  <2>2. \A d \in CPUs : pc'[d] = IF d = c THEN "release" ELSE pc[d]
    BY <1>9, <2>1, GotoEffect DEF ClearOwner
  <2> QED BY <1>9, <2>1, <2>2 DEF ClearOwner
<1>10. ASSUME NEW c \in CPUs, Release(c) PROVE LockInv'
  <2>1. next[c] \in {"user", "hlt"}
    BY <1>10, Zenon DEF Release, FlowInv
  <2>2. \A d \in CPUs : pc'[d] = IF d = c THEN next[c] ELSE pc[d]
    BY <1>10, GotoEffect DEF Release
  <2> QED BY <1>10, <2>1, <2>2 DEF Release
<1>11. CASE BootLock \/ WaitAp \/ BootDone
  BY <1>2, <1>11, Zenon DEF BootLock, WaitAp, BootDone, Call
<1>12. ASSUME NEW a \in CPUs, StartAp(a) PROVE LockInv'
  <2>1. \A d \in CPUs : pc'[d] = IF d = a THEN "entry"
                                ELSE IF d = BootCPU THEN "wait" ELSE pc[d]
    BY <1>12, Zenon DEF StartAp, TypeOK
  <2>2. a # BootCPU /\ pc[BootCPU] = "aps" /\ pc[a] = "off"
    BY <1>12, Zenon DEF StartAp
  <2>3. \A d \in CPUs : InKernel(d)' <=> InKernel(d)
    BY <2>1, <2>2, Zenon
  <2>4. \A d \in CPUs : pc'[d] \in {"aps", "wait", "kern", "unlock", "monitor"} <=>
                         pc[d] \in {"aps", "wait", "kern", "unlock", "monitor"}
    BY <2>1, <2>2, Zenon
  <2>5. UNCHANGED lockVars
    BY <1>12, Zenon DEF StartAp
  <2> QED BY <2>3, <2>4, <2>5, Zenon DEF lockVars
<1> QED
  BY <1>1, <1>3, <1>4, <1>5, <1>6, <1>7, <1>8, <1>9, <1>10, <1>11, <1>12, Zenon
  DEF Next, CpuStep, BootStep

LEMMA FlowStep == Inv /\ [Next]_vars => FlowInv'
<1> SUFFICES ASSUME Inv, [Next]_vars PROVE FlowInv'
  BY Zenon
<1> USE LockAssumption DEF Inv, TypeOK, FlowInv, Goto, Call, lockVars, bootVars
<1>1. CASE UNCHANGED vars
  BY <1>1 DEF vars
<1>2. ASSUME NEW c \in CPUs, HoldingLocked(c) \/ Xchg(c) PROVE FlowInv'
  BY <1>2 DEF HoldingLocked, Xchg
<1>3. ASSUME NEW c \in CPUs, HoldingCpu(c) PROVE FlowInv'
  BY <1>3 DEF HoldingCpu, LockInv
<1>4. ASSUME NEW c \in CPUs, RecordOwner(c) \/ Release(c) PROVE FlowInv'
  BY <1>4 DEF RecordOwner, Release
<1>5. ASSUME NEW c \in CPUs, ClearOwner(c) PROVE FlowInv'
  <2>1. locked = 1 /\ owner = c
    BY <1>5, Zenon DEF ClearOwner, LockInv, InKernel
  <2> QED BY <1>5, <2>1 DEF ClearOwner
<1>6. ASSUME NEW c \in CPUs, ApEntry(c) \/ ApMain(c) PROVE FlowInv'
  <2>1. CASE ApEntry(c)
    BY <2>1 DEF ApEntry
  <2>2. CASE ApMain(c)
    BY <2>2 DEF ApMain
  <2> QED BY <1>6, <2>1, <2>2, Zenon
<1>7. ASSUME NEW c \in CPUs, KernRun(c) \/ KernHalt(c) \/ KernMonitor(c) PROVE FlowInv'
  <2>1. CASE KernRun(c)
    BY <2>1 DEF KernRun
  <2>2. CASE KernHalt(c)
    BY <2>2 DEF KernHalt
  <2>3. CASE KernMonitor(c)
    BY <2>3 DEF KernMonitor
  <2> QED BY <1>7, <2>1, <2>2, <2>3, Zenon
<1>8. ASSUME NEW c \in CPUs, TrapEnter(c) \/ TrapLock(c) PROVE FlowInv'
  BY <1>8 DEF TrapEnter, TrapLock
<1>9. CASE BootLock \/ WaitAp \/ BootDone
  BY <1>9 DEF BootLock, WaitAp, BootDone
<1>10. ASSUME NEW a \in CPUs, StartAp(a) PROVE FlowInv'
  BY <1>10 DEF StartAp
<1> QED
  BY <1>1, <1>2, <1>3, <1>4, <1>5, <1>6, <1>7, <1>8, <1>9, <1>10, Zenon DEF Next, CpuStep, BootStep

LEMMA BootStepInv == Inv /\ [Next]_vars => BootInv'
<1> SUFFICES ASSUME Inv, [Next]_vars PROVE BootInv'
  BY Zenon
<1> USE LockAssumption DEF Inv, TypeOK, BootInv, OwnStack, Goto, Call, lockVars, bootVars
<1>1. CASE UNCHANGED vars
  BY <1>1, Zenon DEF vars
<1>2. ASSUME NEW c \in CPUs, HoldingLocked(c) \/ HoldingCpu(c) \/ Xchg(c) PROVE BootInv'
  BY <1>2 DEF HoldingLocked, HoldingCpu, Xchg
<1>3. ASSUME NEW c \in CPUs, RecordOwner(c) \/ Release(c) PROVE BootInv'
  BY <1>3 DEF RecordOwner, Release, FlowInv
<1>4. ASSUME NEW c \in CPUs, ClearOwner(c) PROVE BootInv'
  BY <1>4 DEF ClearOwner
<1>5. ASSUME NEW c \in CPUs, ApEntry(c) PROVE BootInv'
  BY <1>5, Zenon DEF ApEntry
<1>6. ASSUME NEW c \in CPUs, ApMain(c) PROVE BootInv'
  <2>1. c # BootCPU /\ pc[BootCPU] = "wait" /\ mpentry_kstack = c
    BY <1>6, Zenon DEF ApMain
  <2> QED BY <1>6, <2>1, Zenon DEF ApMain
<1>7. ASSUME NEW c \in CPUs, KernRun(c) \/ KernHalt(c) \/ KernMonitor(c) PROVE BootInv'
  <2>1. CASE KernRun(c)
    BY <2>1, Zenon DEF KernRun
  <2>2. CASE KernHalt(c)
    BY <2>2, Zenon DEF KernHalt
  <2>3. CASE KernMonitor(c)
    BY <2>3, Zenon DEF KernMonitor
  <2> QED BY <1>7, <2>1, <2>2, <2>3, Zenon
<1>8. ASSUME NEW c \in CPUs, TrapEnter(c) \/ TrapLock(c) PROVE BootInv'
  BY <1>8 DEF TrapEnter, TrapLock
<1>9. CASE BootLock \/ BootDone
  BY <1>9 DEF BootLock, BootDone
<1>10. CASE WaitAp
  BY <1>10, Zenon DEF WaitAp
<1>11. ASSUME NEW a \in CPUs, StartAp(a) PROVE BootInv'
  BY <1>11, Zenon DEF StartAp
<1> QED
  BY <1>1, <1>2, <1>3, <1>4, <1>5, <1>6, <1>7, <1>8, <1>9, <1>10, <1>11, Zenon
  DEF Next, CpuStep, BootStep

LEMMA Invariance == Spec => []Inv
<1>1. Inv /\ [Next]_vars => Inv'
  BY TypeStep, LockStep, FlowStep, BootStepInv, Zenon DEF Inv
<1> QED BY <1>1, InitInv, PTL DEF Spec

\* At most one CPU runs kernel code, on any number of CPUs and from the first
\* lock_kernel() of i386_init() on.
THEOREM KernelMutex == Spec => []MutualExclusion
  BY Invariance, PTL DEF Inv, LockInv

\* Neither panic of spinlock.c can happen.
THEOREM LockChecksPass == Spec => []NoLockPanic
<1>1. Inv => NoLockPanic
  BY Zenon DEF Inv, FlowInv, NoLockPanic
<1> QED BY <1>1, Invariance, PTL

\* No AP starts on another CPU's stack.
THEOREM StacksSeparate == Spec => []OwnStack
  BY Invariance, PTL DEF Inv, BootInv
-----------------------------------------------------------------------------
(* The search of sched_yield(). *)

\* How many turns the loop makes before it looks at index p of 0 .. NENV.
Turn(p) ==
  IF p >= Scan!First(cur) THEN p - Scan!First(cur) ELSE p + ScanNENV + 1 - Scan!First(cur)

\* The loop is at the index of its turn, and no index it has passed was
\* runnable.
ScanInv ==
  ~done => /\ Turn(idle) = turn
           /\ \A p \in 0 .. ScanNENV : Turn(p) < turn => status[p] # "RUNNABLE"

SearchInv == Scan!TypeOK /\ ScanInv /\ Scan!FirstInOrder

LEMMA FirstType == ASSUME cur \in Scan!Slots \cup {NULL}
                   PROVE  /\ ScanNENV \in Nat /\ ScanNENV > 0
                          /\ Scan!First(cur) \in 0 .. ScanNENV
                          /\ cur = NULL => Scan!First(cur) = 0
                          /\ cur # NULL => cur \in Scan!Slots /\ Scan!First(cur) = cur + 1
  BY LiveAssumption DEF Scan!First, Scan!Slots

LEMMA SearchInit == Scan!Init => SearchInv
<1> SUFFICES ASSUME Scan!Init PROVE SearchInv
  BY Zenon
<1>1. /\ Scan!First(cur) \in 0 .. ScanNENV /\ ScanNENV \in Nat
      /\ idle = Scan!First(cur) /\ turn = 0
  BY FirstType, Zenon DEF Scan!Init
<1>2. Scan!TypeOK
  <2>1. done \in BOOLEAN /\ status \in [0 .. ScanNENV -> Scan!Statuses]
    BY Zenon DEF Scan!Init
  <2>2. idle \in 0 .. ScanNENV /\ turn \in 0 .. ScanNENV
    BY <1>1
  <2> QED BY <2>1, <2>2, Zenon DEF Scan!Init, Scan!TypeOK
<1>3. Turn(idle) = 0 /\ \A p \in 0 .. ScanNENV : Turn(p) >= 0
  BY <1>1 DEF Turn
<1>4. ScanInv
  BY <1>1, <1>3 DEF ScanInv, Turn
<1> QED BY <1>2, <1>4, Zenon DEF SearchInv, Scan!FirstInOrder, Scan!Init

\* When the loop is at a runnable index, that is the first one in order.
LEMMA FoundStep == SearchInv /\ Scan!Found => SearchInv'
<1> SUFFICES ASSUME SearchInv, Scan!Found PROVE SearchInv'
  BY Zenon
<1> DEFINE R == {e \in Scan!Slots : e # cur /\ status[e] = "RUNNABLE"}
<1>1. /\ Scan!TypeOK /\ status[idle] = "RUNNABLE"
      /\ turn < ScanNENV
      /\ Turn(idle) = turn
      /\ \A p \in 0 .. ScanNENV : Turn(p) < turn => status[p] # "RUNNABLE"
      /\ picked' = idle /\ done' = TRUE /\ status' = status /\ cur' = cur
      /\ idle' = idle /\ turn' = turn
  BY Zenon DEF SearchInv, Scan!Found, ScanInv
<1>2. /\ ScanNENV \in Nat /\ Scan!First(cur) \in 0 .. ScanNENV /\ idle \in 0 .. ScanNENV
      /\ cur = NULL => Scan!First(cur) = 0
      /\ cur # NULL => cur \in 0 .. ScanNENV - 1 /\ Scan!First(cur) = cur + 1
  BY <1>1, FirstType, Zenon DEF Scan!TypeOK, Scan!Slots
<1>3. ASSUME NEW f \in 0 .. ScanNENV, status[f] = "RUNNABLE"
      PROVE  Turn(idle) <= Turn(f)
  <2>1. Turn(f) \in Int /\ turn \in Nat
    BY <1>1, <1>2 DEF Turn, Scan!TypeOK
  <2>2. ~(Turn(f) < turn)
    BY <1>1, <1>3, Zenon
  <2> QED BY <1>1, <2>1, <2>2
<1>4. Scan!TypeOK'
  BY <1>1, <1>2, Zenon DEF Scan!TypeOK
<1>5. CASE idle = ScanNENV
  <2>1. cur # NULL
    BY <1>1, <1>2, <1>5 DEF Turn
  <2>2. \A f \in R : f < cur
    BY <1>2, <1>3, <1>5, <2>1 DEF Turn, Scan!Slots
  <2>3. Scan!FirstInOrder'
    BY <1>1, <1>5, <2>1, <2>2, Zenon DEF Scan!FirstInOrder, Scan!Phantom
  <2> QED BY <1>1, <1>4, <2>3, Zenon DEF SearchInv, ScanInv
<1>6. CASE idle # ScanNENV
  <2>1. idle \in Scan!Slots /\ idle # cur
    <3>1. idle \in Scan!Slots
      BY <1>2, <1>6 DEF Scan!Slots
    <3>2. CASE cur = NULL
      BY <3>1, <3>2, LiveAssumption, Zenon DEF Scan!Slots
    <3>3. CASE cur # NULL
      <4>1. idle = cur => Turn(idle) = ScanNENV
        BY <1>2, <3>3 DEF Turn
      <4> QED BY <1>1, <1>2, <3>1, <4>1
    <3> QED BY <3>1, <3>2, <3>3, Zenon
  <2>2. idle \in R
    BY <1>1, <2>1, Zenon
  <2>3. ASSUME NEW f \in R PROVE Scan!ScanDistance(cur, idle) <= Scan!ScanDistance(cur, f)
    <3>1. f \in 0 .. ScanNENV - 1 /\ f # cur /\ Turn(idle) <= Turn(f)
      BY <1>2, <1>3, <2>3 DEF Scan!Slots
    <3>2. CASE cur = NULL
      BY <1>2, <2>1, <3>1, <3>2 DEF Turn, Scan!ScanDistance
    <3>3. CASE cur # NULL
      BY <1>2, <2>1, <3>1, <3>3 DEF Turn, Scan!ScanDistance, Scan!Slots
    <3> QED BY <3>2, <3>3, Zenon
  <2>4. Scan!Phantom => idle > cur
    <3> SUFFICES ASSUME Scan!Phantom PROVE idle > cur
      BY Zenon
    <3>1. cur # NULL /\ Turn(idle) <= Turn(ScanNENV)
      BY <1>2, <1>3 DEF Scan!Phantom
    <3> QED BY <1>2, <2>1, <3>1 DEF Turn, Scan!Slots
  <2>5. Scan!FirstInOrder'
    BY <1>1, <2>2, <2>3, <2>4, Zenon DEF Scan!FirstInOrder, Scan!ScanDistance, Scan!Phantom
  <2> QED BY <1>1, <1>4, <2>5, Zenon DEF SearchInv, ScanInv
<1> QED BY <1>5, <1>6, Zenon

LEMMA AdvanceStep == SearchInv /\ Scan!Advance => SearchInv'
<1> SUFFICES ASSUME SearchInv, Scan!Advance PROVE SearchInv'
  BY Zenon
<1>1. /\ Scan!TypeOK /\ status[idle] # "RUNNABLE" /\ turn < ScanNENV /\ ~done
      /\ Turn(idle) = turn
      /\ \A p \in 0 .. ScanNENV : Turn(p) < turn => status[p] # "RUNNABLE"
      /\ idle' = (IF idle >= ScanNENV THEN 0 ELSE idle + 1) /\ turn' = turn + 1
      /\ UNCHANGED <<status, cur, done, picked>>
  BY Zenon DEF SearchInv, Scan!Advance, ScanInv
<1>2. /\ ScanNENV \in Nat /\ Scan!First(cur) \in 0 .. ScanNENV
      /\ idle \in 0 .. ScanNENV /\ turn \in 0 .. ScanNENV
  BY <1>1, FirstType, Zenon DEF Scan!TypeOK
<1>3. idle' \in 0 .. ScanNENV /\ turn' \in 0 .. ScanNENV
  BY <1>1, <1>2
<1>4. Scan!TypeOK'
  BY <1>1, <1>3, Zenon DEF Scan!TypeOK
<1>5. Scan!First(cur)' = Scan!First(cur) /\ \A p \in 0 .. ScanNENV : Turn(p)' = Turn(p)
  BY <1>1, Zenon DEF Scan!First, Turn
<1>6. Turn(idle)' = turn'
  BY <1>1, <1>2 DEF Turn, Scan!First
<1>7. ASSUME NEW p \in 0 .. ScanNENV, Turn(p) < turn' PROVE status[p] # "RUNNABLE"
  <2>1. Turn(p) <= turn
    BY <1>1, <1>2, <1>7 DEF Turn
  <2>2. Turn(p) = turn => p = idle
    BY <1>1, <1>2 DEF Turn
  <2> QED BY <1>1, <1>2, <2>1, <2>2 DEF Turn
<1> QED BY <1>1, <1>4, <1>5, <1>6, <1>7, Zenon
       DEF SearchInv, ScanInv, Scan!FirstInOrder

\* After NENV turns the loop has looked at every index but one: the current
\* environment, or the one after envs[] when there is none.
LEMMA GiveUpStep == SearchInv /\ Scan!GiveUp => SearchInv'
<1> SUFFICES ASSUME SearchInv, Scan!GiveUp PROVE SearchInv'
  BY Zenon
<1>1. /\ Scan!TypeOK /\ turn = ScanNENV /\ ~done
      /\ \A p \in 0 .. ScanNENV : Turn(p) < turn => status[p] # "RUNNABLE"
      /\ picked' = (IF cur # NULL /\ status[cur] = "RUNNING" THEN cur ELSE NULL)
      /\ done' = TRUE /\ UNCHANGED <<status, cur, idle, turn>>
  BY Zenon DEF SearchInv, Scan!GiveUp, ScanInv
<1>2. /\ ScanNENV \in Nat /\ Scan!First(cur) \in 0 .. ScanNENV
      /\ cur = NULL => Scan!First(cur) = 0
      /\ cur # NULL => Scan!First(cur) = cur + 1 /\ cur \in Scan!Slots
  BY <1>1, FirstType, Zenon DEF Scan!TypeOK
<1>3. ASSUME NEW e \in Scan!Slots, e # cur PROVE status[e] # "RUNNABLE"
  <2>1. e \in 0 .. ScanNENV /\ e < ScanNENV
    BY <1>2 DEF Scan!Slots
  <2>2. Turn(e) < ScanNENV
    BY <1>2, <1>3, <2>1 DEF Turn, Scan!Slots
  <2> QED BY <1>1, <2>1, <2>2, Zenon
<1>4. ~Scan!Phantom
  <2> SUFFICES ASSUME cur # NULL PROVE status[ScanNENV] # "RUNNABLE"
    BY Zenon DEF Scan!Phantom
  <2>1. ScanNENV \in 0 .. ScanNENV /\ Turn(ScanNENV) < turn
    BY <1>1, <1>2 DEF Turn, Scan!Slots
  <2> QED BY <1>1, <2>1, Zenon
<1>5. Scan!FirstInOrder'
  BY <1>1, <1>3, <1>4, Zenon DEF Scan!FirstInOrder, Scan!Phantom
<1>6. Scan!TypeOK'
  <2>1. cur \in 0 .. ScanNENV \cup {NULL}
    BY <1>1, <1>2 DEF Scan!TypeOK, Scan!Slots
  <2> QED BY <1>1, <2>1, Zenon DEF Scan!TypeOK
<1> QED BY <1>1, <1>5, <1>6, Zenon DEF SearchInv, ScanInv

LEMMA SearchCorrect == Scan!Spec => []SearchInv
<1>1. SearchInv /\ UNCHANGED Scan!vars => SearchInv'
  BY DEF Scan!vars, SearchInv, Scan!TypeOK, ScanInv, Scan!FirstInOrder, Scan!Phantom,
         Turn, Scan!First, Scan!ScanDistance
<1>2. SearchInv /\ [Scan!Next]_(Scan!vars) => SearchInv'
  BY <1>1, FoundStep, AdvanceStep, GiveUpStep, Zenon DEF Scan!Next
<1> QED BY <1>2, SearchInit, PTL DEF Scan!Spec

\* The loop of sched_yield() takes the first runnable slot in circular order
\* after the current one, or the memory after envs[] where the property says so,
\* for every NENV and every content of envs[] and of that memory.
THEOREM ScanCorrect == Scan!Spec => []FirstInOrder
  BY SearchCorrect, PTL DEF SearchInv, FirstInOrder
=============================================================================
