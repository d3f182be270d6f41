------------------------------ MODULE SysArch -------------------------------
(***************************************************************************)
(* The operating system layer under lwIP in the network server: the        *)
(* cooperative threads (net/lwip/jos/arch/thread.c), and the semaphores    *)
(* and mailboxes built on them (net/lwip/jos/arch/sys_arch.c).             *)
(*                                                                         *)
(* A thread keeps the processor until it yields, so a step is what one     *)
(* thread does up to its next thread_yield() or up to the end of the call. *)
(* The threads call the mailbox operations in any order.  Which entry of a *)
(* free list is taken is left open.                                        *)
(***************************************************************************)
EXTENDS Integers, Sequences

CONSTANTS
  Threads,    \* thread contexts
  Main,       \* the thread umain() starts, which never halts
  NSEM,       \* semaphores, without those of op_completed and the like
  NMBOX, MBOXSLOTS,
  Msgs, NULL

ASSUME SysAssumption ==
  /\ Main \in Threads
  /\ NMBOX \in Nat /\ NSEM \in Nat /\ NSEM >= 2 * NMBOX
  /\ MBOXSLOTS \in Nat \ {0}

Sems == 0 .. NSEM - 1
Mboxes == 0 .. NMBOX - 1
MsgSlots == 0 .. MBOXSLOTS - 1

VARIABLES
  cur_tc,        \* the thread that runs
  thread_queue,  \* the others that live, in the order they will run
  kill_queue,    \* threads that halted and are not freed yet
  tc,            \* what each thread waits for
  sems, mboxes,
  panicked       \* an assert() or panic() stopped the server

threadVars == <<cur_tc, thread_queue, kill_queue>>
vars == <<threadVars, tc, sems, mboxes, panicked>>

(***************************************************************************)
(* tc[t].at is "run" outside sys_arch_sem_wait(), else the mailbox call    *)
(* the thread waits in; timed: for a limited time.  stale: the semaphore   *)
(* was freed meanwhile (its gen is not the one the call began with).       *)
(***************************************************************************)
Running == [at |-> "run", box |-> 0, msg |-> NULL, sem |-> 0,
            wakeup |-> FALSE, stale |-> FALSE, timed |-> FALSE]

Contexts ==
  [at : {"run", "post", "fetch"}, box : Mboxes \cup {0}, msg : Msgs \cup {NULL},
   sem : Sems \cup {0}, wakeup : BOOLEAN, stale : BOOLEAN, timed : BOOLEAN]

\* sys_init() puts every entry on its free list; umain() starts the main thread.
Init ==
  /\ cur_tc = Main /\ thread_queue = <<>> /\ kill_queue = <<>>
  /\ tc = [t \in Threads |-> Running]
  /\ sems = [s \in Sems |-> [freed |-> TRUE, counter |-> 0, waiters |-> FALSE]]
  /\ mboxes = [b \in Mboxes |->
                 [freed |-> TRUE, head |-> -1, nextq |-> 0, msg |-> [i \in MsgSlots |-> NULL],
                  queued_msg |-> 0, free_msg |-> 0]]
  /\ panicked = FALSE
-----------------------------------------------------------------------------
(* Threads. *)

Queued == {thread_queue[i] : i \in 1 .. Len(thread_queue)}
Killed == {kill_queue[i] : i \in 1 .. Len(kill_queue)}

\* thread_yield(); it returns at once when no other thread is queued.
Yield ==
  /\ IF thread_queue = <<>> THEN UNCHANGED <<cur_tc, thread_queue>>
     ELSE /\ cur_tc' = Head(thread_queue)
          /\ thread_queue' = Append(Tail(thread_queue), cur_tc)
  /\ UNCHANGED kill_queue

ThreadYield == tc[cur_tc].at = "run" /\ Yield /\ UNCHANGED <<tc, sems, mboxes, panicked>>

ThreadCreate(t) ==
  /\ tc[cur_tc].at = "run"
  /\ t \notin {cur_tc} \cup Queued \cup Killed
  /\ thread_queue' = Append(thread_queue, t)
  /\ UNCHANGED <<cur_tc, kill_queue, tc, sems, mboxes, panicked>>

\* The thread that halted before is freed now; this one still runs on its stack.
ThreadHalt ==
  /\ tc[cur_tc].at = "run" /\ cur_tc # Main
  /\ kill_queue' = Append(IF kill_queue = <<>> THEN <<>> ELSE Tail(kill_queue), cur_tc)
  /\ cur_tc' = Head(thread_queue) /\ thread_queue' = Tail(thread_queue)
  /\ UNCHANGED <<tc, sems, mboxes, panicked>>
-----------------------------------------------------------------------------
(* Semaphores: sm is sems as the steps of the call before have left it. *)

Take(s) == [sems EXCEPT ![s].counter = @ - 1]

\* Mutant: thread_wakeup() stops at the first thread it finds.
SignalFirst(s, sm, w) ==
  /\ sems' = [sm EXCEPT ![s].counter = @ + 1, ![s].waiters = FALSE]
  /\ LET I == {i \in 1 .. Len(thread_queue) :
                w[thread_queue[i]].at # "run" /\ w[thread_queue[i]].sem = s}
     IN  tc' = IF sm[s].waiters /\ I # {}
               THEN [w EXCEPT ![thread_queue[CHOOSE i \in I : \A j \in I : i <= j]].wakeup = TRUE]
               ELSE w

\* sys_sem_signal() with thread_wakeup().
Signal(s, sm, w) ==
  /\ sems' = [sm EXCEPT ![s].counter = @ + 1, ![s].waiters = FALSE]
  /\ tc' = [t \in Threads |->
              IF sm[s].waiters /\ t \in Queued /\ w[t].at # "run" /\ w[t].sem = s
              THEN [w[t] EXCEPT !.wakeup = TRUE] ELSE w[t]]

\* sys_arch_sem_wait() finds no unit and waits: v is now <<0, 1>>.
Sleep(s, call, b, m, timed) ==
  /\ sems' = [sems EXCEPT ![s].waiters = TRUE]
  /\ tc' = [tc EXCEPT ![cur_tc] = [at |-> call, box |-> b, msg |-> m, sem |-> s,
                                  wakeup |-> FALSE, stale |-> FALSE, timed |-> timed]]
  /\ Yield
  /\ UNCHANGED <<mboxes, panicked>>

\* The conditions that end thread_wait(): *addr has changed, or tc_wakeup is set.
Awake(t) ==
  tc[t].wakeup \/ sems[tc[t].sem].counter # 0 \/ ~sems[tc[t].sem].waiters
-----------------------------------------------------------------------------
(* Mailboxes. *)

\* sys_mbox_trypost() once it has its unit of free_msg; sys_mbox_post()
\* asserts that it is not refused.
Enqueue(b, m, sm, w) ==
  LET e == mboxes[b]
  IN  IF e.nextq = e.head \/ sm[e.queued_msg].freed
      THEN panicked' = TRUE /\ sems' = sm /\ tc' = w /\ UNCHANGED mboxes
      ELSE /\ mboxes' = [mboxes EXCEPT
                ![b] = [e EXCEPT !.nextq = (e.nextq + 1) % MBOXSLOTS,
                                 !.msg[e.nextq] = m,
                                 !.head = IF @ = -1 THEN e.nextq ELSE @]]
           /\ Signal(e.queued_msg, sm, w)
           /\ UNCHANGED panicked

\* Mutant: head is not reset when the last message is taken.
DequeueNoReset(b, sm, w) ==
  LET e == mboxes[b]
  IN  IF e.head = -1
      THEN panicked' = TRUE /\ sems' = sm /\ tc' = w /\ UNCHANGED mboxes
      ELSE /\ mboxes' = [mboxes EXCEPT ![b].head = (e.head + 1) % MBOXSLOTS]
           /\ Signal(e.free_msg, sm, w)
           /\ UNCHANGED panicked

\* sys_arch_mbox_fetch() once it has its unit of queued_msg.
Dequeue(b, sm, w) ==
  LET e == mboxes[b]
      next == (e.head + 1) % MBOXSLOTS
  IN  IF e.head = -1
      THEN panicked' = TRUE /\ sems' = sm /\ tc' = w /\ UNCHANGED mboxes
      ELSE /\ mboxes' = [mboxes EXCEPT ![b].head = IF next = e.nextq THEN -1 ELSE next]
           /\ Signal(e.free_msg, sm, w)
           /\ UNCHANGED panicked

\* sys_mbox_new(): when it gets no two semaphores it frees what it does not have.
MboxNew(b) ==
  /\ tc[cur_tc].at = "run" /\ mboxes[b].freed
  /\ IF \E s, r \in Sems : s # r /\ sems[s].freed /\ sems[r].freed
     THEN \E s, r \in Sems :
            /\ s # r /\ sems[s].freed /\ sems[r].freed
            /\ sems' = [sems EXCEPT ![s].freed = FALSE, ![s].counter = 0,
                                    ![r].freed = FALSE, ![r].counter = MBOXSLOTS]
            /\ mboxes' = [mboxes EXCEPT ![b].freed = FALSE, ![b].head = -1, ![b].nextq = 0,
                                        ![b].queued_msg = s, ![b].free_msg = r]
            /\ UNCHANGED panicked
     ELSE panicked' = TRUE /\ UNCHANGED <<sems, mboxes>>
  /\ UNCHANGED <<threadVars, tc>>

\* sys_mbox_free().  Fetchers may be waiting; a poster is not, since
\* do_delconn() and do_listen() run where the posts to this mailbox come from.
MboxFree(b) ==
  LET S == {mboxes[b].queued_msg, mboxes[b].free_msg}
  IN  /\ tc[cur_tc].at = "run" /\ ~mboxes[b].freed
      /\ \A t \in Threads : ~(tc[t].at = "post" /\ tc[t].box = b)
      /\ mboxes' = [mboxes EXCEPT ![b].freed = TRUE]
      /\ sems' = [s \in Sems |-> IF s \in S THEN [sems[s] EXCEPT !.freed = TRUE] ELSE sems[s]]
      /\ tc' = [t \in Threads |->
                  IF tc[t].at # "run" /\ tc[t].sem \in S THEN [tc[t] EXCEPT !.stale = TRUE]
                  ELSE tc[t]]
      /\ UNCHANGED <<threadVars, panicked>>

MboxPost(b, m) ==
  LET s == mboxes[b].free_msg
  IN  /\ tc[cur_tc].at = "run" /\ ~mboxes[b].freed
      /\ \/ sems[s].counter > 0 /\ Enqueue(b, m, Take(s), tc) /\ UNCHANGED threadVars
         \/ sems[s].counter = 0 /\ Sleep(s, "post", b, m, FALSE)

\* sys_arch_mbox_fetch(); the one of sys_mbox_tryfetch() returns where others wait.
MboxFetch(b, timed) ==
  LET s == mboxes[b].queued_msg
  IN  /\ tc[cur_tc].at = "run" /\ ~mboxes[b].freed
      /\ \/ sems[s].counter > 0 /\ Dequeue(b, Take(s), tc) /\ UNCHANGED threadVars
         \/ sems[s].counter = 0 /\ Sleep(s, "fetch", b, NULL, timed)
-----------------------------------------------------------------------------
(* The running thread is in thread_wait(), called by sys_arch_sem_wait(). *)

Resumed == [tc EXCEPT ![cur_tc] = Running]

KeepWaiting ==
  /\ tc[cur_tc].at # "run" /\ ~Awake(cur_tc)
  /\ Yield /\ UNCHANGED <<tc, sems, mboxes, panicked>>

\* The time is up, whatever else happened.
TimeOut ==
  /\ tc[cur_tc].at = "fetch" /\ tc[cur_tc].timed
  /\ tc' = Resumed
  /\ UNCHANGED <<threadVars, sems, mboxes, panicked>>

\* Mutant: sys_arch_sem_wait() does not look at gen after the wait.
ProceedAnyGen ==
  LET c == tc[cur_tc]
  IN  /\ Awake(cur_tc) /\ sems[c.sem].counter > 0
      /\ \/ c.at = "post" /\ Enqueue(c.box, c.msg, Take(c.sem), Resumed)
         \/ c.at = "fetch" /\ Dequeue(c.box, Take(c.sem), Resumed)
      /\ UNCHANGED threadVars

\* "sem freed under waiter": the call returns SYS_ARCH_TIMEOUT, which
\* sys_mbox_trypost() does not look at.
FreedUnder ==
  LET c == tc[cur_tc]
  IN  /\ c.at # "run" /\ Awake(cur_tc) /\ c.stale
      /\ IF c.at = "post" THEN Enqueue(c.box, c.msg, sems, Resumed)
         ELSE tc' = Resumed /\ UNCHANGED <<sems, mboxes, panicked>>
      /\ UNCHANGED threadVars

Proceed ==
  LET c == tc[cur_tc]
  IN  /\ Awake(cur_tc) /\ ~c.stale /\ sems[c.sem].counter > 0
      /\ \/ c.at = "post" /\ Enqueue(c.box, c.msg, Take(c.sem), Resumed)
         \/ c.at = "fetch" /\ Dequeue(c.box, Take(c.sem), Resumed)
      /\ UNCHANGED threadVars

\* Another thread was faster.
WaitAgain ==
  LET c == tc[cur_tc]
  IN  /\ c.at # "run" /\ Awake(cur_tc) /\ ~c.stale /\ sems[c.sem].counter = 0
      /\ Sleep(c.sem, c.at, c.box, c.msg, c.timed)

Next ==
  /\ ~panicked
  /\ \/ ThreadYield \/ ThreadHalt \/ \E t \in Threads : ThreadCreate(t)
     \/ \E b \in Mboxes : \/ MboxNew(b) \/ MboxFree(b)
                          \/ \E m \in Msgs : MboxPost(b, m)
                          \/ \E timed \in BOOLEAN : MboxFetch(b, timed)
     \/ KeepWaiting \/ TimeOut \/ FreedUnder \/ Proceed \/ WaitAgain

Spec == Init /\ [][Next]_vars
-----------------------------------------------------------------------------
TypeOK ==
  /\ cur_tc \in Threads /\ thread_queue \in Seq(Threads) /\ kill_queue \in Seq(Threads)
  /\ tc \in [Threads -> Contexts]
  /\ sems \in [Sems -> [freed : BOOLEAN, counter : 0 .. MBOXSLOTS, waiters : BOOLEAN]]
  /\ mboxes \in [Mboxes -> [freed : BOOLEAN, head : MsgSlots \cup {-1}, nextq : MsgSlots,
                            msg : [MsgSlots -> Msgs \cup {NULL}],
                            queued_msg : Sems \cup {0}, free_msg : Sems \cup {0}]]
  /\ panicked \in BOOLEAN

\* No assert() or panic() of the mailbox code fires: the semaphores keep the
\* ring from overrunning and from being read when it is empty, a semaphore of
\* a mailbox in use is never on the free list, and two are there when needed.
NoMboxPanic == ~panicked

\* serve() blocks the whole server in ipc_recv() when thread_wakeups_pending()
\* is 0.  It may: a thread whose semaphore has a unit has tc_wakeup set, even
\* when several wait, a faster one takes the unit they were woken for, or the
\* semaphore is a reused one that others still wait on.
WakeupsAreFlagged ==
  \A t \in Threads :
    (tc[t].at # "run" /\ ~tc[t].stale /\ sems[tc[t].sem].counter > 0) => tc[t].wakeup

\* The messages in the ring of mailbox b, from head on.
Ring(b) ==
  LET e == mboxes[b]
      n == IF e.head = -1 THEN 0
           ELSE IF e.nextq > e.head THEN e.nextq - e.head
           ELSE e.nextq + MBOXSLOTS - e.head
  IN  [i \in 1 .. n |-> e.msg[(e.head + i - 1) % MBOXSLOTS]]

Queues == INSTANCE Mailbox WITH
  used <- {b \in Mboxes : ~mboxes[b].freed},
  box <- [b \in Mboxes |-> IF mboxes[b].freed THEN <<>> ELSE Ring(b)]

\* The rings with their two semaphores implement bounded FIFO queues.
MailboxSpec == Queues!Spec
=============================================================================
