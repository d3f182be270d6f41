--------------------------- MODULE SysArchProofs ----------------------------
(***************************************************************************)
(* For any number of threads, mailboxes, semaphores and slots: the         *)
(* mailboxes of net/lwip/jos/arch/sys_arch.c implement module Mailbox, no  *)
(* assertion in them fires, and no wakeup goes unflagged.                  *)
(***************************************************************************)
EXTENDS SysArch, FiniteSets, FiniteSetTheorems, SequenceTheorems, TLAPS

-----------------------------------------------------------------------------
(* The invariant. *)

Live(b) == ~mboxes[b].freed
Used(b) == {mboxes[b].queued_msg, mboxes[b].free_msg}
Waiting(t) == tc[t].at # "run"

\* How many messages are in a ring: head and nextq tell.
Size(e) ==
  IF e.head = -1 THEN 0
  ELSE IF e.nextq > e.head THEN e.nextq - e.head
  ELSE e.nextq + MBOXSLOTS - e.head

\* A semaphore in use is one of one mailbox, in one of the two roles.
SemsOwned ==
  /\ \A b \in Mboxes : Live(b) =>
       /\ Used(b) \subseteq Sems /\ mboxes[b].queued_msg # mboxes[b].free_msg
       /\ \A s \in Used(b) : ~sems[s].freed
       /\ \A d \in Mboxes : Live(d) /\ d # b => Used(b) \cap Used(d) = {}
  /\ \A s \in Sems : ~sems[s].freed => \E b \in Mboxes : Live(b) /\ s \in Used(b)

\* The semaphores count the messages and the room for more.
Counted ==
  \A b \in Mboxes : Live(b) =>
    /\ sems[mboxes[b].queued_msg].counter = Size(mboxes[b])
    /\ sems[mboxes[b].free_msg].counter = MBOXSLOTS - Size(mboxes[b])

\* A thread waits for a semaphore of a mailbox that is there; or that was freed,
\* if it is a fetch; and it will hear of a signal, or has heard of it.
Waiters ==
  \A t \in Threads : Waiting(t) =>
    /\ t = cur_tc \/ t \in Queued
    /\ tc[t].stale => tc[t].at = "fetch"
    /\ tc[t].at = "post" => tc[t].msg \in Msgs
    /\ tc[t].sem \in Sems
    /\ ~tc[t].stale =>
         /\ tc[t].box \in Mboxes /\ Live(tc[t].box)
         /\ tc[t].sem = IF tc[t].at = "post" THEN mboxes[tc[t].box].free_msg
                                             ELSE mboxes[tc[t].box].queued_msg
         /\ tc[t].wakeup \/ sems[tc[t].sem].waiters

\* The main thread is never gone.
MainLives == Main = cur_tc \/ Main \in Queued

Inv == TypeOK /\ ~panicked /\ MainLives /\ SemsOwned /\ Counted /\ Waiters /\ WakeupsAreFlagged
-----------------------------------------------------------------------------
(* The ring. *)

Boxes == [freed : BOOLEAN, head : MsgSlots \cup {-1}, nextq : MsgSlots,
          msg : [MsgSlots -> Msgs \cup {NULL}],
          queued_msg : Sems \cup {0}, free_msg : Sems \cup {0}]

RingOf(e) == [i \in 1 .. Size(e) |-> e.msg[(e.head + i - 1) % MBOXSLOTS]]

\* mboxes[b] after sys_mbox_trypost() and after sys_arch_mbox_fetch().
Posted(e, m) == [e EXCEPT !.nextq = (e.nextq + 1) % MBOXSLOTS,
                          !.msg[e.nextq] = m,
                          !.head = IF @ = -1 THEN e.nextq ELSE @]
Fetched(e) ==
  LET next == (e.head + 1) % MBOXSLOTS
  IN  [e EXCEPT !.head = IF next = e.nextq THEN -1 ELSE next]

\* Indices modulo the number of slots, as the ring uses them.
LEMMA Modulo ==
  ASSUME NEW x \in 0 .. 2 * MBOXSLOTS - 1
  PROVE  x % MBOXSLOTS = IF x < MBOXSLOTS THEN x ELSE x - MBOXSLOTS
  BY SysAssumption, Z3

LEMMA Index ==
  ASSUME NEW h \in 0 .. MBOXSLOTS - 1, NEW i \in 1 .. MBOXSLOTS
  PROVE  (h + i - 1) % MBOXSLOTS = IF h + i - 1 < MBOXSLOTS THEN h + i - 1 ELSE h + i - 1 - MBOXSLOTS
<1> DEFINE x == h + i - 1
<1>1. x \in 0 .. 2 * MBOXSLOTS - 1
  BY SysAssumption
<1> HIDE DEF x
<1>2. x % MBOXSLOTS = IF x < MBOXSLOTS THEN x ELSE x - MBOXSLOTS
  BY <1>1, Modulo, Zenon
<1> QED BY <1>1, <1>2, SysAssumption DEF x

LEMMA Wrap ==
  ASSUME NEW i \in MsgSlots
  PROVE  (i + 1) % MBOXSLOTS = IF i + 1 = MBOXSLOTS THEN 0 ELSE i + 1
<1>1. i + 1 \in 0 .. 2 * MBOXSLOTS - 1
  BY SysAssumption DEF MsgSlots
<1> QED BY <1>1, Modulo, SysAssumption DEF MsgSlots

LEMMA SizeType ==
  ASSUME NEW e \in Boxes
  PROVE  /\ Size(e) \in 0 .. MBOXSLOTS
         /\ Size(e) = 0 <=> e.head = -1
         /\ Size(e) = MBOXSLOTS <=> e.nextq = e.head
  BY SysAssumption DEF Boxes, Size, MsgSlots

\* A message more, and one less.
LEMMA PostedSize ==
  ASSUME NEW e \in Boxes, NEW m \in Msgs, Size(e) < MBOXSLOTS
  PROVE  /\ Posted(e, m) \in Boxes
         /\ Posted(e, m).freed = e.freed
         /\ Posted(e, m).queued_msg = e.queued_msg
         /\ Posted(e, m).free_msg = e.free_msg
         /\ Size(Posted(e, m)) = Size(e) + 1
<1>1. (e.nextq + 1) % MBOXSLOTS = IF e.nextq + 1 = MBOXSLOTS THEN 0 ELSE e.nextq + 1
  BY Wrap, Zenon DEF Boxes
<1>2. (e.nextq + 1) % MBOXSLOTS \in MsgSlots
  BY <1>1, SysAssumption DEF Boxes, MsgSlots
<1>3. Posted(e, m) \in Boxes
  BY <1>2, Zenon DEF Boxes, Posted
<1>4. Size(Posted(e, m)) = Size(e) + 1
  <2> DEFINE p == Posted(e, m)
  <2>1. p.nextq = (e.nextq + 1) % MBOXSLOTS /\ p.head = IF e.head = -1 THEN e.nextq ELSE e.head
    BY Zenon DEF Posted, Boxes
  <2>2. /\ e.nextq \in MsgSlots /\ e.head \in MsgSlots \cup {-1}
        /\ p.nextq = IF e.nextq + 1 = MBOXSLOTS THEN 0 ELSE e.nextq + 1
    BY <1>1, <2>1, Zenon DEF Boxes
  <2>3. e.nextq # e.head
    BY SizeType
  <2> HIDE DEF p
  <2>4. CASE e.head = -1
    BY <2>1, <2>2, <2>4, SysAssumption DEF p, Size, MsgSlots
  <2>5. CASE e.head # -1
    BY <2>1, <2>2, <2>3, <2>5, SysAssumption DEF p, Size, MsgSlots
  <2> QED BY <2>4, <2>5, Zenon DEF p
<1> QED BY <1>3, <1>4, Zenon DEF Posted, Boxes

LEMMA FetchedSize ==
  ASSUME NEW e \in Boxes, Size(e) > 0
  PROVE  /\ Fetched(e) \in Boxes
         /\ Fetched(e).freed = e.freed
         /\ Fetched(e).queued_msg = e.queued_msg
         /\ Fetched(e).free_msg = e.free_msg
         /\ Size(Fetched(e)) = Size(e) - 1
<1>1. e.head \in MsgSlots
  BY SizeType DEF Boxes
<1>2. (e.head + 1) % MBOXSLOTS = IF e.head + 1 = MBOXSLOTS THEN 0 ELSE e.head + 1
  BY <1>1, Wrap, Zenon
<1>3. Fetched(e) \in Boxes
  <2>1. (e.head + 1) % MBOXSLOTS \in MsgSlots
    BY <1>1, <1>2, SysAssumption DEF MsgSlots
  <2> QED BY <2>1, Zenon DEF Boxes, Fetched
<1>4. Size(Fetched(e)) = Size(e) - 1
  <2> DEFINE p == Fetched(e)
             next == (e.head + 1) % MBOXSLOTS
  <2>1. p.nextq = e.nextq /\ p.head = IF next = e.nextq THEN -1 ELSE next
    BY Zenon DEF Fetched, Boxes
  <2>2. e.nextq \in MsgSlots /\ next = IF e.head + 1 = MBOXSLOTS THEN 0 ELSE e.head + 1
    BY <1>2, Zenon DEF Boxes
  <2> HIDE DEF p, next
  <2> QED BY <1>1, <2>1, <2>2, SysAssumption DEF p, Size, MsgSlots
<1> QED BY <1>3, <1>4, Zenon DEF Fetched, Boxes

\* Appending at the tail, and removing at the head.
LEMMA PostedRing ==
  ASSUME NEW e \in Boxes, NEW m \in Msgs, Size(e) < MBOXSLOTS
  PROVE  RingOf(Posted(e, m)) = Append(RingOf(e), m)
<1> DEFINE p == Posted(e, m)
           n == Size(e)
<1>1. n \in 0 .. MBOXSLOTS - 1 /\ Size(p) = n + 1
  BY SizeType, PostedSize, SysAssumption
<1>2. /\ p.head = IF e.head = -1 THEN e.nextq ELSE e.head
      /\ p.msg = [e.msg EXCEPT ![e.nextq] = m]
  BY Zenon DEF Posted, Boxes
<1>3. e.nextq \in MsgSlots /\ e.head \in MsgSlots \cup {-1} /\ e.msg \in [MsgSlots -> Msgs \cup {NULL}]
  BY Zenon DEF Boxes
<1>4. RingOf(e) \in Seq(Msgs \cup {NULL}) /\ Len(RingOf(e)) = n
  <2>1. \A i \in 1 .. n : (e.head + i - 1) % MBOXSLOTS \in MsgSlots
    <3> SUFFICES ASSUME NEW i \in 1 .. n PROVE (e.head + i - 1) % MBOXSLOTS \in MsgSlots
      BY Zenon
    <3>1. e.head \in MsgSlots
      BY <1>1, <1>3, SizeType
    <3>2. e.head + i - 1 \in 0 .. 2 * MBOXSLOTS - 1
      BY <1>1, <3>1, SysAssumption DEF MsgSlots
    <3> QED BY <3>2, Modulo, SysAssumption DEF MsgSlots
  <2> QED BY <1>1, <1>3, <2>1 DEF RingOf
<1>5. ASSUME NEW i \in 1 .. n + 1
      PROVE  p.msg[(p.head + i - 1) % MBOXSLOTS] = IF i = n + 1 THEN m ELSE e.msg[(e.head + i - 1) % MBOXSLOTS]
  <2>1. CASE e.head = -1
    <3>1. n = 0 /\ i = 1 /\ p.head = e.nextq
      BY <1>1, <1>2, <2>1, SizeType
    <3>2. (p.head + i - 1) % MBOXSLOTS = e.nextq
      <4>1. p.head + i - 1 = e.nextq /\ e.nextq \in 0 .. 2 * MBOXSLOTS - 1 /\ e.nextq < MBOXSLOTS
        BY <1>3, <3>1, SysAssumption DEF MsgSlots
      <4> QED BY <4>1, Modulo, Zenon
    <3> QED BY <1>2, <1>3, <3>1, <3>2
  <2>2. CASE e.head # -1
    <3>1. p.head = e.head /\ e.head \in 0 .. MBOXSLOTS - 1 /\ e.nextq \in 0 .. MBOXSLOTS - 1
      BY <1>2, <1>3, <2>2, Zenon DEF MsgSlots
    <3>2. i \in 1 .. MBOXSLOTS
      BY <1>1, SysAssumption
    <3>3. n = IF e.nextq > e.head THEN e.nextq - e.head ELSE e.nextq + MBOXSLOTS - e.head
      BY <2>2, Zenon DEF Size
    <3>4. (e.head + i - 1) % MBOXSLOTS =
            IF e.head + i - 1 < MBOXSLOTS THEN e.head + i - 1 ELSE e.head + i - 1 - MBOXSLOTS
      BY <3>1, <3>2, Index, Zenon
    <3> HIDE DEF n
    <3>5. ((e.head + i - 1) % MBOXSLOTS = e.nextq) <=> (i = n + 1)
      BY <1>1, <3>1, <3>3, <3>4, SysAssumption
    <3>6. (e.head + i - 1) % MBOXSLOTS \in MsgSlots
      BY <1>1, <3>1, <3>4, SysAssumption DEF MsgSlots
    <3> QED BY <1>2, <1>3, <3>1, <3>5, <3>6
  <2> QED BY <2>1, <2>2, Zenon
<1>6. RingOf(p) = [i \in 1 .. n + 1 |-> IF i = n + 1 THEN m ELSE RingOf(e)[i]]
  <2>1. \A i \in 1 .. n : RingOf(e)[i] = e.msg[(e.head + i - 1) % MBOXSLOTS]
    BY Zenon DEF RingOf
  <2> QED BY <1>1, <1>5, <2>1 DEF RingOf
<1> DEFINE a == Append(RingOf(e), m)
<1>7. a \in Seq(Msgs \cup {NULL}) /\ Len(a) = n + 1 /\ a[n + 1] = m /\ \A i \in 1 .. n : a[i] = RingOf(e)[i]
  BY <1>4, AppendProperties
<1> HIDE DEF a, n, p
<1>8. RingOf(p) \in Seq(Msgs \cup {NULL}) /\ Len(RingOf(p)) = n + 1
  BY <1>1, <1>4, <1>6
<1>9. \A i \in 1 .. Len(RingOf(p)) : RingOf(p)[i] = a[i]
  BY <1>1, <1>6, <1>7, <1>8
<1> QED BY <1>7, <1>8, <1>9, SeqEqual, Zenon DEF a, p

LEMMA FetchedRing ==
  ASSUME NEW e \in Boxes, Size(e) > 0
  PROVE  RingOf(e) # << >> /\ RingOf(Fetched(e)) = Tail(RingOf(e))
<1> DEFINE p == Fetched(e)
           n == Size(e)
           next == (e.head + 1) % MBOXSLOTS
<1>1. n \in 1 .. MBOXSLOTS /\ Size(p) = n - 1
  BY SizeType, FetchedSize, SysAssumption
<1>2. p.head = (IF next = e.nextq THEN -1 ELSE next) /\ p.msg = e.msg
  BY Zenon DEF Fetched, Boxes
<1>3. e.head \in 0 .. MBOXSLOTS - 1 /\ e.nextq \in 0 .. MBOXSLOTS - 1 /\ e.msg \in [MsgSlots -> Msgs \cup {NULL}]
  BY SizeType DEF Boxes, MsgSlots
<1>4. next = IF e.head + 1 = MBOXSLOTS THEN 0 ELSE e.head + 1
  BY <1>3, Wrap, Zenon DEF MsgSlots
<1>5. \A i \in 1 .. n : (e.head + i - 1) % MBOXSLOTS =
            IF e.head + i - 1 < MBOXSLOTS THEN e.head + i - 1 ELSE e.head + i - 1 - MBOXSLOTS
  <2> SUFFICES ASSUME NEW i \in 1 .. n PROVE (e.head + i - 1) % MBOXSLOTS =
            IF e.head + i - 1 < MBOXSLOTS THEN e.head + i - 1 ELSE e.head + i - 1 - MBOXSLOTS
    BY Zenon
  <2>1. i \in 1 .. MBOXSLOTS
    BY <1>1, SysAssumption
  <2> QED BY <1>3, <2>1, Index, Zenon
<1>6. RingOf(e) \in Seq(Msgs \cup {NULL}) /\ Len(RingOf(e)) = n
  <2>1. \A i \in 1 .. n : (e.head + i - 1) % MBOXSLOTS \in MsgSlots
    <3> HIDE DEF n
    <3> QED BY <1>1, <1>3, <1>5, SysAssumption DEF MsgSlots
  <2> QED BY <1>1, <1>3, <2>1 DEF RingOf
<1>7. ASSUME NEW i \in 1 .. n - 1
      PROVE  (p.head + i - 1) % MBOXSLOTS = (e.head + (i + 1) - 1) % MBOXSLOTS
  <2>1. p.head = next
    <3>1. Size(p) # 0
      BY <1>1
    <3>2. p.head # -1
      BY <3>1, Zenon DEF Size
    <3> QED BY <1>2, <3>2, Zenon
  <2>2. p.head \in 0 .. MBOXSLOTS - 1 /\ i \in 1 .. MBOXSLOTS
    BY <1>1, <1>3, <1>4, <2>1, SysAssumption
  <2>3. (p.head + i - 1) % MBOXSLOTS =
            IF p.head + i - 1 < MBOXSLOTS THEN p.head + i - 1 ELSE p.head + i - 1 - MBOXSLOTS
    BY <2>2, Index, Zenon
  <2>4. i + 1 \in 1 .. n
    BY <1>1
  <2>5. (e.head + (i + 1) - 1) % MBOXSLOTS =
            IF e.head + (i + 1) - 1 < MBOXSLOTS THEN e.head + (i + 1) - 1 ELSE e.head + (i + 1) - 1 - MBOXSLOTS
    BY <1>5, <2>4, Zenon
  <2> HIDE DEF n, p, next
  <2> QED BY <1>1, <1>3, <1>4, <2>1, <2>3, <2>5, SysAssumption
<1>8. RingOf(p) = [i \in 1 .. n - 1 |-> RingOf(e)[i + 1]]
  <2>1. RingOf(p) = [i \in 1 .. n - 1 |-> e.msg[(e.head + (i + 1) - 1) % MBOXSLOTS]]
    BY <1>1, <1>2, <1>7, Zenon DEF RingOf
  <2>2. \A i \in 1 .. n - 1 : RingOf(e)[i + 1] = e.msg[(e.head + (i + 1) - 1) % MBOXSLOTS]
    <3> SUFFICES ASSUME NEW i \in 1 .. n - 1
                 PROVE  RingOf(e)[i + 1] = e.msg[(e.head + (i + 1) - 1) % MBOXSLOTS]
      BY Zenon
    <3>1. i + 1 \in 1 .. Size(e)
      BY <1>1
    <3> QED BY <3>1, Zenon DEF RingOf
  <2> QED BY <2>1, <2>2, Zenon
<1> HIDE DEF n, p
<1> DEFINE a == Tail(RingOf(e))
<1>9. RingOf(e) # << >>
  BY <1>1, <1>6
<1>10. a \in Seq(Msgs \cup {NULL}) /\ Len(a) = n - 1 /\ \A i \in 1 .. n - 1 : a[i] = RingOf(e)[i + 1]
  BY <1>6, <1>9, HeadTailProperties, Zenon
<1> HIDE DEF a
<1>11. RingOf(p) \in Seq(Msgs \cup {NULL}) /\ Len(RingOf(p)) = n - 1
  BY <1>1, <1>6, <1>8
<1>12. \A i \in 1 .. Len(RingOf(p)) : RingOf(p)[i] = a[i]
  BY <1>1, <1>8, <1>10, <1>11, Zenon
<1> QED BY <1>9, <1>10, <1>11, <1>12, SeqEqual, Zenon DEF a, p
-----------------------------------------------------------------------------
(* Threads. *)

\* Who is queued stays in the queue but for the first.
LEMMA QueueTail ==
  ASSUME thread_queue \in Seq(Threads), NEW t \in Queued
  PROVE  /\ thread_queue # << >>
         /\ t = Head(thread_queue) \/ \E i \in 1 .. Len(Tail(thread_queue)) : Tail(thread_queue)[i] = t
<1>1. PICK i \in 1 .. Len(thread_queue) : thread_queue[i] = t
  BY Zenon DEF Queued
<1>2. thread_queue # << >>
  BY <1>1
<1>3. CASE i = 1
  BY <1>1, <1>2, <1>3
<1>4. CASE i # 1
  <2>1. i - 1 \in 1 .. Len(Tail(thread_queue)) /\ Tail(thread_queue)[i - 1] = thread_queue[(i - 1) + 1]
    BY <1>2, <1>4, HeadTailProperties
  <2> QED BY <1>1, <1>2, <2>1, SMTT(30), ZenonT(30)
<1> QED BY <1>3, <1>4, Zenon

LEMMA InQueue ==
  ASSUME NEW q \in Seq(Threads), NEW u \in Threads, NEW t \in Threads,
         t = u \/ \E i \in 1 .. Len(q) : q[i] = t
  PROVE  Append(q, u) \in Seq(Threads) /\ \E i \in 1 .. Len(Append(q, u)) : Append(q, u)[i] = t
  BY AppendProperties

\* thread_yield() loses no thread.
LEMMA YieldKeeps ==
  ASSUME TypeOK, Yield
  PROVE  /\ cur_tc' \in Threads /\ thread_queue' \in Seq(Threads) /\ kill_queue' \in Seq(Threads)
         /\ \A t \in Threads : t = cur_tc \/ t \in Queued => t = cur_tc' \/ t \in Queued'
<1>1. CASE thread_queue = << >>
  BY <1>1, Zenon DEF Yield, TypeOK, Queued
<1>2. CASE thread_queue # << >>
  <2> DEFINE q == Tail(thread_queue)
  <2>1. cur_tc' = Head(thread_queue) /\ thread_queue' = Append(q, cur_tc) /\ kill_queue' = kill_queue
    BY <1>2, Zenon DEF Yield
  <2>2. Head(thread_queue) \in Threads /\ q \in Seq(Threads)
    BY <1>2, HeadTailProperties, Zenon DEF TypeOK
  <2> HIDE DEF q
  <2>3. ASSUME NEW t \in Threads, t = cur_tc \/ t \in Queued
        PROVE  t = cur_tc' \/ t \in Queued'
    <3>1. t = Head(thread_queue) \/ t = cur_tc \/ \E i \in 1 .. Len(q) : q[i] = t
      BY <2>3, QueueTail, Zenon DEF TypeOK, q
    <3>2. CASE t = Head(thread_queue)
      BY <2>1, <3>2, Zenon
    <3>3. CASE t = cur_tc \/ \E i \in 1 .. Len(q) : q[i] = t
      <4>1. \E i \in 1 .. Len(Append(q, cur_tc)) : Append(q, cur_tc)[i] = t
        <5>1. cur_tc \in Threads
          BY Zenon DEF TypeOK
        <5> QED BY <2>2, <3>3, <5>1, InQueue, Zenon
      <4> QED BY <2>1, <4>1, Zenon DEF Queued
    <3> QED BY <3>1, <3>2, <3>3, Zenon
  <2> QED BY <2>1, <2>2, <2>3, AppendProperties, Zenon DEF TypeOK
<1> QED BY <1>1, <1>2, Zenon

\* A step that only changes who runs.
LEMMA ThreadStep ==
  ASSUME Inv, UNCHANGED <<tc, sems, mboxes, panicked>>,
         cur_tc' \in Threads, thread_queue' \in Seq(Threads), kill_queue' \in Seq(Threads),
         MainLives', \A t \in Threads : Waiting(t) => t = cur_tc' \/ t \in Queued'
  PROVE  Inv'
<1>1. TypeOK' /\ ~panicked'
  BY Zenon DEF Inv, TypeOK, Boxes
<1>2. SemsOwned' /\ Counted' /\ WakeupsAreFlagged'
  BY DEF Inv, SemsOwned, Counted, WakeupsAreFlagged, Live, Used, Size
<1>3. Waiters'
  BY Zenon DEF Inv, Waiters, Waiting, Live
<1> QED BY <1>1, <1>2, <1>3, Zenon DEF Inv

LEMMA YieldStep ==
  ASSUME Inv, Yield, UNCHANGED <<tc, sems, mboxes, panicked>>
  PROVE  Inv'
<1>1. /\ cur_tc' \in Threads /\ thread_queue' \in Seq(Threads) /\ kill_queue' \in Seq(Threads)
      /\ \A t \in Threads : t = cur_tc \/ t \in Queued => t = cur_tc' \/ t \in Queued'
  BY YieldKeeps, Zenon DEF Inv
<1>2. MainLives'
  BY <1>1, SysAssumption, Zenon DEF Inv, MainLives
<1>3. \A t \in Threads : Waiting(t) => t = cur_tc' \/ t \in Queued'
  BY <1>1, Zenon DEF Inv, Waiters
<1> QED BY <1>1, <1>2, <1>3, ThreadStep, Zenon

LEMMA CreateStep ==
  ASSUME Inv, NEW t \in Threads, ThreadCreate(t)
  PROVE  Inv'
<1>1. /\ thread_queue' = Append(thread_queue, t) /\ thread_queue \in Seq(Threads)
      /\ cur_tc' = cur_tc /\ kill_queue' = kill_queue /\ UNCHANGED <<tc, sems, mboxes, panicked>>
  BY Zenon DEF ThreadCreate, Inv, TypeOK
<1>2. \A u \in Threads : u = cur_tc \/ u \in Queued => u = cur_tc' \/ u \in Queued'
  BY <1>1, InQueue DEF Queued
<1>3. MainLives' /\ \A u \in Threads : Waiting(u) => u = cur_tc' \/ u \in Queued'
  BY <1>2, SysAssumption, Zenon DEF Inv, MainLives, Waiters
<1> QED BY <1>1, <1>3, ThreadStep, AppendProperties, Zenon DEF Inv, TypeOK

LEMMA HaltStep ==
  ASSUME Inv, ThreadHalt
  PROVE  Inv'
<1>1. /\ tc[cur_tc].at = "run" /\ cur_tc # Main /\ UNCHANGED <<tc, sems, mboxes, panicked>>
      /\ cur_tc' = Head(thread_queue) /\ thread_queue' = Tail(thread_queue)
      /\ thread_queue \in Seq(Threads) /\ cur_tc \in Threads /\ kill_queue \in Seq(Threads)
  BY Zenon DEF ThreadHalt, Inv, TypeOK
<1>2. thread_queue # << >>
  BY <1>1, QueueTail, Zenon DEF Inv, MainLives
<1>3. \A u \in Threads : u \in Queued => u = cur_tc' \/ u \in Queued'
  BY <1>1, QueueTail, Zenon DEF Queued
<1>4. MainLives' /\ \A u \in Threads : Waiting(u) => u = cur_tc' \/ u \in Queued'
  BY <1>1, <1>3, SysAssumption, Zenon DEF Inv, MainLives, Waiters, Waiting
<1>5. cur_tc' \in Threads /\ thread_queue' \in Seq(Threads)
  BY <1>1, <1>2, HeadTailProperties, Zenon
<1>6. kill_queue' \in Seq(Threads)
  <2>1. kill_queue' = Append(IF kill_queue = << >> THEN << >> ELSE Tail(kill_queue), cur_tc)
    BY Zenon DEF ThreadHalt
  <2>2. (IF kill_queue = << >> THEN << >> ELSE Tail(kill_queue)) \in Seq(Threads)
    BY <1>1, HeadTailProperties, Zenon
  <2> QED BY <1>1, <2>1, <2>2, AppendProperties, Zenon
<1> QED BY <1>1, <1>4, <1>5, <1>6, ThreadStep, Zenon
-----------------------------------------------------------------------------
(* Semaphores.  Inv for one thread, one mailbox and one semaphore at a time. *)

\* The facts about a waiting thread, when its mailbox is there.
LEMMA WaiterFacts ==
  ASSUME Inv, NEW t \in Threads, Waiting(t), ~tc[t].stale
  PROVE  /\ tc[t].box \in Mboxes /\ Live(tc[t].box) /\ tc[t].sem \in Used(tc[t].box) /\ tc[t].sem \in Sems
         /\ tc[t].at \in {"post", "fetch"}
         /\ tc[t].at = "post" => tc[t].sem = mboxes[tc[t].box].free_msg /\ tc[t].msg \in Msgs
         /\ tc[t].at = "fetch" => tc[t].sem = mboxes[tc[t].box].queued_msg
         /\ tc[t].wakeup \/ sems[tc[t].sem].waiters
         /\ sems[tc[t].sem].counter > 0 => tc[t].wakeup
<1>1. tc[t].at \in {"post", "fetch"}
  BY Zenon DEF Inv, TypeOK, Contexts, Waiting
<1> QED BY <1>1, Zenon DEF Inv, Waiters, WakeupsAreFlagged, Used, Waiting

\* sys_arch_sem_wait() finds no unit: whether the thread begins to wait or goes on to.
LEMMA SleepStep ==
  ASSUME Inv, NEW b \in Mboxes, Live(b), NEW call \in {"post", "fetch"}, NEW m \in Msgs \cup {NULL},
         call = "post" => m \in Msgs, NEW timed \in BOOLEAN, NEW s,
         s = IF call = "post" THEN mboxes[b].free_msg ELSE mboxes[b].queued_msg,
         sems[s].counter = 0, Sleep(s, call, b, m, timed)
  PROVE  Inv'
<1> DEFINE c == [at |-> call, box |-> b, msg |-> m, sem |-> s,
                 wakeup |-> FALSE, stale |-> FALSE, timed |-> timed]
<1>1. /\ cur_tc' \in Threads /\ thread_queue' \in Seq(Threads) /\ kill_queue' \in Seq(Threads)
      /\ \A t \in Threads : t = cur_tc \/ t \in Queued => t = cur_tc' \/ t \in Queued'
  BY YieldKeeps, Zenon DEF Inv, Sleep
<1>2. MainLives'
  BY <1>1, SysAssumption, Zenon DEF Inv, MainLives
<1>3. s \in Sems /\ s \in Used(b)
  BY Zenon DEF Inv, SemsOwned, Used
<1>4. /\ cur_tc \in Threads /\ tc \in [Threads -> Contexts] /\ c \in Contexts
      /\ sems \in [Sems -> [freed : BOOLEAN, counter : 0 .. MBOXSLOTS, waiters : BOOLEAN]]
  BY <1>3, Zenon DEF Inv, TypeOK, Contexts
<1> HIDE DEF c
<1>5. /\ sems' = [sems EXCEPT ![s].waiters = TRUE] /\ UNCHANGED <<mboxes, panicked>>
      /\ tc' = [tc EXCEPT ![cur_tc] = c]
  BY Zenon DEF Sleep, c
<1>6. /\ tc'[cur_tc] = c /\ \A t \in Threads : t # cur_tc => tc'[t] = tc[t]
  BY <1>4, <1>5, Zenon
<1>7. \A r \in Sems : /\ sems'[r].freed = sems[r].freed /\ sems'[r].counter = sems[r].counter
                      /\ sems[r].waiters => sems'[r].waiters
  BY <1>3, <1>4, <1>5
<1>8. sems'[s].waiters /\ sems'[s].counter = 0
  BY <1>3, <1>4, <1>5
<1>9. TypeOK' /\ ~panicked'
  <2>1. sems' \in [Sems -> [freed : BOOLEAN, counter : 0 .. MBOXSLOTS, waiters : BOOLEAN]]
    <3>1. [sems[s] EXCEPT !.waiters = TRUE] \in [freed : BOOLEAN, counter : 0 .. MBOXSLOTS, waiters : BOOLEAN]
      <4>1. sems[s] \in [freed : BOOLEAN, counter : 0 .. MBOXSLOTS, waiters : BOOLEAN]
        BY <1>3, <1>4, Zenon
      <4> QED BY <4>1, Zenon
    <3> QED BY <1>3, <1>4, <1>5, <3>1, Zenon
  <2>2. tc' \in [Threads -> Contexts]
    BY <1>4, <1>5, Zenon
  <2> QED BY <1>1, <1>5, <2>1, <2>2, Zenon DEF Inv, TypeOK
<1>10. SemsOwned' /\ Counted'
  <2>1. SemsOwned'
    BY <1>5, <1>7, SMTT(30), ZenonT(30) DEF Inv, SemsOwned, Live, Used
  <2>2. Counted'
    BY <1>5, <1>7, SMTT(30), ZenonT(30) DEF Inv, SemsOwned, Counted, Live, Used, Size
  <2> QED BY <2>1, <2>2, Zenon
<1>11. Waiters'
  <2> SUFFICES ASSUME NEW t \in Threads, Waiting(t)'
               PROVE  /\ t = cur_tc' \/ t \in Queued'
                      /\ tc'[t].stale => tc'[t].at = "fetch"
                      /\ tc'[t].at = "post" => tc'[t].msg \in Msgs
                      /\ tc'[t].sem \in Sems
                      /\ ~tc'[t].stale =>
                           /\ tc'[t].box \in Mboxes /\ Live(tc[t].box)'
                           /\ tc'[t].sem = IF tc'[t].at = "post" THEN mboxes'[tc'[t].box].free_msg
                                                               ELSE mboxes'[tc'[t].box].queued_msg
                           /\ tc'[t].wakeup \/ sems'[tc'[t].sem].waiters
    BY Zenon DEF Waiters
  <2>1. CASE t = cur_tc
    <3>1. tc'[t] = c
      BY <1>6, <2>1, Zenon
    <3> QED BY <1>1, <1>3, <1>5, <1>8, <2>1, <3>1, SMTT(30), ZenonT(30) DEF c, Live
  <2>2. CASE t # cur_tc
    <3>1. tc'[t] = tc[t] /\ Waiting(t)
      BY <1>6, <2>2, Zenon DEF Waiting
    <3> QED BY <1>1, <1>5, <1>7, <3>1 DEF Inv, Waiters, Live
  <2> QED BY <2>1, <2>2, Zenon
<1>12. WakeupsAreFlagged'
  <2> SUFFICES ASSUME NEW t \in Threads, tc'[t].at # "run", ~tc'[t].stale, sems'[tc'[t].sem].counter > 0
               PROVE  tc'[t].wakeup
    BY Zenon DEF WakeupsAreFlagged
  <2>1. CASE t = cur_tc
    BY <1>6, <1>8, <2>1, SMTT(30), ZenonT(30) DEF c
  <2>2. CASE t # cur_tc
    <3>1. tc'[t] = tc[t]
      BY <1>6, <2>2, Zenon
    <3>2. Waiting(t) /\ ~tc[t].stale
      BY <3>1, Zenon DEF Waiting
    <3>3. tc[t].sem \in Sems /\ (sems[tc[t].sem].counter > 0 => tc[t].wakeup)
      BY <3>2, WaiterFacts, Zenon
    <3> QED BY <1>7, <3>1, <3>3, Zenon
  <2> QED BY <2>1, <2>2, Zenon
<1> QED BY <1>2, <1>9, <1>10, <1>11, <1>12, Zenon DEF Inv

\* The running thread leaves sys_arch_sem_wait() with nothing done.
LEMMA ResumeStep ==
  ASSUME Inv, tc' = Resumed, UNCHANGED <<threadVars, sems, mboxes, panicked>>
  PROVE  Inv'
<1>1. /\ cur_tc \in Threads /\ tc \in [Threads -> Contexts] /\ Running \in Contexts
      /\ Running.at = "run"
  BY Zenon DEF Inv, TypeOK, Contexts, Running
<1>2. tc'[cur_tc].at = "run" /\ \A t \in Threads : t # cur_tc => tc'[t] = tc[t]
  BY <1>1, Zenon DEF Resumed
<1>3. tc' \in [Threads -> Contexts]
  BY <1>1, Zenon DEF Resumed
<1>4. TypeOK' /\ ~panicked' /\ MainLives'
  BY <1>3, Zenon DEF Inv, TypeOK, MainLives, Queued, threadVars
<1>5. SemsOwned' /\ Counted'
  BY DEF Inv, SemsOwned, Counted, Live, Used, Size
<1>6. Waiters'
  BY <1>2 DEF Inv, Waiters, Waiting, Live, threadVars, Queued
<1>7. WakeupsAreFlagged'
  BY <1>2, Zenon DEF Inv, WakeupsAreFlagged
<1> QED BY <1>4, <1>5, <1>6, <1>7, Zenon DEF Inv

SemStates == [freed : BOOLEAN, counter : 0 .. MBOXSLOTS, waiters : BOOLEAN]

\* A call of the ring takes a unit of one semaphore of the mailbox and signals
\* the other; w is tc without the thread that makes the call.
LEMMA MoveStep ==
  ASSUME Inv, NEW b \in Mboxes, Live(b),
         NEW from \in Used(b), NEW to \in Used(b), from # to, sems[from].counter > 0,
         NEW w \in [Threads -> Contexts], w[cur_tc].at = "run",
         \A t \in Threads : t # cur_tc => w[t] = tc[t],
         Signal(to, Take(from), w),
         NEW e \in Boxes, mboxes' = [mboxes EXCEPT ![b] = e], ~e.freed,
         e.queued_msg = mboxes[b].queued_msg, e.free_msg = mboxes[b].free_msg,
         Size(e) = IF to = e.queued_msg THEN Size(mboxes[b]) + 1 ELSE Size(mboxes[b]) - 1,
         UNCHANGED <<threadVars, panicked>>
  PROVE  Inv'
<1>1. /\ from \in Sems /\ to \in Sems /\ cur_tc \in Threads
      /\ sems \in [Sems -> SemStates] /\ mboxes \in [Mboxes -> Boxes]
  BY Zenon DEF Inv, SemsOwned, TypeOK, SemStates, Boxes
<1>2. /\ sems' = [Take(from) EXCEPT ![to].counter = @ + 1, ![to].waiters = FALSE]
      /\ tc' = [t \in Threads |->
              IF Take(from)[to].waiters /\ t \in Queued /\ w[t].at # "run" /\ w[t].sem = to
              THEN [w[t] EXCEPT !.wakeup = TRUE] ELSE w[t]]
  BY Zenon DEF Signal
<1>3. /\ sems'[from].counter = sems[from].counter - 1 /\ sems'[to].counter = sems[to].counter + 1
      /\ \A r \in Sems : /\ sems'[r].freed = sems[r].freed
                         /\ r # to => sems'[r].waiters = sems[r].waiters
                         /\ r # from /\ r # to => sems'[r] = sems[r]
      /\ Take(from)[to].waiters = sems[to].waiters
  <2>1. /\ Take(from)[from] = [sems[from] EXCEPT !.counter = sems[from].counter - 1]
        /\ \A r \in Sems : r # from => Take(from)[r] = sems[r]
    BY <1>1, Zenon DEF Take
  <2>2. /\ sems'[to] = [[sems[to] EXCEPT !.counter = sems[to].counter + 1] EXCEPT !.waiters = FALSE]
        /\ \A r \in Sems : r # to => sems'[r] = Take(from)[r]
    BY <1>1, <1>2, <2>1, Zenon DEF Take
  <2>3. sems[from] \in SemStates /\ sems[to] \in SemStates
    BY <1>1, Zenon
  <2>4. /\ sems'[from].counter = sems[from].counter - 1 /\ sems'[to].counter = sems[to].counter + 1
        /\ sems'[from].freed = sems[from].freed /\ sems'[to].freed = sems[to].freed
        /\ sems'[from].waiters = sems[from].waiters
    BY <1>1, <2>1, <2>2, <2>3 DEF SemStates
  <2> QED BY <1>1, <2>1, <2>2, <2>4, Zenon
<1>4. sems[from].counter + sems[to].counter = MBOXSLOTS
  <2>1. Size(mboxes[b]) \in Int /\ MBOXSLOTS \in Int
    BY <1>1, SizeType, SysAssumption
  <2>2. \/ from = mboxes[b].queued_msg /\ to = mboxes[b].free_msg
        \/ from = mboxes[b].free_msg /\ to = mboxes[b].queued_msg
    BY Zenon DEF Used
  <2> QED BY <2>1, <2>2 DEF Inv, Counted
<1>5. sems' \in [Sems -> SemStates]
  <2>1. Take(from) \in [Sems -> SemStates] /\ Take(from)[to] = sems[to]
    <3>1. sems[from].counter - 1 \in 0 .. MBOXSLOTS
      BY <1>1, SysAssumption DEF SemStates
    <3>2. [sems[from] EXCEPT !.counter = @ - 1] \in SemStates
      BY <1>1, <3>1 DEF SemStates
    <3> QED BY <1>1, <3>2, Zenon DEF Take
  <2>2. sems[to].counter + 1 \in 0 .. MBOXSLOTS
    BY <1>1, <1>4, SysAssumption DEF SemStates
  <2>3. [[sems[to] EXCEPT !.counter = @ + 1] EXCEPT !.waiters = FALSE] \in SemStates
    BY <1>1, <2>2, Zenon DEF SemStates
  <2> QED BY <1>1, <1>2, <2>1, <2>3, Zenon
<1>6. /\ mboxes'[b] = e /\ \A d \in Mboxes : d # b => mboxes'[d] = mboxes[d]
      /\ mboxes' \in [Mboxes -> Boxes]
  BY <1>1, Zenon
<1>7. ASSUME NEW t \in Threads
      PROVE  /\ tc'[t].at = w[t].at /\ tc'[t].sem = w[t].sem /\ tc'[t].box = w[t].box
             /\ tc'[t].msg = w[t].msg /\ tc'[t].stale = w[t].stale /\ tc'[t] \in Contexts
             /\ w[t].wakeup => tc'[t].wakeup
             /\ sems[to].waiters /\ t \in Queued /\ w[t].at # "run" /\ w[t].sem = to => tc'[t].wakeup
  <2>1. w[t] \in Contexts /\ [w[t] EXCEPT !.wakeup = TRUE] \in Contexts
    BY ZenonT(30) DEF Contexts
  <2>2. CASE sems[to].waiters /\ t \in Queued /\ w[t].at # "run" /\ w[t].sem = to
    <3>1. tc'[t] = [w[t] EXCEPT !.wakeup = TRUE]
      BY <1>2, <1>3, <2>2, Zenon
    <3> QED BY <2>1, <3>1 DEF Contexts
  <2>3. CASE ~(sems[to].waiters /\ t \in Queued /\ w[t].at # "run" /\ w[t].sem = to)
    <3>1. tc'[t] = w[t]
      BY <1>2, <1>3, <2>3, Zenon
    <3> QED BY <2>1, <2>3, <3>1, Zenon
  <2> QED BY <2>2, <2>3, Zenon
<1>8. TypeOK' /\ ~panicked' /\ MainLives'
  <2>1. tc' \in [Threads -> Contexts]
    BY <1>2, <1>7, Zenon
  <2> QED BY <1>5, <1>6, <2>1, SMTT(30) DEF Inv, TypeOK, MainLives, Queued, threadVars, SemStates, Boxes
<1>9. SemsOwned'
  <2>1. \A d \in Mboxes : (Live(d)' <=> Live(d)) /\ Used(d)' = Used(d)
    BY <1>6, Zenon DEF Live, Used
  <2>2. \A d \in Mboxes : mboxes'[d].queued_msg = mboxes[d].queued_msg /\ mboxes'[d].free_msg = mboxes[d].free_msg
    BY <1>6, Zenon
  <2> QED BY <1>3, <2>1, <2>2, SMTT(30), ZenonT(30) DEF Inv, SemsOwned
<1>10. Counted'
  <2> SUFFICES ASSUME NEW d \in Mboxes, Live(d)'
               PROVE  /\ sems'[mboxes'[d].queued_msg].counter = Size(mboxes[d])'
                      /\ sems'[mboxes'[d].free_msg].counter = MBOXSLOTS - Size(mboxes[d])'
    BY Zenon DEF Counted
  <2>1. CASE d = b
    <3>1. /\ sems[mboxes[b].queued_msg].counter = Size(mboxes[b])
          /\ sems[mboxes[b].free_msg].counter = MBOXSLOTS - Size(mboxes[b])
      BY Zenon DEF Inv, Counted
    <3>2. Size(mboxes[d])' = Size(e)
      BY <1>6, <2>1, Zenon DEF Size
    <3>3. Size(mboxes[b]) \in Int /\ MBOXSLOTS \in Int
      BY SizeType, SysAssumption, <1>1
    <3> QED BY <1>3, <1>6, <2>1, <3>1, <3>2, <3>3, SMTT(30), ZenonT(30) DEF Used
  <2>2. CASE d # b
    <3>1. mboxes'[d] = mboxes[d] /\ Live(d) /\ Size(mboxes[d])' = Size(mboxes[d])
      BY <1>6, <2>2, Zenon DEF Live, Size
    <3>2. Used(d) \subseteq Sems /\ from \notin Used(d) /\ to \notin Used(d)
      BY <2>2, <3>1, Zenon DEF Inv, SemsOwned
    <3> QED BY <1>3, <3>1, <3>2, SMTT(30), ZenonT(30) DEF Inv, Counted, Used
  <2> QED BY <2>1, <2>2, Zenon
<1>11. ASSUME NEW t \in Threads, Waiting(t)'
       PROVE  /\ t # cur_tc /\ w[t] = tc[t] /\ Waiting(t) /\ t \in Queued
              /\ tc'[t].at = tc[t].at /\ tc'[t].sem = tc[t].sem /\ tc'[t].box = tc[t].box
              /\ tc'[t].msg = tc[t].msg /\ tc'[t].stale = tc[t].stale
  <2>1. w[t].at # "run"
    BY <1>7, <1>11, Zenon DEF Waiting
  <2>2. t # cur_tc /\ w[t] = tc[t]
    BY <2>1, Zenon
  <2> QED BY <1>7, <2>1, <2>2, SMTT(30), ZenonT(30) DEF Waiting, Inv, Waiters
<1>12. ASSUME NEW t \in Threads, Waiting(t)', ~tc[t].stale
       PROVE  /\ tc'[t].wakeup \/ sems'[tc[t].sem].waiters
              /\ sems'[tc[t].sem].counter > 0 => tc'[t].wakeup
  <2>1. /\ Waiting(t) /\ w[t] = tc[t] /\ t \in Queued /\ w[t].at # "run"
    BY <1>11, <1>12, Zenon DEF Waiting
  <2>2. /\ tc[t].sem \in Sems /\ (tc[t].wakeup \/ sems[tc[t].sem].waiters)
        /\ sems[tc[t].sem].counter > 0 => tc[t].wakeup
    BY <1>12, <2>1, WaiterFacts, Zenon
  <2>3. tc[t].wakeup => tc'[t].wakeup
    BY <1>7, <2>1, Zenon
  <2>4. CASE tc[t].sem = to
    <3>1. tc'[t].wakeup
      BY <1>7, <2>1, <2>2, <2>3, <2>4, Zenon
    <3> QED BY <3>1, Zenon
  <2>5. CASE tc[t].sem # to
    <3>1. sems'[tc[t].sem].waiters = sems[tc[t].sem].waiters
      BY <1>3, <2>2, <2>5, Zenon
    <3>2. sems'[tc[t].sem].counter > 0 => sems[tc[t].sem].counter > 0
      <4>1. sems[tc[t].sem].counter \in Int
        <5>1. sems[tc[t].sem] \in SemStates
          BY <1>1, <2>2, Zenon
        <5> QED BY <5>1 DEF SemStates
      <4>2. \/ sems'[tc[t].sem].counter = sems[tc[t].sem].counter
            \/ sems'[tc[t].sem].counter = sems[tc[t].sem].counter - 1
        BY <1>3, <2>2, <2>5, Zenon
      <4> QED BY <4>1, <4>2, SMTT(30), ZenonT(30)
    <3> QED BY <2>2, <2>3, <3>1, <3>2, Zenon
  <2> QED BY <2>4, <2>5, Zenon
<1>13. Waiters'
  <2> SUFFICES ASSUME NEW t \in Threads, Waiting(t)'
               PROVE  /\ t = cur_tc' \/ t \in Queued'
                      /\ tc'[t].stale => tc'[t].at = "fetch"
                      /\ tc'[t].at = "post" => tc'[t].msg \in Msgs
                      /\ tc'[t].sem \in Sems
                      /\ ~tc'[t].stale =>
                           /\ tc'[t].box \in Mboxes /\ Live(tc[t].box)'
                           /\ tc'[t].sem = IF tc'[t].at = "post" THEN mboxes'[tc'[t].box].free_msg
                                           ELSE mboxes'[tc'[t].box].queued_msg
                           /\ tc'[t].wakeup \/ sems'[tc'[t].sem].waiters
    BY Zenon DEF Waiters
  <2>1. t \in Queued'
    BY <1>11, SMTT(30), ZenonT(30) DEF threadVars, Queued
  <2>2. \A d \in Mboxes : /\ Live(d) => ~mboxes'[d].freed
                          /\ mboxes'[d].queued_msg = mboxes[d].queued_msg
                          /\ mboxes'[d].free_msg = mboxes[d].free_msg
    BY <1>6, Zenon DEF Live
  <2>3. ~tc[t].stale => tc'[t].wakeup \/ sems'[tc[t].sem].waiters
    BY <1>12, Zenon
  <2>4. /\ tc[t].stale => tc[t].at = "fetch"
        /\ tc[t].at = "post" => tc[t].msg \in Msgs
        /\ tc[t].sem \in Sems
        /\ ~tc[t].stale =>
             /\ tc[t].box \in Mboxes /\ Live(tc[t].box)
             /\ tc[t].sem = IF tc[t].at = "post" THEN mboxes[tc[t].box].free_msg
                            ELSE mboxes[tc[t].box].queued_msg
    BY <1>11, Zenon DEF Inv, Waiters
  <2>5. ~tc[t].stale => Live(tc[t].box)'
    <3>1. tc'[t].box = tc[t].box
      BY <1>11, Zenon
    <3> QED BY <2>2, <2>4, <3>1, Zenon DEF Live
  <2>6. /\ tc'[t].at = tc[t].at /\ tc'[t].sem = tc[t].sem /\ tc'[t].box = tc[t].box
        /\ tc'[t].msg = tc[t].msg /\ tc'[t].stale = tc[t].stale
    BY <1>11, Zenon
  <2>7. ~tc'[t].stale => tc'[t].sem = IF tc'[t].at = "post" THEN mboxes'[tc'[t].box].free_msg
                                      ELSE mboxes'[tc'[t].box].queued_msg
    <3> SUFFICES ASSUME ~tc[t].stale
                 PROVE  tc[t].sem = IF tc[t].at = "post" THEN mboxes'[tc[t].box].free_msg
                                    ELSE mboxes'[tc[t].box].queued_msg
      BY <2>6, Zenon
    <3>1. /\ mboxes'[tc[t].box].queued_msg = mboxes[tc[t].box].queued_msg
          /\ mboxes'[tc[t].box].free_msg = mboxes[tc[t].box].free_msg
      BY <2>2, <2>4, Zenon
    <3> QED BY <2>4, <3>1, Zenon
  <2>8. /\ tc'[t].stale => tc'[t].at = "fetch"
        /\ tc'[t].at = "post" => tc'[t].msg \in Msgs
        /\ tc'[t].sem \in Sems
        /\ ~tc'[t].stale => tc'[t].box \in Mboxes
    BY <2>4, <2>6, Zenon
  <2>9. ~tc'[t].stale => tc'[t].wakeup \/ sems'[tc'[t].sem].waiters
    BY <2>3, <2>6, Zenon
  <2>10. ~tc'[t].stale => Live(tc[t].box)'
    BY <2>5, <2>6, Zenon
  <2> QED BY <2>1, <2>7, <2>8, <2>9, <2>10, Zenon
<1>14. WakeupsAreFlagged'
  BY <1>11, <1>12, Zenon DEF WakeupsAreFlagged, Waiting
<1> QED BY <1>8, <1>9, <1>10, <1>13, <1>14, Zenon DEF Inv
-----------------------------------------------------------------------------
(* Mailboxes. *)

\* With a unit of free_msg the ring takes the message and asserts nothing false.
LEMMA EnqueueStep ==
  ASSUME Inv, NEW b \in Mboxes, Live(b), NEW m \in Msgs,
         sems[mboxes[b].free_msg].counter > 0,
         NEW w \in [Threads -> Contexts], w[cur_tc].at = "run",
         \A t \in Threads : t # cur_tc => w[t] = tc[t],
         Enqueue(b, m, Take(mboxes[b].free_msg), w), UNCHANGED threadVars
  PROVE  /\ Inv' /\ Size(mboxes[b]) < MBOXSLOTS
         /\ mboxes' = [mboxes EXCEPT ![b] = Posted(mboxes[b], m)]
<1> DEFINE e == mboxes[b]
           p == Posted(e, m)
<1>1. e \in Boxes /\ sems \in [Sems -> SemStates]
  BY Zenon DEF Inv, TypeOK, Boxes, SemStates
<1>2. /\ e.queued_msg # e.free_msg /\ e.queued_msg \in Sems /\ e.free_msg \in Sems
      /\ ~sems[e.queued_msg].freed /\ ~e.freed
  BY Zenon DEF Inv, SemsOwned, Used, Live
<1>3. sems[e.free_msg].counter = MBOXSLOTS - Size(e)
  BY Zenon DEF Inv, Counted
<1> HIDE DEF e
<1>4. e.nextq # e.head /\ Size(e) < MBOXSLOTS
  BY <1>1, <1>3, SizeType, SysAssumption DEF e
<1>5. ~Take(e.free_msg)[e.queued_msg].freed
  BY <1>1, <1>2, Zenon DEF Take
<1>6. /\ mboxes' = [mboxes EXCEPT ![b] = p] /\ Signal(e.queued_msg, Take(e.free_msg), w)
      /\ panicked' = panicked
  BY <1>4, <1>5, Zenon DEF Enqueue, Posted, e
<1>7. p \in Boxes /\ Size(p) = Size(e) + 1
  BY <1>1, <1>4, PostedSize, Zenon
<1>8. ~p.freed /\ p.queued_msg = e.queued_msg /\ p.free_msg = e.free_msg
  BY <1>1, <1>2, Zenon DEF Posted, Boxes
<1> HIDE DEF p
<1>9. e.free_msg \in Used(b) /\ e.queued_msg \in Used(b)
  BY Zenon DEF Used, e
<1>10. Inv'
  BY <1>2, <1>6, <1>7, <1>8, <1>9, MoveStep, Zenon DEF e
<1> QED BY <1>4, <1>6, <1>10, Zenon DEF e, p

\* With a unit of queued_msg there is a message to take.
LEMMA DequeueStep ==
  ASSUME Inv, NEW b \in Mboxes, Live(b),
         sems[mboxes[b].queued_msg].counter > 0,
         NEW w \in [Threads -> Contexts], w[cur_tc].at = "run",
         \A t \in Threads : t # cur_tc => w[t] = tc[t],
         Dequeue(b, Take(mboxes[b].queued_msg), w), UNCHANGED threadVars
  PROVE  /\ Inv' /\ Size(mboxes[b]) > 0
         /\ mboxes' = [mboxes EXCEPT ![b] = Fetched(mboxes[b])]
<1> DEFINE e == mboxes[b]
           p == Fetched(e)
<1>1. e \in Boxes /\ mboxes \in [Mboxes -> Boxes]
  BY Zenon DEF Inv, TypeOK, Boxes
<1>2. /\ e.queued_msg # e.free_msg /\ e.queued_msg \in Sems /\ e.free_msg \in Sems /\ ~e.freed
  BY Zenon DEF Inv, SemsOwned, Used, Live
<1>3. sems[e.queued_msg].counter = Size(e)
  BY Zenon DEF Inv, Counted
<1> HIDE DEF e
<1>4. e.head # -1 /\ Size(e) > 0
  BY <1>1, <1>3, SizeType, SysAssumption DEF e
<1>5. /\ mboxes' = [mboxes EXCEPT ![b] = p] /\ Signal(e.free_msg, Take(e.queued_msg), w)
      /\ panicked' = panicked
  BY <1>1, <1>4, Zenon DEF Dequeue, Fetched, e
<1>6. p \in Boxes /\ Size(p) = Size(e) - 1
  BY <1>1, <1>4, FetchedSize, Zenon
<1>7. ~p.freed /\ p.queued_msg = e.queued_msg /\ p.free_msg = e.free_msg
  BY <1>1, <1>2, Zenon DEF Fetched, Boxes
<1> HIDE DEF p
<1>8. e.free_msg \in Used(b) /\ e.queued_msg \in Used(b)
  BY Zenon DEF Used, e
<1>9. Inv'
  BY <1>2, <1>5, <1>6, <1>7, <1>8, MoveStep, ZenonT(30) DEF e
<1> QED BY <1>4, <1>5, <1>9, Zenon DEF e, p

LEMMA FreeStep ==
  ASSUME Inv, NEW b \in Mboxes, MboxFree(b)
  PROVE  Inv'
<1>1. /\ tc \in [Threads -> Contexts] /\ sems \in [Sems -> SemStates]
      /\ mboxes \in [Mboxes -> Boxes] /\ Live(b)
  BY Zenon DEF Inv, TypeOK, SemStates, Boxes, MboxFree, Live
<1>2. /\ mboxes' = [mboxes EXCEPT ![b].freed = TRUE]
      /\ sems' = [s \in Sems |-> IF s \in Used(b) THEN [sems[s] EXCEPT !.freed = TRUE] ELSE sems[s]]
      /\ tc' = [t \in Threads |->
                  IF tc[t].at # "run" /\ tc[t].sem \in Used(b) THEN [tc[t] EXCEPT !.stale = TRUE]
                  ELSE tc[t]]
      /\ UNCHANGED <<threadVars, panicked>>
      /\ \A t \in Threads : ~(tc[t].at = "post" /\ tc[t].box = b)
  BY Zenon DEF MboxFree, Used
<1>3. /\ ~Live(b)'
      /\ \A d \in Mboxes : d # b => mboxes'[d] = mboxes[d]
      /\ mboxes' \in [Mboxes -> Boxes]
  <2>1. mboxes'[b] = [mboxes[b] EXCEPT !.freed = TRUE] /\ [mboxes[b] EXCEPT !.freed = TRUE] \in Boxes
    BY <1>1, <1>2, Zenon DEF Boxes
  <2> QED BY <1>1, <1>2, <2>1, Zenon DEF Live, Boxes
<1>4. /\ \A s \in Sems : s \notin Used(b) => sems'[s] = sems[s]
      /\ \A s \in Sems : s \in Used(b) => sems'[s].freed
      /\ sems' \in [Sems -> SemStates]
  <2>1. ASSUME NEW s \in Sems
        PROVE  [sems[s] EXCEPT !.freed = TRUE] \in SemStates /\ [sems[s] EXCEPT !.freed = TRUE].freed
    BY <1>1, Zenon DEF SemStates
  <2> QED BY <1>1, <1>2, <2>1, Zenon
<1>5. ASSUME NEW t \in Threads
      PROVE  /\ tc'[t] \in Contexts /\ tc'[t].at = tc[t].at /\ tc'[t].sem = tc[t].sem
             /\ tc'[t].msg = tc[t].msg
             /\ IF tc[t].at # "run" /\ tc[t].sem \in Used(b) THEN tc'[t].stale ELSE tc'[t] = tc[t]
  BY <1>1, <1>2, Zenon DEF Contexts
<1>6. TypeOK' /\ ~panicked' /\ MainLives'
  <2>1. tc' \in [Threads -> Contexts]
    BY <1>2, <1>5, Zenon
  <2>2. UNCHANGED <<threadVars, panicked>>
    BY <1>2, Zenon
  <2> QED BY <1>3, <1>4, <2>1, <2>2 DEF Inv, TypeOK, MainLives, Queued, threadVars, SemStates, Boxes
<1>7. ASSUME NEW d \in Mboxes, Live(d)'
      PROVE  /\ d # b /\ Live(d) /\ mboxes'[d] = mboxes[d] /\ Used(d)' = Used(d)
             /\ \A s \in Used(d) : s \in Sems /\ sems'[s] = sems[s]
  <2>1. d # b /\ Live(d) /\ mboxes'[d] = mboxes[d] /\ Used(d)' = Used(d)
    BY <1>3, <1>7, Zenon DEF Live, Used
  <2> QED BY <1>1, <1>4, <2>1, Zenon DEF Inv, SemsOwned
<1>8. SemsOwned' /\ Counted'
  <2>1. ASSUME NEW s \in Sems, ~sems'[s].freed
        PROVE  \E d \in Mboxes : Live(d)' /\ s \in Used(d)'
    <3>1. s \notin Used(b) /\ ~sems[s].freed
      BY <1>4, <2>1, Zenon
    <3>2. PICK d \in Mboxes : Live(d) /\ s \in Used(d)
      BY <3>1, Zenon DEF Inv, SemsOwned
    <3> QED BY <1>3, <3>1, <3>2, Zenon DEF Live, Used
  <2>2. SemsOwned'
    BY <1>7, <2>1, SMTT(30), ZenonT(30) DEF Inv, SemsOwned
  <2>3. Counted'
    BY <1>7, SMTT(30), ZenonT(30) DEF Inv, Counted, Size, Used
  <2> QED BY <2>2, <2>3, Zenon
<1>9. ASSUME NEW t \in Threads, Waiting(t)
      PROVE  /\ tc'[t].stale => tc[t].at = "fetch"
             /\ ~tc'[t].stale => tc'[t] = tc[t] /\ ~tc[t].stale /\ tc[t].sem \notin Used(b)
  <2>1. CASE tc[t].stale
    <3>1. tc'[t].stale /\ tc[t].at = "fetch"
      BY <1>5, <1>9, <2>1, Zenon DEF Inv, Waiters
    <3> QED BY <3>1, Zenon
  <2>2. CASE ~tc[t].stale /\ tc[t].sem \in Used(b)
    <3>1. tc[t].box = b
      BY <1>1, <1>9, <2>2, WaiterFacts, Zenon DEF Inv, SemsOwned
    <3>2. tc[t].at = "fetch" /\ tc'[t].stale
      BY <1>2, <1>5, <1>9, <2>2, <3>1, WaiterFacts, Zenon DEF Waiting
    <3> QED BY <3>2, Zenon
  <2>3. CASE ~tc[t].stale /\ tc[t].sem \notin Used(b)
    BY <1>5, <2>3, Zenon
  <2> QED BY <2>1, <2>2, <2>3, Zenon
<1>10. ASSUME NEW t \in Threads, Waiting(t), ~tc'[t].stale
       PROVE  /\ tc'[t] = tc[t] /\ ~tc[t].stale /\ tc[t].box \in Mboxes /\ tc[t].box # b
              /\ mboxes'[tc[t].box] = mboxes[tc[t].box] /\ sems'[tc[t].sem] = sems[tc[t].sem]
  <2>1. tc'[t] = tc[t] /\ ~tc[t].stale /\ tc[t].sem \notin Used(b)
    BY <1>9, <1>10, Zenon
  <2>2. tc[t].box \in Mboxes /\ tc[t].sem \in Used(tc[t].box) /\ tc[t].sem \in Sems
    BY <1>10, <2>1, WaiterFacts, Zenon
  <2> QED BY <1>3, <1>4, <2>1, <2>2, Zenon
<1>11. Waiters'
  <2> SUFFICES ASSUME NEW t \in Threads, Waiting(t)'
               PROVE  /\ t = cur_tc' \/ t \in Queued'
                      /\ tc'[t].stale => tc'[t].at = "fetch"
                      /\ tc'[t].at = "post" => tc'[t].msg \in Msgs
                      /\ tc'[t].sem \in Sems
                      /\ ~tc'[t].stale =>
                           /\ tc'[t].box \in Mboxes /\ Live(tc[t].box)'
                           /\ tc'[t].sem = IF tc'[t].at = "post" THEN mboxes'[tc'[t].box].free_msg
                                           ELSE mboxes'[tc'[t].box].queued_msg
                           /\ tc'[t].wakeup \/ sems'[tc'[t].sem].waiters
    BY Zenon DEF Waiters
  <2>1. Waiting(t)
    BY <1>5, Zenon DEF Waiting
  <2>2. t = cur_tc' \/ t \in Queued'
    BY <1>2, <2>1, Zenon DEF Inv, Waiters, threadVars, Queued
  <2>3. /\ tc'[t].stale => tc'[t].at = "fetch"
        /\ tc'[t].at = "post" => tc'[t].msg \in Msgs
        /\ tc'[t].sem \in Sems
    BY <1>5, <1>9, <2>1 DEF Inv, Waiters
  <2>4. CASE ~tc'[t].stale
    <3>1. /\ tc[t].box \in Mboxes /\ Live(tc[t].box)
          /\ tc[t].sem = IF tc[t].at = "post" THEN mboxes[tc[t].box].free_msg
                         ELSE mboxes[tc[t].box].queued_msg
          /\ tc[t].wakeup \/ sems[tc[t].sem].waiters
      BY <1>10, <2>1, <2>4, Zenon DEF Inv, Waiters
    <3>2. /\ tc'[t] = tc[t] /\ mboxes'[tc[t].box] = mboxes[tc[t].box]
          /\ sems'[tc[t].sem] = sems[tc[t].sem]
      BY <1>10, <2>1, <2>4, Zenon
    <3>3. Live(tc[t].box)'
      BY <3>1, <3>2, Zenon DEF Live
    <3> QED BY <2>2, <2>3, <3>1, <3>2, <3>3, Zenon
  <2> QED BY <2>2, <2>3, <2>4, Zenon
<1>12. WakeupsAreFlagged'
  <2> SUFFICES ASSUME NEW t \in Threads, tc'[t].at # "run", ~tc'[t].stale, sems'[tc'[t].sem].counter > 0
               PROVE  tc'[t].wakeup
    BY Zenon DEF WakeupsAreFlagged
  <2>1. Waiting(t)
    BY <1>5, Zenon DEF Waiting
  <2> QED BY <1>10, <2>1, Zenon DEF Inv, WakeupsAreFlagged, Waiting
<1> QED BY <1>6, <1>8, <1>11, <1>12, Zenon DEF Inv

\* sys_mbox_new() finds two semaphores on the free list: NSEM allows for two a
\* mailbox, and every semaphore in use is one of a mailbox in use.
LEMMA TwoFree ==
  ASSUME Inv, NEW b \in Mboxes, ~Live(b)
  PROVE  \E s, r \in Sems : s # r /\ sems[s].freed /\ sems[r].freed
<1> DEFINE L == {d \in Mboxes : Live(d)}
           Q == {mboxes[d].queued_msg : d \in L}
           F == {mboxes[d].free_msg : d \in L}
           rest == Sems \ (Q \cup F)
<1>1. IsFiniteSet(L) /\ Cardinality(L) \in Nat /\ Cardinality(L) <= NMBOX - 1
  <2>1. IsFiniteSet(Mboxes) /\ Cardinality(Mboxes) = NMBOX
    BY SysAssumption, FS_Interval, 0 \in Int, NMBOX - 1 \in Int DEF Mboxes
  <2>2. IsFiniteSet(Mboxes \ {b}) /\ Cardinality(Mboxes \ {b}) = NMBOX - 1
    BY <2>1, FS_RemoveElement, Zenon
  <2>3. L \in SUBSET (Mboxes \ {b})
    BY Zenon
  <2> QED BY <2>2, <2>3, FS_Subset, FS_CardinalityType
<1>2. IsFiniteSet(Q) /\ Cardinality(Q) \in Nat /\ Cardinality(Q) <= NMBOX - 1
  <2>1. [d \in L |-> mboxes[d].queued_msg] \in Surjection(L, Q)
    BY Zenon DEF Surjection
  <2> HIDE DEF L, Q
  <2>2. IsFiniteSet(Q) /\ Cardinality(Q) <= Cardinality(L)
    BY <1>1, <2>1, FS_Surjection, Zenon
  <2>3. Cardinality(Q) \in Nat
    BY <2>2, FS_CardinalityType, Zenon
  <2> QED BY <1>1, <2>2, <2>3, SysAssumption
<1>3. IsFiniteSet(F) /\ Cardinality(F) \in Nat /\ Cardinality(F) <= NMBOX - 1
  <2>1. [d \in L |-> mboxes[d].free_msg] \in Surjection(L, F)
    BY Zenon DEF Surjection
  <2> HIDE DEF L, F
  <2>2. IsFiniteSet(F) /\ Cardinality(F) <= Cardinality(L)
    BY <1>1, <2>1, FS_Surjection, Zenon
  <2>3. Cardinality(F) \in Nat
    BY <2>2, FS_CardinalityType, Zenon
  <2> QED BY <1>1, <2>2, <2>3, SysAssumption
<1>4. \A s \in rest : s \in Sems /\ sems[s].freed
  BY SMTT(30), ZenonT(30) DEF Inv, SemsOwned, Used
<1> HIDE DEF L, Q, F
<1>5. IsFiniteSet(rest) /\ Cardinality(rest) >= 2
  <2>1. IsFiniteSet(Sems) /\ Cardinality(Sems) = NSEM
    BY SysAssumption, FS_Interval, 0 \in Int, NSEM - 1 \in Int DEF Sems
  <2>2. /\ IsFiniteSet(Q \cup F) /\ Cardinality(Q \cap F) \in Nat
        /\ Cardinality(Q \cup F) = Cardinality(Q) + Cardinality(F) - Cardinality(Q \cap F)
    <3>1. IsFiniteSet(Q \cap F)
      BY <1>2, FS_Intersection, Zenon
    <3> QED BY <1>2, <1>3, <3>1, FS_Union, FS_CardinalityType, Zenon
  <2>3. /\ IsFiniteSet(rest) /\ Cardinality(rest) = NSEM - Cardinality(Sems \cap (Q \cup F))
    BY <2>1, FS_Difference, Zenon
  <2>4. /\ Cardinality(Sems \cap (Q \cup F)) \in Nat
        /\ Cardinality(Sems \cap (Q \cup F)) <= Cardinality(Q \cup F)
    <3>1. Sems \cap (Q \cup F) \in SUBSET (Q \cup F)
      BY Zenon
    <3> QED BY <2>2, <3>1, FS_Subset, FS_CardinalityType, Zenon
  <2> HIDE DEF rest
  <2> QED BY <1>2, <1>3, <2>2, <2>3, <2>4, SysAssumption
<1> HIDE DEF rest
<1>6. PICK s \in rest : TRUE
  <2> SUFFICES ASSUME rest = {} PROVE FALSE
    BY Zenon
  <2> QED BY <1>5, FS_EmptySet
<1>7. PICK r \in rest : r # s
  <2> SUFFICES ASSUME rest = {s} PROVE FALSE
    BY Zenon
  <2>1. Cardinality({s}) = 1
    BY FS_Singleton, Zenon
  <2> QED BY <1>5, <2>1
<1> QED BY <1>4, <1>6, <1>7, Zenon

LEMMA NewStep ==
  ASSUME Inv, NEW b \in Mboxes, MboxNew(b)
  PROVE  /\ Inv' /\ ~Live(b) /\ Size(mboxes[b])' = 0
         /\ Live(b)' /\ \A d \in Mboxes : d # b => mboxes'[d] = mboxes[d]
<1>1. /\ sems \in [Sems -> SemStates] /\ mboxes \in [Mboxes -> Boxes] /\ ~Live(b)
  BY Zenon DEF Inv, TypeOK, SemStates, Boxes, MboxNew, Live
<1>2. PICK s, r \in Sems :
        /\ s # r /\ sems[s].freed /\ sems[r].freed
        /\ sems' = [sems EXCEPT ![s].freed = FALSE, ![s].counter = 0,
                                ![r].freed = FALSE, ![r].counter = MBOXSLOTS]
        /\ mboxes' = [mboxes EXCEPT ![b].freed = FALSE, ![b].head = -1, ![b].nextq = 0,
                                    ![b].queued_msg = s, ![b].free_msg = r]
        /\ UNCHANGED <<threadVars, tc, panicked>>
  BY <1>1, TwoFree, ZenonT(30) DEF MboxNew
<1> DEFINE e == [mboxes[b] EXCEPT !.freed = FALSE, !.head = -1, !.nextq = 0,
                                  !.queued_msg = s, !.free_msg = r]
<1>3. mboxes' = [mboxes EXCEPT ![b] = e]
  BY <1>1, <1>2, Zenon
<1>4. /\ e \in Boxes /\ ~e.freed /\ e.head = -1 /\ e.queued_msg = s /\ e.free_msg = r
  <2>1. mboxes[b] \in Boxes /\ 0 \in MsgSlots /\ s \in Sems /\ r \in Sems
    BY <1>1, SysAssumption DEF MsgSlots
  <2>2. /\ ~e.freed /\ e.freed \in BOOLEAN /\ e.head = -1 /\ e.nextq = 0 /\ e.msg = mboxes[b].msg
        /\ e.queued_msg = s /\ e.free_msg = r
    BY <2>1, Zenon DEF Boxes
  <2>3. e \in Boxes
    BY <2>1, Zenon DEF Boxes
  <2> QED BY <2>2, <2>3, Zenon
<1> HIDE DEF e
<1>5. /\ mboxes'[b] = e /\ \A d \in Mboxes : d # b => mboxes'[d] = mboxes[d]
      /\ mboxes' \in [Mboxes -> Boxes]
  BY <1>1, <1>3, <1>4, Zenon
<1>6. Size(e) = 0 /\ Size(mboxes[b])' = 0 /\ Live(b)'
  BY <1>4, <1>5, Zenon DEF Size, Live
<1>7. /\ sems'[s] = [[sems[s] EXCEPT !.freed = FALSE] EXCEPT !.counter = 0]
      /\ sems'[r] = [[sems[r] EXCEPT !.freed = FALSE] EXCEPT !.counter = MBOXSLOTS]
      /\ \A x \in Sems : x # s /\ x # r => sems'[x] = sems[x]
      /\ DOMAIN sems' = Sems /\ sems' = [x \in Sems |-> sems'[x]]
  BY <1>1, <1>2, Zenon
<1>8. /\ ~sems'[s].freed /\ sems'[s].counter = 0 /\ sems'[s] \in SemStates
      /\ ~sems'[r].freed /\ sems'[r].counter = MBOXSLOTS /\ sems'[r] \in SemStates
  <2>1. sems[s] \in SemStates /\ sems[r] \in SemStates
    BY <1>1, Zenon
  <2>2. 0 \in 0 .. MBOXSLOTS /\ MBOXSLOTS \in 0 .. MBOXSLOTS
    BY SysAssumption
  <2>3. ~sems'[s].freed /\ sems'[s].counter = 0 /\ sems'[s] \in SemStates
    BY <1>7, <2>1, <2>2, Zenon DEF SemStates
  <2>4. ~sems'[r].freed /\ sems'[r].counter = MBOXSLOTS /\ sems'[r] \in SemStates
    BY <1>7, <2>1, <2>2, Zenon DEF SemStates
  <2> QED BY <2>3, <2>4, Zenon
<1>9. TypeOK' /\ ~panicked' /\ MainLives'
  <2>1. sems' \in [Sems -> SemStates]
    <3>1. \A x \in Sems : sems'[x] \in SemStates
      BY <1>1, <1>7, <1>8, Zenon
    <3> QED BY <1>7, <3>1, Zenon
  <2>2. UNCHANGED <<threadVars, tc, panicked>>
    BY <1>2, Zenon
  <2> QED BY <1>5, <2>1, <2>2, Zenon DEF Inv, TypeOK, MainLives, Queued, threadVars, SemStates, Boxes
<1>10. ASSUME NEW d \in Mboxes, Live(d)
       PROVE  /\ d # b /\ mboxes'[d] = mboxes[d] /\ Used(d)' = Used(d) /\ Live(d)'
              /\ \A x \in Used(d) : x \in Sems /\ x # s /\ x # r /\ sems'[x] = sems[x]
  <2>1. d # b /\ mboxes'[d] = mboxes[d]
    BY <1>1, <1>5, <1>10, Zenon
  <2>2. \A x \in Used(d) : x \in Sems /\ ~sems[x].freed
    BY <1>10, Zenon DEF Inv, SemsOwned
  <2> QED BY <1>2, <1>7, <1>10, <2>1, <2>2, ZenonT(30) DEF Live, Used
<1>11. Used(b)' = {s, r}
  BY <1>4, <1>5, Zenon DEF Used
<1>12. \A d \in Mboxes : Live(d)' => d = b \/ Live(d)
  BY <1>5, Zenon DEF Live
<1>13. SemsOwned'
  <2>1. ASSUME NEW d \in Mboxes, Live(d)'
        PROVE  /\ Used(d)' \subseteq Sems /\ mboxes'[d].queued_msg # mboxes'[d].free_msg
               /\ \A x \in Used(d)' : ~sems'[x].freed
               /\ \A c \in Mboxes : Live(c)' /\ c # d => Used(d)' \cap Used(c)' = {}
    <3>1. CASE d = b
      <4>1. /\ Used(d)' \subseteq Sems /\ mboxes'[d].queued_msg # mboxes'[d].free_msg
            /\ \A x \in Used(d)' : ~sems'[x].freed
        <5>1. s # r
          BY <1>2, Zenon
        <5> QED BY <1>4, <1>5, <1>8, <1>11, <3>1, <5>1, Zenon
      <4>2. ASSUME NEW c \in Mboxes, Live(c)', c # d
            PROVE  Used(d)' \cap Used(c)' = {}
        BY <1>10, <1>11, <1>12, <3>1, <4>2, Zenon
      <4> QED BY <4>1, <4>2, Zenon
    <3>2. CASE d # b
      <4>1. Live(d)
        BY <1>12, <2>1, <3>2, Zenon
      <4>2. /\ Used(d) \subseteq Sems /\ mboxes[d].queued_msg # mboxes[d].free_msg
            /\ \A x \in Used(d) : ~sems[x].freed
        BY <4>1, Zenon DEF Inv, SemsOwned
      <4>3. ASSUME NEW c \in Mboxes, Live(c)', c # d
            PROVE  Used(d)' \cap Used(c)' = {}
        <5>1. CASE c = b
          BY <1>10, <1>11, <4>1, <5>1, Zenon
        <5>2. CASE c # b
          BY <1>10, <1>12, <4>1, <4>3, <5>2, SMTT(30), ZenonT(30) DEF Inv, SemsOwned
        <5> QED BY <5>1, <5>2, Zenon
      <4> QED BY <1>10, <4>1, <4>2, <4>3
    <3> QED BY <3>1, <3>2, Zenon
  <2>2. ASSUME NEW x \in Sems, ~sems'[x].freed
        PROVE  \E d \in Mboxes : Live(d)' /\ x \in Used(d)'
    <3>1. CASE x = s \/ x = r
      BY <1>6, <1>11, <3>1, Zenon
    <3>2. CASE x # s /\ x # r
      <4>1. PICK d \in Mboxes : Live(d) /\ x \in Used(d)
        BY <1>7, <2>2, <3>2, Zenon DEF Inv, SemsOwned
      <4> QED BY <1>10, <4>1, Zenon
    <3> QED BY <3>1, <3>2, Zenon
  <2> QED BY <2>1, <2>2, Zenon DEF SemsOwned
<1>14. Counted'
  <2> SUFFICES ASSUME NEW d \in Mboxes, Live(d)'
               PROVE  /\ sems'[mboxes'[d].queued_msg].counter = Size(mboxes[d])'
                      /\ sems'[mboxes'[d].free_msg].counter = MBOXSLOTS - Size(mboxes[d])'
    BY Zenon DEF Counted
  <2>1. CASE d = b
    BY <1>4, <1>5, <1>6, <1>8, <2>1, SysAssumption
  <2>2. CASE d # b
    <3>1. Live(d) /\ mboxes'[d] = mboxes[d] /\ Size(mboxes[d])' = Size(mboxes[d])
      BY <1>5, <1>12, <2>2, Zenon DEF Size
    <3> QED BY <1>10, <3>1, SMTT(30), ZenonT(30) DEF Inv, Counted, Used
  <2> QED BY <2>1, <2>2, Zenon
<1>15. ASSUME NEW t \in Threads, Waiting(t), ~tc[t].stale
       PROVE  /\ tc[t].box \in Mboxes /\ Live(tc[t].box)' /\ mboxes'[tc[t].box] = mboxes[tc[t].box]
              /\ sems'[tc[t].sem] = sems[tc[t].sem]
  <2>1. tc[t].box \in Mboxes /\ Live(tc[t].box) /\ tc[t].sem \in Used(tc[t].box)
    BY <1>15, WaiterFacts, Zenon
  <2>2. mboxes'[tc[t].box] = mboxes[tc[t].box] /\ sems'[tc[t].sem] = sems[tc[t].sem]
    BY <1>10, <2>1, Zenon
  <2>3. Live(tc[t].box)'
    <3>1. tc'[t] = tc[t]
      BY <1>2, Zenon
    <3> QED BY <2>1, <2>2, <3>1, Zenon DEF Live
  <2> QED BY <2>1, <2>2, <2>3, Zenon
<1>16. UNCHANGED <<threadVars, tc>>
  BY <1>2, Zenon
<1>17. Waiters'
  BY <1>15, <1>16, SMTT(30), ZenonT(30) DEF Inv, Waiters, Waiting, Queued, threadVars
<1>18. WakeupsAreFlagged'
  BY <1>15, <1>16, Zenon DEF Inv, WakeupsAreFlagged, Waiting
<1> QED BY <1>1, <1>5, <1>6, <1>9, <1>13, <1>14, <1>17, <1>18, Zenon DEF Inv
-----------------------------------------------------------------------------
(* Every step keeps the invariant, and does to the rings what Mailbox allows. *)

RingStep ==
  \/ UNCHANGED mboxes
  \/ \E b \in Mboxes :
       \/ /\ ~Live(b) /\ Live(b)' /\ Size(mboxes[b])' = 0
          /\ \A d \in Mboxes : d # b => mboxes'[d] = mboxes[d]
       \/ Live(b) /\ mboxes' = [mboxes EXCEPT ![b].freed = TRUE]
       \/ /\ Live(b) /\ Size(mboxes[b]) > 0
          /\ mboxes' = [mboxes EXCEPT ![b] = Fetched(mboxes[b])]
       \/ \E m \in Msgs : /\ Live(b) /\ Size(mboxes[b]) < MBOXSLOTS
                          /\ mboxes' = [mboxes EXCEPT ![b] = Posted(mboxes[b], m)]

LEMMA PostCase ==
  ASSUME Inv, NEW b \in Mboxes, NEW m \in Msgs, MboxPost(b, m)
  PROVE  Inv' /\ RingStep
<1> DEFINE s == mboxes[b].free_msg
<1>1. Live(b) /\ tc[cur_tc].at = "run" /\ tc \in [Threads -> Contexts]
  BY Zenon DEF MboxPost, Live, Inv, TypeOK
<1>2. CASE sems[s].counter > 0 /\ Enqueue(b, m, Take(s), tc) /\ UNCHANGED threadVars
  <2>1. /\ Inv' /\ Size(mboxes[b]) < MBOXSLOTS
        /\ mboxes' = [mboxes EXCEPT ![b] = Posted(mboxes[b], m)]
    BY <1>1, <1>2, EnqueueStep, Zenon
  <2> QED BY <1>1, <2>1, Zenon DEF RingStep
<1>3. CASE sems[s].counter = 0 /\ Sleep(s, "post", b, m, FALSE)
  <2>1. UNCHANGED mboxes
    BY <1>3, Zenon DEF Sleep
  <2>2. Inv'
    BY <1>1, <1>3, SleepStep, Zenon
  <2> QED BY <2>1, <2>2, Zenon DEF RingStep
<1> QED BY <1>2, <1>3, Zenon DEF MboxPost

LEMMA FetchCase ==
  ASSUME Inv, NEW b \in Mboxes, NEW timed \in BOOLEAN, MboxFetch(b, timed)
  PROVE  Inv' /\ RingStep
<1> DEFINE s == mboxes[b].queued_msg
<1>1. Live(b) /\ tc[cur_tc].at = "run" /\ tc \in [Threads -> Contexts]
  BY Zenon DEF MboxFetch, Live, Inv, TypeOK
<1>2. CASE sems[s].counter > 0 /\ Dequeue(b, Take(s), tc) /\ UNCHANGED threadVars
  <2>1. /\ Inv' /\ Size(mboxes[b]) > 0
        /\ mboxes' = [mboxes EXCEPT ![b] = Fetched(mboxes[b])]
    BY <1>1, <1>2, DequeueStep, Zenon
  <2> QED BY <1>1, <2>1, Zenon DEF RingStep
<1>3. CASE sems[s].counter = 0 /\ Sleep(s, "fetch", b, NULL, timed)
  <2>1. UNCHANGED mboxes
    BY <1>3, Zenon DEF Sleep
  <2>2. Inv'
    BY <1>1, <1>3, SleepStep, Zenon
  <2> QED BY <2>1, <2>2, Zenon DEF RingStep
<1> QED BY <1>2, <1>3, Zenon DEF MboxFetch

\* The facts about the running thread, when it is in sys_arch_sem_wait().
LEMMA ResumedFacts ==
  ASSUME Inv
  PROVE  /\ cur_tc \in Threads /\ tc[cur_tc] \in Contexts
         /\ Resumed \in [Threads -> Contexts] /\ Resumed[cur_tc].at = "run"
         /\ \A t \in Threads : t # cur_tc => Resumed[t] = tc[t]
<1>1. /\ cur_tc \in Threads /\ tc \in [Threads -> Contexts] /\ Running \in Contexts
      /\ Running.at = "run"
  BY Zenon DEF Inv, TypeOK, Contexts, Running
<1> QED BY <1>1, Zenon DEF Resumed

LEMMA ProceedCase ==
  ASSUME Inv, Proceed
  PROVE  Inv' /\ RingStep
<1> DEFINE c == tc[cur_tc]
<1>1. /\ ~c.stale /\ sems[c.sem].counter > 0 /\ c.at # "run" /\ UNCHANGED threadVars
      /\ \/ c.at = "post" /\ Enqueue(c.box, c.msg, Take(c.sem), Resumed)
         \/ c.at = "fetch" /\ Dequeue(c.box, Take(c.sem), Resumed)
  BY Zenon DEF Proceed
<1>2. /\ c.box \in Mboxes /\ Live(c.box)
      /\ c.at = "post" => c.sem = mboxes[c.box].free_msg /\ c.msg \in Msgs
      /\ c.at = "fetch" => c.sem = mboxes[c.box].queued_msg
  BY <1>1, ResumedFacts, WaiterFacts, Zenon DEF Waiting
<1> HIDE DEF c
<1>3. CASE c.at = "post" /\ Enqueue(c.box, c.msg, Take(c.sem), Resumed)
  <2>1. /\ Inv' /\ Size(mboxes[c.box]) < MBOXSLOTS
        /\ mboxes' = [mboxes EXCEPT ![c.box] = Posted(mboxes[c.box], c.msg)]
    <3>1. /\ sems[mboxes[c.box].free_msg].counter > 0 /\ c.msg \in Msgs
          /\ Enqueue(c.box, c.msg, Take(mboxes[c.box].free_msg), Resumed)
      BY <1>1, <1>2, <1>3, Zenon
    <3> QED BY <1>1, <1>2, <3>1, ResumedFacts, EnqueueStep, ZenonT(30), SMTT(30)
  <2> QED BY <1>2, <1>3, <2>1, Zenon DEF RingStep
<1>4. CASE c.at = "fetch" /\ Dequeue(c.box, Take(c.sem), Resumed)
  <2>1. /\ Inv' /\ Size(mboxes[c.box]) > 0
        /\ mboxes' = [mboxes EXCEPT ![c.box] = Fetched(mboxes[c.box])]
    <3>1. /\ sems[mboxes[c.box].queued_msg].counter > 0
          /\ Dequeue(c.box, Take(mboxes[c.box].queued_msg), Resumed)
      BY <1>1, <1>2, <1>4, Zenon
    <3> QED BY <1>1, <1>2, <3>1, ResumedFacts, DequeueStep, ZenonT(30), SMTT(30)
  <2> QED BY <1>2, <1>4, <2>1, Zenon DEF RingStep
<1> QED BY <1>1, <1>3, <1>4, Zenon

LEMMA WaitAgainCase ==
  ASSUME Inv, WaitAgain
  PROVE  Inv' /\ RingStep
<1> DEFINE c == tc[cur_tc]
<1>1. /\ ~c.stale /\ sems[c.sem].counter = 0 /\ c.at # "run"
      /\ Sleep(c.sem, c.at, c.box, c.msg, c.timed)
  BY Zenon DEF WaitAgain
<1>2. /\ c.box \in Mboxes /\ Live(c.box) /\ c.at \in {"post", "fetch"}
      /\ c.sem = IF c.at = "post" THEN mboxes[c.box].free_msg ELSE mboxes[c.box].queued_msg
      /\ c.at = "post" => c.msg \in Msgs
  BY <1>1, ResumedFacts, WaiterFacts, Zenon DEF Waiting
<1>3. c.msg \in Msgs \cup {NULL} /\ c.timed \in BOOLEAN
  BY ResumedFacts, Zenon DEF Contexts
<1> HIDE DEF c
<1>4. UNCHANGED mboxes
  BY <1>1, Zenon DEF Sleep
<1>5. Inv'
  BY <1>1, <1>2, <1>3, SleepStep, Zenon
<1> QED BY <1>4, <1>5, Zenon DEF RingStep

LEMMA Step ==
  ASSUME Inv, [Next]_vars
  PROVE  Inv' /\ RingStep
<1>1. CASE UNCHANGED vars
  <2>1. UNCHANGED <<cur_tc, thread_queue, kill_queue, tc, sems, mboxes, panicked>>
    BY <1>1, Zenon DEF vars, threadVars
  <2>2. /\ cur_tc' \in Threads /\ thread_queue' \in Seq(Threads) /\ kill_queue' \in Seq(Threads)
        /\ MainLives' /\ \A t \in Threads : Waiting(t) => t = cur_tc' \/ t \in Queued'
    BY <2>1, SMTT(30), ZenonT(30) DEF Inv, TypeOK, MainLives, Waiters, Queued
  <2> QED BY <2>1, <2>2, ThreadStep, Zenon DEF RingStep
<1>2. CASE ThreadYield \/ KeepWaiting
  BY <1>2, YieldStep, Zenon DEF ThreadYield, KeepWaiting, RingStep
<1>3. CASE ThreadHalt
  BY <1>3, HaltStep, Zenon DEF ThreadHalt, RingStep
<1>4. ASSUME NEW t \in Threads, ThreadCreate(t) PROVE Inv' /\ RingStep
  BY <1>4, CreateStep, Zenon DEF ThreadCreate, RingStep
<1>5. ASSUME NEW b \in Mboxes, MboxNew(b) PROVE Inv' /\ RingStep
  <2>1. /\ Inv' /\ ~Live(b) /\ Size(mboxes[b])' = 0
        /\ Live(b)' /\ \A d \in Mboxes : d # b => mboxes'[d] = mboxes[d]
    BY <1>5, NewStep, Zenon
  <2> QED BY <2>1, Zenon DEF RingStep
<1>6. ASSUME NEW b \in Mboxes, MboxFree(b) PROVE Inv' /\ RingStep
  <2>1. Live(b) /\ mboxes' = [mboxes EXCEPT ![b].freed = TRUE]
    BY <1>6, Zenon DEF MboxFree, Live
  <2>2. Inv'
    BY <1>6, FreeStep, Zenon
  <2> QED BY <2>1, <2>2, Zenon DEF RingStep
<1>7. CASE TimeOut
  BY <1>7, ResumeStep, Zenon DEF TimeOut, RingStep
<1>8. CASE FreedUnder
  <2>1. tc[cur_tc].at # "post"
    BY <1>8, ResumedFacts, Zenon DEF FreedUnder, Inv, Waiters, Waiting
  <2>2. tc' = Resumed /\ UNCHANGED <<threadVars, sems, mboxes, panicked>>
    BY <1>8, <2>1, Zenon DEF FreedUnder
  <2> QED BY <2>2, ResumeStep, Zenon DEF RingStep
<1> QED BY <1>1, <1>2, <1>3, <1>4, <1>5, <1>6, <1>7, <1>8, PostCase, FetchCase, ProceedCase,
           WaitAgainCase, Zenon DEF Next
-----------------------------------------------------------------------------
(* The theorems. *)

LEMMA InitInv ==
  ASSUME Init
  PROVE  Inv
<1>1. Running \in Contexts /\ Running.at = "run"
  BY Zenon DEF Running, Contexts
<1>2. TypeOK
  <2>1. tc \in [Threads -> Contexts]
    BY <1>1, Zenon DEF Init
  <2>2. sems \in [Sems -> [freed : BOOLEAN, counter : 0 .. MBOXSLOTS, waiters : BOOLEAN]]
    BY SysAssumption, SMTT(30), ZenonT(30) DEF Init
  <2>3. mboxes \in [Mboxes -> Boxes]
    BY SysAssumption DEF Init, Boxes, MsgSlots
  <2>4. cur_tc \in Threads
    BY SysAssumption, Zenon DEF Init
  <2>5. thread_queue \in Seq(Threads) /\ kill_queue \in Seq(Threads)
    BY SMTT(30), ZenonT(30) DEF Init
  <2>6. panicked \in BOOLEAN
    BY Zenon DEF Init
  <2> QED BY <2>1, <2>2, <2>3, <2>4, <2>5, <2>6, Zenon DEF TypeOK, Boxes
<1>3. \A t \in Threads : tc[t].at = "run"
  BY <1>1, Zenon DEF Init
<1>4. (\A b \in Mboxes : mboxes[b].freed) /\ \A s \in Sems : sems[s].freed
  BY Zenon DEF Init
<1>5. ~panicked /\ MainLives
  BY Zenon DEF Init, MainLives
<1>6. SemsOwned /\ Counted
  BY <1>4, Zenon DEF SemsOwned, Counted, Live
<1>7. Waiters /\ WakeupsAreFlagged
  BY <1>3, Zenon DEF Waiters, WakeupsAreFlagged, Waiting
<1> QED BY <1>2, <1>5, <1>6, <1>7, Zenon DEF Inv

\* The semaphores count what the ring holds, in every state.
THEOREM Invariant == Spec => []Inv
<1>1. Init => Inv
  BY InitInv, Zenon
<1>2. Inv /\ [Next]_vars => Inv'
  BY Step, Zenon
<1> QED BY <1>1, <1>2, PTL DEF Spec

\* No assert() or panic() of sys_mbox_new(), sys_mbox_post(), sys_mbox_trypost()
\* or sys_arch_mbox_fetch() fires.
THEOREM MboxSafe == Spec => []NoMboxPanic
<1>1. Inv => NoMboxPanic
  BY Zenon DEF Inv, NoMboxPanic
<1> QED BY <1>1, Invariant, PTL

\* A thread whose semaphore has a unit has tc_wakeup set, so serve() does not
\* block while a thread could go on.
THEOREM Wakeups == Spec => []WakeupsAreFlagged
<1>1. Inv => WakeupsAreFlagged
  BY Zenon DEF Inv
<1> QED BY <1>1, Invariant, PTL

used == {b \in Mboxes : ~mboxes[b].freed}
box == [b \in Mboxes |-> IF mboxes[b].freed THEN << >> ELSE Ring(b)]

LEMMA RingIsRingOf ==
  ASSUME NEW b \in Mboxes
  PROVE  Ring(b) = RingOf(mboxes[b])
  BY Zenon DEF Ring, RingOf, Size

\* What RingStep does to the mailboxes is a step of Mailbox.
LEMMA RingStepMaps ==
  ASSUME Inv, Inv', RingStep
  PROVE  [Queues!Next]_<<used, box>>
<1>1. mboxes \in [Mboxes -> Boxes] /\ mboxes' \in [Mboxes -> Boxes]
  BY Zenon DEF Inv, TypeOK, Boxes
<1>2. \A b \in Mboxes : /\ b \in used <=> Live(b)
                        /\ box[b] = IF Live(b) THEN RingOf(mboxes[b]) ELSE << >>
  BY RingIsRingOf, Zenon DEF used, box, Live
<1>3. \A b \in Mboxes : Ring(b)' = RingOf(mboxes'[b])
  BY Zenon DEF Ring, RingOf, Size
<1>4. \A b \in Mboxes : /\ b \in used' <=> ~mboxes'[b].freed
                        /\ box'[b] = IF mboxes'[b].freed THEN << >> ELSE RingOf(mboxes'[b])
  BY <1>3, Zenon DEF used, box
<1>5. /\ used \subseteq Mboxes /\ used' \subseteq Mboxes
      /\ box = [b \in Mboxes |-> box[b]] /\ box' = [b \in Mboxes |-> box'[b]]
  BY Zenon DEF used, box
<1>6. ASSUME NEW b \in Mboxes, \A d \in Mboxes : d # b => mboxes'[d] = mboxes[d]
      PROVE  \A d \in Mboxes : d # b => (d \in used' <=> d \in used) /\ box'[d] = box[d]
  BY <1>2, <1>4, <1>6, Zenon DEF Live
<1>7. CASE UNCHANGED mboxes
  BY <1>7, Zenon DEF used, box, Ring
<1>8. ASSUME NEW b \in Mboxes, ~Live(b), Live(b)', Size(mboxes[b])' = 0,
             \A d \in Mboxes : d # b => mboxes'[d] = mboxes[d]
      PROVE  Queues!New(b)
  <2>1. RingOf(mboxes'[b]) = << >> /\ ~mboxes'[b].freed
    BY <1>8, SMTT(30), ZenonT(30) DEF RingOf, Size, Live
  <2>2. b \notin used /\ b \in used' /\ box'[b] = box[b]
    BY <1>2, <1>4, <1>8, <2>1, Zenon
  <2>3. used' = used \cup {b}
    BY <1>5, <1>6, <1>8, <2>2, Zenon
  <2>4. box' = box
    BY <1>5, <1>6, <1>8, <2>2
  <2> QED BY <2>2, <2>3, <2>4, Zenon DEF Queues!New, used, box
<1>9. ASSUME NEW b \in Mboxes, Live(b), mboxes' = [mboxes EXCEPT ![b].freed = TRUE]
      PROVE  Queues!Free(b)
  <2>1. mboxes'[b].freed /\ \A d \in Mboxes : d # b => mboxes'[d] = mboxes[d]
    BY <1>1, <1>9, Zenon DEF Boxes
  <2>2. b \in used /\ b \notin used' /\ box'[b] = << >>
    BY <1>2, <1>4, <1>9, <2>1, Zenon
  <2>3. used' = used \ {b}
    BY <1>5, <1>6, <2>1, <2>2, Zenon
  <2>4. box' = [box EXCEPT ![b] = << >>]
    BY <1>5, <1>6, <2>1, <2>2, Zenon
  <2> QED BY <2>2, <2>3, <2>4, Zenon DEF Queues!Free, used, box
<1>10. ASSUME NEW b \in Mboxes, NEW e \in Boxes, Live(b), ~e.freed, mboxes' = [mboxes EXCEPT ![b] = e]
       PROVE  /\ b \in used /\ used' = used /\ box[b] = RingOf(mboxes[b])
              /\ box' = [box EXCEPT ![b] = RingOf(e)]
  <2>1. mboxes'[b] = e /\ \A d \in Mboxes : d # b => mboxes'[d] = mboxes[d]
    BY <1>1, <1>10, Zenon
  <2>2. b \in used /\ b \in used' /\ box[b] = RingOf(mboxes[b]) /\ box'[b] = RingOf(e)
    BY <1>2, <1>4, <1>10, <2>1, Zenon
  <2>3. used' = used
    BY <1>5, <1>6, <2>1, <2>2
  <2>4. box' = [box EXCEPT ![b] = RingOf(e)]
    BY <1>5, <1>6, <2>1, <2>2, Zenon
  <2> QED BY <2>2, <2>3, <2>4, Zenon
<1>11. ASSUME NEW b \in Mboxes, Live(b), Size(mboxes[b]) > 0,
              mboxes' = [mboxes EXCEPT ![b] = Fetched(mboxes[b])]
       PROVE  Queues!Fetch(b)
  <2> DEFINE e == Fetched(mboxes[b])
  <2>1. e \in Boxes /\ ~e.freed
    BY <1>1, <1>11, FetchedSize, Zenon DEF Live
  <2>2. RingOf(mboxes[b]) # << >> /\ RingOf(e) = Tail(RingOf(mboxes[b]))
    BY <1>1, <1>11, FetchedRing, Zenon
  <2> HIDE DEF e
  <2>3. /\ b \in used /\ used' = used /\ box[b] = RingOf(mboxes[b])
        /\ box' = [box EXCEPT ![b] = RingOf(e)]
    BY <1>10, <1>11, <2>1, Zenon DEF e
  <2>4. box[b] # << >> /\ box' = [box EXCEPT ![b] = Tail(box[b])]
    BY <2>2, <2>3, Zenon
  <2> QED BY <2>3, <2>4, Zenon DEF Queues!Fetch, used, box
<1>12. ASSUME NEW b \in Mboxes, NEW m \in Msgs, Live(b), Size(mboxes[b]) < MBOXSLOTS,
              mboxes' = [mboxes EXCEPT ![b] = Posted(mboxes[b], m)]
       PROVE  Queues!Post(b, m)
  <2> DEFINE e == Posted(mboxes[b], m)
  <2>1. e \in Boxes /\ ~e.freed
    BY <1>1, <1>12, PostedSize DEF Live
  <2>2. RingOf(e) = Append(RingOf(mboxes[b]), m)
    BY <1>1, <1>12, PostedRing, Zenon
  <2> HIDE DEF e
  <2>3. /\ b \in used /\ used' = used /\ box[b] = RingOf(mboxes[b])
        /\ box' = [box EXCEPT ![b] = RingOf(e)]
    BY <1>10, <1>12, <2>1, Zenon DEF e
  <2>4. Len(RingOf(mboxes[b])) < MBOXSLOTS
    <3>1. Size(mboxes[b]) \in Nat
      BY <1>1, SizeType, SysAssumption
    <3> QED BY <1>12, <3>1 DEF RingOf
  <2>5. box' = [box EXCEPT ![b] = Append(box[b], m)] /\ Len(box[b]) < MBOXSLOTS
    BY <2>2, <2>3, <2>4, Zenon
  <2> QED BY <2>3, <2>5, Zenon DEF Queues!Post, used, box
<1> QED BY <1>7, <1>8, <1>9, <1>11, <1>12, Zenon DEF RingStep, Queues!Next

\* The rings of sys_arch.c, with the semaphores that guard them and the threads
\* that wait, wake and time out, are bounded first-in first-out queues.
THEOREM Refinement == Spec => MailboxSpec
<1>1. Init => Queues!Init
  BY DEF Init, Queues!Init
<1>2. Inv /\ Inv' /\ [Next]_vars => [Queues!Next]_<<used, box>>
  BY Step, RingStepMaps, Zenon
<1> QED BY <1>1, <1>2, Invariant, PTL DEF Spec, MailboxSpec, Queues!Spec, used, box
=============================================================================
