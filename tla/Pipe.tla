-------------------------------- MODULE Pipe --------------------------------
(***************************************************************************)
(* Pipes (lib/pipe.c) under the descriptor table of lib/fd.c and fork()    *)
(* (lib/fork.c).  A pipe is three shared pages: one Fd page for each end   *)
(* and the page of struct Pipe, mapped once beside every Fd page.  Whether *)
(* the other end is closed is found out by comparing two of the kernel's   *)
(* reference counts, so every mapping and unmapping is a step of its own,  *)
(* as are the reads of the counts and the accesses to the shared ring.     *)
(*                                                                         *)
(* thisenv->env_runs is read only to be compared with itself a little      *)
(* later: switched holds the environments for which env_run() has counted  *)
(* a run in between, which it does when the CPU ran something else before. *)
(***************************************************************************)
EXTENDS FiniteSets, Sequences, PipeConf

Ends == {"r", "w"}
Other(x) == IF x = "r" THEN "w" ELSE "r"

VARIABLES
  life,      \* "none", "child" (not runnable yet), "live" or "gone"
  parent,
  running,   \* the environments on a CPU
  switched,
  fdpage,    \* which Fd page is mapped at a descriptor's slot
  datapage,  \* is the struct Pipe page mapped at fd2data() of it
  p_rpos, p_wpos, p_buf,
  got,       \* the bytes read() has stored
  call,      \* the library call the environment is in (see IdleCall)
  eof        \* the ends whose users were told that the other end is closed

schedVars == <<life, parent, running, switched>>
mapVars == <<fdpage, datapage>>
ringVars == <<p_rpos, p_wpos, p_buf, got>>
vars == <<schedVars, mapVars, ringVars, call, eof>>

PCs == {"idle", "unmap_data", "dup_close", "dup_data", "dup_fd", "fork",
        "test", "take", "store", "advance", "n", "ref1", "ref2", "nn", "yield"}

\* The locals of a call: where it is, what _pipeisclosed() is called for, the
\* descriptor, dup()'s target or fork()'s page and child, the bytes transferred,
\* and of _pipeisclosed() the count read first, then ret.
IdleCall == [pc |-> "idle", op |-> "poll", fd |-> 0, to |-> 0, child |-> 0,
             i |-> 0, ref |-> 0]

\* pageref() of the Fd page of an end, and of the struct Pipe page.
FdRef(x) == Cardinality({d \in Procs \X Fds : fdpage[d[1]][d[2]] = x})
PipeRef == Cardinality({d \in Procs \X Fds : datapage[d[1]][d[2]]})

\* pipe(): environment 1 has the read end at 0 and the write end at 1.
Init ==
  /\ life = [e \in Procs |-> IF e = 1 THEN "live" ELSE "none"]
  /\ parent = [e \in Procs |-> 0]
  /\ running = {1}
  /\ switched = {}
  /\ fdpage = [e \in Procs |-> [s \in Fds |->
                 IF e = 1 /\ s = 0 THEN "r"
                 ELSE IF e = 1 /\ s = 1 THEN "w" ELSE "none"]]
  /\ datapage = [e \in Procs |-> [s \in Fds |-> e = 1 /\ s \in {0, 1}]]
  /\ p_rpos = 0 /\ p_wpos = 0 /\ p_buf = [k \in 0 .. PIPEBUFSIZ - 1 |-> 0]
  /\ got = <<>>
  /\ call = [e \in Procs |-> IdleCall]
  /\ eof = {}
-----------------------------------------------------------------------------
\* The environment executes its next library step, returns from the call it is
\* in or enters one.
At(e, l) == e \in running /\ call[e].pc = l
Goto(e, l) == call' = [call EXCEPT ![e].pc = l]
Return(e) == call' = [call EXCEPT ![e] = IdleCall]
Enter(e, l, s, t) ==
  call' = [call EXCEPT ![e] = [IdleCall EXCEPT !.pc = l, !.fd = s, !.to = t]]

\* The runs counted for the environments in es, as _pipeisclosed() notices them.
Counted(es) ==
  switched' = switched \cup {e \in es : call[e].pc \in {"ref1", "ref2", "nn"}}

\* The CPU of e goes to another runnable environment, if there is one.
Ready == {f \in Procs \ running : life[f] = "live"}

GiveUp(e) ==
  \E f \in IF Ready = {} THEN {e} ELSE Ready :
    /\ running' = (running \ {e}) \cup {f}
    /\ IF f = e THEN UNCHANGED switched ELSE Counted({e, f})

\* A timer interrupt: sched_yield().
Tick(e) ==
  /\ e \in running
  /\ GiveUp(e)
  /\ UNCHANGED <<life, parent, mapVars, ringVars, call, eof>>

\* An idle CPU finds an environment at its next timer interrupt.
IdleCpu(f) ==
  /\ Cardinality(running) < NCPU /\ f \in Ready
  /\ running' = running \cup {f}
  /\ Counted({f})
  /\ UNCHANGED <<life, parent, mapVars, ringVars, call, eof>>

\* env_free(): all mappings go at once, under the kernel lock.
EnvFree(e) ==
  /\ life' = [life EXCEPT ![e] = "gone"]
  /\ running' = running \ {e}
  /\ switched' = switched \ {e}
  /\ fdpage' = [fdpage EXCEPT ![e] = [s \in Fds |-> "none"]]
  /\ datapage' = [datapage EXCEPT ![e] = [s \in Fds |-> FALSE]]
  /\ Return(e)
  /\ UNCHANGED <<parent, ringVars, eof>>

\* exit(), which does not close the descriptors.
Exit(e) == At(e, "idle") /\ EnvFree(e)

\* sys_env_destroy() of a child; one that is on another CPU goes on until its
\* next trap, so the step is when that happens.
Kill(e, f) ==
  /\ At(e, "idle") /\ parent[f] = e /\ life[f] = "live"
  /\ EnvFree(f)
-----------------------------------------------------------------------------
\* close(): fd_close() and devpipe_close() unmap the Fd page, then the other.
Close(e, s) ==
  /\ At(e, "idle") /\ fdpage[e][s] # "none"
  /\ fdpage' = [fdpage EXCEPT ![e][s] = "none"]
  /\ Enter(e, "unmap_data", s, 0)
  /\ UNCHANGED <<schedVars, datapage, ringVars, eof>>

\* Mutant of CloseData: devpipe_close() leaves the struct Pipe page mapped.
CloseDataKept(e) ==
  /\ At(e, "unmap_data")
  /\ Return(e)
  /\ UNCHANGED <<schedVars, mapVars, ringVars, eof>>

CloseData(e) ==
  /\ At(e, "unmap_data")
  /\ datapage' = [datapage EXCEPT ![e][call[e].fd] = FALSE]
  /\ Return(e)
  /\ UNCHANGED <<schedVars, fdpage, ringVars, eof>>

\* dup(): close(new), map the struct Pipe page, map the Fd page.
Dup(e, old, new) ==
  /\ At(e, "idle") /\ fdpage[e][old] # "none" /\ new # old
  /\ fdpage' = [fdpage EXCEPT ![e][new] = "none"]
  /\ Enter(e, IF fdpage[e][new] = "none" THEN "dup_data" ELSE "dup_close", old, new)
  /\ UNCHANGED <<schedVars, datapage, ringVars, eof>>

DupClose(e) ==
  /\ At(e, "dup_close")
  /\ datapage' = [datapage EXCEPT ![e][call[e].to] = FALSE]
  /\ Goto(e, "dup_data")
  /\ UNCHANGED <<schedVars, fdpage, ringVars, eof>>

DupData(e) ==
  /\ At(e, "dup_data")
  /\ datapage' = [datapage EXCEPT ![e][call[e].to] = datapage[e][call[e].fd]]
  /\ Goto(e, "dup_fd")
  /\ UNCHANGED <<schedVars, fdpage, ringVars, eof>>

DupFd(e) ==
  /\ At(e, "dup_fd")
  /\ fdpage' = [fdpage EXCEPT ![e][call[e].to] = fdpage[e][call[e].fd]]
  /\ Return(e)
  /\ UNCHANGED <<schedVars, datapage, ringVars, eof>>

\* fork(): sys_exofork(), then the mapped pages in the order of their addresses:
\* the Fd pages (0 .. MAXFD-1 of "to"), above them the data pages.
Fork(e, c) ==
  /\ At(e, "idle") /\ life[c] = "none"
  /\ life' = [life EXCEPT ![c] = "child"]
  /\ parent' = [parent EXCEPT ![c] = e]
  /\ call' = [call EXCEPT ![e] = [IdleCall EXCEPT !.pc = "fork", !.child = c]]
  /\ UNCHANGED <<running, switched, mapVars, ringVars, eof>>

\* duppage() of one page; after the last the child is made runnable.
ForkFdPage(e) ==
  /\ At(e, "fork") /\ call[e].to < MAXFD
  /\ LET k == call[e].to
     IN  fdpage' = [fdpage EXCEPT ![call[e].child][k] = fdpage[e][k]]
  /\ call' = [call EXCEPT ![e].to = @ + 1]
  /\ UNCHANGED <<schedVars, datapage, ringVars, eof>>

ForkDataPage(e) ==
  /\ At(e, "fork") /\ call[e].to \in MAXFD .. 2 * MAXFD - 1
  /\ LET k == call[e].to - MAXFD
     IN  datapage' = [datapage EXCEPT ![call[e].child][k] = datapage[e][k]]
  /\ call' = [call EXCEPT ![e].to = @ + 1]
  /\ UNCHANGED <<schedVars, fdpage, ringVars, eof>>

ForkEnd(e) ==
  /\ At(e, "fork") /\ call[e].to = 2 * MAXFD
  /\ life' = [life EXCEPT ![call[e].child] = "live"]
  /\ Return(e)
  /\ UNCHANGED <<parent, running, switched, mapVars, ringVars, eof>>
-----------------------------------------------------------------------------
\* read(), write() and pipeisclosed() on an open descriptor.
Call(e, what, s, l) ==
  /\ At(e, "idle")
  /\ call' = [call EXCEPT ![e] = [IdleCall EXCEPT !.pc = l, !.op = what, !.fd = s]]
  /\ UNCHANGED <<schedVars, mapVars, ringVars, eof>>

Read(e, s) == e = Reader /\ fdpage[e][s] = "r" /\ Call(e, "read", s, "test")

Write(e, s) ==
  /\ e = Writer /\ fdpage[e][s] = "w" /\ p_wpos + Count <= MaxBytes
  /\ Call(e, "write", s, "test")

PipeIsClosed(e, s) == fdpage[e][s] # "none" /\ Call(e, "poll", s, "n")

\* The loop head of devpipe_read().
ReadTest(e) ==
  /\ At(e, "test") /\ call[e].op = "read"
  /\ \/ /\ call[e].i < Count /\ p_rpos # p_wpos
        /\ Goto(e, "take")
     \/ /\ call[e].i = 0 /\ p_rpos = p_wpos
        /\ Goto(e, "n")
     \/ /\ call[e].i = Count \/ (call[e].i > 0 /\ p_rpos = p_wpos)
        /\ Return(e)
  /\ UNCHANGED <<schedVars, mapVars, ringVars, eof>>

\* Mutant of WriteTest: the room in the ring is off by one.
WriteTestOffByOne(e) ==
  /\ At(e, "test") /\ call[e].op = "write"
  /\ IF call[e].i = Count THEN Return(e)
     ELSE Goto(e, IF p_wpos > p_rpos + PIPEBUFSIZ THEN "n" ELSE "store")
  /\ UNCHANGED <<schedVars, mapVars, ringVars, eof>>

\* The loop head of devpipe_write().
WriteTest(e) ==
  /\ At(e, "test") /\ call[e].op = "write"
  /\ IF call[e].i = Count THEN Return(e)
     ELSE Goto(e, IF p_wpos >= p_rpos + PIPEBUFSIZ THEN "n" ELSE "store")
  /\ UNCHANGED <<schedVars, mapVars, ringVars, eof>>

Take(e) ==
  /\ At(e, "take")
  /\ got' = Append(got, p_buf[p_rpos % PIPEBUFSIZ])
  /\ Goto(e, "advance")
  /\ UNCHANGED <<schedVars, mapVars, p_rpos, p_wpos, p_buf, eof>>

\* The n-th byte written is n.
Store(e) ==
  /\ At(e, "store")
  /\ p_buf' = [p_buf EXCEPT ![p_wpos % PIPEBUFSIZ] = p_wpos + 1]
  /\ Goto(e, "advance")
  /\ UNCHANGED <<schedVars, mapVars, p_rpos, p_wpos, got, eof>>

\* p_rpos++ or p_wpos++, and i++.
Advance(e) ==
  /\ At(e, "advance")
  /\ IF call[e].op = "read"
     THEN p_rpos' = p_rpos + 1 /\ UNCHANGED p_wpos
     ELSE p_wpos' = p_wpos + 1 /\ UNCHANGED p_rpos
  /\ call' = [call EXCEPT ![e].pc = "test", ![e].i = @ + 1]
  /\ UNCHANGED <<schedVars, mapVars, p_buf, got, eof>>
-----------------------------------------------------------------------------
\* _pipeisclosed(): n = thisenv->env_runs.
ReadRuns(e) ==
  /\ At(e, "n")
  /\ switched' = switched \ {e}
  /\ Goto(e, "ref1")
  /\ UNCHANGED <<life, parent, running, mapVars, ringVars, eof>>

\* The two calls of pageref(), in the order in which gcc evaluates them.
ReadFdRef(e) ==
  /\ At(e, "ref1")
  /\ call' = [call EXCEPT ![e].pc = "ref2", ![e].ref = FdRef(fdpage[e][call[e].fd])]
  /\ UNCHANGED <<schedVars, mapVars, ringVars, eof>>

ReadPipeRef(e) ==
  /\ At(e, "ref2")
  /\ call' = [call EXCEPT ![e].pc = "nn", ![e].ref = IF @ = PipeRef THEN 1 ELSE 0]
  /\ UNCHANGED <<schedVars, mapVars, ringVars, eof>>

\* The answer: end of file, still open, or yield and look again.
Conclude(e) ==
  /\ IF call[e].ref = 1
     THEN eof' = eof \cup {fdpage[e][call[e].fd]} /\ Return(e)
     ELSE /\ IF call[e].op = "poll" THEN Return(e)
             ELSE call' = [call EXCEPT ![e].pc = "yield", ![e].ref = 0]
          /\ UNCHANGED eof
  /\ switched' = switched \ {e}
  /\ UNCHANGED <<life, parent, running, mapVars, ringVars>>

\* Mutant of CompareRuns: the answer is used without the second look.
CompareRunsOnce(e) == At(e, "nn") /\ Conclude(e)

\* nn = thisenv->env_runs.
CompareRuns(e) ==
  /\ At(e, "nn")
  /\ IF e \in switched
     THEN /\ call' = [call EXCEPT ![e].pc = "n", ![e].ref = 0]
          /\ UNCHANGED <<schedVars, mapVars, ringVars, eof>>
     ELSE Conclude(e)

\* sys_yield() in the loops of read() and write().
Yield(e) ==
  /\ At(e, "yield")
  /\ GiveUp(e)
  /\ Goto(e, "test")
  /\ UNCHANGED <<life, parent, mapVars, ringVars, eof>>
-----------------------------------------------------------------------------
\* A step inside a routine, which the environment takes by itself.
Proceed(e) ==
  \/ CloseData(e) \/ DupClose(e) \/ DupData(e) \/ DupFd(e)
  \/ ForkFdPage(e) \/ ForkDataPage(e) \/ ForkEnd(e)
  \/ ReadTest(e) \/ WriteTest(e) \/ Take(e) \/ Store(e) \/ Advance(e)
  \/ ReadRuns(e) \/ ReadFdRef(e) \/ ReadPipeRef(e) \/ CompareRuns(e) \/ Yield(e)

\* The calls a program may begin.
Begin ==
  \E e \in Procs :
    \/ \E s \in Fds : Close(e, s) \/ Read(e, s) \/ Write(e, s) \/ PipeIsClosed(e, s)
    \/ \E s \in Fds, t \in DupTargets : Dup(e, s, t)
    \/ \E c \in Procs : Fork(e, c) \/ Kill(e, c)

Next ==
  \/ Begin
  \/ \E e \in Procs : Proceed(e) \/ Tick(e) \/ IdleCpu(e) \/ Exit(e)

Spec == Init /\ [][Next]_vars
-----------------------------------------------------------------------------
\* Mappings, ring and calls keep their ranges, only live environments are on a
\* CPU, and env_run() puts no more there than there are CPUs.
TypeOK ==
  /\ life \in [Procs -> {"none", "child", "live", "gone"}]
  /\ parent \in [Procs -> 0 .. NProcs]
  /\ running \subseteq {e \in Procs : life[e] = "live"}
  /\ Cardinality(running) <= NCPU
  /\ switched \subseteq Procs
  /\ fdpage \in [Procs -> [Fds -> Ends \cup {"none"}]]
  /\ datapage \in [Procs -> [Fds -> BOOLEAN]]
  /\ p_rpos \in 0 .. MaxBytes /\ p_wpos \in 0 .. MaxBytes
  /\ p_buf \in [0 .. PIPEBUFSIZ - 1 -> 0 .. MaxBytes]
  /\ call \in [Procs -> [pc : PCs, op : {"read", "write", "poll"}, fd : Fds,
                         to : 0 .. 2 * MAXFD, child : 0 .. NProcs,
                         i : 0 .. Count, ref : 0 .. NProcs * MAXFD]]
  /\ eof \subseteq Ends

\* read(), write() and pipeisclosed() report the end of the file only when no
\* environment has the other end open: the answer of _pipeisclosed() stays right
\* although both counts may have moved while it was computed.
EofMeansClosed ==
  \A x \in eof : \A e \in Procs, s \in Fds : fdpage[e][s] # Other(x)

\* The bytes come out in the order they went in, none lost, none twice, however
\* the accesses of the reader and the writer to the ring interleave.
BytesInOrder == \A k \in 1 .. Len(got) : got[k] = k
=============================================================================
