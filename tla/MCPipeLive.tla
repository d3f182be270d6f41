----------------------------- MODULE MCPipeLive -----------------------------
(***************************************************************************)
(* Pipe with a bound on the timer interrupts that hit _pipeisclosed()      *)
(* between its two reads of env_runs, each of which makes it start again.  *)
(***************************************************************************)
EXTENDS Pipe

CONSTANT MaxTicks

VARIABLE ticks

liveVars == <<vars, ticks>>

LiveInit == Init /\ ticks = 0

Looking(e) == call[e].pc \in {"ref1", "ref2", "nn"}

LiveTick(e) ==
  /\ Tick(e)
  /\ IF Looking(e) THEN ticks < MaxTicks /\ ticks' = ticks + 1
     ELSE UNCHANGED ticks

LiveNext ==
  \/ \E e \in Procs : LiveTick(e)
  \/ /\ Begin \/ \E e \in Procs : Proceed(e) \/ IdleCpu(e) \/ Exit(e)
     /\ UNCHANGED ticks

\* An environment that gets a CPU again and again gets on with its call: a time
\* slice is many instructions long.  The timer interrupts one that never gives
\* up the CPU, and a CPU without an environment finds one.  Nobody has to begin a
\* call or to exit.
Fairness ==
  \A e \in Procs : /\ SF_liveVars(Proceed(e) /\ UNCHANGED ticks)
                   /\ SF_liveVars(~Looking(e) /\ LiveTick(e))
                   /\ WF_liveVars(IdleCpu(e) /\ UNCHANGED ticks)

LiveSpec == LiveInit /\ [][LiveNext]_liveVars /\ Fairness

\* A read() on a pipe whose writers have all closed comes back, whether it was
\* waiting for a byte or in the middle of _pipeisclosed() when the last one
\* went: no reference count of a closed end is left behind.
ReadersLearnEof ==
  (call[Reader].op = "read" /\ \A f \in Procs, s \in Fds : fdpage[f][s] # "w")
    ~> call[Reader].op # "read"

\* A write() to a full pipe whose readers have all closed comes back.
WritersLearnEof ==
  (call[Writer].op = "write" /\ \A f \in Procs, s \in Fds : fdpage[f][s] # "r")
    ~> call[Writer].op # "write"
=============================================================================
