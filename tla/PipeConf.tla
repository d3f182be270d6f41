------------------------------ MODULE PipeConf ------------------------------
(* The environments, descriptors and sizes of a pipe (inc/fd.h, lib/pipe.c). *)
EXTENDS Integers

CONSTANTS
  NProcs,      \* environments 1..NProcs; 1 creates the pipe
  NCPU,
  MAXFD,       \* descriptors of an environment
  DupTargets,  \* the descriptors dup() is called for
  PIPEBUFSIZ,
  Count,       \* n of every read() and write()
  Reader, Writer,  \* the environments that call read() and write()
  MaxBytes     \* bound on the bytes written

Procs == 1 .. NProcs
Fds == 0 .. MAXFD - 1

ASSUME PipeAssumption ==
  /\ NProcs \in Nat \ {0} /\ MAXFD \in Nat \ {0, 1}
  /\ NCPU \in Nat \ {0} /\ PIPEBUFSIZ \in Nat \ {0} /\ Count \in Nat \ {0}
  /\ MaxBytes \in Nat
  /\ {Reader, Writer} \subseteq Procs /\ DupTargets \subseteq Fds
=============================================================================
