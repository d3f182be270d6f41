------------------------------ MODULE ForkMem -------------------------------
(***************************************************************************)
(* What fork() (lib/fork.c) and spawn() (lib/spawn.c) promise a program:   *)
(* each environment has memory of its own.  The child of a fork starts     *)
(* with what its parent's pages held while the parent was in fork(), the   *)
(* child of a spawn with what was loaded into it; from then on a write     *)
(* changes the page of the writer and no other, except the pages that are  *)
(* shared on purpose (PTE_SHARE).  Module Cow implements this with pages   *)
(* that several environments map.                                          *)
(***************************************************************************)
CONSTANTS
  Envs,    \* the environments
  Vas,     \* the pages of an address space
  Stack,   \* those of the stack, which a parent writes while it is in fork()
  Values,  \* what a page may hold
  Zero,    \* what a new page holds
  Groups,  \* names for sets of pages shared with PTE_SHARE
  NULL

VARIABLES
  view,   \* what an environment reads in each of its pages; NULL: not mapped
  group,  \* the group a shared page belongs to; NULL: not shared
  phase,  \* "free", "making" (not yet runnable) or "run"
  maker   \* of an environment that is made: the one in fork() or spawn()

vars == <<view, group, phase, maker>>

None == [va \in Vas |-> NULL]

Init ==
  /\ \E e \in Envs :
       /\ phase = [f \in Envs |-> IF f = e THEN "run" ELSE "free"]
       /\ \E m \in [Vas -> Values \cup {NULL}] :
            view = [f \in Envs |-> IF f = e THEN m ELSE None]
  /\ group = [f \in Envs |-> None]
  /\ maker = [f \in Envs |-> [by |-> NULL, how |-> "none"]]

NotMaking(e) == \A c \in Envs : maker[c].by # e

Shares(e, va, f, vb) ==
  \/ <<e, va>> = <<f, vb>>
  \/ group[e][va] # NULL /\ group[f][vb] = group[e][va]

Write(e, va, v) ==
  /\ phase[e] = "run" /\ view[e][va] # NULL
  /\ \A c \in Envs : maker[c] = [by |-> e, how |-> "fork"] => va \in Stack
  /\ view' = [f \in Envs |-> [vb \in Vas |->
                IF Shares(e, va, f, vb) THEN v ELSE view[f][vb]]]
  /\ UNCHANGED <<group, phase, maker>>

\* A new page takes the place of what was there.
Alloc(e, va, g) ==
  /\ phase[e] = "run" /\ NotMaking(e)
  /\ g # NULL => \A f \in Envs, vb \in Vas : group[f][vb] # g
  /\ view' = [view EXCEPT ![e][va] = Zero]
  /\ group' = [group EXCEPT ![e][va] = g]
  /\ UNCHANGED <<phase, maker>>

Unmap(e, va) ==
  /\ phase[e] = "run" /\ \A c \in Envs : maker[c] # [by |-> e, how |-> "fork"]
  /\ view' = [view EXCEPT ![e][va] = NULL]
  /\ group' = [group EXCEPT ![e][va] = NULL]
  /\ UNCHANGED <<phase, maker>>

\* fork() or spawn() begins: a child with no memory.
Make(e, c, how) ==
  /\ phase[e] = "run" /\ phase[c] = "free" /\ NotMaking(e)
  /\ phase' = [phase EXCEPT ![c] = "making"]
  /\ maker' = [maker EXCEPT ![c] = [by |-> e, how |-> how]]
  /\ UNCHANGED <<view, group>>

\* The child gets what its parent has now.
Copy(e, c, va) ==
  /\ maker[c].by = e /\ view[e][va] # NULL
  /\ maker[c].how = "spawn" => group[e][va] # NULL
  /\ view' = [view EXCEPT ![c][va] = view[e][va]]
  /\ group' = [group EXCEPT ![c][va] = group[e][va]]
  /\ UNCHANGED <<phase, maker>>

\* spawn() loads a page from the file, or puts the arguments on the stack.
Load(c, va, v) ==
  /\ maker[c].how = "spawn"
  /\ view' = [view EXCEPT ![c][va] = v]
  /\ group' = [group EXCEPT ![c][va] = NULL]
  /\ UNCHANGED <<phase, maker>>

\* The child of a fork has every page its parent has, with what is in it now
\* (the stack: with what was in it at some time since the fork began).
Complete(e, c) ==
  \A va \in Vas :
    /\ view[e][va] = NULL <=> view[c][va] = NULL
    /\ group[c][va] = group[e][va]
    /\ va \notin Stack => view[c][va] = view[e][va]

Start(c) ==
  /\ maker[c].by # NULL
  /\ maker[c].how = "fork" => Complete(maker[c].by, c)
  /\ phase' = [phase EXCEPT ![c] = "run"]
  /\ maker' = [maker EXCEPT ![c] = [by |-> NULL, how |-> "none"]]
  /\ UNCHANGED <<view, group>>

\* fork() or spawn() is given up, and the memory of the child with it.
GiveUp(c) ==
  /\ maker[c].by # NULL
  /\ view' = [view EXCEPT ![c] = None]
  /\ group' = [group EXCEPT ![c] = None]
  /\ phase' \in {phase, [phase EXCEPT ![c] = "free"]}
  /\ maker' = [maker EXCEPT ![c] = [by |-> NULL, how |-> "none"]]

\* The end of an environment, and of what it was making.
Exit(e) ==
  LET gone == {e} \cup {c \in Envs : maker[c].by = e}
  IN  /\ phase[e] = "run"
      /\ view' = [f \in Envs |-> IF f \in gone THEN None ELSE view[f]]
      /\ group' = [f \in Envs |-> IF f \in gone THEN None ELSE group[f]]
      /\ phase' = [phase EXCEPT ![e] = "free"]
      /\ maker' = [f \in Envs |->
                     IF f \in gone THEN [by |-> NULL, how |-> "none"] ELSE maker[f]]

Next ==
  \/ \E e \in Envs, va \in Vas :
       \/ \E v \in Values : Write(e, va, v) \/ Load(e, va, v)
       \/ \E g \in Groups \cup {NULL} : Alloc(e, va, g)
       \/ Unmap(e, va)
       \/ \E c \in Envs : Copy(e, c, va)
  \/ \E e, c \in Envs, how \in {"fork", "spawn"} : Make(e, c, how)
  \/ \E e \in Envs : Start(e) \/ GiveUp(e) \/ Exit(e)

Spec == Init /\ [][Next]_vars
=============================================================================
