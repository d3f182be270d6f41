-------------------------------- MODULE Cow ---------------------------------
(***************************************************************************)
(* Address spaces as user programs build them: fork() with copy-on-write   *)
(* (lib/fork.c, lib/pgfault.c), the page fault upcall (page_fault_handler  *)
(* of kern/trap.c), spawn() (lib/spawn.c), and the end of an environment.  *)
(*                                                                         *)
(* A system call is one action, and between two calls every other          *)
(* environment may run; so may the environment's own code, which writes    *)
(* its stack while it is in fork(), and besides the buffers and the        *)
(* descriptors of the file system while it is in spawn().  A write to a    *)
(* page without PTE_W is a page fault: the handler then runs in the middle *)
(* of whatever the environment was doing (pf beside call).  Reference      *)
(* counts and page tables are in module Vm: here a page is free when no    *)
(* entry maps it (Vm!RefCountsExact, Vm!FreePagesExact), and which free    *)
(* page page_alloc() takes is left open.  User panic() traps into the      *)
(* kernel monitor, which keeps the kernel lock: the machine stops.         *)
(***************************************************************************)
EXTENDS Integers

CONSTANTS
  Envs,    \* the environments
  Pages,   \* the physical pages
  NVas,    \* how many pages an address space has between UTEXT and USTACKTOP
  Stack,   \* which of them are the stack
  Values,  \* what a page may hold
  Zero,    \* what page_alloc(ALLOC_ZERO) leaves in it
  NULL

\* Page numbers in the order of the address space.
UTEMP == 0
PFTEMP == 1
Vas == 2 .. NVas + 1
TopStack == NVas + 1
XSTACK == NVas + 2
Pns == 0 .. NVas + 2

\* PTE_W, and which of PTE_COW and PTE_SHARE.
Ptes == [page : Pages, w : BOOLEAN, tag : {"none", "cow", "share"}]

ASSUME CowAssumption ==
  /\ NVas \in Nat \ {0} /\ TopStack \in Stack /\ Stack \subseteq Vas /\ Zero \in Values
  /\ NULL \notin Pages /\ NULL \notin Envs /\ NULL \notin Values /\ NULL \notin Ptes

VARIABLES
  pt,          \* the page tables: an entry, or NULL
  data,        \* what each physical page holds
  env_status,  \* "free", "making" (ENV_NOT_RUNNABLE, in its parent's hands), "run"
  upcall,      \* env_pgfault_upcall is set, and _pgfault_handler with it
  call,        \* the fork() or spawn() an environment is in (see Call)
  pf,          \* the page fault its handler is at work on (see Fault)
  halted       \* a program has panicked

vars == <<pt, data, env_status, upcall, call, pf, halted>>

\* at: what it does next; pn: the page that is about; perm: the permissions
\* duppage() has chosen for it, and whether it is to map its own page again.
NoPerm == [w |-> FALSE, tag |-> "none", again |-> FALSE]
Idle == [at |-> "none", child |-> NULL, pn |-> 0, perm |-> NoPerm]
Call == [at : {"none", "exofork", "read", "child", "own", "xstack", "upcall", "status",
               "load", "give", "unmap", "close", "shared", "go"},
         child : Envs \cup {NULL}, pn : Pns,
         perm : [w : BOOLEAN, tag : {"none", "cow", "share"}, again : BOOLEAN]]

NoFault == [at |-> "none", pn |-> 0]
Fault == [at : {"none", "alloc", "copy", "map", "unmap"}, pn : Pns]

\* The calls of fork() and of spawn() once set_pgfault_handler() and open() are over.
Forking == {"exofork", "read", "child", "own", "xstack", "upcall", "status"}
Spawning == {"load", "give", "unmap", "close", "shared", "go"}

Pte(p, w, tag) == [page |-> p, w |-> w, tag |-> tag]
Empty == [pn \in Pns |-> NULL]

Free(p) == \A e \in Envs, pn \in Pns : pt[e][pn] # NULL => pt[e][pn].page # p
OutOfPages == \A p \in Pages : ~Free(p)

\* e executes user code (not the page fault handler's).
Runs(e) == ~halted /\ env_status[e] = "run" /\ pf[e] = NoFault
At(e, a) == Runs(e) /\ call[e].at = a

Goto(e, a) == call' = [call EXCEPT ![e].at = a]

\* panic() of lib/panic.c.
Panic == halted' = TRUE /\ UNCHANGED <<pt, data, env_status, upcall, call, pf>>

\* env_free(): every page is unmapped.
EnvFree(e) ==
  /\ pt' = [pt EXCEPT ![e] = Empty]
  /\ env_status' = [env_status EXCEPT ![e] = "free"]
  /\ upcall' = [upcall EXCEPT ![e] = FALSE]
  /\ call' = [call EXCEPT ![e] = Idle]
  /\ pf' = [pf EXCEPT ![e] = NoFault]
  /\ UNCHANGED <<data, halted>>

\* sys_page_alloc() for environment e, when there is a page.
PageAlloc(e, pn, p, w, tag) ==
  /\ Free(p)
  /\ pt' = [pt EXCEPT ![e][pn] = Pte(p, w, tag)]
  /\ data' = [data EXCEPT ![p] = Zero]
-----------------------------------------------------------------------------
\* User code.

\* A program in fork() writes only its stack.
MayWrite(e, va) == Runs(e) /\ (call[e].at \in Forking => va \in Stack)

CanWrite(e, va) == pt[e][va] # NULL /\ pt[e][va].w

Write(e, va, v) ==
  /\ MayWrite(e, va) /\ CanWrite(e, va)
  /\ data' = [data EXCEPT ![pt[e][va].page] = v]
  /\ UNCHANGED <<pt, env_status, upcall, call, pf, halted>>

\* page_fault_handler(): the environment is destroyed when it has no upcall or
\* no exception stack it can write; otherwise the upcall runs.
PageFault(e, va) ==
  /\ MayWrite(e, va) /\ ~CanWrite(e, va)
  /\ IF upcall[e] /\ CanWrite(e, XSTACK)
     THEN /\ pf' = [pf EXCEPT ![e] = [at |-> "alloc", pn |-> va]]
          /\ UNCHANGED <<pt, data, env_status, upcall, call, halted>>
     ELSE EnvFree(e)

\* sys_page_alloc() and sys_page_unmap() of a program, with or without PTE_SHARE,
\* for a page that is not its stack.
SysPageAlloc(e, va, tag) ==
  /\ At(e, "none") /\ va \notin Stack
  /\ \E p \in Pages : PageAlloc(e, va, p, TRUE, tag)
  /\ UNCHANGED <<env_status, upcall, call, pf, halted>>

SysPageUnmap(e, va) ==
  /\ At(e, "none") /\ va \notin Stack /\ pt[e][va] # NULL
  /\ pt' = [pt EXCEPT ![e][va] = NULL]
  /\ UNCHANGED <<data, env_status, upcall, call, pf, halted>>

\* exit(), or sys_env_destroy() by the parent: at any time.
Destroy(e) ==
  /\ ~halted /\ env_status[e] = "run"
  /\ EnvFree(e)
-----------------------------------------------------------------------------
\* pgfault(): the page must be copy-on-write; a new page at PFTEMP gets its
\* contents and takes its place.

FaultAt(e, a) == ~halted /\ pf[e].at = a

PgfaultAlloc(e) ==
  LET q == pt[e][pf[e].pn]
  IN  /\ FaultAt(e, "alloc")
      /\ IF q = NULL THEN Panic
         ELSE IF q.tag # "cow" \/ OutOfPages THEN Panic
         ELSE /\ \E p \in Pages : PageAlloc(e, PFTEMP, p, TRUE, "none")
              /\ pf' = [pf EXCEPT ![e].at = "copy"]
              /\ UNCHANGED <<env_status, upcall, call, halted>>

PgfaultCopy(e) ==
  /\ FaultAt(e, "copy")
  /\ data' = [data EXCEPT ![pt[e][PFTEMP].page] = data[pt[e][pf[e].pn].page]]
  /\ pf' = [pf EXCEPT ![e].at = "map"]
  /\ UNCHANGED <<pt, env_status, upcall, call, halted>>

PgfaultMap(e) ==
  /\ FaultAt(e, "map")
  /\ pt' = [pt EXCEPT ![e][pf[e].pn] = Pte(pt[e][PFTEMP].page, TRUE, "none")]
  /\ pf' = [pf EXCEPT ![e].at = "unmap"]
  /\ UNCHANGED <<data, env_status, upcall, call, halted>>

PgfaultUnmap(e) ==
  /\ FaultAt(e, "unmap")
  /\ pt' = [pt EXCEPT ![e][PFTEMP] = NULL]
  /\ pf' = [pf EXCEPT ![e] = NoFault]
  /\ UNCHANGED <<data, env_status, upcall, call, halted>>
-----------------------------------------------------------------------------
\* fork().

\* set_pgfault_handler(): the first time, an exception stack and the upcall.
SetPgfaultHandler(e) ==
  /\ At(e, "none")
  /\ IF upcall[e]
     THEN Goto(e, "exofork") /\ UNCHANGED <<pt, data, env_status, upcall, pf, halted>>
     ELSE IF OutOfPages THEN Panic
     ELSE /\ \E p \in Pages : PageAlloc(e, XSTACK, p, TRUE, "none")
          /\ upcall' = [upcall EXCEPT ![e] = TRUE]
          /\ Goto(e, "exofork")
          /\ UNCHANGED <<env_status, pf, halted>>

\* sys_exofork(); what follows in the child is an ordinary write (thisenv).
Exofork(e, from, to, pn) ==
  /\ At(e, from)
  /\ \E c \in Envs :
       /\ env_status[c] = "free"
       /\ env_status' = [env_status EXCEPT ![c] = "making"]
       /\ call' = [call EXCEPT ![e] = [Idle EXCEPT !.at = to, !.child = c, !.pn = pn]]
  /\ UNCHANGED <<pt, data, upcall, pf, halted>>

ForkExofork(e) ==
  IF \E c \in Envs : env_status[c] = "free" THEN Exofork(e, "exofork", "read", 0)
  ELSE At(e, "exofork") /\ Panic

\* Mutant of NextPage: the loop goes up to the exception stack.
NextPageWithXstack(e, from) == {pn \in from .. XSTACK : pt[e][pn] # NULL}

\* The loop of fork() over the pages below the exception stack and its guard.
NextPage(e, from) == {pn \in from .. TopStack : pt[e][pn] # NULL}

\* Mutant of DupPerm: a page that is copy-on-write already is not mapped again.
DupPermOnce(q) ==
  IF q.tag = "share" THEN [w |-> q.w, tag |-> "share", again |-> TRUE]
  ELSE IF q.w \/ q.tag = "cow" THEN [w |-> FALSE, tag |-> "cow", again |-> q.w]
  ELSE NoPerm

\* duppage() reads its own entry q: PTE_SHARE pages keep their permissions,
\* writable and copy-on-write ones become copy-on-write, others read-only.
DupPerm(q) ==
  IF q.tag = "share" THEN [w |-> q.w, tag |-> "share", again |-> TRUE]
  ELSE IF q.w \/ q.tag = "cow" THEN [w |-> FALSE, tag |-> "cow", again |-> TRUE]
  ELSE NoPerm

DuppageRead(e) ==
  /\ At(e, "read")
  /\ LET N == NextPage(e, call[e].pn)
     IN  \/ /\ N = {}
            /\ call' = [call EXCEPT ![e] = [@ EXCEPT !.at = "xstack", !.perm = NoPerm]]
         \/ \E pn \in N :
              /\ \A m \in N : pn <= m
              /\ call' = [call EXCEPT ![e] = [@ EXCEPT !.at = "child", !.pn = pn,
                                                     !.perm = DupPerm(pt[e][pn])]]
  /\ UNCHANGED <<pt, data, env_status, upcall, pf, halted>>

\* Its first call, into the child; it may need a page for a page table.
DuppageChild(e) ==
  LET k == call[e]
  IN  /\ At(e, "child")
      /\ \/ /\ pt' = [pt EXCEPT ![k.child][k.pn] = Pte(pt[e][k.pn].page, k.perm.w, k.perm.tag)]
            /\ call' = [call EXCEPT ![e] =
                          IF k.perm.again THEN [k EXCEPT !.at = "own"]
                          ELSE [k EXCEPT !.at = "read", !.pn = k.pn + 1]]
            /\ UNCHANGED <<data, env_status, upcall, pf, halted>>
         \/ OutOfPages /\ Panic

\* Mutant of DuppageOwn: the parent's own page stays as it is.
DuppageOwnKept(e) ==
  /\ At(e, "own")
  /\ call' = [call EXCEPT ![e].at = "read", ![e].pn = @ + 1]
  /\ UNCHANGED <<pt, data, env_status, upcall, pf, halted>>

\* Its second call, on the parent's own page, whatever that is by now.
DuppageOwn(e) ==
  LET k == call[e]
  IN  /\ At(e, "own")
      /\ pt' = [pt EXCEPT ![e][k.pn] = Pte(pt[e][k.pn].page, k.perm.w, k.perm.tag)]
      /\ call' = [call EXCEPT ![e] = [k EXCEPT !.at = "read", !.pn = k.pn + 1]]
      /\ UNCHANGED <<data, env_status, upcall, pf, halted>>

ForkXstack(e) ==
  /\ At(e, "xstack")
  /\ IF OutOfPages THEN Panic
     ELSE /\ \E p \in Pages : PageAlloc(call[e].child, XSTACK, p, TRUE, "none")
          /\ Goto(e, "upcall")
          /\ UNCHANGED <<env_status, upcall, pf, halted>>

ForkUpcall(e) ==
  /\ At(e, "upcall")
  /\ upcall' = [upcall EXCEPT ![call[e].child] = TRUE]
  /\ Goto(e, "status")
  /\ UNCHANGED <<pt, data, env_status, pf, halted>>

\* sys_env_set_status(ENV_RUNNABLE), and fork() returns.
SetRunnable(e, from) ==
  /\ At(e, from)
  /\ env_status' = [env_status EXCEPT ![call[e].child] = "run"]
  /\ call' = [call EXCEPT ![e] = Idle]
  /\ UNCHANGED <<pt, data, upcall, pf, halted>>

ForkStart(e) == SetRunnable(e, "status")
-----------------------------------------------------------------------------
\* spawn(), after the program file is open.

SpawnExofork(e) == Exofork(e, "none", "load", TopStack)

\* The pages in the order spawn() makes them: init_stack(), then map_segment()
\* for the segments from low to high addresses, then close() of the file.
Loaded(e) ==
  LET n == IF call[e].pn = TopStack THEN 2 ELSE call[e].pn + 1
  IN  [call[e] EXCEPT !.at = IF n = TopStack THEN "close" ELSE "load",
                      !.pn = IF n = TopStack THEN 0 ELSE n]

\* init_stack() fails: spawn() returns, and leaves the child as it is.  Later it
\* destroys the child.  What is at UTEMP stays there, or does not.
SpawnFails(e, utemp) ==
  LET c == call[e].child
      left == [pt EXCEPT ![e][UTEMP] = utemp]
  IN  /\ call' = [call EXCEPT ![e] = Idle]
      /\ IF call[e].pn = TopStack
         THEN pt' = left /\ UNCHANGED env_status
         ELSE /\ pt' = [left EXCEPT ![c] = Empty]
              /\ env_status' = [env_status EXCEPT ![c] = "free"]
      /\ UNCHANGED <<data, upcall, pf, halted>>

\* A page with the arguments, or with a page of the program, at UTEMP.
SpawnLoad(e, v) ==
  /\ At(e, "load")
  /\ IF OutOfPages THEN SpawnFails(e, pt[e][UTEMP])
     ELSE /\ \E p \in Pages :
               /\ Free(p)
               /\ pt' = [pt EXCEPT ![e][UTEMP] = Pte(p, TRUE, "none")]
               /\ data' = [data EXCEPT ![p] = v]
          /\ Goto(e, "give")
          /\ UNCHANGED <<env_status, upcall, pf, halted>>

\* readn() of the program file fails.
SpawnReadFails(e) ==
  /\ At(e, "give") /\ call[e].pn # TopStack
  /\ SpawnFails(e, pt[e][UTEMP])

\* sys_page_map() to the child, which may need a page table.  Text is mapped
\* read-only.
SpawnGive(e, w) ==
  /\ At(e, "give") /\ (call[e].pn = TopStack => w)
  /\ \/ /\ pt' = [pt EXCEPT ![call[e].child][call[e].pn] =
                                Pte(pt[e][UTEMP].page, w, "none")]
        /\ Goto(e, "unmap")
        /\ UNCHANGED <<data, env_status, upcall, pf, halted>>
     \/ /\ OutOfPages
        /\ IF call[e].pn = TopStack THEN SpawnFails(e, NULL) ELSE Panic

\* sys_page_unmap() of UTEMP.
SpawnUnmap(e) ==
  /\ At(e, "unmap")
  /\ pt' = [pt EXCEPT ![e][UTEMP] = NULL]
  /\ call' = [call EXCEPT ![e] = Loaded(e)]
  /\ UNCHANGED <<data, env_status, upcall, pf, halted>>

\* A page beyond the file's part of a segment, and one of no segment.
SpawnBlank(e, w) ==
  /\ At(e, "load") /\ call[e].pn # TopStack
  /\ IF OutOfPages THEN SpawnFails(e, pt[e][UTEMP])
     ELSE /\ \E p \in Pages : PageAlloc(call[e].child, call[e].pn, p, w, "none")
          /\ call' = [call EXCEPT ![e] = Loaded(e)]
          /\ UNCHANGED <<env_status, upcall, pf, halted>>

SpawnSkip(e) ==
  /\ At(e, "load") /\ call[e].pn # TopStack
  /\ call' = [call EXCEPT ![e] = Loaded(e)]
  /\ UNCHANGED <<pt, data, env_status, upcall, pf, halted>>

\* close() unmaps the descriptor of the program file, where that is one of Vas.
SpawnClose(e) ==
  /\ At(e, "close")
  /\ \/ UNCHANGED pt
     \/ \E va \in Vas \ Stack :
          /\ pt[e][va] # NULL /\ pt[e][va].tag = "share"
          /\ pt' = [pt EXCEPT ![e][va] = NULL]
  /\ Goto(e, "shared")
  /\ UNCHANGED <<data, env_status, upcall, pf, halted>>

\* copy_shared_pages().
SpawnShared(e) ==
  /\ At(e, "shared")
  /\ LET N == {pn \in NextPage(e, call[e].pn) : pt[e][pn].tag = "share"}
     IN  \/ N = {} /\ Goto(e, "go") /\ UNCHANGED <<pt, data, env_status, upcall, pf, halted>>
         \/ \E pn \in N :
              /\ \A m \in N : pn <= m
              /\ \/ /\ pt' = [pt EXCEPT ![call[e].child][pn] = pt[e][pn]]
                    /\ call' = [call EXCEPT ![e].pn = pn + 1]
                    /\ UNCHANGED <<data, env_status, upcall, pf, halted>>
                 \/ OutOfPages /\ Panic

SpawnStart(e) == SetRunnable(e, "go")
-----------------------------------------------------------------------------
\* One environment, made by env_create(), with writable pages.
Init ==
  \E e \in Envs, own \in [Vas -> Pages], v \in [Pages -> Values] :
    /\ \A a, b \in Vas : own[a] = own[b] => a = b
    /\ pt = [f \in Envs |-> [pn \in Pns |->
               IF f = e /\ pn \in Vas THEN Pte(own[pn], TRUE, "none") ELSE NULL]]
    /\ data = v
    /\ env_status = [f \in Envs |-> IF f = e THEN "run" ELSE "free"]
    /\ upcall = [f \in Envs |-> FALSE]
    /\ call = [f \in Envs |-> Idle]
    /\ pf = [f \in Envs |-> NoFault]
    /\ halted = FALSE

User(e) ==
  \/ \E va \in Vas :
       \/ PageFault(e, va) \/ SysPageUnmap(e, va)
       \/ \E v \in Values : Write(e, va, v)
       \/ \E tag \in {"none", "share"} : SysPageAlloc(e, va, tag)
  \/ Destroy(e)

Pgfault(e) == PgfaultAlloc(e) \/ PgfaultCopy(e) \/ PgfaultMap(e) \/ PgfaultUnmap(e)

Fork(e) ==
  \/ SetPgfaultHandler(e) \/ ForkExofork(e)
  \/ DuppageRead(e) \/ DuppageChild(e) \/ DuppageOwn(e)
  \/ ForkXstack(e) \/ ForkUpcall(e) \/ ForkStart(e)

Spawn(e) ==
  \/ SpawnExofork(e) \/ SpawnReadFails(e) \/ SpawnSkip(e) \/ SpawnUnmap(e)
  \/ SpawnClose(e) \/ SpawnShared(e) \/ SpawnStart(e)
  \/ \E v \in Values : SpawnLoad(e, v)
  \/ \E w \in BOOLEAN : SpawnGive(e, w) \/ SpawnBlank(e, w)

Next == \E e \in Envs : User(e) \/ Pgfault(e) \/ Fork(e) \/ Spawn(e)

Spec == Init /\ [][Next]_vars
-----------------------------------------------------------------------------
\* The state is well formed, and the call and the fault of an environment are at
\* a point where its page tables allow them to be.
TypeOK ==
  /\ pt \in [Envs -> [Pns -> Ptes \cup {NULL}]]
  /\ data \in [Pages -> Values]
  /\ env_status \in [Envs -> {"free", "making", "run"}]
  /\ upcall \in [Envs -> BOOLEAN]
  /\ call \in [Envs -> Call]
  /\ pf \in [Envs -> Fault]
  /\ halted \in BOOLEAN

\* duppage() has mapped the page into the child but not yet marked its own.
InWindow(e, c, va) ==
  /\ call[e].at = "own" /\ call[e].child = c /\ call[e].pn = va
  /\ pt[e][va] # NULL /\ pt[e][va].tag # "share" /\ pt[e][va].w
  /\ pt[e][va].page = pt[c][va].page

\* spawn() has mapped the page at UTEMP into the child and not yet unmapped it.
Given(e, c, va) == call[e].at = "unmap" /\ call[e].child = c /\ call[e].pn = va

\* A page that can be written through one mapping is seen through no other,
\* except a page shared on purpose, and for the moments when fork() or spawn()
\* has mapped it into a child that does not run and when the fault handler has
\* mapped the new page twice.  (Of two copies made in turn by parent, child and grandchild,
\* with page faults of the parent inside fork().)
Isolation ==
  \A e, f \in Envs, a, b \in Pns :
    /\ <<e, a>> # <<f, b>>
    /\ pt[e][a] # NULL /\ pt[f][b] # NULL
    /\ pt[e][a].page = pt[f][b].page /\ pt[e][a].w
    => \/ pt[e][a].tag = "share" /\ pt[f][b].tag = "share"
       \/ a = b /\ InWindow(e, f, a)
       \/ a = UTEMP /\ Given(e, f, b)
       \/ b = UTEMP /\ Given(f, e, a)
       \/ e = f /\ pf[e].at = "unmap" /\ {a, b} = {PFTEMP, pf[e].pn}

\* An environment that may meet a copy-on-write page has what page_fault_handler
\* needs to call its handler: "Neither user exception stack should ever be marked
\* copy-on-write".
CowHandled ==
  \A e \in Envs :
    env_status[e] = "run" /\ (\E va \in Vas : pt[e][va] # NULL /\ pt[e][va].tag = "cow")
      => upcall[e] /\ CanWrite(e, XSTACK)
-----------------------------------------------------------------------------
\* The memory a program sees.

Made(c) == {e \in Envs : env_status[e] = "run" /\ call[e].child = c}

\* What is in a child's page counts once its parent can no longer change it
\* there, and not at all once nobody will start the child.
Visible(e, va) ==
  /\ pt[e][va] # NULL
  /\ env_status[e] = "making" => \E m \in Made(e) : ~InWindow(m, e, va)

view == [e \in Envs |-> [va \in Vas |->
           IF Visible(e, va) THEN data[pt[e][va].page] ELSE NULL]]

group == [e \in Envs |-> [va \in Vas |->
            IF Visible(e, va) /\ pt[e][va].tag = "share" THEN pt[e][va].page ELSE NULL]]

maker == [c \in Envs |->
            IF Made(c) = {} THEN [by |-> NULL, how |-> "none"]
            ELSE LET e == CHOOSE e \in Made(c) : TRUE
                 IN  [by |-> e,
                      how |-> IF call[e].at \in Spawning THEN "spawn" ELSE "fork"]]

Memory == INSTANCE ForkMem WITH Groups <- Pages, phase <- env_status

\* fork(), spawn() and the fault handler keep what ForkMem promises: copying
\* late cannot be told from copying at once.
MemorySpec == Memory!Spec
=============================================================================
