--------------------------------- MODULE Vm ---------------------------------
(***************************************************************************)
(* Physical pages and address spaces: the page allocator, the reference    *)
(* counts and the two-level page tables of kern/pmap.c, env_setup_vm() and *)
(* env_free() of kern/env.c, and the page system calls (and the page of an *)
(* IPC) of kern/syscall.c.                                                 *)
(*                                                                         *)
(* All of it runs under the kernel lock, so a system call is one action on *)
(* the memory, built from the functions of pmap.c as operators that map a  *)
(* memory to the memory they leave.  env_free() is a loop; it is one       *)
(* action per turn, and nothing else happens while it runs.  Which         *)
(* environment may call on which other (envid2env) is in module Env; here  *)
(* any may.  A call that fails changes nothing and is left out, except the *)
(* one that gives a page back.                                             *)
(***************************************************************************)
EXTENDS Integers, Sequences, FiniteSets

CONSTANTS
  Envs,    \* the environments
  Pages,   \* the pages of the free list that page_init() builds
  Tables,  \* the page directory entries below UTOP
  Slots,   \* the entries of a page table
  RefMod,  \* pp_ref is a uint16_t: 2^16
  NULL

VAs == Tables \X Slots

\* A present page table entry: its page and PTE_W.
Ptes == [page : Pages, w : BOOLEAN]

ASSUME VmAssumption ==
  /\ IsFiniteSet(Pages) /\ IsFiniteSet(Envs)
  /\ IsFiniteSet(Tables) /\ IsFiniteSet(Slots)
  /\ RefMod \in Nat \ {0, 1}
  /\ NULL \notin Pages /\ NULL \notin Envs /\ NULL \notin Ptes

VARIABLES
  mem,     \* the memory (see Memory)
  freeing  \* the environment that env_free() is working on, or NULL

vars == <<mem, freeing>>

(***************************************************************************)
(* pp_ref and the free list, the page directory of each environment, the   *)
(* page table pages it points to, with PTE_W of the directory entry (which *)
(* the hardware also checks), and the entries of these tables.  panic:     *)
(* whether the kernel has panicked, in page_free() or on a page fault of   *)
(* its own.                                                                *)
(***************************************************************************)
Memory ==
  [pp_ref : [Pages -> 0 .. RefMod - 1],
   page_free_list : Seq(Pages),
   env_pgdir : [Envs -> Pages \cup {NULL}],
   pde : [Envs -> [Tables -> Pages \cup {NULL}]],
   pdew : [Envs -> [Tables -> BOOLEAN]],
   pte : [Envs -> [VAs -> Ptes \cup {NULL}]],
   panic : {"no", "page_free", "fault"}]
-----------------------------------------------------------------------------
IncRef(m, p) == [m EXCEPT !.pp_ref[p] = (@ + 1) % RefMod]

\* page_alloc(): the head of the list; its reference count stays 0.
Avail(m) == m.page_free_list # << >>
AllocPage(m) == Head(m.page_free_list)
PageAlloc(m) == [m EXCEPT !.page_free_list = Tail(@)]

\* page_free() panics when the count is not 0.  (Its other check, that pp_link
\* is NULL, holds for every page that is not on the list.)
PageFree(m, p) ==
  IF m.pp_ref[p] # 0 THEN [m EXCEPT !.panic = "page_free"]
  ELSE [m EXCEPT !.page_free_list = <<p>> \o @]

\* page_decref(): --pp_ref, and the page is freed at 0.
PageDecref(m, p) ==
  LET d == [m EXCEPT !.pp_ref[p] = (@ + RefMod - 1) % RefMod]
  IN  IF d.pp_ref[p] = 0 THEN PageFree(d, p) ELSE d

(***************************************************************************)
(* page_lookup() hands the entry's address to its caller only if the word  *)
(* it is to be stored in is not 0, and every caller passes a local that it *)
(* has not set.  Where the stack happens to hold 0, the caller goes on to  *)
(* use a null pointer, and the kernel panics on its page fault (no program *)
(* maps page 0).  So what the functions below leave is one of a set of     *)
(* memories.  page_remove() faults between the decrement and the store.    *)
(***************************************************************************)
Fault(m) == [m EXCEPT !.panic = "fault"]

PageRemove(m, e, va) ==
  IF m.pte[e][va] = NULL THEN {m}
  ELSE LET d == PageDecref(m, m.pte[e][va].page)
       IN  {[d EXCEPT !.pte[e][va] = NULL], Fault(d)}

\* What page_insert() stores after page_remove(), unless that has panicked.
SetPte(m, e, p, va, w) ==
  IF m.panic # "no" THEN m
  ELSE [m EXCEPT !.pte[e][va] = [page |-> p, w |-> w],
                 !.pdew[e][va[1]] = @ \/ w]

\* pgdir_walk(create): it needs a page when there is no page table yet.
HasTable(m, e, va) == m.pde[e][va[1]] # NULL
CanWalk(m, e, va) == HasTable(m, e, va) \/ Avail(m)

\* Mutant of PgdirWalk: the new page table is not counted.
PgdirWalkUncounted(m, e, va) ==
  IF HasTable(m, e, va) THEN m
  ELSE [PageAlloc(m) EXCEPT !.pde[e][va[1]] = AllocPage(m)]

PgdirWalk(m, e, va) ==
  IF HasTable(m, e, va) THEN m
  ELSE LET p == AllocPage(m)
       IN  [IncRef(PageAlloc(m), p) EXCEPT !.pde[e][va[1]] = p]

\* Mutant of PageInsert: the count goes up after the old page is removed.
PageInsertLateIncrement(m, e, p, va, w) ==
  {SetPte(IncRef(b, p), e, p, va, w) : b \in PageRemove(PgdirWalk(m, e, va), e, va)}

\* page_insert(), when pgdir_walk() succeeds: the count goes up before the old
\* page is removed, which may be the same one.
PageInsert(m, e, p, va, w) ==
  {SetPte(b, e, p, va, w) :
     b \in PageRemove(IncRef(PgdirWalk(m, e, va), p), e, va)}
-----------------------------------------------------------------------------
Alive(e) == mem.env_pgdir[e] # NULL

\* A kernel that is not inside env_free() and has not panicked.
Idle == freeing = NULL /\ mem.panic = "no"

\* env_setup_vm(): the page directory is counted too.
EnvSetupVm(e) ==
  /\ Idle /\ ~Alive(e) /\ Avail(mem)
  /\ mem' = LET p == AllocPage(mem)
            IN  [IncRef(PageAlloc(mem), p) EXCEPT !.env_pgdir[e] = p]
  /\ UNCHANGED freeing

\* Mutant of SysPageAlloc: the page is not given back when page_insert() fails.
SysPageAllocLeak(e, va, w) ==
  /\ Idle /\ Alive(e) /\ Avail(mem)
  /\ LET p == AllocPage(mem)
         a == PageAlloc(mem)
     IN  mem' \in IF CanWalk(a, e, va) THEN PageInsert(a, e, p, va, w) ELSE {a}
  /\ UNCHANGED freeing

\* sys_page_alloc(): the page is given back when page_insert() fails.
SysPageAlloc(e, va, w) ==
  /\ Idle /\ Alive(e) /\ Avail(mem)
  /\ LET p == AllocPage(mem)
         a == PageAlloc(mem)
     IN  mem' \in IF CanWalk(a, e, va) THEN PageInsert(a, e, p, va, w)
                  ELSE {PageFree(a, p)}
  /\ UNCHANGED freeing

\* Mutant of SysPageMap: a read-only page may be mapped writable.
SysPageMapAnyPerm(s, sva, d, dva, w) ==
  /\ Idle /\ Alive(s) /\ Alive(d)
  /\ mem.pte[s][sva] # NULL /\ CanWalk(mem, d, dva)
  /\ mem' \in PageInsert(mem, d, mem.pte[s][sva].page, dva, w)
  /\ UNCHANGED freeing

\* sys_page_map(): PTE_W only for a page the source may write; the entry that
\* page_lookup() found is read only when PTE_W is asked for.
SysPageMap(s, sva, d, dva, w) ==
  /\ Idle /\ Alive(s) /\ Alive(d)
  /\ mem.pte[s][sva] # NULL
  /\ \/ /\ CanWalk(mem, d, dva)
        /\ w => mem.pte[s][sva].w
        /\ mem' \in PageInsert(mem, d, mem.pte[s][sva].page, dva, w)
     \/ w /\ mem' = Fault(mem)
  /\ UNCHANGED freeing

SysPageUnmap(e, va) ==
  /\ Idle /\ Alive(e)
  /\ mem' \in PageRemove(mem, e, va)
  /\ UNCHANGED freeing

\* The page of sys_ipc_try_send(): only a writable page, sent as writable.
IpcSendPage(s, sva, d, dva) ==
  /\ s # d
  /\ SysPageMap(s, sva, d, dva, TRUE)
-----------------------------------------------------------------------------
EnvFreeStart(e) ==
  /\ Idle /\ Alive(e)
  /\ freeing' = e
  /\ UNCHANGED mem

\* One turn of the inner loop of env_free().
EnvFreePage(va) ==
  /\ freeing # NULL /\ mem.panic = "no"
  /\ mem.pte[freeing][va] # NULL
  /\ mem' \in PageRemove(mem, freeing, va)
  /\ UNCHANGED freeing

\* A turn of the outer loop: the table of an emptied directory entry.
EnvFreeTable(t) ==
  /\ freeing # NULL /\ mem.panic = "no"
  /\ mem.pde[freeing][t] # NULL
  /\ \A s \in Slots : mem.pte[freeing][<<t, s>>] = NULL
  /\ mem' = [PageDecref(mem, mem.pde[freeing][t]) EXCEPT
               !.pde[freeing][t] = NULL, !.pdew[freeing][t] = FALSE]
  /\ UNCHANGED freeing

EnvFreeDir ==
  /\ freeing # NULL /\ mem.panic = "no"
  /\ \A t \in Tables : mem.pde[freeing][t] = NULL
  /\ mem' = [PageDecref(mem, mem.env_pgdir[freeing]) EXCEPT !.env_pgdir[freeing] = NULL]
  /\ freeing' = NULL

\* _panic() ends in a loop that calls the monitor, with the lock held.
Panicked == mem.panic # "no" /\ UNCHANGED vars
-----------------------------------------------------------------------------
\* After page_init(), mem_init() and env_init(), with the kernel's own pages
\* left out: every page is free and no environment exists.
Init ==
  /\ mem \in [pp_ref : {[p \in Pages |-> 0]},
              page_free_list : {l \in [1 .. Cardinality(Pages) -> Pages] :
                                  \A p \in Pages : \E i \in DOMAIN l : l[i] = p},
              env_pgdir : {[e \in Envs |-> NULL]},
              pde : {[e \in Envs |-> [t \in Tables |-> NULL]]},
              pdew : {[e \in Envs |-> [t \in Tables |-> FALSE]]},
              pte : {[e \in Envs |-> [va \in VAs |-> NULL]]},
              panic : {"no"}]
  /\ freeing = NULL

Next ==
  \/ \E e \in Envs : EnvSetupVm(e) \/ EnvFreeStart(e)
  \/ \E e \in Envs, va \in VAs :
       SysPageUnmap(e, va) \/ \E w \in BOOLEAN : SysPageAlloc(e, va, w)
  \/ \E s, d \in Envs, sva, dva \in VAs :
       \/ \E w \in BOOLEAN : SysPageMap(s, sva, d, dva, w)
       \/ IpcSendPage(s, sva, d, dva)
  \/ \E va \in VAs : EnvFreePage(va)
  \/ \E t \in Tables : EnvFreeTable(t)
  \/ EnvFreeDir
  \/ Panicked

Spec == Init /\ [][Next]_vars
-----------------------------------------------------------------------------
\* The state is well formed: the entries of a table are stored in the table, and
\* the tables hang off a page directory.
TypeOK ==
  /\ mem \in Memory
  /\ freeing \in Envs \cup {NULL}
  /\ freeing # NULL => mem.env_pgdir[freeing] # NULL
  /\ \A e \in Envs, t \in Tables :
       /\ mem.pde[e][t] # NULL => mem.env_pgdir[e] # NULL
       /\ mem.pde[e][t] = NULL => \A s \in Slots : mem.pte[e][<<t, s>>] = NULL

\* The places that can point to a page: the env_pgdir of an environment, the
\* entries of its page directory, and those of its page tables.
Places ==
  ({"env_pgdir"} \X Envs) \cup ({"pde"} \X Envs \X Tables) \cup ({"pte"} \X Envs \X VAs)

\* What a place points to.
Target(m, x) ==
  CASE x[1] = "env_pgdir" -> m.env_pgdir[x[2]]
    [] x[1] = "pde" -> m.pde[x[2]][x[3]]
    [] x[1] = "pte" -> LET q == m.pte[x[2]][x[3]] IN IF q = NULL THEN NULL ELSE q.page

\* The places that point to page p.
Refs(m, p) == {x \in Places : Target(m, x) = p}

\* "pp_ref is the count of pointers (usually in page table entries) to this
\* page": through replacement of a page by itself, failed insertions, a shared
\* page and the end of one of its users.  (This and the next, of a kernel that
\* has not faulted.)
RefCountsExact ==
  mem.panic = "no" => \A p \in Pages : mem.pp_ref[p] = Cardinality(Refs(mem, p))

\* A page is on the free list, once, exactly when nothing points to it: none is
\* lost, none is handed out while it is mapped, and page_free() never panics.
FreePagesExact ==
  LET L == mem.page_free_list
  IN  /\ mem.panic # "page_free"
      /\ mem.panic = "no" =>
           /\ \A p \in Pages : Refs(mem, p) = {} <=> \E i \in DOMAIN L : L[i] = p
           /\ \A i, j \in DOMAIN L : L[i] = L[j] => i = j

\* A page that holds a page directory or a page table is nothing else, so no
\* environment can write page tables.
TablesPrivate ==
  \A p \in Pages : \A x \in Refs(mem, p) :
    x[1] # "pte" => Cardinality(Refs(mem, p)) = 1

\* A page in use that nobody may write (a page of a read-only mapping) stays so
\* until it is freed: no sequence of sys_page_map and IPC gives PTE_W back.
Writable(m, p) ==
  \E e \in Envs, va \in VAs : m.pte[e][va] # NULL /\ m.pte[e][va] = [page |-> p, w |-> TRUE]

ReadOnlyStays ==
  [][\A p \in Pages :
       Refs(mem, p) # {} /\ ~Writable(mem, p) => ~Writable(mem', p)]_vars
=============================================================================
