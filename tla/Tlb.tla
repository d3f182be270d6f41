-------------------------------- MODULE Tlb ---------------------------------
(***************************************************************************)
(* Vm on several processors, each with the page directory it has loaded    *)
(* and a TLB.  User code on one CPU goes on reading through its TLB while  *)
(* a system call on another changes page tables; tlb_invalidate()          *)
(* (kern/pmap.c) is local to the CPU that makes the call.                  *)
(***************************************************************************)
EXTENDS Vm

CONSTANT CPUs

VARIABLES
  cr3,  \* the environment whose page directory is loaded; NULL: kern_pgdir
  tlb   \* the translations a CPU may still use, <<va, entry>>

tlbVars == <<mem, freeing, cr3, tlb>>

TlbInit ==
  /\ Init
  /\ cr3 = [c \in CPUs |-> NULL]
  /\ tlb = [c \in CPUs |-> {}]

\* lcr3() empties the TLB.
Lcr3(c, e) == cr3' = [cr3 EXCEPT ![c] = e] /\ tlb' = [tlb EXCEPT ![c] = {}]

\* env_run(): by module Env, an environment that no other CPU has.
EnvRun(c, e) ==
  /\ Idle /\ Alive(e) /\ \A d \in CPUs : cr3[d] # e
  /\ Lcr3(c, e)
  /\ UNCHANGED vars

SchedHalt(c) ==
  /\ Idle /\ cr3[c] # NULL
  /\ Lcr3(c, NULL)
  /\ UNCHANGED vars

\* User code touches va; the hardware walks the tables on a TLB miss.
Access(c, va) ==
  /\ cr3[c] # NULL
  /\ ~\E q \in Ptes : <<va, q>> \in tlb[c]
  /\ mem.pte[cr3[c]][va] # NULL
  /\ tlb' = [tlb EXCEPT ![c] = @ \cup {<<va, mem.pte[cr3[c]][va]>>}]
  /\ UNCHANGED <<mem, freeing, cr3>>

\* Mutant of Flush: no invlpg.
FlushNothing(c, e, va) == UNCHANGED tlb

\* page_remove() calls tlb_invalidate() if there was an entry, at its end.
Flush(c, e, va) ==
  tlb' = IF mem.pte[e][va] = NULL \/ mem'.panic # "no" THEN tlb
         ELSE [tlb EXCEPT ![c] = {x \in @ : x[1] # va}]

\* The page system calls of the environment on c, and the page of an IPC that
\* it sends, on the address space of e.
PageCall(c, e) ==
  \E va \in VAs :
    /\ \/ \E w \in BOOLEAN : SysPageAlloc(e, va, w)
       \/ \E s \in Envs, sva \in VAs, w \in BOOLEAN : SysPageMap(s, sva, e, va, w)
       \/ \E s \in Envs, sva \in VAs : IpcSendPage(s, sva, e, va)
       \/ SysPageUnmap(e, va)
    /\ Flush(c, e, va)
    /\ UNCHANGED cr3

\* env_free(), by module Env of the current environment or of one that is on
\* no CPU; the current one's page directory is unloaded first.
EnvFreeOn(c, e) ==
  /\ \A d \in CPUs \ {c} : cr3[d] # e
  /\ EnvFreeStart(e)
  /\ IF cr3[c] = e THEN Lcr3(c, NULL) ELSE UNCHANGED <<cr3, tlb>>

EnvFreeTurn(c) ==
  \/ \E va \in VAs : EnvFreePage(va) /\ Flush(c, freeing, va) /\ UNCHANGED cr3
  \/ (EnvFreeDir \/ \E t \in Tables : EnvFreeTable(t)) /\ UNCHANGED <<cr3, tlb>>

Common ==
  \/ (Panicked \/ \E e \in Envs : EnvSetupVm(e)) /\ UNCHANGED <<cr3, tlb>>
  \/ \E c \in CPUs :
       \/ SchedHalt(c) \/ EnvFreeTurn(c)
       \/ \E e \in Envs : EnvRun(c, e) \/ EnvFreeOn(c, e)
       \/ \E va \in VAs : Access(c, va)

\* Programs change their own address space, that of a child that has not run
\* yet (fork, spawn), and that of an environment that waits in sys_ipc_recv.
LibNext ==
  \/ Common
  \/ \E c \in CPUs, e \in Envs :
       /\ cr3[c] # NULL
       /\ \A d \in CPUs \ {c} : cr3[d] # e
       /\ PageCall(c, e)

LibSpec == TlbInit /\ [][LibNext]_tlbVars
-----------------------------------------------------------------------------
\* No CPU uses a translation that is no longer in the page tables, nor a page
\* directory that is being freed.  "The TLB must be invalidated if you remove
\* an entry from the page table" (page_remove).
TlbCoherent ==
  \A c \in CPUs :
    /\ cr3[c] # NULL => Alive(cr3[c]) /\ cr3[c] # freeing
    /\ \A x \in tlb[c] : mem.pte[cr3[c]][x[1]] = x[2]
=============================================================================
