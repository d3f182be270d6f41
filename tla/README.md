# A TLA+ model of the JOS kernel and its servers

The repository is a JOS system: a small exokernel for several x86 processors
(`src/lab/kern`), a user library that builds processes, descriptors, pipes and
files on it (`src/lab/lib`), a file server (`src/lab/fs`) and a network server
(`src/lab/net`).  The modules here model the kernel's concurrent core, its
memory, and the library and server protocols on top, and say what some of them
promise as specifications of their own, which the detailed ones implement.  TLC
checks them on small instances; TLAPS proves the safety properties of all
parts but the pipes and the disk, and the two refinements, for every instance.

## 1. Inventory

| part | state | operations | who runs against whom |
|---|---|---|---|
| environments (`kern/env.c`, `syscall.c`) | `envs[]`, ids with generations, free list, status, trap frame | exofork, set_status, set_trapframe, destroy, run, free | handlers under the kernel lock on each CPU; `env_pop_tf()` after the unlock |
| scheduler (`kern/sched.c`) | `curenv` of each CPU | `sched_yield`, `sched_halt` | every trap may end in it |
| IPC (`syscall.c`, `lib/ipc.c`) | `env_ipc_*` | recv blocks, try_send wakes and maps a page; `ipc_send` retries for ever | senders race for one receiver |
| kernel lock, start of CPUs (`spinlock.c`, `init.c`, `mpentry.S`) | lock word, owner, `cpu_status`, `mpentry_kstack` | lock, unlock, boot, trap entry, halt, panic | all CPUs |
| memory (`kern/pmap.c`) | `pp_ref`, free list, page tables | page_alloc/free/insert/remove, the page system calls, teardown | under the lock; TLBs of other CPUs are not |
| fork, spawn (`lib/fork.c`, `pgfault.c`, `spawn.c`) | page mappings, page contents, upcalls | duppage, pgfault, segments, shared pages | parent, child and grandchild; the parent's own page faults in the middle of its fork |
| descriptors (`lib/fd.c`) | page mappings | dup, close | several system calls each; preempted and killed between them |
| pipes (`lib/pipe.c`) | a shared ring, two reference counts | read, write, pipeisclosed | reader, writer and their relatives |
| file client and server (`lib/file.c`, `fs/serv.c`) | open-file table, shared Fd pages | open, read, write, stat, set_size, flush, sync | clients that close, fork and die at any time |
| file system (`fs/fs.c`, `bc.c`) | block cache, disk | allocate, truncate, read, write, flush | crashes between disk writes |
| threads under lwIP (`net/lwip/jos/arch`) | thread queue, semaphores, mailboxes | yield, create, halt, wait, signal, post, fetch, free | cooperative threads; mailboxes are freed under those that wait |
| network server (`net/`, `lib/nsipc.c`, lwIP's `api/`) | request buffers, sockets, connections | socket calls and their lower halves, timer, packets | clients, timer and output environments; what the network never answers |
| devices, boot, printing, heap, user programs | | | not modelled (section 7) |

What is hard here: the trap frame that is read without the lock; zombies on
other CPUs; sleeping and waking; half-built children; reference counts as the
only record of sharing (pages, pipes, open files); a TLB per CPU; counts that
two system calls change one after the other; servers whose clients die; disk
writes that a crash separates; a page that is written while it is being copied;
a semaphore reused under its waiters; a server that sleeps as a whole while one
of its threads could go on.  `PROJECT.json` lists these as hazards, each at
its line, with the property that would notice.

## 2. Modules

| module | models | state and actions |
|---|---|---|
| `SchedOrder` | the order in which `sched_yield()` looks at slots | constants only |
| `Env` | environments, scheduler, traps, IPC | a trap handler runs under the lock from `trap()` to the unlock in `env_run()` or `sched_halt()`, so each is one action, named after the C function; `EnvPopTf` is the step after the unlock |
| `EnvLib` | `Env` driven as the user library drives it | a child is started once by its parent, and destroyed at most once |
| `SchedScan` | the search loop of `sched_yield()`, a turn per step | shows what `Env` takes as one step |
| `KernelLock` | `spin_lock()` and `spin_unlock()` instruction by instruction, boot of the APs, trap entry, halt, panic | kernel work under the lock is one step |
| `Vm` | pages, counts, page tables | the functions of `pmap.c` are operators from a memory to the memories they may leave; a system call is one action; `env_free()` is a step per turn of its loops |
| `Tlb` | `Vm` on several CPUs with a TLB each | extends `Vm`; `Access` is the hardware's walk |
| `PipeConf`, `Pipe` | pipes with dup, close, fork, exit, kills and preemption | each mapping, each count read and each ring access is a step |
| `Fs` | blocks, files, cache and disk | an operation computes the cache and a list of disk writes that reach the disk one by one; `Crash` may come between any two |
| `FsServ` | open-file table, request loop, clients | send, receive, table scan, handler and reply are steps |
| `ForkMem` | what `fork()` and `spawn()` promise: memory of one's own | abstract; a write, a page copied to a child, the start of a child |
| `Cow` | `fork()`, the fault handler, `spawn()` over mapped pages with contents | implements `ForkMem`; each system call is a step, and so is each write by the program |
| `Mailbox` | what lwIP expects of a mailbox: a bounded queue | abstract |
| `SysArch` | threads, semaphores and mailboxes of `sys_arch.c` | implements `Mailbox`; a step is what a thread does up to its next yield |
| `NetServ` | request loop, buffers, request threads, `tcpip_thread`, clients, timer, output | a step is a turn of a thread up to a wait or an `ipc_send()` |
| `MC*` | the same for TLC | bounds, symmetry, fairness for one run |
| `*Proofs` | theorems | see section 5 |

How they fit together.  `KernelLock` justifies that `Env` and `Vm` take a
handler as one step (mutual exclusion of everything between lock and unlock).
`SchedScan` justifies `SchedYield` in `Env`: what it proves (`FirstInOrder`) is
the definition `Env` uses, through `ScanDistance` of `SchedOrder`, as long as the
memory after `envs[]`, at which the loop looks too, does not read as a runnable
environment (`Phantom`).  `envs[]` fills its pages to the last byte, so that memory is
a page which belongs to anybody; if it does read so, `env_run()` is called on it, and
that is not in `Env`.  `Env`
justifies in `Tlb` that an environment is on one CPU and that `env_free()` is of
the current environment or of one that is on no CPU.  `FsServ` takes a file
operation as success or failure; `Fs` is what it does to the disk.  `Vm`
justifies in `Cow` that a page is free when nothing maps it.  `SysArch` justifies
in `NetServ` that a signal wakes every waiter, that messages arrive in order, and
that threads have their turns in the order of one queue.

### Abstractions

- A saved trap frame is what it would resume: built by somebody else ("set"),
  user code ("trap"), or `sys_ipc_recv` before or after a sender's answer.
- Which environment may act on which (`envid2env`) is in `Env` only.
- `page_lookup()` reads a variable that none of its callers has initialised and
  stores the entry's address only if it finds it non-zero.  In the compiled
  kernel (`src/lab/obj/kern`) this is a stack slot, so `Vm` lets each such call
  go on or end in a kernel page fault, which panics, after `page_remove()` has
  already decremented the count.
- `EnvLib` has programs that destroy a child once.  `env_destroy()` of a child that
  is DYING already, and still on its CPU, would free it there and then.
- In `Fs` a size is a number of words, a block has `BLKSIZE` words, a block write
  is atomic (the disk takes eight sectors), and a panic of the server is followed
  by a reboot that reads the disk again.  The directory has one block, with room
  for all the files or for all but one; the last one then gets a new block, whose
  old words become the fields of its `struct File` (`stale` records that they were
  not zero).
- A full disk makes the server panic: `alloc_block()`'s error is kept in a
  `uint32_t`, whose test for `< 0` never holds, and is used as a block number
  (the comment at `fs.c:192` says `-E_NO_DISK`).  In `FsServ` this is `FilePanic`, with
  the other panics of the file layer.
- In `FsServ` read, write, stat and set_size are one operation that may move the
  offset; the library never sends a request without a page or with an unknown
  code, so these answers do not occur, and it asks for no more
  bytes than the buffer has.  `seek()` and open modes are left out.
- `env_runs` in `Pipe` is replaced by the set of environments whose run has been
  counted since they looked; `env_run()` counts only a change of environment.
- In `Cow` an address space has a few pages: `UTEMP`, `PFTEMP`, program and
  stack pages, and the exception stack.  A program in `fork()` or `spawn()`
  writes only its stack.  `panic()` in a program reaches the kernel monitor with
  the lock held, so it stops the machine.
- `ForkMem` sees a child's page from the moment its parent can no longer change
  it through its own mapping (`Visible`): between the two system calls of
  `duppage()` a write of the parent still goes to both, and the child gets what
  the parent has at the second call, or had at a page fault in between.
- In `SysArch` the word that `thread_wait()` watches holds the counter and the
  waiters flag; a thread waits only after it has seen `<<0, 1>>` there.
- In `NetServ` the three timer threads are one, and timeouts that
  `tcpip_thread` runs itself do what that thread does.  `net/input.c` is an empty
  stub, so nothing is ever received: `recv()` waits for an error, `accept()` for
  ever, and a connection goes from `SYN_SENT` only to being aborted.  The server
  panics without memory for the arguments of a thread or for a packet; without
  memory for the thread itself the request is lost with its buffer
  (`thread_create()`'s result is not looked at), which `Receive` has as a third
  outcome.  A request without a page, which would keep its buffer
  (`serv.c:286-289`), and `NSREQ_INPUT` have no sender and are left out.
- `shutdown()` is a close in the server (`lwip_shutdown()` calls `lwip_close()`), but the
  client keeps its descriptor, and the next socket may get the same number; and
  `do_listen()` after an earlier error keeps a pcb that `tcp_listen()` has freed.
  `dangling` records that one of these has happened.  From then on calls may meet
  in one connection or in freed memory, and the properties say nothing.  A socket
  is used by the client that made it: one inherited by `fork()` is not modelled.

## 3. Runs

| run | instance | shows |
|---|---|---|
| `env_lib` | 2 CPUs, 3 slots, 2 generations, 4 forks | free list exact (`FreeListExact`), no environment on two CPUs (`OneCpuPerEnv`), sleepers can be woken (`SleepersAreAwaited`), the monitor only when all is idle (`MonitorOnlyWhenIdle`), the frame read after the unlock is stable (`TrapframeStable`), children under construction are left alone (`FreshChildKept`) |
| `env_two_cpus` (violation) | programs that call in any order | `sys_env_set_status()` on a running child puts it on two CPUs, against the comment at `sched.c:27` |
| `live` | 3 CPUs for the lock; all contents of 4 slots for the search; 2 CPUs, 3 slots, 1 exit; a pipe with a ring of 1 | mutual exclusion, the lock's own checks never fire, a stack per CPU, the lock is not lost; the search finds the first runnable slot; zombies are freed, runnable environments run; blocked readers and writers learn that the other end is gone |
| `vm` | 2 address spaces, 5 pages, 2 CPUs | `pp_ref` is the number of references, the free list is exact, table pages are private, TLBs are coherent, read-only pages stay so |
| `cow` | 2 environments, 5 pages, 1 program and 1 stack page each | a writable page is seen through one mapping only (`Isolation`), copy-on-write pages only where they can be handled (`CowHandled`), and copying late cannot be told from copying at once (`MemorySpec`: `Cow` implements `ForkMem`) |
| `channels` | a pipe: 2 environments, 3 descriptors, ring of 2, 4 bytes, 1 CPU; mailboxes: 3 threads, 1 mailbox of 2 messages, 2 semaphores | no false end of file, bytes in order; no assertion of the mailbox code fires, no wakeup goes unflagged, and rings with semaphores are bounded queues (`MailboxSpec`: `SysArch` implements `Mailbox`) |
| `pipe_fork` (violation) | 3 environments | a fork elsewhere makes the counts equal for a moment: `read()` returns 0 with the write end open, against `pipe.c:123` |
| `fs` | 2 files, 2 data blocks, crashes, and a directory that may have to grow | one owner per block in cache and on disk, leaks only by crashes, flushed files survive; all until a block with old words becomes a block of the directory |
| `fs_indirect` (violation) | indirect blocks | an uncleared indirect block, or block of the directory, is read as block numbers, against the hint at `fs.c:151` |
| `fs_serv` | 2 clients, 2 descriptors each, 2 entries, ids that wrap | each descriptor keeps its file, id and offset; up to a panic (a dead client, no memory, a full disk) the server works for every client that waits |
| `net` | 2 clients (TCP, UDP), 2 sockets, 3 buffers, clients that are killed | while the server is up, buffers are exact, each call waits for one completion, and requests that do not wait for the network are answered if they got a thread |
| `net_connect` (violation) | 1 client, 1 socket | a `connect()` on a listening socket, or without memory for the SYN, never returns, against the description at `api_lib.c:197` |

`live` and `channels` hold several components that do not interact: the initial
state picks one, which alone takes steps.  Only there is a name such as
`ReadersLearnEof` a second definition that stands for the component's own.

Each property also has a mutant: a definition changed as a plausible slip in
the code would change it, under which TLC finds the property violated.

### Bounds, and why they are enough

The proofs of section 5 remove the bounds of all runs but `fs` and, for pipes,
`channels`, for safety.

- *Env.* Two CPUs give every pair of a handler and an unlocked `env_pop_tf()`.
  Three slots give a parent, a child and a third party.  Two generations make
  ids wrap; four forks reuse every slot.
- *KernelLock.* Three CPUs: one holds, two contend; two APs share
  `mpentry_kstack`.
- *Vm.* Two directories, two tables and one page use up all five pages, so
  every allocation fails in some state; two places in each of two spaces allow
  sharing within and across them.  `RefMod` is larger than the number of places:
  the wrap of the 16-bit count is out of the run, and of the proofs by a
  condition (and is a hazard).
- *Pipe.* A ring of two with four bytes wraps twice; three descriptors allow
  `dup()`.  With a third environment the property fails, as `pipe_fork` shows.
  With `NCPU = 2` it fails as well, without a fork: a count changes while the
  tester's `env_runs` does not.
- *Fs.* Two data blocks for two files of up to two blocks each fill the disk.
  The passing run has sizes that stay in direct blocks, because indirect blocks
  break it: old words are taken for pointers (`fs_indirect`), and
  `file_set_size()` clears a slot of an indirect block without writing that block.
  The run does not go on from states with `stale` set, of which its properties say
  nothing.
- *Cow.* Five pages are fewer than two address spaces with their exception
  stacks and a page in the handler's hands, so that each allocation fails in
  some state, and one page can be mapped by both environments in turn as parent
  and child.  A third environment adds a second sibling.
- *SysArch.* One mailbox and its two semaphores, so that each new mailbox reuses
  them under the threads that wait on the old one; three threads, so that one
  acts while two wait on the same semaphore.
- *NetServ.* Three buffers for two clients: one more than can be in use.
  `MAXYIELD` is 1 (32 in the code), so the loop of yields ends early, too.  One
  client uses TCP, the other UDP and `shutdown()`.  The run does not go on from
  states where the server is down or `dangling` is set, nor where a request has
  been lost, after which the server goes on with a buffer and a client fewer
  (`Explored`); the theorems have the last case.
- *FsServ.* Two entries for four descriptors fill the table; ids wrap after
  three reuses, and the upper part of the range is negative as in the code.

Symmetry (clients, files, pages, environments, CPUs) is used in safety runs
only.  Deadlock is checked in `vm`.  In the other runs the system may stop: all
environments exit, the monitor or a panic holds the lock, the file system is
lost, the search ends, all threads wait for the network, or the bound is
reached.

### Fairness

- Environments (`live`): a CPU that starts, returns from the kernel or has a zombie goes on
  (weak fairness: it runs with interrupts off, or the clock interrupts it).  The
  clock interrupt of user code needs the lock, which others take in between:
  strong fairness.  Programs owe nothing.  Exits are bounded: after an exit
  `curenv` is NULL and the search starts at slot 0, so a program that forks and
  ends for ever can starve high slots.
- Lock (`live`): each CPU goes on; the spinlock is not fair, so `LockProgress`
  says only that somebody gets in.
- Pipes (`live`): an environment that has the CPU again and again gets on with its
  call, because a time slice is long; interrupts that hit the three reads of
  `_pipeisclosed()` are bounded, since each makes it start again.
- `net`: server, timer, output and a client in a request are scheduled again and
  again (weak fairness of a step of each; `RunnablesRun` is why).  The threads of
  the server are scheduled by the model itself, in the order of their queue.
  Programs owe no calls.
- `net_connect`: as `net`, and `tcp_slowtmr()` counts its tries, so it aborts a
  connection that it could abort again and again (strong fairness of `Abort`).

## 4. Disagreements with the comments

`findings` in `PROJECT.json` has the four violation runs.  Met while modelling,
without a run of their own:

- `sync()` right after `fork()` panics the client: `fsipcbuf` is copy-on-write
  and not written, and `sys_ipc_try_send()` refuses to send it as writable.
- `sys_ipc_try_send()` never sends a read-only page (`syscall.c:420`).
- `exit()` does not call `close_all()`, so nothing is flushed at exit.
- `init_stack()` failing, `spawn()` returns without destroying the child, which
  stays NOT_RUNNABLE for ever; a parent that dies in `fork()` leaves such a child
  too.  `readn()` failing leaves a page at `UTEMP`.
- `sys_mbox_trypost()` waits when the mailbox is full, instead of refusing.
- `check_bc()` overwrites the super block at every boot; a crash before it is
  restored loses the disk.  `Fs` has the window (`mode` becomes "lost");
  `FlushedIsDurable` is about the blocks of the files and does not see it.
- `lwip_shutdown()` ignores its argument and closes.

## 5. What is proved

Every safety property of the passing runs, except the three of `fs` and the two
of the pipe, is also a theorem, for every value of the constants: any number of CPUs, environments,
pages, clients, threads, buffers and so on.  The proofs start from the named
assumptions of the modules, which TLC evaluates on the runs (`EnvAssumption`,
`LockAssumption`, `ScanAssumption`, `LiveAssumption`, `VmAssumption`,
`CowAssumption`, `FsServAssumption`, `SysAssumption`, `NetAssumption`): sizes are positive, `NULL` is none of the values it stands beside,
sets that the code counts are finite.  Four theorems about `Vm` need a hypothesis
more, `NoWrap`, below.

Each proof has the same shape: an invariant `Inv` that is stronger than the
property, one lemma for each action that shows that it keeps `Inv`, one lemma that
collects them, and the theorem by temporal reasoning.

- `EnvLibProofs`: `EnvTypes`, `FreeListCorrect`, `ScheduledOnce`, `WakeupsKept`,
  `MonitorIdle`, `FrameStable`, `FreshKept` — all properties of `env_lib`.
  The invariant `Inv` is the types, the exact free list, one CPU per
  environment, the sleepers, and that a halted or starting CPU has no
  environment: `ScheduledOnce` alone is not inductive, because `env_free()` must
  know that the slot it frees is on no other CPU, and `env_alloc()` that a free
  slot is on none.  What the scheduler needs of its caller is stated once, so
  that each handler is proved up to its call of `sched_yield()`.  `Quiet` adds
  that while a CPU is in the monitor nothing runs or can run.
- `LiveProofs`: `KernelMutex`, `LockChecksPass`, `StacksSeparate`, `ScanCorrect` —
  the safety properties of `live`.  `LockInv` ties the lock word and the owner
  field to program counters, `FlowInv` ties `cpu_status` to where a CPU will go on
  (it is what makes `trap()` take the lock once), `BootInv` says that one AP at a
  time is between its start and its report.  In `SearchInv` the loop's index
  is that of its turn and nothing it passed was runnable.  The loop looks at index
  `NENV` too, which is no slot, and `ScanCorrect` says when it takes that
  (`Phantom`).
- `VmProofs`: `CountsExact`, `FreeListExact`, `TablesArePrivate`, `ReadOnlyKept`,
  `TlbsCoherent` — all properties of `vm`.  The functions of `pmap.c` are
  operators on memories, so there is a lemma for each function and not for each
  system call: `Good(m, X)` says that memory `m` is in order except that the pages
  of `X` are allocated and not yet referred to, and each function leads from a
  good memory to good ones, or to a panic.  A count is the cardinality of a set
  of places; mapping a page adds a place to it.  The counts have 16 bits and
  nothing in `pmap.c` keeps them from wrapping, so the first four theorems are
  about executions in which no page has `RefMod` references at a time
  (`LibSpec /\ []NoWrap`).  The code does not establish this condition; in the run
  there are fewer places than `RefMod`.  `TlbsCoherent` needs no such condition: `TlbInv` is that what
  a CPU caches is in the tables of the address space it has loaded, and no step
  changes a space that another CPU has loaded (`LibNext`, as in the run).
- `CowProofs`: `PagesIsolated`, `CowIsHandled`.  `Isolation` says nothing of what
  an environment has between the system calls of `fork()`, of a page fault and of
  `spawn()`, and faults happen within forks.  `Calling` and `Handling` add it;
  the part one can get wrong is `Suits`: the permissions `duppage()` has read
  from the page table still suit the entry when it uses them, although a fault
  may have replaced the page since.
- `MemoryProofs`: `MemoryImplemented` (`Spec => MemorySpec`), the refinement of
  `ForkMem`.  `MemInv` adds to the invariant of `CowProofs` what the child of a
  fork has so far (`Copying`), that the handler's new page equals the old one
  when it takes its place (`Duplicated`), and that a program in `fork()` faults on
  its stack only.  A step of `Cow` then changes one page in one memory, makes a
  page of a child visible, starts a child, or cannot be seen.
- `FsServProofs`: `DescriptorsKeepTheirFile`, `LookupsSucceed`, `OffsetsExact`,
  `NoAnswerIsLost` — all properties of `fs_serv`.  `PagesFit` says
  that what a client has mapped is mapped by the server too and carries the
  entry's id, and `ServerFits` that the entry `serve_open()` fills in is nobody's;
  `InUseIsHeld` is the step from `pageref() > 1` to "some client has it".
  `NextMod` shows that an id that has advanced leads back to its entry
  also where it wraps.
- `NetServProofs`: `BuffersAreExact`, `CompletionsMatch` — the safety properties of
  `net`.  For the first, `Inv` says which thread has which buffer and that no two
  threads work for one client.  `CallInv` says of each connection which thread is
  in a call on it and where the completion of that call is: its message is in the
  mailbox, it is in `op_completed`, or it is yet to come from the network.  It
  holds until `dangling`, so that what is inductive is `Inv` and `CallInv` unless
  `dangling`: the client of a call holds its socket, and no other does.
- `SysArchProofs`, mailboxes: `MboxSafe`, `Wakeups` and the refinement `Refinement`
  (`Spec => MailboxSpec`), for any number of threads, mailboxes and slots, with
  two semaphores for each mailbox (`SysAssumption`).  `Counted` says that
  `queued_msg` counts what `head` and `nextq` enclose and `free_msg` the rest;
  it is what keeps the ring from being overrun.  `SemsOwned` makes a semaphore
  in use one of one mailbox, so that a signal reaches no other and
  `sys_mbox_new()` finds two free ones (a count of finite sets, `TwoFree`).
  `Waiters` says that a thread that waits on a live mailbox is queued and will
  be flagged by the next signal, or is flagged already; without it
  `WakeupsAreFlagged` is not inductive.  The ring itself is two lemmas,
  `PostedRing` and `FetchedRing`: a post appends and a fetch takes the first,
  around the end of the array too.

Many leaves name the prover (`Zenon`).  This is not needed for their truth: the
translation for the SMT solver takes longer with each obligation of a module, and
late leaves of the long modules would run into its time limit.

## 6. What is only model-checked

- All liveness (`LockProgress`, `ZombiesAreFreed`, `RunnablesRun`,
  `ReadersLearnEof`, `WritersLearnEof`, `Answered`): beyond the prover.
- `BlocksOwned`, `NoLeaks` and `FlushedIsDurable` of `Fs`: an operation runs its
  loops over blocks within one step, as a recursive function, and what that
  computes needs induction over data, which the prover cannot do.
- `BytesInOrder` and `EofMeansClosed` of `Pipe`.  The second holds for two
  environments on one CPU only (section 3).
- What the violation runs refute.

## 7. What is not modelled

- lwIP below its `api/` directory (TCP, IP, ARP, DHCP, buffers, heap), most of
  the repository's lines: third-party code, sequential in one thread, whose
  behaviour is the content of packets.  With `net/input.c` a stub, most of it is
  never reached.  PPP, SNMP, IPv6, IGMP, DNS and the like are not even built.
- Of lwIP's `api/`: `select`, socket options, `netbuf`, and the paths of received
  data.
- The e1000's registers and transmit ring (`kern/e1000.c`): `transmit()` either
  puts a packet into the ring or has it tried again, which is what
  `OutputStep` says.
- Console, monitor commands, PCI, LAPIC, MP tables, boot loader, entry code,
  `load_icode()`, `boot_alloc()`: device access or straight-line set-up.
- The frames on the exception stack and `_pgfault_upcall`, the user heap,
  paths.
- `fs_test()`, a fixed sequence of operations that `Fs` covers; it leaves one
  allocated block behind at each boot.
- User programs.  In the models a program calls the library in any order, within
  what section 2 says (a child is destroyed once, a socket is used by its maker).

Dangers that no property here is about: `pp_ref` has 16 bits and wraps at 65536
mappings of a page (`memlayout.h:187`; the `vm` run has fewer places); `seek()`
races with the server's update of the offset in a shared descriptor (`fd.c:268`);
`ipc_find_env()` finds dead servers (`ipc.c:104`); blocked requests can take all
20 buffers of the network server (`serv.c:62`); a second destroy frees a zombie that
still runs (`env.c:531`); words after `envs[]` are taken for a slot (`sched.c:49`).

## 8. Plan

1. Proofs: the ring of `Pipe`, and its reference counts for two environments; `Fs` with its loops as steps, as `env_free()` is in `Vm`, and then
   `BlocksOwned` by an invariant between the turns.
2. Paths in `Fs`; the transmit ring; the user heap.
3. Of lwIP: `mem.c` and `pbuf.c` (a heap and reference counts), then received
   data, once `net/input.c` is written.
