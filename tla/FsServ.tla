------------------------------- MODULE FsServ -------------------------------
(***************************************************************************)
(* The file server's request loop and open-file table (fs/serv.c) and its  *)
(* clients in the user library (lib/file.c, lib/fd.c, lib/ipc.c).  An open *)
(* file is an entry of opentab and an Fd page, which the server shares     *)
(* with every environment that has the file open.  The server learns that  *)
(* a file is closed only from the reference count of that page, which      *)
(* close(), fork() and the death of clients change at any time.            *)
(*                                                                         *)
(* The server maps the page of an entry once and keeps it, so a page is    *)
(* named by its entry.  What the file layer does to the disk is module Fs; *)
(* here an operation succeeds and moves the file offset, fails, or stops   *)
(* the server.                                                             *)
(***************************************************************************)
EXTENDS Integers, FiniteSets

CONSTANTS
  Clients,    \* environments that use the server
  MAXFD,      \* descriptors of a client
  MAXOPEN,    \* entries of opentab
  IdLaps,     \* o_fileid wraps to the entry's index after this many allocations
  MaxOffset,  \* bound on fd_offset
  Files,
  Nobody, NoFile

Entries == 0 .. MAXOPEN - 1
Fds == 0 .. MAXFD - 1
FileIds == 0 .. MAXOPEN * IdLaps - 1

ASSUME FsServAssumption ==
  /\ MAXFD \in Nat \ {0} /\ MAXOPEN \in Nat \ {0}
  /\ IdLaps \in Nat \ {0} /\ MaxOffset \in Nat
  /\ IsFiniteSet(Clients) /\ Nobody \notin Clients /\ NoFile \notin Files

VARIABLES
  life,     \* "none", "live" or "dead"
  fds,      \* the entry whose Fd page is mapped at a descriptor, -1 if none
  call,     \* the request a client is making
  cow,      \* the clients whose fsipcbuf is copy-on-write
  opentab,  \* o_fileid, o_file; is o_fd mapped, and the id and offset in its page
  srv,      \* the server: pc, the request, the loop index, the answer
  opened,   \* the file a client opened at a descriptor
  moved     \* words read or written through an entry since it was taken

clientVars == <<life, fds, call, cow, opened>>
vars == <<clientVars, opentab, srv, moved>>

Idle == [pc |-> "idle", op |-> "sync", fd |-> 0, file |-> NoFile, id |-> 0]
Receiving == [pc |-> "recv", whom |-> Nobody, req |-> Idle, i |-> 0,
              r |-> "ok", pg |-> -1]

Init ==
  /\ life \in [Clients -> {"live", "none"}] /\ \E c \in Clients : life[c] = "live"
  /\ fds = [c \in Clients |-> [s \in Fds |-> -1]]
  /\ call = [c \in Clients |-> Idle]
  /\ cow = {}
  /\ opentab = [i \in Entries |-> [o_fileid |-> i, o_file |-> NoFile,
                                   mapped |-> FALSE, id |-> 0, fd_offset |-> 0]]
  /\ srv = Receiving
  /\ opened = [c \in Clients |-> [s \in Fds |-> NoFile]]
  /\ moved = [i \in Entries |-> 0]

\* pageref() of the Fd page of an entry, asked by the server.
PageRef(i) ==
  IF opentab[i].mapped
  THEN 1 + Cardinality({h \in Clients \X Fds : fds[h[1]][h[2]] = i}) ELSE 0
-----------------------------------------------------------------------------
(***************************************************************************)
(* The clients.                                                            *)
(***************************************************************************)
At(c, l) == life[c] = "live" /\ call[c].pc = l

\* A request is written to fsipcbuf, which ends the sharing of that page with
\* another environment; sync() writes nothing there.
Request(c, op, s, f, id) ==
  /\ At(c, "idle")
  /\ call' = [call EXCEPT ![c] = [pc |-> "send", op |-> op, fd |-> s,
                                  file |-> f, id |-> id]]
  /\ cow' = IF op = "sync" THEN cow ELSE cow \ {c}
  /\ UNCHANGED <<life, fds, opened, opentab, srv, moved>>

\* open() at the first free descriptor, as fd_alloc() finds it.
Open(c, f) ==
  \E s \in Fds :
    /\ fds[c][s] = -1 /\ \A t \in 0 .. s - 1 : fds[c][t] # -1
    /\ Request(c, "open", s, f, 0)

\* read(), write(), fstat() and ftruncate() ("use"), and close(), which flushes
\* first.  The file id comes from the shared Fd page.
OnFile(c, op, s) ==
  fds[c][s] # -1 /\ Request(c, op, s, NoFile, opentab[fds[c][s]].id)

SyncCall(c) == Request(c, "sync", 0, NoFile, 0)

\* ipc_send() to the server: tried until the server is receiving.  The kernel
\* refuses to send a copy-on-write page with PTE_W, and ipc_send() panics.
Send(c) ==
  /\ At(c, "send") /\ srv.pc = "recv"
  /\ IF c \in cow
     THEN call' = [call EXCEPT ![c].pc = "panic"] /\ UNCHANGED srv
     ELSE /\ call' = [call EXCEPT ![c] = [Idle EXCEPT !.pc = "sent"]]
          /\ srv' = [Receiving EXCEPT !.whom = c, !.req = call[c],
                                      !.pc = IF call[c].op = "open" THEN "scan" ELSE "work"]
  /\ UNCHANGED <<life, fds, cow, opened, opentab, moved>>

\* sys_ipc_recv() for the answer.
Wait(c) ==
  /\ At(c, "sent")
  /\ call' = [call EXCEPT ![c].pc = "recv"]
  /\ UNCHANGED <<life, fds, cow, opened, opentab, srv, moved>>

\* fd_close() after devfile_flush(): the Fd page is unmapped.
CloseUnmap(c) ==
  /\ At(c, "unmap")
  /\ fds' = [fds EXCEPT ![c][call[c].fd] = -1]
  /\ opened' = [opened EXCEPT ![c][call[c].fd] = NoFile]
  /\ call' = [call EXCEPT ![c] = Idle]
  /\ UNCHANGED <<life, cow, opentab, srv, moved>>

\* dup() to a descriptor that is closed; to another it begins with close().
Dup(c, s, t) ==
  /\ At(c, "idle") /\ fds[c][s] # -1 /\ fds[c][t] = -1
  /\ fds' = [fds EXCEPT ![c][t] = fds[c][s]]
  /\ opened' = [opened EXCEPT ![c][t] = opened[c][s]]
  /\ UNCHANGED <<life, call, cow, opentab, srv, moved>>

\* fork(): the Fd pages are shared, fsipcbuf becomes copy-on-write in both.
\* While the pages are mapped one by one, the parent holds each of them.
Fork(c, d) ==
  /\ At(c, "idle") /\ life[d] = "none"
  /\ life' = [life EXCEPT ![d] = "live"]
  /\ fds' = [fds EXCEPT ![d] = fds[c]]
  /\ opened' = [opened EXCEPT ![d] = opened[c]]
  /\ cow' = cow \cup {c, d}
  /\ UNCHANGED <<call, opentab, srv, moved>>

\* exit(), or the environment is destroyed wherever it is: env_free().
Die(c) ==
  /\ life[c] = "live"
  /\ life' = [life EXCEPT ![c] = "dead"]
  /\ fds' = [fds EXCEPT ![c] = [s \in Fds |-> -1]]
  /\ opened' = [opened EXCEPT ![c] = [s \in Fds |-> NoFile]]
  /\ call' = [call EXCEPT ![c] = Idle]
  /\ cow' = cow \ {c}
  /\ UNCHANGED <<opentab, srv, moved>>
-----------------------------------------------------------------------------
(***************************************************************************)
(* The server.                                                             *)
(***************************************************************************)
Answer(r, pg) == srv' = [srv EXCEPT !.pc = "reply", !.r = r, !.pg = pg]

\* As an int, an o_fileid of the upper half is negative.
Negative(id) == 2 * id >= MAXOPEN * IdLaps

NextId(i) == (opentab[i].o_fileid + MAXOPEN) % (MAXOPEN * IdLaps)

\* Mutant of TakeEntry: the page is not cleared.
TakeEntryDirty(i) ==
  opentab' = [opentab EXCEPT ![i].o_fileid = NextId(i), ![i].mapped = TRUE]

\* openfile_alloc() takes the entry and clears its page.
TakeEntry(i) ==
  opentab' = [opentab EXCEPT ![i] = [@ EXCEPT !.o_fileid = NextId(i), !.mapped = TRUE,
                                              !.id = 0, !.fd_offset = 0]]

InUse(i) == PageRef(i) > 1

\* Mutant of ScanSkip: the id is advanced before the count is looked at.
ScanSkipBumps ==
  /\ srv.pc = "scan" /\ srv.i \in Entries /\ InUse(srv.i)
  /\ srv' = [srv EXCEPT !.i = @ + 1]
  /\ opentab' = [opentab EXCEPT ![srv.i].o_fileid = NextId(srv.i)]
  /\ UNCHANGED <<clientVars, moved>>

\* openfile_alloc() looks at one entry after the other.
ScanSkip ==
  /\ srv.pc = "scan" /\ srv.i \in Entries /\ InUse(srv.i)
  /\ srv' = [srv EXCEPT !.i = @ + 1]
  /\ UNCHANGED <<clientVars, opentab, moved>>

\* Mutant of ScanTake: an entry whose page one client has mapped is taken, too.
ScanTakeShared ==
  /\ srv.pc = "scan" /\ srv.i \in Entries /\ PageRef(srv.i) <= 2
  /\ TakeEntry(srv.i) /\ moved' = [moved EXCEPT ![srv.i] = 0]
  /\ IF Negative(NextId(srv.i)) THEN Answer("error", -1)
     ELSE srv' = [srv EXCEPT !.pc = "open"]
  /\ UNCHANGED clientVars

\* An entry is found; serve_open() takes a negative id for an error.
ScanTake ==
  /\ srv.pc = "scan" /\ srv.i \in Entries /\ ~InUse(srv.i)
  /\ TakeEntry(srv.i) /\ moved' = [moved EXCEPT ![srv.i] = 0]
  /\ IF Negative(NextId(srv.i)) THEN Answer("error", -1)
     ELSE srv' = [srv EXCEPT !.pc = "open"]
  /\ UNCHANGED clientVars

\* sys_page_alloc() for the page fails.
ScanNoMem ==
  /\ srv.pc = "scan" /\ srv.i \in Entries /\ PageRef(srv.i) = 0
  /\ Answer("error", -1)
  /\ UNCHANGED <<clientVars, opentab, moved>>

\* Mutant of ScanFull: no answer when all entries are in use.
ScanFullSilent ==
  /\ srv.pc = "scan" /\ srv.i = MAXOPEN
  /\ srv' = Receiving
  /\ UNCHANGED <<clientVars, opentab, moved>>

\* -E_MAX_OPEN.
ScanFull ==
  /\ srv.pc = "scan" /\ srv.i = MAXOPEN
  /\ Answer("error", -1)
  /\ UNCHANGED <<clientVars, opentab, moved>>

\* The rest of serve_open(): the file layer creates, truncates or opens the
\* file, or fails.
ServeOpen ==
  /\ srv.pc = "open"
  /\ \/ /\ opentab' = [opentab EXCEPT ![srv.i].o_file = srv.req.file,
                                      ![srv.i].id = opentab[srv.i].o_fileid]
        /\ Answer("ok", srv.i)
     \/ Answer("error", -1) /\ UNCHANGED opentab
  /\ UNCHANGED <<clientVars, moved>>

\* openfile_lookup().
Found(id) == InUse(id % MAXOPEN) /\ opentab[id % MAXOPEN].o_fileid = id

\* serve_read() and serve_write() move the offset on by the words transferred,
\* none if the file layer fails; serve_stat() and serve_set_size() leave it.
ServeUse ==
  /\ srv.pc = "work" /\ srv.req.op = "use" /\ Found(srv.req.id)
  /\ LET i == srv.req.id % MAXOPEN
     IN  \E n \in 0 .. MaxOffset - opentab[i].fd_offset :
           /\ opentab' = [opentab EXCEPT ![i].fd_offset = @ + n]
           /\ moved' = [moved EXCEPT ![i] = @ + n]
  /\ Answer("ok", -1)
  /\ UNCHANGED clientVars

\* serve_flush(); serve_sync().
ServeFlush ==
  /\ srv.pc = "work"
  /\ (srv.req.op = "close" /\ Found(srv.req.id)) \/ srv.req.op = "sync"
  /\ Answer("ok", -1)
  /\ UNCHANGED <<clientVars, opentab, moved>>

\* -E_INVAL from openfile_lookup().
ServeUnknown ==
  /\ srv.pc = "work" /\ srv.req.op # "sync" /\ ~Found(srv.req.id)
  /\ Answer("unknown", -1)
  /\ UNCHANGED <<clientVars, opentab, moved>>

\* A panic of the file layer, whoever the client is: diskaddr() on the error that
\* file_get_block() does not look at when the disk is full, bc_pgfault() without
\* memory, or a disk error.
FilePanic ==
  /\ \/ srv.pc = "open"
     \/ srv.pc = "work" /\ (srv.req.op = "sync" \/ Found(srv.req.id))
  /\ srv' = [srv EXCEPT !.pc = "panic"]
  /\ UNCHANGED <<clientVars, opentab, moved>>

\* ipc_send() of the answer to a client that is waiting; for an open file the
\* kernel maps the Fd page at the client's descriptor.
Reply ==
  /\ srv.pc = "reply"
  /\ LET c == srv.whom
     IN  /\ At(c, "recv")
         /\ IF srv.pg = -1 THEN UNCHANGED <<fds, opened>>
            ELSE /\ fds' = [fds EXCEPT ![c][srv.req.fd] = srv.pg]
                 /\ opened' = [opened EXCEPT ![c][srv.req.fd] = srv.req.file]
         /\ call' = [call EXCEPT ![c] = IF srv.req.op = "close"
                                        THEN [Idle EXCEPT !.pc = "unmap", !.fd = srv.req.fd]
                                        ELSE Idle]
  /\ srv' = [Receiving EXCEPT !.pc = "done"]
  /\ UNCHANGED <<life, cow, opentab, moved>>

\* ipc_send() panics: the client is gone, or there is no memory for the page
\* table of its descriptor.
ReplyPanic ==
  /\ srv.pc = "reply"
  /\ life[srv.whom] = "dead" \/ (At(srv.whom, "recv") /\ srv.pg # -1)
  /\ srv' = [srv EXCEPT !.pc = "panic"]
  /\ UNCHANGED <<clientVars, opentab, moved>>

\* The request page is unmapped, and the server receives again.
Done ==
  /\ srv.pc = "done"
  /\ srv' = Receiving
  /\ UNCHANGED <<clientVars, opentab, moved>>
-----------------------------------------------------------------------------
Serve ==
  \/ ScanSkip \/ ScanTake \/ ScanNoMem \/ ScanFull \/ ServeOpen \/ ServeUse
  \/ ServeFlush \/ ServeUnknown \/ FilePanic \/ Reply \/ ReplyPanic \/ Done

Next ==
  \/ Serve
  \/ \E c \in Clients :
       \/ Send(c) \/ Wait(c) \/ CloseUnmap(c) \/ Die(c) \/ SyncCall(c)
       \/ \E f \in Files : Open(c, f)
       \/ \E s \in Fds : \/ \E op \in {"use", "close"} : OnFile(c, op, s)
                         \/ \E t \in Fds : Dup(c, s, t)
       \/ \E d \in Clients : Fork(c, d)

Spec == Init /\ [][Next]_vars
-----------------------------------------------------------------------------
Calls == [pc : {"idle", "send", "sent", "recv", "unmap", "panic"},
          op : {"open", "use", "close", "sync"},
          fd : Fds, file : Files \cup {NoFile}, id : FileIds]

OpenFiles == [o_fileid : FileIds, o_file : Files \cup {NoFile}, mapped : BOOLEAN,
              id : FileIds, fd_offset : 0 .. MaxOffset]

ServerStates == [pc : {"recv", "scan", "open", "work", "reply", "done", "panic"},
                 whom : Clients \cup {Nobody}, req : Calls, i : 0 .. MAXOPEN,
                 r : {"ok", "error", "unknown"}, pg : Entries \cup {-1}]

\* An entry's id always leads back to the entry, also after it wrapped.
TypeOK ==
  /\ life \in [Clients -> {"none", "live", "dead"}]
  /\ fds \in [Clients -> [Fds -> Entries \cup {-1}]]
  /\ opened \in [Clients -> [Fds -> Files \cup {NoFile}]]
  /\ call \in [Clients -> Calls]
  /\ cow \subseteq Clients
  /\ opentab \in [Entries -> OpenFiles]
  /\ \A i \in Entries : opentab[i].o_fileid % MAXOPEN = i
  /\ srv \in ServerStates
  /\ moved \in [Entries -> 0 .. MaxOffset]

\* A descriptor leads to the file that was opened with it as long as anyone has
\* it: the server never gives the entry of a page that a client still shares to
\* another open(), whatever the order of closes, forks and deaths.
OwnFile ==
  \A c \in Clients, s \in Fds :
    fds[c][s] # -1 => opentab[fds[c][s]].o_file = opened[c][s]

\* A request for an open file is never answered with -E_INVAL, unless the client
\* died in the meantime: the id a client reads from its Fd page is still the id
\* of the entry when the server looks it up.
RequestsKnown == srv.r = "unknown" => life[srv.whom] = "dead"

\* The offset of an open file is the number of words read and written through
\* it, by all who share it, since it was opened: a page that was used before
\* starts again at zero.
OffsetExact ==
  \A c \in Clients, s \in Fds :
    fds[c][s] # -1 => opentab[fds[c][s]].fd_offset = moved[fds[c][s]]

\* A client that has sent its request is the one the server works for, until
\* it has the answer: no request is dropped, and none is answered twice or to the
\* wrong client.  (One it works for when it panics waits for ever.)
AnswerIsComing ==
  \A c \in Clients :
    call[c].pc \in {"sent", "recv"} <=>
      life[c] = "live" /\ srv.whom = c
=============================================================================
