------------------------------ MODULE NetServ -------------------------------
(***************************************************************************)
(* The network server and its clients: the request loop and its threads    *)
(* (net/serv.c), the client side of a request (lib/nsipc.c, lib/ipc.c),    *)
(* the timer and output environments (net/timer.c, net/output.c), and in   *)
(* the server lwIP's socket and netconn calls (api/sockets.c,              *)
(* api/api_lib.c) with their lower halves in tcpip_thread (api/tcpip.c,    *)
(* api/api_msg.c).  net/input.c is a stub: nothing is ever received, so    *)
(* recv() waits for an error and accept() for ever, and a TCP connection   *)
(* gets from SYN_SENT only to being aborted by tcp_slowtmr().              *)
(*                                                                         *)
(* The threads are cooperative: while one runs, or blocks the whole server *)
(* in an ipc_send(), no other does.  When the main thread yields, each of  *)
(* the others has one turn before it goes on, in the order of creation:    *)
(* all go to the end of one queue again and again (module SysArch, which   *)
(* also has the semaphores).                                               *)
(***************************************************************************)
EXTENDS Integers, Sequences, FiniteSets, FiniteSetsExt

CONSTANTS
  Clients,      \* environments that use sockets
  Ops,          \* the requests each of them makes
  QUEUE_SIZE,
  NUM_SOCKETS,
  MAXYIELD,     \* the limit on the yields before ipc_recv(), 32 in the code
  NULL

ASSUME NetAssumption ==
  /\ QUEUE_SIZE \in Nat \ {0} /\ NUM_SOCKETS \in Nat \ {0} /\ MAXYIELD \in Nat
  /\ NULL \notin Clients /\ NULL \notin 1 .. NUM_SOCKETS

Bufs == 0 .. QUEUE_SIZE - 1
Socks == 0 .. NUM_SOCKETS - 1
Conns == 1 .. NUM_SOCKETS

\* A request thread is named by its buffer; the three net_timer threads are one.
TCPIP == QUEUE_SIZE
TIMERS == QUEUE_SIZE + 1

VARIABLES
  client,   \* pc, and the request
  holders,  \* the clients with a descriptor for the socket
  timer, output,  \* where the two environments are
  main,     \* the main thread: pc, its buffer, the yields so far
  queue,    \* the other threads in the order of their turns
  todo,     \* those that have one before the main thread goes on
  th,       \* the request threads
  buse,
  mbox,     \* API messages: the threads on whose stack they are
  tcpip,    \* tcpip_thread: waiting, woken, or between two messages
  conn, sock,
  pkt,      \* the server is in low_level_output()
  dangling  \* a descriptor or a netconn refers to what is no longer its own

envVars == <<client, holders, timer, output>>
connVars == <<conn, sock>>
vars == <<envVars, main, queue, todo, th, buse, mbox, tcpip, connVars, pkt, dangling>>

NoConn == [used |-> FALSE, tcp |-> FALSE, pcb |-> "null", state |-> "none", err |-> "ok",
           op_completed |-> 0, recvmbox |-> FALSE, acceptmbox |-> FALSE, eof |-> 0]
NoThread == [at |-> "none", woken |-> FALSE, whom |-> NULL, op |-> NULL,
             s |-> 0, k |-> 0, r |-> 0]
Idle == [pc |-> "idle", op |-> NULL, s |-> 0]

\* After serve_init(): umain() has forked the helpers and started the threads.
Init ==
  /\ client = [c \in Clients |-> Idle]
  /\ holders = [s \in Socks |-> {}]
  /\ timer = "send" /\ output = "recv"
  /\ main = [pc |-> "flush", b |-> 0, i |-> 0]
  /\ queue = <<TCPIP, TIMERS>> /\ todo = <<>>
  /\ th = [b \in Bufs |-> NoThread]
  /\ buse = [b \in Bufs |-> FALSE]
  /\ mbox = <<>> /\ tcpip = "wait"
  /\ conn = [k \in Conns |-> NoConn]
  /\ sock = [s \in Socks |-> NULL]
  /\ pkt = FALSE /\ dangling = FALSE
-----------------------------------------------------------------------------
(* The other environments. *)

\* The wrappers of nsipc.c fill in nsipcbuf; then ipc_send() tries until the
\* server receives.
Call(c, op, s) ==
  /\ client[c].pc = "idle"
  /\ IF op \in {"tcp", "udp"} THEN s = 0 ELSE c \in holders[s]
  /\ client' = [client EXCEPT ![c] = [pc |-> "send", op |-> op, s |-> s]]
  /\ UNCHANGED <<holders, timer, output, main, queue, todo, th, buse, mbox, tcpip, connVars, pkt, dangling>>

ClientRecv(c) ==
  /\ client[c].pc = "sent"
  /\ client' = [client EXCEPT ![c].pc = "recv"]
  /\ UNCHANGED <<holders, timer, output, main, queue, todo, th, buse, mbox, tcpip, connVars, pkt, dangling>>

\* Killed while the server owes it an answer.
Kill(c) ==
  /\ client[c].pc \in {"sent", "recv"}
  /\ client' = [client EXCEPT ![c] = [Idle EXCEPT !.pc = "dead"]]
  /\ UNCHANGED <<holders, timer, output, main, queue, todo, th, buse, mbox, tcpip, connVars, pkt, dangling>>

\* timer(): ipc_recv() for the next interval; the interval is of any length.
TimerStep ==
  /\ timer = "sent" /\ timer' = "recv"
  /\ UNCHANGED <<client, holders, output, main, queue, todo, th, buse, mbox, tcpip, connVars, pkt, dangling>>

\* output(): the packet is handed to the driver, which may take several tries.
OutputStep ==
  /\ output = "busy" /\ output' = "recv"
  /\ UNCHANGED <<client, holders, timer, main, queue, todo, th, buse, mbox, tcpip, connVars, pkt, dangling>>
-----------------------------------------------------------------------------
(* Threads. *)

\* thread_wakeups_pending()
Pending == tcpip = "woken" \/ \E b \in Bufs : th[b].woken

\* The running thread, if any, is not in the middle of its turn.
Free == /\ main.pc # "down" /\ ~pkt /\ tcpip # "run"
        /\ \A b \in Bufs : th[b].at # "reply"

MainTurn(l) == Free /\ todo = <<>> /\ main.pc = l
\* thread_yield() of the main thread to the threads in q.  tcpip_thread, the
\* first, is left out if it has no message: its timeouts do what Timers does.
YieldTo(q) == todo' = IF tcpip = "woken" THEN q ELSE Tail(q)
Turn(t) == Free /\ todo # <<>> /\ Head(todo) = t

\* serve(): "we flush all pending work from other threads".
MainYield ==
  /\ MainTurn("flush") /\ Pending /\ main.i < MAXYIELD
  /\ main' = [main EXCEPT !.i = @ + 1]
  /\ YieldTo(queue)
  /\ UNCHANGED <<envVars, queue, th, buse, mbox, tcpip, connVars, pkt, dangling>>

\* get_buffer(), and ipc_recv() begins.
GetBuffer ==
  /\ MainTurn("flush") /\ ~(Pending /\ main.i < MAXYIELD)
  /\ IF \A b \in Bufs : buse[b]
     THEN main' = [main EXCEPT !.pc = "down"] /\ UNCHANGED buse
     ELSE LET b == Min({x \in Bufs : ~buse[x]})
          IN  main' = [pc |-> "recv", b |-> b, i |-> 0] /\ buse' = [buse EXCEPT ![b] = TRUE]
  /\ UNCHANGED <<envVars, queue, todo, th, mbox, tcpip, connVars, pkt, dangling>>

\* A mutant of Receive: the buffer is put back as soon as the thread is there.
ReceivePut(c) ==
  /\ MainTurn("recv") /\ client[c].pc = "send"
  /\ client' = [client EXCEPT ![c].pc = "sent"]
  /\ th' = [th EXCEPT ![main.b] = [NoThread EXCEPT !.at = "start", !.whom = c,
                                     !.op = client[c].op, !.s = client[c].s]]
  /\ queue' = Append(queue, main.b) /\ YieldTo(queue')
  /\ main' = [main EXCEPT !.pc = "flush"]
  /\ buse' = [buse EXCEPT ![main.b] = FALSE]
  /\ UNCHANGED <<holders, timer, output, mbox, tcpip, connVars, pkt, dangling>>

\* A request with its page: serve_thread() is created and has the first turn.
\* Without memory for its arguments serve() panics; without memory for the
\* thread thread_create() fails, which serve() does not notice.
Receive(c) ==
  /\ MainTurn("recv") /\ client[c].pc = "send"
  /\ client' = [client EXCEPT ![c].pc = "sent"]
  /\ \/ \E a \in {"start", "lost"} :
          /\ th' = [th EXCEPT ![main.b] = [NoThread EXCEPT !.at = a, !.whom = c,
                                              !.op = client[c].op, !.s = client[c].s]]
          /\ queue' = (IF a = "start" THEN Append(queue, main.b) ELSE queue) /\ YieldTo(queue')
          /\ main' = [main EXCEPT !.pc = "flush"]
     \/ main' = [main EXCEPT !.pc = "down"] /\ UNCHANGED <<th, queue, todo>>
  /\ UNCHANGED <<holders, timer, output, buse, mbox, tcpip, connVars, pkt, dangling>>

\* NSREQ_TIMER: process_timer() yields first.
ReceiveTimer ==
  /\ MainTurn("recv") /\ timer = "send"
  /\ timer' = "sent"
  /\ main' = [main EXCEPT !.pc = "timer"]
  /\ YieldTo(queue)
  /\ UNCHANGED <<client, holders, output, queue, th, buse, mbox, tcpip, connVars, pkt, dangling>>

\* ipc_send() of the next interval, and put_buffer().
ReplyTimer ==
  /\ MainTurn("timer") /\ timer = "recv"
  /\ timer' = "send"
  /\ buse' = [buse EXCEPT ![main.b] = FALSE]
  /\ main' = [main EXCEPT !.pc = "flush"]
  /\ UNCHANGED <<client, holders, output, queue, todo, th, mbox, tcpip, connVars, pkt, dangling>>

\* low_level_output(): ipc_send() of the packet succeeds, or there was no
\* memory for its page.
SendPacket ==
  /\ pkt /\ main.pc # "down"
  /\ \/ output = "recv" /\ output' = "busy" /\ pkt' = FALSE /\ UNCHANGED main
     \/ main' = [main EXCEPT !.pc = "down"] /\ UNCHANGED <<output, pkt>>
  /\ UNCHANGED <<client, holders, timer, queue, todo, th, buse, mbox, tcpip, connVars, dangling>>
-----------------------------------------------------------------------------
(* A request thread: serve_thread() and the socket call. *)

\* tcpip_apimsg(): the message is on this thread's stack, which waits on
\* op_completed.  Its lower half is named by the request.
Api(b, k) ==
  /\ th' = [th EXCEPT ![b].at = "api", ![b].k = k]
  /\ mbox' = Append(mbox, b)
  /\ tcpip' = "woken"

\* The call returns r; ipc_send() of the answer is next.
Return(b, r) == th' = [th EXCEPT ![b].at = "reply", ![b].woken = FALSE, ![b].r = r]

\* lwip_socket() down to netconn_alloc()
StartSocket(b) ==
  IF \A k \in Conns : conn[k].used
  THEN Return(b, -1) /\ UNCHANGED <<mbox, tcpip, conn>>
  ELSE LET k == Min({x \in Conns : ~conn[x].used})
       IN  /\ conn' = [conn EXCEPT ![k] = [NoConn EXCEPT !.used = TRUE, !.recvmbox = TRUE,
                                                        !.tcp = (th[b].op = "tcp")]]
           /\ Api(b, k)

\* netconn_recv(); eof counts what err_tcp() has posted.
StartRecv(b, k) ==
  /\ UNCHANGED <<mbox, tcpip>>
  /\ IF ~conn[k].recvmbox
     THEN Return(b, 0) /\ conn' = [conn EXCEPT ![k].err = "fatal"]
     ELSE IF conn[k].err = "fatal" THEN Return(b, 0) /\ UNCHANGED conn
     ELSE IF conn[k].eof > 0
     THEN Return(b, 0) /\ conn' = [conn EXCEPT ![k].eof = @ - 1, ![k].err = "fatal"]
     ELSE th' = [th EXCEPT ![b].at = "recv", ![b].k = k] /\ UNCHANGED conn

\* netconn_accept()
StartAccept(b, k) ==
  /\ UNCHANGED <<mbox, tcpip, conn>>
  /\ IF conn[k].acceptmbox THEN th' = [th EXCEPT ![b].at = "accept", ![b].k = k]
     ELSE Return(b, -1)

Start(b) ==
  LET op == th[b].op
      k == sock[th[b].s]
  IN  /\ Turn(b) /\ th[b].at = "start"
      /\ todo' = Tail(todo)
      /\ CASE op \in {"tcp", "udp"} -> StartSocket(b)
           [] op \notin {"tcp", "udp"} /\ k = NULL ->   \* get_socket()
                Return(b, -1) /\ UNCHANGED <<mbox, tcpip, conn>>
           [] op = "recv" /\ k # NULL -> StartRecv(b, k)
           [] op = "accept" /\ k # NULL -> StartAccept(b, k)
           [] OTHER -> Api(b, k) /\ UNCHANGED conn
      /\ UNCHANGED <<envVars, main, queue, buse, sock, pkt, dangling>>

\* tcpip_apimsg() returns, and the call does the rest of its work.
Finish(b, k) ==
  LET s == Min({x \in Socks : sock[x] = NULL})   \* alloc_socket()
  IN  CASE th[b].op \in {"tcp", "udp"} /\ conn[k].err = "ok" ->
             Return(b, s) /\ sock' = [sock EXCEPT ![s] = k]
             /\ conn' = [conn EXCEPT ![k].op_completed = @ - 1]
        [] th[b].op \in {"tcp", "udp"} /\ conn[k].err # "ok" ->
             Return(b, -1) /\ conn' = [conn EXCEPT ![k] = NoConn] /\ UNCHANGED sock
        [] th[b].op \in {"close", "shutdown"} ->   \* netconn_free()
             Return(b, 0) /\ conn' = [conn EXCEPT ![k] = NoConn]
             /\ sock' = [sock EXCEPT ![th[b].s] = NULL]
        [] OTHER -> /\ Return(b, IF conn[k].err = "ok" THEN 0 ELSE -1)
                    /\ conn' = [conn EXCEPT ![k].op_completed = @ - 1]
                    /\ UNCHANGED sock

\* A turn in sys_arch_sem_wait(): it goes on, or waits (again).
Wait(b) ==
  LET k == th[b].k
      wait == th' = [th EXCEPT ![b].woken = FALSE] /\ UNCHANGED connVars
  IN  /\ Turn(b) /\ th[b].at \in {"api", "recv", "accept"}
      /\ todo' = Tail(todo)
      /\ \/ th[b].at = "api" /\ th[b].woken /\ conn[k].op_completed > 0 /\ Finish(b, k)
         \/ th[b].at = "api" /\ ~(th[b].woken /\ conn[k].op_completed > 0) /\ wait
         \/ /\ th[b].at = "recv" /\ th[b].woken /\ conn[k].eof > 0
            /\ Return(b, 0)
            /\ conn' = [conn EXCEPT ![k].eof = @ - 1, ![k].err = "fatal"]
            /\ UNCHANGED sock
         \/ /\ th[b].at \in {"recv", "accept"}
            /\ ~(th[b].at = "recv" /\ th[b].woken /\ conn[k].eof > 0)
            /\ wait
      /\ UNCHANGED <<envVars, main, queue, buse, mbox, tcpip, pkt, dangling>>

\* ipc_send() of the answer, which panics if the client is gone; put_buffer(),
\* and the thread halts.  Afterwards the client has a descriptor for the new
\* socket, or has closed its own; after shutdown(), which in the server is a
\* close, it keeps it, and the next socket may get the same number.
Reply(b) ==
  LET c == th[b].whom
  IN  /\ main.pc # "down" /\ ~pkt /\ th[b].at = "reply"
      /\ \/ /\ client[c].pc = "recv"
            /\ client' = [client EXCEPT ![c] = Idle]
            /\ holders' = CASE th[b].op \in {"tcp", "udp"} /\ th[b].r >= 0 ->
                                 [holders EXCEPT ![th[b].r] = @ \cup {c}]
                            [] th[b].op = "close" -> [holders EXCEPT ![th[b].s] = @ \ {c}]
                            [] OTHER -> holders
            /\ dangling' = (dangling \/ (/\ th[b].op \in {"tcp", "udp"} /\ th[b].r >= 0
                                         /\ holders[th[b].r] # {}))
            /\ th' = [th EXCEPT ![b] = NoThread]
            /\ queue' = SelectSeq(queue, LAMBDA t : t # b)
            /\ buse' = [buse EXCEPT ![b] = FALSE]
            /\ UNCHANGED main
         \/ /\ client[c].pc = "dead"
            /\ main' = [main EXCEPT !.pc = "down"]
            /\ UNCHANGED <<client, holders, queue, th, buse, dangling>>
      /\ UNCHANGED <<timer, output, todo, mbox, tcpip, connVars, pkt>>
-----------------------------------------------------------------------------
(* tcpip_thread: the lower halves (api_msg.c). *)

\* A mutant of Signal: the semaphore is counted up and nobody is woken.
SignalSilent(k, cn, w) ==
  /\ conn' = [conn EXCEPT ![k] = [cn EXCEPT !.op_completed = @ + 1]]
  /\ th' = w

\* sys_sem_signal(op_completed): every thread that waits there is woken.
Signal(k, cn, w) ==
  /\ conn' = [conn EXCEPT ![k] = [cn EXCEPT !.op_completed = @ + 1]]
  /\ th' = [b \in Bufs |-> IF w[b].at = "api" /\ w[b].k = k
                           THEN [w[b] EXCEPT !.woken = TRUE] ELSE w[b]]

\* pcb_new() may find no memory.
DoNewconn(k) ==
  \/ Signal(k, [conn[k] EXCEPT !.pcb = IF conn[k].tcp THEN "closed" ELSE "udp"], th)
  \/ Signal(k, [conn[k] EXCEPT !.err = "soft"], th)

\* do_close_internal() and udp_remove(): nothing here can be in a state that
\* tcp_close() has to wait for.
DoDelconn(k) ==
  Signal(k, IF conn[k].tcp /\ conn[k].pcb # "null"
            THEN [conn[k] EXCEPT !.pcb = "null", !.state = "none", !.err = "ok"]
            ELSE [conn[k] EXCEPT !.pcb = "null"], th)

\* tcp_bind() and udp_bind() may find the port in use.
DoBind(k) ==
  \E e \in {"ok", "fatal"} :
    /\ conn[k].err = "fatal" \/ (conn[k].tcp /\ conn[k].pcb # "closed") => e = "fatal"
    /\ Signal(k, [conn[k] EXCEPT !.err = e], th)

\* A mutant of DoConnect: it signals at once, as do_bind() does.
DoConnectSignals(k) ==
  Signal(k, [conn[k] EXCEPT !.state = IF conn[k].tcp THEN "connect" ELSE @,
                            !.pcb = IF @ = "closed" THEN "syn_sent" ELSE @], th)

\* "sys_sem_signal() is called from do_connected (or err_tcp())": not here, also
\* when tcp_connect() refuses a pcb that is not closed, or has no memory for the
\* SYN, and leaves a pcb in SYN_SENT that nothing retransmits or aborts.  (On a
\* listening socket setup_tcp() also writes behind the smaller listen pcb.)
DoConnect(k) ==
  CASE conn[k].pcb = "null" -> Signal(k, conn[k], th)
    [] conn[k].pcb = "udp" ->
         \E e \in {"ok", "fatal"} : Signal(k, [conn[k] EXCEPT !.err = e], th)
    [] OTHER ->
         /\ \E out \in IF conn[k].pcb = "closed" THEN {<<"syn_sent", "ok">>, <<"stuck", "soft">>}
                       ELSE {<<conn[k].pcb, "fatal">>} :
              conn' = [conn EXCEPT ![k].state = "connect", ![k].pcb = out[1], ![k].err = out[2]]
         /\ UNCHANGED th

\* tcp_listen() may find no memory for the listen pcb.  If it finds some and
\* frees the old pcb, an error of an earlier call makes do_listen() keep that
\* one.  (There is always a mailbox: a netconn has one, and NMBOX is larger.)
DoListen(k) ==
  CASE conn[k].err = "fatal" \/ conn[k].pcb \in {"null", "udp"} -> Signal(k, conn[k], th)
    [] conn[k].err # "fatal" /\ conn[k].pcb = "closed" ->
         \/ Signal(k, [conn[k] EXCEPT !.err = "soft"], th)
         \/ Signal(k, [conn[k] EXCEPT !.pcb = IF conn[k].err = "ok" THEN "listen" ELSE "freed",
                                      !.state = IF conn[k].err = "ok" THEN "listen" ELSE @,
                                      !.recvmbox = FALSE, !.acceptmbox = TRUE], th)
    [] OTHER -> Signal(k, [conn[k] EXCEPT !.err = "fatal"], th)

\* do_write() and do_writemore() for TCP, do_send() for UDP.
DoSend(k) ==
  CASE conn[k].err = "fatal" -> Signal(k, conn[k], th)
    [] conn[k].err # "fatal" /\ conn[k].tcp ->
         Signal(k, [conn[k] EXCEPT !.state = IF conn[k].pcb = "null" THEN @ ELSE "none",
                                   !.err = IF conn[k].pcb \in {"syn_sent", "stuck"}
                                           THEN "ok" ELSE "fatal"], th)
    [] OTHER -> \E e \in {"ok", "soft"} : Signal(k, [conn[k] EXCEPT !.err = e], th)

\* One API message; some send a packet.
Tcpip ==
  LET b == Head(mbox)
      k == th[b].k
      op == th[b].op
  IN  /\ tcpip = "run" \/ Turn(TCPIP)
      /\ main.pc # "down" /\ ~pkt /\ mbox # <<>>   \* sys_mbox_fetch()
      /\ mbox' = Tail(mbox)
      /\ tcpip' = IF Tail(mbox) = <<>> THEN "wait" ELSE "run"
      /\ todo' = IF tcpip = "run" THEN todo ELSE Tail(todo)
      /\ \/ op \in {"tcp", "udp"} /\ DoNewconn(k)
         \/ op \in {"close", "shutdown"} /\ DoDelconn(k)
         \/ op = "bind" /\ DoBind(k)
         \/ op = "connect" /\ DoConnect(k)
         \/ op = "listen" /\ DoListen(k)
         \/ op = "send" /\ DoSend(k)
      /\ pkt' \in IF op \in {"connect", "send"} THEN BOOLEAN ELSE {FALSE}
      /\ dangling' = (dangling \/ conn'[k].pcb = "freed")
      /\ UNCHANGED <<envVars, main, queue, buse, sock>>

\* net_timer(): a timer function that at most sends packets.
Timers ==
  /\ Turn(TIMERS)
  /\ todo' = Tail(todo)
  /\ pkt' \in BOOLEAN
  /\ UNCHANGED <<envVars, main, queue, th, buse, mbox, tcpip, connVars, dangling>>

\* tcp_slowtmr() gives a connection up after TCP_SYNMAXRTX tries: err_tcp().
Abort(k) ==
  LET cn == [conn[k] EXCEPT !.pcb = "null", !.err = "fatal", !.state = "none", !.eof = @ + 1]
      w == [b \in Bufs |-> IF th[b].at = "recv" /\ th[b].k = k
                           THEN [th[b] EXCEPT !.woken = TRUE] ELSE th[b]]
  IN  /\ Turn(TIMERS) /\ conn[k].pcb = "syn_sent"
      /\ todo' = Tail(todo)
      /\ IF conn[k].state = "connect" THEN Signal(k, cn, w)
         ELSE conn' = [conn EXCEPT ![k] = cn] /\ th' = w
      /\ UNCHANGED <<envVars, main, queue, buse, mbox, tcpip, sock, pkt, dangling>>
-----------------------------------------------------------------------------
NsStep ==
  \/ MainYield \/ GetBuffer \/ ReceiveTimer \/ ReplyTimer \/ SendPacket
  \/ \E c \in Clients : Receive(c)
  \/ \E b \in Bufs : Start(b) \/ Wait(b) \/ Reply(b)
  \/ Tcpip \/ Timers \/ \E k \in Conns : Abort(k)

Next ==
  \/ NsStep \/ TimerStep \/ OutputStep
  \/ \E c \in Clients : \/ ClientRecv(c) \/ Kill(c)
                        \/ \E op \in Ops[c], s \in Socks : Call(c, op, s)

Spec == Init /\ [][Next]_vars

\* Every environment is scheduled again and again, so the server, its helpers
\* and a client in a request go on.
Fairness ==
  /\ WF_vars(NsStep) /\ WF_vars(TimerStep) /\ WF_vars(OutputStep)
  /\ \A c \in Clients : WF_vars(ClientRecv(c))

LiveSpec == Spec /\ Fairness

\* And tcp_slowtmr() counts its tries.
AbortSpec == LiveSpec /\ \A k \in Conns : SF_vars(Abort(k))
-----------------------------------------------------------------------------
AllOps == UNION {Ops[c] : c \in Clients}

TypeOK ==
  /\ client \in [Clients -> [pc : {"idle", "send", "sent", "recv", "dead"},
                             op : AllOps \cup {NULL}, s : Socks]]
  /\ holders \in [Socks -> SUBSET Clients]
  /\ timer \in {"send", "sent", "recv"} /\ output \in {"recv", "busy"}
  /\ main \in [pc : {"flush", "recv", "timer", "down"}, b : Bufs, i : 0 .. MAXYIELD]
  /\ queue \in Seq(0 .. TIMERS) /\ todo \in Seq(0 .. TIMERS)
  /\ th \in [Bufs -> [at : {"none", "lost", "start", "api", "recv", "accept", "reply"},
                      woken : BOOLEAN, whom : Clients \cup {NULL}, op : AllOps \cup {NULL},
                      s : Socks, k : Conns \cup {0}, r : Socks \cup {-1}]]
  /\ buse \in [Bufs -> BOOLEAN]
  /\ mbox \in Seq(Bufs) /\ tcpip \in {"wait", "woken", "run"}
  /\ sock \in [Socks -> Conns \cup {NULL}] /\ pkt \in BOOLEAN
  /\ dangling \in BOOLEAN

\* A buffer is in use exactly while the main thread receives into it or it
\* has a request: no request is overwritten by the next one, and no buffer is
\* lost but with a request for which thread_create() failed.
BuffersExact ==
  main.pc # "down" => \A b \in Bufs :
    /\ buse[b] <=> th[b].at # "none" \/ (main.pc \in {"recv", "timer"} /\ main.b = b)
    /\ main.pc = "recv" /\ main.b = b => th[b].at = "none"

\* Every thread in tcpip_apimsg() has one completion to come or to take, and
\* no other is under way.  So no call returns before its lower half has run
\* with the message on its stack, and none waits for a signal that is not sent;
\* only a connect() counts as awaiting do_connected() or err_tcp() although
\* neither may come (ConnectReturns).  While the server keeps to its own: it
\* may not after shutdown(), or after listen() has once failed.
OneCompletionPerCall ==
  ~dangling => \A k \in Conns :
    Cardinality({b \in Bufs : th[b].at = "api" /\ th[b].k = k})
      = conn[k].op_completed
        + Cardinality({i \in 1 .. Len(mbox) : th[mbox[i]].k = k})
        + (IF conn[k].state = "connect" THEN 1 ELSE 0)

\* The request never got a thread.
Lost(c) == \E b \in Bufs : th[b].at = "lost" /\ th[b].whom = c

\* A request that does not wait for the network (recv, accept, connect) is
\* answered if a thread was created for it: no wakeup is lost while the whole
\* server sits in ipc_recv(), and server, timer, output and clients never wait
\* for each other in a circle.
Answered ==
  \A c \in Clients :
    (client[c].pc \in {"sent", "recv"} /\ client[c].op \notin {"recv", "accept", "connect"})
      ~> (client[c].pc \in {"idle", "dead"} \/ main.pc = "down" \/ Lost(c) \/ dangling)

\* netconn_connect() returns, as its description says: with ERR_OK if
\* connected and with the error of tcp_connect() otherwise.
ConnectReturns ==
  \A c \in Clients :
    (client[c].pc \in {"sent", "recv"} /\ client[c].op = "connect")
      ~> (client[c].pc \in {"idle", "dead"} \/ main.pc = "down" \/ Lost(c) \/ dangling)
=============================================================================
