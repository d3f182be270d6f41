--------------------------- MODULE NetServProofs ----------------------------
(***************************************************************************)
(* The network server for any number of clients, buffers and sockets: the  *)
(* buffers of the requests are accounted for (BuffersAreExact), and each   *)
(* call into tcpip_thread has exactly one completion (CompletionsMatch).   *)
(***************************************************************************)
EXTENDS NetServ, FiniteSetTheorems, WellFoundedInduction, TLAPS

\* What alloc_socket() is taken to return when there is no free socket.
NoSock == Min({})

\* The requests for a new socket.
NewOps == {"tcp", "udp"}

\* A thread that waits in a call has a netconn, and only the upper halves of
\* recv() and accept() wait for the network.
Threads ==
  {t \in [at : {"none", "start", "api", "recv", "accept", "reply", "lost"},
          woken : BOOLEAN, whom : Clients \cup {NULL}, op : AllOps \cup {NULL},
          s : Socks, k : Conns \cup {0}, r : Socks \cup {-1, NoSock}] :
     /\ t.at \in {"api", "recv", "accept"} => t.k \in Conns
     /\ t.at \in {"recv", "accept"} => t.op \notin NewOps}

Types ==
  /\ client \in [Clients -> [pc : {"idle", "send", "sent", "recv", "dead"},
                             op : AllOps \cup {NULL}, s : Socks]]
  /\ main \in [pc : {"flush", "recv", "timer", "down"}, b : Bufs, i : Nat]
  /\ th \in [Bufs -> Threads]
  /\ buse \in [Bufs -> BOOLEAN]
  /\ sock \in [Socks -> Conns \cup {NULL}]

\* There is a request thread on the buffer.
Active(b) == th[b].at # "none"

\* A thread works for a client that waits for the answer or is dead, and no
\* other thread does.
Serving ==
  /\ \A b \in Bufs : Active(b) =>
       th[b].whom \in Clients /\ client[th[b].whom].pc \in {"sent", "recv", "dead"}
  /\ \A b, d \in Bufs : Active(b) /\ Active(d) /\ th[b].whom = th[d].whom => b = d

\* No thread has the buffer of the main thread.
MainAlone == main.pc \in {"recv", "timer"} => ~Active(main.b)

Inv == Types /\ Serving /\ MainAlone /\ BuffersExact
-----------------------------------------------------------------------------
(* Operators of the model. *)

LEMMA MinIn ==
  ASSUME NEW S, S \subseteq Nat, S # {}
  PROVE  Min(S) \in S
<1>1. PICK x \in S : \A y \in S : ~(<<y, x>> \in OpToRel(<, Nat))
  BY NatLessThanWellFounded, WFMin, Zenon
<1>2. ASSUME NEW y \in S PROVE x <= y
  <2>1. x \in Nat /\ y \in Nat
    BY Zenon
  <2>2. ~(y < x)
    BY <1>1, <2>1, Zenon DEF OpToRel
  <2> QED BY <2>1, <2>2
<1> QED BY <1>2, Zenon DEF Min

\* The threads are the same, for the same clients.
SameThreads ==
  /\ th' \in [Bufs -> Threads]
  /\ \A b \in Bufs : /\ th'[b].at = "none" <=> th[b].at = "none"
                     /\ th'[b].whom = th[b].whom

LEMMA KeepInv ==
  ASSUME Inv, SameThreads, UNCHANGED <<client, buse>>,
         main' \in [pc : {"flush", "recv", "timer", "down"}, b : Bufs, i : Nat],
         main'.pc = main.pc, main'.b = main.b, sock' \in [Socks -> Conns \cup {NULL}]
  PROVE  Inv'
<1>1. Types'
  BY Zenon DEF Inv, Types, SameThreads
<1>2. \A b \in Bufs : Active(b)' <=> Active(b)
  BY Zenon DEF SameThreads, Active
<1>3. Serving'
  BY <1>2, Zenon DEF Inv, Serving, SameThreads
<1>4. main.b \in Bufs
  BY Zenon DEF Inv, Types
<1>5. MainAlone'
  BY <1>2, <1>4, Zenon DEF Inv, MainAlone
<1>6. BuffersExact'
  BY DEF Inv, BuffersExact, SameThreads
<1> QED BY <1>1, <1>3, <1>5, <1>6, Zenon DEF Inv

\* sys_sem_signal() and err_tcp() only wake threads.
Woken(P) == th' = [b \in Bufs |-> IF P[b] THEN [th[b] EXCEPT !.woken = TRUE] ELSE th[b]]

OnlyWoken ==
  \A b \in Bufs : /\ th'[b].at = th[b].at /\ th'[b].op = th[b].op
                  /\ th'[b].s = th[b].s /\ th'[b].k = th[b].k
                  /\ th'[b].r = th[b].r /\ th'[b].whom = th[b].whom

LEMMA WokenThreads ==
  ASSUME Types, NEW P, Woken(P)
  PROVE  SameThreads /\ OnlyWoken
<1>1. ASSUME NEW b \in Bufs
      PROVE  /\ th'[b] \in Threads
             /\ th'[b].at = th[b].at /\ th'[b].op = th[b].op
             /\ th'[b].s = th[b].s /\ th'[b].k = th[b].k
             /\ th'[b].r = th[b].r /\ th'[b].whom = th[b].whom
  <2>1. th[b] \in Threads
    BY Zenon DEF Types
  <2>2. CASE th'[b] = th[b]
    BY <2>1, <2>2, Zenon
  <2>3. CASE th'[b] = [th[b] EXCEPT !.woken = TRUE]
    BY <2>1, <2>3, Zenon DEF Threads
  <2> QED BY <2>2, <2>3, Zenon DEF Woken
<1>2. th' \in [Bufs -> Threads]
  BY <1>1, Zenon DEF Woken
<1> QED BY <1>1, <1>2, Zenon DEF SameThreads, OnlyWoken

LEMMA SignalWoken ==
  ASSUME NEW k, NEW cn, NEW w, w = th, Signal(k, cn, w)
  PROVE  \E P : Woken(P)
<1> DEFINE P == [b \in Bufs |-> th[b].at = "api" /\ th[b].k = k]
<1>1. Woken(P)
  BY Zenon DEF Signal, Woken
<1> QED BY <1>1, Zenon

LEMMA TcpipThreads ==
  ASSUME Types, Tcpip
  PROVE  SameThreads /\ OnlyWoken
<1>a. PICK k : k = th[Head(mbox)].k
  BY Zenon
<1>1. \/ DoNewconn(k) \/ DoDelconn(k) \/ DoBind(k) \/ DoConnect(k) \/ DoListen(k) \/ DoSend(k)
  BY <1>a, Zenon DEF Tcpip
<1>2. (\E cn : Signal(k, cn, th)) \/ th' = th
  BY <1>1, Zenon DEF DoNewconn, DoDelconn, DoBind, DoConnect, DoListen, DoSend
<1>3. CASE th' = th
  BY <1>3, Zenon DEF Types, SameThreads, OnlyWoken
<1>4. CASE \E cn : Signal(k, cn, th)
  BY <1>4, SignalWoken, WokenThreads, Zenon
<1> QED BY <1>2, <1>3, <1>4, Zenon

LEMMA AbortThreads ==
  ASSUME Types, NEW k \in Conns, Abort(k)
  PROVE  SameThreads /\ OnlyWoken
<1> DEFINE P == [b \in Bufs |-> th[b].at = "recv" /\ th[b].k = k]
           w == [b \in Bufs |-> IF P[b] THEN [th[b] EXCEPT !.woken = TRUE] ELSE th[b]]
           Q == [b \in Bufs |-> P[b] \/ (th[b].at = "api" /\ th[b].k = k)]
<1>1. w = [b \in Bufs |-> IF th[b].at = "recv" /\ th[b].k = k
                          THEN [th[b] EXCEPT !.woken = TRUE] ELSE th[b]]
  BY Zenon
<1>2. CASE th' = w
  BY <1>2, WokenThreads, Zenon DEF Woken
<1>3. CASE \E cn : Signal(k, cn, w)
  <2>1. ASSUME NEW b \in Bufs
        PROVE  th'[b] = IF Q[b] THEN [th[b] EXCEPT !.woken = TRUE] ELSE th[b]
    <3>1. th'[b] = IF w[b].at = "api" /\ w[b].k = k
                   THEN [w[b] EXCEPT !.woken = TRUE] ELSE w[b]
      BY <1>3, Zenon DEF Signal
    <3>2. th[b] \in Threads
      BY Zenon DEF Types
    <3>3. CASE P[b]
      <4>1. w[b] = [th[b] EXCEPT !.woken = TRUE] /\ th[b].at = "recv"
        BY <3>3, Zenon
      <4>2. w[b].at = "recv"
        BY <3>2, <4>1, Zenon DEF Threads
      <4> QED BY <3>1, <3>3, <4>1, <4>2, Zenon
    <3>4. CASE ~P[b]
      <4>1. w[b] = th[b]
        BY <3>4, Zenon
      <4> QED BY <3>1, <3>4, <4>1, Zenon
    <3> QED BY <3>3, <3>4, Zenon
  <2>2. th' = [b \in Bufs |-> th'[b]]
    BY <1>3, Zenon DEF Signal
  <2>3. Woken(Q)
    BY <2>1, <2>2, Zenon DEF Woken
  <2> QED BY <2>3, WokenThreads, Zenon
<1> QED BY <1>1, <1>2, <1>3, Zenon DEF Abort

\* The steps of a request thread, from one call to the next.
LEMMA ReturnThread ==
  ASSUME Types, NEW b \in Bufs, th[b].at # "none", NEW r \in Socks \cup {-1, NoSock}, Return(b, r)
  PROVE  /\ SameThreads /\ \A d \in Bufs : d # b => th'[d] = th[d]
         /\ th'[b].at = "reply" /\ th'[b].op = th[b].op /\ th'[b].s = th[b].s
         /\ th'[b].k = th[b].k /\ th'[b].r = r /\ th'[b].whom = th[b].whom
<1>1. th[b] \in Threads /\ th \in [Bufs -> Threads]
  BY Zenon DEF Types
<1>2. th' = [th EXCEPT ![b] = [th[b] EXCEPT !.at = "reply", !.woken = FALSE, !.r = r]]
  BY <1>1, Zenon DEF Return
<1>3. [th[b] EXCEPT !.at = "reply", !.woken = FALSE, !.r = r] \in Threads
  BY <1>1, ZenonT(60) DEF Threads
<1>4. th' \in [Bufs -> Threads] /\ (\A d \in Bufs : d # b => th'[d] = th[d])
      /\ th'[b] = [th[b] EXCEPT !.at = "reply", !.woken = FALSE, !.r = r]
  BY <1>1, <1>2, <1>3, Zenon
<1>5. /\ th'[b].at = "reply" /\ th'[b].op = th[b].op /\ th'[b].s = th[b].s
      /\ th'[b].k = th[b].k /\ th'[b].r = r /\ th'[b].whom = th[b].whom
  BY <1>1, <1>4, Zenon DEF Threads
<1>6. SameThreads
  <2>1. \A d \in Bufs : (th'[d].at = "none" <=> th[d].at = "none") /\ th'[d].whom = th[d].whom
    BY <1>4, <1>5, Zenon
  <2> QED BY <1>4, <2>1, Zenon DEF SameThreads
<1> QED BY <1>4, <1>5, <1>6, Zenon

\* It begins to wait, or waits again.
LEMMA WaitThread ==
  ASSUME Types, NEW b \in Bufs, th[b].at # "none",
         NEW a \in {"api", "recv", "accept"}, NEW k \in Conns, NEW y \in BOOLEAN,
         a # "api" => th[b].op \notin NewOps,
         th' = [th EXCEPT ![b] = [th[b] EXCEPT !.at = a, !.k = k, !.woken = y]]
  PROVE  /\ SameThreads /\ \A d \in Bufs : d # b => th'[d] = th[d]
         /\ th'[b].at = a /\ th'[b].op = th[b].op /\ th'[b].s = th[b].s
         /\ th'[b].k = k /\ th'[b].r = th[b].r /\ th'[b].whom = th[b].whom
<1>1. th[b] \in Threads /\ th \in [Bufs -> Threads]
  BY Zenon DEF Types
<1>2. [th[b] EXCEPT !.at = a, !.k = k, !.woken = y] \in Threads
  BY <1>1, Zenon DEF Threads
<1>3. th' \in [Bufs -> Threads] /\ (\A d \in Bufs : d # b => th'[d] = th[d])
      /\ th'[b] = [th[b] EXCEPT !.at = a, !.k = k, !.woken = y]
  BY <1>1, <1>2, Zenon
<1>4. /\ th'[b].at = a /\ th'[b].op = th[b].op /\ th'[b].s = th[b].s
      /\ th'[b].k = k /\ th'[b].r = th[b].r /\ th'[b].whom = th[b].whom
  BY <1>1, <1>3, Zenon DEF Threads
<1> QED BY <1>3, <1>4 DEF SameThreads

\* A step of a request thread, or of tcpip_thread: the rest of the server is not
\* concerned.
LEMMA ThreadStep ==
  ASSUME Inv, SameThreads, UNCHANGED <<client, main, buse>>, sock' \in [Socks -> Conns \cup {NULL}]
  PROVE  Inv'
  BY KeepInv, Zenon DEF Inv, Types

\* netconn_alloc()'s connection is a free one.
LEMMA FreeConn ==
  ASSUME ~\A k \in Conns : conn[k].used
  PROVE  Min({x \in Conns : ~conn[x].used}) \in {x \in Conns : ~conn[x].used}
<1>1. {x \in Conns : ~conn[x].used} \subseteq Nat /\ {x \in Conns : ~conn[x].used} # {}
  BY DEF Conns
<1> QED BY <1>1, MinIn, Zenon

LEMMA FreeSock ==
  Min({x \in Socks : sock[x] = NULL}) \in {x \in Socks : sock[x] = NULL} \cup {NoSock}
<1>1. CASE {x \in Socks : sock[x] = NULL} = {}
  BY <1>1, Zenon DEF NoSock
<1>2. CASE {x \in Socks : sock[x] = NULL} # {}
  <2>1. {x \in Socks : sock[x] = NULL} \subseteq Nat
    BY DEF Socks
  <2> QED BY <1>2, <2>1, MinIn, Zenon
<1> QED BY <1>1, <1>2, Zenon

LEMMA ApiThread ==
  ASSUME Types, NEW b \in Bufs, th[b].at # "none", NEW k \in Conns, Api(b, k)
  PROVE  /\ SameThreads /\ \A d \in Bufs : d # b => th'[d] = th[d]
         /\ th'[b].at = "api" /\ th'[b].op = th[b].op /\ th'[b].s = th[b].s
         /\ th'[b].k = k /\ th'[b].r = th[b].r /\ th'[b].whom = th[b].whom
<1>1. th[b] \in Threads /\ th[b].woken \in BOOLEAN
  BY Zenon DEF Types, Threads
<1>2. th' = [th EXCEPT ![b] = [th[b] EXCEPT !.at = "api", !.k = k, !.woken = th[b].woken]]
  <2>1. th' = [th EXCEPT ![b] = [th[b] EXCEPT !.at = "api", !.k = k]]
    BY Zenon DEF Api, Types
  <2>2. [th[b] EXCEPT !.at = "api", !.k = k, !.woken = th[b].woken]
          = [th[b] EXCEPT !.at = "api", !.k = k]
    BY <1>1, Zenon DEF Threads
  <2> QED BY <2>1, <2>2, Zenon
<1>3. "api" \in {"api", "recv", "accept"}
  BY Zenon
<1> QED BY <1>1, <1>2, <1>3, WaitThread, Zenon

LEMMA StartThread ==
  ASSUME Types, NEW b \in Bufs, Start(b)
  PROVE  SameThreads
<1>a. PICK op, k : op = th[b].op /\ k = sock[th[b].s]
  BY Zenon
<1>1. /\ th[b] \in Threads /\ th[b].at = "start" /\ th[b].at # "none"
      /\ th[b].woken \in BOOLEAN /\ k \in Conns \cup {NULL}
      /\ 0 \in Socks \cup {-1, NoSock} /\ -1 \in Socks \cup {-1, NoSock}
  BY <1>a, NetAssumption DEF Start, Types, Threads, Socks
<1>2. CASE Return(b, -1) \/ Return(b, 0)
  BY <1>1, <1>2, ReturnThread, Zenon
<1>3. CASE \E j \in Conns : Api(b, j)
  BY <1>1, <1>3, ApiThread, Zenon
<1>4. CASE /\ k \in Conns /\ op \notin NewOps
           /\ \E a \in {"recv", "accept"} : th' = [th EXCEPT ![b].at = a, ![b].k = k]
  <2>1. PICK a \in {"recv", "accept"} : th' = [th EXCEPT ![b].at = a, ![b].k = k]
    BY <1>4, Zenon
  <2>2. th' = [th EXCEPT ![b] = [th[b] EXCEPT !.at = a, !.k = k]]
    BY <2>1, Zenon DEF Types
  <2>3. [th[b] EXCEPT !.at = a, !.k = k, !.woken = th[b].woken] = [th[b] EXCEPT !.at = a, !.k = k]
    BY <1>1, Zenon DEF Threads
  <2>4. a \in {"api", "recv", "accept"} /\ k \in Conns /\ th[b].op \notin NewOps
    BY <1>a, <1>4, Zenon
  <2> QED BY <1>1, <2>2, <2>3, <2>4, WaitThread, Zenon
<1>5. StartSocket(b) => Return(b, -1) \/ \E j \in Conns : Api(b, j)
  BY FreeConn, Zenon DEF StartSocket
<1>6. \/ StartSocket(b) \/ Return(b, -1)
      \/ k \in Conns /\ op \notin NewOps /\ (StartRecv(b, k) \/ StartAccept(b, k) \/ Api(b, k))
  BY <1>a, <1>1, Zenon DEF Start, NewOps
<1>7. StartRecv(b, k) \/ StartAccept(b, k) =>
        \/ Return(b, -1) \/ Return(b, 0)
        \/ \E a \in {"recv", "accept"} : th' = [th EXCEPT ![b].at = a, ![b].k = k]
  BY Zenon DEF StartRecv, StartAccept
<1> QED BY <1>2, <1>3, <1>4, <1>5, <1>6, <1>7, Zenon

LEMMA FinishThread ==
  ASSUME Types, NEW b \in Bufs, th[b].at = "api", Finish(b, th[b].k)
  PROVE  SameThreads /\ sock' \in [Socks -> Conns \cup {NULL}]
<1>a. PICK s : s = Min({x \in Socks : sock[x] = NULL})
  BY Zenon
<1>b. PICK k : k = th[b].k
  BY Zenon
<1>1. /\ s \in Socks \cup {-1, NoSock} /\ 0 \in Socks \cup {-1, NoSock}
      /\ -1 \in Socks \cup {-1, NoSock} /\ th[b].s \in Socks
  <2>1. s \in Socks \cup {NoSock}
    BY <1>a, FreeSock, Zenon
  <2>2. 0 \in Socks
    BY NetAssumption DEF Socks
  <2>3. th[b].s \in Socks
    BY Zenon DEF Types, Threads
  <2> QED BY <2>1, <2>2, <2>3, Zenon
<1>2. \/ Return(b, s) /\ sock' = [sock EXCEPT ![s] = k]
      \/ Return(b, -1) /\ UNCHANGED sock
      \/ Return(b, 0) /\ sock' = [sock EXCEPT ![th[b].s] = NULL]
      \/ Return(b, 0) /\ UNCHANGED sock
  BY <1>a, <1>b, Zenon DEF Finish
<1>3. sock \in [Socks -> Conns \cup {NULL}] /\ k \in Conns
  BY <1>b, Zenon DEF Types, Threads
<1>4. SameThreads
  BY <1>1, <1>2, ReturnThread, Zenon
<1>5. sock' \in [Socks -> Conns \cup {NULL}]
  BY <1>2, <1>3, Zenon
<1> QED BY <1>4, <1>5, Zenon

LEMMA WaitsThread ==
  ASSUME Types, NEW b \in Bufs, Wait(b)
  PROVE  SameThreads /\ sock' \in [Socks -> Conns \cup {NULL}]
<1>1. /\ th[b] \in Threads /\ th[b].at \in {"api", "recv", "accept"} /\ th[b].at # "none"
      /\ th[b].k \in Conns /\ sock \in [Socks -> Conns \cup {NULL}]
      /\ 0 \in Socks \cup {-1, NoSock} /\ FALSE \in BOOLEAN
  BY NetAssumption DEF Wait, Types, Threads, Socks
<1>2. \/ th[b].at = "api" /\ Finish(b, th[b].k)
      \/ Return(b, 0) /\ UNCHANGED sock
      \/ th' = [th EXCEPT ![b].woken = FALSE] /\ UNCHANGED sock
  BY Zenon DEF Wait, connVars
<1>3. CASE th[b].at = "api" /\ Finish(b, th[b].k)
  BY <1>3, FinishThread, Zenon
<1>4. CASE Return(b, 0) /\ UNCHANGED sock
  BY <1>1, <1>4, ReturnThread, Zenon
<1>5. CASE th' = [th EXCEPT ![b].woken = FALSE] /\ UNCHANGED sock
  <2>1. PICK a, k : a = th[b].at /\ k = th[b].k
    BY Zenon
  <2>2. [th[b] EXCEPT !.at = a, !.k = k, !.woken = FALSE] = [th[b] EXCEPT !.woken = FALSE]
    BY <1>1, <2>1, Zenon DEF Threads
  <2>3. th' = [th EXCEPT ![b] = [th[b] EXCEPT !.at = a, !.k = k, !.woken = FALSE]]
    BY <1>5, <2>2, Zenon DEF Types
  <2>4. a \in {"api", "recv", "accept"} /\ k \in Conns /\ (a # "api" => th[b].op \notin NewOps)
    BY <1>1, <2>1, Zenon DEF Threads
  <2>5. SameThreads
    BY <1>1, <2>3, <2>4, WaitThread, Zenon
  <2> QED BY <1>1, <1>5, <2>5, Zenon
<1> QED BY <1>2, <1>3, <1>4, <1>5, Zenon
-----------------------------------------------------------------------------
(* The steps. *)

LEMMA InitInv == ASSUME Init PROVE Inv
<1>1. /\ 0 \in Bufs /\ 0 \in Socks /\ NoThread \in Threads
  BY NetAssumption DEF Bufs, Socks, Threads, NoThread
<1>2. Types
  BY <1>1, Zenon DEF Init, Types, Idle
<1>3. \A b \in Bufs : th[b].at = "none"
  BY Zenon DEF Init, NoThread
<1>4. main.pc = "flush" /\ \A b \in Bufs : ~buse[b]
  BY Zenon DEF Init
<1> QED BY <1>2, <1>3, <1>4, Zenon DEF Inv, Serving, MainAlone, BuffersExact, Active

\* The environments: a request is made only by a client no thread works for.
LEMMA ClientInv ==
  ASSUME Inv, NEW c \in Clients,
         NEW v \in [pc : {"idle", "send", "sent", "recv", "dead"}, op : AllOps \cup {NULL}, s : Socks],
         client' = [client EXCEPT ![c] = v],
         client[c].pc \notin {"sent", "recv", "dead"} \/ v.pc \in {"sent", "recv", "dead"},
         UNCHANGED <<main, th, buse, sock>>
  PROVE  Inv'
<1>1. Types'
  BY Zenon DEF Inv, Types
<1>2. \A b \in Bufs : Active(b)' <=> Active(b)
  BY Zenon DEF Active
<1>3. \A d \in Clients : client'[d] = IF d = c THEN v ELSE client[d]
  BY Zenon DEF Inv, Types
<1>4. Serving'
  BY <1>2, <1>3 DEF Inv, Serving
<1>5. MainAlone' /\ BuffersExact'
  BY <1>2, Zenon DEF Inv, MainAlone, BuffersExact, Active
<1> QED BY <1>1, <1>4, <1>5, Zenon DEF Inv

LEMMA ClientsInv ==
  ASSUME Inv, NEW c \in Clients,
         ClientRecv(c) \/ Kill(c) \/ \E op \in Ops[c], s \in Socks : Call(c, op, s)
  PROVE  Inv'
<1>1. client \in [Clients -> [pc : {"idle", "send", "sent", "recv", "dead"},
                              op : AllOps \cup {NULL}, s : Socks]]
  BY Zenon DEF Inv, Types
<1>2. CASE ClientRecv(c)
  <2>1. PICK v : v = [client[c] EXCEPT !.pc = "recv"]
    BY Zenon
  <2>2. /\ v \in [pc : {"idle", "send", "sent", "recv", "dead"}, op : AllOps \cup {NULL}, s : Socks]
        /\ v.pc = "recv" /\ client' = [client EXCEPT ![c] = v]
    BY <1>1, <1>2, <2>1, Zenon DEF ClientRecv
  <2>3. UNCHANGED <<main, th, buse, sock>>
    BY <1>2, Zenon DEF ClientRecv, connVars
  <2> QED BY <2>2, <2>3, ClientInv, Zenon
<1>3. CASE Kill(c)
  <2>1. PICK v : v = [Idle EXCEPT !.pc = "dead"]
    BY Zenon
  <2>2. /\ v \in [pc : {"idle", "send", "sent", "recv", "dead"}, op : AllOps \cup {NULL}, s : Socks]
        /\ v.pc = "dead" /\ client' = [client EXCEPT ![c] = v]
    BY <1>1, <1>3, <2>1, NetAssumption DEF Kill, Idle, Socks
  <2>3. UNCHANGED <<main, th, buse, sock>>
    BY <1>3, Zenon DEF Kill, connVars
  <2> QED BY <2>2, <2>3, ClientInv, Zenon
<1>4. CASE \E op \in Ops[c], s \in Socks : Call(c, op, s)
  <2>1. PICK op \in Ops[c], s \in Socks : Call(c, op, s)
    BY <1>4, Zenon
  <2>2. op \in AllOps
    BY <2>1, Zenon DEF AllOps
  <2>3. PICK v : v = [pc |-> "send", op |-> op, s |-> s]
    BY Zenon
  <2>4. /\ v \in [pc : {"idle", "send", "sent", "recv", "dead"}, op : AllOps \cup {NULL}, s : Socks]
        /\ client' = [client EXCEPT ![c] = v] /\ client[c].pc = "idle"
    BY <2>1, <2>2, <2>3, Zenon DEF Call
  <2>5. UNCHANGED <<main, th, buse, sock>>
    BY <2>1, Zenon DEF Call, connVars
  <2> QED BY <2>4, <2>5, ClientInv, Zenon
<1> QED BY <1>2, <1>3, <1>4, Zenon

\* The steps that leave the request threads and the buffers as they are.
LEMMA OtherInv ==
  ASSUME Inv, UNCHANGED <<client, buse, th, sock>>,
         \/ UNCHANGED main
         \/ main.i < MAXYIELD /\ main' = [main EXCEPT !.i = @ + 1]
  PROVE  Inv'
<1>1. /\ main \in [pc : {"flush", "recv", "timer", "down"}, b : Bufs, i : Nat]
      /\ sock' \in [Socks -> Conns \cup {NULL}] /\ th \in [Bufs -> Threads]
  BY Zenon DEF Inv, Types
<1>2. /\ main' \in [pc : {"flush", "recv", "timer", "down"}, b : Bufs, i : Nat]
      /\ main'.pc = main.pc /\ main'.b = main.b
  BY <1>1
<1>3. SameThreads
  BY <1>1, Zenon DEF SameThreads
<1> QED BY <1>1, <1>2, <1>3, KeepInv, Zenon

\* A panic of the server leaves the threads and the buffers as they are.
LEMMA PanicInv ==
  ASSUME Inv, main' = [main EXCEPT !.pc = "down"], UNCHANGED <<th, buse, sock>>,
         client' \in [Clients -> [pc : {"idle", "send", "sent", "recv", "dead"},
                                 op : AllOps \cup {NULL}, s : Socks]],
         \A d \in Bufs : Active(d) => client'[th[d].whom] = client[th[d].whom]
  PROVE  Inv'
<1>1. main \in [pc : {"flush", "recv", "timer", "down"}, b : Bufs, i : Nat]
  BY Zenon DEF Inv, Types
<1>2. main'.pc = "down" /\ main' \in [pc : {"flush", "recv", "timer", "down"}, b : Bufs, i : Nat]
  BY <1>1, Zenon
<1>3. Types'
  BY <1>2, Zenon DEF Inv, Types
<1>4. \A d \in Bufs : Active(d)' <=> Active(d)
  BY Zenon DEF Active
<1>5. Serving'
  BY <1>4, Zenon DEF Inv, Serving
<1> QED BY <1>2, <1>3, <1>5, Zenon DEF Inv, MainAlone, BuffersExact

LEMMA GetBufferInv == ASSUME Inv, GetBuffer PROVE Inv'
<1>1. /\ main \in [pc : {"flush", "recv", "timer", "down"}, b : Bufs, i : Nat]
      /\ main.pc = "flush" /\ UNCHANGED <<client, th, sock>> /\ buse \in [Bufs -> BOOLEAN]
  BY Zenon DEF GetBuffer, MainTurn, Inv, Types, envVars, connVars
<1>2. \A d \in Bufs : Active(d)' <=> Active(d)
  BY <1>1, Zenon DEF Active
<1>3. Serving'
  BY <1>1, <1>2, Zenon DEF Inv, Serving
<1>4. CASE main' = [main EXCEPT !.pc = "down"] /\ UNCHANGED buse
  <2>1. main'.pc = "down" /\ main' \in [pc : {"flush", "recv", "timer", "down"}, b : Bufs, i : Nat]
    BY <1>1, <1>4, Zenon
  <2>2. Types'
    BY <1>1, <1>4, <2>1, Zenon DEF Inv, Types
  <2> QED BY <1>3, <2>1, <2>2, Zenon DEF Inv, MainAlone, BuffersExact
<1>5. CASE \E b \in {x \in Bufs : ~buse[x]} :
             main' = [pc |-> "recv", b |-> b, i |-> 0] /\ buse' = [buse EXCEPT ![b] = TRUE]
  <2>1. PICK b \in {x \in Bufs : ~buse[x]} :
             main' = [pc |-> "recv", b |-> b, i |-> 0] /\ buse' = [buse EXCEPT ![b] = TRUE]
    BY <1>5, Zenon
  <2>2. Types'
    BY <1>1, <2>1, Zenon DEF Inv, Types
  <2>3. ~Active(b) /\ \A d \in Bufs : buse[d] <=> Active(d)
    BY <1>1, <2>1, Zenon DEF Inv, BuffersExact, Active
  <2>4. MainAlone'
    BY <1>2, <2>1, <2>3, Zenon DEF MainAlone
  <2>5. BuffersExact'
    BY <1>1, <2>1, <2>3, Zenon DEF BuffersExact, Active
  <2> QED BY <1>3, <2>2, <2>4, <2>5, Zenon DEF Inv
<1>6. (\A b \in Bufs : buse[b]) \/ Min({x \in Bufs : ~buse[x]}) \in {x \in Bufs : ~buse[x]}
  <2>1. {x \in Bufs : ~buse[x]} \subseteq Nat
    BY DEF Bufs
  <2> QED BY <2>1, MinIn, Zenon
<1> QED BY <1>4, <1>5, <1>6, Zenon DEF GetBuffer

\* A request gets the thread t, or is lost.
Received(c, t) ==
  \E a \in {"start", "lost"} :
    /\ t = [NoThread EXCEPT !.at = a, !.whom = c, !.op = client[c].op, !.s = client[c].s]
    /\ th' = [th EXCEPT ![main.b] = t] /\ main' = [main EXCEPT !.pc = "flush"]

\* A request is received: the main thread's buffer becomes the new thread's.
LEMMA ReceivedInv ==
  ASSUME Inv, NEW c \in Clients, Receive(c), NEW t, Received(c, t)
  PROVE  Inv'
<1>a. PICK b : b = main.b
  BY Zenon
<1>1. /\ main \in [pc : {"flush", "recv", "timer", "down"}, b : Bufs, i : Nat]
      /\ main.pc = "recv" /\ b \in Bufs /\ client[c].pc = "send"
      /\ client \in [Clients -> [pc : {"idle", "send", "sent", "recv", "dead"},
                                 op : AllOps \cup {NULL}, s : Socks]]
      /\ th \in [Bufs -> Threads] /\ buse \in [Bufs -> BOOLEAN]
      /\ sock \in [Socks -> Conns \cup {NULL}]
  BY <1>a, Zenon DEF Receive, MainTurn, Inv, Types
<1>2. /\ client' = [client EXCEPT ![c].pc = "sent"] /\ th' = [th EXCEPT ![b] = t]
      /\ main' = [main EXCEPT !.pc = "flush"] /\ UNCHANGED <<buse, sock>>
  BY <1>a, Zenon DEF Receive, Received, connVars
<1>3. t \in Threads /\ t.at # "none" /\ t.whom = c
  <2>1. 0 \in Socks
    BY NetAssumption DEF Socks
  <2>2. PICK a \in {"start", "lost"} :
          t = [NoThread EXCEPT !.at = a, !.whom = c, !.op = client[c].op, !.s = client[c].s]
    BY Zenon DEF Received
  <2> QED BY <1>1, <2>1, <2>2, NetAssumption, Zenon DEF Threads, NoThread
<1>4. /\ main' \in [pc : {"flush", "recv", "timer", "down"}, b : Bufs, i : Nat]
      /\ main'.pc = "flush"
      /\ client' \in [Clients -> [pc : {"idle", "send", "sent", "recv", "dead"},
                                  op : AllOps \cup {NULL}, s : Socks]]
      /\ client'[c].pc = "sent" /\ \A d \in Clients : d # c => client'[d] = client[d]
  BY <1>1, <1>2, SMTT(30)
<1>5. th' \in [Bufs -> Threads] /\ th'[b] = t /\ \A d \in Bufs : d # b => th'[d] = th[d]
  BY <1>1, <1>2, <1>3, Zenon
<1>6. Types'
  BY <1>1, <1>2, <1>4, <1>5, Zenon DEF Types
<1>7. /\ ~Active(b) /\ \A d \in Bufs : Active(d) => th[d].whom # c
      /\ \A d \in Bufs : Active(d)' <=> Active(d) \/ d = b
  BY <1>1, <1>3, <1>5, <1>a, ZenonT(60) DEF Inv, MainAlone, Serving, Active
<1>8. Serving'
  <2>1. ASSUME NEW d \in Bufs, Active(d)'
        PROVE  /\ th'[d].whom \in Clients /\ client'[th'[d].whom].pc \in {"sent", "recv", "dead"}
               /\ th'[d].whom = c <=> d = b
    <3>1. CASE d = b
      BY <1>3, <1>4, <1>5, <3>1, Zenon
    <3>2. CASE d # b
      <4>1. th'[d] = th[d] /\ Active(d) /\ th[d].whom # c
        BY <1>5, <1>7, <2>1, <3>2, Zenon
      <4>2. th[d].whom \in Clients /\ client[th[d].whom].pc \in {"sent", "recv", "dead"}
        BY <4>1, Zenon DEF Inv, Serving
      <4> QED BY <1>4, <3>2, <4>1, <4>2, Zenon
    <3> QED BY <3>1, <3>2, Zenon
  <2>2. ASSUME NEW d \in Bufs, NEW e \in Bufs, Active(d)', Active(e)', th'[d].whom = th'[e].whom
        PROVE  d = e
    <3>1. CASE d = b \/ e = b
      BY <2>1, <2>2, <3>1, Zenon
    <3>2. CASE d # b /\ e # b
      BY <1>5, <1>7, <2>2, <3>2, Zenon DEF Inv, Serving
    <3> QED BY <3>1, <3>2, Zenon
  <2> QED BY <2>1, <2>2, Zenon DEF Serving
<1>9. BuffersExact'
  BY <1>a, <1>1, <1>2, <1>4, <1>7, ZenonT(60) DEF Inv, BuffersExact, Active
<1> QED BY <1>4, <1>6, <1>8, <1>9, Zenon DEF Inv, MainAlone

LEMMA ReceiveInv == ASSUME Inv, NEW c \in Clients, Receive(c) PROVE Inv'
<1>1. CASE main' = [main EXCEPT !.pc = "down"] /\ UNCHANGED th
  <2>1. /\ client \in [Clients -> [pc : {"idle", "send", "sent", "recv", "dead"},
                                   op : AllOps \cup {NULL}, s : Socks]]
        /\ client' = [client EXCEPT ![c].pc = "sent"] /\ client[c].pc = "send"
        /\ UNCHANGED <<th, buse, sock>>
    BY <1>1, Zenon DEF Inv, Types, Receive, connVars
  <2>2. /\ client' \in [Clients -> [pc : {"idle", "send", "sent", "recv", "dead"},
                                    op : AllOps \cup {NULL}, s : Socks]]
        /\ \A d \in Clients : d # c => client'[d] = client[d]
    BY <2>1, SMTT(30)
  <2>3. \A d \in Bufs : Active(d) => client'[th[d].whom] = client[th[d].whom]
    BY <2>1, <2>2, Zenon DEF Inv, Serving
  <2> QED BY <1>1, <2>1, <2>2, <2>3, PanicInv, Zenon
<1>2. CASE \E t : Received(c, t)
  BY <1>2, ReceivedInv, Zenon
<1> QED BY <1>1, <1>2, Zenon DEF Receive, Received

\* The timer's request: the buffer stays the main thread's, then it is put back.
LEMMA TimerInv == ASSUME Inv, ReceiveTimer \/ ReplyTimer PROVE Inv'
<1>1. /\ main \in [pc : {"flush", "recv", "timer", "down"}, b : Bufs, i : Nat]
      /\ main.pc \in {"recv", "timer"} /\ UNCHANGED <<client, th, sock>>
      /\ buse \in [Bufs -> BOOLEAN]
  BY Zenon DEF ReceiveTimer, ReplyTimer, MainTurn, Inv, Types, envVars, connVars
<1>2. \A d \in Bufs : Active(d)' <=> Active(d)
  BY <1>1, Zenon DEF Active
<1>3. Serving'
  BY <1>1, <1>2, Zenon DEF Inv, Serving
<1>4. ~Active(main.b) /\ \A d \in Bufs : buse[d] <=> Active(d) \/ d = main.b
  BY <1>1, Zenon DEF Inv, MainAlone, BuffersExact, Active
<1>5. \/ UNCHANGED buse /\ main' = [main EXCEPT !.pc = "timer"]
      \/ buse' = [buse EXCEPT ![main.b] = FALSE] /\ main' = [main EXCEPT !.pc = "flush"]
  BY Zenon DEF ReceiveTimer, ReplyTimer
<1>6. /\ main' \in [pc : {"flush", "recv", "timer", "down"}, b : Bufs, i : Nat]
      /\ main'.b = main.b /\ main'.pc \in {"timer", "flush"}
  BY <1>1, <1>5, Zenon
<1>7. Types'
  BY <1>1, <1>5, <1>6, Zenon DEF Inv, Types
<1>8. MainAlone'
  BY <1>1, <1>2, <1>4, <1>6, Zenon DEF MainAlone
<1>9. BuffersExact'
  <2>1. \A d \in Bufs : buse'[d] <=> Active(d) \/ (main'.pc = "timer" /\ main.b = d)
    <3>1. CASE UNCHANGED buse /\ main' = [main EXCEPT !.pc = "timer"]
      BY <1>1, <1>4, <3>1, Zenon
    <3>2. CASE buse' = [buse EXCEPT ![main.b] = FALSE] /\ main' = [main EXCEPT !.pc = "flush"]
      BY <1>1, <1>4, <3>2, Zenon
    <3> QED BY <1>5, <3>1, <3>2, Zenon
  <2> QED BY <1>1, <1>6, <2>1, Zenon DEF BuffersExact, Active
<1> QED BY <1>3, <1>7, <1>8, <1>9, Zenon DEF Inv

\* The answer: the thread halts and its buffer is put back, or the server panics.
LEMMA ReplyInv == ASSUME Inv, NEW b \in Bufs, Reply(b) PROVE Inv'
<1>a. PICK c : c = th[b].whom
  BY Zenon
<1>1. /\ main \in [pc : {"flush", "recv", "timer", "down"}, b : Bufs, i : Nat]
      /\ th \in [Bufs -> Threads] /\ Active(b) /\ main.pc # "down" /\ c \in Clients
      /\ buse \in [Bufs -> BOOLEAN] /\ UNCHANGED sock
      /\ client \in [Clients -> [pc : {"idle", "send", "sent", "recv", "dead"},
                                 op : AllOps \cup {NULL}, s : Socks]]
  BY <1>a, Zenon DEF Reply, Inv, Types, Active, Serving, connVars
<1>2. CASE main' = [main EXCEPT !.pc = "down"] /\ UNCHANGED <<client, th, buse>>
  BY <1>1, <1>2, PanicInv, Zenon
<1>3. CASE /\ client' = [client EXCEPT ![c] = Idle] /\ th' = [th EXCEPT ![b] = NoThread]
           /\ buse' = [buse EXCEPT ![b] = FALSE] /\ UNCHANGED main
  <2>1. 0 \in Socks
    BY NetAssumption DEF Socks
  <2>2. NoThread \in Threads /\ NoThread.at = "none"
    BY <2>1, Zenon DEF Threads, NoThread
  <2>3. Idle \in [pc : {"idle", "send", "sent", "recv", "dead"}, op : AllOps \cup {NULL}, s : Socks]
    BY <2>1, Zenon DEF Idle
  <2>4. /\ th' \in [Bufs -> Threads] /\ th'[b] = NoThread
        /\ \A d \in Bufs : d # b => th'[d] = th[d]
    BY <1>1, <1>3, <2>2, Zenon
  <2>5. /\ client' \in [Clients -> [pc : {"idle", "send", "sent", "recv", "dead"},
                                    op : AllOps \cup {NULL}, s : Socks]]
        /\ \A d \in Clients : d # c => client'[d] = client[d]
    BY <1>1, <1>3, <2>3, Zenon
  <2>6. Types'
    BY <1>1, <1>3, <2>4, <2>5, Zenon DEF Inv, Types
  <2>7. \A d \in Bufs : Active(d)' <=> Active(d) /\ d # b
    BY <2>2, <2>4, Zenon DEF Active
  <2>8. \A d \in Bufs : Active(d) /\ d # b => th[d].whom # c
    BY <1>a, <1>1, Zenon DEF Inv, Serving
  <2>9. Serving'
    BY <2>4, <2>5, <2>7, <2>8, ZenonT(40) DEF Inv, Serving
  <2>10. MainAlone'
    BY <1>1, <1>3, <2>7, Zenon DEF Inv, MainAlone
  <2>11. main.pc \in {"recv", "timer"} => main.b # b
    BY <1>1, Zenon DEF Inv, MainAlone
  <2>12. \A d \in Bufs : buse'[d] <=> buse[d] /\ d # b
    BY <1>1, <1>3, Zenon
  <2>13. \A d \in Bufs : /\ buse[d] <=> Active(d) \/ (main.pc \in {"recv", "timer"} /\ main.b = d)
                         /\ main.pc = "recv" /\ main.b = d => ~Active(d)
    BY <1>1, Zenon DEF Inv, BuffersExact, Active
  <2>14. \A d \in Bufs : /\ buse'[d] <=> Active(d)' \/ (main.pc \in {"recv", "timer"} /\ main.b = d)
                         /\ main.pc = "recv" /\ main.b = d => ~Active(d)'
    BY <2>7, <2>11, <2>12, <2>13, Zenon
  <2>15. BuffersExact'
    BY <1>3, <2>14, Zenon DEF BuffersExact, Active
  <2> QED BY <2>6, <2>9, <2>10, <2>15, Zenon DEF Inv
<1> QED BY <1>a, <1>2, <1>3, Zenon DEF Reply

LEMMA NextInv == ASSUME Inv, [Next]_vars PROVE Inv'
<1>0. Types /\ sock \in [Socks -> Conns \cup {NULL}]
  BY Zenon DEF Inv, Types
<1>1. CASE UNCHANGED vars \/ TimerStep \/ OutputStep \/ MainYield
  <2>1. UNCHANGED <<client, buse, th, sock>>
    BY <1>1, Zenon DEF vars, envVars, connVars, TimerStep, OutputStep, MainYield
  <2>2. UNCHANGED main \/ (main.i < MAXYIELD /\ main' = [main EXCEPT !.i = @ + 1])
    BY <1>1, Zenon DEF vars, TimerStep, OutputStep, MainYield
  <2> QED BY <2>1, <2>2, OtherInv, Zenon
<1>2. CASE Timers
  <2>1. UNCHANGED <<client, buse, th, sock, main>>
    BY <1>2, Zenon DEF Timers, envVars, connVars
  <2> QED BY <2>1, OtherInv, Zenon
<1>3. CASE GetBuffer \/ ReceiveTimer \/ ReplyTimer \/ \E c \in Clients : Receive(c)
  BY <1>3, GetBufferInv, TimerInv, ReceiveInv, Zenon
<1>4. ASSUME NEW b \in Bufs, Start(b) \/ Wait(b) PROVE Inv'
  <2>1. UNCHANGED <<client, main, buse>>
    BY <1>4, Zenon DEF Start, Wait, envVars
  <2>2. Start(b) => sock' = sock
    BY Zenon DEF Start
  <2>3. SameThreads /\ sock' \in [Socks -> Conns \cup {NULL}]
    BY <1>0, <1>4, <2>2, StartThread, WaitsThread, Zenon
  <2> QED BY <2>1, <2>3, ThreadStep, Zenon
<1>5. CASE \E b \in Bufs : Reply(b)
  BY <1>5, ReplyInv, Zenon
<1>6. CASE Tcpip \/ \E k \in Conns : Abort(k)
  <2>1. UNCHANGED <<client, main, buse, sock>>
    BY <1>6, Zenon DEF Tcpip, Abort, envVars
  <2>2. SameThreads
    BY <1>0, <1>6, TcpipThreads, AbortThreads, Zenon
  <2> QED BY <1>0, <2>1, <2>2, ThreadStep, Zenon
<1>7. CASE \E c \in Clients : \/ ClientRecv(c) \/ Kill(c)
                              \/ \E op \in Ops[c], s \in Socks : Call(c, op, s)
  BY <1>7, ClientsInv, Zenon
<1>8. CASE SendPacket
  <2>1. UNCHANGED <<client, buse, th, sock>>
    BY <1>8, Zenon DEF SendPacket, connVars
  <2>2. CASE UNCHANGED main
    BY <2>1, <2>2, OtherInv, Zenon
  <2>3. CASE main' = [main EXCEPT !.pc = "down"]
    BY <1>0, <2>1, <2>3, PanicInv, Zenon DEF Types
  <2> QED BY <1>8, <2>2, <2>3, Zenon DEF SendPacket
<1> QED BY <1>1, <1>2, <1>3, <1>4, <1>5, <1>6, <1>7, <1>8, Zenon DEF Next, NsStep

\* A buffer of serve() is in use exactly while the main thread receives into it
\* or a request thread works on it, for any number of clients and buffers:
\* get_buffer() and put_buffer() neither lose one nor give one away twice.
THEOREM BuffersAreExact == Spec => []BuffersExact
<1>1. Init => Inv
  BY InitInv, Zenon
<1>2. Inv /\ [Next]_vars => Inv'
  BY NextInv, Zenon
<1>3. Inv => BuffersExact
  BY Zenon DEF Inv
<1> QED BY <1>1, <1>2, <1>3, PTL DEF Spec
-----------------------------------------------------------------------------
(* Completions.  Until a descriptor or a netconn dangles, each socket has one *)
(* client, which makes one call at a time, and so each netconn has one call.  *)

Connections ==
  [used : BOOLEAN, tcp : BOOLEAN, pcb : {"null", "closed", "udp", "syn_sent", "stuck", "listen", "freed"},
   state : {"none", "connect", "listen"}, err : {"ok", "soft", "fatal"},
   op_completed : Nat, recvmbox : BOOLEAN, acceptmbox : BOOLEAN, eof : Nat]

CallTypes ==
  /\ conn \in [Conns -> Connections]
  /\ mbox \in Seq(Bufs)
  /\ holders \in [Socks -> SUBSET Clients]

\* A socket has one client, and only that client makes calls on it.
Owners ==
  /\ \A s \in Socks : \A c, d \in holders[s] : c = d
  /\ \A c \in Clients : client[c].pc = "send" /\ client[c].op \notin NewOps =>
       c \in holders[client[c].s]
  /\ \A b \in Bufs : Active(b) /\ th[b].op \notin NewOps => th[b].whom \in holders[th[b].s]

InCall(b, k) == th[b].at = "api" /\ th[b].k = k

\* A call is about the netconn of its socket, or about a new one.
CallConn(b) ==
  /\ th[b].op \in NewOps => conn[th[b].k].used /\ \A s \in Socks : sock[s] # th[b].k
  /\ th[b].op \notin NewOps => th[b].k = sock[th[b].s]

\* Sockets have netconns of their own, and so have calls.
Sockets ==
  /\ \A s \in Socks : sock[s] # NULL => conn[sock[s]].used
  /\ \A s, t \in Socks : sock[s] # NULL /\ sock[s] = sock[t] => s = t
  /\ \A b \in Bufs : th[b].at = "api" => CallConn(b)
  /\ \A b, d \in Bufs : th[b].at = "api" /\ InCall(d, th[b].k) => b = d

\* A new socket, while the answer with its number is sent.
NewSocket(b) ==
  th[b].op \in NewOps =>
    \/ th[b].r = -1
    \/ th[b].r \in Socks /\ sock[th[b].r] # NULL

\* A thread answers before another goes on.
Answers ==
  /\ \A b, d \in Bufs : th[b].at = "reply" /\ th[d].at = "reply" => b = d
  /\ \A b \in Bufs : th[b].at = "reply" => NewSocket(b)

InBox(b) == \E i \in 1 .. Len(mbox) : mbox[i] = b

Quiet(k) == conn[k].op_completed = 0 /\ conn[k].state # "connect"

\* The call's message is in the mailbox, or it is connected later on, or it is done.
Expects(b, k) ==
  \/ InBox(b) /\ Quiet(k)
  \/ ~InBox(b) /\ conn[k].op_completed = 1 /\ conn[k].state # "connect"
  \/ ~InBox(b) /\ conn[k].op_completed = 0 /\ conn[k].state = "connect"

Completions ==
  /\ \A i \in 1 .. Len(mbox) : th[mbox[i]].at = "api"
  /\ \A i, j \in 1 .. Len(mbox) : mbox[i] = mbox[j] => i = j
  /\ \A b \in Bufs : th[b].at = "api" => Expects(b, th[b].k)
  /\ \A k \in Conns : (\A b \in Bufs : ~InCall(b, k)) => Quiet(k)

CallInv == CallTypes /\ Owners /\ Sockets /\ Answers /\ Completions

\* At most one message is there for a netconn, and one call.
LEMMA OneEach ==
  ASSUME Types, CallInv
  PROVE  OneCompletionPerCall
<1> SUFFICES ASSUME NEW k \in Conns
    PROVE  Cardinality({b \in Bufs : th[b].at = "api" /\ th[b].k = k})
             = conn[k].op_completed
               + Cardinality({i \in 1 .. Len(mbox) : th[mbox[i]].k = k})
               + (IF conn[k].state = "connect" THEN 1 ELSE 0)
  BY Zenon DEF OneCompletionPerCall
<1> DEFINE A == {b \in Bufs : th[b].at = "api" /\ th[b].k = k}
           M == {i \in 1 .. Len(mbox) : th[mbox[i]].k = k}
<1> HIDE DEF A, M
<1>1. mbox \in Seq(Bufs) /\ \A i \in 1 .. Len(mbox) : mbox[i] \in Bufs
  BY DEF CallInv, CallTypes
<1>2. Cardinality({}) = 0 /\ \A x : Cardinality({x}) = 1
  BY FS_EmptySet, FS_Singleton, Zenon
<1>3. CASE \A b \in Bufs : ~InCall(b, k)
  <2>1. A = {}
    BY <1>3, Zenon DEF InCall, A
  <2>2. M = {}
    BY <1>1, <1>3, Zenon DEF M, InCall, CallInv, Completions
  <2>3. conn[k].op_completed = 0 /\ conn[k].state # "connect"
    BY <1>3, Zenon DEF CallInv, Completions, Quiet
  <2>4. Cardinality(A) = 0 /\ Cardinality(M) = 0
    BY <1>2, <2>1, <2>2, Zenon
  <2>5. Cardinality(A) = conn[k].op_completed + Cardinality(M)
                           + (IF conn[k].state = "connect" THEN 1 ELSE 0)
    BY <2>3, <2>4
  <2> QED BY <2>5, Zenon DEF A, M
<1>4. ASSUME NEW b \in Bufs, InCall(b, k)
      PROVE  Cardinality(A) = conn[k].op_completed + Cardinality(M)
                                + (IF conn[k].state = "connect" THEN 1 ELSE 0)
  <2>1. \A d \in Bufs : InCall(d, k) => d = b
    BY <1>4, Zenon DEF CallInv, Sockets, InCall
  <2>2. A = {b}
    BY <1>4, <2>1, Zenon DEF InCall, A
  <2>3. \A i \in 1 .. Len(mbox) : th[mbox[i]].k = k <=> mbox[i] = b
    BY <1>1, <1>4, <2>1, Zenon DEF InCall, CallInv, Completions
  <2>4. Expects(b, k)
    BY <1>4, Zenon DEF CallInv, Completions, InCall
  <2>5. CASE InBox(b)
    <3>1. PICK i \in 1 .. Len(mbox) : mbox[i] = b
      BY <2>5, Zenon DEF InBox
    <3>2. M = {i}
      BY <2>3, <3>1, Zenon DEF CallInv, Completions, M
    <3>3. conn[k].op_completed = 0 /\ conn[k].state # "connect"
      BY <2>4, <2>5, Zenon DEF Expects, Quiet
    <3>4. Cardinality(A) = 1 /\ Cardinality(M) = 1
      BY <1>2, <2>2, <3>2, Zenon
    <3> QED BY <3>3, <3>4
  <2>6. CASE ~InBox(b)
    <3>1. M = {}
      BY <2>3, <2>6, Zenon DEF InBox, M
    <3>2. \/ conn[k].op_completed = 1 /\ conn[k].state # "connect"
          \/ conn[k].op_completed = 0 /\ conn[k].state = "connect"
      BY <2>4, <2>6, Zenon DEF Expects
    <3> QED BY <1>2, <2>2, <3>1, <3>2, SMTT(30)
  <2> QED BY <2>5, <2>6, Zenon
<1> QED BY <1>3, <1>4, Zenon DEF A, M

\* The threads work for the same clients, on the same requests.
SameWork ==
  \A d \in Bufs : /\ Active(d)' <=> Active(d)
                  /\ th'[d].whom = th[d].whom /\ th'[d].op = th[d].op /\ th'[d].s = th[d].s

LEMMA OwnersKept ==
  ASSUME Owners, SameWork, UNCHANGED <<client, holders>>
  PROVE  Owners'
<1>1. \A b \in Bufs : Active(b)' /\ th'[b].op \notin NewOps => th'[b].whom \in holders[th'[b].s]
  BY Zenon DEF Owners, SameWork
<1> QED BY <1>1, Zenon DEF Owners

\* The calls are the same, and so is what the netconns have for them.
SameCalls ==
  \A d \in Bufs :
    /\ th'[d].at = "api" <=> th[d].at = "api"
    /\ th[d].at = "api" => th'[d].k = th[d].k /\ th'[d].op = th[d].op /\ th'[d].s = th[d].s

SameConns ==
  \A k \in Conns : /\ conn'[k].used = conn[k].used /\ conn'[k].state = conn[k].state
                   /\ conn'[k].op_completed = conn[k].op_completed

LEMMA SocketsKept ==
  ASSUME Types, Sockets, SameCalls, UNCHANGED sock,
         \A k \in Conns : conn'[k].used = conn[k].used
  PROVE  Sockets'
<1>1. \A s \in Socks : sock[s] # NULL => sock[s] \in Conns
  BY Zenon DEF Types
<1>2. \A b \in Bufs : th[b].at = "api" => th[b].k \in Conns
  BY Zenon DEF Types, Threads
<1>3. \A s \in Socks : sock'[s] # NULL => conn'[sock'[s]].used
  BY <1>1, Zenon DEF Sockets
<1>4. \A b \in Bufs : th'[b].at = "api" => CallConn(b)'
  <2> SUFFICES ASSUME NEW b \in Bufs, th'[b].at = "api" PROVE CallConn(b)'
    BY Zenon
  <2>1. /\ th[b].k \in Conns /\ CallConn(b) /\ th'[b].k = th[b].k /\ th'[b].op = th[b].op
        /\ th'[b].s = th[b].s
    BY <1>2, Zenon DEF Sockets, SameCalls
  <2> QED BY <2>1, Zenon DEF CallConn
<1>7. \A b, d \in Bufs : th'[b].at = "api" /\ InCall(d, th[b].k)' => b = d
  <2> SUFFICES ASSUME NEW b \in Bufs, NEW d \in Bufs, th'[b].at = "api", InCall(d, th[b].k)'
               PROVE  b = d
    BY Zenon
  <2>1. th[b].at = "api" /\ th[d].at = "api" /\ th[d].k = th[b].k
    BY Zenon DEF SameCalls, InCall
  <2> QED BY <2>1, Zenon DEF Sockets, InCall
<1>8. \A s, t \in Socks : sock'[s] # NULL /\ sock'[s] = sock'[t] => s = t
  BY Zenon DEF Sockets
<1> QED BY <1>3, <1>4, <1>7, <1>8, Zenon DEF Sockets

LEMMA CompletionsKept ==
  ASSUME Types, CallTypes, Completions, SameCalls, SameConns, UNCHANGED mbox
  PROVE  Completions'
<1>1. \A b \in Bufs : th[b].at = "api" => th[b].k \in Conns
  BY Zenon DEF Types, Threads
<1>2. \A i \in 1 .. Len(mbox) : mbox[i] \in Bufs
  BY DEF CallTypes
<1>3. \A k \in Conns : Quiet(k) => Quiet(k)'
  BY Zenon DEF Quiet, SameConns
<1>4. ASSUME NEW b \in Bufs, th'[b].at = "api" PROVE Expects(b, th[b].k)'
  <2>1. th[b].at = "api" /\ th'[b].k = th[b].k /\ th[b].k \in Conns
    BY <1>1, <1>4, Zenon DEF SameCalls
  <2>2. Expects(b, th[b].k)
    BY <2>1, Zenon DEF Completions
  <2>3. InBox(b)' <=> InBox(b)
    BY Zenon DEF InBox
  <2>4. PICK k \in Conns : k = th[b].k
    BY <2>1, Zenon
  <2>5. Expects(b, k) => Expects(b, k)'
    BY <1>3, <2>3, Zenon DEF Expects, SameConns
  <2> QED BY <2>1, <2>2, <2>4, <2>5, Zenon
<1>5. \A i \in 1 .. Len(mbox') : th'[mbox'[i]].at = "api"
  BY <1>2, Zenon DEF Completions, SameCalls
<1>6. \A k \in Conns : (\A b \in Bufs : ~InCall(b, k)') => Quiet(k)'
  <2>1. \A b \in Bufs, k \in Conns : InCall(b, k) => InCall(b, k)'
    BY Zenon DEF InCall, SameCalls
  <2> QED BY <1>3, <2>1, Zenon DEF Completions
<1>7. \A i, j \in 1 .. Len(mbox') : mbox'[i] = mbox'[j] => i = j
  BY Zenon DEF Completions
<1>8. \A b \in Bufs : th'[b].at = "api" => Expects(b, th[b].k)'
  BY <1>4, Zenon
<1> QED BY <1>5, <1>6, <1>7, <1>8, Zenon DEF Completions

\* The answers that are due are the same.
SameAnswers ==
  \A d \in Bufs :
    /\ th'[d].at = "reply" <=> th[d].at = "reply"
    /\ th[d].at = "reply" => th'[d].r = th[d].r /\ th'[d].op = th[d].op /\ th'[d].s = th[d].s

LEMMA AnswersKept ==
  ASSUME Answers, SameAnswers, UNCHANGED <<sock, holders>>
  PROVE  Answers'
<1>1. \A b \in Bufs : th'[b].at = "reply" => NewSocket(b)'
  <2> SUFFICES ASSUME NEW b \in Bufs, th'[b].at = "reply" PROVE NewSocket(b)'
    BY Zenon
  <2>1. NewSocket(b) /\ th'[b].r = th[b].r /\ th'[b].op = th[b].op
    BY Zenon DEF Answers, SameAnswers
  <2> QED BY <2>1, Zenon DEF NewSocket
<1>2. \A b, d \in Bufs : th'[b].at = "reply" /\ th'[d].at = "reply" => b = d
  BY ZenonT(60) DEF Answers, SameAnswers
<1> QED BY <1>1, <1>2, Zenon DEF Answers

\* The step of a thread that neither begins nor ends a call nor answers.
LEMMA CallsKept ==
  ASSUME Types, CallInv, SameWork, SameCalls, SameConns, SameAnswers,
         conn' \in [Conns -> Connections], UNCHANGED <<client, holders, sock, mbox>>
  PROVE  CallInv'
<1>1. CallTypes'
  BY Zenon DEF CallInv, CallTypes
<1>2. Owners'
  BY OwnersKept, Zenon DEF CallInv
<1>3. \A k \in Conns : conn'[k].used = conn[k].used
  BY Zenon DEF SameConns
<1>4. Sockets'
  BY <1>3, SocketsKept, Zenon DEF CallInv
<1>5. Answers'
  BY AnswersKept, Zenon DEF CallInv
<1>6. Completions'
  BY CompletionsKept, Zenon DEF CallInv
<1> QED BY <1>1, <1>2, <1>4, <1>5, <1>6, Zenon DEF CallInv

LEMMA AllKept ==
  ASSUME Types, CallInv, UNCHANGED <<client, holders, th, sock, conn, mbox>>
  PROVE  CallInv'
<1>1. SameWork /\ SameCalls /\ SameConns /\ SameAnswers
  BY Zenon DEF SameWork, SameCalls, SameConns, SameAnswers, Active
<1>2. conn' \in [Conns -> Connections]
  BY Zenon DEF CallInv, CallTypes
<1> QED BY <1>1, <1>2, CallsKept, Zenon

\* The environments: a call is made on a socket that the client holds.
LEMMA ClientCalls ==
  ASSUME Types, CallInv, UNCHANGED <<holders, th, sock, conn, mbox>>,
         \A c \in Clients : client'[c].pc = "send" /\ client'[c].op \notin NewOps =>
           c \in holders[client'[c].s]
  PROVE  CallInv'
<1>1. CallTypes'
  BY Zenon DEF CallInv, CallTypes
<1>2. \A b \in Bufs : Active(b)' <=> Active(b)
  BY Zenon DEF Active
<1>3. Owners'
  BY <1>2, Zenon DEF CallInv, Owners
<1>4. SameCalls /\ SameConns /\ SameAnswers
  BY Zenon DEF SameCalls, SameConns, SameAnswers
<1>5. Sockets' /\ Answers' /\ Completions'
  <2>1. \A k \in Conns : conn'[k].used = conn[k].used
    BY Zenon
  <2> QED BY <1>4, <2>1, SocketsKept, AnswersKept, CompletionsKept, Zenon DEF CallInv
<1> QED BY <1>1, <1>3, <1>5, Zenon DEF CallInv

\* A thread returns from its socket call, when no other has to answer.
Returns(b, r) ==
  /\ \A d \in Bufs : d # b => th'[d] = th[d]
  /\ th'[b].at = "reply" /\ th'[b].r = r
  /\ th'[b].whom = th[b].whom /\ th'[b].op = th[b].op /\ th'[b].s = th[b].s

NoAnswer == \A d \in Bufs : th[d].at # "reply"

LEMMA ReturnsSameWork ==
  ASSUME NEW b \in Bufs, NEW r, Active(b), Returns(b, r)
  PROVE  SameWork
<1> SUFFICES ASSUME NEW d \in Bufs
             PROVE  /\ Active(d)' <=> Active(d)
                    /\ th'[d].whom = th[d].whom /\ th'[d].op = th[d].op /\ th'[d].s = th[d].s
  BY Zenon DEF SameWork
<1>1. CASE d = b
  BY <1>1, Zenon DEF Returns, Active
<1>2. CASE d # b
  BY <1>2, Zenon DEF Returns, Active
<1> QED BY <1>1, <1>2, Zenon

LEMMA ReturnsAnswers ==
  ASSUME NoAnswer, NEW b \in Bufs, NEW r, Returns(b, r),
         th[b].op \in NewOps => r = -1 \/ (r \in Socks /\ sock'[r] # NULL)
  PROVE  Answers'
<1>1. \A d \in Bufs : th'[d].at = "reply" <=> d = b
  BY Zenon DEF NoAnswer, Returns
<1>2. NewSocket(b)'
  BY Zenon DEF NewSocket, Returns
<1>3. \A d \in Bufs : th'[d].at = "reply" => NewSocket(d)'
  BY <1>1, <1>2, Zenon
<1>4. \A d, e \in Bufs : th'[d].at = "reply" /\ th'[e].at = "reply" => d = e
  BY <1>1, Zenon
<1> QED BY <1>3, <1>4, Zenon DEF Answers

\* ... and it was in no call.
LEMMA ReturnsCalls ==
  ASSUME Types, CallInv, NoAnswer, NEW b \in Bufs, NEW r, Returns(b, r), Active(b),
         th[b].at # "api", th[b].op \in NewOps => r = -1,
         SameConns, conn' \in [Conns -> Connections], UNCHANGED <<client, holders, sock, mbox>>
  PROVE  CallInv'
<1>1. SameCalls
  BY Zenon DEF SameCalls, Returns
<1>2. CallTypes'
  BY Zenon DEF CallInv, CallTypes
<1>3. \A k \in Conns : conn'[k].used = conn[k].used
  BY Zenon DEF SameConns
<1>4. Sockets'
  BY <1>1, <1>3, SocketsKept, Zenon DEF CallInv
<1>5. Owners'
  BY ReturnsSameWork, OwnersKept, Zenon DEF CallInv
<1>6. Answers'
  BY ReturnsAnswers, Zenon DEF CallInv
<1>7. Completions'
  BY <1>1, CompletionsKept, Zenon DEF CallInv
<1> QED BY <1>2, <1>4, <1>5, <1>6, <1>7, Zenon DEF CallInv

\* A thread begins a call of its own on a netconn: tcpip_apimsg().
Begins(b, k) ==
  /\ \A d \in Bufs : d # b => th'[d] = th[d]
  /\ th'[b].at = "api" /\ th'[b].k = k
  /\ th'[b].whom = th[b].whom /\ th'[b].op = th[b].op /\ th'[b].s = th[b].s

LEMMA BeginsCompletions ==
  ASSUME Types, CallTypes, Completions, NEW b \in Bufs, NEW k \in Conns, Begins(b, k),
         th[b].at = "start", \A d \in Bufs : ~InCall(d, k), mbox' = Append(mbox, b),
         \A j \in Conns : j # k => conn'[j] = conn[j], Quiet(k)'
  PROVE  Completions'
<1>1. /\ mbox \in Seq(Bufs) /\ Len(mbox) \in Nat /\ Len(mbox') = Len(mbox) + 1
      /\ mbox'[Len(mbox) + 1] = b
      /\ \A i \in 1 .. Len(mbox) : mbox'[i] = mbox[i] /\ mbox[i] \in Bufs
  BY DEF CallTypes
<1>2. \A i \in 1 .. Len(mbox') : i = Len(mbox) + 1 \/ i \in 1 .. Len(mbox)
  BY <1>1
<1>3. \A i \in 1 .. Len(mbox) : mbox[i] # b /\ th'[mbox[i]] = th[mbox[i]]
  BY <1>1, Zenon DEF Completions, Begins
<1>4. \A i \in 1 .. Len(mbox') : th'[mbox'[i]].at = "api"
  <2> SUFFICES ASSUME NEW i \in 1 .. Len(mbox') PROVE th'[mbox'[i]].at = "api"
    BY Zenon
  <2>1. CASE i = Len(mbox) + 1
    BY <1>1, <2>1, Zenon DEF Begins
  <2>2. CASE i \in 1 .. Len(mbox)
    <3>1. th[mbox[i]].at = "api"
      BY <2>2, Zenon DEF Completions
    <3> QED BY <1>1, <1>3, <2>2, <3>1, Zenon
  <2> QED BY <1>2, <2>1, <2>2, Zenon
<1>5. \A i, j \in 1 .. Len(mbox') : mbox'[i] = mbox'[j] => i = j
  <2>1. \A i, j \in 1 .. Len(mbox) : mbox[i] = mbox[j] => i = j
    BY Zenon DEF Completions
  <2> QED BY <1>1, <1>2, <1>3, <2>1
<1>6. \A d \in Bufs : InBox(d)' <=> InBox(d) \/ d = b
  <2>1. Len(mbox) + 1 \in 1 .. Len(mbox') /\ \A i \in 1 .. Len(mbox) : i \in 1 .. Len(mbox')
    BY <1>1
  <2> QED BY <1>1, <1>2, <2>1, Zenon DEF InBox
<1>7. ASSUME NEW d \in Bufs, th'[d].at = "api" PROVE Expects(d, th[d].k)'
  <2>1. CASE d = b
    <3>1. InBox(b)' /\ th'[b].k = k
      BY <1>6, Zenon DEF Begins
    <3>2. Expects(b, k)'
      BY <3>1, Zenon DEF Expects
    <3> QED BY <2>1, <3>1, <3>2, Zenon
  <2>2. CASE d # b
    <3>1. th'[d] = th[d] /\ th[d].at = "api" /\ th[d].k \in Conns
      BY <1>7, <2>2, Zenon DEF Begins, Types, Threads
    <3>2. th[d].k # k /\ Expects(d, th[d].k)
      BY <3>1, Zenon DEF InCall, Completions
    <3>3. PICK j \in Conns : j = th[d].k /\ j # k
      BY <3>1, <3>2, Zenon
    <3>4. conn'[j] = conn[j] /\ (InBox(d)' <=> InBox(d))
      BY <1>6, <2>2, <3>3, Zenon
    <3>5. Expects(d, j) => Expects(d, j)'
      BY <3>4, Zenon DEF Expects, Quiet
    <3> QED BY <3>1, <3>2, <3>3, <3>5, Zenon
  <2> QED BY <2>1, <2>2, Zenon
<1>8. ASSUME NEW j \in Conns, \A d \in Bufs : ~InCall(d, j)' PROVE Quiet(j)'
  <2>1. j # k
    BY <1>8, Zenon DEF InCall, Begins
  <2>2. \A d \in Bufs : ~InCall(d, j)
    BY <1>8, Zenon DEF InCall, Begins
  <2>3. Quiet(j) /\ conn'[j] = conn[j]
    BY <2>1, <2>2, Zenon DEF Completions
  <2> QED BY <2>3, Zenon DEF Quiet
<1> QED BY <1>4, <1>5, <1>7, <1>8, Zenon DEF Completions

LEMMA BeginsSockets ==
  ASSUME Types, Sockets, NEW b \in Bufs, NEW k \in Conns, Begins(b, k),
         \A d \in Bufs : ~InCall(d, k), UNCHANGED sock,
         \A j \in Conns : j # k => conn'[j] = conn[j], conn'[k].used,
         th[b].op \in NewOps => \A s \in Socks : sock[s] # k,
         th[b].op \notin NewOps => k = sock[th[b].s]
  PROVE  Sockets'
<1>1. \A s \in Socks : sock[s] # NULL => sock[s] \in Conns
  BY DEF Types
<1>2. \A s \in Socks : sock'[s] # NULL => conn'[sock'[s]].used
  <2> SUFFICES ASSUME NEW s \in Socks, sock[s] # NULL PROVE conn'[sock[s]].used
    BY Zenon
  <2>1. sock[s] \in Conns /\ conn[sock[s]].used
    BY <1>1, Zenon DEF Sockets
  <2> QED BY <2>1, Zenon
<1>3. ASSUME NEW d \in Bufs, th'[d].at = "api" PROVE CallConn(d)'
  <2>1. CASE d = b
    BY <2>1, Zenon DEF CallConn, Begins
  <2>2. CASE d # b
    <3>1. th'[d] = th[d] /\ th[d].at = "api" /\ th[d].k \in Conns
      BY <1>3, <2>2 DEF Begins, Types, Threads
    <3>2. th[d].k # k /\ CallConn(d)
      BY <3>1, Zenon DEF InCall, Sockets
    <3> QED BY <3>1, <3>2, Zenon DEF CallConn
  <2> QED BY <2>1, <2>2, Zenon
<1>4. \A d, e \in Bufs : th'[d].at = "api" /\ InCall(e, th[d].k)' => d = e
  <2> SUFFICES ASSUME NEW d \in Bufs, NEW e \in Bufs, th'[d].at = "api", InCall(e, th[d].k)'
               PROVE  d = e
    BY Zenon
  <2>1. th'[e].at = "api" /\ th'[e].k = th'[d].k
    BY Zenon DEF InCall
  <2>2. CASE d # b /\ e # b
    BY <2>1, <2>2 DEF Begins, Sockets, InCall
  <2>3. CASE d = b /\ e # b
    BY <2>1, <2>3, ZenonT(60) DEF Begins, InCall
  <2>4. CASE d # b /\ e = b
    BY <2>1, <2>4, ZenonT(60) DEF Begins, InCall
  <2> QED BY <2>2, <2>3, <2>4, Zenon
<1>5. \A s, t \in Socks : sock'[s] # NULL /\ sock'[s] = sock'[t] => s = t
  BY Zenon DEF Sockets
<1> QED BY <1>2, <1>3, <1>4, <1>5, Zenon DEF Sockets

LEMMA BeginsCalls ==
  ASSUME Types, CallInv, NEW b \in Bufs, NEW k \in Conns, Begins(b, k),
         th[b].at = "start", \A d \in Bufs : ~InCall(d, k), mbox' = Append(mbox, b),
         conn' \in [Conns -> Connections],
         \A j \in Conns : j # k => conn'[j] = conn[j], Quiet(k)', conn'[k].used,
         th[b].op \in NewOps => \A s \in Socks : sock[s] # k,
         th[b].op \notin NewOps => k = sock[th[b].s], UNCHANGED <<client, holders, sock>>
  PROVE  CallInv'
<1>1. CallTypes'
  BY DEF CallInv, CallTypes
<1>2. ASSUME NEW d \in Bufs
      PROVE  /\ Active(d)' <=> Active(d)
             /\ th'[d].whom = th[d].whom /\ th'[d].op = th[d].op /\ th'[d].s = th[d].s
             /\ th'[d].at = "reply" <=> th[d].at = "reply"
             /\ th[d].at = "reply" => th'[d].r = th[d].r
  <2>1. CASE d = b
    BY <2>1, Zenon DEF Begins, Active
  <2>2. CASE d # b
    BY <2>2, Zenon DEF Begins, Active
  <2> QED BY <2>1, <2>2, Zenon
<1>3. SameWork /\ SameAnswers
  BY <1>2, Zenon DEF SameWork, SameAnswers
<1>4. Owners'
  BY <1>3, OwnersKept, Zenon DEF CallInv
<1>5. Answers'
  BY <1>3, AnswersKept, Zenon DEF CallInv
<1>6. Sockets'
  BY BeginsSockets, Zenon DEF CallInv
<1>7. Completions'
  BY BeginsCompletions, Zenon DEF CallInv
<1> QED BY <1>1, <1>4, <1>5, <1>6, <1>7, Zenon DEF CallInv

\* A thread's call is done: tcpip_apimsg() returns.
LEMMA EndsCompletions ==
  ASSUME Types, CallTypes, Sockets, Completions, NEW b \in Bufs, NEW k \in Conns, NEW r,
         Returns(b, r), InCall(b, k), ~InBox(b), UNCHANGED mbox,
         \A j \in Conns : j # k => conn'[j] = conn[j], Quiet(k)'
  PROVE  Completions'
<1>1. \A i \in 1 .. Len(mbox) : mbox[i] \in Bufs /\ mbox[i] # b
  BY DEF CallTypes, InBox
<1>2. \A i \in 1 .. Len(mbox') : th'[mbox'[i]].at = "api"
  BY <1>1, Zenon DEF Completions, Returns
<1>3. \A i, j \in 1 .. Len(mbox') : mbox'[i] = mbox'[j] => i = j
  BY Zenon DEF Completions
<1>4. ASSUME NEW d \in Bufs, th'[d].at = "api" PROVE Expects(d, th[d].k)'
  <2>1. d # b
    BY <1>4, Zenon DEF Returns
  <2>2. th'[d] = th[d] /\ th[d].at = "api" /\ th[d].k \in Conns
    BY <1>4, <2>1, Zenon DEF Returns, Types, Threads
  <2>3. th[d].k # k /\ Expects(d, th[d].k)
    BY <2>1, <2>2, Zenon DEF Sockets, InCall, Completions
  <2>4. PICK j \in Conns : j = th[d].k /\ j # k
    BY <2>2, <2>3, Zenon
  <2>5. conn'[j] = conn[j] /\ (InBox(d)' <=> InBox(d))
    BY <2>4, Zenon DEF InBox
  <2>6. Expects(d, j) => Expects(d, j)'
    BY <2>5, Zenon DEF Expects, Quiet
  <2> QED BY <2>2, <2>3, <2>4, <2>6, Zenon
<1>5. ASSUME NEW j \in Conns, \A d \in Bufs : ~InCall(d, j)' PROVE Quiet(j)'
  <2>1. CASE j = k
    BY <2>1, Zenon
  <2>2. CASE j # k
    <3>1. \A d \in Bufs : ~InCall(d, j)
      BY <1>5, <2>2, Zenon DEF InCall, Returns
    <3>2. Quiet(j) /\ conn'[j] = conn[j]
      BY <2>2, <3>1, Zenon DEF Completions
    <3> QED BY <3>2, Zenon DEF Quiet
  <2> QED BY <2>1, <2>2, Zenon
<1> QED BY <1>2, <1>3, <1>4, <1>5, Zenon DEF Completions

\* What is left of the netconn does not matter to the others.
LEMMA EndsSockets ==
  ASSUME Types, Sockets, NEW b \in Bufs, NEW k \in Conns, NEW r, Returns(b, r), InCall(b, k),
         \A s \in Socks : sock'[s] # NULL => sock'[s] \in Conns /\ conn'[sock'[s]].used,
         \A s, t \in Socks : sock'[s] # NULL /\ sock'[s] = sock'[t] => s = t,
         \A j \in Conns : j # k => conn'[j] = conn[j],
         \A s \in Socks : sock'[s] = sock[s] \/ sock'[s] = k \/ sock'[s] = NULL,
         \A s \in Socks : sock[s] = NULL \/ sock[s] = k \/ sock'[s] = sock[s]
  PROVE  Sockets'
<1>1. ASSUME NEW d \in Bufs, th'[d].at = "api"
      PROVE  /\ d # b /\ th'[d] = th[d] /\ th[d].at = "api" /\ th[d].k \in Conns
             /\ th[d].k # k /\ CallConn(d) /\ th[d].s \in Socks
  <2>1. d # b
    BY <1>1, Zenon DEF Returns
  <2>2. th'[d] = th[d] /\ th[d].at = "api" /\ th[d].k \in Conns /\ th[d].s \in Socks
    BY <1>1, <2>1 DEF Returns, Types, Threads
  <2> QED BY <2>1, <2>2, Zenon DEF Sockets, InCall
<1>2. ASSUME NEW d \in Bufs, th'[d].at = "api" PROVE CallConn(d)'
  <2>1. /\ d # b /\ th'[d] = th[d] /\ th[d].at = "api" /\ th[d].k \in Conns
        /\ th[d].k # k /\ CallConn(d) /\ th[d].s \in Socks
    BY <1>1, <1>2, Zenon
  <2>2. CASE th[d].op \in NewOps
    <3>1. conn'[th[d].k].used /\ \A s \in Socks : sock[s] # th[d].k
      BY <2>1, <2>2, Zenon DEF CallConn
    <3>2. \A s \in Socks : sock'[s] # th[d].k
      BY <2>1, <3>1, NetAssumption DEF Conns
    <3> QED BY <2>1, <2>2, <3>1, <3>2, Zenon DEF CallConn
  <2>3. CASE th[d].op \notin NewOps
    <3>1. th[d].k = sock[th[d].s] /\ NULL \notin Conns
      BY <2>1, <2>3, NetAssumption, Zenon DEF CallConn, Conns
    <3>2. sock'[th[d].s] = sock[th[d].s]
      BY <2>1, <3>1
    <3> QED BY <2>1, <2>3, <3>1, <3>2, Zenon DEF CallConn
  <2> QED BY <2>2, <2>3, Zenon
<1>3. \A d, e \in Bufs : th'[d].at = "api" /\ InCall(e, th[d].k)' => d = e
  <2> SUFFICES ASSUME NEW d \in Bufs, NEW e \in Bufs, th'[d].at = "api", InCall(e, th[d].k)'
               PROVE  d = e
    BY Zenon
  <2>1. th'[e].at = "api" /\ th'[e].k = th'[d].k
    BY Zenon DEF InCall
  <2>2. th'[d] = th[d] /\ th'[e] = th[e]
    BY <1>1, <2>1, Zenon
  <2>3. th[d].at = "api" /\ InCall(e, th[d].k)
    BY <2>1, <2>2, Zenon DEF InCall
  <2> QED BY <2>3, Zenon DEF Sockets
<1> QED BY <1>2, <1>3, Zenon DEF Sockets

\* A call ends: what is left of its netconn, and what becomes of the sockets.
Ends(b, k, r) ==
  /\ Returns(b, r) /\ UNCHANGED <<client, holders, mbox>>
  /\ conn' \in [Conns -> Connections] /\ Quiet(k)'
  /\ \A j \in Conns : j # k => conn'[j] = conn[j]
  /\ \A s \in Socks : sock'[s] # NULL => sock'[s] \in Conns /\ conn'[sock'[s]].used
  /\ \A s, t \in Socks : sock'[s] # NULL /\ sock'[s] = sock'[t] => s = t
  /\ \A s \in Socks : sock'[s] = sock[s] \/ sock'[s] = k \/ sock'[s] = NULL
  /\ \A s \in Socks : sock[s] = NULL \/ sock[s] = k \/ sock'[s] = sock[s]
  /\ th[b].op \in NewOps => r = -1 \/ (r \in Socks /\ sock'[r] # NULL)

LEMMA EndsCalls ==
  ASSUME Types, CallInv, NoAnswer, NEW b \in Bufs, NEW k \in Conns, NEW r, InCall(b, k),
         ~InBox(b), Ends(b, k, r)
  PROVE  CallInv'
<1>1. CallTypes'
  BY Zenon DEF CallInv, CallTypes, Ends
<1>2. Active(b)
  BY Zenon DEF InCall, Active
<1>3. Owners'
  BY <1>2, ReturnsSameWork, OwnersKept, Zenon DEF CallInv, Ends
<1>4. Answers'
  BY ReturnsAnswers, Zenon DEF CallInv, Ends
<1>5. Sockets'
  BY EndsSockets DEF CallInv, Ends
<1>6. Completions'
  BY EndsCompletions, Zenon DEF CallInv, Ends
<1> QED BY <1>1, <1>3, <1>4, <1>5, <1>6, Zenon DEF CallInv

\* There are as many sockets as netconns: one is free for a new netconn.
LEMMA SocketFree ==
  ASSUME Types, Sockets, NEW k \in Conns, \A s \in Socks : sock[s] # k
  PROVE  \E s \in Socks : sock[s] = NULL
<1> SUFFICES ASSUME \A s \in Socks : sock[s] # NULL PROVE FALSE
  BY Zenon
<1>1. sock \in [Socks -> Conns \ {k}]
  BY Zenon DEF Types
<1>2. NUM_SOCKETS \in Nat \ {0}
  BY NetAssumption, Zenon
<1>3. IsFiniteSet(Socks) /\ Cardinality(Socks) = NUM_SOCKETS
  <2>1. 0 \in Int /\ NUM_SOCKETS - 1 \in Int /\ ~(0 > NUM_SOCKETS - 1)
    BY <1>2
  <2>2. /\ IsFiniteSet(0 .. NUM_SOCKETS - 1)
        /\ Cardinality(0 .. NUM_SOCKETS - 1) = NUM_SOCKETS - 1 - 0 + 1
    BY <2>1, FS_Interval, Zenon
  <2> QED BY <1>2, <2>2 DEF Socks
<1>4. IsFiniteSet(Conns) /\ Cardinality(Conns) = NUM_SOCKETS
  <2>1. 1 \in Int /\ NUM_SOCKETS \in Int /\ ~(1 > NUM_SOCKETS)
    BY <1>2
  <2>2. /\ IsFiniteSet(1 .. NUM_SOCKETS)
        /\ Cardinality(1 .. NUM_SOCKETS) = NUM_SOCKETS - 1 + 1
    BY <2>1, FS_Interval, Zenon
  <2> QED BY <1>2, <2>2 DEF Conns
<1>5. IsFiniteSet(Conns \ {k}) /\ Cardinality(Conns \ {k}) = Cardinality(Conns) - 1
  <2>1. IsFiniteSet(Conns \ {k}) /\ Cardinality(Conns \ {k}) =
          IF k \in Conns THEN Cardinality(Conns) - 1 ELSE Cardinality(Conns)
    BY <1>4, FS_RemoveElement, Zenon
  <2> QED BY <2>1, Zenon
<1>6. Cardinality(Conns \ {k}) < Cardinality(Socks)
  BY <1>2, <1>3, <1>4, <1>5
<1>7. \E s, t \in Socks : s # t /\ sock[s] = sock[t]
  BY <1>1, <1>3, <1>5, <1>6, FS_PigeonHole
<1> QED BY <1>7, Zenon DEF Sockets

LEMMA CallDone ==
  ASSUME Types, CallInv, NEW b \in Bufs, NEW k \in Conns, InCall(b, k), conn[k].op_completed > 0
  PROVE  ~InBox(b) /\ conn[k].op_completed = 1 /\ conn[k].state # "connect"
<1>1. Expects(b, k)
  BY Zenon DEF CallInv, Completions, InCall
<1> QED BY <1>1 DEF Expects, Quiet

\* socket(): the netconn gets the first free socket.
LEMMA FinishNew ==
  ASSUME Types, CallInv, NoAnswer, NEW b \in Bufs, NEW k \in Conns, InCall(b, k),
         conn[k].op_completed > 0, th[b].op \in NewOps, UNCHANGED <<client, holders, mbox>>,
         NEW s, s = Min({x \in Socks : sock[x] = NULL}), Return(b, s),
         sock' = [sock EXCEPT ![s] = k], conn' = [conn EXCEPT ![k].op_completed = @ - 1]
  PROVE  CallInv'
<1>1. ~InBox(b) /\ conn[k].op_completed = 1 /\ conn[k].state # "connect"
  BY CallDone, Zenon
<1>2. CallConn(b) /\ th[b].k = k
  BY Zenon DEF CallInv, Sockets, InCall
<1>3. conn[k].used /\ \A x \in Socks : sock[x] # k
  BY <1>2, Zenon DEF CallConn
<1>4. s \in Socks /\ sock[s] = NULL
  <2>1. {x \in Socks : sock[x] = NULL} # {}
    BY <1>3, SocketFree, Zenon DEF CallInv
  <2>2. {x \in Socks : sock[x] = NULL} \subseteq Nat
    BY DEF Socks
  <2> QED BY <2>1, <2>2, MinIn, Zenon
<1>6. th[b].at # "none" /\ s \in Socks \cup {-1, NoSock}
  BY <1>4, Zenon DEF InCall
<1>7. Returns(b, s)
  BY <1>6, ReturnThread, Zenon DEF Returns
<1>8. conn \in [Conns -> Connections] /\ sock \in [Socks -> Conns \cup {NULL}]
  BY Zenon DEF CallInv, CallTypes, Types
<1>9. conn' \in [Conns -> Connections] /\ (\A j \in Conns : j # k => conn'[j] = conn[j])
      /\ conn'[k].used /\ Quiet(k)'
  BY <1>1, <1>3, <1>8 DEF Connections, Quiet
<1>10. sock'[s] = k /\ \A x \in Socks : x # s => sock'[x] = sock[x]
  BY <1>4, <1>8, Zenon
<1>11. k # NULL /\ NULL \notin Conns
  BY NetAssumption, Zenon DEF Conns
<1>12. \A x \in Socks : sock'[x] # NULL => sock'[x] \in Conns /\ conn'[sock'[x]].used
  <2> SUFFICES ASSUME NEW x \in Socks, sock'[x] # NULL
               PROVE  sock'[x] \in Conns /\ conn'[sock'[x]].used
    BY Zenon
  <2>1. CASE x = s
    BY <1>9, <1>10, <2>1, Zenon
  <2>2. CASE x # s
    <3>1. sock'[x] = sock[x] /\ sock[x] \in Conns /\ sock[x] # k
      BY <1>3, <1>8, <1>10, <2>2, Zenon
    <3>2. conn[sock[x]].used
      BY <3>1, <1>11, Zenon DEF CallInv, Sockets
    <3> QED BY <1>9, <3>1, <3>2, Zenon
  <2> QED BY <2>1, <2>2, Zenon
<1>13. \A x, y \in Socks : sock'[x] # NULL /\ sock'[x] = sock'[y] => x = y
  <2>1. \A x, y \in Socks : sock[x] # NULL /\ sock[x] = sock[y] => x = y
    BY Zenon DEF CallInv, Sockets
  <2> QED BY <1>3, <1>10, <2>1
<1>14. /\ \A x \in Socks : sock'[x] = sock[x] \/ sock'[x] = k \/ sock'[x] = NULL
       /\ \A x \in Socks : sock[x] = NULL \/ sock[x] = k \/ sock'[x] = sock[x]
       /\ s \in Socks /\ sock'[s] # NULL
  BY <1>4, <1>10, <1>11, Zenon
<1>15. Ends(b, k, s)
  BY <1>7, <1>9, <1>12, <1>13, <1>14, Zenon DEF Ends
<1> QED BY <1>1, <1>15, EndsCalls, Zenon

\* The other calls: close(), shutdown() and a socket() that fails free the netconn.
LEMMA FinishFrees ==
  ASSUME Types, CallInv, NoAnswer, NEW b \in Bufs, NEW k \in Conns, InCall(b, k),
         conn[k].op_completed > 0, UNCHANGED <<client, holders, mbox>>, NEW r \in {0, -1},
         Return(b, r), conn' = [conn EXCEPT ![k] = NoConn],
         \/ th[b].op \in NewOps /\ r = -1 /\ UNCHANGED sock
         \/ th[b].op \in {"close", "shutdown"} /\ sock' = [sock EXCEPT ![th[b].s] = NULL]
  PROVE  CallInv'
<1>1. ~InBox(b)
  BY CallDone, Zenon
<1>2. /\ CallConn(b) /\ th[b].k = k /\ th[b].s \in Socks
      /\ \A op \in {"close", "shutdown"} : op \notin NewOps
  BY Zenon DEF CallInv, Sockets, InCall, NewOps, Types, Threads
<1>3. th[b].at # "none" /\ r \in Socks \cup {-1, NoSock}
  BY NetAssumption DEF InCall, Socks
<1>4. Returns(b, r)
  BY <1>3, ReturnThread, Zenon DEF Returns
<1>5. /\ conn \in [Conns -> Connections] /\ sock \in [Socks -> Conns \cup {NULL}]
      /\ NoConn \in Connections
  BY Zenon DEF CallInv, CallTypes, Types, NoConn, Connections
<1>6. conn' \in [Conns -> Connections] /\ (\A j \in Conns : j # k => conn'[j] = conn[j])
      /\ Quiet(k)'
  BY <1>5, Zenon DEF Quiet, NoConn
<1>7. \A x \in Socks : sock'[x] # NULL => sock'[x] = sock[x] /\ sock[x] # k
  <2>1. CASE th[b].op \in NewOps /\ UNCHANGED sock
    BY <1>2, <2>1, Zenon DEF CallConn
  <2>2. CASE th[b].op \in {"close", "shutdown"} /\ sock' = [sock EXCEPT ![th[b].s] = NULL]
    <3>1. sock[th[b].s] = k /\ k # NULL
      BY <1>2, <2>2, NetAssumption, Zenon DEF CallConn, Conns
    <3>2. \A x \in Socks : sock[x] = k => x = th[b].s
      BY <1>2, <3>1, Zenon DEF CallInv, Sockets
    <3> QED BY <1>2, <1>5, <2>2, <3>2, Zenon
  <2> QED BY <2>1, <2>2, Zenon
<1>8. \A x \in Socks : sock'[x] # NULL => sock'[x] \in Conns /\ conn'[sock'[x]].used
  <2> SUFFICES ASSUME NEW x \in Socks, sock'[x] # NULL
               PROVE  sock'[x] \in Conns /\ conn'[sock'[x]].used
    BY Zenon
  <2>1. sock'[x] = sock[x] /\ sock[x] \in Conns /\ sock[x] # k /\ sock[x] # NULL
    BY <1>5, <1>7, Zenon
  <2>2. conn[sock[x]].used
    BY <2>1, Zenon DEF CallInv, Sockets
  <2> QED BY <1>6, <2>1, <2>2, Zenon
<1>9. \A x, y \in Socks : sock'[x] # NULL /\ sock'[x] = sock'[y] => x = y
  <2>1. \A x, y \in Socks : sock[x] # NULL /\ sock[x] = sock[y] => x = y
    BY Zenon DEF CallInv, Sockets
  <2> QED BY <1>7, <2>1, Zenon
<1>10. \A x \in Socks : sock[x] = NULL \/ sock[x] = k \/ sock'[x] = sock[x]
  <2>1. CASE UNCHANGED sock
    BY <2>1, Zenon
  <2>2. CASE th[b].op \in {"close", "shutdown"} /\ sock' = [sock EXCEPT ![th[b].s] = NULL]
    BY <1>2, <1>5, <2>2, Zenon DEF CallConn
  <2> QED BY <2>1, <2>2, Zenon
<1>11. th[b].op \in NewOps => r = -1
  BY <1>2, <1>5, Zenon
<1>12. Ends(b, k, r)
  BY <1>4, <1>6, <1>7, <1>8, <1>9, <1>10, <1>11, Zenon DEF Ends
<1> QED BY <1>1, <1>12, EndsCalls, Zenon

LEMMA FinishOther ==
  ASSUME Types, CallInv, NoAnswer, NEW b \in Bufs, NEW k \in Conns, InCall(b, k),
         conn[k].op_completed > 0, UNCHANGED <<client, holders, mbox, sock>>, NEW r \in {0, -1},
         Return(b, r), conn' = [conn EXCEPT ![k].op_completed = @ - 1], th[b].op \notin NewOps
  PROVE  CallInv'
<1>1. ~InBox(b) /\ conn[k].op_completed = 1 /\ conn[k].state # "connect"
  BY CallDone, Zenon
<1>3. th[b].at # "none" /\ r \in Socks \cup {-1, NoSock}
  BY NetAssumption DEF InCall, Socks
<1>4. Returns(b, r)
  BY <1>3, ReturnThread, Zenon DEF Returns
<1>5. conn \in [Conns -> Connections] /\ sock \in [Socks -> Conns \cup {NULL}]
  BY Zenon DEF CallInv, CallTypes, Types
<1>6. conn' \in [Conns -> Connections] /\ (\A j \in Conns : j # k => conn'[j] = conn[j])
      /\ Quiet(k)' /\ conn'[k].used = conn[k].used
  BY <1>1, <1>5 DEF Connections, Quiet
<1>7. \A x \in Socks : sock[x] # NULL => sock[x] \in Conns /\ conn'[sock[x]].used
  <2> SUFFICES ASSUME NEW x \in Socks, sock[x] # NULL
               PROVE  sock[x] \in Conns /\ conn'[sock[x]].used
    BY Zenon
  <2>1. sock[x] \in Conns /\ conn[sock[x]].used
    BY <1>5, Zenon DEF CallInv, Sockets
  <2> QED BY <1>6, <2>1, Zenon
<1>8. \A x, y \in Socks : sock[x] # NULL /\ sock[x] = sock[y] => x = y
  BY Zenon DEF CallInv, Sockets
<1>9. Ends(b, k, r)
  BY <1>4, <1>6, <1>7, <1>8, Zenon DEF Ends
<1> QED BY <1>1, <1>9, EndsCalls, Zenon

LEMMA FinishCalls ==
  ASSUME Types, CallInv, NoAnswer, NEW b \in Bufs, NEW k \in Conns, InCall(b, k),
         conn[k].op_completed > 0, Finish(b, k), UNCHANGED <<client, holders, mbox>>
  PROVE  CallInv'
<1>a. PICK s : s = Min({x \in Socks : sock[x] = NULL})
  BY Zenon
<1>b. PICK r : r = IF conn[k].err = "ok" THEN 0 ELSE -1
  BY Zenon
<1>1. r \in {0, -1} /\ 0 \in {0, -1} /\ -1 \in {0, -1}
  BY <1>b, Zenon
<1>2. \/ /\ th[b].op \in NewOps /\ Return(b, s) /\ sock' = [sock EXCEPT ![s] = k]
         /\ conn' = [conn EXCEPT ![k].op_completed = @ - 1]
      \/ th[b].op \in NewOps /\ Return(b, -1) /\ conn' = [conn EXCEPT ![k] = NoConn] /\ UNCHANGED sock
      \/ /\ th[b].op \in {"close", "shutdown"} /\ Return(b, 0) /\ conn' = [conn EXCEPT ![k] = NoConn]
         /\ sock' = [sock EXCEPT ![th[b].s] = NULL]
      \/ /\ th[b].op \notin NewOps /\ Return(b, r) /\ UNCHANGED sock
         /\ conn' = [conn EXCEPT ![k].op_completed = @ - 1]
  BY <1>a, <1>b, Zenon DEF Finish, NewOps
<1> QED BY <1>a, <1>1, <1>2, FinishNew, FinishFrees, FinishOther, Zenon

\* A thread that begins works for the only client of its socket: no other call is
\* under way there.  A netconn that is not in use has none either.
LEMMA NobodyElse ==
  ASSUME Inv, CallInv, NEW b \in Bufs, th[b].at = "start", NEW k \in Conns,
         \/ th[b].op \notin NewOps /\ k = sock[th[b].s]
         \/ ~conn[k].used
  PROVE  /\ \A d \in Bufs : ~InCall(d, k)
         /\ ~conn[k].used => \A s \in Socks : sock[s] # k
         /\ k = sock[th[b].s] => conn[k].used
<1>1. k # NULL /\ th[b].s \in Socks /\ Active(b)
  BY NetAssumption, Zenon DEF Conns, Inv, Types, Threads, Active
<1>2. \A s \in Socks : sock[s] = k => conn[k].used
  BY <1>1, Zenon DEF CallInv, Sockets
<1>3. ASSUME NEW d \in Bufs, InCall(d, k) PROVE FALSE
  <2>1. CallConn(d) /\ th[d].s \in Socks /\ Active(d) /\ th[d].k = k /\ d # b
    BY <1>3, Zenon DEF CallInv, Sockets, InCall, Inv, Types, Threads, Active
  <2>2. th[d].op \notin NewOps /\ k = sock[th[d].s] /\ conn[k].used
    BY <1>1, <1>2, <2>1, Zenon DEF CallConn
  <2>3. th[b].op \notin NewOps /\ th[d].s = th[b].s
    BY <1>1, <2>1, <2>2, Zenon DEF CallInv, Sockets
  <2>4. th[d].whom \in holders[th[b].s] /\ th[b].whom \in holders[th[b].s]
    BY <1>1, <2>1, <2>2, <2>3, Zenon DEF CallInv, Owners
  <2>5. th[d].whom = th[b].whom
    BY <1>1, <2>4, Zenon DEF CallInv, Owners
  <2> QED BY <1>1, <2>1, <2>5, Zenon DEF Inv, Serving
<1> QED BY <1>1, <1>2, <1>3, Zenon

LEMMA StartSocketCalls ==
  ASSUME Inv, CallInv, NEW b \in Bufs, th[b].at = "start", th[b].op \in NewOps,
         NEW k \in Conns, ~conn[k].used, Api(b, k),
         conn' = [conn EXCEPT ![k] = [NoConn EXCEPT !.used = TRUE, !.recvmbox = TRUE,
                                                    !.tcp = (th[b].op = "tcp")]],
         UNCHANGED <<client, holders, sock>>
  PROVE  CallInv'
<1>1. Types /\ th[b].at # "none" /\ mbox' = Append(mbox, b)
  BY Zenon DEF Inv, Api
<1>2. Begins(b, k)
  BY <1>1, ApiThread, Zenon DEF Begins
<1>3. (\A d \in Bufs : ~InCall(d, k)) /\ \A s \in Socks : sock[s] # k
  BY NobodyElse, Zenon
<1>4. PICK v : v = [NoConn EXCEPT !.used = TRUE, !.recvmbox = TRUE, !.tcp = (th[b].op = "tcp")]
  BY Zenon
<1>5. v \in Connections /\ v.used /\ v.op_completed = 0 /\ v.state = "none"
  <2>1. (th[b].op = "tcp") \in BOOLEAN
    BY Zenon
  <2> QED BY <1>4, <2>1, Zenon DEF NoConn, Connections
<1>6. conn \in [Conns -> Connections] /\ conn' = [conn EXCEPT ![k] = v]
  BY <1>4, Zenon DEF CallInv, CallTypes
<1>7. /\ conn' \in [Conns -> Connections] /\ conn'[k] = v
      /\ \A j \in Conns : j # k => conn'[j] = conn[j]
  BY <1>5, <1>6, Zenon
<1>8. Quiet(k)' /\ conn'[k].used
  BY <1>5, <1>7, Zenon DEF Quiet
<1> QED BY <1>1, <1>2, <1>3, <1>7, <1>8, BeginsCalls, Zenon

\* A step that leaves every netconn as it is, but for its error and what it has
\* received.
LEMMA ConnStays ==
  ASSUME CallInv, NEW k \in Conns,
         \/ UNCHANGED conn
         \/ conn' = [conn EXCEPT ![k].err = "fatal"]
         \/ conn[k].eof > 0 /\ conn' = [conn EXCEPT ![k].eof = @ - 1, ![k].err = "fatal"]
  PROVE  SameConns /\ conn' \in [Conns -> Connections]
<1>1. conn \in [Conns -> Connections]
  BY Zenon DEF CallInv, CallTypes
<1> QED BY <1>1 DEF SameConns, Connections

\* The thread waits, for the network or again.
LEMMA WaitCalls ==
  ASSUME Types, CallInv, NEW b \in Bufs, NEW a \in {"api", "recv", "accept"}, NEW k \in Conns,
         NEW y \in BOOLEAN, th' = [th EXCEPT ![b] = [th[b] EXCEPT !.at = a, !.k = k, !.woken = y]],
         th[b].at \notin {"none", "reply"}, a = "api" <=> th[b].at = "api",
         a = "api" => k = th[b].k, UNCHANGED <<client, holders, conn, sock, mbox>>
  PROVE  CallInv'
<1>1. /\ \A d \in Bufs : d # b => th'[d] = th[d]
      /\ th'[b].at = a /\ th'[b].op = th[b].op /\ th'[b].s = th[b].s
      /\ th'[b].k = k /\ th'[b].r = th[b].r /\ th'[b].whom = th[b].whom
  <2>1. th[b] \in Threads /\ th \in [Bufs -> Threads]
    BY Zenon DEF Types
  <2>2. /\ \A d \in Bufs : d # b => th'[d] = th[d]
        /\ th'[b] = [th[b] EXCEPT !.at = a, !.k = k, !.woken = y]
    BY <2>1, Zenon
  <2> QED BY <2>1, <2>2 DEF Threads
<1>2. SameWork
  BY <1>1, Zenon DEF SameWork, Active
<1>3. SameCalls
  BY <1>1, Zenon DEF SameCalls
<1>4. SameAnswers
  BY <1>1, Zenon DEF SameAnswers
<1>5. SameConns /\ conn' \in [Conns -> Connections]
  BY ConnStays, Zenon
<1> QED BY <1>2, <1>3, <1>4, <1>5, CallsKept, Zenon

LEMMA ReturnCalls ==
  ASSUME Types, CallInv, NoAnswer, NEW b \in Bufs, NEW r \in {0, -1}, Return(b, r),
         th[b].at \notin {"none", "api"}, th[b].op \in NewOps => r = -1,
         SameConns, conn' \in [Conns -> Connections], UNCHANGED <<client, holders, sock, mbox>>
  PROVE  CallInv'
<1>1. r \in Socks \cup {-1, NoSock} /\ th[b].at # "none" /\ th[b].at # "api"
  BY NetAssumption DEF Socks
<1>2. Returns(b, r) /\ Active(b)
  BY <1>1, ReturnThread, Zenon DEF Returns, Active
<1> QED BY <1>1, <1>2, ReturnsCalls, Zenon

LEMMA StartRecvCalls ==
  ASSUME Types, CallInv, NoAnswer, NEW b \in Bufs, th[b].at = "start", NEW k \in Conns,
         th[b].op \notin NewOps, UNCHANGED <<client, holders, sock>>,
         StartRecv(b, k) \/ StartAccept(b, k)
  PROVE  CallInv'
<1>0. /\ 0 \in {0, -1} /\ -1 \in {0, -1} /\ th[b].at \notin {"none", "api"} /\ UNCHANGED mbox
      /\ th[b].at \notin {"none", "reply"}
  BY Zenon DEF StartRecv, StartAccept
<1>1. CASE /\ Return(b, 0) \/ Return(b, -1)
           /\ \/ UNCHANGED conn
              \/ conn' = [conn EXCEPT ![k].err = "fatal"]
              \/ conn[k].eof > 0 /\ conn' = [conn EXCEPT ![k].eof = @ - 1, ![k].err = "fatal"]
  <2>1. SameConns /\ conn' \in [Conns -> Connections]
    BY <1>1, ConnStays, Zenon
  <2> QED BY <1>0, <1>1, <2>1, ReturnCalls, Zenon
<1>2. ASSUME NEW a \in {"recv", "accept"}, th' = [th EXCEPT ![b].at = a, ![b].k = k],
             UNCHANGED conn
      PROVE  CallInv'
  <2>1. PICK y : y = th[b].woken
    BY Zenon
  <2>2. y \in BOOLEAN /\ th \in [Bufs -> Threads] /\ th[b] \in Threads
    BY <2>1, Zenon DEF Types, Threads
  <2>3. th' = [th EXCEPT ![b] = [th[b] EXCEPT !.at = a, !.k = k]]
    BY <1>2, <2>2, Zenon
  <2>4. [th[b] EXCEPT !.at = a, !.k = k, !.woken = y] = [th[b] EXCEPT !.at = a, !.k = k]
    BY <2>1, <2>2, Zenon DEF Threads
  <2>5. a \in {"api", "recv", "accept"} /\ a # "api"
    BY <1>2, Zenon
  <2>6. th' = [th EXCEPT ![b] = [th[b] EXCEPT !.at = a, !.k = k, !.woken = y]]
    BY <2>3, <2>4, Zenon
  <2> QED BY <1>0, <1>2, <2>2, <2>5, <2>6, WaitCalls, Zenon
<1>3. \/ /\ Return(b, 0) \/ Return(b, -1)
         /\ \/ UNCHANGED conn
            \/ conn' = [conn EXCEPT ![k].err = "fatal"]
            \/ conn[k].eof > 0 /\ conn' = [conn EXCEPT ![k].eof = @ - 1, ![k].err = "fatal"]
      \/ \E a \in {"recv", "accept"} : th' = [th EXCEPT ![b].at = a, ![b].k = k] /\ UNCHANGED conn
  BY Zenon DEF StartRecv, StartAccept
<1> QED BY <1>1, <1>2, <1>3, Zenon

LEMMA StartCalls ==
  ASSUME Inv, CallInv, NEW b \in Bufs, Start(b)
  PROVE  CallInv'
<1>a. PICK k : k = sock[th[b].s]
  BY Zenon
<1>1. /\ th[b].at = "start" /\ th[b].at # "none" /\ UNCHANGED <<client, holders, sock>> /\ Types
      /\ NoAnswer /\ k \in Conns \cup {NULL}
  BY <1>a, Zenon DEF Start, Turn, Free, NoAnswer, Inv, Types, Threads, envVars
<1>2. ASSUME Return(b, -1), UNCHANGED <<mbox, conn>> PROVE CallInv'
  <2>1. SameConns /\ conn' \in [Conns -> Connections]
    BY <1>2, Zenon DEF SameConns, CallInv, CallTypes
  <2> QED BY <1>1, <1>2, <2>1, ReturnCalls, Zenon
<1>3. ASSUME th[b].op \in NewOps, StartSocket(b) PROVE CallInv'
  <2>1. CASE \A j \in Conns : conn[j].used
    BY <1>2, <1>3, <2>1, Zenon DEF StartSocket
  <2>2. CASE ~\A j \in Conns : conn[j].used
    <3>1. PICK j : j = Min({x \in Conns : ~conn[x].used})
      BY Zenon
    <3>2. j \in Conns /\ ~conn[j].used
      BY <2>2, <3>1, FreeConn, Zenon
    <3>3. /\ conn' = [conn EXCEPT ![j] = [NoConn EXCEPT !.used = TRUE, !.recvmbox = TRUE,
                                                        !.tcp = (th[b].op = "tcp")]]
          /\ Api(b, j)
      BY <1>3, <2>2, <3>1, Zenon DEF StartSocket
    <3> QED BY <1>1, <1>3, <3>2, <3>3, StartSocketCalls, Zenon
  <2> QED BY <2>1, <2>2, Zenon
<1>4. ASSUME th[b].op \notin NewOps, k \in Conns, StartRecv(b, k) \/ StartAccept(b, k)
      PROVE  CallInv'
  BY <1>1, <1>4, StartRecvCalls, Zenon
<1>5. ASSUME th[b].op \notin NewOps, k \in Conns, Api(b, k), UNCHANGED conn PROVE CallInv'
  <2>1. mbox' = Append(mbox, b) /\ Begins(b, k)
    BY <1>1, <1>5, ApiThread, Zenon DEF Api, Begins
  <2>2. (\A d \in Bufs : ~InCall(d, k)) /\ conn[k].used
    BY <1>a, <1>1, <1>5, NobodyElse, Zenon
  <2>3. Quiet(k)
    BY <1>5, <2>2, Zenon DEF CallInv, Completions
  <2>4. Quiet(k)' /\ conn'[k].used /\ conn' \in [Conns -> Connections]
        /\ \A j \in Conns : j # k => conn'[j] = conn[j]
    BY <1>5, <2>2, <2>3, Zenon DEF Quiet, CallInv, CallTypes
  <2> QED BY <1>a, <1>1, <1>5, <2>1, <2>2, <2>4, BeginsCalls, Zenon
<1>6. \/ th[b].op \in NewOps /\ StartSocket(b)
      \/ Return(b, -1) /\ UNCHANGED <<mbox, conn>>
      \/ th[b].op \notin NewOps /\ k # NULL /\ (StartRecv(b, k) \/ StartAccept(b, k))
      \/ th[b].op \notin NewOps /\ k # NULL /\ Api(b, k) /\ UNCHANGED conn
  BY <1>a, Zenon DEF Start, NewOps
<1> QED BY <1>1, <1>2, <1>3, <1>4, <1>5, <1>6, Zenon

LEMMA WaitsCalls ==
  ASSUME Inv, CallInv, NEW b \in Bufs, Wait(b)
  PROVE  CallInv'
<1>a. PICK k : k = th[b].k
  BY Zenon
<1>1. /\ th[b].at \in {"api", "recv", "accept"} /\ UNCHANGED <<client, holders, mbox>> /\ Types
      /\ NoAnswer /\ k \in Conns /\ th[b] \in Threads /\ th \in [Bufs -> Threads]
  BY <1>a, Zenon DEF Wait, Turn, Free, NoAnswer, Inv, Types, Threads, envVars
<1>2. ASSUME th[b].at = "api", conn[k].op_completed > 0, Finish(b, k) PROVE CallInv'
  <2>1. InCall(b, k)
    BY <1>a, <1>2, Zenon DEF InCall
  <2> QED BY <1>1, <1>2, <2>1, FinishCalls, Zenon
<1>3. ASSUME th[b].at = "recv", conn[k].eof > 0, Return(b, 0), UNCHANGED sock,
             conn' = [conn EXCEPT ![k].eof = @ - 1, ![k].err = "fatal"]
      PROVE  CallInv'
  <2>1. SameConns /\ conn' \in [Conns -> Connections]
    BY <1>1, <1>3, ConnStays, Zenon
  <2>2. 0 \in {0, -1} /\ th[b].at \notin {"none", "api"} /\ th[b].op \notin NewOps
    BY <1>1, <1>3, Zenon DEF Threads
  <2> QED BY <1>1, <1>3, <2>1, <2>2, ReturnCalls, Zenon
<1>4. ASSUME th' = [th EXCEPT ![b].woken = FALSE], UNCHANGED <<conn, sock>> PROVE CallInv'
  <2>1. PICK a, y : a = th[b].at /\ y = FALSE
    BY Zenon
  <2>2. [th[b] EXCEPT !.at = a, !.k = k, !.woken = FALSE] = [th[b] EXCEPT !.woken = FALSE]
    BY <1>a, <1>1, <2>1, Zenon DEF Threads
  <2>3. th' = [th EXCEPT ![b] = [th[b] EXCEPT !.at = a, !.k = k, !.woken = FALSE]]
    BY <1>1, <1>4, <2>2, Zenon
  <2>4. a \in {"api", "recv", "accept"} /\ a = th[b].at /\ th[b].at \notin {"none", "reply"}
        /\ FALSE \in BOOLEAN
    BY <1>1, <2>1, Zenon
  <2> QED BY <1>a, <1>1, <1>4, <2>3, <2>4, WaitCalls, Zenon
<1>5. \/ th[b].at = "api" /\ conn[k].op_completed > 0 /\ Finish(b, k)
      \/ /\ th[b].at = "recv" /\ conn[k].eof > 0 /\ Return(b, 0) /\ UNCHANGED sock
         /\ conn' = [conn EXCEPT ![k].eof = @ - 1, ![k].err = "fatal"]
      \/ th' = [th EXCEPT ![b].woken = FALSE] /\ UNCHANGED <<conn, sock>>
  BY <1>a, Zenon DEF Wait, connVars
<1> QED BY <1>2, <1>3, <1>4, <1>5, Zenon

LEMMA WokenCalls ==
  ASSUME OnlyWoken
  PROVE  SameWork /\ SameCalls /\ SameAnswers
  BY Zenon DEF OnlyWoken, SameWork, SameCalls, SameAnswers, Active

\* A lower half that has not to wait for the network signals; do_connect() has to.
HalfDone(k) ==
  \E v \in Connections :
    /\ conn' = [conn EXCEPT ![k] = v] /\ v.used = conn[k].used
    /\ \/ v.op_completed = 1 /\ v.state # "connect"
       \/ v.op_completed = 0 /\ v.state = "connect"

LEMMA SignalHalf ==
  ASSUME NEW k \in Conns, NEW cn \in Connections, cn.used = conn[k].used,
         cn.op_completed = 0, cn.state # "connect", Signal(k, cn, th)
  PROVE  HalfDone(k)
<1>1. PICK v : v = [cn EXCEPT !.op_completed = @ + 1]
  BY Zenon
<1>2. v \in Connections /\ v.used = conn[k].used /\ v.op_completed = 1 /\ v.state # "connect"
  BY <1>1 DEF Connections
<1> QED BY <1>1, <1>2, Zenon DEF Signal, HalfDone

LEMMA LowerHalf ==
  ASSUME CallInv, NEW k \in Conns, Quiet(k),
         DoNewconn(k) \/ DoDelconn(k) \/ DoBind(k) \/ DoConnect(k) \/ DoListen(k) \/ DoSend(k)
  PROVE  HalfDone(k)
<1> DEFINE Good(cn) == /\ cn \in Connections /\ cn.used = conn[k].used
                       /\ cn.op_completed = 0 /\ cn.state # "connect"
<1>1. conn \in [Conns -> Connections] /\ Good(conn[k])
  BY Zenon DEF CallInv, CallTypes, Quiet
<1>2. conn[k] \in Connections /\ conn[k].op_completed = 0 /\ conn[k].state # "connect"
  BY <1>1, Zenon
<1>3. CASE DoNewconn(k)
  <2>1. PICK cn : Good(cn) /\ Signal(k, cn, th)
    BY <1>2, <1>3 DEF DoNewconn, Connections
  <2> QED BY <2>1, SignalHalf, Zenon
<1>4. CASE DoDelconn(k)
  <2>1. PICK cn : Good(cn) /\ Signal(k, cn, th)
    BY <1>2, <1>4, Zenon DEF DoDelconn, Connections
  <2> QED BY <2>1, SignalHalf, Zenon
<1>5. CASE DoBind(k)
  <2>1. PICK cn : Good(cn) /\ Signal(k, cn, th)
    BY <1>2, <1>5, Zenon DEF DoBind, Connections
  <2> QED BY <2>1, SignalHalf, Zenon
<1>6. CASE DoListen(k)
  <2>1. PICK cn : Good(cn) /\ Signal(k, cn, th)
    BY <1>2, <1>6, Zenon DEF DoListen, Connections
  <2> QED BY <2>1, SignalHalf, Zenon
<1>7. CASE DoSend(k)
  <2>1. PICK cn : Good(cn) /\ Signal(k, cn, th)
    BY <1>2, <1>7, Zenon DEF DoSend, Connections
  <2> QED BY <2>1, SignalHalf, Zenon
<1>8. CASE DoConnect(k)
  <2>1. CASE \E cn : Good(cn) /\ Signal(k, cn, th)
    BY <2>1, SignalHalf, Zenon
  <2>2. ASSUME NEW out,
               out \in {<<"syn_sent", "ok">>, <<"stuck", "soft">>, <<conn[k].pcb, "fatal">>},
               conn' = [conn EXCEPT ![k].state = "connect", ![k].pcb = out[1], ![k].err = out[2]]
        PROVE  HalfDone(k)
    <3>1. PICK er, pc : er = out[2] /\ pc = out[1]
      BY Zenon
    <3>2. /\ er \in {"ok", "soft", "fatal"}
          /\ pc \in {"null", "closed", "udp", "syn_sent", "stuck", "listen", "freed"}
      BY <1>2, <2>2, <3>1 DEF Connections
    <3>3. PICK v : v = [conn[k] EXCEPT !.state = "connect", !.err = er, !.pcb = pc]
      BY Zenon
    <3>4. /\ v \in Connections /\ v.used = conn[k].used /\ v.op_completed = 0
          /\ v.state = "connect"
      BY <1>2, <3>2, <3>3, Zenon DEF Connections
    <3>5. conn' = [conn EXCEPT ![k] = v]
      BY <1>1, <2>2, <3>1, <3>3, Zenon
    <3> QED BY <3>4, <3>5, Zenon DEF HalfDone
  <2> QED BY <1>2, <1>8, <2>1, <2>2, Zenon DEF DoConnect, Connections
<1> QED BY <1>3, <1>4, <1>5, <1>6, <1>7, <1>8, Zenon

\* What follows for the calls when one netconn changes.
LEMMA ConnCalls ==
  ASSUME Types, CallInv, OnlyWoken, NEW k \in Conns, NEW v \in Connections,
         conn' = [conn EXCEPT ![k] = v], v.used = conn[k].used,
         UNCHANGED <<client, holders, sock>>, Completions', mbox' \in Seq(Bufs)
  PROVE  CallInv'
<1>1. conn \in [Conns -> Connections]
  BY Zenon DEF CallInv, CallTypes
<1>2. conn' \in [Conns -> Connections] /\ \A j \in Conns : conn'[j].used = conn[j].used
  BY <1>1, Zenon
<1>3. CallTypes'
  BY <1>2, Zenon DEF CallInv, CallTypes
<1>4. SameWork /\ SameCalls /\ SameAnswers
  BY WokenCalls, Zenon
<1>5. Owners'
  BY <1>4, OwnersKept, Zenon DEF CallInv
<1>6. Sockets'
  BY <1>2, <1>4, SocketsKept, Zenon DEF CallInv
<1>7. Answers'
  BY <1>4, AnswersKept, Zenon DEF CallInv
<1> QED BY <1>3, <1>5, <1>6, <1>7, Zenon DEF CallInv

\* One message: the call it belongs to has its completion now, or is connecting.
LEMMA TcpipCalls ==
  ASSUME Inv, CallInv, Tcpip
  PROVE  CallInv'
<1>a. PICK b, k : b = Head(mbox) /\ k = th[b].k
  BY Zenon
<1>0. Types /\ mbox # <<>> /\ UNCHANGED <<client, holders, sock>> /\ mbox' = Tail(mbox)
  BY Zenon DEF Inv, Tcpip, envVars
<1>1. /\ mbox \in Seq(Bufs) /\ b = mbox[1] /\ 1 \in 1 .. Len(mbox) /\ b \in Bufs
      /\ mbox' \in Seq(Bufs) /\ Len(mbox) \in Nat /\ Len(mbox') = Len(mbox) - 1
      /\ \A i \in 1 .. Len(mbox') : mbox'[i] = mbox[i + 1] /\ i + 1 \in 1 .. Len(mbox) /\ i + 1 # 1
      /\ \A i \in 1 .. Len(mbox) : i = 1 \/ (i - 1 \in 1 .. Len(mbox') /\ mbox'[i - 1] = mbox[i])
  BY <1>a, <1>0 DEF CallInv, CallTypes
<1>2. th[b].at = "api"
  BY <1>1, Zenon DEF CallInv, Completions
<1>3. k \in Conns /\ InCall(b, k)
  BY <1>a, <1>0, <1>1, <1>2, Zenon DEF Types, Threads, InCall
<1>4. InBox(b) /\ Expects(b, k)
  BY <1>a, <1>1, <1>2, Zenon DEF CallInv, Completions, InBox
<1>5. Quiet(k)
  BY <1>4, Zenon DEF Expects
<1>6. DoNewconn(k) \/ DoDelconn(k) \/ DoBind(k) \/ DoConnect(k) \/ DoListen(k) \/ DoSend(k)
  BY <1>a, Zenon DEF Tcpip
<1>7. HalfDone(k)
  BY <1>3, <1>5, <1>6, LowerHalf, Zenon
<1>8. PICK v \in Connections :
        /\ conn' = [conn EXCEPT ![k] = v] /\ v.used = conn[k].used
        /\ \/ v.op_completed = 1 /\ v.state # "connect"
           \/ v.op_completed = 0 /\ v.state = "connect"
  BY <1>7, Zenon DEF HalfDone
<1>9. conn'[k] = v /\ \A j \in Conns : j # k => conn'[j] = conn[j]
  BY <1>3, <1>8, Zenon DEF CallInv, CallTypes
<1>10. OnlyWoken
  BY <1>0, TcpipThreads, Zenon
<1>11. \A d \in Bufs : InBox(d)' <=> InBox(d) /\ d # b
  <2>1. \A i, j \in 1 .. Len(mbox) : mbox[i] = mbox[j] => i = j
    BY Zenon DEF CallInv, Completions
  <2>2. \A i \in 1 .. Len(mbox') : mbox'[i] # b
    BY <1>1, <2>1, ZenonT(40)
  <2>3. ASSUME NEW i \in 1 .. Len(mbox') PROVE mbox'[i] \in Bufs /\ InBox(mbox'[i])
    <3>1. i + 1 \in 1 .. Len(mbox) /\ mbox'[i] = mbox[i + 1]
      BY <1>1, Zenon
    <3> QED BY <1>1, <3>1 DEF InBox
  <2>4. ASSUME NEW i \in 1 .. Len(mbox), mbox[i] # b
        PROVE  \E j \in 1 .. Len(mbox') : mbox'[j] = mbox[i]
    BY <1>1, <2>4, Zenon
  <2> QED BY <2>2, <2>3, <2>4, Zenon DEF InBox
<1>12. \A i \in 1 .. Len(mbox') : th'[mbox'[i]].at = "api"
  <2> SUFFICES ASSUME NEW i \in 1 .. Len(mbox') PROVE th'[mbox'[i]].at = "api"
    BY Zenon
  <2>1. PICK j \in 1 .. Len(mbox) : mbox'[i] = mbox[j]
    BY <1>1, Zenon
  <2>2. mbox[j] \in Bufs /\ th[mbox[j]].at = "api"
    BY <1>1 DEF CallInv, Completions
  <2> QED BY <1>10, <2>1, <2>2, Zenon DEF OnlyWoken
<1>13. \A i, j \in 1 .. Len(mbox') : mbox'[i] = mbox'[j] => i = j
  <2>1. \A i, j \in 1 .. Len(mbox) : mbox[i] = mbox[j] => i = j
    BY Zenon DEF CallInv, Completions
  <2> SUFFICES ASSUME NEW i \in 1 .. Len(mbox'), NEW j \in 1 .. Len(mbox'), mbox'[i] = mbox'[j]
               PROVE  i = j
    BY Zenon
  <2>2. i + 1 \in 1 .. Len(mbox) /\ j + 1 \in 1 .. Len(mbox) /\ mbox[i + 1] = mbox[j + 1]
    BY <1>1, Zenon
  <2>3. i + 1 = j + 1
    BY <2>1, <2>2, Zenon
  <2> QED BY <1>1, <2>3
<1>14. ASSUME NEW d \in Bufs, th'[d].at = "api" PROVE Expects(d, th[d].k)'
  <2>1. th'[d].k = th[d].k /\ th[d].at = "api" /\ th[d].k \in Conns
    BY <1>0, <1>10, <1>14, Zenon DEF OnlyWoken, Types, Threads
  <2>2. CASE d = b
    <3>1. Expects(b, k)'
      BY <1>1, <1>8, <1>9, <1>11, Zenon DEF Expects
    <3> QED BY <1>a, <2>1, <2>2, <3>1, Zenon
  <2>3. CASE d # b
    <3>1. th[d].k # k /\ Expects(d, th[d].k)
      BY <1>1, <1>3, <2>1, <2>3, ZenonT(60) DEF CallInv, Sockets, InCall, Completions
    <3>2. PICK j \in Conns : j = th[d].k /\ j # k
      BY <2>1, <3>1, Zenon
    <3>3. conn'[j] = conn[j] /\ (InBox(d)' <=> InBox(d))
      BY <1>9, <1>11, <2>3, <3>2, Zenon
    <3>4. Expects(d, j) => Expects(d, j)'
      BY <3>3, Zenon DEF Expects, Quiet
    <3> QED BY <2>1, <3>1, <3>2, <3>4, Zenon
  <2> QED BY <2>2, <2>3, Zenon
<1>15. ASSUME NEW j \in Conns, \A d \in Bufs : ~InCall(d, j)' PROVE Quiet(j)'
  <2>1. \A d \in Bufs : ~InCall(d, j)
    BY <1>10, <1>15, Zenon DEF InCall, OnlyWoken
  <2>2. Quiet(j) /\ conn'[j] = conn[j]
    BY <1>1, <1>3, <1>9, <2>1, Zenon DEF CallInv, Completions
  <2> QED BY <2>2, Zenon DEF Quiet
<1>16. Completions'
  BY <1>12, <1>13, <1>14, <1>15, Zenon DEF Completions
<1> QED BY <1>0, <1>1, <1>3, <1>8, <1>10, <1>16, ConnCalls, Zenon

\* A connection is given up: the call that waits for it, if one does, is completed.
LEMMA AbortCalls ==
  ASSUME Inv, CallInv, NEW k \in Conns, Abort(k)
  PROVE  CallInv'
<1>a. PICK cn, w :
        /\ cn = [conn[k] EXCEPT !.pcb = "null", !.err = "fatal", !.state = "none", !.eof = @ + 1]
        /\ w = [b \in Bufs |-> IF th[b].at = "recv" /\ th[b].k = k
                               THEN [th[b] EXCEPT !.woken = TRUE] ELSE th[b]]
  BY Zenon
<1>0. Types /\ UNCHANGED <<client, holders, sock, mbox>> /\ conn \in [Conns -> Connections]
      /\ mbox \in Seq(Bufs) /\ mbox' \in Seq(Bufs)
  BY Zenon DEF Inv, Abort, envVars, CallInv, CallTypes
<1>1. /\ cn \in Connections /\ cn.used = conn[k].used /\ cn.state = "none"
      /\ cn.op_completed = conn[k].op_completed
  <2>1. conn[k] \in Connections
    BY <1>0, Zenon
  <2>2. PICK x : x = conn[k].eof + 1
    BY Zenon
  <2>3. x \in Nat /\ cn = [conn[k] EXCEPT !.pcb = "null", !.err = "fatal", !.state = "none",
                                          !.eof = x]
    BY <1>a, <2>1, <2>2 DEF Connections
  <2> QED BY <2>1, <2>3, Zenon DEF Connections
<1>2. PICK v \in Connections :
        /\ conn' = [conn EXCEPT ![k] = v] /\ v.used = conn[k].used /\ v.state = "none"
        /\ conn[k].state = "connect" => v.op_completed = conn[k].op_completed + 1
        /\ conn[k].state # "connect" => v.op_completed = conn[k].op_completed
  <2>1. CASE conn[k].state = "connect"
    <3>1. conn' = [conn EXCEPT ![k] = [cn EXCEPT !.op_completed = @ + 1]]
      BY <1>a, <2>1, Zenon DEF Abort, Signal
    <3>2. PICK v : v = [cn EXCEPT !.op_completed = @ + 1]
      BY Zenon
    <3>3. /\ v \in Connections /\ v.used = conn[k].used /\ v.state = "none"
          /\ v.op_completed = conn[k].op_completed + 1
      BY <1>1, <3>2 DEF Connections
    <3> QED BY <2>1, <3>1, <3>2, <3>3, Zenon
  <2>2. CASE conn[k].state # "connect"
    <3>1. conn' = [conn EXCEPT ![k] = cn]
      BY <1>a, <2>2, Zenon DEF Abort
    <3> QED BY <1>1, <2>2, <3>1, Zenon
  <2> QED BY <2>1, <2>2, Zenon
<1>3. conn'[k] = v /\ \A j \in Conns : j # k => conn'[j] = conn[j]
  BY <1>0, <1>2, Zenon
<1>4. OnlyWoken /\ SameCalls
  BY <1>0, AbortThreads, WokenCalls, Zenon
<1>5. \A d \in Bufs : InBox(d)' <=> InBox(d)
  BY <1>0, Zenon DEF InBox
<1>6. \A d \in Bufs, j \in Conns : Expects(d, j) => Expects(d, j)'
  <2> SUFFICES ASSUME NEW d \in Bufs, NEW j \in Conns, Expects(d, j) PROVE Expects(d, j)'
    BY Zenon
  <2>1. CASE j # k
    BY <1>3, <1>5, <2>1, Zenon DEF Expects, Quiet
  <2>2. CASE j = k
    BY <1>2, <1>3, <1>5, <2>2 DEF Expects, Quiet
  <2> QED BY <2>1, <2>2, Zenon
<1>7. ASSUME NEW d \in Bufs, th'[d].at = "api" PROVE Expects(d, th[d].k)'
  <2>1. th'[d].k = th[d].k /\ th[d].at = "api" /\ th[d].k \in Conns
    BY <1>0, <1>4, <1>7, Zenon DEF OnlyWoken, Types, Threads
  <2>2. PICK j \in Conns : j = th[d].k
    BY <2>1, Zenon
  <2>3. Expects(d, j)
    BY <2>1, <2>2, Zenon DEF CallInv, Completions
  <2>4. Expects(d, j)'
    BY <1>6, <2>3, Zenon
  <2> QED BY <2>1, <2>2, <2>4, Zenon
<1>8. ASSUME NEW j \in Conns, \A d \in Bufs : ~InCall(d, j)' PROVE Quiet(j)'
  <2>1. \A d \in Bufs : ~InCall(d, j)
    BY <1>4, <1>8, Zenon DEF InCall, OnlyWoken
  <2>2. Quiet(j)
    BY <2>1, Zenon DEF CallInv, Completions
  <2>3. CASE j # k
    BY <1>3, <2>2, <2>3, Zenon DEF Quiet
  <2>4. CASE j = k
    BY <1>2, <1>3, <2>2, <2>4, Zenon DEF Quiet
  <2> QED BY <2>3, <2>4, Zenon
<1>9. \A i \in 1 .. Len(mbox') : th'[mbox'[i]].at = "api"
  <2>1. \A i \in 1 .. Len(mbox) : mbox[i] \in Bufs /\ th[mbox[i]].at = "api"
    BY <1>0 DEF CallInv, Completions
  <2> QED BY <1>0, <1>4, <2>1, Zenon DEF OnlyWoken
<1>10. \A i, j \in 1 .. Len(mbox') : mbox'[i] = mbox'[j] => i = j
  BY <1>0, Zenon DEF CallInv, Completions
<1>11. Completions'
  BY <1>7, <1>8, <1>9, <1>10, Zenon DEF Completions
<1> QED BY <1>0, <1>2, <1>4, <1>11, ConnCalls, Zenon

\* A request is received: its thread is in no call yet.
LEMMA ReceivedCalls ==
  ASSUME Inv, CallInv, NEW c \in Clients, Receive(c), NEW t, Received(c, t)
  PROVE  CallInv'
<1>a. PICK b : b = main.b
  BY Zenon
<1>1. /\ main.pc = "recv" /\ b \in Bufs /\ ~Active(b) /\ client[c].pc = "send" /\ Types
      /\ th \in [Bufs -> Threads] /\ UNCHANGED <<holders, conn, sock, mbox>>
      /\ client' = [client EXCEPT ![c].pc = "sent"] /\ th' = [th EXCEPT ![b] = t]
  BY <1>a, Zenon DEF Receive, Received, MainTurn, Inv, Types, MainAlone, connVars
<1>2. t.at \in {"start", "lost"} /\ t.whom = c /\ t.op = client[c].op /\ t.s = client[c].s
  BY Zenon DEF Received, NoThread
<1>3. th'[b] = t /\ \A d \in Bufs : d # b => th'[d] = th[d]
  BY <1>1, Zenon
<1>4. client'[c].pc = "sent" /\ \A d \in Clients : d # c => client'[d] = client[d]
  BY <1>1, Zenon DEF Types
<1>5. SameCalls /\ SameAnswers /\ SameConns
  BY <1>1, <1>2, <1>3, Zenon DEF SameCalls, SameAnswers, SameConns, Active
<1>6. CallTypes'
  BY <1>1, Zenon DEF CallInv, CallTypes
<1>7. Sockets' /\ Answers' /\ Completions'
  <2>1. \A k \in Conns : conn'[k].used = conn[k].used
    BY <1>1, Zenon
  <2> QED BY <1>1, <1>5, <2>1, SocketsKept, AnswersKept, CompletionsKept, Zenon DEF CallInv
<1>8. \A s \in Socks : \A x, y \in holders'[s] : x = y
  BY <1>1, Zenon DEF CallInv, Owners
<1>9. \A d \in Clients : client'[d].pc = "send" /\ client'[d].op \notin NewOps =>
        d \in holders'[client'[d].s]
  <2> SUFFICES ASSUME NEW d \in Clients, client'[d].pc = "send", client'[d].op \notin NewOps
               PROVE  d \in holders'[client'[d].s]
    BY Zenon
  <2>1. d # c
    BY <1>4, Zenon
  <2> QED BY <1>1, <1>4, <2>1, Zenon DEF CallInv, Owners
<1>10. ASSUME NEW d \in Bufs, Active(d)', th'[d].op \notin NewOps
       PROVE  th'[d].whom \in holders'[th'[d].s]
  <2>1. CASE d = b
    <3>1. th'[d].op = client[c].op /\ th'[d].s = client[c].s /\ th'[d].whom = c
      BY <1>2, <1>3, <2>1, Zenon
    <3>2. c \in holders[client[c].s]
      BY <1>1, <1>10, <3>1, Zenon DEF CallInv, Owners
    <3> QED BY <1>1, <3>1, <3>2, Zenon
  <2>2. CASE d # b
    <3>1. th'[d] = th[d] /\ Active(d)
      BY <1>3, <1>10, <2>2, Zenon DEF Active
    <3>2. th[d].whom \in holders[th[d].s]
      BY <1>10, <3>1, Zenon DEF CallInv, Owners
    <3> QED BY <1>1, <3>1, <3>2, Zenon
  <2> QED BY <2>1, <2>2, Zenon
<1>11. Owners'
  BY <1>8, <1>9, <1>10, Zenon DEF Owners
<1> QED BY <1>6, <1>7, <1>11, Zenon DEF CallInv

LEMMA ReceiveCalls ==
  ASSUME Inv, CallInv, NEW c \in Clients, Receive(c)
  PROVE  CallInv'
<1>1. CASE UNCHANGED th
  <2>1. /\ Types /\ UNCHANGED <<holders, th, sock, conn, mbox>>
        /\ client' = [client EXCEPT ![c].pc = "sent"]
    BY <1>1, Zenon DEF Inv, Receive, connVars
  <2>2. client'[c].pc = "sent" /\ \A d \in Clients : d # c => client'[d] = client[d]
    BY <2>1, Zenon DEF Types
  <2>3. \A d \in Clients : client'[d].pc = "send" /\ client'[d].op \notin NewOps =>
          d \in holders[client'[d].s]
    <3> SUFFICES ASSUME NEW d \in Clients, client'[d].pc = "send", client'[d].op \notin NewOps
                 PROVE  d \in holders[client'[d].s]
      BY Zenon
    <3>1. client'[d] = client[d]
      BY <2>2, Zenon
    <3> QED BY <3>1, Zenon DEF CallInv, Owners
  <2> QED BY <2>1, <2>3, ClientCalls, Zenon
<1>2. CASE \E t : Received(c, t)
  BY <1>2, ReceivedCalls, Zenon
<1> QED BY <1>1, <1>2, Zenon DEF Receive, Received

\* The answer: the socket is the client's, or is not any more.
LEMMA ReplyCalls ==
  ASSUME Inv, CallInv, NEW b \in Bufs, Reply(b), ~dangling'
  PROVE  CallInv'
<1>a. PICK c : c = th[b].whom
  BY Zenon
<1>1. /\ Types /\ th[b].at = "reply" /\ Active(b) /\ c \in Clients /\ UNCHANGED <<conn, sock, mbox>>
      /\ holders \in [Socks -> SUBSET Clients] /\ th \in [Bufs -> Threads] /\ th[b].s \in Socks
      /\ client \in [Clients -> [pc : {"idle", "send", "sent", "recv", "dead"},
                                 op : AllOps \cup {NULL}, s : Socks]]
  BY <1>a, Zenon DEF Reply, Inv, Types, Threads, Active, Serving, connVars, CallInv, CallTypes
<1>2. CASE UNCHANGED <<client, holders, th>>
  BY <1>1, <1>2, AllKept, Zenon
<1>3. CASE /\ client[c].pc = "recv" /\ client' = [client EXCEPT ![c] = Idle]
           /\ th' = [th EXCEPT ![b] = NoThread]
           /\ holders' = CASE th[b].op \in {"tcp", "udp"} /\ th[b].r >= 0 ->
                                [holders EXCEPT ![th[b].r] = @ \cup {c}]
                           [] th[b].op = "close" -> [holders EXCEPT ![th[b].s] = @ \ {c}]
                           [] OTHER -> holders
           /\ dangling' = (dangling \/ (/\ th[b].op \in {"tcp", "udp"} /\ th[b].r >= 0
                                        /\ holders[th[b].r] # {}))
  <2>1. th'[b] = NoThread /\ \A d \in Bufs : d # b => th'[d] = th[d]
    BY <1>1, <1>3, Zenon
  <2>2. NoThread.at = "none"
    BY Zenon DEF NoThread
  <2>3. client'[c] = Idle /\ \A d \in Clients : d # c => client'[d] = client[d]
    BY <1>1, <1>3, Zenon
  <2>4. Idle.pc = "idle"
    BY Zenon DEF Idle
  <2>5. \A d \in Bufs : Active(d)' <=> Active(d) /\ d # b
    BY <2>1, <2>2, Zenon DEF Active
  <2>6. \A d \in Bufs : Active(d) /\ d # b => th[d].whom # c
    BY <1>a, <1>1, Zenon DEF Inv, Serving
  <2>7. \A d \in Bufs : d # b => th[d].at # "reply"
    BY <1>1, Zenon DEF CallInv, Answers
  <2>8. /\ \A x \in Socks : \A d, e \in holders[x] : d = e
        /\ th[b].op \notin NewOps => c \in holders[th[b].s]
    BY <1>a, <1>1, Zenon DEF CallInv, Owners
  <2>9. \/ /\ th[b].op \in NewOps /\ th[b].r \in Socks /\ holders[th[b].r] = {}
           /\ holders' = [holders EXCEPT ![th[b].r] = {c}]
        \/ th[b].op = "close" /\ holders' = [holders EXCEPT ![th[b].s] = holders[th[b].s] \ {c}]
        \/ holders' = holders
    <3>1. CASE th[b].op \in NewOps /\ th[b].r >= 0
      <4>1. NewSocket(b)
        BY <1>1, Zenon DEF CallInv, Answers
      <4>2. th[b].r \in Socks
        BY <3>1, <4>1 DEF NewSocket
      <4>3. holders[th[b].r] = {} /\ {} \cup {c} = {c}
        BY <1>3, <3>1, Zenon DEF NewOps
      <4>4. holders' = [holders EXCEPT ![th[b].r] = holders[th[b].r] \cup {c}]
        BY <1>1, <1>3, <3>1, Zenon DEF NewOps
      <4> QED BY <3>1, <4>2, <4>3, <4>4, Zenon
    <3>2. CASE ~(th[b].op \in NewOps /\ th[b].r >= 0)
      BY <1>1, <1>3, <3>2, Zenon DEF NewOps
    <3> QED BY <3>1, <3>2, Zenon
  <2>11. /\ holders' \in [Socks -> SUBSET Clients]
         /\ \A x \in Socks : \A d, e \in holders'[x] : d = e
         /\ \A x \in Socks : \A d \in holders[x] : d # c => d \in holders'[x]
    <3>1. CASE /\ th[b].op \in NewOps /\ th[b].r \in Socks /\ holders[th[b].r] = {}
               /\ holders' = [holders EXCEPT ![th[b].r] = {c}]
      <4>1. /\ holders' \in [Socks -> SUBSET Clients] /\ holders'[th[b].r] = {c}
            /\ \A x \in Socks : x # th[b].r => holders'[x] = holders[x]
        BY <1>1, <3>1, Zenon
      <4>2. ASSUME NEW x \in Socks
            PROVE  /\ \A d, e \in holders'[x] : d = e
                   /\ \A d \in holders[x] : d # c => d \in holders'[x]
        <5>1. CASE x = th[b].r
          BY <3>1, <4>1, <5>1, Zenon
        <5>2. CASE x # th[b].r
          BY <2>8, <4>1, <5>2, Zenon
        <5> QED BY <5>1, <5>2, Zenon
      <4> QED BY <4>1, <4>2, Zenon
    <3>2. CASE /\ th[b].op = "close"
               /\ holders' = [holders EXCEPT ![th[b].s] = holders[th[b].s] \ {c}]
      <4>1. /\ holders' \in [Socks -> SUBSET Clients] /\ holders'[th[b].s] = holders[th[b].s] \ {c}
            /\ \A x \in Socks : x # th[b].s => holders'[x] = holders[x]
        BY <1>1, <3>2, Zenon
      <4>3. ASSUME NEW x \in Socks
            PROVE  /\ \A d, e \in holders'[x] : d = e
                   /\ \A d \in holders[x] : d # c => d \in holders'[x]
        <5>1. CASE x = th[b].s
          BY <2>8, <4>1, <5>1, Zenon
        <5>2. CASE x # th[b].s
          BY <2>8, <4>1, <5>2
        <5> QED BY <5>1, <5>2, Zenon
      <4> QED BY <4>1, <4>3, Zenon
    <3>3. CASE holders' = holders
      BY <1>1, <2>8, <3>3, Zenon
    <3> QED BY <2>9, <3>1, <3>2, <3>3, Zenon
  <2>12. CallTypes'
    BY <1>1, <2>11, Zenon DEF CallInv, CallTypes
  <2>13. ASSUME NEW d \in Clients, client'[d].pc = "send", client'[d].op \notin NewOps
         PROVE  d \in holders'[client'[d].s]
    <3>1. d # c /\ client'[d] = client[d] /\ client[d].s \in Socks
      BY <1>1, <2>3, <2>4, <2>13, Zenon
    <3>2. d \in holders[client[d].s]
      BY <2>13, <3>1, Zenon DEF CallInv, Owners
    <3> QED BY <2>11, <3>1, <3>2, Zenon
  <2>14. ASSUME NEW d \in Bufs, Active(d)', th'[d].op \notin NewOps
         PROVE  th'[d].whom \in holders'[th'[d].s]
    <3>1. d # b /\ Active(d) /\ th'[d] = th[d] /\ th[d].whom # c
      BY <2>1, <2>5, <2>6, <2>14, Zenon
    <3>2. th[d].s \in Socks
      BY <1>1, Zenon DEF Threads
    <3>3. th[d].whom \in holders[th[d].s]
      BY <2>14, <3>1, Zenon DEF CallInv, Owners
    <3>4. th[d].whom \in holders'[th[d].s]
      BY <2>11, <3>1, <3>2, <3>3
    <3> QED BY <3>1, <3>4, Zenon
  <2>15. Owners'
    BY <2>11, <2>13, <2>14, Zenon DEF Owners
  <2>16. Answers'
    <3>1. \A d \in Bufs : th'[d].at # "reply"
      BY <2>1, <2>2, <2>7, Zenon
    <3> QED BY <3>1, Zenon DEF Answers
  <2>17. SameCalls /\ SameConns
    <3>1. \A d \in Bufs : /\ th'[d].at = "api" <=> th[d].at = "api"
                          /\ th[d].at = "api" => th'[d] = th[d]
      BY <1>1, <2>1, <2>2, Zenon
    <3>2. SameCalls
      BY <3>1, Zenon DEF SameCalls
    <3> QED BY <1>1, <3>2, Zenon DEF SameConns
  <2>18. Sockets' /\ Completions'
    <3>1. \A k \in Conns : conn'[k].used = conn[k].used
      BY <1>1, Zenon
    <3> QED BY <1>1, <2>17, <3>1, SocketsKept, CompletionsKept, Zenon DEF CallInv
  <2> QED BY <2>12, <2>15, <2>16, <2>18, Zenon DEF CallInv
<1> QED BY <1>a, <1>2, <1>3, Zenon DEF Reply

LEMMA InitCalls == ASSUME Init PROVE CallInv
<1>1. NoConn \in Connections
  BY Zenon DEF NoConn, Connections
<1>2. CallTypes
  BY <1>1 DEF Init, CallTypes
<1>3. \A b \in Bufs : th[b].at = "none" /\ ~Active(b)
  BY Zenon DEF Init, NoThread, Active
<1>4. /\ \A c \in Clients : client[c].pc = "idle"
      /\ \A s \in Socks : holders[s] = {} /\ sock[s] = NULL
      /\ \A k \in Conns : conn[k] = NoConn
      /\ mbox = <<>>
  BY Zenon DEF Init, Idle
<1>5. \A k \in Conns : Quiet(k)
  BY <1>4 DEF Quiet, NoConn
<1>6. Owners /\ Sockets /\ Answers
  BY <1>3, <1>4, Zenon DEF Owners, Sockets, Answers
<1>7. Completions
  BY <1>3, <1>4, <1>5 DEF Completions
<1> QED BY <1>2, <1>6, <1>7, Zenon DEF CallInv

LEMMA ClientsCalls ==
  ASSUME Inv, CallInv, NEW c \in Clients,
         ClientRecv(c) \/ Kill(c) \/ \E op \in Ops[c], s \in Socks : Call(c, op, s)
  PROVE  CallInv'
<1>1. /\ Types /\ UNCHANGED <<holders, th, sock, conn, mbox>>
      /\ client \in [Clients -> [pc : {"idle", "send", "sent", "recv", "dead"},
                                 op : AllOps \cup {NULL}, s : Socks]]
  BY Zenon DEF Inv, Types, ClientRecv, Kill, Call, connVars
<1>2. \A d \in Clients : d # c => client'[d] = client[d]
  BY <1>1, Zenon DEF ClientRecv, Kill, Call
<1>3. client'[c].pc = "send" /\ client'[c].op \notin NewOps => c \in holders[client'[c].s]
  <2>1. CASE ClientRecv(c) \/ Kill(c)
    BY <1>1, <2>1 DEF ClientRecv, Kill, Idle
  <2>2. ASSUME NEW op \in Ops[c], NEW s \in Socks, Call(c, op, s)
        PROVE  client'[c].op \notin NewOps => c \in holders[client'[c].s]
    <3>1. client'[c] = [pc |-> "send", op |-> op, s |-> s]
      BY <1>1, <2>2, Zenon DEF Call
    <3>2. op \notin NewOps => c \in holders[s]
      BY <2>2, Zenon DEF Call, NewOps
    <3> QED BY <3>1, <3>2
  <2> QED BY <2>1, <2>2, Zenon
<1>4. \A d \in Clients : client[d].pc = "send" /\ client[d].op \notin NewOps =>
        d \in holders[client[d].s]
  BY Zenon DEF CallInv, Owners
<1>5. \A d \in Clients : client'[d].pc = "send" /\ client'[d].op \notin NewOps =>
        d \in holders[client'[d].s]
  BY <1>2, <1>3, <1>4, Zenon
<1> QED BY <1>1, <1>5, ClientCalls, Zenon

LEMMA NextCalls == ASSUME Inv, CallInv, [Next]_vars, ~dangling' PROVE CallInv'
<1>0. Types
  BY Zenon DEF Inv
<1>1. CASE UNCHANGED vars \/ TimerStep \/ OutputStep \/ SendPacket \/ MainYield \/ Timers
           \/ GetBuffer \/ ReceiveTimer \/ ReplyTimer
  <2>1. UNCHANGED <<client, holders, th, sock, conn, mbox>>
    BY <1>1, Zenon DEF vars, envVars, connVars, TimerStep, OutputStep, SendPacket, MainYield, Timers,
       GetBuffer, ReceiveTimer, ReplyTimer
  <2> QED BY <1>0, <2>1, AllKept, Zenon
<1>2. CASE \E c \in Clients : Receive(c)
  BY <1>2, ReceiveCalls, Zenon
<1>3. CASE \E b \in Bufs : Start(b) \/ Wait(b) \/ Reply(b)
  BY <1>3, StartCalls, WaitsCalls, ReplyCalls, Zenon
<1>4. CASE Tcpip \/ \E k \in Conns : Abort(k)
  BY <1>4, TcpipCalls, AbortCalls, Zenon
<1>5. CASE \E c \in Clients : \/ ClientRecv(c) \/ Kill(c)
                              \/ \E op \in Ops[c], s \in Socks : Call(c, op, s)
  BY <1>5, ClientsCalls, Zenon
<1> QED BY <1>1, <1>2, <1>3, <1>4, <1>5, Zenon DEF Next, NsStep

\* What dangles is not taken back.
LEMMA DanglingStays == ASSUME [Next]_vars, dangling PROVE dangling'
<1>1. CASE UNCHANGED vars \/ TimerStep \/ OutputStep \/ SendPacket \/ MainYield \/ Timers
           \/ GetBuffer \/ ReceiveTimer \/ ReplyTimer \/ \E c \in Clients : Receive(c)
  BY <1>1, Zenon DEF vars, TimerStep, OutputStep, SendPacket, MainYield, Timers, GetBuffer,
     ReceiveTimer, ReplyTimer, Receive
<1>2. CASE \E b \in Bufs : Start(b) \/ Wait(b) \/ Reply(b)
  BY <1>2, Zenon DEF Start, Wait, Reply
<1>3. CASE Tcpip \/ \E k \in Conns : Abort(k)
  BY <1>3, Zenon DEF Tcpip, Abort
<1>4. CASE \E c \in Clients : \/ ClientRecv(c) \/ Kill(c)
                              \/ \E op \in Ops[c], s \in Socks : Call(c, op, s)
  BY <1>4, Zenon DEF ClientRecv, Kill, Call
<1> QED BY <1>1, <1>2, <1>3, <1>4, Zenon DEF Next, NsStep

\* Until shutdown() has left a client the number of a socket that another gets, or
\* listen() a freed pcb in a netconn, every thread in tcpip_apimsg() has exactly one
\* completion in its netconn: its message is in the mailbox, the signal is given, or
\* the connection's end will give it.  This holds for any number of clients, buffers
\* and sockets: no call of api_lib.c returns on the completion of another one, or
\* while its message, on its stack, is still in the mailbox.
THEOREM CompletionsMatch == Spec => []OneCompletionPerCall
<1>1. Init => Inv /\ CallInv
  BY InitInv, InitCalls, Zenon
<1>2. Inv /\ (~dangling => CallInv) /\ [Next]_vars => Inv' /\ (~dangling' => CallInv')
  BY NextInv, NextCalls, DanglingStays, Zenon
<1>3. Inv /\ (~dangling => CallInv) => OneCompletionPerCall
  <2>1. dangling => OneCompletionPerCall
    BY Zenon DEF OneCompletionPerCall
  <2> QED BY <2>1, OneEach, Zenon DEF Inv
<1> QED BY <1>1, <1>2, <1>3, PTL DEF Spec
=============================================================================
