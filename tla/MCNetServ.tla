----------------------------- MODULE MCNetServ ------------------------------
(* Two clients of the network server, with two sockets between them. *)
EXTENDS NetServ

CONSTANTS c1, c2

MCClients == {c1, c2}

\* One makes TCP connections and listens, the other uses a UDP socket.
MCOps == [c \in MCClients |->
            IF c = c1 THEN {"tcp", "connect", "listen", "recv", "accept", "close"}
                      ELSE {"udp", "bind", "send", "shutdown"}]

\* One alone with a TCP socket.
MCConnectOps == [c \in MCClients |-> IF c = c1 THEN {"tcp", "listen", "connect"} ELSE {}]

\* What the server does with memory that it has given away is not modelled;
\* after a panic only the others go on; and with a request that got no thread
\* the server goes on as with a buffer and a client fewer.
Explored == ~dangling /\ main.pc # "down" /\ \A b \in Bufs : th[b].at # "lost"
=============================================================================
