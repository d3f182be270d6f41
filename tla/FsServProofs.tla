---------------------------- MODULE FsServProofs ----------------------------
(***************************************************************************)
(* Proofs about the file server and its clients, for any number of         *)
(* clients, descriptors, entries of opentab and files.                     *)
(*                                                                         *)
(* The properties of FsServ follow from Inv, which adds what they rest on: *)
(* an entry that a client has mapped is mapped by the server as well, and  *)
(* its page carries the entry's id (PagesFit); a request that a client is  *)
(* about to send, or that the server works on, names a descriptor that is  *)
(* still open (CallsFit, ServerFits); the entry that serve_open() fills in *)
(* is nobody's (ServerFits).                                               *)
(***************************************************************************)
EXTENDS FsServ, FiniteSetTheorems, TLAPS

\* The page of the entry is mapped at a descriptor of a client.
Held(i) == \E c \in Clients, s \in Fds : fds[c][s] = i

\* The request's id is that of the entry at its descriptor.
Names(c, req) ==
  fds[c][req.fd] # -1 /\ opentab[fds[c][req.fd]].o_fileid = req.id

PagesFit ==
  /\ \A i \in Entries : opentab[i].fd_offset = moved[i]
  /\ \A c \in Clients, s \in Fds :
       fds[c][s] # -1 => /\ opentab[fds[c][s]].mapped
                         /\ opentab[fds[c][s]].id = opentab[fds[c][s]].o_fileid

CallsFit ==
  \A c \in Clients :
    /\ life[c] # "live" => call[c] = Idle
    /\ call[c].pc = "send" /\ call[c].op \in {"use", "close"} => Names(c, call[c])

Busy == srv.pc \in {"scan", "open", "work", "reply", "panic"}

ServerFits ==
  /\ ~Busy => srv.whom = Nobody /\ srv.r = "ok" /\ srv.pg = -1
  /\ Busy => srv.whom \in Clients /\ life[srv.whom] # "none"
  /\ srv.pc = "open" => srv.i \in Entries /\ opentab[srv.i].mapped /\ ~Held(srv.i)
  /\ srv.pc = "work" => /\ srv.req.op # "open"
                        /\ srv.req.op # "sync" /\ life[srv.whom] = "live"
                             => Names(srv.whom, srv.req)
  /\ srv.pc \in {"scan", "open", "work"} => srv.r = "ok" /\ srv.pg = -1
  /\ srv.pc = "reply" /\ srv.pg # -1 =>
       /\ opentab[srv.pg].mapped /\ opentab[srv.pg].id = opentab[srv.pg].o_fileid
       /\ opentab[srv.pg].o_file = srv.req.file

Inv ==
  /\ TypeOK /\ PagesFit /\ CallsFit /\ ServerFits
  /\ OwnFile /\ RequestsKnown /\ AnswerIsComing
-----------------------------------------------------------------------------
(* Counting and numbering. *)

\* The reference count tells the server whether a client has the page.
LEMMA InUseIsHeld ==
  ASSUME NEW i \in Entries
  PROVE  InUse(i) <=> opentab[i].mapped /\ Held(i)
<1> DEFINE H == {h \in Clients \X Fds : fds[h[1]][h[2]] = i}
<1>1. IsFiniteSet(H)
  <2>1. IsFiniteSet(Fds)
    BY FsServAssumption, FS_Interval DEF Fds
  <2>2. IsFiniteSet(Clients \X Fds)
    BY <2>1, FsServAssumption, FS_Product, Zenon
  <2> QED BY <2>2, FS_Subset, Zenon
<1>2. Cardinality(H) \in Nat /\ (Cardinality(H) = 0 <=> H = {})
  BY <1>1, FS_CardinalityType, FS_EmptySet, Zenon
<1>3. H # {} => Held(i)
  BY Zenon DEF Held
<1>4. ASSUME NEW c \in Clients, NEW s \in Fds, fds[c][s] = i
      PROVE  H # {}
  <2>1. <<c, s>> \in H
    BY <1>4, Zenon
  <2> QED BY <2>1, Zenon
<1>5. H # {} <=> Held(i)
  BY <1>3, <1>4, Zenon DEF Held
<1> HIDE DEF H
<1> QED BY <1>2, <1>5 DEF InUse, PageRef, H

LEMMA ModType == ASSUME NEW m \in Nat \ {0}, NEW x \in Nat PROVE x % m \in 0 .. m - 1
  BY Z3
LEMMA ModUnique ==
  ASSUME NEW m \in Nat \ {0}, NEW q \in Nat, NEW r \in 0 .. m - 1
  PROVE (m * q + r) % m = r
  BY Z3
LEMMA ModDiv ==
  ASSUME NEW m \in Nat \ {0}, NEW x \in Nat
  PROVE  x \div m \in Nat /\ x = m * (x \div m) + (x % m)
  BY Z3
LEMMA ModAdd == ASSUME NEW m \in Nat \ {0}, NEW x \in Nat PROVE (x + m) % m = x % m
<1>1. PICK q \in Nat, r \in 0 .. m - 1 : x = m * q + r /\ r = x % m
  BY ModDiv, ModType, Zenon
<1>2. x + m = m * (q + 1) + r
  BY <1>1, Z3
<1>3. (m * (q + 1) + r) % m = r
  BY ModUnique
<1> QED BY <1>1, <1>2, <1>3, Zenon
LEMMA ModSmall == ASSUME NEW s \in Nat \ {0}, NEW x \in 0 .. s - 1 PROVE x % s = x
  BY Z3
LEMMA ModBig == ASSUME NEW s \in Nat \ {0}, NEW x \in s .. 2 * s - 1 PROVE x % s = x - s
  BY Z3

\* An o_fileid that has advanced is a file id, and that of the same entry.
LEMMA NextMod ==
  ASSUME NEW m \in Nat \ {0}, NEW l \in Nat \ {0}, NEW x \in 0 .. m * l - 1
  PROVE  /\ (x + m) % (m * l) \in 0 .. m * l - 1
         /\ ((x + m) % (m * l)) % m = x % m
<1> DEFINE p == m * l
<1>1. p \in Nat \ {0} /\ m <= p
  BY Z3
<1>2. PICK q \in Nat, r \in 0 .. m - 1 : x = m * q + r /\ r = x % m
  BY ModDiv, ModType, <1>1
<1> HIDE DEF p
<1> SUFFICES /\ (x + m) % p \in 0 .. p - 1
             /\ ((x + m) % p) % m = x % m
  BY Zenon DEF p
<1>x. x \in 0 .. p - 1
  BY Zenon DEF p
<1>3. CASE x + m < p
  <2>1. x + m \in 0 .. p - 1
    BY <1>3, <1>1, <1>x
  <2>2. (x + m) % p = x + m
    BY <1>1, <2>1, ModSmall, Zenon
  <2>3. (x + m) % m = x % m
    <3>1. x \in Nat
      BY <1>x, <1>1
    <3> QED BY <3>1, ModAdd, Zenon
  <2> QED BY <2>1, <2>2, <2>3, Zenon
<1>4. CASE x + m >= p
  <2>1. x + m \in p .. 2 * p - 1
    BY <1>1, <1>4, <1>x
  <2>2. (x + m) % p = x + m - p
    BY <1>1, <2>1, ModBig
  <2>3. q = l - 1
    BY <1>2, <1>4, <1>x, Z3 DEF p
  <2>4. x + m - p = r
    BY <1>2, <2>3, Z3 DEF p
  <2>5. r % m = r
    BY ModSmall, Zenon
  <2>6. (x + m) % p = r
    BY <2>2, <2>4, Zenon
  <2>7. r \in 0 .. p - 1
    BY <1>1
  <2> QED BY <1>2, <2>5, <2>6, <2>7, Zenon
<1> QED BY <1>1, <1>3, <1>4, <1>x
-----------------------------------------------------------------------------
(* The clients. *)

\* What a step of the clients alone must satisfy to preserve Inv: a descriptor
\* is a copy of one that was there; the client the server works for keeps its
\* descriptors as long as it lives.
LEMMA ClientStep ==
  ASSUME Inv, TypeOK', CallsFit', AnswerIsComing',
         UNCHANGED <<opentab, srv, moved>>,
         \A c \in Clients : life[c] # "none" => life'[c] # "none",
         \A c \in Clients : life[c] = "dead" => life'[c] = "dead",
         \A c \in Clients, s \in Fds : fds'[c][s] # -1 =>
           \E d \in Clients, t \in Fds : /\ fds[d][t] = fds'[c][s]
                                         /\ opened[d][t] = opened'[c][s],
         srv.whom \in Clients /\ life'[srv.whom] = "live" =>
           life[srv.whom] = "live" /\ fds'[srv.whom] = fds[srv.whom]
  PROVE  Inv'
<1>1. PagesFit'
  BY DEF Inv, PagesFit
<1>2. OwnFile'
  BY DEF Inv, OwnFile
<1>3. ServerFits'
  <2>1. ASSUME srv.pc = "open"
        PROVE  ~Held(srv.i)'
    <3>1. ~Held(srv.i) /\ srv.i \in Entries
      BY <2>1, Zenon DEF Inv, ServerFits
    <3>2. srv.i # -1
      BY <3>1, FsServAssumption DEF Entries
    <3> QED BY <3>1, <3>2 DEF Held
  <2>2. ASSUME srv.pc = "work", srv.req.op # "sync", life'[srv.whom] = "live"
        PROVE  Names(srv.whom, srv.req)'
    BY <2>2, Zenon DEF Inv, ServerFits, Busy, Names
  <2> QED BY <2>1, <2>2, Zenon DEF Inv, ServerFits, Busy
<1>4. RequestsKnown'
  <2>1. srv.pc = "panic" => srv.whom \in Clients
    BY Zenon DEF Inv, ServerFits, Busy
  <2>2. srv.r = "unknown" => srv.whom \in Clients
    BY Zenon DEF Inv, ServerFits, Busy
  <2> QED BY <2>1, <2>2, Zenon DEF Inv, RequestsKnown
<1> QED BY <1>1, <1>2, <1>3, <1>4, Zenon DEF Inv

LEMMA IdleType == Idle \in Calls
<1>1. 0 \in Fds /\ 0 \in FileIds
  <2>1. MAXOPEN * IdLaps \in Nat \ {0}
    BY FsServAssumption, Z3
  <2> QED BY <2>1, FsServAssumption DEF Fds, FileIds
<1> QED BY <1>1, Zenon DEF Idle, Calls

\* A client that makes a request was idle, so the server does not work for it.
LEMMA RequestStep ==
  ASSUME Inv, NEW c \in Clients, NEW op \in {"open", "use", "close", "sync"},
         NEW s \in Fds, NEW f \in Files \cup {NoFile}, NEW id \in FileIds,
         Request(c, op, s, f, id),
         op \in {"use", "close"} => fds[c][s] # -1 /\ id = opentab[fds[c][s]].o_fileid
  PROVE  Inv'
<1> DEFINE new == [pc |-> "send", op |-> op, fd |-> s, file |-> f, id |-> id]
<1>1. new \in Calls
  BY Zenon DEF Calls
<1>2. /\ life[c] = "live" /\ call[c].pc = "idle" /\ new.pc = "send" /\ new.op = op
      /\ new.fd = s /\ new.id = id
      /\ call' = [call EXCEPT ![c] = new]
      /\ UNCHANGED <<life, fds, opened, opentab, srv, moved>>
      /\ cow' \subseteq cow
  BY Zenon DEF Request, At
<1> HIDE DEF new
<1>3. TypeOK'
  BY <1>1, <1>2, Zenon DEF Inv, TypeOK
<1>4. call'[c] = new /\ \A d \in Clients : d # c => call'[d] = call[d]
  BY <1>2, Zenon DEF Inv, TypeOK
<1>5. CallsFit'
  BY <1>2, <1>4 DEF Inv, CallsFit, Names
<1>6. AnswerIsComing'
  BY <1>2, <1>4 DEF Inv, AnswerIsComing
<1> QED BY <1>2, <1>3, <1>5, <1>6, ClientStep, Zenon

LEMMA OpenInv ==
  ASSUME Inv, NEW c \in Clients, NEW f \in Files, Open(c, f)
  PROVE  Inv'
<1>1. PICK s \in Fds : Request(c, "open", s, f, 0)
  BY Zenon DEF Open
<1>2. 0 \in FileIds
  BY IdleType, Zenon DEF Idle, Calls
<1> QED BY <1>1, <1>2, RequestStep, Zenon

LEMMA OnFileInv ==
  ASSUME Inv, NEW c \in Clients, NEW op \in {"use", "close"}, NEW s \in Fds,
         OnFile(c, op, s)
  PROVE  Inv'
<1>1. fds[c][s] \in Entries
  BY DEF Inv, TypeOK, OnFile
<1>2. opentab[fds[c][s]].id \in FileIds
  BY <1>1, Zenon DEF Inv, TypeOK, OpenFiles
<1>3. opentab[fds[c][s]].id = opentab[fds[c][s]].o_fileid
  BY Zenon DEF Inv, PagesFit, OnFile
<1> QED BY <1>2, <1>3, RequestStep, Zenon DEF OnFile

LEMMA SyncCallInv ==
  ASSUME Inv, NEW c \in Clients, SyncCall(c)
  PROVE  Inv'
<1>1. 0 \in FileIds /\ 0 \in Fds
  BY IdleType, Zenon DEF Idle, Calls
<1> QED BY <1>1, RequestStep, Zenon DEF SyncCall

LEMMA WaitInv ==
  ASSUME Inv, NEW c \in Clients, Wait(c)
  PROVE  Inv'
<1>1. /\ life[c] = "live" /\ call[c].pc = "sent"
      /\ call' = [call EXCEPT ![c].pc = "recv"]
      /\ UNCHANGED <<life, fds, cow, opened, opentab, srv, moved>>
  BY Zenon DEF Wait, At
<1>2. TypeOK'
  BY <1>1, ZenonT(30) DEF Inv, TypeOK, Calls
<1>3. call'[c].pc = "recv" /\ \A d \in Clients : d # c => call'[d] = call[d]
  BY <1>1, Zenon DEF Inv, TypeOK, Calls
<1>4. CallsFit'
  BY <1>1, <1>3 DEF Inv, CallsFit, Names
<1>5. AnswerIsComing'
  BY <1>1, <1>3, Zenon DEF Inv, AnswerIsComing
<1> QED BY <1>1, <1>2, <1>4, <1>5, ClientStep, Zenon

LEMMA CloseUnmapInv ==
  ASSUME Inv, NEW c \in Clients, CloseUnmap(c)
  PROVE  Inv'
<1> DEFINE s == call[c].fd
<1>1. /\ life[c] = "live" /\ call[c].pc = "unmap"
      /\ fds' = [fds EXCEPT ![c][s] = -1]
      /\ opened' = [opened EXCEPT ![c][s] = NoFile]
      /\ call' = [call EXCEPT ![c] = Idle]
      /\ UNCHANGED <<life, cow, opentab, srv, moved>>
  BY Zenon DEF CloseUnmap, At
<1>2. s \in Fds
  BY Zenon DEF Inv, TypeOK, Calls
<1> HIDE DEF s
<1>3. TypeOK'
  BY <1>1, <1>2, IdleType, Zenon DEF Inv, TypeOK
<1>4. /\ call'[c] = Idle /\ Idle.pc = "idle"
      /\ \A d \in Clients : d # c => call'[d] = call[d] /\ fds'[d] = fds[d]
      /\ \A d \in Clients, t \in Fds :
           fds'[d][t] = -1 \/ (fds'[d][t] = fds[d][t] /\ opened'[d][t] = opened[d][t])
  BY <1>1, <1>2, Zenon DEF Inv, TypeOK, Idle
<1>5. CallsFit'
  BY <1>1, <1>4 DEF Inv, CallsFit, Names
<1>6. AnswerIsComing'
  BY <1>1, <1>4 DEF Inv, AnswerIsComing
<1>7. srv.whom # c
  BY <1>1, Zenon DEF Inv, AnswerIsComing
<1> QED BY <1>1, <1>3, <1>4, <1>5, <1>6, <1>7, ClientStep

LEMMA DupInv ==
  ASSUME Inv, NEW c \in Clients, NEW s \in Fds, NEW t \in Fds, Dup(c, s, t)
  PROVE  Inv'
<1>1. /\ life[c] = "live" /\ call[c].pc = "idle"
      /\ fds' = [fds EXCEPT ![c][t] = fds[c][s]]
      /\ opened' = [opened EXCEPT ![c][t] = opened[c][s]]
      /\ UNCHANGED <<life, call, cow, opentab, srv, moved>>
  BY Zenon DEF Dup, At
<1>2. TypeOK'
  BY <1>1 DEF Inv, TypeOK
<1>3. /\ \A d \in Clients : d # c => fds'[d] = fds[d]
      /\ \A d \in Clients, u \in Fds :
           \/ fds'[d][u] = fds[d][u] /\ opened'[d][u] = opened[d][u]
           \/ fds'[d][u] = fds[d][s] /\ opened'[d][u] = opened[d][s]
  BY <1>1, Zenon DEF Inv, TypeOK
<1>4. CallsFit'
  BY <1>1, <1>3 DEF Inv, CallsFit, Names
<1>5. AnswerIsComing'
  BY <1>1, Zenon DEF Inv, AnswerIsComing
<1>6. srv.whom # c
  BY <1>1, Zenon DEF Inv, AnswerIsComing
<1> QED BY <1>1, <1>2, <1>3, <1>4, <1>5, <1>6, ClientStep

LEMMA ForkInv ==
  ASSUME Inv, NEW c \in Clients, NEW d \in Clients, Fork(c, d)
  PROVE  Inv'
<1>1. /\ life[c] = "live" /\ life[d] = "none"
      /\ life' = [life EXCEPT ![d] = "live"]
      /\ fds' = [fds EXCEPT ![d] = fds[c]]
      /\ opened' = [opened EXCEPT ![d] = opened[c]]
      /\ cow' = cow \cup {c, d}
      /\ UNCHANGED <<call, opentab, srv, moved>>
  BY Zenon DEF Fork, At
<1>2. TypeOK'
  BY <1>1, Zenon DEF Inv, TypeOK
<1>3. /\ life'[d] = "live" /\ fds'[d] = fds[c] /\ opened'[d] = opened[c]
      /\ \A e \in Clients : e # d => /\ life'[e] = life[e] /\ fds'[e] = fds[e]
                                     /\ opened'[e] = opened[e]
  BY <1>1, Zenon DEF Inv, TypeOK
<1>4. call[d] = Idle /\ Idle.pc = "idle"
  BY <1>1, Zenon DEF Inv, CallsFit, Idle
<1>5. srv.whom # d
  BY <1>1, FsServAssumption, Zenon DEF Inv, ServerFits
<1>6. CallsFit'
  BY <1>1, <1>3, <1>4 DEF Inv, CallsFit, Names
<1>7. AnswerIsComing'
  BY <1>1, <1>3, <1>4, <1>5 DEF Inv, AnswerIsComing
<1>8. \A e \in Clients, s \in Fds : fds'[e][s] # -1 =>
        \E b \in Clients, t \in Fds : /\ fds[b][t] = fds'[e][s]
                                      /\ opened[b][t] = opened'[e][s]
  BY <1>3
<1> QED BY <1>1, <1>2, <1>3, <1>5, <1>6, <1>7, <1>8, ClientStep, Zenon

LEMMA DieInv ==
  ASSUME Inv, NEW c \in Clients, Die(c)
  PROVE  Inv'
<1>1. /\ life[c] = "live"
      /\ life' = [life EXCEPT ![c] = "dead"]
      /\ fds' = [fds EXCEPT ![c] = [s \in Fds |-> -1]]
      /\ opened' = [opened EXCEPT ![c] = [s \in Fds |-> NoFile]]
      /\ call' = [call EXCEPT ![c] = Idle]
      /\ cow' = cow \ {c}
      /\ UNCHANGED <<opentab, srv, moved>>
  BY Zenon DEF Die
<1>2. TypeOK'
  BY <1>1, IdleType, Zenon DEF Inv, TypeOK
<1>3. /\ life'[c] = "dead" /\ call'[c] = Idle /\ Idle.pc = "idle"
      /\ \A s \in Fds : fds'[c][s] = -1
      /\ \A e \in Clients : e # c => /\ life'[e] = life[e] /\ fds'[e] = fds[e]
                                     /\ opened'[e] = opened[e] /\ call'[e] = call[e]
  BY <1>1, Zenon DEF Inv, TypeOK, Idle
<1>4. CallsFit'
  BY <1>1, <1>3 DEF Inv, CallsFit, Names
<1>5. AnswerIsComing'
  BY <1>1, <1>3 DEF Inv, AnswerIsComing
<1>6. \A e \in Clients, s \in Fds : fds'[e][s] # -1 =>
        \E b \in Clients, t \in Fds : /\ fds[b][t] = fds'[e][s]
                                      /\ opened[b][t] = opened'[e][s]
  BY <1>3
<1> QED BY <1>1, <1>2, <1>3, <1>4, <1>5, <1>6, ClientStep, Zenon

\* The server takes the request as it was sent: the descriptor is still open.
LEMMA SendInv ==
  ASSUME Inv, NEW c \in Clients, Send(c)
  PROVE  Inv'
<1>1. /\ life[c] = "live" /\ call[c].pc = "send" /\ srv.pc = "recv"
      /\ UNCHANGED <<life, fds, cow, opened, opentab, moved>>
  BY Zenon DEF Send, At
<1>2. call[c] \in Calls /\ srv.whom = Nobody /\ srv.whom \notin Clients
  BY <1>1, FsServAssumption, Zenon DEF Inv, TypeOK, ServerFits, Busy
<1>3. CASE c \in cow
  <2>1. call' = [call EXCEPT ![c].pc = "panic"] /\ UNCHANGED srv
    BY <1>3, Zenon DEF Send
  <2>2. TypeOK'
    BY <1>1, <2>1, ZenonT(30) DEF Inv, TypeOK, Calls
  <2>3. call'[c].pc = "panic" /\ \A d \in Clients : d # c => call'[d] = call[d]
    BY <2>1, Zenon DEF Inv, TypeOK, Calls
  <2>4. CallsFit'
    BY <1>1, <2>3 DEF Inv, CallsFit, Names
  <2>5. AnswerIsComing'
    BY <1>1, <1>2, <2>1, <2>3, Zenon DEF Inv, AnswerIsComing
  <2> QED BY <1>1, <1>2, <2>1, <2>2, <2>4, <2>5, ClientStep, Zenon
<1>4. CASE c \notin cow
  <2> DEFINE p == IF call[c].op = "open" THEN "scan" ELSE "work"
  <2>1. /\ call' = [call EXCEPT ![c] = [Idle EXCEPT !.pc = "sent"]]
        /\ srv' = [Receiving EXCEPT !.whom = c, !.req = call[c], !.pc = p]
    BY <1>4, Zenon DEF Send
  <2>2. [Idle EXCEPT !.pc = "sent"] \in Calls
    BY IdleType, Zenon DEF Calls
  <2>3. /\ srv'.pc = p /\ srv'.whom = c /\ srv'.req = call[c] /\ srv'.i = 0
        /\ srv'.r = "ok" /\ srv'.pg = -1 /\ srv' \in ServerStates
    <3>1. p \in {"scan", "work"}
      BY Zenon
    <3> HIDE DEF p
    <3>2. srv' = [pc |-> p, whom |-> c, req |-> call[c], i |-> 0, r |-> "ok", pg |-> -1]
      BY <2>1, Zenon DEF Receiving
    <3>3. 0 \in 0 .. MAXOPEN
      BY FsServAssumption
    <3> QED BY <1>2, <3>1, <3>2, <3>3, Zenon DEF ServerStates
  <2>4. call'[c].pc = "sent" /\ \A d \in Clients : d # c => call'[d] = call[d]
    BY <2>1, Zenon DEF Inv, TypeOK, Idle
  <2>5. TypeOK'
    BY <1>1, <2>1, <2>2, <2>3, Zenon DEF Inv, TypeOK
  <2>6. PagesFit' /\ OwnFile'
    BY <1>1, Zenon DEF Inv, PagesFit, OwnFile
  <2>7. CallsFit'
    BY <1>1, <2>4 DEF Inv, CallsFit, Names
  <2>8. Names(c, call[c]) \/ call[c].op \notin {"use", "close"}
    BY <1>1, Zenon DEF Inv, CallsFit
  <2>9. ServerFits'
    BY <1>1, <1>2, <2>3, <2>8 DEF ServerFits, Busy, Names, Calls
  <2>10. RequestsKnown'
    BY <2>3, Zenon DEF RequestsKnown
  <2>11. AnswerIsComing'
    BY <1>1, <1>2, <2>3, <2>4, Zenon DEF Inv, AnswerIsComing
  <2> QED BY <2>5, <2>6, <2>7, <2>9, <2>10, <2>11, Zenon DEF Inv
<1> QED BY <1>3, <1>4, Zenon
-----------------------------------------------------------------------------
(* The server. *)

\* What a step of the server alone must satisfy to preserve Inv: an entry that
\* a client holds keeps its file and its ids.
LEMMA TableStep ==
  ASSUME Inv, UNCHANGED clientVars,
         opentab' \in [Entries -> OpenFiles], moved' \in [Entries -> 0 .. MaxOffset],
         srv' \in ServerStates, srv'.whom = srv.whom,
         \A i \in Entries : /\ opentab'[i].o_fileid % MAXOPEN = i
                            /\ opentab'[i].fd_offset = moved'[i],
         \A i \in Entries : Held(i) => /\ opentab'[i].mapped = opentab[i].mapped
                                       /\ opentab'[i].id = opentab[i].id
                                       /\ opentab'[i].o_fileid = opentab[i].o_fileid
                                       /\ opentab'[i].o_file = opentab[i].o_file,
         ServerFits', RequestsKnown'
  PROVE  Inv'
<1>1. UNCHANGED <<life, fds, call, cow, opened>>
  BY Zenon DEF clientVars
<1>2. TypeOK'
  BY <1>1, Zenon DEF Inv, TypeOK
<1>3. ASSUME NEW c \in Clients, NEW s \in Fds, fds[c][s] # -1
      PROVE  fds[c][s] \in Entries /\ Held(fds[c][s])
  BY <1>3 DEF Inv, TypeOK, Held
<1>4. PagesFit' /\ OwnFile'
  BY <1>1, <1>3 DEF Inv, PagesFit, OwnFile
<1>5. CallsFit'
  <2>1. ASSUME NEW c \in Clients, call[c].pc = "send", call[c].op \in {"use", "close"}
        PROVE  Names(c, call[c])'
    <3>1. Names(c, call[c]) /\ call[c].fd \in Fds
      BY <2>1, Zenon DEF Inv, CallsFit, TypeOK, Calls
    <3> QED BY <1>1, <1>3, <3>1, Zenon DEF Names
  <2> QED BY <1>1, <2>1, Zenon DEF Inv, CallsFit
<1>6. AnswerIsComing'
  BY <1>1 DEF Inv, AnswerIsComing
<1> QED BY <1>2, <1>4, <1>5, <1>6, Zenon DEF Inv

\* Steps that leave the table alone.
LEMMA ServerStep ==
  ASSUME Inv, UNCHANGED <<clientVars, opentab, moved>>,
         srv' \in ServerStates, srv'.whom = srv.whom,
         ServerFits', RequestsKnown'
  PROVE  Inv'
<1>1. /\ opentab' \in [Entries -> OpenFiles] /\ moved' \in [Entries -> 0 .. MaxOffset]
      /\ \A i \in Entries : /\ opentab'[i].o_fileid % MAXOPEN = i
                            /\ opentab'[i].fd_offset = moved'[i]
  BY Zenon DEF Inv, TypeOK, PagesFit
<1> QED BY <1>1, TableStep, Zenon

\* The server's answer, with or without an Fd page.
LEMMA AnswerType ==
  ASSUME Inv, NEW r \in {"ok", "error", "unknown"}, NEW pg \in Entries \cup {-1},
         Answer(r, pg)
  PROVE  /\ srv' \in ServerStates
         /\ srv'.pc = "reply" /\ srv'.r = r /\ srv'.pg = pg
         /\ srv'.whom = srv.whom /\ srv'.req = srv.req
  BY Zenon DEF Answer, Inv, TypeOK, ServerStates

LEMMA AnswerStep ==
  ASSUME Inv, NEW r \in {"ok", "error", "unknown"}, Answer(r, -1), Busy,
         UNCHANGED <<life, fds>>,
         r = "unknown" => life[srv.whom] = "dead"
  PROVE  ServerFits' /\ RequestsKnown'
<1>1. /\ srv'.pc = "reply" /\ srv'.r = r /\ srv'.pg = -1 /\ srv'.whom = srv.whom
  BY AnswerType, Zenon
<1>2. ServerFits'
  BY <1>1, Zenon DEF Inv, ServerFits, Busy
<1> QED BY <1>1, <1>2, Zenon DEF RequestsKnown

LEMMA PlainAnswer ==
  ASSUME Inv, NEW r \in {"ok", "error", "unknown"}, Answer(r, -1), Busy,
         UNCHANGED <<clientVars, opentab, moved>>,
         r = "unknown" => life[srv.whom] = "dead"
  PROVE  Inv'
<1>1. UNCHANGED <<life, fds>>
  BY Zenon DEF clientVars
<1> QED BY <1>1, AnswerType, AnswerStep, ServerStep, Zenon

LEMMA ScanSkipInv ==
  ASSUME Inv, ScanSkip
  PROVE  Inv'
<1>1. srv.i + 1 \in 0 .. MAXOPEN
  BY FsServAssumption DEF ScanSkip, Entries
<1>2. /\ srv' \in ServerStates /\ srv'.pc = "scan" /\ srv'.whom = srv.whom
      /\ srv'.r = srv.r /\ srv'.pg = srv.pg
  BY <1>1, Zenon DEF ScanSkip, Inv, TypeOK, ServerStates
<1>3. ServerFits'
  BY <1>2, Zenon DEF ScanSkip, clientVars, Inv, ServerFits, Busy
<1>4. RequestsKnown'
  BY <1>2, Zenon DEF ScanSkip, clientVars, Inv, RequestsKnown
<1> QED BY <1>2, <1>3, <1>4, ServerStep, Zenon DEF ScanSkip

LEMMA NextIdType ==
  ASSUME Inv, NEW i \in Entries
  PROVE  NextId(i) \in FileIds /\ NextId(i) % MAXOPEN = i
<1>1. opentab[i].o_fileid \in 0 .. MAXOPEN * IdLaps - 1 /\ opentab[i].o_fileid % MAXOPEN = i
  BY Zenon DEF Inv, TypeOK, OpenFiles, FileIds
<1>2. MAXOPEN \in Nat \ {0} /\ IdLaps \in Nat \ {0}
  BY FsServAssumption, Zenon
<1> DEFINE x == opentab[i].o_fileid
<1>3. /\ (x + MAXOPEN) % (MAXOPEN * IdLaps) \in 0 .. MAXOPEN * IdLaps - 1
      /\ ((x + MAXOPEN) % (MAXOPEN * IdLaps)) % MAXOPEN = x % MAXOPEN
  <2> HIDE DEF x
  <2> SUFFICES x \in 0 .. MAXOPEN * IdLaps - 1
    BY <1>2, NextMod, Zenon
  <2> QED BY <1>1, Zenon DEF x
<1> QED BY <1>1, <1>3, Zenon DEF NextId, FileIds

\* The entry that is taken is nobody's: a page that a client has mapped counts
\* more than the server's own reference.
LEMMA ScanTakeInv ==
  ASSUME Inv, ScanTake
  PROVE  Inv'
<1> DEFINE i == srv.i
<1>1. /\ srv.pc = "scan" /\ i \in Entries /\ ~InUse(i)
      /\ opentab' = [opentab EXCEPT ![i] = [opentab[i] EXCEPT
                       !.o_fileid = NextId(i), !.mapped = TRUE, !.id = 0, !.fd_offset = 0]]
      /\ moved' = [moved EXCEPT ![i] = 0]
      /\ UNCHANGED <<life, fds>> /\ UNCHANGED clientVars
  BY Zenon DEF Inv, TypeOK, ScanTake, TakeEntry, clientVars
<1>2. ~Held(i)
  <2>1. Held(i) => opentab[i].mapped
    BY <1>1, FsServAssumption DEF Inv, PagesFit, Held, Entries
  <2> QED BY <1>1, <2>1, InUseIsHeld, Zenon
<1>3. /\ 0 \in FileIds /\ 0 \in 0 .. MaxOffset
      /\ NextId(i) \in FileIds /\ NextId(i) % MAXOPEN = i
  <2>1. 0 \in FileIds
    BY IdleType, Zenon DEF Idle, Calls
  <2> QED BY <1>1, <2>1, NextIdType, FsServAssumption
<1>4. /\ opentab' \in [Entries -> OpenFiles] /\ moved' \in [Entries -> 0 .. MaxOffset]
      /\ opentab'[i].o_fileid = NextId(i) /\ opentab'[i].mapped
      /\ opentab'[i].fd_offset = 0 /\ moved'[i] = 0
      /\ \A j \in Entries : j # i => opentab'[j] = opentab[j] /\ moved'[j] = moved[j]
  <2> DEFINE e == [opentab[i] EXCEPT !.o_fileid = NextId(i), !.mapped = TRUE,
                                     !.id = 0, !.fd_offset = 0]
  <2>1. opentab \in [Entries -> OpenFiles] /\ moved \in [Entries -> 0 .. MaxOffset]
    BY Zenon DEF Inv, TypeOK
  <2>2. opentab[i] \in OpenFiles
    BY <1>1, <2>1, Zenon
  <2>3. e \in OpenFiles /\ e.o_fileid = NextId(i) /\ e.mapped /\ e.fd_offset = 0
    BY <1>3, <2>2, Zenon DEF OpenFiles
  <2>4. opentab' = [opentab EXCEPT ![i] = e] /\ moved' = [moved EXCEPT ![i] = 0] /\ i \in Entries
    BY <1>1, Zenon
  <2> HIDE DEF e, i
  <2> QED BY <1>3, <2>1, <2>3, <2>4, Zenon
<1>5. \A j \in Entries : /\ opentab'[j].o_fileid % MAXOPEN = j
                         /\ opentab'[j].fd_offset = moved'[j]
  BY <1>3, <1>4 DEF Inv, TypeOK, PagesFit
<1>6. /\ srv' \in ServerStates /\ srv'.whom = srv.whom
      /\ ServerFits' /\ RequestsKnown'
  <2>1. CASE Negative(NextId(i))
    <3>1. Answer("error", -1)
      BY <2>1, Zenon DEF ScanTake
    <3>2. Busy
      BY <1>1, Zenon DEF Busy
    <3> QED BY <1>1, <3>1, <3>2, AnswerType, AnswerStep, Zenon
  <2>2. CASE ~Negative(NextId(i))
    <3>1. srv' = [srv EXCEPT !.pc = "open"]
      BY <2>2, Zenon DEF ScanTake
    <3>2. /\ srv' \in ServerStates /\ srv'.pc = "open" /\ srv'.whom = srv.whom
          /\ srv'.i = i /\ srv'.r = srv.r /\ srv'.pg = srv.pg
      BY <3>1, Zenon DEF Inv, TypeOK, ServerStates
    <3>3. ~Held(i)'
      BY <1>1, <1>2, <3>2, Zenon DEF Held
    <3>4. ServerFits'
      BY <1>1, <1>4, <3>2, <3>3, Zenon DEF Inv, ServerFits, Busy
    <3>5. RequestsKnown'
      BY <1>1, <3>2, Zenon DEF Inv, RequestsKnown
    <3> QED BY <3>2, <3>4, <3>5, Zenon
  <2> QED BY <2>1, <2>2, Zenon
<1>7. \A j \in Entries : Held(j) => opentab'[j] = opentab[j]
  BY <1>2, <1>4, Zenon
<1> QED BY <1>1, <1>4, <1>5, <1>6, <1>7, TableStep, Zenon

LEMMA ServeOpenInv ==
  ASSUME Inv, ServeOpen
  PROVE  Inv'
<1> DEFINE i == srv.i
<1>1. /\ srv.pc = "open" /\ i \in Entries /\ opentab[i].mapped /\ ~Held(i)
      /\ srv.r = "ok" /\ srv.pg = -1 /\ Busy
      /\ UNCHANGED <<life, fds>> /\ UNCHANGED clientVars /\ UNCHANGED moved
  BY Zenon DEF ServeOpen, Inv, ServerFits, Busy, clientVars
<1>2. CASE Answer("error", -1) /\ UNCHANGED opentab
  BY <1>1, <1>2, PlainAnswer, Zenon
<1>3. CASE /\ opentab' = [opentab EXCEPT ![i].o_file = srv.req.file,
                                         ![i].id = opentab[i].o_fileid]
           /\ Answer("ok", i)
  <2>1. srv.req.file \in Files \cup {NoFile}
    BY Zenon DEF Inv, TypeOK, ServerStates, Calls
  <2>2. /\ opentab' \in [Entries -> OpenFiles]
        /\ opentab'[i].o_fileid = opentab[i].o_fileid
        /\ opentab'[i].id = opentab[i].o_fileid /\ opentab'[i].o_file = srv.req.file
        /\ opentab'[i].mapped = opentab[i].mapped
        /\ opentab'[i].fd_offset = opentab[i].fd_offset
        /\ \A j \in Entries : j # i => opentab'[j] = opentab[j]
    BY <1>1, <1>3, <2>1, Zenon DEF Inv, TypeOK, OpenFiles
  <2>3. \A j \in Entries : /\ opentab'[j].o_fileid % MAXOPEN = j
                           /\ opentab'[j].fd_offset = moved'[j]
    BY <1>1, <2>2 DEF Inv, TypeOK, PagesFit
  <2>4. /\ srv' \in ServerStates /\ srv'.pc = "reply" /\ srv'.r = "ok" /\ srv'.pg = i
        /\ srv'.whom = srv.whom /\ srv'.req = srv.req
    BY <1>1, <1>3, AnswerType, Zenon
  <2>5. ServerFits'
    BY <1>1, <2>2, <2>4, Zenon DEF Inv, ServerFits, Busy
  <2>6. RequestsKnown'
    BY <2>4, Zenon DEF RequestsKnown
  <2>7. moved' \in [Entries -> 0 .. MaxOffset]
    BY <1>1, Zenon DEF Inv, TypeOK
  <2>8. \A j \in Entries : Held(j) => opentab'[j] = opentab[j]
    BY <1>1, <2>2, Zenon
  <2> QED BY <1>1, <2>2, <2>3, <2>4, <2>5, <2>6, <2>7, <2>8, TableStep, Zenon
<1> QED BY <1>2, <1>3, Zenon DEF ServeOpen

\* A request that names an open descriptor of a live client is found.
LEMMA KnownIsFound ==
  ASSUME Inv, srv.pc = "work", srv.req.op # "sync", ~Found(srv.req.id)
  PROVE  life[srv.whom] = "dead"
<1>1. srv.whom \in Clients /\ life[srv.whom] \in {"live", "dead"}
  BY Zenon DEF Inv, TypeOK, ServerFits, Busy
<1>2. ASSUME life[srv.whom] = "live"
      PROVE  FALSE
  <2> DEFINE j == fds[srv.whom][srv.req.fd]
  <2>1. srv.req.fd \in Fds
    BY Zenon DEF Inv, TypeOK, ServerStates, Calls
  <2>2. j # -1 /\ opentab[j].o_fileid = srv.req.id
    BY <1>2, Zenon DEF Inv, ServerFits, Names
  <2>3. j \in Entries /\ Held(j) /\ opentab[j].mapped
    <3>1. j \in Entries
      BY <1>1, <2>1, <2>2 DEF Inv, TypeOK
    <3>2. opentab[j].mapped
      BY <1>1, <2>1, <2>2, Zenon DEF Inv, PagesFit
    <3> QED BY <1>1, <2>1, <3>1, <3>2, Zenon DEF Held
  <2>4. srv.req.id % MAXOPEN = j
    BY <2>2, <2>3, Zenon DEF Inv, TypeOK
  <2> QED BY <2>2, <2>3, <2>4, InUseIsHeld, Zenon DEF Found
<1> QED BY <1>1, <1>2, Zenon

LEMMA ServeUseInv ==
  ASSUME Inv, ServeUse
  PROVE  Inv'
<1> DEFINE i == srv.req.id % MAXOPEN
<1>1. /\ srv.pc = "work" /\ Answer("ok", -1) /\ Busy
      /\ UNCHANGED <<life, fds>> /\ UNCHANGED clientVars
  BY Zenon DEF ServeUse, Busy, clientVars
<1>2. i \in Entries
  <2>1. srv.req.id \in FileIds
    BY Zenon DEF Inv, TypeOK, ServerStates, Calls
  <2>2. srv.req.id \in Nat
    <3>1. MAXOPEN * IdLaps \in Nat
      BY FsServAssumption, Z3
    <3> QED BY <2>1, <3>1 DEF FileIds
  <2> QED BY <2>2, FsServAssumption, ModType, Zenon DEF Entries
<1>3. PICK n \in 0 .. MaxOffset - opentab[i].fd_offset :
        /\ opentab' = [opentab EXCEPT ![i].fd_offset = opentab[i].fd_offset + n]
        /\ moved' = [moved EXCEPT ![i] = moved[i] + n]
  BY <1>2, Zenon DEF ServeUse, Inv, TypeOK
<1> HIDE DEF i
<1>4. opentab[i] \in OpenFiles /\ moved[i] \in 0 .. MaxOffset /\ opentab[i].fd_offset = moved[i]
  BY <1>2, Zenon DEF Inv, TypeOK, PagesFit
<1>5. opentab[i].fd_offset + n \in 0 .. MaxOffset /\ moved[i] + n \in 0 .. MaxOffset
  <2>1. opentab[i].fd_offset \in 0 .. MaxOffset
    BY <1>4, Zenon DEF OpenFiles
  <2> QED BY <1>4, <2>1, FsServAssumption
<1>6. /\ opentab' \in [Entries -> OpenFiles] /\ moved' \in [Entries -> 0 .. MaxOffset]
      /\ opentab'[i] = [opentab[i] EXCEPT !.fd_offset = opentab[i].fd_offset + n]
      /\ moved'[i] = moved[i] + n
      /\ \A j \in Entries : j # i => opentab'[j] = opentab[j] /\ moved'[j] = moved[j]
  BY <1>2, <1>3, <1>5, Zenon DEF Inv, TypeOK, OpenFiles
<1>7. /\ opentab'[i].fd_offset = opentab[i].fd_offset + n
      /\ opentab'[i].o_fileid = opentab[i].o_fileid /\ opentab'[i].id = opentab[i].id
      /\ opentab'[i].mapped = opentab[i].mapped /\ opentab'[i].o_file = opentab[i].o_file
  BY <1>4, <1>6, Zenon DEF OpenFiles
<1>8. \A j \in Entries : /\ opentab'[j].o_fileid % MAXOPEN = j
                         /\ opentab'[j].fd_offset = moved'[j]
  <2>1. \A j \in Entries : /\ opentab[j].o_fileid % MAXOPEN = j
                           /\ opentab[j].fd_offset = moved[j]
    BY Zenon DEF Inv, TypeOK, PagesFit
  <2> QED BY <1>4, <1>6, <1>7, <2>1, Zenon
<1>9. \A j \in Entries : /\ opentab'[j].mapped = opentab[j].mapped
                         /\ opentab'[j].id = opentab[j].id
                         /\ opentab'[j].o_fileid = opentab[j].o_fileid
                         /\ opentab'[j].o_file = opentab[j].o_file
  BY <1>6, <1>7, Zenon
<1>10. srv' \in ServerStates /\ srv'.whom = srv.whom
  BY <1>1, AnswerType, Zenon
<1>11. ServerFits' /\ RequestsKnown'
  BY <1>1, AnswerStep, Zenon
<1> QED BY <1>1, <1>6, <1>8, <1>9, <1>10, <1>11, TableStep, Zenon

\* The page goes to the client that asked for it, at the descriptor it chose.
LEMMA ReplyInv ==
  ASSUME Inv, Reply
  PROVE  Inv'
<1> DEFINE c == srv.whom
           s == srv.req.fd
           new == IF srv.req.op = "close" THEN [Idle EXCEPT !.pc = "unmap", !.fd = s] ELSE Idle
<1>1. /\ srv.pc = "reply" /\ c \in Clients /\ life[c] = "live"
      /\ call' = [call EXCEPT ![c] = new]
      /\ srv' = [Receiving EXCEPT !.pc = "done"]
      /\ UNCHANGED <<life, cow, opentab, moved>>
  BY Zenon DEF Reply, At, Inv, ServerFits, Busy
<1>2. s \in Fds /\ srv.pg \in Entries \cup {-1} /\ srv.req.file \in Files \cup {NoFile}
  BY Zenon DEF Inv, TypeOK, ServerStates, Calls
<1>3. new \in Calls /\ new.pc \in {"idle", "unmap"}
  BY <1>2, IdleType, Zenon DEF Calls, Idle
<1>4. /\ srv'.pc = "done" /\ srv'.whom = Nobody /\ srv'.r = "ok" /\ srv'.pg = -1
      /\ srv' \in ServerStates
  <2>1. srv' = [pc |-> "done", whom |-> Nobody, req |-> Idle, i |-> 0, r |-> "ok", pg |-> -1]
    BY <1>1, Zenon DEF Receiving
  <2>2. 0 \in 0 .. MAXOPEN
    BY FsServAssumption
  <2> QED BY <2>1, <2>2, IdleType, Zenon DEF ServerStates
<1>5. \/ srv.pg = -1 /\ UNCHANGED <<fds, opened>>
      \/ /\ srv.pg # -1
         /\ fds' = [fds EXCEPT ![c][s] = srv.pg]
         /\ opened' = [opened EXCEPT ![c][s] = srv.req.file]
  BY Zenon DEF Reply
<1> HIDE DEF new, c, s
<1>6. TypeOK'
  <2>1. /\ fds' \in [Clients -> [Fds -> Entries \cup {-1}]]
        /\ opened' \in [Clients -> [Fds -> Files \cup {NoFile}]]
    <3>1. CASE srv.pg = -1 /\ UNCHANGED <<fds, opened>>
      BY <3>1, Zenon DEF Inv, TypeOK
    <3>2. CASE /\ srv.pg # -1
               /\ fds' = [fds EXCEPT ![c][s] = srv.pg]
               /\ opened' = [opened EXCEPT ![c][s] = srv.req.file]
      BY <1>1, <1>2, <3>2, Zenon DEF Inv, TypeOK
    <3> QED BY <1>5, <3>1, <3>2, Zenon
  <2>2. call' \in [Clients -> Calls]
    BY <1>1, <1>3, Zenon DEF Inv, TypeOK
  <2> QED BY <1>1, <1>4, <2>1, <2>2, Zenon DEF Inv, TypeOK
<1>7. /\ call'[c].pc \in {"idle", "unmap"}
      /\ \A d \in Clients : d # c => call'[d] = call[d] /\ fds'[d] = fds[d]
      /\ \A d \in Clients, t \in Fds :
           \/ fds'[d][t] = fds[d][t] /\ opened'[d][t] = opened[d][t]
           \/ srv.pg # -1 /\ fds'[d][t] = srv.pg /\ opened'[d][t] = srv.req.file
  <2>1. call'[c].pc \in {"idle", "unmap"} /\ \A d \in Clients : d # c => call'[d] = call[d]
    BY <1>1, <1>3, Zenon DEF Inv, TypeOK
  <2>2. CASE srv.pg = -1 /\ UNCHANGED <<fds, opened>>
    BY <2>1, <2>2, Zenon
  <2>3. CASE /\ srv.pg # -1
             /\ fds' = [fds EXCEPT ![c][s] = srv.pg]
             /\ opened' = [opened EXCEPT ![c][s] = srv.req.file]
    BY <1>1, <1>2, <2>1, <2>3 DEF Inv, TypeOK
  <2> QED BY <1>5, <2>2, <2>3, Zenon
<1>8. srv.pg # -1 => /\ opentab[srv.pg].mapped
                     /\ opentab[srv.pg].id = opentab[srv.pg].o_fileid
                     /\ opentab[srv.pg].o_file = srv.req.file
  BY <1>1, Zenon DEF Inv, ServerFits
<1>9. PagesFit' /\ OwnFile'
  BY <1>1, <1>7, <1>8 DEF Inv, PagesFit, OwnFile
<1>10. CallsFit'
  BY <1>1, <1>7 DEF Inv, CallsFit, Names
<1>11. ServerFits' /\ RequestsKnown'
  BY <1>4, Zenon DEF ServerFits, Busy, RequestsKnown
<1>12. AnswerIsComing'
  BY <1>1, <1>4, <1>7, FsServAssumption, Zenon DEF Inv, AnswerIsComing, c
<1> QED BY <1>6, <1>9, <1>10, <1>11, <1>12, Zenon DEF Inv

LEMMA ReplyPanicInv ==
  ASSUME Inv, ReplyPanic
  PROVE  Inv'
<1>1. /\ srv' \in ServerStates /\ srv'.pc = "panic" /\ srv'.whom = srv.whom
      /\ srv'.r = srv.r /\ srv'.pg = srv.pg
  BY Zenon DEF ReplyPanic, Inv, TypeOK, ServerStates
<1>2. ServerFits'
  BY <1>1, Zenon DEF ReplyPanic, clientVars, Inv, ServerFits, Busy
<1>3. RequestsKnown'
  BY <1>1, Zenon DEF ReplyPanic, clientVars, Inv, RequestsKnown
<1> QED BY <1>1, <1>2, <1>3, ServerStep, Zenon DEF ReplyPanic

LEMMA FilePanicInv ==
  ASSUME Inv, FilePanic
  PROVE  Inv'
<1>1. /\ srv' \in ServerStates /\ srv'.pc = "panic" /\ srv'.whom = srv.whom
      /\ srv'.r = srv.r /\ srv'.pg = srv.pg
  BY Zenon DEF FilePanic, Inv, TypeOK, ServerStates
<1>2. ServerFits'
  BY <1>1, Zenon DEF FilePanic, clientVars, Inv, ServerFits, Busy
<1>3. RequestsKnown'
  BY <1>1, Zenon DEF FilePanic, clientVars, Inv, RequestsKnown
<1> QED BY <1>1, <1>2, <1>3, ServerStep, Zenon DEF FilePanic

LEMMA ReceivingFits ==
  ASSUME srv = Receiving
  PROVE  srv \in ServerStates /\ ServerFits /\ RequestsKnown
<1>1. 0 \in 0 .. MAXOPEN
  BY FsServAssumption
<1>2. srv \in ServerStates
  BY <1>1, IdleType, Zenon DEF Receiving, ServerStates
<1> QED BY <1>2, Zenon DEF Receiving, ServerFits, Busy, RequestsKnown

LEMMA DoneInv ==
  ASSUME Inv, Done
  PROVE  Inv'
<1>1. srv' = Receiving /\ srv.whom = Nobody
  BY Zenon DEF Done, Inv, ServerFits, Busy
<1>2. srv' \in ServerStates /\ srv'.whom = srv.whom
  <2>1. 0 \in 0 .. MAXOPEN
    BY FsServAssumption
  <2> QED BY <1>1, <2>1, IdleType, Zenon DEF Receiving, ServerStates
<1>3. ServerFits' /\ RequestsKnown'
  BY <1>1, Zenon DEF Receiving, ServerFits, Busy, RequestsKnown
<1> QED BY <1>2, <1>3, ServerStep, Zenon DEF Done
-----------------------------------------------------------------------------
(* The theorems. *)

LEMMA InitInv == Init => Inv
<1> SUFFICES ASSUME Init PROVE Inv
  BY Zenon
<1>1. /\ 0 \in 0 .. MaxOffset /\ 0 \in FileIds /\ Entries \subseteq FileIds
      /\ \A i \in Entries : i % MAXOPEN = i
  <2>1. MAXOPEN <= MAXOPEN * IdLaps /\ MAXOPEN * IdLaps \in Nat
    BY FsServAssumption, Z3
  <2>2. Entries \subseteq FileIds
    BY <2>1, FsServAssumption DEF Entries, FileIds
  <2>3. \A i \in Entries : i % MAXOPEN = i
    BY FsServAssumption, ModSmall, Zenon DEF Entries
  <2>4. 0 \in FileIds
    BY IdleType, Zenon DEF Idle, Calls
  <2> QED BY <2>2, <2>3, <2>4, FsServAssumption
<1>2. TypeOK
  BY <1>1, IdleType, ReceivingFits, Zenon DEF Init, TypeOK, OpenFiles
<1>3. PagesFit /\ OwnFile
  BY Zenon DEF Init, PagesFit, OwnFile
<1>4. CallsFit
  BY Zenon DEF Init, CallsFit, Idle
<1>5. AnswerIsComing
  BY FsServAssumption, Zenon DEF Init, AnswerIsComing, Idle, Receiving
<1> QED BY <1>2, <1>3, <1>4, <1>5, ReceivingFits, Zenon DEF Inv, Init

LEMMA NextInv == Inv /\ [Next]_vars => Inv'
<1> SUFFICES ASSUME Inv, [Next]_vars PROVE Inv'
  BY Zenon
<1>1. CASE UNCHANGED vars
  <2>1. UNCHANGED <<life, fds, call, cow, opened, opentab, srv, moved>>
    BY <1>1, Zenon DEF vars, clientVars
  <2>2. TypeOK' /\ PagesFit'
    BY <2>1 DEF Inv, TypeOK, PagesFit
  <2>3. CallsFit' /\ AnswerIsComing'
    BY <2>1, Zenon DEF Inv, CallsFit, Names, AnswerIsComing
  <2> QED BY <2>1, <2>2, <2>3, ClientStep, Zenon
<1>2. CASE ScanNoMem \/ ScanFull
  <2>1. Busy /\ Answer("error", -1) /\ UNCHANGED <<clientVars, opentab, moved>>
    BY <1>2, Zenon DEF ScanNoMem, ScanFull, Busy
  <2> QED BY <2>1, PlainAnswer, Zenon
<1>3. CASE ServeFlush
  <2>1. Busy /\ Answer("ok", -1) /\ UNCHANGED <<clientVars, opentab, moved>>
    BY <1>3, Zenon DEF ServeFlush, Busy
  <2> QED BY <2>1, PlainAnswer, Zenon
<1>4. CASE ServeUnknown
  <2>1. Busy /\ Answer("unknown", -1) /\ UNCHANGED <<clientVars, opentab, moved>>
    BY <1>4, Zenon DEF ServeUnknown, Busy
  <2>2. life[srv.whom] = "dead"
    BY <1>4, KnownIsFound, Zenon DEF ServeUnknown
  <2> QED BY <2>1, <2>2, PlainAnswer, Zenon
<1>5. CASE Serve
  BY <1>2, <1>3, <1>4, <1>5, ScanSkipInv, ScanTakeInv, ServeOpenInv, ServeUseInv, ReplyInv,
     FilePanicInv, ReplyPanicInv, DoneInv, Zenon DEF Serve
<1>6. ASSUME NEW c \in Clients,
             \/ Send(c) \/ Wait(c) \/ CloseUnmap(c) \/ Die(c) \/ SyncCall(c)
             \/ \E f \in Files : Open(c, f)
             \/ \E s \in Fds : \/ \E op \in {"use", "close"} : OnFile(c, op, s)
                               \/ \E t \in Fds : Dup(c, s, t)
             \/ \E d \in Clients : Fork(c, d)
      PROVE  Inv'
  BY <1>6, SendInv, WaitInv, CloseUnmapInv, DieInv, SyncCallInv, OpenInv, OnFileInv,
     DupInv, ForkInv, Zenon
<1> QED BY <1>1, <1>5, <1>6, Zenon DEF Next

\* Inv holds throughout: for any number of clients, descriptors and entries,
\* and wherever o_fileid wraps.
THEOREM Invariance == Spec => []Inv
  BY InitInv, NextInv, PTL DEF Spec

\* The types, and that the id in an entry leads openfile_lookup() back to that
\* entry however often openfile_alloc() advanced it.
THEOREM TypeCorrect == Spec => []TypeOK
<1>1. Inv => TypeOK
  BY Zenon DEF Inv
<1> QED BY <1>1, Invariance, PTL

\* A descriptor leads to the file that was opened with it: openfile_alloc()
\* never takes an entry whose page a client still shares.
THEOREM DescriptorsKeepTheirFile == Spec => []OwnFile
<1>1. Inv => OwnFile
  BY Zenon DEF Inv
<1> QED BY <1>1, Invariance, PTL

\* openfile_lookup() finds every request of a live client.
THEOREM LookupsSucceed == Spec => []RequestsKnown
<1>1. Inv => RequestsKnown
  BY Zenon DEF Inv
<1> QED BY <1>1, Invariance, PTL

\* The offset in the Fd page counts what was read and written since the open.
THEOREM OffsetsExact == Spec => []OffsetExact
<1>1. Inv => OffsetExact
  BY DEF Inv, TypeOK, PagesFit, OffsetExact
<1> QED BY <1>1, Invariance, PTL

\* The client that waits in fsipc() is the one serve() works for.
THEOREM NoAnswerIsLost == Spec => []AnswerIsComing
<1>1. Inv => AnswerIsComing
  BY Zenon DEF Inv
<1> QED BY <1>1, Invariance, PTL
=============================================================================
