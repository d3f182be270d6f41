-------------------------------- MODULE MCCow -------------------------------
(***************************************************************************)
(* Cow for TLC.  Pages are interchangeable, and so are environments: the   *)
(* first free one is taken, and states are told apart by which entries map *)
(* the same page and by what it holds, not by the page's name.             *)
(***************************************************************************)
EXTENDS Cow, FiniteSets, TLC

LowestFirst ==
  /\ \A p, q \in Pages : Free(p) /\ Free(q) /\ q < p => Free(p)'
  /\ \A c, d \in Envs :
       env_status[c] = "free" /\ env_status[d] = "free" /\ d < c => env_status'[c] = "free"

MCInit ==
  /\ Init
  /\ env_status[1] = "run"
  /\ \A va \in Vas : pt[1][va].page = va - 1
  /\ \A p \in Pages : data[p] = Zero

MCSpec == MCInit /\ [][Next /\ LowestFirst]_vars

\* The entries that map page p.
Mapping(p) == {x \in Envs \X Pns : pt[x[1]][x[2]] # NULL /\ pt[x[1]][x[2]].page = p}

View ==
  <<{<<Mapping(p), data[p]>> : p \in {q \in Pages : ~Free(q)}},
    [x \in Envs \X Pns |->
       LET q == pt[x[1]][x[2]] IN IF q = NULL THEN << >> ELSE <<q.w, q.tag>>],
    env_status, upcall, call, pf, halted>>
=============================================================================
