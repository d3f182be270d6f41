------------------------------ MODULE Mailbox -------------------------------
(***************************************************************************)
(* What lwIP expects of its mailboxes (include/lwip/sys.h): a mailbox is a *)
(* queue of at most MBOXSLOTS messages; a message posted is fetched once,  *)
(* in the order of posting, and only out of the mailbox it went into.      *)
(***************************************************************************)
EXTENDS Sequences, Naturals

CONSTANTS Mboxes, Msgs, MBOXSLOTS

VARIABLES
  used,  \* the mailboxes that are allocated
  box    \* their messages

Init == used = {} /\ box = [b \in Mboxes |-> <<>>]

New(b) ==
  /\ b \notin used
  /\ used' = used \cup {b} /\ UNCHANGED box

Post(b, m) ==
  /\ b \in used /\ Len(box[b]) < MBOXSLOTS
  /\ box' = [box EXCEPT ![b] = Append(@, m)] /\ UNCHANGED used

Fetch(b) ==
  /\ b \in used /\ box[b] # <<>>
  /\ box' = [box EXCEPT ![b] = Tail(@)] /\ UNCHANGED used

\* Deallocation; the messages that are left are the caller's to drop.
Free(b) ==
  /\ b \in used
  /\ used' = used \ {b} /\ box' = [box EXCEPT ![b] = <<>>]

Next ==
  \E b \in Mboxes : New(b) \/ Fetch(b) \/ Free(b) \/ \E m \in Msgs : Post(b, m)

Spec == Init /\ [][Next]_<<used, box>>
=============================================================================
