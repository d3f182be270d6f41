----------------------------- MODULE MCChannels -----------------------------
(***************************************************************************)
(* The bounded queues of the system: mailboxes between the threads of the  *)
(* network server (SysArch) and pipes between environments (Pipe).  They   *)
(* have nothing to do with each other: a behaviour is one of one of them,  *)
(* and the other stays where it begins.                                    *)
(***************************************************************************)
EXTENDS SysArch, PipeConf

VARIABLES
  channel,   \* the one that takes steps
  life, parent, running, switched, fdpage, datapage, p_rpos, p_wpos, p_buf, got,
  call, eof  \* of Pipe

Pipes == INSTANCE Pipe

pipeVars == <<life, parent, running, switched, fdpage, datapage, p_rpos, p_wpos,
              p_buf, got, call, eof>>

ChannelInit == channel \in {"pipe", "mbox"} /\ Init /\ Pipes!Init

ChannelNext ==
  /\ \/ channel = "mbox" /\ Next /\ UNCHANGED pipeVars
     \/ channel = "pipe" /\ Pipes!Next /\ UNCHANGED vars
  /\ UNCHANGED channel

ChannelSpec == ChannelInit /\ [][ChannelNext]_<<channel, vars, pipeVars>>

\* The test by reference counts finds no end closed that is open
\* (Pipe!EofMeansClosed).
EofMeansClosed == Pipes!EofMeansClosed

\* The bytes read are the bytes written, in order (Pipe!BytesInOrder).
BytesInOrder == Pipes!BytesInOrder
=============================================================================
