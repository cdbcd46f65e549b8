---------------------------- MODULE VoiceChannel ----------------------------
(***************************************************************************)
(* What the voice-mode feature promises, without its caches and change     *)
(* notifications: a plugin that listens for an instance always holds the   *)
(* value "on" exactly when some live client connection wants voice mode    *)
(* for that instance.  A connection that is lost, or replaced by a new one *)
(* under its key, takes its wishes with it.                                *)
(***************************************************************************)
CONSTANTS Instance, Conn, Plugin, None

VARIABLES
  live,    \* keys of the live client connections
  wanted,  \* instance -> the connections that want voice mode for it
  joined,  \* plugin -> the instance it listens for
  told     \* plugin -> the last value it was sent

channelVars == <<live, wanted, joined, told>>

ChannelInit ==
  /\ live = {}
  /\ wanted = [i \in Instance |-> {}]
  /\ joined = [p \in Plugin |-> None]
  /\ told = [p \in Plugin |-> FALSE]

\* Every listening plugin is told the truth in the step that changes it.
TellTruth ==
  \A p \in Plugin :
    joined'[p] # None => told'[p] = (wanted'[joined'[p]] # {})

Lose(gone, new) ==
  /\ gone \subseteq live
  /\ live' = (live \ gone) \cup new
  /\ wanted' = [i \in Instance |-> wanted[i] \ gone]
  /\ UNCHANGED joined
  /\ TellTruth

Want(i, k) ==
  /\ k \in live
  /\ wanted' = [wanted EXCEPT ![i] = @ \cup {k}]
  /\ UNCHANGED <<live, joined>>
  /\ TellTruth

Unwant(i, k) ==
  /\ wanted' = [wanted EXCEPT ![i] = @ \ {k}]
  /\ UNCHANGED <<live, joined>>
  /\ TellTruth

Join(p, i) ==
  /\ joined' = [joined EXCEPT ![p] = i]
  /\ UNCHANGED <<live, wanted>>
  /\ TellTruth

ChannelNext ==
  \/ \E gone, new \in SUBSET Conn : Lose(gone, new)
  \/ \E i \in Instance, k \in Conn : Want(i, k) \/ Unwant(i, k)
  \/ \E p \in Plugin, i \in Instance \cup {None} : Join(p, i)

ChannelSpec == ChannelInit /\ [][ChannelNext]_channelVars

=============================================================================
