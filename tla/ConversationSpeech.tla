------------------------- MODULE ConversationSpeech -------------------------
(***************************************************************************)
(* Conversation mode of the user interface                                 *)
(* (packages/ui/src/stores/conversation-speech.ts): which parts of the     *)
(* assistant's messages wait to be spoken, which one is spoken, and the    *)
(* mode of each instance, which is set at once and taken back when the     *)
(* server refuses it.                                                      *)
(*                                                                         *)
(* One runner takes the entries from the queue.  It awaits the handle of   *)
(* an entry (capabilities, synthesis, the start of the audio) and then its *)
(* end; meanwhile parts arrive, answers come back and the user goes on.    *)
(* The speech provider, the audio element and the server are external.     *)
(***************************************************************************)
EXTENDS Selections, SequencesExt

CONSTANTS
  Instance, Session, Part,
  instanceOf, \* the instance of a session
  sessionOf,  \* the session of a part that has a spoken block
  None

VARIABLES
  mode,       \* conversationModeInstances: instances with the mode on
  updates,    \* updateVoiceMode requests under way
  shown,      \* the active session of the active instance
  queue, queuedKeys,
  spoken,     \* spokenKeysBySession
  phase,      \* where the runner is, if there is one
  entry,      \* what it has taken from the queue
  current,    \* the entry of currentPlayback
  sounding,   \* audio elements that play
  heard       \* parts whose audio has started, and not failed

runner == <<phase, entry>>
vars == <<mode, updates, shown, queue, queuedKeys, spoken, runner, current, sounding, heard>>

Update == [instance : Instance, previous : BOOLEAN]

TypeOK ==
  /\ mode \subseteq Instance /\ updates \subseteq Update /\ shown \in Session
  /\ queue \in Seq(Part) /\ Len(queue) <= Cardinality(Part)
  /\ queuedKeys \subseteq Part /\ spoken \subseteq Part
  /\ phase \in {"none", "creating", "playing"}
  /\ entry \in Part \cup {None} /\ current \in Part \cup {None}
  /\ sounding \subseteq Part /\ heard \subseteq Part

Init ==
  /\ mode = {} /\ updates = {} /\ shown \in Session
  /\ queue = <<>> /\ queuedKeys = {} /\ spoken = {}
  /\ phase = "none" /\ entry = None /\ current = None
  /\ sounding = {} /\ heard = {}

ofSession(s) == {p \in Part : sessionOf[p] = s}
ofInstance(i) == {p \in Part : instanceOf[sessionOf[p]] = i}

-----------------------------------------------------------------------------
(* The runner and what empties its queue *)

\* Mutant: what was taken is not remembered.
runs_Forgets(q, keys, on, s) ==
  LET ready == {i \in DOMAIN q : sessionOf[q[i]] = s /\ instanceOf[s] \in on}
  IN IF ready = {}
     THEN /\ queue' = <<>> /\ queuedKeys' = {}
          /\ phase' = "none" /\ entry' = None
          /\ UNCHANGED spoken
     ELSE LET i == Min(ready)
          IN /\ queue' = SubSeq(q, i + 1, Len(q))
             /\ queuedKeys' = keys \ {q[j] : j \in 1 .. i}
             /\ phase' = "creating" /\ entry' = q[i]
             /\ UNCHANGED spoken

\* The loop of runConversationQueue up to its next await: entries that may no
\* longer be spoken are skipped.
runs(q, keys, on, s) ==
  LET ready == {i \in DOMAIN q : sessionOf[q[i]] = s /\ instanceOf[s] \in on}
  IN IF ready = {}
     THEN /\ queue' = <<>> /\ queuedKeys' = keys \ ToSet(q)
          /\ phase' = "none" /\ entry' = None
          /\ UNCHANGED spoken
     ELSE LET i == Min(ready)
          IN /\ queue' = SubSeq(q, i + 1, Len(q))
             /\ queuedKeys' = keys \ {q[j] : j \in 1 .. i}
             /\ phase' = "creating" /\ entry' = q[i]
             /\ spoken' = spoken \cup {q[i]}

without(parts) == Without(queue, parts)

keysWithout(parts) == queuedKeys \ (parts \cap ToSet(queue))

\* Mutant: the playback is forgotten, not stopped.
clears_NoStop(parts, on, s) ==
  IF current \in parts
  THEN /\ current' = None
       /\ runs(without(parts), keysWithout(parts), on, s)
       /\ UNCHANGED <<sounding, heard>>
  ELSE /\ queue' = without(parts) /\ queuedKeys' = keysWithout(parts)
       /\ UNCHANGED <<spoken, runner, current, sounding, heard>>

\* clearConversationPlaybackForSession and ...ForInstance: stopping the current
\* playback ends it, and the runner goes on in the same job.
clears(parts, on, s) ==
  IF current \in parts
  THEN /\ current' = None /\ sounding' = sounding \ {current}
       /\ runs(without(parts), keysWithout(parts), on, s)
       /\ UNCHANGED heard
  ELSE /\ queue' = without(parts) /\ queuedKeys' = keysWithout(parts)
       /\ UNCHANGED <<spoken, runner, current, sounding, heard>>

player == <<queue, queuedKeys, spoken, runner, current, sounding, heard>>

-----------------------------------------------------------------------------
(* The mode *)

\* setConversationModeEnabled; at most one update of each kind is under way.
setConversationModeEnabled(i) ==
  LET update == [instance |-> i, previous |-> i \in mode]
  IN /\ update \notin updates
     /\ updates' = updates \cup {update}
     /\ IF i \in mode THEN /\ mode' = mode \ {i}
                           /\ clears(ofInstance(i), mode', shown)
                      ELSE mode' = mode \cup {i} /\ UNCHANGED player
     /\ UNCHANGED shown

updateAnswered(update) ==
  /\ updates' = updates \ {update}
  /\ UNCHANGED <<mode, shown, player>>

\* Mutant: the mode is taken back, the queue is not.
updateFails_NoClear(update) ==
  /\ updates' = updates \ {update}
  /\ mode' = IF update.previous THEN mode \cup {update.instance} ELSE mode \ {update.instance}
  /\ UNCHANGED <<shown, player>>

\* The mode from before the call is put back, whatever was set since.
updateFails(update) ==
  /\ updates' = updates \ {update}
  /\ IF update.previous
       THEN mode' = mode \cup {update.instance} /\ UNCHANGED player
       ELSE /\ mode' = mode \ {update.instance}
            /\ clears(ofInstance(update.instance), mode', shown)
  /\ UNCHANGED shown

-----------------------------------------------------------------------------
(* The user *)

\* Another session is shown: the view of the old one is no longer active.
show(s) ==
  /\ s # shown
  /\ shown' = s
  /\ clears(ofSession(shown), mode, s)
  /\ UNCHANGED <<mode, updates>>

\* A prompt is sent in the session that is shown.
sendMessage ==
  /\ clears(ofSession(shown), mode, shown)
  /\ UNCHANGED <<mode, updates, shown>>

\* The user starts to dictate.
beginVoicePress ==
  /\ clears(ofInstance(instanceOf[shown]), mode, shown)
  /\ UNCHANGED <<mode, updates, shown>>

-----------------------------------------------------------------------------
(* Parts and playback *)

Speakable(p) == instanceOf[sessionOf[p]] \in mode /\ sessionOf[p] = shown

\* handleConversationAssistantPartUpdated: an event about a part whose spoken
\* block is complete; there may be several about each.
partUpdated(p) ==
  /\ Speakable(p)
  /\ p \notin spoken \cup queuedKeys /\ current # p
  /\ IF phase = "none"
       THEN runs(Append(queue, p), queuedKeys \cup {p}, mode, shown)
       ELSE /\ queue' = Append(queue, p) /\ queuedKeys' = queuedKeys \cup {p}
            /\ UNCHANGED <<spoken, runner>>
  /\ UNCHANGED <<mode, updates, shown, current, sounding, heard>>

\* The audio starts, and with it the handle is there, though the entry may have
\* been cleared or its session hidden while the runner waited.
playbackStarts ==
  /\ phase = "creating"
  /\ phase' = "playing"
  /\ current' = entry
  /\ sounding' = sounding \cup {entry} /\ heard' = heard \cup {entry}
  /\ UNCHANGED <<mode, updates, shown, queue, queuedKeys, spoken, entry>>

playbackEnds ==
  /\ phase = "playing"
  /\ current' = None /\ sounding' = sounding \ {entry}
  /\ runs(queue, queuedKeys, mode, shown)
  /\ UNCHANGED <<mode, updates, shown, heard>>

\* No handle, or an error of the audio: the entry may be spoken again, the rest
\* of its instance is dropped, and the runner gives up.
playbackFails ==
  /\ phase # "none"
  /\ spoken' = spoken \ {entry} /\ heard' = heard \ {entry}
  /\ sounding' = sounding \ {entry} /\ current' = None
  /\ LET dropped == ofInstance(instanceOf[sessionOf[entry]])
     IN queue' = without(dropped) /\ queuedKeys' = keysWithout(dropped)
  /\ phase' = "none" /\ entry' = None
  /\ UNCHANGED <<mode, updates, shown>>

-----------------------------------------------------------------------------

Next ==
  \/ \E i \in Instance : setConversationModeEnabled(i)
  \/ \E update \in updates : updateAnswered(update) \/ updateFails(update)
  \/ \E s \in Session : show(s)
  \/ sendMessage \/ beginVoicePress
  \/ \E p \in Part : partUpdated(p)
  \/ playbackStarts \/ playbackEnds \/ playbackFails

Spec == Init /\ [][Next]_vars

-----------------------------------------------------------------------------
(* What holds *)

\* What waits may be spoken: its session is shown and its instance has the mode
\* on.  Whatever turns the mode off or hides the session empties the queue
\* (setConversationModeEnabled, its catch, the effect of session-view.tsx).
QueueMayBeSpoken == \A p \in ToSet(queue) : Speakable(p)

\* Two parts are never heard at once, and what is heard can be stopped: it is
\* the current playback.
AudibleCanBeStopped == sounding \subseteq {current}

\* A part is heard once, unless its playback has failed, however many updates of
\* it arrive while it waits, plays or has been played.
HeardOnce == [][\A p \in sounding' \ sounding : p \notin heard]_vars

=============================================================================
