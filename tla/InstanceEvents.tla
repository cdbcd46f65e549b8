--------------------------- MODULE InstanceEvents ---------------------------
(***************************************************************************)
(* WorkspaceLifecycle composed with what listens to its events on the bus: *)
(* the InstanceEventBridge, which keeps one event stream to the instance   *)
(* of every started workspace (packages/server/src/workspaces/             *)
(* instance-events.ts), and the picture a browser client builds from the   *)
(* workspace.* and instance.eventStatus events it is sent.                 *)
(*                                                                         *)
(* The bus is a synchronous EventEmitter: the bridge reacts inside the     *)
(* step that publishes.                                                    *)
(***************************************************************************)
EXTENDS WorkspaceLifecycle

VARIABLES
  stream,        \* the stream task of a workspace, "off" when there is none
  target,        \* the process the task fetches from
  streamStatus,  \* last instance.eventStatus of the workspace
  view           \* last workspace.* event of the workspace

streamVars == <<stream, target, streamStatus, view>>
allVars == <<vars, streamVars>>

StreamState == {"off", "waiting", "connecting", "unauthorised", "connected"}
StreamStatus == {"never", "connecting", "connected", "error", "disconnected"}

EventsTypeOK ==
  /\ TypeOK
  /\ stream \in [Workspace -> StreamState]
  /\ target \in [Workspace -> Create \cup {None}]
  /\ streamStatus \in [Workspace -> StreamStatus]
  /\ view \in [Workspace -> EventType \cup {"never"}]

EventsInit ==
  /\ Init
  /\ stream = [w \in Workspace |-> "off"]
  /\ target = [w \in Workspace |-> None]
  /\ streamStatus = [w \in Workspace |-> "never"]
  /\ view = [w \in Workspace |-> "never"]

-----------------------------------------------------------------------------
(* runStream *)

\* One turn of the loop: without a port wait, otherwise fetch with the stored
\* password.  Record and password are those after the current step.
getInstancePort(w) ==
  IF workspaces'[w] # None /\ hasPid'[workspaces'[w]] THEN workspaces'[w] ELSE None

runStream(w) ==
  LET port == getInstancePort(w) IN
  /\ target' = [target EXCEPT ![w] = port]
  /\ IF port = None
     THEN /\ stream' = [stream EXCEPT ![w] = "waiting"]
          /\ UNCHANGED streamStatus
     ELSE /\ stream' = [stream EXCEPT ![w] =
                          IF auth'[w] = port THEN "connecting" ELSE "unauthorised"]
          /\ streamStatus' = [streamStatus EXCEPT ![w] = "connecting"]

\* Mutant: an error ends the task instead of being retried.
streamError_GivesUp(w) ==
  /\ stream' = [stream EXCEPT ![w] = "off"]
  /\ target' = [target EXCEPT ![w] = None]
  /\ streamStatus' = [streamStatus EXCEPT ![w] = "error"]

\* An error is published and the loop sleeps a second.
streamError(w) ==
  /\ stream' = [stream EXCEPT ![w] = "waiting"]
  /\ target' = [target EXCEPT ![w] = None]
  /\ streamStatus' = [streamStatus EXCEPT ![w] = "error"]

streamAborted(ids) ==
  /\ stream' = [w \in Workspace |-> IF w \in ids THEN "off" ELSE stream[w]]
  /\ target' = [w \in Workspace |-> IF w \in ids THEN None ELSE target[w]]
  /\ streamStatus' = [w \in Workspace |->
                        IF w \in ids /\ stream[w] # "off" THEN "disconnected"
                        ELSE streamStatus[w]]

retry(w) ==
  /\ stream[w] = "waiting"
  /\ runStream(w)

\* The instance answers the fetch, refuses it, or cannot be reached.
fetchSettles(w) ==
  \/ /\ stream[w] = "connecting"
     /\ child[target[w]] \in Live
     /\ stream' = [stream EXCEPT ![w] = "connected"]
     /\ streamStatus' = [streamStatus EXCEPT ![w] = "connected"]
     /\ UNCHANGED target
  \/ /\ \/ stream[w] = "unauthorised"
        \/ stream[w] = "connecting" /\ (Sick \/ child[target[w]] \notin Live)
     /\ streamError(w)

\* Mutant: a body that ends puts the loop to sleep without a word.
streamEnds_Unpublished(w) ==
  /\ stream[w] = "connected"
  /\ stream' = [stream EXCEPT ![w] = "waiting"]
  /\ target' = [target EXCEPT ![w] = None]
  /\ UNCHANGED streamStatus

\* Mutant: a body that ends is reread at the port the stream was opened with.
streamEnds_SamePort(w) ==
  /\ stream[w] = "connected"
  /\ UNCHANGED <<stream, target, streamStatus>>

\* The body ends, which the loop follows up at once, or reading it throws.
streamEnds(w) ==
  /\ stream[w] = "connected"
  /\ runStream(w) \/ streamError(w)

-----------------------------------------------------------------------------
(* Reaction to the bus *)

lastEvent == published'[Len(published')]

\* Mutant: the bridge does not listen for workspace.error.
bridgeReacts_NoError ==
  IF published' = <<>> THEN UNCHANGED streamVars
  ELSE LET w == lastEvent.ws IN
       /\ view' = [view EXCEPT ![w] = lastEvent.type]
       /\ CASE lastEvent.type = "started" /\ stream[w] = "off" -> runStream(w)
            [] lastEvent.type = "stopped" -> streamAborted({w})
            [] OTHER -> UNCHANGED <<stream, target, streamStatus>>

\* startStream and stopStream; of the events one step publishes for a
\* workspace the last one decides.
bridgeReacts ==
  IF published' = <<>> THEN UNCHANGED streamVars
  ELSE LET w == lastEvent.ws IN
       /\ view' = [view EXCEPT ![w] = lastEvent.type]
       /\ CASE lastEvent.type = "started" /\ stream[w] = "off" -> runStream(w)
            [] lastEvent.type \in {"stopped", "error"} -> streamAborted({w})
            [] OTHER -> UNCHANGED <<stream, target, streamStatus>>

bridgeShutdown == streamAborted(Workspace) /\ UNCHANGED view

\* index.ts shuts the bridge down first, then the workspaces.
shutdownAll == shutdown /\ bridgeShutdown

LifecycleStep ==
  \/ \E c \in Create, w \in Workspace : create(c, w)
  \/ \E c \in Create : downloadSettles(c)
  \/ \E c \in Create : portFound(c)
  \/ \E c \in Create : instanceHealthy(c)
  \/ \E c \in Create : readinessFails(c)
  \/ \E c \in Create : becomesReady(c)
  \/ \E c \in Create, clean \in BOOLEAN : childExits(c, clean)
  \/ \E w \in Workspace : delete(w)
  \/ \E c \in Create : escalate(c)
  \/ processExit

StreamStep(w) ==
  /\ server # "exited"
  /\ UNCHANGED <<vars, view>>
  /\ retry(w) \/ fetchSettles(w) \/ streamEnds(w)

EventsNext ==
  \/ LifecycleStep /\ bridgeReacts
  \/ shutdownAll
  \/ \E w \in Workspace : StreamStep(w)

\* The retry timer fires, a fetch settles, and the body of a dead process's
\* response ends.
deadTarget(w) == stream[w] = "connected" /\ child[target[w]] \notin Live

StreamFairness ==
  \A w \in Workspace :
    WF_allVars(/\ server # "exited"
               /\ UNCHANGED <<vars, view>>
               /\ \/ retry(w)
                  \/ fetchSettles(w)
                  \/ deadTarget(w) /\ streamEnds(w))

EventsSpec == EventsInit /\ [][EventsNext]_allVars /\ StreamFairness

\* With the fairness of the lifecycle.
EventsFairSpec == EventsSpec /\ Fairness

-----------------------------------------------------------------------------
(* Properties, whatever clients do *)

\* When the last a client heard of an open workspace is that it has started,
\* then a process of its folder came up and is alive: however launches,
\* deletes and exits of one folder cross, the handler of an exit, which goes
\* by the folder, finds some record to tell of it (handleProcessExit).
StartedIsAlive ==
  server # "exited" =>
    \A w \in Workspace :
      view[w] = "started" /\ workspaces[w] # None =>
        \E c \in Create : folder[c] = w /\ call[c] = "ready" /\ child[c] \in Live

\* A stream does not stay with a dead process: even when the events of two
\* launches of one folder cross, the task moves on to the current port or
\* ends.
DeadStreamIsDropped ==
  \A w \in Workspace : deadTarget(w) ~> server = "exited" \/ ~deadTarget(w)

-----------------------------------------------------------------------------
(* Properties for clients that serialise their operations on a folder *)

Recorded(w) == IF workspaces[w] = None THEN "none" ELSE status[workspaces[w]]

ViewOf == [none |-> {"never", "stopped", "error"}, starting |-> {"created"},
           ready |-> {"started"}, stopped |-> {"stopped"}, error |-> {"error"}]

\* The last workspace event a client saw tells it what the server's map says:
\* no transition goes unpublished and none is published twice in a different
\* sense (a failing start publishes from two places).
ViewMatchesMap ==
  server = "up" => \A w \in Workspace : view[w] \in ViewOf[Recorded(w)]

\* A workspace has an event stream exactly while it is ready, and the stream
\* goes to the workspace's own process.
StreamFollowsWorkspace ==
  server = "up" =>
    \A w \in Workspace :
      /\ stream[w] # "off" <=> Recorded(w) = "ready"
      /\ target[w] # None => target[w] = workspaces[w]

\* A client that was told "connected" is not left with that status once the
\* stream is gone.
ConnectedIsTrue ==
  server = "up" =>
    \A w \in Workspace :
      streamStatus[w] = "connected" <=> stream[w] = "connected"

\* A workspace that stays ready gets its event stream, through any number of
\* dropped connections.
ReadyNow(w) == server = "up" /\ Recorded(w) = "ready"

ReadyGetsStream ==
  \A w \in Workspace : ReadyNow(w) ~> stream[w] = "connected" \/ ~ReadyNow(w)

=============================================================================
