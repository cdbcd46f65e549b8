------------------------- MODULE WorkspaceLifecycle -------------------------
(***************************************************************************)
(* The server's WorkspaceManager and the WorkspaceRuntime under it         *)
(* (packages/server/src/workspaces/manager.ts, runtime.ts).                *)
(*                                                                         *)
(* A create() call makes one descriptor and spawns at most one OpenCode    *)
(* process, so the call, its descriptor and its process share one          *)
(* identity.  The three maps of the code are keyed by the workspace id,    *)
(* which is computed from the folder: two create() calls for one folder    *)
(* meet in the same entries.  A step is one turn of the event loop: the    *)
(* handler, the synchronous event listeners and the promise continuations  *)
(* it resolves.                                                            *)
(***************************************************************************)
EXTENDS Naturals, FiniteSets, Sequences

CONSTANTS
  Workspace,    \* workspace ids (one per folder)
  MaxCreates,   \* bound: number of create() calls of a behaviour
  MaxDeletes,   \* bound: number of delete() calls of a behaviour
  Overlap,      \* may clients overlap operations on one folder?
  Sick,         \* may a live instance fail its readiness checks?
  None          \* no entry in a map

Create == 1 .. MaxCreates

ASSUME WorkspaceAssumption ==
  /\ MaxCreates \in Nat
  /\ MaxDeletes \in Nat
  /\ Overlap \in BOOLEAN
  /\ Sick \in BOOLEAN
  /\ None \notin Create
  /\ None \notin Workspace

VARIABLES
  call,        \* progress of each create() call
  folder,      \* the workspace id the call computed
  status,      \* descriptor.status
  hasPid,      \* are descriptor.pid and descriptor.port set?
  child,       \* the OpenCode process the call spawned
  requested,   \* ManagedProcess.requestedStop
  workspaces,  \* WorkspaceManager.workspaces: id -> descriptor
  processes,   \* WorkspaceRuntime.processes: id -> managed process
  auth,        \* WorkspaceManager.opencodeAuth: id -> whose password
  deleting,    \* processes some delete() awaits in runtime.stop
  deletes,     \* number of delete() calls made
  server,      \* the server process and its shutdown()
  shutWaits,   \* processes shutdown() still awaits
  published    \* the events the last step put on the bus, in order

vars == <<call, folder, status, hasPid, child, requested, workspaces,
          processes, auth, deleting, deletes, server, shutWaits, published>>

Pending == {"download", "launching", "probing", "settling"}
CallState == Pending \cup {"idle", "ready", "failed", "stuck"}
Live == {"up", "term", "kill"}
EventType == {"created", "started", "error", "stopped"}

TypeOK ==
  /\ call \in [Create -> CallState]
  /\ folder \in [Create -> Workspace \cup {None}]
  /\ status \in [Create -> {"none", "starting", "ready", "stopped", "error"}]
  /\ hasPid \in [Create -> BOOLEAN]
  /\ child \in [Create -> Live \cup {"none", "gone"}]
  /\ requested \in [Create -> BOOLEAN]
  /\ workspaces \in [Workspace -> Create \cup {None}]
  /\ processes \in [Workspace -> Create \cup {None}]
  /\ auth \in [Workspace -> Create \cup {None}]
  /\ deleting \subseteq Create
  /\ deletes \in 0 .. MaxDeletes
  /\ server \in {"up", "stopping", "cleared", "exited"}
  /\ shutWaits \subseteq Create
  /\ published \in Seq([type : EventType, ws : Workspace])

Event(type, w) == <<[type |-> type, ws |-> w]>>

Init ==
  /\ call = [c \in Create |-> "idle"]
  /\ folder = [c \in Create |-> None]
  /\ status = [c \in Create |-> "none"]
  /\ hasPid = [c \in Create |-> FALSE]
  /\ child = [c \in Create |-> "none"]
  /\ requested = [c \in Create |-> FALSE]
  /\ workspaces = [w \in Workspace |-> None]
  /\ processes = [w \in Workspace |-> None]
  /\ auth = [w \in Workspace |-> None]
  /\ deleting = {}
  /\ deletes = 0
  /\ server = "up"
  /\ shutWaits = {}
  /\ published = <<>>

-----------------------------------------------------------------------------
(* create(): from the call to a spawned process *)

\* A client that serialises its operations on a folder touches it only when
\* no earlier operation on it is under way.
Quiet(w) ==
  /\ \A c \in Create : folder[c] = w => call[c] \notin Pending /\ c \notin deleting

MayCreate(w) ==
  \/ Overlap
  \/ /\ Quiet(w)
     /\ workspaces[w] # None => status[workspaces[w]] \in {"stopped", "error"}

MayDelete(w) == Overlap \/ Quiet(w)

\* The rest of create() once the binary is there: credentials, session
\* directory, runtime.launch.  st is the descriptor's status before it.
startInstance(c, w, st, before) ==
  /\ auth' = [auth EXCEPT ![w] = c]
  /\ \* mkdirSync throws, outside the try: nothing touches the descriptor
     \/ /\ call' = [call EXCEPT ![c] = "stuck"]
        /\ status' = [status EXCEPT ![c] = st]
        /\ published' = before
        /\ UNCHANGED <<child, processes>>
     \* validateFolder throws
     \/ /\ call' = [call EXCEPT ![c] = "failed"]
        /\ status' = [status EXCEPT ![c] = "error"]
        /\ published' = before \o Event("error", w)
        /\ UNCHANGED <<child, processes>>
     \* spawn emits "error": handleError drops the entry it has just set
     \/ /\ call' = [call EXCEPT ![c] = "failed"]
        /\ status' = [status EXCEPT ![c] = "error"]
        /\ processes' = [processes EXCEPT ![w] = None]
        /\ published' = before \o Event("error", w)
        /\ UNCHANGED child
     \* spawned
     \/ /\ call' = [call EXCEPT ![c] = "launching"]
        /\ status' = [status EXCEPT ![c] = st]
        /\ child' = [child EXCEPT ![c] = "up"]
        /\ processes' = [processes EXCEPT ![w] = c]
        /\ published' = before

create(c, w) ==
  /\ server = "up"
  /\ call[c] = "idle"
  /\ \A d \in Create : d < c => call[d] # "idle"
  /\ MayCreate(w)
  /\ folder' = [folder EXCEPT ![c] = w]
  /\ workspaces' = [workspaces EXCEPT ![w] = c]
  /\ \/ startInstance(c, w, "starting", Event("created", w))
     \* the binary is missing: await triggerBinaryDownload
     \/ /\ call' = [call EXCEPT ![c] = "download"]
        /\ status' = [status EXCEPT ![c] = "starting"]
        /\ published' = Event("created", w)
        /\ UNCHANGED <<auth, child, processes>>
  /\ UNCHANGED <<hasPid, requested, deleting, deletes, server, shutWaits>>

downloadSettles(c) ==
  /\ server # "exited"
  /\ call[c] = "download"
  /\ \/ startInstance(c, folder[c], status[c], <<>>)
     \* still not there: the call throws, outside the try
     \/ /\ call' = [call EXCEPT ![c] = "stuck"]
        /\ published' = <<>>
        /\ UNCHANGED <<status, auth, child, processes>>
  /\ UNCHANGED <<folder, hasPid, requested, workspaces, deleting, deletes,
                 server, shutWaits>>

-----------------------------------------------------------------------------
(* create(): readiness of the spawned process *)

\* The port line on stdout resolves launch().
portFound(c) ==
  /\ server # "exited"
  /\ call[c] = "launching"
  /\ child[c] \in Live
  /\ call' = [call EXCEPT ![c] = "probing"]
  /\ published' = <<>>
  /\ UNCHANGED <<folder, status, hasPid, child, requested, workspaces, processes,
                 auth, deleting, deletes, server, shutWaits>>

\* probeInstance sends the password stored for the workspace id; the instance
\* accepts its own password only.
instanceHealthy(c) ==
  /\ server # "exited"
  /\ call[c] = "probing"
  /\ auth[folder[c]] = c
  /\ call' = [call EXCEPT ![c] = "settling"]
  /\ published' = <<>>
  /\ UNCHANGED <<folder, status, hasPid, child, requested, workspaces, processes,
                 auth, deleting, deletes, server, shutWaits>>

\* The port does not open in time, or the health probe is refused: the catch
\* marks the descriptor and leaves the process alone.
readinessFails(c) ==
  /\ server # "exited"
  /\ call[c] = "probing"
  /\ Sick \/ auth[folder[c]] # c
  /\ call' = [call EXCEPT ![c] = "failed"]
  /\ status' = [status EXCEPT ![c] = "error"]
  /\ published' = Event("error", folder[c])
  /\ UNCHANGED <<folder, hasPid, child, requested, workspaces, processes, auth,
                 deleting, deletes, server, shutWaits>>

\* The stability delay passed without an exit.
becomesReady(c) ==
  /\ server # "exited"
  /\ call[c] = "settling"
  /\ call' = [call EXCEPT ![c] = "ready"]
  /\ status' = [status EXCEPT ![c] = "ready"]
  /\ hasPid' = [hasPid EXCEPT ![c] = TRUE]
  /\ published' = Event("started", folder[c])
  /\ UNCHANGED <<folder, child, requested, workspaces, processes, auth,
                 deleting, deletes, server, shutWaits>>

-----------------------------------------------------------------------------
(* The end of a process *)

\* Mutant: the exit is ignored when a newer launch holds the process entry.
exitRecord_NewestOnly(c) ==
  IF call[c] = "launching" \/ processes[folder[c]] # c THEN None
  ELSE workspaces[folder[c]]

\* Mutant: the exit is ignored when the record is that of another launch.
exitRecord_OwnOnly(c) ==
  IF call[c] = "launching" \/ workspaces[folder[c]] # c THEN None ELSE c

\* The record handleProcessExit changes when the process of call c exits: the
\* one stored under the workspace id now, whichever call made it.  The onExit
\* callback runs only once the port was found.
exitRecord(c) == IF call[c] = "launching" THEN None ELSE workspaces[folder[c]]

exitStatus(c, clean) == IF requested[c] \/ clean THEN "stopped" ELSE "error"

\* status after handleProcessExit and, while create() still waits for
\* readiness, after its catch block.
statusAfterExit(c, clean) ==
  [r \in Create |->
     IF r = c /\ call[c] \in Pending THEN "error"
     ELSE IF r = exitRecord(c) THEN exitStatus(c, clean) ELSE status[r]]

\* Mutant: only the exit handler publishes, not the catch block of create().
eventsOfExit_HandlerOnly(c, clean) ==
  IF exitRecord(c) = None THEN <<>> ELSE Event(exitStatus(c, clean), folder[c])

eventsOfExit(c, clean) ==
  (IF exitRecord(c) = None THEN <<>> ELSE Event(exitStatus(c, clean), folder[c]))
  \o (IF call[c] \in Pending THEN Event("error", folder[c]) ELSE <<>>)

\* runtime.stop resolves on the exit: delete() goes on to remove the record
\* and, when it was the last process awaited, shutdown() clears every map.
ShutdownDone(c) == server = "stopping" /\ shutWaits \subseteq {c}

removedByExit(c) ==
  IF ShutdownDone(c) THEN Workspace
  ELSE IF c \in deleting THEN {folder[c]} ELSE {}

childExits(c, clean) ==
  /\ server # "exited"
  /\ child[c] \in Live
  /\ child' = [child EXCEPT ![c] = "gone"]
  /\ processes' = [processes EXCEPT ![folder[c]] = None]
  /\ status' = statusAfterExit(c, clean)
  /\ hasPid' = [r \in Create |-> hasPid[r] /\ r # exitRecord(c)]
  /\ call' = [call EXCEPT ![c] = IF @ \in Pending THEN "failed" ELSE @]
  /\ workspaces' = [w \in Workspace |->
                      IF w \in removedByExit(c) THEN None ELSE workspaces[w]]
  /\ auth' = [w \in Workspace |->
                IF \/ w \in removedByExit(c)
                   \/ w = folder[c] /\ exitRecord(c) # None
                THEN None ELSE auth[w]]
  /\ deleting' = deleting \ {c}
  /\ shutWaits' = shutWaits \ {c}
  /\ server' = IF ShutdownDone(c) THEN "cleared" ELSE server
  /\ published' = eventsOfExit(c, clean)
  /\ UNCHANGED <<folder, requested, deletes>>

-----------------------------------------------------------------------------
(* delete() and shutdown() *)

\* runtime.stop: mark and SIGTERM the processes registered now.
Signalled(targets) ==
  /\ requested' = [c \in Create |-> requested[c] \/ c \in targets]
  /\ child' = [c \in Create |->
                 IF c \in targets /\ child[c] = "up" THEN "term" ELSE child[c]]

Registered(ids) == {processes[w] : w \in ids} \ {None}

\* A descriptor without pid is dropped at once; one with a pid whose process
\* is not registered too, but then nobody publishes workspace.stopped.
deleteAtOnce(w) ==
  /\ workspaces' = [workspaces EXCEPT ![w] = None]
  /\ auth' = [auth EXCEPT ![w] = None]
  /\ published' = IF hasPid[workspaces[w]] THEN <<>> ELSE Event("stopped", w)
  /\ UNCHANGED <<requested, child, deleting>>

\* Mutant: the record is dropped before the process is stopped.
deleteStops_DropsRecord(w) ==
  /\ Signalled({processes[w]})
  /\ deleting' = deleting \cup {processes[w]}
  /\ workspaces' = [workspaces EXCEPT ![w] = None]
  /\ published' = <<>>
  /\ UNCHANGED auth

\* Mutant: the password is dropped before the process is stopped.
deleteStops_DropsAuth(w) ==
  /\ Signalled({processes[w]})
  /\ deleting' = deleting \cup {processes[w]}
  /\ auth' = [auth EXCEPT ![w] = None]
  /\ published' = <<>>
  /\ UNCHANGED workspaces

deleteStops(w) ==
  /\ Signalled({processes[w]})
  /\ deleting' = deleting \cup {processes[w]}
  /\ published' = <<>>
  /\ UNCHANGED <<workspaces, auth>>

delete(w) ==
  /\ server = "up"
  /\ deletes < MaxDeletes
  /\ workspaces[w] # None
  /\ MayDelete(w)
  /\ deletes' = deletes + 1
  /\ IF hasPid[workspaces[w]] /\ processes[w] # None
     THEN deleteStops(w)
     ELSE deleteAtOnce(w)
  /\ UNCHANGED <<call, folder, status, hasPid, processes, server, shutWaits>>

\* Mutant: the timer sends SIGTERM once more.
escalate_TermAgain(c) ==
  /\ server # "exited"
  /\ c \in deleting \cup shutWaits
  /\ child[c] = "term"
  /\ published' = <<>>
  /\ UNCHANGED <<call, folder, status, hasPid, child, requested, workspaces,
                 processes, auth, deleting, deletes, server, shutWaits>>

\* The 2 s timer of a pending runtime.stop.
escalate(c) ==
  /\ server # "exited"
  /\ c \in deleting \cup shutWaits
  /\ child[c] = "term"
  /\ child' = [child EXCEPT ![c] = "kill"]
  /\ published' = <<>>
  /\ UNCHANGED <<call, folder, status, hasPid, requested, workspaces, processes,
                 auth, deleting, deletes, server, shutWaits>>

Running == {w \in Workspace : workspaces[w] # None /\ hasPid[workspaces[w]]}

shutdown ==
  /\ server = "up"
  /\ Signalled(Registered(Running))
  /\ shutWaits' = Registered(Running)
  /\ IF Registered(Running) = {}
     THEN /\ server' = "cleared"
          /\ workspaces' = [w \in Workspace |-> None]
          /\ auth' = [w \in Workspace |-> None]
     ELSE /\ server' = "stopping"
          /\ UNCHANGED <<workspaces, auth>>
  /\ published' = <<>>
  /\ UNCHANGED <<call, folder, status, hasPid, processes, deleting, deletes>>

\* process.exit(0), once the HTTP servers have answered what was in flight.
processExit ==
  /\ server = "cleared"
  /\ deleting = {}
  /\ \A c \in Create : call[c] \notin Pending
  /\ server' = "exited"
  /\ published' = <<>>
  /\ UNCHANGED <<call, folder, status, hasPid, child, requested, workspaces,
                 processes, auth, deleting, deletes, shutWaits>>

-----------------------------------------------------------------------------
Next ==
  \/ \E c \in Create, w \in Workspace : create(c, w)
  \/ \E c \in Create : downloadSettles(c)
  \/ \E c \in Create : portFound(c)
  \/ \E c \in Create : instanceHealthy(c)
  \/ \E c \in Create : readinessFails(c)
  \/ \E c \in Create : becomesReady(c)
  \/ \E c \in Create, clean \in BOOLEAN : childExits(c, clean)
  \/ \E w \in Workspace : delete(w)
  \/ \E c \in Create : escalate(c)
  \/ shutdown
  \/ processExit

\* A timer fires and a killed process dies; nothing forces a client to call,
\* an instance to come up or a process to heed SIGTERM.
Fairness ==
  \A c \in Create :
    /\ WF_vars(escalate(c))
    /\ WF_vars(child[c] = "kill" /\ \E clean \in BOOLEAN : childExits(c, clean))

Spec == Init /\ [][Next]_vars

FairSpec == Spec /\ Fairness

-----------------------------------------------------------------------------
(* Properties *)

\* A descriptor that carries a pid and a port belongs to a process that is
\* alive, so the proxy never forwards to a port its process has given up.
\* (handleProcessExit works by workspace id and may hit another descriptor.)
PortIsLive ==
  server # "exited" =>
    \A w \in Workspace :
      workspaces[w] # None /\ hasPid[workspaces[w]] => child[workspaces[w]] \in Live

\* A descriptor in the map has the status "ready" exactly while it carries
\* the pid that delete() and shutdown() go by.
ReadyHasPid ==
  \A w \in Workspace :
    workspaces[w] # None => (hasPid[workspaces[w]] <=> status[workspaces[w]] = "ready")

\* Whatever delete() or shutdown() awaits is a live process of the very
\* workspace, signalled and marked as a requested stop.
AwaitedIsSignalled ==
  \A c \in deleting \cup shutWaits :
    /\ child[c] \in {"term", "kill"}
    /\ requested[c]

\* With serialised clients and healthy instances, every live process can be
\* reached through the map delete() and shutdown() start from: the record of
\* its workspace is its own, and so is the registered process.
EveryChildIsOwned ==
  server = "up" =>
    \A c \in Create : child[c] \in Live =>
      workspaces[folder[c]] = c /\ processes[folder[c]] = c

\* With serialised clients and healthy instances the stored password of a
\* workspace that is running or starting up is the one its process was
\* started with.
PasswordFitsChild ==
  server = "up" =>
    \A c \in Create : child[c] \in Live => auth[folder[c]] = c

\* A delete() that stops a process ends, whatever the process does with
\* SIGTERM, and shutdown() gets past stopping the workspaces.
StopsEnd ==
  /\ \A c \in Create : c \in deleting ~> c \notin deleting
  /\ server = "stopping" ~> server \in {"cleared", "exited"}

-----------------------------------------------------------------------------
(* What the documents say and the code does not do *)

\* dev-docs/architecture.md: the close button stops the server of the tab.
ClosedTabHasNoServer ==
  server = "up" =>
    \A c \in Create : child[c] \in Live => workspaces[folder[c]] # None

=============================================================================
