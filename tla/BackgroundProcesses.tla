------------------------ MODULE BackgroundProcesses -------------------------
(***************************************************************************)
(* BackgroundProcessManager of the server                                  *)
(* (packages/server/src/background-processes/manager.ts) for one           *)
(* workspace: the commands an agent started, the map of those that run,    *)
(* and index.json, which every operation reads, changes and writes back    *)
(* with awaits in between.                                                 *)
(*                                                                         *)
(* A task is one call of an async function: a start, the close handler of  *)
(* a child, a stop or terminate request, the cleanup after a workspace     *)
(* event.  A step is one turn of the event loop.  A rejection nobody       *)
(* awaits, or an error event nobody listens for, ends the server.          *)
(***************************************************************************)
EXTENDS Naturals, FiniteSets

CONSTANTS
  Process,   \* background processes, numbered by their start
  Request,   \* stop and terminate requests
  Cleanup,   \* workspace.stopped and workspace.error events
  Faults,    \* may spawn emit an error?
  None

ASSUME BackgroundAssumption ==
  /\ Process \subseteq Nat
  /\ None \notin Process
  /\ Faults \in BOOLEAN

VARIABLES
  task,        \* where each task is, and what it has in hand
  child,       \* the shell of each process
  running,     \* BackgroundProcessManager.running
  completion,  \* RunningProcess.completion
  index,       \* what index.json reads as
  dirs,        \* processes whose directory exists
  known,       \* does workspaceManager.get know the workspace?
  server,      \* "up", or how it died
  owed         \* history: processes that ran when a cleanup began

vars == <<task, child, running, completion, index, dirs, known, server, owed>>

Starting(p) == <<"start", p>>
Closing(p) == <<"close", p>>
Asking(r) == <<"request", r>>
Cleaning(k) == <<"cleanup", k>>

Task == {Starting(p) : p \in Process} \cup {Closing(p) : p \in Process}
        \cup {Asking(r) : r \in Request} \cup {Cleaning(k) : k \in Cleanup}

Waiter == {Asking(r) : r \in Request} \cup {Cleaning(k) : k \in Cleanup}
Waiting == {"wait", "kill"}
Place == {"idle", "mkdir", "find", "read", "write", "lost", "rm", "done"}
         \cup Waiting
Index == [Process -> {"absent", "running", "stopped"}]

\* A file that is missing, cut or garbled reads as no records (readIndex).
NoRecords == [p \in Process |-> "absent"]

\* A task: its place, its process, what its finalizeRecord does with the
\* entry, and the records it has read.
TaskState == [at : Place, on : Process \cup {None}, goal : {"keep", "remove"}, copy : Index]
Fresh(place, p, goal) == [at |-> place, on |-> p, goal |-> goal, copy |-> NoRecords]
Over == Fresh("done", None, "keep")

TypeOK ==
  /\ task \in [Task -> TaskState]
  /\ child \in [Process -> {"none", "up", "term", "kill", "exited", "closed"}]
  /\ running \subseteq Process
  /\ completion \in [Process -> {"keep", "remove"}]
  /\ index \in Index
  /\ dirs \subseteq Process
  /\ known \in BOOLEAN
  /\ server \in {"up", "uncaught", "unhandled"}
  /\ owed \in [Cleanup -> SUBSET Process]

Init ==
  /\ task = [t \in Task |-> Fresh("idle", None, "keep")]
  /\ child = [p \in Process |-> "none"]
  /\ running = {}
  /\ completion = [p \in Process |-> "keep"]
  /\ index = NoRecords
  /\ dirs = {}
  /\ known = TRUE
  /\ server = "up"
  /\ owed = [k \in Cleanup |-> {}]

Dead(p) == child[p] \notin {"up", "term"}

-----------------------------------------------------------------------------
(* The index: upsertIndex and removeFromIndex *)

\* A task ends in an exception: the routes answer an error for a start or a
\* request; nobody awaits the close handler.
fails(t) ==
  /\ task' = [task EXCEPT ![t] = Over]
  /\ server' = IF t[1] = "close" THEN "unhandled" ELSE server

\* finalizeRecord, and the end of start(), for a task in state s: getIndexPath
\* throws for an unknown workspace, then the file is read.  A notification to
\* the agent's session, which finalizeRecord awaits before, delays the read.
beginsUpdate(t, s) ==
  IF known THEN task' = [task EXCEPT ![t] = [s EXCEPT !.at = "read"]] /\ UNCHANGED server
  ELSE fails(t)

\* What the task leaves of its process: start() and the close handler share
\* the record object, so a start that is overtaken writes the end as well.
entry(t) ==
  IF task[t].goal = "remove" THEN "absent"
  ELSE IF t[1] = "start" /\ child[task[t].on] # "closed" THEN "running" ELSE "stopped"

\* The file has been read: writeIndex looks the path up again, opens the file,
\* which empties it, and writes the changed records.  The output file of a
\* start was opened meanwhile.
readIndex(t) ==
  /\ server = "up"
  /\ task[t].at = "read"
  /\ IF t[1] = "start" /\ task[t].on \notin dirs
     THEN server' = "uncaught" /\ UNCHANGED <<task, index>>
     ELSE IF known
     THEN /\ task' = [task EXCEPT ![t].at = "write",
                                  ![t].copy = [index EXCEPT ![task[t].on] = entry(t)]]
          /\ index' = NoRecords
          /\ UNCHANGED server
     ELSE fails(t) /\ UNCHANGED index
  /\ UNCHANGED <<child, running, completion, dirs, known, owed>>

\* The text lands: over the text of another writer it may leave a tail, in a
\* file that was removed meanwhile it is lost.  Then getOutputSize, which
\* throws for an unknown workspace, or removeProcessDir, which does not.
writeIndex(t) ==
  /\ server = "up"
  /\ \/ /\ task[t].at = "write"
        /\ index' \in {task[t].copy} \cup (IF index = NoRecords THEN {} ELSE {NoRecords})
     \/ task[t].at = "lost" /\ UNCHANGED index
  /\ IF task[t].goal = "keep" /\ ~known THEN fails(t)
     ELSE task' = [task EXCEPT ![t] = Over] /\ UNCHANGED server
  /\ dirs' = IF task[t].goal = "remove" /\ known THEN dirs \ {task[t].on} ELSE dirs
  /\ UNCHANGED <<child, running, completion, known, owed>>

-----------------------------------------------------------------------------
(* start() and the end of a child *)

start(p) ==
  /\ server = "up"
  /\ known
  /\ task[Starting(p)].at = "idle"
  /\ \A q \in Process : q < p => task[Starting(q)].at # "idle"
  /\ task' = [task EXCEPT ![Starting(p)] = Fresh("mkdir", p, "keep")]
  /\ UNCHANGED <<child, running, completion, index, dirs, known, server, owed>>

\* The directory is there: spawn, enter the map, write the entry.
spawn(p) ==
  /\ server = "up"
  /\ task[Starting(p)].at = "mkdir"
  /\ child' = [child EXCEPT ![p] = "up"]
  /\ running' = running \cup {p}
  /\ dirs' = dirs \cup {p}
  /\ beginsUpdate(Starting(p), task[Starting(p)])
  /\ UNCHANGED <<completion, index, known, owed>>

\* The shell cannot be started: an "error" event without a listener.
spawnFails(p) ==
  /\ server = "up"
  /\ Faults
  /\ task[Starting(p)].at = "mkdir"
  /\ server' = "uncaught"
  /\ UNCHANGED <<task, child, running, completion, index, dirs, known, owed>>

exits(p) ==
  /\ server = "up"
  /\ child[p] \in {"up", "term", "kill"}
  /\ child' = [child EXCEPT ![p] = "exited"]
  /\ UNCHANGED <<task, running, completion, index, dirs, known, server, owed>>

\* "close": the shell has exited and nobody holds its output any more.  The
\* output is flushed and the record finalised.
closes(p) ==
  /\ server = "up"
  /\ child[p] = "exited"
  /\ child' = [child EXCEPT ![p] = "closed"]
  /\ running' = running \ {p}
  /\ completion' = [completion EXCEPT ![p] = "keep"]
  /\ beginsUpdate(Closing(p), Fresh("read", p, completion[p]))
  /\ UNCHANGED <<index, dirs, known, owed>>

-----------------------------------------------------------------------------
(* Stopping a process *)

\* killProcessTree(SIGTERM), with the completion for the close handler.
terminates(p, how) ==
  /\ completion' = [completion EXCEPT ![p] = how]
  /\ child' = [child EXCEPT ![p] = IF @ = "up" THEN "term" ELSE @]

\* killProcessTree(SIGKILL).
forced(p) == [child EXCEPT ![p] = IF @ \in {"up", "term"} THEN "kill" ELSE @]

\* stop() keeps the entry, terminate() removes it; both look for it first.
request(r, p, how) ==
  /\ server = "up"
  /\ known
  /\ task[Asking(r)].at = "idle"
  /\ task' = [task EXCEPT ![Asking(r)] = Fresh("find", p, how)]
  /\ UNCHANGED <<child, running, completion, index, dirs, known, server, owed>>

\* Mutant: stop() trusts the entry instead of the map.
found_ByEntry(r) ==
  LET t == Asking(r)
      p == task[t].on
      how == task[t].goal
  IN
  /\ server = "up"
  /\ task[t].at = "find"
  /\ IF index[p] = "absent" \/ (index[p] = "stopped" /\ how = "keep")
     THEN /\ task' = [task EXCEPT ![t] = Over]
          /\ UNCHANGED <<child, completion, server>>
     ELSE beginsUpdate(t, task[t]) /\ UNCHANGED <<child, completion>>
  /\ UNCHANGED <<running, index, dirs, known, owed>>

\* The entry was read: a child to stop, an entry without a child, which the
\* request finalises itself, or nothing to do.
found(r) ==
  LET t == Asking(r)
      p == task[t].on
      how == task[t].goal
  IN
  /\ server = "up"
  /\ task[t].at = "find"
  /\ IF index[p] # "absent" /\ p \in running
     THEN /\ terminates(p, how)
          /\ task' = [task EXCEPT ![t].at = "wait"]
          /\ UNCHANGED server
     ELSE IF index[p] = "absent" \/ (index[p] = "stopped" /\ how = "keep")
     THEN /\ task' = [task EXCEPT ![t] = Over]
          /\ UNCHANGED <<child, completion, server>>
     ELSE beginsUpdate(t, task[t]) /\ UNCHANGED <<child, completion>>
  /\ UNCHANGED <<running, index, dirs, known, owed>>

\* Mutant: the cleanup stops one process only.
cleansNext_One(t, left, there) ==
  IF left # {} /\ task[t].at = "idle"
  THEN \E p \in left :
         /\ terminates(p, "remove")
         /\ task' = [task EXCEPT ![t] = Fresh("wait", p, "remove")]
  ELSE /\ task' = [task EXCEPT ![t] = IF there THEN Fresh("rm", None, "keep") ELSE Over]
       /\ UNCHANGED <<completion, child>>

\* cleanupWorkspace: stop the next process of the map, in any order; then
\* remove the directory if the workspace is (still) there.
cleansNext(t, left, there) ==
  IF left # {}
  THEN \E p \in left :
         /\ terminates(p, "remove")
         /\ task' = [task EXCEPT ![t] = Fresh("wait", p, "remove")]
  ELSE /\ task' = [task EXCEPT ![t] = IF there THEN Fresh("rm", None, "keep") ELSE Over]
       /\ UNCHANGED <<completion, child>>

\* waitForExit returns to a cleanup, or to a request, which answers.
waitOver(t, left) ==
  \/ t[1] = "cleanup" /\ cleansNext(t, left, known)
  \/ /\ t[1] = "request"
     /\ task' = [task EXCEPT ![t] = Over]
     /\ UNCHANGED <<completion, child>>

\* exitPromise resolves when the close handler is through.
exitSeen(t) ==
  /\ server = "up"
  /\ task[t].at \in Waiting
  /\ task[Closing(task[t].on)].at = "done"
  /\ waitOver(t, running)
  /\ UNCHANGED <<running, index, dirs, known, server, owed>>

\* 2 s have passed.
escalate(t) ==
  /\ server = "up"
  /\ task[t].at = "wait"
  /\ task' = [task EXCEPT ![t].at = "kill"]
  /\ child' = forced(task[t].on)
  /\ UNCHANGED <<running, completion, index, dirs, known, server, owed>>

\* Mutant: the second timer is not there, a wait ends with the child only.
giveUp_Awaits(t) ==
  /\ task[t].at = "kill"
  /\ child[task[t].on] = "closed"
  /\ exitSeen(t)

\* 5 s have passed: the child, killed by now, is given up although its output
\* is still held by somebody.
giveUp(t) ==
  /\ server = "up"
  /\ task[t].at = "kill"
  /\ running' = running \ {task[t].on}
  /\ waitOver(t, running \ {task[t].on})
  /\ UNCHANGED <<index, dirs, known, server, owed>>

-----------------------------------------------------------------------------
(* The workspace *)

\* A workspace event, with a cleanup whose first turn sees the record (there)
\* or not.  A delete of a running workspace removes the record just after the
\* event, one of a starting or stopped workspace just before it; an exit
\* leaves it.
workspaceEnds(k, there) ==
  /\ server = "up"
  /\ known
  /\ task[Cleaning(k)].at = "idle"
  /\ owed' = [owed EXCEPT ![k] = running]
  /\ cleansNext(Cleaning(k), running, there)
  /\ known' \in IF there THEN BOOLEAN ELSE {FALSE}
  /\ UNCHANGED <<running, index, dirs, server>>

\* A create for the same folder: the same id and the same directory.
workspaceOpens ==
  /\ server = "up"
  /\ ~known
  /\ known' = TRUE
  /\ UNCHANGED <<task, child, running, completion, index, dirs, server, owed>>

\* removeWorkspaceDir is done; files that are being written are unlinked.
dirRemoved(k) ==
  /\ server = "up"
  /\ task[Cleaning(k)].at = "rm"
  /\ task' = [t \in Task |->
                IF t = Cleaning(k) THEN Over
                ELSE IF task[t].at = "write" THEN [task[t] EXCEPT !.at = "lost"] ELSE task[t]]
  /\ index' = NoRecords
  /\ dirs' = {}
  /\ UNCHANGED <<child, running, completion, known, server, owed>>

-----------------------------------------------------------------------------
Next ==
  \/ \E p \in Process : start(p) \/ spawn(p) \/ spawnFails(p)
  \/ \E p \in Process : exits(p) \/ closes(p)
  \/ \E r \in Request, p \in Process, how \in {"keep", "remove"} : request(r, p, how)
  \/ \E r \in Request : found(r)
  \/ \E t \in Task : readIndex(t) \/ writeIndex(t)
  \/ \E t \in Waiter : exitSeen(t) \/ escalate(t) \/ giveUp(t)
  \/ \E k \in Cleanup, there \in BOOLEAN : workspaceEnds(k, there)
  \/ \E k \in Cleanup : dirRemoved(k)
  \/ workspaceOpens

\* The two timers of waitForExit.
Fairness == \A t \in Waiter : WF_vars(escalate(t)) /\ WF_vars(giveUp(t))

Spec == Init /\ [][Next]_vars

FairSpec == Spec /\ Fairness

-----------------------------------------------------------------------------
(* Properties *)

\* An entry that says a process has ended is never wrong, however updates
\* overtake or destroy each other: a stop() that finds no child in the map
\* finalises the entry on its own, and the child is then dead or killed.
StoppedIsDead == \A p \in Process : index[p] = "stopped" => Dead(p)

\* A cleanup that is through has left nothing alive of what ran when its
\* workspace ended, whoever else was stopping, waiting or giving up meanwhile.
CleanupLeavesNone ==
  \A k \in Cleanup : task[Cleaning(k)].at \in {"rm", "done"} => \A p \in owed[k] : Dead(p)

\* Nobody waits for a child for ever, even if its output is never closed.
WaitsEnd ==
  \A t \in Waiter : task[t].at \in Waiting ~> task[t].at \notin Waiting \/ server # "up"

-----------------------------------------------------------------------------
(* What the documents say and the code does not do *)

\* dev-docs/build-roadmap.md: instances can be stopped individually and work
\* independently; ending one must not take the server down.
EndIsIndependent == server # "unhandled"

=============================================================================
