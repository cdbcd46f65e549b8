----------------------------- MODULE CliManager -----------------------------
(***************************************************************************)
(* The server process of the Tauri application: CliProcessManager          *)
(* (packages/tauri-app/src-tauri/src/cli_manager.rs) and its callers in    *)
(* main.rs, on a system with process groups.                               *)
(*                                                                         *)
(* Unlike the Electron manager this one runs on threads.  The main thread  *)
(* serves the restart command and the event loop, launch and quit have a   *)
(* thread each, and every start makes a thread that spawns, one that opens *)
(* the output, one that reads it, one that sleeps for a minute and one     *)
(* that looks whether the child has exited.  They share the fields of the  *)
(* manager under two mutexes.                                              *)
(*                                                                         *)
(* A step is what a thread does between two points at which another may    *)
(* interfere.  The mutexes have no variable: ChildFree and StatusFree say  *)
(* at which places a thread holds one of them from a step to the next.     *)
(* Servers, their start that may take any time, and what they print are    *)
(* external.                                                               *)
(***************************************************************************)
EXTENDS Naturals

CONSTANTS
  MaxChildren, \* bound on the starts
  Overlap      \* the user restarts while a start or a quit is under way

Child == 1 .. MaxChildren
NoChild == 0

VARIABLES
  child,       \* the field
  state, url,  \* the field status; url is the child that printed it
  ready,
  token,       \* bootstrap_token: the child that printed it
  at, inStart, \* where each caller is, and whether its stop is that of a start
  on,          \* the child a stop has taken
  spawner, opener, reader, timer, watcher, \* the threads of each start
  proc, sig,   \* each process, and the last signal it was sent
  page,        \* whose page the main window shows
  ended        \* the application has exited

Caller == {"launch", "main", "quit"}

caller == <<at, inStart, on>>
threads == <<spawner, opener, reader, timer, watcher>>
processes == <<proc, sig>>
vars == <<child, state, url, ready, token, caller, threads, processes, page, ended>>

TypeOK ==
  /\ child \in Child \cup {NoChild} /\ url \in Child \cup {NoChild}
  /\ state \in {"starting", "ready", "error", "stopped"}
  /\ ready \in BOOLEAN /\ token \in Child \cup {NoChild}
  /\ at \in [Caller -> {"idle", "stop", "waits", "stopped", "resets", "marks", "returns", "exits"}]
  /\ inStart \in [Caller -> BOOLEAN] /\ on \in [Caller -> Child \cup {NoChild}]
  /\ spawner \in [Child -> {"none", "resolves", "failed", "spawned", "told", "stored"}]
  /\ opener \in [Child -> {"none", "opens", "done"}]
  /\ reader \in [Child -> {"none", "token", "url", "marks", "locks", "exchanges", "done"}]
  /\ timer \in [Child -> {"none", "sleeps", "fires", "locked", "done"}]
  /\ watcher \in [Child -> {"none", "polls", "reports", "done"}]
  /\ proc \in [Child -> {"none", "alive", "dead"}]
  /\ sig \in [Child -> {"none", "SIGTERM", "SIGKILL"}]
  /\ page \in Child \cup {NoChild} /\ ended \in BOOLEAN

Init ==
  /\ child = NoChild /\ state = "stopped" /\ url = NoChild
  /\ ready = FALSE /\ token = NoChild
  /\ at = [k \in Caller |-> IF k = "launch" THEN "stop" ELSE "idle"]
  /\ inStart = [k \in Caller |-> k = "launch"]
  /\ on = [k \in Caller |-> NoChild]
  /\ spawner = [c \in Child |-> "none"] /\ opener = [c \in Child |-> "none"]
  /\ reader = [c \in Child |-> "none"] /\ timer = [c \in Child |-> "none"]
  /\ watcher = [c \in Child |-> "none"]
  /\ proc = [c \in Child |-> "none"] /\ sig = [c \in Child |-> "none"]
  /\ page = NoChild /\ ended = FALSE

\* Mutant: the watcher holds the mutex while it waits for the exit.
ChildFree_Watched ==
  /\ \A k \in Caller : at[k] \notin {"waits", "stopped"}
  /\ \A c \in Child : watcher[c] = "polls" /\ child # NoChild => proc[child] # "alive"

\* The mutex of child is held by a stop until it returns.
ChildFree == \A k \in Caller : at[k] \notin {"waits", "stopped"}

\* The mutex of status is held by a timer that waits for the child, and while
\* the token is exchanged.
StatusFree == \A c \in Child : timer[c] # "locked" /\ reader[c] # "exchanges"

signalled(c, signal) ==
  [sig EXCEPT ![c] = IF proc[c] = "alive" /\ @ # "SIGKILL" THEN signal ELSE @]

Goes(k, place) == at' = [at EXCEPT ![k] = place]

-----------------------------------------------------------------------------
(* stop *)

\* Mutant: a server that is not ready is not signalled.
takesChild_Ready(k) ==
  /\ at[k] = "stop" /\ ChildFree
  /\ child' = NoChild
  /\ on' = [on EXCEPT ![k] = child]
  /\ IF child = NoChild \/ ~ready
     THEN Goes(k, "stopped") /\ UNCHANGED sig
     ELSE Goes(k, "waits") /\ sig' = signalled(child, "SIGTERM")
  /\ UNCHANGED <<state, url, ready, token, inStart, threads, proc, page, ended>>

takesChild(k) ==
  /\ at[k] = "stop" /\ ChildFree
  /\ child' = NoChild
  /\ on' = [on EXCEPT ![k] = child]
  /\ IF child = NoChild
     THEN Goes(k, "stopped") /\ UNCHANGED sig
     ELSE Goes(k, "waits") /\ sig' = signalled(child, "SIGTERM")
  /\ UNCHANGED <<state, url, ready, token, inStart, threads, proc, page, ended>>

exitSeen(k) ==
  /\ at[k] = "waits" /\ proc[on[k]] = "dead"
  /\ Goes(k, "stopped")
  /\ UNCHANGED <<child, state, url, ready, token, inStart, on, threads, processes, page, ended>>

\* After 30 seconds; it does not wait for the effect.
graceEnds(k) ==
  /\ at[k] = "waits"
  /\ sig' = signalled(on[k], "SIGKILL")
  /\ Goes(k, "stopped")
  /\ UNCHANGED <<child, state, url, ready, token, inStart, on, threads, proc, page, ended>>

\* What comes after the stop: the rest of a start, the start of a restart, the
\* end of the application.
stopped(k) ==
  /\ at[k] = "stopped" /\ StatusFree
  /\ state' = "stopped" /\ url' = NoChild
  /\ on' = [on EXCEPT ![k] = NoChild]
  /\ Goes(k, CASE inStart[k] -> "resets" [] k = "main" -> "stop" [] k = "quit" -> "exits")
  /\ inStart' = [inStart EXCEPT ![k] = k = "main"]
  /\ UNCHANGED <<child, ready, token, threads, processes, page, ended>>

-----------------------------------------------------------------------------
(* start *)

resets(k) ==
  /\ at[k] = "resets"
  /\ ready' = FALSE /\ token' = NoChild
  /\ Goes(k, "marks")
  /\ UNCHANGED <<child, state, url, inStart, on, threads, processes, page, ended>>

Unused == {c \in Child : spawner[c] = "none"}

marksStarting(k) ==
  /\ at[k] = "marks" /\ StatusFree
  /\ state' = "starting" /\ url' = NoChild
  /\ \E c \in Unused :
       /\ \A d \in Unused : c <= d
       /\ spawner' = [spawner EXCEPT ![c] = "resolves"]
  /\ Goes(k, IF k = "main" THEN "returns" ELSE "idle")
  /\ inStart' = [inStart EXCEPT ![k] = FALSE]
  /\ UNCHANGED <<child, ready, token, on, opener, reader, timer, watcher, processes, page, ended>>

\* The command answers with the status.
returns ==
  /\ at["main"] = "returns" /\ StatusFree
  /\ Goes("main", "idle")
  /\ UNCHANGED <<child, state, url, ready, token, inStart, on, threads, processes, page, ended>>

-----------------------------------------------------------------------------
(* spawn_cli *)

\* No entry, or the spawn fails.
spawnFails(c) ==
  /\ spawner[c] = "resolves" /\ StatusFree
  /\ spawner' = [spawner EXCEPT ![c] = "failed"]
  /\ state' = "error"
  /\ UNCHANGED <<child, url, ready, token, caller, opener, reader, timer, watcher,
                 processes, page, ended>>

spawns(c) ==
  /\ spawner[c] = "resolves"
  /\ spawner' = [spawner EXCEPT ![c] = "spawned"]
  /\ proc' = [proc EXCEPT ![c] = "alive"]
  /\ UNCHANGED <<child, state, url, ready, token, caller, opener, reader, timer, watcher,
                 sig, page, ended>>

\* The pid is written to the status.
tellsPid(c) ==
  /\ spawner[c] = "spawned" /\ StatusFree
  /\ spawner' = [spawner EXCEPT ![c] = "told"]
  /\ UNCHANGED <<child, state, url, ready, token, caller, opener, reader, timer, watcher,
                 processes, page, ended>>

\* What was in the field is dropped, which does not end it.
storesChild(c) ==
  /\ spawner[c] = "told" /\ ChildFree
  /\ spawner' = [spawner EXCEPT ![c] = "stored"]
  /\ child' = c
  /\ opener' = [opener EXCEPT ![c] = "opens"]
  /\ timer' = [timer EXCEPT ![c] = "sleeps"]
  /\ watcher' = [watcher EXCEPT ![c] = "polls"]
  /\ UNCHANGED <<state, url, ready, token, caller, reader, processes, page, ended>>

\* The output of the child of the field is read, which may be a later one.
opensOutput(c) ==
  /\ opener[c] = "opens" /\ ChildFree
  /\ opener' = [opener EXCEPT ![c] = "done"]
  /\ reader' = IF child # NoChild /\ reader[child] = "none"
               THEN [reader EXCEPT ![child] = "token"] ELSE reader
  /\ UNCHANGED <<child, state, url, ready, token, caller, spawner, timer, watcher,
                 processes, page, ended>>

-----------------------------------------------------------------------------
(* process_stream: the token and the local URL are the lines that count.    *)
(* They may be read at any time after they were printed.                    *)

Reads(c, from, to) ==
  /\ reader[c] = from
  /\ reader' = [reader EXCEPT ![c] = to]

\* A process that has ended without a line ends the stream.
streamEnds(c) ==
  /\ reader[c] \in {"token", "url"} /\ proc[c] = "dead"
  /\ reader' = [reader EXCEPT ![c] = "done"]
  /\ UNCHANGED <<child, state, url, ready, token, caller, spawner, opener, timer, watcher,
                 processes, page, ended>>

readsToken(c) ==
  /\ Reads(c, "token", "url")
  /\ token' = IF token = NoChild THEN c ELSE token
  /\ UNCHANGED <<child, state, url, ready, caller, spawner, opener, timer, watcher,
                 processes, page, ended>>

readsUrl(c) ==
  /\ Reads(c, "url", IF ready THEN "done" ELSE "marks")
  /\ UNCHANGED <<child, state, url, ready, token, caller, spawner, opener, timer, watcher,
                 processes, page, ended>>

marksReady(c) ==
  /\ Reads(c, "marks", "locks")
  /\ ready' = TRUE
  /\ UNCHANGED <<child, state, url, token, caller, spawner, opener, timer, watcher,
                 processes, page, ended>>

\* Without a token the page is opened at once.
locksStatus(c) ==
  /\ StatusFree
  /\ Reads(c, "locks", IF token = NoChild THEN "done" ELSE "exchanges")
  /\ state' = "ready" /\ url' = c
  /\ token' = NoChild
  /\ page' = IF token = NoChild THEN c ELSE page
  /\ UNCHANGED <<child, ready, caller, spawner, opener, timer, watcher, processes, ended>>

\* An answer of any kind, or a connection that breaks, opens the page of the
\* server or its login page.
exchanged(c) ==
  /\ Reads(c, "exchanges", "done")
  /\ page' = c
  /\ UNCHANGED <<child, state, url, ready, token, caller, spawner, opener, timer, watcher,
                 processes, ended>>

-----------------------------------------------------------------------------
(* The timer *)

wakes(c) ==
  /\ timer[c] = "sleeps"
  /\ timer' = [timer EXCEPT ![c] = IF ready THEN "done" ELSE "fires"]
  /\ UNCHANGED <<child, state, url, ready, token, caller, spawner, opener, reader, watcher,
                 processes, page, ended>>

\* Mutant: the callers are told, the status is not changed.
timesOut_Silent(c) ==
  /\ timer[c] = "fires" /\ StatusFree
  /\ timer' = [timer EXCEPT ![c] = "locked"]
  /\ UNCHANGED <<child, state, url, ready, token, caller, spawner, opener, reader, watcher,
                 processes, page, ended>>

timesOut(c) ==
  /\ timer[c] = "fires" /\ StatusFree
  /\ timer' = [timer EXCEPT ![c] = "locked"]
  /\ state' = "error"
  /\ UNCHANGED <<child, url, ready, token, caller, spawner, opener, reader, watcher,
                 processes, page, ended>>

\* It kills the child of the field, whichever it is.
kills(c) ==
  /\ timer[c] = "locked" /\ ChildFree
  /\ timer' = [timer EXCEPT ![c] = "done"]
  /\ sig' = IF child = NoChild THEN sig ELSE signalled(child, "SIGKILL")
  /\ UNCHANGED <<child, state, url, ready, token, caller, spawner, opener, reader, watcher,
                 proc, page, ended>>

-----------------------------------------------------------------------------
(* The watcher looks at the child of the field, whichever it is. *)

watches(c) ==
  /\ watcher[c] = "polls" /\ ChildFree
  /\ \/ /\ child = NoChild
        /\ watcher' = [watcher EXCEPT ![c] = "done"]
     \/ /\ child # NoChild /\ proc[child] = "dead"
        /\ watcher' = [watcher EXCEPT ![c] = "reports"]
  /\ child' = NoChild
  /\ UNCHANGED <<state, url, ready, token, caller, spawner, opener, reader, timer,
                 processes, page, ended>>

reports(c) ==
  /\ watcher[c] = "reports" /\ StatusFree
  /\ watcher' = [watcher EXCEPT ![c] = "done"]
  /\ state' = IF state = "ready" THEN "stopped" ELSE "error"
  /\ UNCHANGED <<child, url, ready, token, caller, spawner, opener, reader, timer,
                 processes, page, ended>>

-----------------------------------------------------------------------------
(* The user, the event loop and the processes *)

\* A start is over when its status is told and none of its threads may change
\* the fields any more but the watcher.
Settled ==
  /\ at["launch"] = "idle" /\ at["main"] = "idle"
  /\ state # "starting"
  /\ \A c \in Child :
       /\ spawner[c] \in {"none", "failed", "stored"}
       /\ opener[c] # "opens" /\ reader[c] \in {"none", "done"}

\* cli_restart: the page of a server asks for it.
cli_restart ==
  /\ at["main"] = "idle" /\ page # NoChild /\ Unused # {}
  /\ Overlap \/ (Settled /\ at["quit"] = "idle")
  /\ Goes("main", "stop")
  /\ UNCHANGED <<child, state, url, ready, token, inStart, on, threads, processes, page, ended>>

\* ExitRequested, or the last window is gone
exitRequested ==
  /\ at["main"] = "idle" /\ at["quit"] = "idle"
  /\ Goes("quit", "stop")
  /\ UNCHANGED <<child, state, url, ready, token, inStart, on, threads, processes, page, ended>>

\* app.exit is carried out by the event loop.
exits ==
  /\ at["quit"] = "exits" /\ at["main"] = "idle"
  /\ ended' = TRUE
  /\ UNCHANGED <<child, state, url, ready, token, caller, threads, processes, page>>

dies(c) ==
  /\ proc[c] = "alive"
  /\ proc' = [proc EXCEPT ![c] = "dead"]
  /\ UNCHANGED <<child, state, url, ready, token, caller, threads, sig, page, ended>>

-----------------------------------------------------------------------------

stop(k) == takesChild(k) \/ exitSeen(k) \/ graceEnds(k) \/ stopped(k)

start(k) == resets(k) \/ marksStarting(k)

spawn_cli(c) == spawnFails(c) \/ spawns(c) \/ tellsPid(c) \/ storesChild(c) \/ opensOutput(c)

mark_ready(c) == marksReady(c) \/ locksStatus(c) \/ exchanged(c)

process_stream(c) == streamEnds(c) \/ readsToken(c) \/ readsUrl(c) \/ mark_ready(c)

timeout(c) == wakes(c) \/ timesOut(c) \/ kills(c)

watch(c) == watches(c) \/ reports(c)

Next ==
  /\ ~ended
  /\ \/ \E k \in Caller : stop(k) \/ start(k)
     \/ returns \/ cli_restart \/ exitRequested \/ exits
     \/ \E c \in Child :
          spawn_cli(c) \/ process_stream(c) \/ timeout(c) \/ watch(c) \/ dies(c)

Spec == Init /\ [][Next]_vars

\* What happens in any case: threads run, timers fire, a process that was sent
\* SIGKILL dies, and the connection to a process that has ended breaks.  Nothing
\* says that a server prints, answers, or heeds a SIGTERM.  A behaviour has
\* finitely many steps, so that the threads need only not all stand still.
Threads ==
  /\ ~ended
  /\ \/ \E k \in Caller : stop(k) \/ start(k)
     \/ returns \/ exits
     \/ \E c \in Child :
          \/ spawn_cli(c) \/ marksReady(c) \/ locksStatus(c) \/ timeout(c) \/ watch(c)
          \/ (proc[c] = "dead" /\ exchanged(c)) \/ (sig[c] = "SIGKILL" /\ dies(c))

Fairness == WF_vars(Threads)

FairSpec == Spec /\ Fairness

-----------------------------------------------------------------------------
(* What holds if starts do not overlap *)

Running(c) == proc[c] = "alive" /\ sig[c] = "none"

\* Every server that was not told to end is reached by the next stop, or is on
\* its way to the field (stop, spawn_cli, the thread that looks for the exit).
EveryServerIsHeld ==
  \A c \in Child : Running(c) => c = child \/ spawner[c] \in {"spawned", "told"}

\* A stop holds child and waits for status, a timer holds status and waits for
\* child.
Embrace ==
  \E k \in Caller, c \in Child : at[k] = "stopped" /\ timer[c] = "locked"

\* Every start comes to an end that the window is told (the timer, the watcher,
\* mark_ready, the error of spawn_cli).
StartSettles == (state = "starting" /\ ~ended) ~> (state # "starting" \/ ended)

\* A quit ends the application whatever the server does, and whichever threads
\* are under way, unless a stop and a timer wait for each other (stop, the
\* handlers of ExitRequested and Destroyed).
QuitEnds == (at["quit"] = "stop") ~> (ended \/ Embrace)

-----------------------------------------------------------------------------
(* What a comment says and the code does not do: no mutex is held where it  *)
(* keeps stop() from ending (cli_manager.rs:877).                           *)
StopIsNotDeadlocked == ~Embrace

=============================================================================
