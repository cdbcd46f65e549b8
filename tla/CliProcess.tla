----------------------------- MODULE CliProcess -----------------------------
(***************************************************************************)
(* The server process of the desktop application: CliProcessManager        *)
(* (packages/electron-app/electron/main/process-manager.ts), with the      *)
(* callers of start, stop and forceStop in ipc.ts and main.ts and the      *)
(* exchange of the bootstrap token, on a system with process groups.       *)
(*                                                                         *)
(* Electron's main process runs one job at a time.  A job ends only when   *)
(* its microtasks are done: the calls whose awaited stop has resolved go   *)
(* on before the next event.  `resumed` holds them, and every event waits  *)
(* until it is empty.  Server processes are external.                      *)
(***************************************************************************)
EXTENDS Naturals, FiniteSets

CONSTANTS
  Restarts,            \* calls of cli:restart that may overlap
  Boot, Quit, Install, \* startCli at launch, before-quit, install-update
  MaxChildren          \* bound on the processes that are spawned

Call == Restarts \cup {Boot, Quit, Install}
Child == 1 .. MaxChildren
NoChild == 0

ASSUME CliAssumption ==
  /\ MaxChildren \in Nat
  /\ {Boot, Quit, Install} \cap Restarts = {}
  /\ Boot # Quit /\ Boot # Install /\ Quit # Install
  /\ "no" \notin Call

VARIABLES
  child,          \* the field
  state, url,     \* the field status; url is the child that printed it
  bootstrapToken, \* the child whose token was read since the last start
  pc,             \* how far each call is
  on,             \* the child whose exit a call listens to
  resumed,        \* calls that go on before the next event
  proc, sig,      \* each process, and the last signal it was sent
  read,           \* lines of its output that were read
  pendingToken, inFlight, page, \* main.ts
  ended,          \* the call that ended the application
  gaveUp        \* whether a child was dropped before its exit

status == <<state, url>>
calls == <<pc, on, resumed>>
processes == <<proc, sig, read>>
window == <<pendingToken, inFlight, page>>
vars == <<child, status, bootstrapToken, calls, processes, window, ended, gaveUp>>

NoExchange == [base |-> NoChild, token |-> NoChild]

TypeOK ==
  /\ child \in Child \cup {NoChild}
  /\ state \in {"starting", "ready", "error", "stopped"}
  /\ url \in Child \cup {NoChild} /\ bootstrapToken \in Child \cup {NoChild}
  /\ pc \in [Call -> {"idle", "new", "marking", "stop", "stopInStart",
                      "forceStop", "pending", "installing"}]
  /\ on \in [Call -> Child \cup {NoChild}]
  /\ resumed \in SUBSET Call
  /\ proc \in [Child -> {"none", "alive", "dead", "gone", "failing", "failed"}]
  /\ sig \in [Child -> {"none", "SIGTERM", "SIGKILL"}]
  /\ read \in [Child -> 0 .. 2]
  /\ pendingToken \in Child \cup {NoChild} /\ page \in Child \cup {NoChild}
  /\ inFlight \in [base : Child \cup {NoChild}, token : Child \cup {NoChild}]
  /\ ended \in Call \cup {"no"}
  /\ gaveUp \in BOOLEAN

Init ==
  /\ child = NoChild /\ state = "stopped" /\ url = NoChild /\ bootstrapToken = NoChild
  /\ pc = [k \in Call |-> IF k = Boot THEN "new" ELSE "idle"]
  /\ on = [k \in Call |-> NoChild] /\ resumed = {}
  /\ proc = [c \in Child |-> "none"] /\ sig = [c \in Child |-> "none"]
  /\ read = [c \in Child |-> 0]
  /\ pendingToken = NoChild /\ inFlight = NoExchange
  /\ page = NoChild
  /\ ended = "no" /\ gaveUp = FALSE

Up == ended = "no"
\* The next event may be taken.
Turn == Up /\ resumed = {}

Pending == {k \in Call : pc[k] = "pending"}
\* The promises of all pending starts settle together: each listens with
\* once("ready") and once("error"), which also clear its timer.
settled == [k \in Call |-> IF k \in Pending THEN "idle" ELSE pc[k]]

-----------------------------------------------------------------------------
(* start and stop *)

Unspawned == {c \in Child : proc[c] = "none"}
\* Restarts under way that have yet to spawn.
ToSpawn == {k \in Restarts : pc[k] \in {"stop", "stopInStart"}}

\* start, from where it no longer waits.  The spawn may fail, which the process
\* reports in an event.
spawn(k) ==
  /\ state' = "starting" /\ url' = NoChild /\ bootstrapToken' = NoChild
  /\ pc' = [pc EXCEPT ![k] = "pending"]
  /\ \E c \in Unspawned :
       /\ \A d \in Unspawned : c <= d
       /\ child' = c
       /\ \E outcome \in {"alive", "failing"} : proc' = [proc EXCEPT ![c] = outcome]
  /\ UNCHANGED <<on, sig, read>>

\* Mutant: a process is not sent a second signal.
signalled_Once(c, signal) ==
  [sig EXCEPT ![c] = IF proc[c] = "alive" /\ @ = "none" THEN signal ELSE @]

signalled(c, signal) ==
  [sig EXCEPT ![c] = IF proc[c] = "alive" /\ @ # "SIGKILL" THEN signal ELSE @]

HasPid(c) == proc[c] \notin {"failing", "failed"}

\* stop, called by k, which is then at `where`; the promise resolves at once
\* when there is nothing to stop.
stop(k, where, signal) ==
  /\ pc' = [pc EXCEPT ![k] = where]
  /\ IF child # NoChild /\ HasPid(child)
       THEN /\ on' = [on EXCEPT ![k] = child]
            /\ sig' = signalled(child, signal)
            /\ resumed' = resumed \ {k}
            /\ UNCHANGED <<child, state>>
       ELSE /\ child' = NoChild /\ state' = "stopped"
            /\ resumed' = resumed \cup {k}
            /\ UNCHANGED <<on, sig>>
  /\ UNCHANGED <<url, bootstrapToken, proc, read>>

-----------------------------------------------------------------------------
(* The callers *)

startCli ==
  /\ Turn /\ pc[Boot] = "new"
  /\ spawn(Boot)
  /\ UNCHANGED <<resumed, window, ended, gaveUp>>

\* No executable: start throws after it has set the status, and so would every
\* later one.
startThrows ==
  /\ Turn /\ pc[Boot] = "new"
  /\ state' = "starting"
  /\ pc' = [pc EXCEPT ![Boot] = "idle"]
  /\ UNCHANGED <<child, url, bootstrapToken, on, resumed, processes, window, ended, gaveUp>>

\* cli:restart: the page of the server asks for it.
restart(k) ==
  /\ Turn /\ pc[k] = "idle" /\ page # NoChild
  /\ Cardinality(ToSpawn) < Cardinality(Unspawned)
  /\ stop(k, "stop", "SIGTERM")
  /\ UNCHANGED <<window, ended, gaveUp>>

\* before-quit: it awaits markCleanExit first.
beforeQuit ==
  /\ Turn /\ pc[Quit] = "idle"
  /\ pc' = [pc EXCEPT ![Quit] = "marking"]
  /\ UNCHANGED <<child, status, bootstrapToken, on, resumed, processes, window, ended, gaveUp>>

\* Mutant: the stop is not awaited.
quitMarked_NoStop ==
  /\ Turn /\ pc[Quit] = "marking"
  /\ ended' = Quit
  /\ UNCHANGED <<child, status, bootstrapToken, calls, processes, window, gaveUp>>

quitMarked ==
  /\ Turn /\ pc[Quit] = "marking"
  /\ stop(Quit, "stop", "SIGTERM")
  /\ UNCHANGED <<window, ended, gaveUp>>

installUpdate ==
  /\ Turn /\ pc[Install] = "idle" /\ page # NoChild
  /\ stop(Install, "forceStop", "SIGKILL")
  /\ UNCHANGED <<window, ended, gaveUp>>

\* quitAndInstall: the quit it leads to stops nothing (isUpdating).
installQuits ==
  /\ Turn /\ pc[Install] = "installing"
  /\ ended' = Install
  /\ UNCHANGED <<child, status, bootstrapToken, calls, processes, window, gaveUp>>

\* Mutant: start does not stop what another restart has started.
resumeRestart_NoStop(k) ==
  /\ Up /\ k \in resumed \cap Restarts
  /\ spawn(k) /\ resumed' = resumed \ {k}
  /\ UNCHANGED <<window, ended, gaveUp>>

\* A restart goes on after its stop: its start stops first what another
\* restart has started meanwhile, and does not look again after that.  The
\* listeners of a stop inside start are the older ones of a process.
resumeRestart(k) ==
  /\ Up /\ k \in resumed \cap Restarts
  /\ \/ /\ pc[k] = "stop" /\ \A l \in resumed : pc[l] # "stopInStart"
        /\ \/ child = NoChild /\ spawn(k) /\ resumed' = resumed \ {k}
           \/ child # NoChild /\ stop(k, "stopInStart", "SIGTERM")
     \/ pc[k] = "stopInStart" /\ spawn(k) /\ resumed' = resumed \ {k}
  /\ UNCHANGED <<window, ended, gaveUp>>

\* A quit and an install await stop().catch(): one microtask after the restarts.
resumeQuit ==
  /\ Up /\ Quit \in resumed /\ resumed \cap Restarts = {}
  /\ ended' = Quit
  /\ UNCHANGED <<child, status, bootstrapToken, calls, processes, window, gaveUp>>

resumeInstall ==
  /\ Up /\ Install \in resumed /\ resumed \cap Restarts = {}
  /\ resumed' = resumed \ {Install}
  /\ pc' = [pc EXCEPT ![Install] = "installing"]
  /\ UNCHANGED <<child, status, bootstrapToken, on, processes, window, ended, gaveUp>>

-----------------------------------------------------------------------------
(* Timers *)

\* stop: SIGKILL after 30 seconds, once it matters.
killTimeout(k) ==
  /\ Turn /\ pc[k] \in {"stop", "stopInStart"} /\ on[k] # NoChild
  /\ proc[on[k]] = "alive" /\ sig[on[k]] # "SIGKILL"
  /\ sig' = signalled(on[k], "SIGKILL")
  /\ UNCHANGED <<child, status, bootstrapToken, pc, on, resumed, proc, read, window, ended, gaveUp>>

\* forceStop gives up after 10 seconds; its listener stays.
forceTimeout ==
  /\ Turn /\ pc[Install] = "forceStop"
  /\ child' = NoChild /\ state' = "stopped"
  /\ resumed' = {Install}
  /\ gaveUp' = TRUE
  /\ UNCHANGED <<url, bootstrapToken, pc, on, processes, window, ended>>

\* Mutant: the time-out is only told to the callers.
handleTimeout_KeepsStatus(k) ==
  /\ Turn /\ pc[k] = "pending"
  /\ IF child # NoChild THEN sig' = signalled(child, "SIGKILL") ELSE UNCHANGED sig
  /\ child' = NoChild
  /\ pc' = settled
  /\ gaveUp' = TRUE
  /\ UNCHANGED <<status, bootstrapToken, on, resumed, proc, read, window, ended>>

\* start: after 60 seconds it kills the child of the field, whichever it is.
handleTimeout(k) ==
  /\ Turn /\ pc[k] = "pending"
  /\ IF child # NoChild THEN sig' = signalled(child, "SIGKILL") ELSE UNCHANGED sig
  /\ child' = NoChild
  /\ state' = "error"
  /\ pc' = settled
  /\ gaveUp' = TRUE
  /\ UNCHANGED <<url, bootstrapToken, on, resumed, proc, read, window, ended>>

-----------------------------------------------------------------------------
(* Events of a process *)

dies(c) ==
  /\ Up /\ proc[c] = "alive"
  /\ proc' = [proc EXCEPT ![c] = "dead"]
  /\ UNCHANGED <<child, status, bootstrapToken, calls, sig, read, window, ended, gaveUp>>

\* The listener of start comes first, then those of the stops.
onExit(c) ==
  /\ Turn /\ proc[c] = "dead"
  /\ proc' = [proc EXCEPT ![c] = "gone"]
  /\ LET listeners == {k \in Call : on[k] = c}
     IN /\ state' = IF listeners # {} \/ state = "ready" THEN "stopped" ELSE "error"
        /\ resumed' = {k \in listeners : pc[k] \in {"stop", "stopInStart", "forceStop"}}
        /\ on' = [k \in Call |-> IF k \in listeners THEN NoChild ELSE on[k]]
  /\ pc' = IF state # "ready" THEN settled ELSE pc
  /\ child' = NoChild
  /\ UNCHANGED <<url, bootstrapToken, sig, read, window, ended, gaveUp>>

onError(c) ==
  /\ Turn /\ proc[c] = "failing"
  /\ proc' = [proc EXCEPT ![c] = "failed"]
  /\ state' = "error"
  /\ pc' = settled
  /\ UNCHANGED <<child, url, bootstrapToken, on, resumed, sig, read, window, ended, gaveUp>>

\* One exchange at a time; without a token the page is opened at once.
maybeExchangeAndNavigate(base, token) ==
  IF inFlight # NoExchange THEN UNCHANGED <<inFlight, page>>
  ELSE IF token = NoChild THEN page' = base /\ UNCHANGED inFlight
  ELSE /\ inFlight' = [base |-> base, token |-> token]
       /\ UNCHANGED page

\* A line is read at any time after it was printed, also after the exit.
Reads(c, line) ==
  /\ Turn /\ read[c] = line - 1 /\ proc[c] \in {"alive", "dead", "gone"}
  /\ read' = [read EXCEPT ![c] = line]
  /\ UNCHANGED <<child, on, resumed, proc, sig, ended, gaveUp>>

\* The first line is the token; only the first one after a start counts.
readsToken(c) ==
  /\ Reads(c, 1)
  /\ UNCHANGED <<status, pc>>
  /\ IF bootstrapToken # NoChild THEN UNCHANGED <<bootstrapToken, window>>
     ELSE /\ bootstrapToken' = c
          /\ pendingToken' = c
          /\ IF url # NoChild THEN maybeExchangeAndNavigate(url, c)
                              ELSE UNCHANGED <<inFlight, page>>

\* The second one is the local URL; it counts while the server is starting.
readsUrl(c) ==
  /\ Reads(c, 2)
  /\ UNCHANGED <<bootstrapToken, pendingToken>>
  /\ IF state # "starting" THEN UNCHANGED <<status, pc, inFlight, page>>
     ELSE /\ state' = "ready" /\ url' = c
          /\ pc' = settled
          /\ maybeExchangeAndNavigate(c, pendingToken)

\* Mutant: an exchange that fails opens nothing.
exchanged_NoLogin ==
  /\ Turn /\ inFlight # NoExchange
  /\ page' \in {page, inFlight.base}
  /\ pendingToken' = NoChild /\ inFlight' = NoExchange
  /\ UNCHANGED <<child, status, bootstrapToken, calls, processes, ended, gaveUp>>

\* An answer of any kind, or an error: the page of the server is opened, or
\* its login page.
exchanged ==
  /\ Turn /\ inFlight # NoExchange
  /\ page' = inFlight.base
  /\ pendingToken' = NoChild /\ inFlight' = NoExchange
  /\ UNCHANGED <<child, status, bootstrapToken, calls, processes, ended, gaveUp>>

-----------------------------------------------------------------------------

Next ==
  \/ startCli \/ startThrows \/ beforeQuit \/ quitMarked \/ installUpdate \/ installQuits
  \/ resumeQuit \/ resumeInstall \/ forceTimeout \/ exchanged
  \/ \E k \in Restarts : restart(k) \/ resumeRestart(k)
  \/ \E k \in Call : killTimeout(k) \/ handleTimeout(k)
  \/ \E c \in Child : dies(c) \/ onExit(c) \/ onError(c)
                      \/ readsToken(c) \/ readsUrl(c)

Spec == Init /\ [][Next]_vars

\* A live server may never answer the request that exchanges its token, which
\* has no timeout.
NotAnswered == inFlight # NoExchange /\ proc[inFlight.base] = "alive"

\* What happens in any case: timers fire, events are delivered, jobs end, a
\* process that was sent SIGKILL dies, and requests to a dead one fail.  Nothing
\* says that a server prints, answers, or heeds a SIGTERM.  A behaviour has
\* finitely many steps, so that the loop need only not stand still.
EventLoop ==
  \/ startCli \/ quitMarked \/ installQuits \/ resumeQuit \/ resumeInstall
  \/ forceTimeout \/ (~NotAnswered /\ exchanged)
  \/ \E k \in Restarts : resumeRestart(k)
  \/ \E k \in Call : killTimeout(k) \/ handleTimeout(k)
  \/ \E c \in Child : onExit(c) \/ onError(c) \/ (sig[c] = "SIGKILL" /\ dies(c))

Fairness == WF_vars(EventLoop)

FairSpec == Spec /\ Fairness

-----------------------------------------------------------------------------
(* What holds *)

\* The status tells whether there is a process to stop: while a server starts
\* or is ready the field has a child, and when it is stopped it has none; only
\* a start without an executable is never seen to end (updateStatus and every
\* assignment of this.child).
StatusMatchesChild ==
  /\ state = "ready" => child # NoChild
  /\ state = "starting" => child # NoChild \/ \A c \in Child : proc[c] = "none"
  /\ state = "stopped" => child = NoChild

Running(c) == proc[c] = "alive" /\ sig[c] = "none"

\* Restarts that overlap leave one server, the child of the field, until one
\* is given up before its exit: the late exit then empties the field of the
\* next one (handleTimeout, forceStop, the exit listener of start).
OneServer ==
  Up /\ ~gaveUp => \A c \in Child : Running(c) => c = child

\* A quit leaves a server behind only if a restart was waiting for the same
\* exit, and has started it in the job that ends the application.
QuitLeavesNone ==
  ended = Quit /\ ~gaveUp =>
    \A c \in Child : Running(c) => c = child /\ \E k \in Restarts : pc[k] = "pending"

\* Every stop, start and quit ends, whatever overlaps it, or the application
\* does: stops by SIGKILL, starts by their timer or by an event of another.
\* Calls are finitely many here, so that in the end none is under way.
CallsEnd == []<>(Up => \A k \in Call : pc[k] = "idle")

\* Once a server was ready, a page is shown, whatever becomes of the token, the
\* server and the exchange; only a server that lives and never answers keeps
\* the user waiting (maybeExchangeAndNavigate: every other end opens a page).
ReadyIsShown == state = "ready" ~> [](page # NoChild \/ NotAnswered \/ ~Up)

=============================================================================
