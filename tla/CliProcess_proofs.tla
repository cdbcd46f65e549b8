------------------------- MODULE CliProcess_proofs -------------------------
(***************************************************************************)
(* Theorems about the server process under the desktop applications, for   *)
(* any number of restarts and of processes.  CliProcess: the status that   *)
(* the window shows tells whether there is a process to stop, whatever     *)
(* calls, timers and events overlap; and two restarts and a quit that      *)
(* overlap leave one server, and none after the quit.  CliManager: every   *)
(* server that was not told to end is reached by the next stop.            *)
(***************************************************************************)
EXTENDS MCDesktop, TLAPS

-----------------------------------------------------------------------------
(* Type correctness *)

\* The field after a spawn is a child, and its process is a new one.
LEMMA SpawnType ==
  ASSUME TypeOK, NEW k \in Call, spawn(k)
  PROVE  /\ child' \in Child /\ state' = "starting" /\ url' = NoChild
         /\ bootstrapToken' = NoChild
         /\ pc' \in [Call -> {"idle", "new", "marking", "stop", "stopInStart",
                              "forceStop", "pending", "installing"}]
         /\ pc' = [pc EXCEPT ![k] = "pending"]
         /\ proc' \in [Child -> {"none", "alive", "dead", "gone", "failing", "failed"}]
         /\ UNCHANGED <<on, sig, read>>
BY DEF spawn, TypeOK, Unspawned

\* What a signal leaves is a signal for each process.
LEMMA SignalledType ==
  ASSUME TypeOK, NEW c \in Child, NEW signal \in {"SIGTERM", "SIGKILL"}
  PROVE  signalled(c, signal) \in [Child -> {"none", "SIGTERM", "SIGKILL"}]
BY DEF signalled, TypeOK

\* A stop keeps the types; it stops at once, with an empty field, or leaves the
\* field and the status as they are.
LEMMA StopType ==
  ASSUME TypeOK, NEW k \in Call, NEW where \in {"stop", "stopInStart", "forceStop"},
         NEW signal \in {"SIGTERM", "SIGKILL"}, stop(k, where, signal)
  PROVE  /\ \/ child' = child /\ state' = state
            \/ child' = NoChild /\ state' = "stopped"
         /\ pc' = [pc EXCEPT ![k] = where]
         /\ pc' \in [Call -> {"idle", "new", "marking", "stop", "stopInStart",
                              "forceStop", "pending", "installing"}]
         /\ on' \in [Call -> Child \cup {NoChild}]
         /\ resumed' \in SUBSET Call
         /\ sig' \in [Child -> {"none", "SIGTERM", "SIGKILL"}]
         /\ UNCHANGED <<url, bootstrapToken, proc, read>>
<1>1. CASE child # NoChild /\ HasPid(child)
  <2>1. child \in Child
    BY <1>1 DEF TypeOK
  <2>2. signalled(child, signal) \in [Child -> {"none", "SIGTERM", "SIGKILL"}]
    BY <2>1, SignalledType
  <2> QED
    BY <1>1, <2>1, <2>2 DEF stop, TypeOK
<1>2. CASE ~(child # NoChild /\ HasPid(child))
  BY <1>2 DEF stop, TypeOK
<1> QED
  BY <1>1, <1>2

\* The calls after the pending starts have settled.
LEMMA SettledType ==
  ASSUME TypeOK
  PROVE  settled \in [Call -> {"idle", "new", "marking", "stop", "stopInStart",
                               "forceStop", "pending", "installing"}]
BY DEF settled, TypeOK

\* An exchange begins, or the page is opened, for a child.
LEMMA NavigateType ==
  ASSUME TypeOK, NEW base \in Child, NEW tok \in Child \cup {NoChild},
         maybeExchangeAndNavigate(base, tok)
  PROVE  /\ page' \in Child \cup {NoChild}
         /\ inFlight' \in [base : Child \cup {NoChild}, token : Child \cup {NoChild}]
BY DEF maybeExchangeAndNavigate, TypeOK, NoExchange

\* Every variable keeps its type.
THEOREM TypeCorrect == Spec => []TypeOK
<1>1. Init => TypeOK
  <2> SUFFICES ASSUME Init PROVE TypeOK
    OBVIOUS
  <2>1. /\ pc \in [Call -> {"idle", "new", "marking", "stop", "stopInStart",
                           "forceStop", "pending", "installing"}]
        /\ on \in [Call -> Child \cup {NoChild}]
        /\ resumed \in SUBSET Call
    BY DEF Init
  <2>2. /\ proc \in [Child -> {"none", "alive", "dead", "gone", "failing", "failed"}]
        /\ sig \in [Child -> {"none", "SIGTERM", "SIGKILL"}]
        /\ read \in [Child -> 0 .. 2]
    BY DEF Init
  <2> QED
    BY <2>1, <2>2 DEF Init, TypeOK, NoExchange
<1>2. TypeOK /\ [Next]_vars => TypeOK'
  <2> SUFFICES ASSUME TypeOK, [Next]_vars PROVE TypeOK'
    OBVIOUS
  <2> USE DEF status, calls, processes, window
  <2>1. CASE startCli
    <3>1. Boot \in Call
      BY DEF Call
    <3> QED
      BY <2>1, <3>1, SpawnType DEF startCli, TypeOK
  <2>2. CASE startThrows
    BY <2>2 DEF startThrows, TypeOK
  <2>3. CASE beforeQuit
    BY <2>3 DEF beforeQuit, TypeOK
  <2>4. CASE quitMarked
    <3>1. Quit \in Call
      BY DEF Call
    <3> QED
      BY <2>4, <3>1, StopType DEF quitMarked, TypeOK
  <2>5. CASE installUpdate
    <3>1. Install \in Call
      BY DEF Call
    <3> QED
      BY <2>5, <3>1, StopType DEF installUpdate, TypeOK
  <2>6. CASE installQuits
    BY <2>6 DEF installQuits, TypeOK, Call
  <2>7. CASE resumeQuit
    BY <2>7 DEF resumeQuit, TypeOK, Call
  <2>8. CASE resumeInstall
    BY <2>8 DEF resumeInstall, TypeOK
  <2>9. CASE forceTimeout
    BY <2>9 DEF forceTimeout, TypeOK, Call
  <2>10. CASE exchanged
    BY <2>10 DEF exchanged, TypeOK, NoExchange
  <2>11. ASSUME NEW k \in Restarts, restart(k) PROVE TypeOK'
    <3>1. k \in Call
      BY DEF Call
    <3> QED
      BY <2>11, <3>1, StopType DEF restart, TypeOK
  <2>12. ASSUME NEW k \in Restarts, resumeRestart(k) PROVE TypeOK'
    <3>1. k \in Call
      BY DEF Call
    <3>2. CASE spawn(k) /\ resumed' = resumed \ {k}
      BY <2>12, <3>1, <3>2, SpawnType DEF resumeRestart, TypeOK
    <3>3. CASE stop(k, "stopInStart", "SIGTERM")
      BY <2>12, <3>1, <3>3, StopType DEF resumeRestart, TypeOK
    <3> QED
      BY <2>12, <3>2, <3>3 DEF resumeRestart
  <2>13. ASSUME NEW k \in Call, killTimeout(k) PROVE TypeOK'
    <3>1. on[k] \in Child
      BY <2>13 DEF killTimeout, TypeOK
    <3> QED
      BY <2>13, <3>1, SignalledType DEF killTimeout, TypeOK
  <2>14. ASSUME NEW k \in Call, handleTimeout(k) PROVE TypeOK'
    <3>1. sig' \in [Child -> {"none", "SIGTERM", "SIGKILL"}]
      <4>1. CASE child = NoChild
        BY <2>14, <4>1 DEF handleTimeout, TypeOK
      <4>2. CASE child # NoChild
        BY <2>14, <4>2, SignalledType DEF handleTimeout, TypeOK
      <4> QED
        BY <4>1, <4>2
    <3> QED
      BY <2>14, <3>1, SettledType DEF handleTimeout, TypeOK
  <2>15. ASSUME NEW c \in Child, dies(c) PROVE TypeOK'
    BY <2>15 DEF dies, TypeOK
  <2>16. ASSUME NEW c \in Child, onExit(c) PROVE TypeOK'
    BY <2>16, SettledType DEF onExit, TypeOK
  <2>17. ASSUME NEW c \in Child, onError(c) PROVE TypeOK'
    BY <2>17, SettledType DEF onError, TypeOK
  <2>18. ASSUME NEW c \in Child, readsToken(c) PROVE TypeOK'
    <3>1. Reads(c, 1) /\ UNCHANGED <<status, pc>>
      BY <2>18 DEF readsToken
    <3>2. read' \in [Child -> 0 .. 2]
      BY <3>1 DEF Reads, TypeOK
    <3>3. CASE bootstrapToken # NoChild
      BY <2>18, <3>1, <3>2, <3>3 DEF readsToken, Reads, TypeOK
    <3>4. CASE bootstrapToken = NoChild /\ url = NoChild
      BY <2>18, <3>1, <3>2, <3>4 DEF readsToken, Reads, TypeOK
    <3>5. CASE bootstrapToken = NoChild /\ url # NoChild
      <4>1. url \in Child /\ maybeExchangeAndNavigate(url, c)
        BY <2>18, <3>5 DEF readsToken, TypeOK
      <4>2. /\ page' \in Child \cup {NoChild}
            /\ inFlight' \in [base : Child \cup {NoChild}, token : Child \cup {NoChild}]
        BY <4>1, NavigateType
      <4> QED
        BY <2>18, <3>1, <3>2, <3>5, <4>2 DEF readsToken, Reads, TypeOK
    <3> QED
      BY <3>3, <3>4, <3>5
  <2>19. ASSUME NEW c \in Child, readsUrl(c) PROVE TypeOK'
    <3>1. Reads(c, 2) /\ UNCHANGED <<bootstrapToken, pendingToken>>
      BY <2>19 DEF readsUrl
    <3>2. read' \in [Child -> 0 .. 2]
      BY <3>1 DEF Reads, TypeOK
    <3>3. CASE state # "starting"
      BY <2>19, <3>1, <3>2, <3>3 DEF readsUrl, Reads, TypeOK
    <3>4. CASE state = "starting"
      <4>1. maybeExchangeAndNavigate(c, pendingToken)
        BY <2>19, <3>4 DEF readsUrl
      <4>2. /\ page' \in Child \cup {NoChild}
            /\ inFlight' \in [base : Child \cup {NoChild}, token : Child \cup {NoChild}]
        BY <4>1, NavigateType DEF TypeOK
      <4> QED
        BY <2>19, <3>1, <3>2, <3>4, <4>2, SettledType DEF readsUrl, Reads, TypeOK
    <3> QED
      BY <3>3, <3>4
  <2>20. CASE UNCHANGED vars
    BY <2>20 DEF vars, TypeOK
  <2> QED
    BY <2>1, <2>2, <2>3, <2>4, <2>5, <2>6, <2>7, <2>8, <2>9, <2>10, <2>11, <2>12,
       <2>13, <2>14, <2>15, <2>16, <2>17, <2>18, <2>19, <2>20 DEF Next
<1> QED
  BY <1>1, <1>2, PTL DEF Spec

-----------------------------------------------------------------------------
(* The status and the field *)

\* Before the launch has called start there is no process, no page that could
\* ask for a restart, and no token in exchange.
BeforeBoot ==
  pc[Boot] = "new" =>
    /\ \A c \in Child : proc[c] = "none"
    /\ page = NoChild /\ inFlight = NoExchange
    /\ \A k \in Restarts : pc[k] = "idle"

Inv == TypeOK /\ BeforeBoot /\ StatusMatchesChild

\* The three conjuncts of StatusMatchesChild in every step but a stutter.
LEMMA StatusStep ==
  ASSUME Inv, Next
  PROVE  StatusMatchesChild'
<1> USE DEF status, calls, processes, window
<1>1. TypeOK /\ BeforeBoot /\ StatusMatchesChild
  BY DEF Inv
<1>2. ASSUME NEW k \in Call, spawn(k) PROVE StatusMatchesChild'
  <2>1. child' \in Child /\ state' = "starting"
    BY <1>1, <1>2, SpawnType
  <2>2. child' # NoChild
    BY <2>1 DEF Child, NoChild
  <2> QED
    BY <2>1, <2>2 DEF StatusMatchesChild
<1>3. ASSUME NEW k \in Call, NEW where \in {"stop", "stopInStart", "forceStop"},
             NEW signal \in {"SIGTERM", "SIGKILL"}, stop(k, where, signal)
      PROVE  StatusMatchesChild'
  <2>1. /\ \/ child' = child /\ state' = state
           \/ child' = NoChild /\ state' = "stopped"
        /\ proc' = proc
    BY <1>1, <1>3, StopType
  <2> QED
    BY <1>1, <2>1 DEF StatusMatchesChild
<1>4. Boot \in Call /\ Quit \in Call /\ Install \in Call /\ Restarts \subseteq Call
  BY DEF Call
<1>5. CASE startCli
  BY <1>2, <1>4, <1>5 DEF startCli
<1>6. CASE startThrows
  BY <1>1, <1>6 DEF startThrows, BeforeBoot, StatusMatchesChild
<1>7. CASE beforeQuit
  BY <1>1, <1>7 DEF beforeQuit, StatusMatchesChild
<1>8. CASE quitMarked
  BY <1>3, <1>4, <1>8 DEF quitMarked
<1>9. CASE installUpdate
  BY <1>3, <1>4, <1>9 DEF installUpdate
<1>10. CASE installQuits \/ resumeQuit \/ resumeInstall \/ exchanged
  BY <1>1, <1>10 DEF installQuits, resumeQuit, resumeInstall, exchanged, StatusMatchesChild
<1>11. CASE forceTimeout
  BY <1>11 DEF forceTimeout, StatusMatchesChild
<1>12. ASSUME NEW k \in Restarts, restart(k) PROVE StatusMatchesChild'
  BY <1>3, <1>4, <1>12 DEF restart
<1>13. ASSUME NEW k \in Restarts, resumeRestart(k) PROVE StatusMatchesChild'
  BY <1>2, <1>3, <1>4, <1>13 DEF resumeRestart
<1>14. ASSUME NEW k \in Call, killTimeout(k) PROVE StatusMatchesChild'
  BY <1>1, <1>14 DEF killTimeout, StatusMatchesChild
<1>15. ASSUME NEW k \in Call, handleTimeout(k) PROVE StatusMatchesChild'
  BY <1>15 DEF handleTimeout, StatusMatchesChild
<1>16. ASSUME NEW c \in Child, dies(c) PROVE StatusMatchesChild'
  <2>1. child' = child /\ state' = state /\ proc[c] = "alive"
    BY <1>16 DEF dies
  <2> QED
    BY <1>1, <2>1 DEF StatusMatchesChild
<1>17. ASSUME NEW c \in Child, onExit(c) PROVE StatusMatchesChild'
  BY <1>17 DEF onExit, StatusMatchesChild
<1>18. ASSUME NEW c \in Child, onError(c) PROVE StatusMatchesChild'
  BY <1>18 DEF onError, StatusMatchesChild
<1>19. ASSUME NEW c \in Child, readsToken(c) PROVE StatusMatchesChild'
  BY <1>1, <1>19 DEF readsToken, Reads, StatusMatchesChild
<1>20. ASSUME NEW c \in Child, readsUrl(c) PROVE StatusMatchesChild'
  <2>1. child' = child /\ proc[c] # "none" /\ proc' = proc
    BY <1>20 DEF readsUrl, Reads
  <2>2. CASE state # "starting"
    BY <1>1, <1>20, <2>1, <2>2 DEF readsUrl, StatusMatchesChild
  <2>3. CASE state = "starting"
    BY <1>1, <1>20, <2>1, <2>3 DEF readsUrl, StatusMatchesChild
  <2> QED
    BY <2>2, <2>3
<1> QED
  BY <1>5, <1>6, <1>7, <1>8, <1>9, <1>10, <1>11, <1>12, <1>13, <1>14, <1>15, <1>16,
     <1>17, <1>18, <1>19, <1>20 DEF Next

\* Nothing but startCli and startThrows leaves the state before the launch,
\* except a quit, and these end it.
LEMMA BootStep ==
  ASSUME Inv, Next
  PROVE  BeforeBoot'
<1> USE DEF status, calls, processes, window
<1>1. TypeOK /\ BeforeBoot
  BY DEF Inv
<1>2. Boot \in Call /\ Quit \in Call /\ Install \in Call /\ Restarts \subseteq Call
  BY DEF Call
<1>3. Boot # Quit /\ Boot # Install /\ Quit \notin Restarts /\ Install \notin Restarts
  BY CliAssumption
<1> SUFFICES ASSUME pc'[Boot] = "new"
             PROVE  /\ \A c \in Child : proc'[c] = "none"
                    /\ page' = NoChild /\ inFlight' = NoExchange
                    /\ \A k \in Restarts : pc'[k] = "idle"
  BY DEF BeforeBoot, NoExchange
<1>4. ASSUME NEW k \in Call, spawn(k) PROVE pc' = [pc EXCEPT ![k] = "pending"]
  BY <1>1, <1>4, SpawnType
<1>5. ASSUME NEW k \in Call, NEW where \in {"stop", "stopInStart", "forceStop"},
             NEW signal \in {"SIGTERM", "SIGKILL"}, stop(k, where, signal)
      PROVE  pc' = [pc EXCEPT ![k] = where] /\ proc' = proc
  BY <1>1, <1>5, StopType
<1>6. CASE startCli
  BY <1>1, <1>2, <1>4, <1>6 DEF startCli, TypeOK
<1>7. CASE startThrows
  BY <1>1, <1>2, <1>7 DEF startThrows, TypeOK
<1>8. CASE beforeQuit
  BY <1>1, <1>2, <1>3, <1>8 DEF beforeQuit, BeforeBoot, TypeOK
<1>9. CASE quitMarked
  <2>1. pc' = [pc EXCEPT ![Quit] = "stop"] /\ proc' = proc
    BY <1>2, <1>5, <1>9 DEF quitMarked
  <2> QED
    BY <1>1, <1>2, <1>3, <1>9, <2>1 DEF quitMarked, BeforeBoot, TypeOK
<1>10. CASE installUpdate
  <2>1. pc' = [pc EXCEPT ![Install] = "forceStop"] /\ proc' = proc
    BY <1>2, <1>5, <1>10 DEF installUpdate
  <2> QED
    BY <1>1, <1>2, <1>3, <1>10, <2>1 DEF installUpdate, BeforeBoot, TypeOK
<1>11. CASE installQuits \/ resumeQuit \/ forceTimeout
  BY <1>1, <1>11 DEF installQuits, resumeQuit, forceTimeout, BeforeBoot
<1>12. CASE resumeInstall
  BY <1>1, <1>2, <1>3, <1>12 DEF resumeInstall, BeforeBoot, TypeOK
<1>13. CASE exchanged
  BY <1>1, <1>13 DEF exchanged, BeforeBoot
<1>14. ASSUME NEW k \in Restarts, restart(k) PROVE FALSE
  <2>1. pc' = [pc EXCEPT ![k] = "stop"] /\ page # NoChild
    BY <1>2, <1>5, <1>14 DEF restart
  <2>2. pc[Boot] = "new"
    BY <1>1, <1>2, <2>1, CliAssumption DEF TypeOK
  <2> QED
    BY <1>1, <2>1, <2>2 DEF BeforeBoot
<1>15. ASSUME NEW k \in Restarts, resumeRestart(k) PROVE FALSE
  <2>1. pc[k] # "idle" /\ k \in Call
    BY <1>2, <1>15 DEF resumeRestart
  <2>2. pc' = [pc EXCEPT ![k] = "pending"] \/ pc' = [pc EXCEPT ![k] = "stopInStart"]
    BY <1>2, <1>4, <1>5, <1>15 DEF resumeRestart
  <2>3. pc[Boot] = "new"
    BY <1>1, <1>2, <2>2, CliAssumption DEF TypeOK
  <2> QED
    BY <1>1, <2>1, <2>3 DEF BeforeBoot
<1>16. ASSUME NEW k \in Call, killTimeout(k) PROVE BeforeBoot'
  BY <1>1, <1>16 DEF killTimeout, BeforeBoot, NoExchange
<1>17. ASSUME NEW k \in Call, handleTimeout(k) PROVE BeforeBoot'
  <2>1. pc' = [l \in Call |-> IF l \in Pending THEN "idle" ELSE pc[l]]
    BY <1>17 DEF handleTimeout, settled
  <2> QED
    BY <1>1, <1>2, <1>17, <2>1 DEF handleTimeout, BeforeBoot, NoExchange, TypeOK
<1>18. ASSUME NEW c \in Child, dies(c) \/ onExit(c) \/ onError(c) \/ readsToken(c) \/ readsUrl(c)
       PROVE  FALSE
  <2>1. proc[c] # "none"
    BY <1>18 DEF dies, onExit, onError, readsToken, readsUrl, Reads
  <2>2. pc' = pc \/ pc' = settled
    BY <1>18 DEF dies, onExit, onError, readsToken, readsUrl
  <2>3. pc[Boot] = "new"
    BY <1>1, <1>2, <2>2 DEF settled, TypeOK
  <2> QED
    BY <1>1, <2>1, <2>3 DEF BeforeBoot
<1> QED
  BY <1>6, <1>7, <1>8, <1>9, <1>10, <1>11, <1>12, <1>13, <1>14, <1>15, <1>16, <1>17,
     <1>18 DEF Next, BeforeBoot, NoExchange

\* The window never shows a ready server that is gone from the field, and a
\* stopped one has left it.
THEOREM StatusIsTrue == Spec => []StatusMatchesChild
<1>1. Init => BeforeBoot /\ StatusMatchesChild
  BY CliAssumption DEF Init, BeforeBoot, StatusMatchesChild, Call, NoExchange
<1>2. Inv /\ [Next]_vars => BeforeBoot' /\ StatusMatchesChild'
  <2> SUFFICES ASSUME Inv, [Next]_vars PROVE BeforeBoot' /\ StatusMatchesChild'
    OBVIOUS
  <2>1. CASE Next
    BY <2>1, BootStep, StatusStep
  <2>2. CASE UNCHANGED vars
    BY <2>2 DEF Inv, BeforeBoot, StatusMatchesChild, vars, status, calls, processes,
      window, NoExchange
  <2> QED
    BY <2>1, <2>2
<1> QED
  BY <1>1, <1>2, TypeCorrect, PTL DEF Spec, Inv

-----------------------------------------------------------------------------
(* Restarts that overlap, and a quit *)

\* The interface has two places that restart the server.
TwoRestarts == \A k, l, m \in Restarts : k = l \/ l = m \/ k = m

\* A process that runs, or whose exit was not reported, is the child of the field.
ProcessIsChild == \A c \in Child : proc[c] \in {"alive", "dead"} => c = child

\* One restart at a time stops what another one has started.  When it goes on,
\* which is before the others, the field is empty.
StopsInTurn ==
  /\ \A k, l \in Restarts : pc[k] = "stopInStart" /\ pc[l] = "stopInStart" => k = l
  /\ \A k \in resumed \cap Restarts : pc[k] = "stopInStart" => child = NoChild

\* A child among calls that go on, or after the last one of them has ended the
\* application, is what a restart has started in the same job.
ChildIsStarted ==
  child # NoChild /\ (resumed # {} \/ ended = Quit) => \E m \in Restarts : pc[m] = "pending"

ServerInv == ~gaveUp => ProcessIsChild /\ StopsInTurn /\ ChildIsStarted

\* A spawn into the empty field, by a restart or by the launch, when no other
\* restart is to go on from the stop inside its start.
LEMMA SpawnsOne ==
  ASSUME TypeOK, NEW k \in Call, spawn(k), child = NoChild, ProcessIsChild,
         StopsInTurn, pc'[k] = "pending" /\ (k \in Restarts \/ (Up /\ resumed = {})),
         UNCHANGED <<ended, gaveUp>>, resumed' = resumed \ {k},
         \A l \in resumed \cap Restarts : pc[l] = "stopInStart" => l = k
  PROVE  ServerInv'
<1>1. PICK c \in Unspawned : child' = c /\ \E outcome \in {"alive", "failing"} :
                                              proc' = [proc EXCEPT ![c] = outcome]
  BY DEF spawn
<1>2. pc' = [pc EXCEPT ![k] = "pending"] /\ c \in Child /\ k \in Call
  BY <1>1 DEF spawn, Unspawned
<1>3. \A d \in Child : proc[d] \notin {"alive", "dead"}
  BY DEF ProcessIsChild, Child, NoChild
<1>4. ProcessIsChild'
  BY <1>1, <1>2, <1>3 DEF ProcessIsChild, TypeOK
<1>5. StopsInTurn'
  BY <1>2 DEF StopsInTurn, TypeOK, Call
<1>6. ChildIsStarted'
  BY CliAssumption DEF ChildIsStarted, Up, Call
<1> QED
  BY <1>4, <1>5, <1>6 DEF ServerInv

\* A stop that is called while no call is to go on, or by a restart that goes on
\* and finds what another one has started.
LEMMA StopsOne ==
  ASSUME TypeOK, NEW k \in Call, NEW where \in {"stop", "stopInStart", "forceStop"},
         NEW signal \in {"SIGTERM", "SIGKILL"}, stop(k, where, signal),
         ProcessIsChild, StopsInTurn, ChildIsStarted, Up, UNCHANGED <<ended, gaveUp>>,
         \/ resumed = {} /\ where # "stopInStart"
         \/ /\ TwoRestarts /\ child # NoChild /\ k \in resumed \cap Restarts
            /\ pc[k] = "stop" /\ \A l \in resumed : pc[l] # "stopInStart"
  PROVE  ServerInv'
<1>1. /\ pc' = [pc EXCEPT ![k] = where] /\ proc' = proc
      /\ \/ child' = child /\ resumed' = resumed \ {k}
         \/ child' = NoChild /\ resumed' = resumed \cup {k} /\ ~(child # NoChild /\ HasPid(child))
  BY DEF stop
<1>2. ProcessIsChild'
  BY <1>1 DEF ProcessIsChild, HasPid, Child, NoChild
<1>3. CASE resumed = {} /\ where # "stopInStart"
  <2>1. StopsInTurn'
    BY <1>1, <1>3 DEF StopsInTurn, TypeOK, Call
  <2>2. ChildIsStarted'
    BY <1>1, <1>3, CliAssumption DEF ChildIsStarted, Up, Call
  <2> QED
    BY <1>2, <2>1, <2>2 DEF ServerInv
<1>4. CASE /\ TwoRestarts /\ child # NoChild /\ k \in resumed \cap Restarts
           /\ pc[k] = "stop" /\ \A l \in resumed : pc[l] # "stopInStart"
  <2>1. PICK m \in Restarts : pc[m] = "pending"
    BY <1>4 DEF ChildIsStarted
  <2>2. k # m /\ \A l \in Restarts : l = k \/ l = m
    BY <1>4, <2>1 DEF TwoRestarts
  <2>3. pc'[m] = "pending"
    BY <1>1, <2>1, <2>2 DEF TypeOK, Call
  <2>4. StopsInTurn'
    BY <1>1, <1>4, <2>2, <2>3 DEF StopsInTurn, TypeOK, Call
  <2>5. ChildIsStarted'
    BY <2>3 DEF ChildIsStarted
  <2> QED
    BY <1>2, <2>4, <2>5 DEF ServerInv
<1> QED
  BY <1>3, <1>4

\* With two restarts every step of an application that has given up no child
\* keeps the invariant.
LEMMA ServerStep ==
  ASSUME TwoRestarts, Inv, ServerInv, Next
  PROVE  ServerInv'
<1> USE DEF status, calls, processes, window
<1>1. TypeOK /\ BeforeBoot
  BY DEF Inv
<1>2. Boot \in Call /\ Quit \in Call /\ Install \in Call /\ Restarts \subseteq Call
  BY DEF Call
<1>3. Quit # "no" /\ Install # "no" /\ Install # Quit /\ Quit \notin Restarts /\ Install \notin Restarts
      /\ Boot \notin Restarts
  BY <1>2, CliAssumption
<1> SUFFICES ASSUME ~gaveUp' PROVE ServerInv'
  BY DEF ServerInv
<1>4. ~gaveUp
  BY DEF Next, startCli, startThrows, beforeQuit, quitMarked, installUpdate, installQuits,
         resumeQuit, resumeInstall, forceTimeout, exchanged, restart, resumeRestart,
         killTimeout, handleTimeout, dies, onExit, onError, readsToken, readsUrl, Reads
<1>5. ProcessIsChild /\ StopsInTurn /\ ChildIsStarted
  BY <1>4 DEF ServerInv
<1> USE <1>1, <1>2, <1>3, <1>5
<1>6. CASE startCli
  <2>0. spawn(Boot) /\ Turn /\ resumed' = resumed /\ UNCHANGED <<ended, gaveUp>> /\ pc[Boot] = "new"
    BY <1>6 DEF startCli
  <2>1. \A c \in Child : proc[c] = "none"
    BY <2>0 DEF BeforeBoot
  <2>2. PICK c \in Unspawned : child' = c /\ \E outcome \in {"alive", "failing"} :
                                              proc' = [proc EXCEPT ![c] = outcome]
    BY <2>0 DEF spawn
  <2>3. ProcessIsChild'
    BY <2>1, <2>2 DEF ProcessIsChild, Unspawned, TypeOK
  <2>4. pc' = [pc EXCEPT ![Boot] = "pending"]
    BY <2>0 DEF spawn
  <2>5. StopsInTurn' /\ ChildIsStarted'
    BY <2>0, <2>4 DEF StopsInTurn, ChildIsStarted, TypeOK, Turn, Up
  <2> QED
    BY <2>3, <2>5 DEF ServerInv
<1>7. CASE startThrows \/ beforeQuit
  <2>1. /\ UNCHANGED <<child, resumed, proc, ended>> /\ Turn
        /\ \A k \in Restarts : pc'[k] = pc[k]
    BY <1>7 DEF startThrows, beforeQuit, TypeOK
  <2> QED
    BY <2>1 DEF ServerInv, ProcessIsChild, StopsInTurn, ChildIsStarted
<1>8. CASE quitMarked
  BY <1>8, StopsOne DEF quitMarked, Turn
<1>9. CASE installUpdate
  BY <1>9, StopsOne DEF installUpdate, Turn
<1>10. CASE installQuits
  BY <1>10 DEF installQuits, Turn, ServerInv, ProcessIsChild, StopsInTurn, ChildIsStarted
<1>11. CASE resumeQuit
  <2>1. UNCHANGED <<child, pc, resumed, proc>> /\ Quit \in resumed
    BY <1>11 DEF resumeQuit
  <2> QED
    BY <2>1 DEF ServerInv, ProcessIsChild, StopsInTurn, ChildIsStarted
<1>12. CASE resumeInstall
  <2>1. /\ UNCHANGED <<child, proc, ended>> /\ resumed' = resumed \ {Install}
        /\ \A k \in Restarts : pc'[k] = pc[k]
    BY <1>12 DEF resumeInstall, TypeOK
  <2> QED
    BY <2>1 DEF ServerInv, ProcessIsChild, StopsInTurn, ChildIsStarted
<1>13. CASE exchanged
  BY <1>13 DEF exchanged, ServerInv, ProcessIsChild, StopsInTurn, ChildIsStarted
<1>14. CASE forceTimeout \/ \E k \in Call : handleTimeout(k)
  BY <1>14 DEF forceTimeout, handleTimeout
<1>15. ASSUME NEW k \in Restarts, restart(k) PROVE ServerInv'
  BY <1>15, StopsOne DEF restart, Turn
<1>16. ASSUME NEW k \in Restarts, resumeRestart(k) PROVE ServerInv'
  <2>1. Up /\ k \in resumed \cap Restarts /\ UNCHANGED <<ended, gaveUp>>
    BY <1>16 DEF resumeRestart
  <2>2. CASE spawn(k) /\ resumed' = resumed \ {k}
    <3>1. pc'[k] = "pending"
      BY <2>2 DEF spawn, TypeOK
    <3>2. child = NoChild /\ \A l \in resumed \cap Restarts : pc[l] = "stopInStart" => l = k
      <4>1. CASE pc[k] = "stop"
        <5>1. stop(k, "stopInStart", "SIGTERM") => pc'[k] = "stopInStart"
          BY DEF stop, TypeOK
        <5>2. ~stop(k, "stopInStart", "SIGTERM")
          BY <3>1, <5>1
        <5> QED
          BY <1>16, <4>1, <5>2 DEF resumeRestart
      <4>2. CASE pc[k] = "stopInStart"
        BY <2>1, <4>2 DEF StopsInTurn
      <4> QED
        BY <1>16, <4>1, <4>2 DEF resumeRestart
    <3> QED
      BY <2>1, <2>2, <3>1, <3>2, SpawnsOne
  <2>3. CASE stop(k, "stopInStart", "SIGTERM") /\ ~(spawn(k) /\ resumed' = resumed \ {k})
    <3>1. child # NoChild /\ pc[k] = "stop" /\ \A l \in resumed : pc[l] # "stopInStart"
      BY <1>16, <2>3 DEF resumeRestart
    <3> QED
      BY <2>1, <2>3, <3>1, StopsOne
  <2> QED
    BY <1>16, <2>2, <2>3 DEF resumeRestart
<1>17. ASSUME NEW k \in Call, killTimeout(k) PROVE ServerInv'
  BY <1>17 DEF killTimeout, ServerInv, ProcessIsChild, StopsInTurn, ChildIsStarted
<1>18. ASSUME NEW c \in Child, dies(c) PROVE ServerInv'
  BY <1>18 DEF dies, ServerInv, ProcessIsChild, StopsInTurn, ChildIsStarted, TypeOK
<1>19. ASSUME NEW c \in Child, onExit(c) \/ onError(c) \/ readsToken(c) \/ readsUrl(c)
       PROVE  ServerInv'
  <2>1. /\ Turn /\ UNCHANGED ended
        /\ child' = NoChild \/ (child' = child /\ resumed' = resumed)
        /\ pc' = pc \/ pc' = settled
    BY <1>19 DEF onExit, onError, readsToken, readsUrl, Reads
  <2>2. ProcessIsChild'
    <3>1. CASE onExit(c)
      <4>1. proc' = [proc EXCEPT ![c] = "gone"] /\ proc[c] = "dead"
        BY <3>1 DEF onExit
      <4> QED
        BY <4>1 DEF ProcessIsChild, TypeOK
    <3>2. CASE ~onExit(c)
      BY <1>19, <3>2 DEF onError, readsToken, readsUrl, Reads, ProcessIsChild, TypeOK
    <3> QED
      BY <3>1, <3>2
  <2>3. StopsInTurn'
    <3>1. \A k \in Call : pc'[k] = "stopInStart" => pc[k] = "stopInStart"
      BY <2>1 DEF settled
    <3> QED
      BY <2>1, <3>1 DEF StopsInTurn, Turn
  <2>4. ChildIsStarted'
    BY <2>1 DEF ChildIsStarted, Turn, Up
  <2> QED
    BY <2>2, <2>3, <2>4 DEF ServerInv
<1> QED
  BY <1>6, <1>7, <1>8, <1>9, <1>10, <1>11, <1>12, <1>13, <1>14, <1>15, <1>16, <1>17, <1>18,
     <1>19 DEF Next

\* The invariant, with what it rests on.
LEMMA ServersInvariant ==
  ASSUME TwoRestarts
  PROVE  Spec => [](Inv /\ ServerInv)
<1>1. Init => BeforeBoot /\ StatusMatchesChild /\ ServerInv
  BY CliAssumption DEF Init, BeforeBoot, StatusMatchesChild, Call, NoExchange, ServerInv,
     ProcessIsChild, StopsInTurn, ChildIsStarted
<1>2. Inv /\ ServerInv /\ [Next]_vars => BeforeBoot' /\ StatusMatchesChild' /\ ServerInv'
  <2> SUFFICES ASSUME Inv, ServerInv, [Next]_vars
               PROVE  BeforeBoot' /\ StatusMatchesChild' /\ ServerInv'
    OBVIOUS
  <2>1. CASE Next
    BY <2>1, BootStep, StatusStep, ServerStep
  <2>2. CASE UNCHANGED vars
    BY <2>2 DEF Inv, BeforeBoot, StatusMatchesChild, vars, status, calls, processes,
      window, NoExchange, ServerInv, ProcessIsChild, StopsInTurn, ChildIsStarted
  <2> QED
    BY <2>1, <2>2
<1> QED
  BY <1>1, <1>2, TypeCorrect, PTL DEF Spec, Inv

\* Two restarts that overlap, with each other, with timers and with a quit,
\* leave one server, which the next stop reaches, until a child is given up.
THEOREM OneServerAlways ==
  ASSUME TwoRestarts
  PROVE  Spec => []OneServer
<1>1. Inv /\ ServerInv => OneServer
  BY DEF ServerInv, ProcessIsChild, OneServer, Running
<1> QED
  BY <1>1, ServersInvariant, PTL

\* The quit leaves no server behind, but one that a restart which was waiting
\* for the same exit has started in the job that ends the application.
THEOREM QuitLeavesNoneAlways ==
  ASSUME TwoRestarts
  PROVE  Spec => []QuitLeavesNone
<1>1. Inv /\ ServerInv => QuitLeavesNone
  <2> SUFFICES ASSUME Inv, ServerInv, ended = Quit, ~gaveUp, NEW c \in Child, Running(c)
               PROVE  c = child /\ \E k \in Restarts : pc[k] = "pending"
    BY DEF QuitLeavesNone
  <2>1. c = child
    BY DEF ServerInv, ProcessIsChild, Running
  <2>2. child # NoChild
    BY <2>1 DEF Child, NoChild
  <2> QED
    BY <2>1, <2>2 DEF ServerInv, ChildIsStarted
<1> QED
  BY <1>1, ServersInvariant, PTL

-----------------------------------------------------------------------------
(* The Tauri manager: no server is lost while starts do not overlap *)

\* The places of a caller that is to start a server.
Starting == {"stop", "waits", "stopped", "resets", "marks"}

\* A thread that has the spawn of a server ahead, or its storing.
Spawning(c) == spawner[c] \in {"resolves", "spawned", "told"}

\* One start at a time: the launch precedes every restart, and a restart waits
\* for the threads of the start before it.
InTurn ==
  /\ at["launch"] # "idle" => at["launch"] \in Starting /\ at["main"] = "idle"
  /\ at["launch"] \in {"stop", "waits", "stopped"} => inStart["launch"]
  /\ ~inStart["quit"] /\ at["quit"] \notin {"resets", "marks"}
  /\ \A k \in {"launch", "main"}, c \in Tauri!Child : at[k] \in Starting => ~Spawning(c)
  /\ \A c, d \in Tauri!Child : Spawning(c) /\ Spawning(d) => c = d

\* While a start is under way past its stop the field is empty.
FieldIsFree ==
  /\ \A k \in {"launch", "main"} : at[k] \in Starting \ {"stop"} => server = Tauri!NoChild
  /\ \A c \in Tauri!Child : Spawning(c) => server = Tauri!NoChild

UnspawnedIsNone ==
  \A c \in Tauri!Child : spawner[c] \in {"none", "resolves"} => serverProc[c] = "none"

HeldInv == Tauri!TypeOK /\ InTurn /\ FieldIsFree /\ UnspawnedIsNone /\ EveryServerIsHeld

\* Every variable of the Tauri manager keeps its type in every step: the stop of
\* the launch is that of a start, so that each caller has a place to go to.
LEMMA TauriTypeStep ==
  ASSUME Tauri!TypeOK, at["launch"] = "stopped" => inStart["launch"], [Tauri!Next]_(Tauri!vars)
  PROVE  Tauri!TypeOK'
<1> USE DEF Tauri!TypeOK, Tauri!caller, Tauri!threads, Tauri!processes, Tauri!Goes, Tauri!signalled
<1>1. ASSUME NEW k \in Tauri!Caller, Tauri!stop(k) PROVE Tauri!TypeOK'
  <2>1. CASE Tauri!takesChild(k)
    BY <2>1 DEF Tauri!takesChild
  <2>2. CASE Tauri!exitSeen(k) \/ Tauri!graceEnds(k)
    BY <2>2 DEF Tauri!exitSeen, Tauri!graceEnds
  <2>3. CASE Tauri!stopped(k)
    <3> DEFINE place == CASE inStart[k] -> "resets" [] k = "main" -> "stop"
                          [] k = "quit" -> "exits"
    <3>0. inStart[k] \/ k = "main" \/ k = "quit"
      BY <2>3 DEF Tauri!stopped, Tauri!Caller
    <3>4. place \in {"resets", "stop", "exits"}
      BY <3>0
    <3>5. at' = [at EXCEPT ![k] = place]
      BY <2>3 DEF Tauri!stopped
    <3> HIDE DEF place
    <3>1. at' \in [Tauri!Caller -> {"idle", "stop", "waits", "stopped", "resets", "marks",
                                    "returns", "exits"}]
      BY <3>4, <3>5
    <3>2. inStart' \in [Tauri!Caller -> BOOLEAN]
      BY <2>3 DEF Tauri!stopped
    <3> QED
      BY <2>3, <3>1, <3>2 DEF Tauri!stopped
  <2> QED
    BY <1>1, <2>1, <2>2, <2>3 DEF Tauri!stop
<1>2. ASSUME NEW k \in Tauri!Caller, Tauri!start(k) PROVE Tauri!TypeOK'
  <2>1. CASE Tauri!resets(k)
    BY <2>1 DEF Tauri!resets
  <2>2. CASE Tauri!marksStarting(k)
    BY <2>2 DEF Tauri!marksStarting, Tauri!Unused
  <2> QED
    BY <1>2, <2>1, <2>2 DEF Tauri!start
<1>3. CASE Tauri!returns \/ Tauri!cli_restart \/ Tauri!exitRequested \/ Tauri!exits
  <2>1. CASE Tauri!returns
    BY <2>1 DEF Tauri!returns, Tauri!Caller
  <2>2. CASE Tauri!cli_restart
    BY <2>2 DEF Tauri!cli_restart, Tauri!Caller
  <2>3. CASE Tauri!exitRequested
    BY <2>3 DEF Tauri!exitRequested, Tauri!Caller
  <2>4. CASE Tauri!exits
    BY <2>4 DEF Tauri!exits
  <2> QED
    BY <1>3, <2>1, <2>2, <2>3, <2>4
<1>4. ASSUME NEW c \in Tauri!Child, Tauri!spawn_cli(c) PROVE Tauri!TypeOK'
  BY <1>4 DEF Tauri!spawn_cli, Tauri!spawnFails, Tauri!spawns, Tauri!tellsPid,
              Tauri!storesChild, Tauri!opensOutput
<1>5. ASSUME NEW c \in Tauri!Child, Tauri!process_stream(c) PROVE Tauri!TypeOK'
  <2>1. CASE Tauri!streamEnds(c) \/ Tauri!readsToken(c)
    BY <2>1 DEF Tauri!Reads, Tauri!streamEnds, Tauri!readsToken
  <2>2. CASE Tauri!readsUrl(c)
    BY <2>2 DEF Tauri!Reads, Tauri!readsUrl
  <2>3. CASE Tauri!marksReady(c)
    BY <2>3 DEF Tauri!Reads, Tauri!marksReady
  <2>4. CASE Tauri!locksStatus(c) \/ Tauri!exchanged(c)
    BY <2>4 DEF Tauri!Reads, Tauri!locksStatus, Tauri!exchanged
  <2> QED
    BY <1>5, <2>1, <2>2, <2>3, <2>4 DEF Tauri!process_stream, Tauri!mark_ready
<1>6. ASSUME NEW c \in Tauri!Child, Tauri!timeout(c) \/ Tauri!watch(c) \/ Tauri!dies(c)
      PROVE  Tauri!TypeOK'
  BY <1>6 DEF Tauri!timeout, Tauri!wakes, Tauri!timesOut, Tauri!kills,
              Tauri!watch, Tauri!watches, Tauri!reports, Tauri!dies
<1>7. CASE UNCHANGED Tauri!vars
  BY <1>7 DEF Tauri!vars
<1> QED
  BY <1>1, <1>2, <1>3, <1>4, <1>5, <1>6, <1>7 DEF Tauri!Next

\* The empty field is no process.
LEMMA NoServer == \A c \in Tauri!Child : c # Tauri!NoChild
BY TauriAssumption DEF Tauri!Child, Tauri!NoChild

\* With starts that do not overlap every step keeps each server within reach.
LEMMA HeldStep ==
  ASSUME ~Overlap, HeldInv, [Tauri!Next]_(Tauri!vars)
  PROVE  HeldInv'
<1>0. Tauri!TypeOK'
  BY TauriTypeStep DEF HeldInv, InTurn
<1> USE <1>0 DEF HeldInv, InTurn, FieldIsFree, UnspawnedIsNone, EveryServerIsHeld,
      Tauri!EveryServerIsHeld, Tauri!Running, Spawning, Starting, Tauri!TypeOK, Tauri!Caller,
      Tauri!caller, Tauri!threads, Tauri!processes, Tauri!Goes, Tauri!signalled, Tauri!NoChild
<1>1. ASSUME NEW k \in Tauri!Caller, Tauri!takesChild(k) PROVE HeldInv'
  BY <1>1 DEF Tauri!takesChild
<1>2. ASSUME NEW k \in Tauri!Caller, Tauri!exitSeen(k) \/ Tauri!graceEnds(k) \/ Tauri!resets(k)
      PROVE  HeldInv'
  BY <1>2 DEF Tauri!exitSeen, Tauri!graceEnds, Tauri!resets
<1>3. ASSUME NEW k \in Tauri!Caller, Tauri!stopped(k) PROVE HeldInv'
  BY <1>3 DEF Tauri!stopped
<1>4. ASSUME NEW k \in Tauri!Caller, Tauri!marksStarting(k) PROVE HeldInv'
  <2>0. /\ k \in {"launch", "main"} /\ at[k] = "marks" /\ server = Tauri!NoChild
        /\ \A c \in Tauri!Child : ~Spawning(c)
    BY <1>4 DEF Tauri!marksStarting
  <2>1. PICK c \in Tauri!Child :
          spawner[c] = "none" /\ spawner' = [spawner EXCEPT ![c] = "resolves"]
    BY <1>4 DEF Tauri!marksStarting, Tauri!Unused
  <2>2. /\ at' = [at EXCEPT ![k] = IF k = "main" THEN "returns" ELSE "idle"]
        /\ inStart' = [inStart EXCEPT ![k] = FALSE]
        /\ UNCHANGED <<server, serverProc, serverSig>>
    BY <1>4 DEF Tauri!marksStarting
  <2>3. InTurn'
    BY <2>0, <2>1, <2>2
  <2>4. FieldIsFree'
    BY <2>0, <2>1, <2>2
  <2>5. UnspawnedIsNone'
    BY <2>0, <2>1, <2>2
  <2>6. EveryServerIsHeld'
    BY <2>0, <2>1, <2>2
  <2> QED
    BY <2>3, <2>4, <2>5, <2>6
<1>5. CASE Tauri!returns \/ Tauri!exitRequested \/ Tauri!exits
  BY <1>5 DEF Tauri!returns, Tauri!exitRequested, Tauri!exits
<1>6. CASE Tauri!cli_restart
  BY <1>6 DEF Tauri!cli_restart, Tauri!Settled
<1>7. ASSUME NEW c \in Tauri!Child,
             Tauri!spawnFails(c) \/ Tauri!tellsPid(c) \/ Tauri!opensOutput(c)
      PROVE  HeldInv'
  BY <1>7 DEF Tauri!spawnFails, Tauri!tellsPid, Tauri!opensOutput
<1>8. ASSUME NEW c \in Tauri!Child, Tauri!spawns(c) PROVE HeldInv'
  BY <1>8 DEF Tauri!spawns
<1>9. ASSUME NEW c \in Tauri!Child, Tauri!storesChild(c) PROVE HeldInv'
  <2> USE <1>9 DEF Tauri!storesChild
  <2>1. InTurn'
    OBVIOUS
  <2>2. FieldIsFree'
    OBVIOUS
  <2>3. UnspawnedIsNone'
    OBVIOUS
  <2>4. EveryServerIsHeld'
    <3>1. server = Tauri!NoChild /\ spawner[c] = "told"
      OBVIOUS
    <3>2. \A d \in Tauri!Child : Tauri!Running(d) => Spawning(d)
      BY <3>1, NoServer
    <3>3. \A d \in Tauri!Child : Spawning(d) => d = c
      BY <3>1
    <3> QED
      BY <3>2, <3>3
  <2> QED
    BY <2>1, <2>2, <2>3, <2>4
<1>10. ASSUME NEW c \in Tauri!Child, Tauri!process_stream(c) PROVE HeldInv'
  BY <1>10 DEF Tauri!process_stream, Tauri!mark_ready, Tauri!Reads, Tauri!streamEnds,
     Tauri!readsToken, Tauri!readsUrl, Tauri!marksReady, Tauri!locksStatus, Tauri!exchanged
<1>11. ASSUME NEW c \in Tauri!Child, Tauri!timeout(c) PROVE HeldInv'
  BY <1>11 DEF Tauri!timeout, Tauri!wakes, Tauri!timesOut, Tauri!kills
<1>12. ASSUME NEW c \in Tauri!Child, Tauri!watch(c) \/ Tauri!dies(c) PROVE HeldInv'
  BY <1>12 DEF Tauri!watch, Tauri!watches, Tauri!reports, Tauri!dies
<1>13. CASE UNCHANGED Tauri!vars
  BY <1>13 DEF Tauri!vars
<1> QED
  BY <1>1, <1>2, <1>3, <1>4, <1>5, <1>6, <1>7, <1>8, <1>9, <1>10, <1>11, <1>12, <1>13
     DEF Tauri!Next, Tauri!stop, Tauri!start, Tauri!spawn_cli, Tauri!watch

\* While the user waits for the end of a start before the next one, and whatever
\* timers, watchers and a quit do meanwhile, the next stop reaches every server
\* that was not told to end.
THEOREM EveryServerIsHeldAlways ==
  ASSUME ~Overlap
  PROVE  DesktopSpec => []EveryServerIsHeld
<1>1. Tauri!Init => HeldInv
  <2> SUFFICES ASSUME Tauri!Init PROVE HeldInv
    OBVIOUS
  <2> USE DEF Tauri!Init, Tauri!Caller, Tauri!NoChild
  <2>1. inStart \in [Tauri!Caller -> BOOLEAN]
    OBVIOUS
  <2>2. at \in [Tauri!Caller -> {"idle", "stop", "waits", "stopped", "resets", "marks",
                                 "returns", "exits"}]
    OBVIOUS
  <2>3. Tauri!TypeOK
    BY <2>1, <2>2 DEF Tauri!TypeOK
  <2>4. InTurn
    BY DEF InTurn, Starting, Spawning
  <2>5. FieldIsFree /\ UnspawnedIsNone
    BY DEF FieldIsFree, UnspawnedIsNone, Starting, Spawning
  <2>6. EveryServerIsHeld
    BY DEF EveryServerIsHeld, Tauri!EveryServerIsHeld, Tauri!Running
  <2> QED
    BY <2>3, <2>4, <2>5, <2>6 DEF HeldInv
<1>2. HeldInv /\ [Tauri!Next]_(Tauri!vars) => HeldInv'
  BY HeldStep
<1>3. HeldInv => EveryServerIsHeld
  BY DEF HeldInv
<1>4. DesktopInit => Tauri!Init
  BY DEF DesktopInit
<1>5. [DesktopNext]_<<moves, vars, tauriVars>> => [Tauri!Next]_(Tauri!vars)
  BY DEF DesktopNext, tauriVars, Tauri!vars, Tauri!caller, Tauri!threads, Tauri!processes
<1> QED
  BY <1>1, <1>2, <1>3, <1>4, <1>5, PTL DEF DesktopSpec

=============================================================================
