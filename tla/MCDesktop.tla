----------------------------- MODULE MCDesktop -----------------------------
(***************************************************************************)
(* The server process under either desktop application: CliProcess for     *)
(* Electron, CliManager for Tauri.  `moves` says which application the     *)
(* user runs; the other stays in its first state.                          *)
(***************************************************************************)
EXTENDS CliProcess

CONSTANTS
  MaxServers, Overlap \* CliManager

ASSUME TauriAssumption == MaxServers \in Nat \ {0} /\ Overlap \in BOOLEAN

VARIABLES
  moves,
  server, cliState, cliUrl, ready, token, at, inStart, taken,
  spawner, opener, reader, timer, watcher, serverProc, serverSig, mainPage, exited

Tauri == INSTANCE CliManager
  WITH MaxChildren <- MaxServers, child <- server, state <- cliState, url <- cliUrl,
       on <- taken, proc <- serverProc, sig <- serverSig, page <- mainPage, ended <- exited

tauriVars ==
  <<server, cliState, cliUrl, ready, token, at, inStart, taken,
    spawner, opener, reader, timer, watcher, serverProc, serverSig, mainPage, exited>>

DesktopInit == moves \in {"electron", "tauri"} /\ Init /\ Tauri!Init

DesktopNext ==
  /\ \/ moves = "electron" /\ Next /\ UNCHANGED tauriVars
     \/ moves = "tauri" /\ Tauri!Next /\ UNCHANGED vars
  /\ UNCHANGED moves

DesktopSpec ==
  /\ DesktopInit /\ [][DesktopNext]_<<moves, vars, tauriVars>>
  /\ WF_vars(moves = "electron" /\ EventLoop)
  /\ WF_tauriVars(moves = "tauri" /\ Tauri!Threads)

-----------------------------------------------------------------------------
(* Every stop, start and quit ends, whatever overlaps it (CliProcess).      *)
ElectronCallsEnd == []<>(moves = "electron" /\ Up => \A k \in Call : pc[k] = "idle")

(* No server that was not told to end is lost (CliManager).                 *)
EveryServerIsHeld == Tauri!EveryServerIsHeld

(* Every start comes to an end that the window is told (CliManager).        *)
StartSettles == Tauri!StartSettles

(* A quit ends the application (CliManager).                                *)
QuitEnds == Tauri!QuitEnds

=============================================================================
