--------------------------- MODULE UpdateRollback ---------------------------
(***************************************************************************)
(* Updates and rollback of the desktop application                         *)
(* (packages/electron-app/electron/main): AppAutoUpdater (auto-updater.ts),*)
(* ElectronRollbackManager (rollback.ts), the install-update handler       *)
(* (ipc.ts) and before-quit (main.ts).                                     *)
(*                                                                         *)
(* update-meta.json, the backup directories and the installed application  *)
(* survive the process; the updater's fields, the 30 second timer and the  *)
(* rollback dialog do not.  A crash may come between any two handlers and  *)
(* between the two file operations of a rollback.                          *)
(***************************************************************************)
EXTENDS Naturals

CONSTANTS
  MaxVersion,  \* bound on the releases that come out
  Faults       \* TRUE if copies and installers may fail or be cut short

ASSUME UpdateAssumption ==
  /\ MaxVersion \in Nat /\ MaxVersion > 0
  /\ Faults \in BOOLEAN

Version == 1 .. MaxVersion
NoVersion == 0  \* the empty string of oldVersion, newVersion and backupPath

VARIABLES
  latest,      \* the newest release
  installed,   \* the version at app.getAppPath(), NoVersion when it is torn
  backups,     \* backup/v<version>: "none", "part" or "whole"
  meta,        \* update-meta.json; backup is the version in backupPath
  running,     \* app.getVersion() of the running process, or NoVersion
  found,       \* version of the last update-available event of this process
  downloaded,  \* version of its downloadedInstallerPath
  trial,       \* it is the first one after an update (cleanStart)
  armed,       \* its health timer is pending
  offer,       \* the versions in its rollback dialog
  ended        \* how the last process ended (history)

\* When no process runs, found, downloaded, trial and armed keep the values the last
\* one had: startApp overwrites them.
process == <<running, found, downloaded, trial, armed, offer, ended>>
vars == <<latest, installed, backups, meta, process>>

UpdateState == {"idle", "backed_up", "installing", "started", "confirmed", "rolled_back"}
UpdateMeta == [state : UpdateState, oldVersion : 0 .. MaxVersion,
               newVersion : 0 .. MaxVersion, backup : 0 .. MaxVersion]
Offer == [oldVersion : 0 .. MaxVersion, newVersion : 0 .. MaxVersion]

\* No file: readMeta returns null.  No dialog.
NoMeta == [state |-> "idle", oldVersion |-> NoVersion,
           newVersion |-> NoVersion, backup |-> NoVersion]
NoOffer == [oldVersion |-> NoVersion, newVersion |-> NoVersion]

TypeOK ==
  /\ latest \in Version
  /\ installed \in 0 .. MaxVersion
  /\ backups \in [Version -> {"none", "part", "whole"}]
  /\ meta \in UpdateMeta
  /\ running \in 0 .. MaxVersion
  /\ found \in 0 .. MaxVersion
  /\ downloaded \in 0 .. MaxVersion
  /\ trial \in BOOLEAN
  /\ armed \in BOOLEAN
  /\ offer \in Offer
  /\ ended \in {"never", "quit", "crash", "install", "rollback"}

Init ==
  /\ latest = 1
  /\ installed = 1
  /\ backups = [v \in Version |-> "none"]
  /\ meta = NoMeta
  /\ running = NoVersion
  /\ found = NoVersion
  /\ downloaded = NoVersion
  /\ trial = FALSE
  /\ armed = FALSE
  /\ offer = NoOffer
  /\ ended = "never"

Up == running # NoVersion

\* cleanBackup: remove the backup the meta names.
cleaned(m) == [v \in Version |-> IF v = m.backup THEN "none" ELSE backups[v]]
\* existsSync(meta.backupPath)
HasBackup(m) == m.backup # NoVersion /\ backups[m.backup] # "none"

exits(how) ==
  /\ running' = NoVersion
  /\ offer' = NoOffer
  /\ ended' = how
  /\ UNCHANGED <<found, downloaded, trial, armed>>

-----------------------------------------------------------------------------
(* Startup *)

\* Mutant: the first start of an update leaves the meta as it is.
checkStartup_NotMarked(m) == m

\* checkStartup: what it leaves in the meta.
checkStartup(m) == IF m.state = "installing" THEN [m EXCEPT !.state = "started"] ELSE m

\* The renderer may not listen yet when rollback:needed is sent to it.
startApp ==
  /\ ~Up
  /\ installed # NoVersion
  /\ running' = installed
  /\ meta' = checkStartup(meta)
  /\ trial' = (meta.state = "installing")
  /\ armed' = trial'
  /\ \/ offer' = NoOffer
     \/ /\ meta.state = "started"
        /\ offer' = [oldVersion |-> meta.oldVersion, newVersion |-> meta.newVersion]
  /\ found' = NoVersion
  /\ downloaded' = NoVersion
  /\ UNCHANGED <<latest, installed, backups, ended>>

\* The health timer: whatever the meta says by now is confirmed.
confirmHealthyStart ==
  /\ Up /\ armed
  /\ armed' = FALSE
  /\ meta' = [meta EXCEPT !.state = "confirmed"]
  /\ backups' = cleaned(meta)
  /\ UNCHANGED <<latest, installed, running, found, downloaded, trial, offer, ended>>

-----------------------------------------------------------------------------
(* Updates *)

release ==
  /\ latest < MaxVersion
  /\ latest' = latest + 1
  /\ UNCHANGED <<installed, backups, meta, process>>

\* A check of the updater answers (startup, menu, poll of the UI): the running
\* version is backed up before the download.
updateAvailable ==
  /\ Up
  /\ latest > running
  /\ found' = latest
  /\ backups' = [backups EXCEPT ![running] = "whole"]
  /\ meta' = [state |-> "backed_up", oldVersion |-> running,
              newVersion |-> NoVersion, backup |-> running]
  /\ UNCHANGED <<latest, installed, running, downloaded, trial, armed, offer, ended>>

\* The copy fails half-way: the rejection is caught, the meta is not written.
backupFails ==
  /\ Up /\ Faults
  /\ latest > running
  /\ found' = latest
  /\ backups' = [backups EXCEPT ![running] = "part"]
  /\ UNCHANGED <<latest, installed, meta, running, downloaded, trial, armed, offer, ended>>

\* The process dies during the copy.
backupIsCut ==
  /\ Up /\ Faults
  /\ latest > running
  /\ backups' = [backups EXCEPT ![running] = "part"]
  /\ exits("crash")
  /\ UNCHANGED <<latest, installed, meta>>

\* update-downloaded: markInstalling runs here, whether or not the user installs.
updateDownloaded ==
  /\ Up
  /\ found # NoVersion
  /\ downloaded' = found
  /\ meta' = [meta EXCEPT !.state = "installing", !.newVersion = found]
  /\ UNCHANGED <<latest, installed, backups, running, found, trial, armed, offer, ended>>

\* The process exits without markCleanExit; the installer may fail.
installUpdate ==
  /\ Up
  /\ downloaded # NoVersion
  /\ exits("install")
  /\ installed' \in {downloaded} \cup (IF Faults THEN {installed} ELSE {})
  /\ UNCHANGED <<latest, backups, meta>>

-----------------------------------------------------------------------------
(* The end of a process *)

\* markCleanExit: what it leaves in the meta.
markCleanExit(m) == IF m.state = "started" THEN [m EXCEPT !.state = "confirmed"] ELSE m

quit ==
  /\ Up
  /\ exits("quit")
  /\ meta' = markCleanExit(meta)
  /\ backups' = IF meta.state = "started" THEN cleaned(meta) ELSE backups
  /\ UNCHANGED <<latest, installed>>

crash ==
  /\ Up
  /\ exits("crash")
  /\ UNCHANGED <<latest, installed, backups, meta>>

-----------------------------------------------------------------------------
(* Rollback *)

\* What the copy of the backup leaves; a part may lack the application.
Restored == CASE backups[meta.backup] = "whole" -> {meta.backup}
              [] backups[meta.backup] = "part" -> {NoVersion, installed}

rolledBack(m) == [m EXCEPT !.state = "rolled_back"]

\* The dialog's button: rollbackToPrevious, relaunch and quit.
rollback ==
  /\ Up /\ offer # NoOffer
  /\ HasBackup(meta)
  /\ installed' \in Restored
  /\ meta' = rolledBack(meta)
  /\ backups' = cleaned(meta)
  /\ exits("rollback")
  /\ UNCHANGED latest

\* The process dies after rmSync and before cpSync is done.
rollbackIsCut ==
  /\ Up /\ Faults /\ offer # NoOffer
  /\ HasBackup(meta)
  /\ installed' = NoVersion
  /\ exits("crash")
  /\ UNCHANGED <<latest, backups, meta>>

\* The button without a backup, and the dialog's other button: it closes.
dismiss ==
  /\ Up /\ offer # NoOffer
  /\ offer' = NoOffer
  /\ UNCHANGED <<latest, installed, backups, meta, running, found, downloaded, trial, armed, ended>>

-----------------------------------------------------------------------------

Next ==
  \/ startApp \/ confirmHealthyStart
  \/ release \/ updateAvailable \/ backupFails \/ backupIsCut
  \/ updateDownloaded \/ installUpdate
  \/ quit \/ crash
  \/ rollback \/ rollbackIsCut \/ dismiss

Spec == Init /\ [][Next]_vars

-----------------------------------------------------------------------------
(* What holds *)

\* An orderly end (a quit, an install, a rollback) is never followed by a
\* rollback dialog: a meta that is still "started" at the next launch means
\* that the last process crashed (checkStartup, markCleanExit).
OfferMeansCrash == offer # NoOffer => ended = "crash"

\* The health window decides about an update: when its first process has
\* crashed, the next launch learns of it if the window was still open, and only
\* then (checkStartup, confirmHealthyStart).  A process that found the next
\* update has overwritten the meta, and is left out.
WindowDecides ==
  ~Up /\ trial /\ ended = "crash" /\ found = NoVersion
    => (meta.state = "started" <=> armed)

=============================================================================
