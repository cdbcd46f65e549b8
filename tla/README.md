# EmbeddedCowork in TLA+

EmbeddedCowork is a desktop and web front end for OpenCode.  A Node.js server
(`packages/server`) starts one OpenCode process per opened folder, proxies
requests to it, forwards its events to browser clients and talks to a plugin
inside it.  An Electron application (`packages/electron-app`) or a Tauri
application (`packages/tauri-app`) starts that server.  The user interface
(`packages/ui`) is a Solid application.

This directory holds TLA+ modules translated from the source, TLC
configurations that check them on small instances, and proofs checked by TLAPS
for every value of the constants.  `PROJECT.json` says which definition models
which lines.  Paths below are relative to `src/packages/server/src` unless they
start with `packages/` or `dev-docs/`, which are relative to `src/`.

## Inventory

| Component | State it keeps | Operations | Talks to | What is hard |
|---|---|---|---|---|
| Workspace manager and runtime (`workspaces/manager.ts`, `runtime.ts`) | `workspaces`, `opencodeAuth`, `processes`, all keyed by an id computed from the folder; `requestedStop` per process | create, delete, shutdown, exit handler, readiness probes, escalation timer | event bus, binary download, OpenCode processes | every operation has awaits; two launches of one folder share the map entries; exit handlers work by id |
| Instance event bridge and bus (`workspaces/instance-events.ts`, `events/bus.ts`) | one stream task per workspace, its abort controller | start and stop on workspace events, retry, shutdown | bus, OpenCode `/event` stream | retries that outlive the launch they were made for; order of statuses |
| Client connections (`clients/connection-manager.ts`, `server/routes/events.ts`) | registry of connection keys, last time heard of | register, pong, sweep, close, shutdown | voice mode | a key outlives its streams; closes arrive late |
| Voice mode and plugin channel (`plugins/voice-mode.ts`, `plugins/channel.ts`, `server/routes/plugin.ts`) | connections that want voice mode per instance, a cached aggregate, open plugin streams | setEnabled, disconnect, sync of a new plugin | client connections, plugin | events are sent on changes only, so a cache must be exact |
| Server start and shutdown (`index.ts`) | none of its own | ordered shutdown | all of the above | order; what is skipped |
| Background processes (`background-processes/manager.ts`) | `running` map, `index.json` and output files per workspace | start, stop, terminate, exit handler, cleanup on workspace end | bus, workspace manager, OpenCode | read-modify-write of a file with awaits in between |
| Sidecars (`sidecars/manager.ts`) | configured sidecars, probed status | create, update, delete, probe | settings, bus | a probe that ends after a delete |
| Remote proxy sessions (`server/remote-proxy.ts`) | sessions with their own listeners, bootstrap tokens, the time of the last use | create, exchange, forward, idle expiry, dispose | HTTP | a close may never end; loops overlap; a comparison uses an old time |
| Binary download (`opencode-paths.ts`, `opencode-downloader.ts`) | one promise per server, archive, temporary file, binary | trigger, attempts, unlink of parts, extraction | GitHub | death of the server at any point; files it leaves to the next one; an unlink nobody waits for |
| Git worktrees (`workspaces/git-worktrees.ts`, `worktree-map.ts`, `packages/ui/src/stores/worktrees.ts`) | the map file of a repository, each page's list and copy of the map | read, write, prune, create, delete, choose | git, pages | whole maps computed from stale copies; a shared temporary file |
| Session stores of the UI (`packages/ui/src/stores/session-*.ts`, `instances.ts`) | sessions with status and flags, queues of requests, counts and indicators cached beside them | events, fetches, hydration, replies, removal | server, instance | answers and events overtake each other; caches changed by differences |
| Message store of the UI (`packages/ui/src/stores/message-v2`) | records, order, last assistant message, usage, requests by tool call | events, loads, prompts with ids of their own, reverts | server | an echo may come before or after the answer it belongs to |
| Conversation mode (`packages/ui/src/stores/conversation-speech.ts`) | mode per instance, queue, keys, one playback | toggle, refuse, show, send, dictate, runner | server, audio | awaits in the runner while the queue is cleared |
| Server process under Electron (`packages/electron-app/electron/main/process-manager.ts`, `ipc.ts`, `main.ts`) | the child, its status, bootstrap token and page | start, stop, forceStop, timeout, restart, quit, install | server process | an old child's exit against a new child; calls that wait for the same exit |
| Server process under Tauri (`packages/tauri-app/src-tauri/src/cli_manager.rs`, `main.rs`) | the same fields under two mutexes | start, stop, spawn, timer, watcher, restart, quit | server process | threads; two locks; a field read by the threads of an earlier start |
| Desktop updater (`packages/electron-app/electron/main/auto-updater.ts`, `rollback.ts`) | `update-meta.json`, one backup per version, a health timer | check, backup, download, install, startup check, confirm, roll back | file system, GitHub releases, dialogs | crashes between any two steps; state that is read by the next process |
| Settings documents (`settings/`) | cached YAML documents with owners | merge patch, replace, migrate | file system, bus | unreadable files; merge semantics |
| Authentication (`auth/`) | password file, sessions, one-time token | login, bootstrap exchange, set password | HTTP server | a token valid once |
| File browser, search, instance storage, speech, release monitor, TLS, Tailscale, routes | caches and files | reads and writes | file system, network | little |
| Rust server, plugin, worker, UI components | | | | a second implementation; small clients; presentation |

What makes each correct:

* Workspaces: a record that says "ready" has a live process of its own; every
  process can be reached from a record and is stopped when it should be; the
  stored password fits the process; a client that was told of a start is told of
  the end; a stop ends.
* Event bridge: clients see the truth about workspaces and streams; a ready
  workspace has a stream; no stream stays with a dead process.
* Connections and voice mode: a plugin speaks exactly when some live client
  wants it to.
* Background processes: the list tells the truth, nothing survives its
  workspace, a completion is reported once.
* Sidecars: what the pages were told is the status.  Proxy: what is used stays,
  what is idle goes, whatever hangs.  Download: no part of a binary takes its place.
  Worktrees: a session works where its user put it.
* UI stores: counts and indicators are what they summarise; no flag outlives
  its request; a prompt that was accepted is shown once, a request is shown at
  its call; the computer sleeps when only the user is waited for.
* Server process: one server at a time, none is lost, every start, stop and
  quit ends, the window shows a page unless the server hangs.
* Updater: a bad update is noticed and can be undone, a good one is left alone.

## Modules

* `WorkspaceLifecycle` - manager and runtime.  A `create()` call, its
  descriptor and its process share one identity `c \in Create`; the maps of the
  code are functions from workspace ids to such identities, so two launches of
  one folder meet in the same entries as they do in the code.  One action per
  handler: `create`, `downloadSettles`, `portFound`, `instanceHealthy`,
  `readinessFails`, `becomesReady`, `childExits`, `delete`, `escalate`,
  `shutdown`, `processExit`.  `childExits` is the whole turn of the event loop:
  `handleExit`, `handleProcessExit`, the catch of a `create()` that still waits,
  and the continuation of `runtime.stop` in `delete()` or `shutdown()`.
  `published` is the list of events of the last step.
* `InstanceEvents` - `WorkspaceLifecycle` composed with the event bridge and
  with what a client makes of the events.  The bus is synchronous, so the
  bridge reacts inside the step that publishes.
* `VoiceMode` - `ClientConnectionManager`, the routes that use it,
  `VoiceModeManager` and the plugin channel.  A key and the streams opened under
  it are different things; a stream that was ended by the server still has its
  `close` event ahead.
* `VoiceChannel` - what voice mode promises, without caches and notifications.
  `VoiceMode` implements it under the mapping `live <- Connected, wanted <-
  enabled, joined <- listens, told <- heard`.
* `BackgroundProcesses` - the processes an agent starts in one workspace.  A
  task is one call of an async function of the manager, and `task[t].at` is the
  await it is at; `copy` is what it has read of `index.json` and will write
  back.  `running` and `completion` are the map, `index` is what the file reads
  as, `known` whether the workspace manager has the workspace.
* `UiSessions` - the sessions of one instance as the interface knows them.
  `work` and `asked` are what the instance does, `chan` its events on their way,
  `hydration`, `fetching`, `answers` and `replies` the calls under way, each with
  the snapshot its answer holds.  `MCUiSessions` gives the owner of the requests.
* `MessageStore` - the messages of one session.  `store` is one record and the
  operations are operators from stores to stores, because a handler applies
  several of them.  `memory` is the revert that the session's own record knows of.
* `ConversationSpeech` - the mode, the queue, and the one runner, whose awaits
  (the handle, the end of the audio) are the places where other steps come in.
* `CliProcess` - Electron's process manager with every caller.  The main process
  runs one job at a time; `resumed` are the calls that go on in the microtasks
  of the current job, before any other event.
* `CliManager` - Tauri's process manager.  A step is what a thread does between
  two places where another may interfere.  Mutexes have no variable: `ChildFree`
  and `StatusFree` say at which places of the threads one is held.
* `MCDesktop` - both of them in one run; `moves` says which application runs.
* `Sidecars`, `RemoteProxy`, `BinaryDownload`, `WorktreeMap`, `UpdateRollback` -
  one module per component.  In `RemoteProxy` time is seen through the
  comparisons of the loops: the sessions used within the last half hour
  (`recent`), and per loop those idle for it when the loop began.  In
  `BinaryDownload` files outlive the server, and a step copies what its source
  holds, a part or all of it.  In `WorktreeMap` a task is a chain
  of requests, and files are told from their names: `inode[t]` is the file that
  request `t` created.  In `UpdateRollback` versions are numbers in the order of
  release, version 1 is the one the user installed by hand; `found`,
  `downloaded`, `armed` and `trial` are memory of a process; when no process runs
  they keep what the last one had.
* `MCSmallParts` - these and `ConversationSpeech` in one run; they share no
  state, and `moves` says which one moves in a behaviour.
* `Selections` - two operators on lists for `MessageStore` and
  `ConversationSpeech`: what is left of a list without some members, and a set of
  numbers in their order.
* `InstanceEvents_proofs` (with the theorems of `WorkspaceLifecycle`),
  `VoiceMode_proofs`, `BackgroundProcesses_proofs`, `UiSessions_proofs`,
  `MessageStore_proofs`, `CliProcess_proofs` (with those of `CliManager`),
  `SmallParts_proofs` (with those of `UpdateRollback`, `ConversationSpeech`,
  `RemoteProxy`, `BinaryDownload`, `Sidecars` and `WorktreeMap`) - theorems;
  `Selections_proofs` - the lemmas on lists they rest on.

Definitions named `X_Y` next to `X` are mutants: what a plausible bug in `X`
would look like.  Replacing `X` by one of them must break the property
`PROJECT.json` names.

## Runs

| Run | Instance | What it shows |
|---|---|---|
| `workspace_overlap` | 1 folder, 3 creates, 2 deletes, with the bridge; clients overlap at will, instances may be sick | what holds whatever clients do: ports belong to live processes, who was told of a start is told of the end, stops end, no stream stays with a dead process |
| `events_serial` | 2 folders, 3 creates, 2 deletes, with the bridge; clients wait for answers, healthy instances | clients see the truth; processes and passwords have their records; a ready workspace gets its stream |
| `voice_mode` | 2 instances, 2 keys, 3 streams, 1 plugin | `VoiceChannel` is implemented, silent clients are dropped |
| `background_processes` | 2 processes, 1 stop or terminate, 1 cleanup, spawn may fail | the index calls nobody dead who lives; a cleanup leaves nothing alive; nobody waits for ever |
| `ui_sessions` | 2 sessions, a permission and a question of one of them, 2 events, one of them on its way, 2 calls | flags have their requests, indicators count what is there, only what ends a compaction ends it |
| `message_store` | 2 messages, 1 prompt, a permission and a question, 4 events, 2 on their way, 2 calls | echoes, loads and reverts in any order: prompts are shown once, requests at their calls, sums and the last message are exact |
| `desktop` | Electron: launch, 2 restarts, quit, install, 3 processes.  Tauri: launch, 1 restart, quit, starts that do not overlap | the status tells the truth, one server, none lost, calls and starts end, a page is shown, a quit ends |
| `small_parts` | updater: 4 releases, faults on.  Speech: 2 instances, 3 sessions, 4 parts.  Proxy: 3 sessions, 3 loops.  Download: 5 attempts.  Sidecars: 2 ids, 3 probes each.  Worktrees: 1 page, 2 sessions, 2 worktrees, 5 tasks | see `PROJECT.json`: one or two properties of each |
| `closed_tab_has_no_server`, `end_is_independent`, `waiting_holds_no_lock`, `stop_is_not_deadlocked` | the smallest that show it | end in a violation; the findings below |

**Bounds.**  `MaxCreates`, `MaxDeletes`, `MaxEvents`, `MaxCalls`, `MaxTasks`,
`MaxChildren`, `MaxServers`, `MaxProbes`, `MaxMessages` and `MaxVersion` bound
counters; the other numbers are sizes of constant sets.  One folder is enough
for overlaps, because operations on different folders share no entry; a third
create lets a launch follow a launch whose predecessor is still ending.  Two
folders show that handlers do not touch their neighbour.  Three streams on two
keys allow a key to be replaced while its old stream's close is under way and
another key is alive.  Two background processes make two starts and two close
handlers overwrite each other's updates of the index; a request adds a third
writer and a second waiter for the same child, and a cleanup has to go from one
child to the next.  In `UiSessions` an event meets two calls that have read
before it; the theorems have no bound.  In `MessageStore` two messages let a
revert take the last of them and leave one, and two events on their way may
surround an answer.  Under Electron the interface has two entries for a restart,
which may overlap each other, a quit and an install; the third process is that
of the second restart.  Under Tauri the second start meets every thread of the first.
Two instances and three sessions let the shown session share its instance with
one and not with the other; the fourth part waits behind one of each.  Each loop
of the proxy that hangs has closed one session, so that more loops than sessions
add nothing.  Five attempts are the code's own number.  Three probes of an id may
come from before a delete, before an update and after it.  Five tasks are a
load, a choice, a worktree that comes, one that goes and the pruning that
follows.  Four releases allow an update to be found while the trial of another
lasts, and one after that.

**Deadlock** is not checked in any run: the server may exit, all calls may have
been made, an application need not be started again.  Liveness properties look
for what must not stand still.

**Clients.**  In `WorkspaceLifecycle`, `Overlap = FALSE` stands for clients that
wait for the answer of an operation on a folder before the next one and do not
open a folder that is open.  The code does not enforce it (two browser tabs
break it); the properties of the serial run are false without it, and those of
the overlap run are not.  `Sick = FALSE` stands for instances whose readiness
checks succeed as long as they live.  In `WorktreeMap` it stands for a user who
waits for the answers of a page, and `GitMayFail = FALSE` for a `git worktree
list` that succeeds; in `CliManager` for a user who does not restart while a
start is under way.  What TLC finds otherwise is said under "What the code does
not ensure".

**Fairness.**  `WorkspaceLifecycle`: the 2 s timer of `runtime.stop` fires, and
a process that was sent SIGKILL exits.  Nothing makes a client call, an instance
come up or a process heed SIGTERM.  `InstanceEvents`: the retry delay ends, a
fetch settles, and the body of a dead process's response ends.  `VoiceMode`: the
sweep timer runs.  `BackgroundProcesses`: the two timers of `waitForExit` (2 s,
then 5 s) fire; neither a child nor the holder of its output has to end.
`CliProcess` and `CliManager`: timers fire, events are delivered, threads run, a
process that was sent SIGKILL dies and its connections break; no server has to
print, answer or heed SIGTERM.  In particular the exchange of the token ends
only when its server is dead (`NotAnswered`); `ReadyIsShown` names the live one
that never answers as the only excuse.  One weak fairness condition over all of these is
enough in both, because every behaviour has finitely many steps and need only
not stand still.  `RemoteProxy`: the timer ticks, a loop goes on after a close
that ended, and a close ends whose responses have ended; no response has to.
The other modules claim safety only.

## Proofs

The lifecycle, in `InstanceEvents_proofs`.  `PortIsLive`, `ReadyHasPid` and
`AwaitedIsSignalled` are not inductive: a record found under an id may be of any
call in any state.  `Inv` adds, for each call, how its progress, its
descriptor's status, its pid and its process belong together, and, for each map
entry, what call it may name.  From it follow type correctness and the three
invariants.

The composition, in the same module. Every step of the composition is a step of
the lifecycle or leaves it alone (`Implements`), so that the theorems above hold
of it. `StartedIsAlive` is inductive with `Inv`: only a process that has come up
is told of as started (`StartIsTold`), it stays what it is until its exit
(`CameUpStays`), which is told of the folder as long as that has a record of
whatever launch (`ExitTells`), and a folder is opened with an event of its own
(`CreateTells`). For serial clients the invariant is `Inv` and three parts: `Serial` (at
most one call of a folder is under way, and what its record, entry, password and
process are at each stage of it), the types of the streams, and `SerialStreams`
(per folder, what stream, target, status and view are for each state of the
record). A step of the lifecycle publishes nothing about a folder, or tells what
became of it; `BridgeFollows` says once what the bridge makes of either.

`VoiceMode_proofs`.  `Inv` says that open streams have keys, that the registry
and the open streams match, and that enabled connections are registered, the
aggregate is exact and every plugin heard it.  `Implements` maps every step to a
step of `VoiceChannel` or a stutter: registrations, closes, sweeps and the
shutdown to `Lose`, switching to `Want` or `Unwant`, plugin streams to `Join`.

`BackgroundProcesses_proofs`.  The file may be read before, and written after,
anything else happens, so `StoppedIsDead` says too little: the invariant says
the same of the copy in the hands of every task, and that a task which is about
to write an end knows of it.  Death is stable (`Onward`), hence true copies stay
true however late they land.  For `CleanupLeavesNone` it adds that whatever
lives is in the map and that only a killed child is given up.  Most steps move
one task; `OneTask` says once what such a step leaves alone.

`UiSessions_proofs`.  The counts are cardinalities of what they summarise and
are changed by one at a time; the invariant says that each equals the
cardinality, for queues and for the buckets of the indicator, and that flags
name sessions with a queued request.  Each operation of the stores has a lemma,
and a step combines those of the operations it calls.

`MessageStore_proofs`.  The operators that rebuild the store have a lemma each,
and the handlers, which apply several, combine them.  `StoreAlways` is what holds
of the store by itself: the list has no id twice and a record for each, the last
assistant message, the sums and the latest entry are those of the list, and ids
of this side belong to prompts that are not echoed.  `HistoryAlways` relates the
store to the instance.  What an event on its way says is still so when it comes:
parts are of assistant messages, what is said to be removed or answered is, since
the instance only goes on.  And for `PromptsEchoed`, while nothing got lost, there
are no more listed prompts with ids of this side than prompts being sent and
messages of the user whose echo is on its way (`EchoesOutstanding`): a call
that is answered turns one of the former into one of the latter, and the echo
takes one from the list.  For `OfferedAtItsCall`, `AllPlaced` says of every
queued request that it is bound and linked at its part, or unbound, linked under
its own id, and its part is not known; what removes messages or parts leaves
records and links alone, and the arrival of a part rebinds.

`CliProcess_proofs`. `StatusMatchesChild` needs that before the launch no
process was spawned, no page shown and no restart made (`BeforeBoot`); with it
and the types it is inductive over every call, timer and event. For `OneServer`
and `QuitLeavesNone` the invariant says, until a child is given up before its
exit, that what runs is the child of the field (`ProcessIsChild`), that one
restart at a time stops what another one has started, and goes on before the
others and with the field empty (`StopsInTurn`), and that a child in the job of
an exit is one which a restart has started there (`ChildIsStarted`). It is
inductive for `TwoRestarts`, the two places from which the interface restarts
the server, and any number of processes.

`SmallParts_proofs`. For the updater the invariant adds to the two properties
that the meta says "started" only while a process runs or after it crashed, that
a download is newer than what runs, and what the timer and the meta say of each
other while the window is open. For the download: what is about to be renamed
was copied to its end, and, where the archive is a .tar.gz, from a file that was
unpacked to its end. For the sidecars the invariant adds that of an id without a configuration nothing is
told. For conversation mode: while the runner plays, what sounds is its entry,
and nothing sounds otherwise; the queue holds distinct parts, all of them in the
set of its keys and none among the spoken, and what was heard is among these.
For the proxy: what a loop holds to be idle
has not been used since it began, and the place where a loop goes on is the
least that is idle, which exists by well-foundedness.

Some theorems hold for a use of the program which the code does not enforce:
that clients wait for answers and instances are healthy (`SerialClients`:
`ViewsMatch`, `StreamsFollow`, `ConnectedIsTrueAlways`), that there are at most
two places for a restart (`TwoRestarts`).  Four more results of this kind are in
the modules and are no claims about the program at large, because their
hypotheses leave out the very case in which the code fails (see "What the code
does not ensure"): `ChildrenAreOwned` and `PasswordsFit` for `SerialClients`;
`EveryServerIsHeldAlways` for starts under Tauri that do not overlap (`InTurn`,
`FieldIsFree`, `UnspawnedIsNone`: storing a child overwrites none);
`ChoiceIsKeptAlways` for one page with requests in turn and a git that answers
(what was chosen is in the file or in the one request about to put it there).
They say that the small bounds of the runs of those properties hide nothing.
Beyond such hypotheses all proofs assume only what the `ASSUME`s of the modules
state: the bounds are naturals, the sets are finite where they are counted,
processes are numbered, `None` is no member of the sets it is added to.  Type
correctness, `ReadyHasPid`, `AwaitedIsSignalled`, `AggregateExact`,
`EnabledAreConnected`, `PluginsHearAggregate`, `RegistryMatchesStreams`,
`EventsTypeOK`, `CountsMatchQueue` and `OfferMeansCrash` are proved and in no run.

Only model-checked is what needs fairness, which the installed provers do not
support: `StopsEnd`, `DeadStreamIsDropped`, `ReadyGetsStream`, `SilentIsDropped`,
`WaitsEnd`, `ElectronCallsEnd`, `ReadyIsShown`, `IdleIsDisposed`, `StartSettles`,
`QuitEnds`; and, without such hypotheses, nothing is proved of
`EveryChildIsOwned`, `PasswordFitsChild`, `EveryServerIsHeld` and `ChoiceIsKept`.
Every other property of a passing run has a theorem.  Where a
recursive definition of the library would have needed induction over data
(filtering a list, sorting a set), `Selections` says what the result is, and
`Selections_proofs` shows that there is one, that it has the right members and
repeats none.

## Findings

Each is a run that ends in a violation of what the repository says.

* Closing a tab while its workspace starts leaves the process running without a
  record (`ClosedTabHasNoServer`; `dev-docs/architecture.md:198`).
* The close handler of a background process is called without an await or a
  catch.  If it needs the index of a workspace whose record is gone, its
  rejection ends the server, and with it every other instance
  (`EndIsIndependent`; `dev-docs/build-roadmap.md:127`).
* `fetchSessions` enters sessions without the flags that events set while the
  list was on its way, so that the computer is kept awake while a session waits
  for the user (`WaitingHoldsNoLock`; `packages/ui/src/stores/session-api.ts:165`
  against `docs/features/wake-lock/SPECIFICATION.md:7`).
* Under Tauri, a stop that waits for its server holds the child's mutex and then
  wants the status'; the timer of a start holds the status' and wants the
  child's.  If the timer fires in between, the application never quits
  (`StopIsNotDeadlocked`; `packages/tauri-app/src-tauri/src/cli_manager.rs:849`
  against the comment at `cli_manager.rs:876`).

## What the code does not ensure

Seen while modelling; no run states them, either because no document says
otherwise or because a property of a run already excludes the case.

* Shutdown stops only workspaces that have a pid; one that is starting leaves its
  process behind (`tasks/done/003-process-manager.md:393` promises the opposite).
* The updater marks an update as being installed when it is downloaded; if the
  user goes on with the old version and that crashes soon after a launch, the
  next launch offers to roll back an update that never ran.  While the rollback
  dialog is shown it may find a release, back up the broken version and make that
  what the dialog restores.
* A download that has failed leaves its settled promise in place
  (`opencode-paths.ts:176`): later calls get that one, and nothing is downloaded
  before the server is restarted, while the setup screen says "Download failed,
  please try again" (`packages/ui/src/lib/i18n/messages/en/downloader.ts:7`).
* Worktrees.  A failed `git worktree list` is an empty list, by which the page
  prunes every entry and writes the empty map to the file
  (`packages/ui/src/stores/worktrees.ts:51`, `:147`, `:166`).  A second page
  overwrites choices with its stale copy.  Requests that overlap lose a choice,
  and, since the temporary file has one name (`worktree-map.ts:118`), may rename
  a file that another still writes.  TLC shows each with `GitMayFail`, a second
  page, or `Overlap`.
* Tauri.  Starts that overlap leave a server whose handle was overwritten and
  which no stop reaches (`EveryServerIsHeld` with `Overlap`); so does a quit that
  finds no child while the launch still spawns one.  The timer of an earlier start
  may kill the next server.  A line of an earlier process makes the next start
  "ready".  The token is exchanged without a timeout, under the mutex of the
  status, on which `cli_get_status` blocks the main thread.
* Electron.  A start that is given up after 60 s forgets its child before it has
  ended, and the late exit empties the field of the next one (`gaveUp` in
  `OneServer`).  A restart that waits for the same exit as a quit starts a server
  in the job that ends the application.  Three restarts that overlap could start
  two servers, for `start` stops a child and does not look again
  (`process-manager.ts:137`); the interface has two places for a restart.
* Workspaces.  The exit of a process is handled by the id of the folder
  (`workspaces/manager.ts:542`).  When two launches of a folder overlap, the end of
  the first tells clients that the folder has stopped, drops pid, port and
  password, and leaves the second process running where no delete reaches it.
* Message store.  The handlers that remove messages, echoed prompts, the links of
  parts and what was reverted pass `setState` a function that returns the map
  without the key; `setState` merges what it is given, so the key stays
  (`message-v2/instance-store.ts:722`, `:745`, `:783`, `:825`, `:1026`, `:1048`, and
  `clearSession` at `:1110`).  Lists and sums, which are changed in place, decide
  what is shown; records and links remain until `clearInstance`.
* Sidecars.  A probe that is under way when its sidecar is deleted or gets another
  port ends in the entry of whatever has the id by then
  (`sidecars/manager.ts:161`-`:168`): a sidecar created anew under the same name may
  be told as running because the old port answers, until the next probe.
* Electron's exchange of the bootstrap token has no timeout
  (`packages/electron-app/electron/main/main.ts:461`): a server that accepts the
  request and never answers leaves the user with the loading screen, and URL and
  token of a later server are ignored meanwhile.
* Binary download.  An archive whose name is removed late by the failed attempt
  before it makes the download fail although all of it came
  (`opencode-downloader.ts:180`).  Where the archive is a .tar.gz that lacks the
  binary, what an earlier server left in `extracted/` is installed, be it a part
  (`:232`); the same would follow if the library only warns of an entry it could
  not write.  The result is checked for its existence only (`:260`).
* Settings.  `applyMergePatch` merges recursively and only `null` deletes; the
  pages remove an environment variable by sending the map without it, which
  changes nothing.

## Hazards

`PROJECT.json` lists those that decide about the properties.  Left off the list,
though the code has them: a throw before the try block of `create`
(`workspaces/manager.ts:160`), a bridge that starts streams after its shutdown
(`instance-events.ts:41`), voice state that survives its workspace
(`plugins/voice-mode.ts:22`), the meta file written in place (`rollback.ts:53`),
a stop that replaces a terminate's completion, and a start that outlives the
cleanup (`background-processes/manager.ts:206`, `:83`), the failed download
above, audio that never starts (`conversation-speech.ts:416`), late answers that
bring back the sessions of a removed instance (`instances.ts:609`).

## Abstractions

* A step is one turn of the event loop.  Handlers without an await are one step
  with the listeners they call.  In `CliManager` a step is what a thread does
  between two acts that others may see.
* `error` and `close` of one request or process are not told apart when the code
  treats them alike.
* `processExit` waits for calls in flight, as the HTTP servers do when they
  close; open plugin streams may hold the exit back, so it may also never come.
* WSL and `taskkill` are seen as a signal; environment, arguments, logging and
  file access of a workspace are left out.  Both desktop applications are
  modelled on a system with process groups.
* The meta file of the updater is written atomically in the model.  Rollback,
  relaunch and quit are one step.  The dialog always reaches the user.
* Payloads of events are left out.
* `BackgroundProcesses`: reading and opening a file is one step, writing it a
  second; a file that two writers tore, or that a reader finds empty, reads as
  no records, as `readIndex` makes of it.  The notification of the agent's
  session delays the update that follows it and is otherwise left out.  Removing
  a directory succeeds.  A cleanup iterates over the map while it changes, in the
  order of insertion; the model goes on with any process of the map, which only
  adds behaviours.  `readIndex` reads the file, makes its directory and opens it
  in one step.  A restart of the server, which forgets the map and keeps the
  file, is not modelled.
* `UiSessions`, `MessageStore`: text, deltas, scroll positions, todos, drafts and
  revisions are left out; the instance and its connection are external, and a
  reconnect may lose what is on its way.
* `ConversationSpeech`: an event about a part that is not spoken yet may come any
  number of times, but at most one update of each kind is under way; the audio may
  start, end or fail at any time.
* `CliProcess`: the token line always precedes the URL, because the server is
  always started with `--generate-token`; the supervisor in a utility process is
  dead code and left out.  `CliManager`: cookie name, pid and texts of errors are
  left out; `stdout` is the stream whose lines count; commands run on the main
  thread, as Tauri's synchronous commands do.
* `BinaryDownload`: one server uses the directory; the unlink of the temporary
  file is seen as done; the archive of a release holds the binary, and
  `tar.extract` writes all of an entry or fails.  Whether an existing binary is of
  the latest release is an answer that may be either.
* `Sidecars`: names and ports are data.
* `WorktreeMap`: the default worktree is left out, since nothing sets it, and with it the last
  conditional reset of the delete dialog to the root
  (`worktree-selector.tsx:553`), which is reached only where the list still has the
  worktree after it was read again.
* `VoiceMode`: `shutdown` ends the streams and clears the registry in one step.
* `RemoteProxy`: that a session was used within half an hour may end at any time.

## Not modelled, and what could come next

* Settings documents: merge patch as a function against its reference, the cached
  documents with their change events, the pages' stale copies.
* Authentication: the one-time token and the generated password.
* A restart of the server in `BackgroundProcesses`; the pid files it would need.
* Git status and mutations, instance storage, the file cache, Tailscale, the
  release monitor: single calls around files, processes and requests.
* HTTP server and routes: what they do to state is modelled where the state is.

Left out for good: the Rust server (a second implementation of the same
interface), the components of the user interface, the plugin, the worker,
speech, TLS, parsing of git output: input, output and presentation with little
state.  They are most of the repository's lines, which is why the mapped
lines are a small share of them although most of the code that coordinates
processes, connections and stores is modelled.
