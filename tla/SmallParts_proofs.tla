------------------------- MODULE SmallParts_proofs -------------------------
(***************************************************************************)
(* Proofs about the parts of MCSmallParts, each from its own specification *)
(* and for every value of its constants: only a crash leads to a rollback  *)
(* dialog and the health window decides about an update, the binary is     *)
(* never found in part, the events tell the status of the sidecars, what   *)
(* waits may be spoken and what sounds can be stopped, a sweep closes no   *)
(* session that is in use, and a session stays in the worktree that was    *)
(* chosen for it.                                                          *)
(***************************************************************************)
EXTENDS MCSmallParts, Selections_proofs

-----------------------------------------------------------------------------
(* UpdateRollback: OfferMeansCrash is not inductive, as the dialog depends  *)
(* on what the last process left in the meta.  A "started" meta without a   *)
(* process must come from a crash, and for that the other ends must find it *)
(* in another state; an install does because a process that has downloaded  *)
(* an update has also moved the meta on.  WindowDecides speaks of the state *)
(* after a crash: WindowOpen is what makes it so while the process runs.    *)

StartedMeansCrash == ~Up /\ meta.state = "started" => ended = "crash"

DownloadMovesOn == Up /\ downloaded # NoVersion => meta.state # "started"

WindowOpen ==
  trial /\ found = NoVersion /\ (Up \/ ended = "crash")
    => (meta.state = "started" <=> armed)

IInv ==
  /\ TypeOK
  /\ OfferMeansCrash
  /\ StartedMeansCrash
  /\ DownloadMovesOn
  /\ WindowOpen

\* The first launch of a fresh installation.
LEMMA InitInv == Init => IInv
<1> SUFFICES ASSUME Init PROVE IInv
  OBVIOUS
<1>1. 0 \in 0 .. MaxVersion /\ 1 \in 0 .. MaxVersion /\ 1 \in Version
  BY UpdateAssumption DEF Version
<1>2. NoMeta \in UpdateMeta /\ NoOffer \in Offer
  BY <1>1 DEF NoMeta, UpdateMeta, UpdateState, NoOffer, Offer, NoVersion
<1>3. TypeOK
  BY <1>1, <1>2 DEF Init, TypeOK, NoVersion
<1>4. meta.state # "started"
  BY DEF Init, NoMeta
<1> QED
  BY <1>3, <1>4 DEF Init, IInv, OfferMeansCrash, StartedMeansCrash, DownloadMovesOn, WindowOpen

\* Removing the backup of a meta keeps the type of the backup directory.
LEMMA CleanedType == TypeOK => cleaned(meta) \in [Version -> {"none", "part", "whole"}]
  BY DEF TypeOK, cleaned

\* Every step of the desktop application keeps the types.
LEMMA NextType == TypeOK /\ [Next]_vars => TypeOK'
<1> SUFFICES ASSUME TypeOK, [Next]_vars PROVE TypeOK'
  OBVIOUS
<1> USE UpdateAssumption DEF Version, NoVersion, UpdateMeta, Offer
<1>1. CASE startApp
  BY <1>1 DEF TypeOK, startApp, checkStartup, UpdateState, NoOffer, Up
<1>2. CASE confirmHealthyStart
  BY <1>2, CleanedType DEF TypeOK, confirmHealthyStart, UpdateState
<1>3. CASE release
  BY <1>3 DEF TypeOK, release, process
<1>4. CASE updateAvailable
  BY <1>4 DEF TypeOK, updateAvailable, UpdateState, Up
<1>5. CASE backupFails
  BY <1>5 DEF TypeOK, backupFails, Up
<1>6. CASE backupIsCut
  BY <1>6 DEF TypeOK, backupIsCut, exits, NoOffer, Up
<1>7. CASE updateDownloaded
  BY <1>7 DEF TypeOK, updateDownloaded, UpdateState
<1>8. CASE installUpdate
  BY <1>8 DEF TypeOK, installUpdate, exits, NoOffer
<1>9. CASE quit
  BY <1>9, CleanedType DEF TypeOK, quit, exits, NoOffer, markCleanExit, UpdateState
<1>10. CASE crash
  BY <1>10 DEF TypeOK, crash, exits, NoOffer
<1>11. CASE rollback
  <2>1. meta.backup \in Version
    BY <1>11 DEF TypeOK, rollback, HasBackup
  <2>2. backups[meta.backup] \in {"part", "whole"}
    BY <1>11, <2>1 DEF TypeOK, rollback, HasBackup
  <2>3. Restored \subseteq 0 .. MaxVersion
    BY <2>1, <2>2 DEF TypeOK, Restored
  <2>4. installed' \in 0 .. MaxVersion
    BY <1>11, <2>3 DEF rollback
  <2>5. meta' \in UpdateMeta
    BY <1>11 DEF TypeOK, rollback, rolledBack, UpdateState
  <2>6. backups' \in [Version -> {"none", "part", "whole"}]
    BY <1>11, CleanedType DEF rollback
  <2> QED
    BY <1>11, <2>4, <2>5, <2>6 DEF TypeOK, rollback, exits, NoOffer
<1>12. CASE rollbackIsCut
  BY <1>12 DEF TypeOK, rollbackIsCut, exits, NoOffer
<1>13. CASE dismiss
  BY <1>13 DEF TypeOK, dismiss, NoOffer
<1>14. CASE UNCHANGED vars
  BY <1>14 DEF TypeOK, vars, process
<1> QED
  BY <1>1, <1>2, <1>3, <1>4, <1>5, <1>6, <1>7, <1>8, <1>9, <1>10, <1>11, <1>12,
     <1>13, <1>14 DEF Next

\* Every step keeps the facts that tie the dialog to a crash and the meta to
\* the health window.
LEMMA NextInv == IInv /\ [Next]_vars => IInv'
<1> SUFFICES ASSUME IInv, [Next]_vars PROVE IInv'
  OBVIOUS
<1>1. TypeOK /\ TypeOK'
  BY NextType DEF IInv
<1> USE <1>1 DEF IInv, OfferMeansCrash, StartedMeansCrash, DownloadMovesOn, WindowOpen, NoVersion
<1>2. CASE startApp
  BY <1>2 DEF startApp, checkStartup, TypeOK, UpdateMeta, UpdateState, Up
<1>3. CASE confirmHealthyStart
  BY <1>3 DEF confirmHealthyStart, TypeOK, UpdateMeta, Up
<1>4. CASE updateAvailable
  <2>1. found' # 0
    BY <1>4 DEF updateAvailable, TypeOK, Version
  <2> QED
    BY <1>4, <2>1 DEF updateAvailable, Up
<1>5. CASE updateDownloaded
  BY <1>5 DEF updateDownloaded, TypeOK, UpdateMeta, Up
<1>6. CASE installUpdate
  BY <1>6 DEF installUpdate, exits, Up
<1>7. CASE quit
  BY <1>7 DEF quit, exits, markCleanExit, TypeOK, UpdateMeta, Up
<1>8. CASE rollback
  BY <1>8 DEF rollback, rolledBack, exits, TypeOK, UpdateMeta, Up
<1>9. CASE crash \/ backupIsCut \/ rollbackIsCut
  BY <1>9 DEF crash, backupIsCut, rollbackIsCut, exits, Up
<1>10. CASE backupFails
  <2>1. found' # 0
    BY <1>10 DEF backupFails, TypeOK, Version
  <2> QED
    BY <1>10, <2>1 DEF backupFails, Up
<1>11. CASE release \/ dismiss \/ UNCHANGED vars
  BY <1>11 DEF release, dismiss, vars, process, Up
<1> QED
  BY <1>2, <1>3, <1>4, <1>5, <1>6, <1>7, <1>8, <1>9, <1>10, <1>11 DEF Next

\* The inductive invariant holds in every reachable state.
THEOREM Invariance == Spec => []IInv
  BY InitInv, NextInv, PTL DEF Spec

\* Every variable of the updater keeps its type; in particular the restored
\* version of a rollback is a version or a torn application.
THEOREM TypeCorrect == Spec => []TypeOK
<1>1. IInv => TypeOK
  BY DEF IInv
<1> QED
  BY <1>1, Invariance, PTL

\* Whatever releases come out and whatever fails, no orderly end of the
\* application leads to a rollback dialog.
THEOREM OfferMeansCrashAlways == Spec => []OfferMeansCrash
<1>1. IInv => OfferMeansCrash
  BY DEF IInv
<1> QED
  BY <1>1, Invariance, PTL

\* For any releases and faults: a crash of an update's first process is known
\* to the next launch exactly when it came within the health window.
THEOREM WindowDecidesAlways == Spec => []WindowDecides
<1>1. IInv => WindowDecides
  BY DEF IInv, WindowOpen, WindowDecides
<1> QED
  BY <1>1, Invariance, PTL

-----------------------------------------------------------------------------
(* BinaryDownload: what is renamed was copied to its end, from an entry     *)
(* that was unpacked to its end.                                            *)

DownloadInv ==
  /\ BinaryIsWhole
  /\ zip \in BOOLEAN
  /\ at = "finish" => tmp = "whole"
  /\ at = "copy" /\ ~zip => extracted = "whole"

\* No step of the download, and no death of the server, breaks this: a file
\* left in part is written anew before the place is reached where it counts.
LEMMA DownloadStep == DownloadInv /\ [Download!Next]_(Download!vars) => DownloadInv'
<1> SUFFICES ASSUME DownloadInv, [Download!Next]_(Download!vars) PROVE DownloadInv'
  OBVIOUS
<1> USE DEF DownloadInv, BinaryIsWhole, Download!BinaryIsWhole, Download!files, Download!memory
<1>1. CASE Download!ensureDownloaded /\ UNCHANGED zip
  <2>1. CASE Download!latestVersionKnown \/ Download!latestVersionUnknown \/ Download!directoryFails
    BY <1>1, <2>1 DEF Download!latestVersionKnown, Download!latestVersionUnknown,
       Download!directoryFails, Download!succeeds, Download!fails, Download!downloads
  <2>2. CASE Download!responseStarts \/ Download!bodyEnds \/ Download!attemptFails
             \/ Download!delayEnds
    BY <1>1, <2>2 DEF Download!responseStarts, Download!bodyEnds, Download!attemptFails,
       Download!delayEnds
  <2>3. CASE Download!extractStarts \/ Download!unpacked
    BY <1>1, <2>3 DEF Download!extractStarts, Download!unpacked
  <2>4. CASE Download!copied \/ Download!renames
    BY <1>1, <2>4 DEF Download!copied, Download!renames
  <2>5. CASE Download!extractionFails \/ Download!verified \/ Download!ensureDownloadedFails
    BY <1>1, <2>5 DEF Download!extractionFails, Download!verified,
       Download!ensureDownloadedFails, Download!succeeds, Download!fails
  <2> QED
    BY <1>1, <2>1, <2>2, <2>3, <2>4, <2>5 DEF Download!ensureDownloaded
<1>2. CASE Download!triggerBinaryDownload /\ UNCHANGED zip
  BY <1>2 DEF Download!triggerBinaryDownload
<1>3. CASE (Download!unlinks \/ Download!serverDies) /\ UNCHANGED zip
  BY <1>3 DEF Download!unlinks, Download!serverDies
<1>4. CASE UNCHANGED Download!vars
  BY <1>4 DEF Download!vars
<1> QED
  BY <1>1, <1>2, <1>3, <1>4 DEF Download!Next

\* However often the server dies in a download, what is found in the place of
\* the binary is all of one release.
THEOREM BinaryIsWholeAlways == Download!Spec => []BinaryIsWhole
<1>1. Download!Init => DownloadInv
  BY DEF Download!Init, DownloadInv, BinaryIsWhole, Download!BinaryIsWhole
<1>2. DownloadInv => BinaryIsWhole
  BY DEF DownloadInv
<1> QED
  BY <1>1, <1>2, DownloadStep, PTL DEF Download!Spec

-----------------------------------------------------------------------------
(* Sidecars: a late probe may leave a status for an id that is not          *)
(* configured, so what was told of such an id must be said as well.         *)

SidecarInv ==
  /\ HeardStatusIsTrue
  /\ runtime \in [Id -> Sidecar!Status \cup {"none"}]
  /\ told \in [Id -> Sidecar!Status \cup {"none"}]
  /\ \A i \in Id \ configs : told[i] = "none"
  /\ configs \subseteq Id /\ file \subseteq Id

\* Every operation and every probe keeps what was told in step.
LEMMA SidecarStep == SidecarInv /\ [Sidecar!Next]_(Sidecar!vars) => SidecarInv'
<1> SUFFICES ASSUME SidecarInv, [Sidecar!Next]_(Sidecar!vars) PROVE SidecarInv'
  OBVIOUS
<1> USE DEF SidecarInv, HeardStatusIsTrue, Sidecar!HeardStatusIsTrue, Sidecar!Status,
            Sidecar!persistConfigs
<1>1. ASSUME NEW i \in Id, Sidecar!create(i) PROVE SidecarInv'
  BY <1>1 DEF Sidecar!create, Sidecar!created
<1>2. ASSUME NEW i \in Id, Sidecar!delete(i) PROVE SidecarInv'
  BY <1>2 DEF Sidecar!delete
<1>3. ASSUME NEW i \in Id, Sidecar!update(i) \/ Sidecar!get(i) \/ Sidecar!list PROVE SidecarInv'
  BY <1>3 DEF Sidecar!update, Sidecar!get, Sidecar!list
<1>4. ASSUME NEW i \in Id, NEW status \in Sidecar!Status, Sidecar!probeEnds(i, status)
      PROVE  SidecarInv'
  BY <1>4 DEF Sidecar!probeEnds
<1>5. CASE Sidecar!restart
  BY <1>5 DEF Sidecar!restart, Sidecar!loadConfiguredSideCars
<1>6. CASE Sidecar!list \/ UNCHANGED Sidecar!vars
  BY <1>6 DEF Sidecar!list, Sidecar!vars
<1> QED
  BY <1>1, <1>2, <1>3, <1>4, <1>5, <1>6 DEF Sidecar!Next

\* For any number of sidecars and probes, a client that was told of every change
\* knows the status of each sidecar.
THEOREM HeardStatusIsTrueAlways == Sidecar!Spec => []HeardStatusIsTrue
<1>1. Sidecar!Init => SidecarInv
  BY DEF Sidecar!Init, SidecarInv, HeardStatusIsTrue, Sidecar!HeardStatusIsTrue, Sidecar!Status
<1>2. SidecarInv => HeardStatusIsTrue
  BY DEF SidecarInv
<1> QED
  BY <1>1, <1>2, SidecarStep, PTL DEF Sidecar!Spec

-----------------------------------------------------------------------------
(* ConversationSpeech: the element that plays is the one of the runner's    *)
(* entry, and nothing plays while the runner waits for a handle.            *)

SpeechInv ==
  /\ runnerPhase = "playing" => current = entry /\ sounding \subseteq {current}
  /\ runnerPhase # "playing" => current = None /\ sounding = {}

\* The runner goes on from a state in which nothing plays.
LEMMA RunsSilently ==
  ASSUME NEW q, NEW keys, NEW on, NEW s,
         Speech!runs(q, keys, on, s), current' = None, sounding' = {}
  PROVE  SpeechInv'
  BY DEF Speech!runs, SpeechInv

\* What empties the queue stops the current playback if it is among the parts.
LEMMA ClearsStops ==
  ASSUME NEW parts \in SUBSET Part, NEW on, NEW s, SpeechInv, Speech!clears(parts, on, s)
  PROVE  SpeechInv'
<1>1. CASE current \in parts
  <2>1. runnerPhase = "playing" /\ sounding \subseteq {current}
    BY <1>1, PartsAssumption DEF SpeechInv
  <2>2. current' = None /\ sounding' = {}
    BY <1>1, <2>1 DEF Speech!clears
  <2>3. Speech!runs(Speech!without(parts), Speech!keysWithout(parts), on, s)
    BY <1>1 DEF Speech!clears
  <2> QED
    BY <2>2, <2>3, RunsSilently
<1>2. CASE current \notin parts
  BY <1>2 DEF Speech!clears, Speech!runner, SpeechInv
<1> QED
  BY <1>1, <1>2

\* Every step of the conversation keeps it so.
LEMMA SpeechStep == SpeechInv /\ [Speech!Next]_(Speech!vars) => SpeechInv'
<1> SUFFICES ASSUME SpeechInv, [Speech!Next]_(Speech!vars) PROVE SpeechInv'
  OBVIOUS
<1> USE DEF Speech!player, Speech!runner
<1>1. /\ \A i : Speech!ofInstance(i) \in SUBSET Part
      /\ \A s : Speech!ofSession(s) \in SUBSET Part
  BY DEF Speech!ofInstance, Speech!ofSession
<1>2. ASSUME NEW i \in Instance, Speech!setConversationModeEnabled(i) PROVE SpeechInv'
  <2>1. CASE i \in mode
    BY <1>1, <1>2, <2>1, ClearsStops DEF Speech!setConversationModeEnabled
  <2>2. CASE i \notin mode
    BY <1>2, <2>2 DEF Speech!setConversationModeEnabled, SpeechInv
  <2> QED
    BY <2>1, <2>2
<1>3. ASSUME NEW u \in updates, Speech!updateAnswered(u) PROVE SpeechInv'
  BY <1>3 DEF Speech!updateAnswered, SpeechInv
<1>4. ASSUME NEW u \in updates, Speech!updateFails(u) PROVE SpeechInv'
  <2>1. CASE u.previous
    BY <1>4, <2>1 DEF Speech!updateFails, SpeechInv
  <2>2. CASE ~u.previous
    BY <1>1, <1>4, <2>2, ClearsStops DEF Speech!updateFails
  <2> QED
    BY <2>1, <2>2
<1>5. ASSUME NEW s \in Session, Speech!show(s) PROVE SpeechInv'
  BY <1>1, <1>5, ClearsStops DEF Speech!show
<1>6. CASE Speech!sendMessage \/ Speech!beginVoicePress
  BY <1>1, <1>6, ClearsStops DEF Speech!sendMessage, Speech!beginVoicePress
<1>7. ASSUME NEW p \in Part, Speech!partUpdated(p) PROVE SpeechInv'
  <2>1. CASE runnerPhase = "none"
    <3>1. current' = None /\ sounding' = {}
      BY <1>7, <2>1 DEF Speech!partUpdated, SpeechInv
    <3>2. Speech!runs(Append(queue, p), queuedKeys \cup {p}, mode, shown)
      BY <1>7, <2>1 DEF Speech!partUpdated
    <3> QED
      BY <3>1, <3>2, RunsSilently
  <2>2. CASE runnerPhase # "none"
    BY <1>7, <2>2 DEF Speech!partUpdated, SpeechInv
  <2> QED
    BY <2>1, <2>2
<1>8. CASE Speech!playbackStarts
  BY <1>8 DEF Speech!playbackStarts, SpeechInv
<1>9. CASE Speech!playbackEnds
  <2>1. current' = None /\ sounding' = {}
    BY <1>9 DEF Speech!playbackEnds, SpeechInv
  <2> QED
    BY <1>9, <2>1, RunsSilently DEF Speech!playbackEnds
<1>10. CASE Speech!playbackFails
  BY <1>10 DEF Speech!playbackFails, SpeechInv
<1>11. CASE UNCHANGED Speech!vars
  BY <1>11 DEF Speech!vars, SpeechInv
<1> QED
  BY <1>2, <1>3, <1>4, <1>5, <1>6, <1>7, <1>8, <1>9, <1>10, <1>11 DEF Speech!Next

\* For any instances, sessions and parts: two parts are never heard at once, and
\* what is heard is the current playback, which can be stopped.
THEOREM AudibleCanBeStoppedAlways == Speech!Spec => []AudibleCanBeStopped
<1>1. Speech!Init => SpeechInv
  BY DEF Speech!Init, SpeechInv
<1>2. SpeechInv => AudibleCanBeStopped
  BY DEF SpeechInv, AudibleCanBeStopped, Speech!AudibleCanBeStopped
<1> QED
  BY <1>1, <1>2, SpeechStep, PTL DEF Speech!Spec

-----------------------------------------------------------------------------
(* ConversationSpeech: what waits has not been heard, and waits once.  The  *)
(* keys guard the queue against a second entry of a part, the spoken parts  *)
(* against one that was taken from it.                                      *)

Waiting == Range(queue)

WaitsOnce ==
  /\ queue \in Seq(Part) /\ IsInjective(queue)
  /\ Waiting \subseteq queuedKeys /\ Waiting \cap spoken = {}

EntryIsSpoken ==
  /\ heard \subseteq spoken
  /\ runnerPhase # "none" => entry \in spoken
  /\ runnerPhase = "creating" => entry \notin heard

QueueInv == WaitsOnce /\ EntryIsSpoken /\ QueueMayBeSpoken

\* What is left of the queue without some parts.
LEMMA LeftOfQueue ==
  ASSUME queue \in Seq(Part), NEW parts
  PROVE  /\ Speech!without(parts) \in Seq(Part)
         /\ Range(Speech!without(parts)) = Waiting \ parts
         /\ IsInjective(queue) => IsInjective(Speech!without(parts))
<1>1. Speech!without(parts) = Without(queue, parts)
  BY DEF Speech!without, Speech!Without, Speech!InOrder, Speech!Ascending,
         Speech!Cardinality, Cardinality, Without, InOrder, Ascending
<1> QED
  BY <1>1, WithoutProperties DEF Waiting

\* The runner takes one part from a list of parts that are new, and what it
\* leaves in the queue comes after it.
LEMMA RunsOnce ==
  ASSUME NEW q \in Seq(Part), NEW keys, NEW on, NEW s, Speech!runs(q, keys, on, s),
         IsInjective(q), Range(q) \subseteq keys, Range(q) \cap spoken = {},
         heard \subseteq spoken, heard' = heard
  PROVE  WaitsOnce' /\ EntryIsSpoken' /\ Range(queue') \subseteq Range(q)
<1> DEFINE waits == {i \in DOMAIN q : sessionOf[q[i]] = s /\ instanceOf[s] \in on}
           first == Speech!Min(waits)
<1>1. DOMAIN q = 1 .. Len(q) /\ Len(q) \in Nat
  OBVIOUS
<1>2. CASE waits = {}
  <2>1. queue' = <<>> /\ runnerPhase' = "none" /\ spoken' = spoken
    BY <1>2 DEF Speech!runs
  <2>2. Range(<<>>) = {} /\ IsInjective(<<>>) /\ <<>> \in Seq(Part)
    BY DEF Range, IsInjective
  <2> QED
    BY <2>1, <2>2 DEF WaitsOnce, EntryIsSpoken, Waiting
<1>3. CASE waits # {}
  <2>1. waits \in SUBSET Nat
    BY <1>1
  <2>2. \E m \in waits : \A k \in waits : m <= k
    BY <1>3, <2>1, SmallestExists
  <2>3. first \in waits
    BY <2>2 DEF Speech!Min
  <2> HIDE DEF first
  <2>4. /\ queue' = SubSeq(q, first + 1, Len(q))
        /\ queuedKeys' = keys \ {q[j] : j \in 1 .. first}
        /\ runnerPhase' = "creating" /\ entry' = q[first]
        /\ spoken' = spoken \cup {q[first]}
    BY <1>3 DEF Speech!runs, first
  <2>5. first \in 1 .. Len(q)
    BY <1>1, <2>3
  <2>6. \A i \in first + 1 .. Len(q) : q[i] \in Part
    BY <1>1, <2>5
  <2>7. /\ queue' \in Seq(Part) /\ Len(queue') = Len(q) - first
        /\ \A i \in 1 .. Len(q) - first : queue'[i] = q[first + i]
    BY <1>1, <2>4, <2>5, <2>6, SubSeqProperties
  <2>8. DOMAIN queue' = 1 .. Len(q) - first
    BY <2>7
  <2>9. \A i \in DOMAIN queue' : first + i \in DOMAIN q /\ first + i > first
    BY <1>1, <2>5, <2>8
  <2>10. \A i \in DOMAIN queue', j \in 1 .. first : queue'[i] # q[j]
    BY <1>1, <2>5, <2>7, <2>8, <2>9 DEF IsInjective
  <2>11. IsInjective(queue')
    BY <1>1, <2>5, <2>7, <2>8, <2>9 DEF IsInjective
  <2>12. Range(queue') \subseteq Range(q)
    BY <2>7, <2>8, <2>9 DEF Range
  <2>13. \A x \in Range(queue') : \A j \in 1 .. first : x # q[j]
    BY <2>10 DEF Range
  <2>14. Range(queue') \subseteq queuedKeys'
    BY <2>4, <2>12, <2>13
  <2>15. Range(queue') \cap spoken' = {}
    BY <2>4, <2>5, <2>12, <2>13
  <2>16. q[first] \in Range(q)
    BY <1>1, <2>5 DEF Range
  <2> QED
    BY <2>4, <2>7, <2>11, <2>12, <2>14, <2>15, <2>16 DEF WaitsOnce, EntryIsSpoken, Waiting
<1> QED
  BY <1>2, <1>3

\* What empties the queue of some parts leaves none of them.
LEMMA ClearsOnce ==
  ASSUME NEW parts \in SUBSET Part, NEW on, NEW s, Speech!clears(parts, on, s),
         WaitsOnce, EntryIsSpoken
  PROVE  WaitsOnce' /\ EntryIsSpoken' /\ Range(queue') \subseteq Waiting \ parts
<1> DEFINE q == Speech!without(parts)
           keys == Speech!keysWithout(parts)
<1>1. q \in Seq(Part) /\ Range(q) = Waiting \ parts /\ IsInjective(q)
  BY LeftOfQueue DEF WaitsOnce
<1>2. keys = queuedKeys \ (parts \cap Waiting)
  BY DEF Speech!keysWithout, Speech!ToSet, Waiting, Range
<1>3. Range(q) \subseteq keys /\ Range(q) \cap spoken = {}
  BY <1>1, <1>2 DEF WaitsOnce
<1>4. heard' = heard
  BY DEF Speech!clears
<1>5. CASE current \in parts
  <2>1. Speech!runs(q, keys, on, s)
    BY <1>5 DEF Speech!clears
  <2> HIDE DEF q, keys
  <2> QED
    BY <1>1, <1>3, <1>4, <2>1, RunsOnce DEF EntryIsSpoken
<1>6. CASE current \notin parts
  BY <1>1, <1>3, <1>6 DEF Speech!clears, Speech!runner, WaitsOnce, EntryIsSpoken, Waiting
<1> QED
  BY <1>5, <1>6

\* Every step keeps the invariant, and what begins to sound was not heard before.
LEMMA QueueStep ==
  ASSUME QueueInv, [Speech!Next]_(Speech!vars)
  PROVE  QueueInv' /\ \A p \in sounding' \ sounding : p \notin heard
<1> DEFINE New == \A p \in sounding' \ sounding : p \notin heard
<1> USE DEF Speech!player, Speech!runner
<1>1. /\ \A i : Speech!ofInstance(i) \in SUBSET Part
      /\ \A s : Speech!ofSession(s) \in SUBSET Part
  BY DEF Speech!ofInstance, Speech!ofSession
<1>2. /\ WaitsOnce /\ EntryIsSpoken
      /\ \A p \in Waiting : p \in Part /\ instanceOf[sessionOf[p]] \in mode /\ sessionOf[p] = shown
  <2>1. \A p \in Waiting : p \in Part
    BY DEF QueueInv, WaitsOnce, Waiting, Range
  <2> QED
    BY <2>1 DEF QueueInv, QueueMayBeSpoken, Speech!QueueMayBeSpoken, Speech!Speakable,
                Speech!ToSet, Waiting, Range
<1>3. ASSUME \A p \in Waiting' : instanceOf[sessionOf[p]] \in mode' /\ sessionOf[p] = shown'
      PROVE  QueueMayBeSpoken'
  BY <1>3 DEF QueueMayBeSpoken, Speech!QueueMayBeSpoken, Speech!Speakable,
              Speech!ToSet, Waiting, Range
<1>4. ASSUME NEW parts \in SUBSET Part, NEW on, NEW s, Speech!clears(parts, on, s)
      PROVE  WaitsOnce' /\ EntryIsSpoken' /\ Waiting' \subseteq Waiting \ parts /\ New
  <2>1. sounding' \subseteq sounding
    BY <1>4 DEF Speech!clears
  <2> QED
    BY <1>2, <1>4, <2>1, ClearsOnce DEF Waiting
<1>5. ASSUME NEW i \in Instance, Speech!setConversationModeEnabled(i) PROVE QueueInv' /\ New
  <2>1. CASE i \in mode
    <3>1. /\ Speech!clears(Speech!ofInstance(i), mode', shown)
          /\ mode' = mode \ {i} /\ shown' = shown
      BY <1>5, <2>1 DEF Speech!setConversationModeEnabled
    <3>2. WaitsOnce' /\ EntryIsSpoken' /\ Waiting' \subseteq Waiting \ Speech!ofInstance(i) /\ New
      BY <1>1, <1>4, <3>1
    <3> QED
      BY <1>2, <1>3, <3>1, <3>2 DEF QueueInv, Speech!ofInstance
  <2>2. CASE i \notin mode
    <3>1. mode' = mode \cup {i} /\ UNCHANGED <<shown, Speech!player>>
      BY <1>5, <2>2 DEF Speech!setConversationModeEnabled
    <3> QED
      BY <1>2, <1>3, <3>1 DEF QueueInv, WaitsOnce, EntryIsSpoken, Waiting
  <2> QED
    BY <2>1, <2>2
<1>6. ASSUME NEW u \in updates, Speech!updateAnswered(u) PROVE QueueInv' /\ New
  BY <1>2, <1>3, <1>6 DEF Speech!updateAnswered, QueueInv, WaitsOnce, EntryIsSpoken, Waiting
<1>7. ASSUME NEW u \in updates, Speech!updateFails(u) PROVE QueueInv' /\ New
  <2>1. CASE u.previous
    <3>1. mode' = mode \cup {u.instance} /\ UNCHANGED <<shown, Speech!player>>
      BY <1>7, <2>1 DEF Speech!updateFails
    <3> QED
      BY <1>2, <1>3, <3>1 DEF QueueInv, WaitsOnce, EntryIsSpoken, Waiting
  <2>2. CASE ~u.previous
    <3>1. /\ Speech!clears(Speech!ofInstance(u.instance), mode', shown)
          /\ mode' = mode \ {u.instance} /\ shown' = shown
      BY <1>7, <2>2 DEF Speech!updateFails
    <3>2. /\ WaitsOnce' /\ EntryIsSpoken' /\ New
          /\ Waiting' \subseteq Waiting \ Speech!ofInstance(u.instance)
      BY <1>1, <1>4, <3>1
    <3> QED
      BY <1>2, <1>3, <3>1, <3>2 DEF QueueInv, Speech!ofInstance
  <2> QED
    BY <2>1, <2>2
<1>8. ASSUME NEW s \in Session, Speech!show(s) PROVE QueueInv' /\ New
  <2>1. Speech!clears(Speech!ofSession(shown), mode, s)
    BY <1>8 DEF Speech!show
  <2>2. WaitsOnce' /\ EntryIsSpoken' /\ Waiting' \subseteq Waiting \ Speech!ofSession(shown) /\ New
    BY <1>1, <1>4, <2>1
  <2>3. Waiting' = {}
    BY <1>2, <2>2 DEF Speech!ofSession
  <2> QED
    BY <1>3, <2>2, <2>3 DEF QueueInv
<1>9. CASE Speech!sendMessage \/ Speech!beginVoicePress
  <2>1. PICK parts \in SUBSET Part : Speech!clears(parts, mode, shown)
    BY <1>1, <1>9 DEF Speech!sendMessage, Speech!beginVoicePress
  <2>2. WaitsOnce' /\ EntryIsSpoken' /\ Waiting' \subseteq Waiting \ parts /\ New
    BY <1>4, <2>1
  <2>3. mode' = mode /\ shown' = shown
    BY <1>9 DEF Speech!sendMessage, Speech!beginVoicePress
  <2> QED
    BY <1>2, <1>3, <2>2, <2>3 DEF QueueInv
<1>10. ASSUME NEW p \in Part, Speech!partUpdated(p) PROVE QueueInv' /\ New
  <2> DEFINE q == Append(queue, p)
             keys == queuedKeys \cup {p}
  <2>1. /\ p \notin spoken \cup queuedKeys
        /\ instanceOf[sessionOf[p]] \in mode /\ sessionOf[p] = shown
        /\ UNCHANGED <<mode, shown, sounding, heard>>
    BY <1>10 DEF Speech!partUpdated, Speech!Speakable
  <2>2. queue \in Seq(Part) /\ IsInjective(queue) /\ p \notin Range(queue)
    BY <1>2, <2>1 DEF WaitsOnce, Waiting
  <2>3. /\ q \in Seq(Part) /\ Len(q) = Len(queue) + 1
        /\ \A i \in 1 .. Len(queue) : q[i] = queue[i]
        /\ q[Len(queue) + 1] = p
    BY <2>2, AppendProperties
  <2> HIDE DEF q
  <2>4. DOMAIN q = 1 .. Len(queue) + 1 /\ DOMAIN queue = 1 .. Len(queue) /\ Len(queue) \in Nat
    BY <2>2, <2>3
  <2>5. Range(q) = Waiting \cup {p}
    BY <2>3, <2>4 DEF Range, Waiting
  <2>6. \A i \in 1 .. Len(queue) : queue[i] # p
    BY <2>2, <2>4 DEF Range
  <2>7. IsInjective(q)
    BY <2>2, <2>3, <2>4, <2>6 DEF IsInjective
  <2>8. Range(q) \subseteq keys /\ Range(q) \cap spoken = {}
    BY <1>2, <2>1, <2>5 DEF WaitsOnce
  <2>9. WaitsOnce' /\ EntryIsSpoken' /\ Waiting' \subseteq Range(q)
    <3>1. CASE runnerPhase = "none"
      <4>1. Speech!runs(q, keys, mode, shown)
        BY <1>10, <3>1 DEF Speech!partUpdated, q
      <4> QED
        BY <1>2, <2>1, <2>3, <2>7, <2>8, <4>1, RunsOnce DEF EntryIsSpoken, Waiting
    <3>2. CASE runnerPhase # "none"
      <4>1. queue' = q /\ queuedKeys' = keys /\ UNCHANGED <<spoken, runnerPhase, entry>>
        BY <1>10, <3>2 DEF Speech!partUpdated, q
      <4> QED
        BY <1>2, <2>1, <2>3, <2>7, <2>8, <4>1 DEF WaitsOnce, EntryIsSpoken, Waiting
    <3> QED
      BY <3>1, <3>2
  <2> QED
    BY <1>2, <1>3, <2>1, <2>5, <2>9 DEF QueueInv
<1>11. CASE Speech!playbackStarts
  BY <1>2, <1>3, <1>11 DEF Speech!playbackStarts, QueueInv, WaitsOnce, EntryIsSpoken, Waiting
<1>12. CASE Speech!playbackEnds
  <2>1. /\ Speech!runs(queue, queuedKeys, mode, shown)
        /\ UNCHANGED <<mode, shown, heard>> /\ sounding' \subseteq sounding
    BY <1>12 DEF Speech!playbackEnds
  <2>2. WaitsOnce' /\ EntryIsSpoken' /\ Waiting' \subseteq Waiting
    BY <1>2, <2>1, RunsOnce DEF WaitsOnce, EntryIsSpoken, Waiting
  <2> QED
    BY <1>2, <1>3, <2>1, <2>2 DEF QueueInv
<1>13. CASE Speech!playbackFails
  <2> DEFINE dropped == Speech!ofInstance(instanceOf[sessionOf[entry]])
  <2>1. /\ queue' = Speech!without(dropped) /\ queuedKeys' = Speech!keysWithout(dropped)
        /\ spoken' = spoken \ {entry} /\ heard' = heard \ {entry} /\ runnerPhase' = "none"
        /\ sounding' \subseteq sounding /\ UNCHANGED <<mode, shown>>
    BY <1>13 DEF Speech!playbackFails
  <2> HIDE DEF dropped
  <2>2. queue' \in Seq(Part) /\ Range(queue') = Waiting \ dropped /\ IsInjective(queue')
    BY <1>2, <2>1, LeftOfQueue DEF WaitsOnce
  <2>3. queuedKeys' = queuedKeys \ (dropped \cap Waiting)
    BY <2>1 DEF Speech!keysWithout, Speech!ToSet, Waiting, Range
  <2>4. WaitsOnce' /\ EntryIsSpoken' /\ Waiting' \subseteq Waiting
    BY <1>2, <2>1, <2>2, <2>3 DEF WaitsOnce, EntryIsSpoken, Waiting
  <2> QED
    BY <1>2, <1>3, <2>1, <2>4 DEF QueueInv
<1>14. CASE UNCHANGED Speech!vars
  BY <1>2, <1>3, <1>14 DEF Speech!vars, QueueInv, WaitsOnce, EntryIsSpoken, Waiting
<1> QED
  BY <1>5, <1>6, <1>7, <1>8, <1>9, <1>10, <1>11, <1>12, <1>13, <1>14 DEF Speech!Next

\* In the first state nothing waits.
LEMMA QueueInit == Speech!Init => QueueInv
<1> SUFFICES ASSUME Speech!Init PROVE QueueInv
  OBVIOUS
<1>1. /\ queue = <<>> /\ queuedKeys = {} /\ spoken = {} /\ heard = {} /\ runnerPhase = "none"
  BY DEF Speech!Init
<1>2. Range(<<>>) = {} /\ IsInjective(<<>>) /\ <<>> \in Seq(Part) /\ Speech!ToSet(<<>>) = {}
  BY DEF Range, IsInjective, Speech!ToSet
<1> QED
  BY <1>1, <1>2 DEF QueueInv, WaitsOnce, EntryIsSpoken, Waiting, QueueMayBeSpoken,
                    Speech!QueueMayBeSpoken

\* For any instances, sessions and parts: only what may be spoken waits, whatever
\* is switched, refused, shown, sent and played meanwhile.
THEOREM QueueMayBeSpokenAlways == Speech!Spec => []QueueMayBeSpoken
<1>1. QueueInv /\ [Speech!Next]_(Speech!vars) => QueueInv'
  BY QueueStep
<1>2. QueueInv => QueueMayBeSpoken
  BY DEF QueueInv
<1> QED
  BY <1>1, <1>2, QueueInit, PTL DEF Speech!Spec

\* However many updates of a part arrive before, while and after it plays, it is
\* heard once, unless its playback has failed.
THEOREM HeardOnceAlways == Speech!Spec => HeardOnce
<1>1. QueueInv /\ [Speech!Next]_(Speech!vars) =>
        QueueInv' /\ [\A p \in sounding' \ sounding : p \notin heard]_(Speech!vars)
  BY QueueStep
<1> QED
  BY <1>1, QueueInit, PTL DEF Speech!Spec, HeardOnce, Speech!HeardOnce

-----------------------------------------------------------------------------
(* RemoteProxy: a session that a loop would close has not been used since   *)
(* the loop began, because every access takes it out of the loop's idle     *)
(* set.                                                                     *)

LoopsSpareRecent ==
  \A w \in Sweep : /\ sweeps[w].todo \in Seq(ProxySession)
                   /\ sweeps[w].idle \cap recent = {}

ProxyInv == Proxy!TypeOK /\ LoopsSpareRecent

\* Where a loop goes on: it ends, or it disposes of one session that is there
\* and that it has found idle.
LEMMA GoesOn ==
  ASSUME NEW w \in Sweep, NEW todo \in Seq(ProxySession), NEW idle \in SUBSET ProxySession,
         Proxy!goesOn(w, todo, idle), Proxy!TypeOK
  PROVE  \/ /\ sweeps' = [sweeps EXCEPT ![w] = Proxy!NoSweep]
            /\ UNCHANGED <<sessions, activated, recent, listener>>
         \/ \E x \in sessions \cap idle, rest \in Seq(ProxySession) :
              /\ sweeps' = [sweeps EXCEPT ![w] = [todo |-> rest, idle |-> idle, awaits |-> x]]
              /\ Proxy!disposed(x)
<1> DEFINE next == {n \in DOMAIN todo : todo[n] \in sessions \cap idle}
           first == CHOOSE n \in next : \A k \in next : n <= k
<1>1. CASE next = {}
  BY <1>1 DEF Proxy!goesOn
<1>2. CASE next # {}
  <2>1. next \in SUBSET Nat
    OBVIOUS
  <2>2. first \in next
    BY <1>2, <2>1, SmallestExists
  <2>3. first \in 1 .. Len(todo) /\ todo[first] \in sessions \cap idle
    BY <2>2
  <2>4. \A n \in first + 1 .. Len(todo) : todo[n] \in ProxySession
    BY <2>3
  <2>5. SubSeq(todo, first + 1, Len(todo)) \in Seq(ProxySession)
    BY <2>3, <2>4, SubSeqProperties
  <2>6. /\ sweeps' = [sweeps EXCEPT ![w] =
              [todo |-> SubSeq(todo, first + 1, Len(todo)), idle |-> idle, awaits |-> todo[first]]]
        /\ Proxy!disposed(todo[first])
    BY <1>2 DEF Proxy!goesOn
  <2> QED
    BY <2>3, <2>5, <2>6
<1> QED
  BY <1>1, <1>2

\* A loop that goes on with idle sessions keeps the invariant, and what it takes
\* from the sessions was idle.
LEMMA LoopStep ==
  ASSUME NEW w \in Sweep, NEW todo \in Seq(ProxySession), NEW idle \in SUBSET ProxySession,
         Proxy!goesOn(w, todo, idle), UNCHANGED busy, ProxyInv, idle \cap recent = {}
  PROVE  ProxyInv' /\ sessions \ sessions' \subseteq idle
<1>0. \/ /\ sweeps' = [sweeps EXCEPT ![w] = Proxy!NoSweep]
         /\ UNCHANGED <<sessions, activated, recent, listener>>
      \/ \E x \in sessions \cap idle, rest \in Seq(ProxySession) :
           /\ sweeps' = [sweeps EXCEPT ![w] = [todo |-> rest, idle |-> idle, awaits |-> x]]
           /\ Proxy!disposed(x)
  BY GoesOn DEF ProxyInv
<1> USE DEF ProxyInv, Proxy!TypeOK, LoopsSpareRecent, Proxy!SweepState
<1>1. CASE /\ sweeps' = [sweeps EXCEPT ![w] = Proxy!NoSweep]
           /\ UNCHANGED <<sessions, activated, recent, listener>>
  <2>1. Proxy!NoSweep \in Proxy!SweepState
    BY DEF Proxy!NoSweep
  <2>2. Proxy!NoSweep.todo \in Seq(ProxySession) /\ Proxy!NoSweep.idle = {}
    BY DEF Proxy!NoSweep
  <2> QED
    BY <1>1, <2>1, <2>2
<1>2. CASE \E x \in sessions \cap idle, rest \in Seq(ProxySession) :
             /\ sweeps' = [sweeps EXCEPT ![w] = [todo |-> rest, idle |-> idle, awaits |-> x]]
             /\ Proxy!disposed(x)
  <2>1. PICK x \in sessions \cap idle, rest \in Seq(ProxySession) :
             /\ sweeps' = [sweeps EXCEPT ![w] = [todo |-> rest, idle |-> idle, awaits |-> x]]
             /\ Proxy!disposed(x)
    BY <1>2
  <2>2. x \in ProxySession
    OBVIOUS
  <2> QED
    BY <2>1, <2>2 DEF Proxy!disposed
<1> QED
  BY <1>0, <1>1, <1>2

\* An access leaves a session out of every loop.
LEMMA AccessStep ==
  ASSUME NEW s \in ProxySession, Proxy!accessed(s), ProxyInv
  PROVE  /\ recent' \subseteq ProxySession /\ sweeps' \in [Sweep -> Proxy!SweepState]
         /\ LoopsSpareRecent'
  BY DEF Proxy!accessed, ProxyInv, Proxy!TypeOK, LoopsSpareRecent, Proxy!SweepState

\* Whatever leaves the sessions was idle, or is deleted.
LEMMA ProxyStep ==
  ASSUME ProxyInv, [Proxy!Next]_(Proxy!vars)
  PROVE  /\ ProxyInv'
         /\ \A s \in sessions \ sessions' :
              s \in recent => \E x \in ProxySession : Proxy!deleteSession(x)
<1> DEFINE Kept == \A s \in sessions \ sessions' :
                     s \in recent => \E x \in ProxySession : Proxy!deleteSession(x)
<1>1. ASSUME NEW s \in ProxySession, Proxy!createSession(s) PROVE ProxyInv' /\ Kept
  BY <1>1 DEF Proxy!createSession, ProxyInv, Proxy!TypeOK, LoopsSpareRecent
<1>2. ASSUME NEW s \in ProxySession,
             Proxy!listens(s) \/ Proxy!exchangeToken(s) \/ Proxy!proxyRequest(s)
      PROVE  ProxyInv' /\ Kept
  <2>1. Proxy!accessed(s)
    BY <1>2 DEF Proxy!listens, Proxy!exchangeToken, Proxy!proxyRequest
  <2> QED
    BY <1>2, <2>1, AccessStep
    DEF Proxy!listens, Proxy!exchangeToken, Proxy!proxyRequest, ProxyInv, Proxy!TypeOK
<1>3. ASSUME NEW s \in ProxySession,
             Proxy!responseEnds(s) \/ Proxy!idles(s) \/ Proxy!closes(s)
      PROVE  ProxyInv' /\ Kept
  BY <1>3 DEF Proxy!responseEnds, Proxy!idles, Proxy!closes, ProxyInv, Proxy!TypeOK, LoopsSpareRecent
<1>4. ASSUME NEW s \in ProxySession, Proxy!deleteSession(s) PROVE ProxyInv' /\ Kept
  BY <1>4 DEF Proxy!deleteSession, Proxy!disposed, ProxyInv, Proxy!TypeOK, LoopsSpareRecent
<1>5. ASSUME NEW w \in Sweep, Proxy!cleanupTick(w) PROVE ProxyInv' /\ Kept
  <2>1. PICK order \in Proxy!SetToSeqs(sessions) : Proxy!goesOn(w, order, sessions \ recent)
    BY <1>5 DEF Proxy!cleanupTick
  <2>2. sessions \subseteq ProxySession
    BY DEF ProxyInv, Proxy!TypeOK
  <2>3. Cardinality(sessions) \in Nat
    BY <2>2, PartsAssumption, FS_Subset, FS_CardinalityType
  <2>4. order \in [1 .. Cardinality(sessions) -> sessions]
    BY DEF Proxy!SetToSeqs, Proxy!Cardinality, Cardinality
  <2>5. order \in Seq(ProxySession)
    BY <2>2, <2>3, <2>4, SeqDef
  <2>6. sessions \ recent \in SUBSET ProxySession /\ (sessions \ recent) \cap recent = {}
    BY <2>2
  <2>7. UNCHANGED busy
    BY <1>5 DEF Proxy!cleanupTick
  <2>8. ProxyInv' /\ sessions \ sessions' \subseteq sessions \ recent
    BY <2>1, <2>5, <2>6, <2>7, LoopStep
  <2> QED
    BY <2>8
<1>6. ASSUME NEW w \in Sweep, Proxy!cleanupExpiredSessions(w) PROVE ProxyInv' /\ Kept
  <2>1. Proxy!goesOn(w, sweeps[w].todo, sweeps[w].idle) /\ UNCHANGED busy
    BY <1>6 DEF Proxy!cleanupExpiredSessions
  <2>2. sweeps[w].todo \in Seq(ProxySession) /\ sweeps[w].idle \in SUBSET ProxySession
    BY DEF ProxyInv, Proxy!TypeOK, Proxy!SweepState
  <2>3. sweeps[w].idle \cap recent = {}
    BY DEF ProxyInv, LoopsSpareRecent
  <2> QED
    BY <2>1, <2>2, <2>3, LoopStep
<1>7. CASE UNCHANGED Proxy!vars
  BY <1>7 DEF Proxy!vars, ProxyInv, Proxy!TypeOK, LoopsSpareRecent
<1> QED
  BY <1>1, <1>2, <1>3, <1>4, <1>5, <1>6, <1>7 DEF Proxy!Next

\* For any number of sessions and loops, however long a loop has been waiting: no
\* session that was used in the last half hour is closed by one.
THEOREM InUseIsKeptAlways == Proxy!Spec => InUseIsKept
<1>1. ASSUME Proxy!Init PROVE ProxyInv
  <2>1. /\ Proxy!NoSweep \in Proxy!SweepState
        /\ Proxy!NoSweep.todo \in Seq(ProxySession) /\ Proxy!NoSweep.idle = {}
    BY DEF Proxy!NoSweep, Proxy!SweepState
  <2>2. \A w \in Sweep : sweeps[w] = Proxy!NoSweep
    BY <1>1 DEF Proxy!Init
  <2>3. sweeps \in [Sweep -> Proxy!SweepState]
    BY <1>1, <2>1 DEF Proxy!Init
  <2> QED
    BY <1>1, <2>1, <2>2, <2>3 DEF Proxy!Init, ProxyInv, Proxy!TypeOK, LoopsSpareRecent
<1>2. ProxyInv /\ [Proxy!Next]_(Proxy!vars) =>
        /\ ProxyInv'
        /\ [\A s \in sessions \ sessions' :
              s \in recent => \E x \in ProxySession : Proxy!deleteSession(x)]_(Proxy!vars)
  BY ProxyStep
<1> QED
  BY <1>1, <1>2, PTL DEF Proxy!Spec, InUseIsKept, Proxy!InUseIsKept

-----------------------------------------------------------------------------
(* WorktreeMap: one page, one chain of requests at a time, and a git that   *)
(* answers.  The map that was chosen is in the file, or in the one request  *)
(* that is about to put it there; the copy of the page is at most behind by *)
(* worktrees that are gone.  A prune that nobody waits for runs beside      *)
(* nothing but the last read of the chain that began it.                    *)

OnePage == \A c, d \in Client : c = d

\* The chains of requests, from where a task is in them.
Nothing == <<>>
Putting == <<"put">>
Assigning == <<"assign">>
Forgetting == <<"forget">>
Reading == <<"read">>
Listing == <<"list", "read">>
ListingNew == <<"list", "assign">>
Creating == <<"create", "list", "assign">>
Removing == <<"remove", "list", "read">>

Writing == {"write", "opened", "written"}

TaskRecord ==
  [at : {"idle", "done", "request", "answer", "prune"} \cup Writing,
   todo : {Nothing, Putting, Assigning, Forgetting, Reading, Listing, ListingNew, Creating, Removing},
   client : Client \cup {None}, session : ParentSession \cup {None}, slug : Worktree!Place,
   map : Worktree!Map, file : Worktree!Task \cup {0}, list : SUBSET Worktree!Place]

WorktreeTypes ==
  /\ worktrees \subseteq Slug
  /\ chosen \in [ParentSession -> worktrees \cup {Root, None}]
  /\ task \in [Worktree!Task -> TaskRecord]
  /\ inode \in [Worktree!Task \cup {0} -> Worktree!Map \cup {None}]
  /\ mapFile \in Worktree!Task \cup {0}
  /\ list \in [Client -> (SUBSET Worktree!Place) \cup {None}]
  /\ copy \in [Client -> Worktree!Map \cup {None}]

\* Where a task can be in its chain.
Places ==
  \A t \in Worktree!Task :
    /\ task[t].at \in {"idle", "done"} <=> task[t].todo = Nothing
    /\ task[t].todo # Nothing => task[t].client \in Client
    /\ task[t].todo \in {Creating, Removing} => task[t].slug \in Slug
    /\ task[t].todo \in {Reading, Listing, ListingNew, Creating} => task[t].at \in {"request", "answer"}
    /\ task[t].todo \in {Assigning, Forgetting} => task[t].at \in {"request"} \cup Writing
    /\ task[t].todo = Removing => task[t].at \in {"request", "prune", "answer"} \cup Writing
    /\ task[t].todo = Putting => task[t].at \in Writing

OneChain ==
  \A t, u \in Worktree!Task :
    task[t].todo # Nothing /\ task[u].todo # Nothing /\ t # u =>
      \/ task[t].todo = Putting /\ task[u].todo = Reading
      \/ task[t].todo = Reading /\ task[u].todo = Putting

\* What a task brings.
Brings ==
  \A t \in Worktree!Task :
    /\ task[t].at \in Writing => task[t].map = chosen
    /\ task[t].at = "prune" => Worktree!nextMapping(Worktree!readWorktreeMap, task[t].slug) = chosen
    /\ task[t].at = "answer" /\ task[t].todo \in {Listing, ListingNew} =>
         task[t].list = worktrees \cup {Root}
    /\ task[t].at = "answer" /\ task[t].todo = Reading => task[t].map = chosen

FileIsChosen ==
  (\A t \in Worktree!Task : task[t].at \in Writing \cup {"prune"} => task[t].todo = Putting) =>
    Worktree!readWorktreeMap = chosen

\* The temporary file is that of the request which writes, and no request writes
\* to the file that has the map.
OwnFile ==
  /\ (\A t \in Worktree!Task : task[t].at \notin {"opened", "written"}) => tmpFile = None
  /\ \A t \in Worktree!Task :
       /\ task[t].at \in {"opened", "written"} => task[t].file = t /\ tmpFile = t
       /\ task[t].at = "opened" => inode[t] = None
       /\ task[t].at = "written" => inode[t] = task[t].map
       /\ mapFile = t => \/ task[t].at = "done" \/ task[t].todo \in {Listing, Reading}
                         \/ task[t].todo = Removing /\ task[t].at = "answer"

\* Until the list has come again the page may know less, or more, than git has.
CopyOf(c) ==
  /\ copy[c] # None =>
       Worktree!Pruned(copy[c], worktrees \cup {Root}) = chosen /\ list[c] # None
  /\ (\A t \in Worktree!Task : /\ task[t].todo # Listing
                               /\ task[t].todo = Removing => task[t].at = "request") =>
       copy[c] \in {None, chosen}
  /\ (\A t \in Worktree!Task : /\ task[t].todo \notin {Listing, ListingNew}
                               /\ task[t].todo \in {Creating, Removing} => task[t].at = "request") =>
       list[c] \in {None, worktrees \cup {Root}}
  /\ \A t \in Worktree!Task :
       /\ task[t].todo \in {Assigning, Forgetting, ListingNew, Creating} => copy[c] # None
       /\ task[t].todo = Reading => list[c] # None

CopyIsChosen == \A c \in Client : CopyOf(c)

WorktreeInv ==
  WorktreeTypes /\ Places /\ OneChain /\ Brings /\ FileIsChosen /\ OwnFile /\ CopyIsChosen

\* How a task goes on from one step of its chain to the next.
LEMMA Chains ==
  /\ Head(Putting) = "put" /\ Head(Assigning) = "assign" /\ Head(Forgetting) = "forget"
  /\ Head(Reading) = "read" /\ Head(Listing) = "list" /\ Head(ListingNew) = "list"
  /\ Head(Creating) = "create" /\ Head(Removing) = "remove"
  /\ Len(Putting) = 1 /\ Len(Assigning) = 1 /\ Len(Forgetting) = 1 /\ Len(Reading) = 1
  /\ Len(Listing) = 2 /\ Len(ListingNew) = 2 /\ Len(Creating) = 3 /\ Len(Removing) = 3
  /\ Tail(Listing) = Reading /\ Tail(ListingNew) = Assigning
  /\ Tail(Creating) = ListingNew /\ Tail(Removing) = Listing
  /\ Nothing \notin {Putting, Assigning, Forgetting, Reading, Listing, ListingNew, Creating, Removing}
  /\ Putting \notin {Assigning, Forgetting, Reading, Listing, ListingNew, Creating, Removing}
  /\ Assigning \notin {Forgetting, Reading, Listing, ListingNew, Creating, Removing}
  /\ Forgetting \notin {Reading, Listing, ListingNew, Creating, Removing}
  /\ Reading \notin {Listing, ListingNew, Creating, Removing}
  /\ Listing \notin {ListingNew, Creating, Removing}
  /\ ListingNew \notin {Creating, Removing}
  /\ Creating # Removing
BY DEF Nothing, Putting, Assigning, Forgetting, Reading, Listing, ListingNew, Creating, Removing

\* None is no task, no map and no list.
LEMMA NoneIsApart ==
  /\ None \notin Worktree!Task /\ None \notin Worktree!Map
  /\ None \notin SUBSET Worktree!Place /\ None \notin Worktree!Place
  /\ Root \in Worktree!Place /\ Root \notin Slug /\ Slug \subseteq Worktree!Place
BY PartsAssumption DEF Worktree!Task, Worktree!Map, Worktree!Place

\* The map that was chosen has no entry of a worktree that is not there.
LEMMA ChosenIsThere ==
  ASSUME WorktreeTypes
  PROVE  /\ chosen \in Worktree!Map /\ chosen # None
         /\ Worktree!Pruned(chosen, worktrees \cup {Root}) = chosen
         /\ worktrees \cup {Root} \in SUBSET Worktree!Place
<1>1. chosen \in Worktree!Map /\ worktrees \cup {Root} \in SUBSET Worktree!Place
  BY DEF WorktreeTypes, Worktree!Map, Worktree!Place
<1>2. Worktree!Pruned(chosen, worktrees \cup {Root}) = chosen
  BY DEF WorktreeTypes, Worktree!Pruned
<1> QED
  BY <1>1, <1>2, NoneIsApart

\* A task that is neither a prune nor at the last read is alone.
LEMMA Alone ==
  ASSUME Places, OneChain, NEW t \in Worktree!Task,
         task[t].todo \notin {Nothing, Putting, Reading}
  PROVE  \A u \in Worktree!Task : u # t => task[u].todo = Nothing /\ task[u].at \in {"idle", "done"}
BY DEF Places, OneChain

\* The records of tasks that have not begun, or are done.
LEMMA RestingTasks ==
  /\ Worktree!Idle \in TaskRecord /\ Worktree!Done \in TaskRecord
  /\ Worktree!Idle.at = "idle" /\ Worktree!Idle.todo = Nothing
  /\ Worktree!Done.at = "done" /\ Worktree!Done.todo = Nothing
<1>1. Worktree!NoEntries \in Worktree!Map
  BY DEF Worktree!NoEntries, Worktree!Map
<1> QED
  BY <1>1, NoneIsApart DEF Worktree!Idle, Worktree!Done, TaskRecord, Nothing

\* A click begins a chain when every other task has come to rest.
LEMMA BeginStep ==
  ASSUME ~Overlap, WorktreeInv, NEW c \in Client,
         NEW todo \in {Listing, Assigning, Forgetting, Creating, Removing},
         NEW s \in ParentSession \cup {None}, NEW w \in Worktree!Place,
         Worktree!begin(c, todo, s, w), UNCHANGED chosen, OnePage,
         todo \in {Assigning, Forgetting, Creating} => copy[c] # None,
         todo \in {Creating, Removing} => w \in Slug
  PROVE  WorktreeInv'
<1> USE DEF WorktreeInv
<1>1. \A t \in Worktree!Task : task[t].at \in {"idle", "done"} /\ task[t].todo = Nothing
  BY DEF Worktree!begin, Worktree!MayBegin, Places
<1>2. PICK t \in Worktree!Task :
        /\ task[t].at = "idle"
        /\ task' = [task EXCEPT ![t] = [Worktree!Idle EXCEPT !.at = "request", !.todo = todo,
                                         !.client = c, !.session = s, !.slug = w]]
  BY DEF Worktree!begin, Worktree!Begin, Worktree!Free
<1>3. UNCHANGED <<worktrees, mapFile, tmpFile, inode, list, copy, chosen>>
  BY DEF Worktree!begin
<1> DEFINE k == [Worktree!Idle EXCEPT !.at = "request", !.todo = todo,
                                      !.client = c, !.session = s, !.slug = w]
<1>4. k \in TaskRecord /\ k.at = "request" /\ k.todo = todo /\ k.client = c /\ k.slug = w
  BY RestingTasks DEF TaskRecord, Worktree!Idle
<1> HIDE DEF k
<1>5. /\ task' \in [Worktree!Task -> TaskRecord]
      /\ task'[t] = k /\ \A u \in Worktree!Task : u # t => task'[u] = task[u]
  BY <1>2, <1>4 DEF WorktreeTypes, k
<1>6. WorktreeTypes'
  BY <1>3, <1>5 DEF WorktreeTypes, TaskRecord, Worktree!Place, Worktree!Map, Worktree!Task
<1>7. Places' /\ OneChain'
  BY <1>1, <1>4, <1>5, Chains DEF Places, OneChain
<1>8. Brings'
  BY <1>1, <1>4, <1>5 DEF Brings, Writing
<1>9. FileIsChosen'
  BY <1>1, <1>3 DEF FileIsChosen, Writing, Worktree!readWorktreeMap, Worktree!NoEntries
<1>10. OwnFile'
  BY <1>1, <1>2, <1>3, <1>4, <1>5, Chains DEF OwnFile
<1>11. CopyIsChosen'
  <2> SUFFICES ASSUME NEW d \in Client PROVE CopyOf(d)'
    BY DEF CopyIsChosen
  <2>1. CopyOf(d) /\ d = c
    BY DEF CopyIsChosen, OnePage
  <2> QED
    BY <1>1, <1>3, <1>4, <1>5, <2>1, Chains DEF CopyOf, Worktree!Pruned
<1> QED
  BY <1>6, <1>7, <1>8, <1>9, <1>10, <1>11

\* Which chain a task is in, from the step it is at.
LEMMA StepOf ==
  ASSUME WorktreeTypes, Places, NEW t \in Worktree!Task, task[t].at \notin {"idle", "done"}
  PROVE  /\ task[t].client \in Client /\ task[t].todo # Nothing
         /\ Head(task[t].todo) = "list" => task[t].todo \in {Listing, ListingNew}
         /\ Head(task[t].todo) = "read" => task[t].todo = Reading
         /\ Head(task[t].todo) = "create" => task[t].todo = Creating
         /\ Head(task[t].todo) = "remove" <=> task[t].todo = Removing
         /\ Head(task[t].todo) = "assign" => task[t].todo = Assigning
         /\ Head(task[t].todo) = "forget" => task[t].todo = Forgetting
         /\ task[t].at = "prune" => task[t].todo = Removing
         /\ task[t].at \in Writing => task[t].todo \in {Putting, Assigning, Forgetting, Removing}
<1>1. task[t].todo \in {Putting, Assigning, Forgetting, Reading, Listing, ListingNew, Creating,
                        Removing}
  BY DEF WorktreeTypes, TaskRecord, Places
<1>2. task[t].client \in Client
  BY DEF Places
<1> QED
  BY <1>1, <1>2, Chains DEF Places, Writing

\* The page is loaded anew while every task rests.
LEMMA ReloadStep ==
  ASSUME ~Overlap, WorktreeInv, NEW c \in Client, Worktree!reloads(c), OnePage
  PROVE  WorktreeInv'
<1> USE DEF WorktreeInv
<1>1. \A t \in Worktree!Task : task[t].at \in {"idle", "done"} /\ task[t].todo = Nothing
  BY DEF Worktree!reloads, Worktree!MayBegin, Places
<1>2. /\ list' = [list EXCEPT ![c] = None] /\ copy' = [copy EXCEPT ![c] = None]
      /\ UNCHANGED <<worktrees, mapFile, tmpFile, inode, task, chosen>>
  BY DEF Worktree!reloads
<1>3. WorktreeTypes'
  <2>1. /\ list' \in [Client -> (SUBSET Worktree!Place) \cup {None}]
        /\ copy' \in [Client -> Worktree!Map \cup {None}]
    BY <1>2 DEF WorktreeTypes
  <2> QED
    BY <1>2, <2>1 DEF WorktreeTypes, TaskRecord, Worktree!Place, Worktree!Map, Worktree!Task
<1>4. Places' /\ OneChain' /\ Brings' /\ FileIsChosen' /\ OwnFile'
  BY <1>1, <1>2, Chains DEF Places, OneChain, Brings, FileIsChosen, OwnFile,
     Worktree!readWorktreeMap, Worktree!NoEntries, Writing
<1>5. CopyIsChosen'
  <2> SUFFICES ASSUME NEW d \in Client PROVE CopyOf(d)'
    BY DEF CopyIsChosen
  <2>1. copy'[d] = None /\ list'[d] = None
    BY <1>2 DEF OnePage, WorktreeTypes
  <2> QED
    BY <1>1, <1>2, <2>1, Chains DEF CopyOf
<1> QED
  BY <1>3, <1>4, <1>5

\* The dialogs go on to the list of worktrees.
LEMMA DialogStep ==
  ASSUME WorktreeInv, NEW t \in Worktree!Task, Worktree!dialogAnswered(t), OnePage
  PROVE  WorktreeInv'
<1> USE DEF WorktreeInv
<1>1. /\ task[t].at = "answer" /\ task[t].todo \in {Creating, Removing}
      /\ task[t].client \in Client
  BY StepOf DEF Worktree!dialogAnswered, Worktree!Is
<1>2. \A u \in Worktree!Task : u # t => task[u].todo = Nothing /\ task[u].at \in {"idle", "done"}
  BY <1>1, Alone, Chains
<1>3. /\ task' = [task EXCEPT ![t] = Worktree!Onward(t)]
      /\ UNCHANGED <<worktrees, mapFile, tmpFile, inode, list, copy, chosen>>
  BY DEF Worktree!dialogAnswered
<1> DEFINE k == [task[t] EXCEPT !.at = "request", !.todo = Tail(@)]
<1>4. task[t] \in TaskRecord
  BY DEF WorktreeTypes
<1>5. Worktree!Onward(t) = k
  BY <1>1, Chains DEF Worktree!Onward
<1>6. /\ k \in TaskRecord /\ k.at = "request" /\ k.client = task[t].client /\ k.slug = task[t].slug
      /\ k.todo = IF task[t].todo = Creating THEN ListingNew ELSE Listing
  BY <1>1, <1>4, Chains DEF TaskRecord
<1> HIDE DEF k
<1>7. /\ task' \in [Worktree!Task -> TaskRecord]
      /\ task'[t] = k /\ \A u \in Worktree!Task : u # t => task'[u] = task[u]
  BY <1>3, <1>5, <1>6 DEF WorktreeTypes
<1>8. WorktreeTypes'
  BY <1>3, <1>7 DEF WorktreeTypes, TaskRecord, Worktree!Place, Worktree!Map, Worktree!Task
<1>9. Places' /\ OneChain' /\ Brings'
  BY <1>1, <1>2, <1>3, <1>6, <1>7, Chains DEF Places, OneChain, Brings, Writing
<1>10. FileIsChosen' /\ OwnFile'
  BY <1>1, <1>2, <1>3, <1>6, <1>7, Chains DEF FileIsChosen, OwnFile, Writing,
     Worktree!readWorktreeMap, Worktree!NoEntries
<1>11. CopyIsChosen'
  <2> SUFFICES ASSUME NEW d \in Client PROVE CopyOf(d)'
    BY DEF CopyIsChosen
  <2>1. CopyOf(d) /\ d = task[t].client
    BY <1>1 DEF CopyIsChosen, OnePage
  <2> QED
    BY <1>1, <1>2, <1>3, <1>6, <1>7, <2>1, Chains DEF CopyOf, Worktree!Pruned
<1> QED
  BY <1>8, <1>9, <1>10, <1>11

\* An answer of the server is made of what it has.
LEMMA AnswerStep ==
  ASSUME ~GitMayFail, WorktreeInv, NEW t \in Worktree!Task,
         Worktree!listWorktrees(t) \/ Worktree!getMap(t), OnePage
  PROVE  WorktreeInv'
<1> USE DEF WorktreeInv
<1>1. /\ task[t].at = "request" /\ task[t].todo \in {Listing, ListingNew, Reading}
      /\ task[t].client \in Client
  BY StepOf DEF Worktree!listWorktrees, Worktree!getMap, Worktree!Is
<1>2. \A u \in Worktree!Task : u # t => task[u].todo \in {Nothing, Putting}
  BY <1>1, Chains DEF OneChain, Places
<1>3. UNCHANGED <<worktrees, mapFile, tmpFile, inode, list, copy, chosen>>
  BY DEF Worktree!listWorktrees, Worktree!getMap
<1>4. task[t] \in TaskRecord
  BY DEF WorktreeTypes
<1>5. /\ task' \in [Worktree!Task -> TaskRecord]
      /\ \A u \in Worktree!Task : u # t => task'[u] = task[u]
      /\ task'[t].at = "answer" /\ task'[t].todo = task[t].todo /\ task'[t].client = task[t].client
      /\ task'[t].slug = task[t].slug
      /\ task[t].todo \in {Listing, ListingNew} => task'[t].list = worktrees \cup {Root}
      /\ task[t].todo = Reading => task'[t].map = chosen
  <2>1. CASE Worktree!listWorktrees(t)
    <3>1. task' = [task EXCEPT ![t].at = "answer", ![t].list = worktrees \cup {Root}]
      BY <2>1 DEF Worktree!listWorktrees
    <3>2. worktrees \cup {Root} \in SUBSET Worktree!Place /\ task[t].todo # Reading
      <4>1. Head(task[t].todo) = "list"
        BY <2>1 DEF Worktree!listWorktrees, Worktree!Is
      <4> QED
        BY <1>1, <4>1, ChosenIsThere, Chains
    <3> QED
      BY <1>1, <1>4, <3>1, <3>2 DEF WorktreeTypes, TaskRecord
  <2>2. CASE Worktree!getMap(t)
    <3>1. task' = [task EXCEPT ![t].at = "answer", ![t].map = Worktree!readWorktreeMap]
      BY <2>2 DEF Worktree!getMap
    <3>2. task[t].todo = Reading
      BY <1>1, <2>2, StepOf DEF Worktree!getMap, Worktree!Is
    <3>3. \A u \in Worktree!Task : task[u].at \in Writing \cup {"prune"} => task[u].todo = Putting
      BY <1>1, <1>2, Chains DEF Places, Writing
    <3>4. Worktree!readWorktreeMap = chosen /\ chosen \in Worktree!Map
      BY <3>3, ChosenIsThere DEF FileIsChosen
    <3> QED
      BY <1>1, <1>4, <3>1, <3>2, <3>4, Chains DEF WorktreeTypes, TaskRecord
  <2> QED
    BY <2>1, <2>2
<1>6. WorktreeTypes'
  BY <1>3, <1>5 DEF WorktreeTypes, TaskRecord, Worktree!Place, Worktree!Map, Worktree!Task
<1>7. Places'
  BY <1>1, <1>5, Chains DEF Places, Writing
<1>8. OneChain'
  BY <1>1, <1>5 DEF OneChain
<1>9. Brings'
  BY <1>1, <1>3, <1>5, Chains DEF Brings, Writing, Places, Worktree!nextMapping, Worktree!Pruned,
     Worktree!readWorktreeMap, Worktree!NoEntries, Worktree!Place
<1>10. FileIsChosen' /\ OwnFile'
  BY <1>1, <1>3, <1>5, Chains DEF FileIsChosen, OwnFile, Writing,
     Worktree!readWorktreeMap, Worktree!NoEntries
<1>11. CopyIsChosen'
  <2> SUFFICES ASSUME NEW d \in Client PROVE CopyOf(d)'
    BY DEF CopyIsChosen
  <2>1. CopyOf(d)
    BY DEF CopyIsChosen
  <2>2. \A u \in Worktree!Task : /\ task'[u].todo = task[u].todo
                                 /\ task[u].todo \in {Creating, Removing} => task'[u].at = task[u].at
    BY <1>1, <1>5, Chains
  <2> QED
    BY <1>3, <2>1, <2>2 DEF CopyOf, Worktree!Pruned
<1> QED
  BY <1>6, <1>7, <1>8, <1>9, <1>10, <1>11

\* What the page computes for a session is what was chosen for it.
LEMMA AssignStep ==
  ASSUME WorktreeInv, NEW t \in Worktree!Task, OnePage,
         \/ Worktree!setWorktreeSlugForParentSession(t)
         \/ Worktree!removeParentSessionMapping(t)
  PROVE  WorktreeInv'
<1> USE DEF WorktreeInv
<1> DEFINE c == task[t].client
           s == task[t].session
<1>1. /\ task[t].at = "request" /\ task[t].todo \in {Assigning, Forgetting} /\ c \in Client
      /\ task[t] \in TaskRecord
  BY StepOf DEF Worktree!setWorktreeSlugForParentSession, Worktree!removeParentSessionMapping,
                Worktree!Is, WorktreeTypes
<1>2. \A u \in Worktree!Task : u # t => task[u].todo = Nothing /\ task[u].at \in {"idle", "done"}
  BY <1>1, Alone, Chains
<1>3. /\ copy[c] = chosen /\ list[c] = worktrees \cup {Root}
      /\ chosen \in Worktree!Map /\ chosen # None
  <2>1. CopyOf(c)
    BY <1>1 DEF CopyIsChosen
  <2>2. \A u \in Worktree!Task : task[u].todo \notin {Listing, ListingNew, Creating, Removing}
    BY <1>1, <1>2, Chains
  <2>3. copy[c] # None /\ list[c] # None
    BY <1>1, <2>1 DEF CopyOf
  <2> QED
    BY <2>1, <2>2, <2>3, ChosenIsThere DEF CopyOf
<1>4. PICK w \in worktrees \cup {Root, None} :
        /\ copy' = [copy EXCEPT ![c] = [chosen EXCEPT ![s] = w]]
        /\ task' = [task EXCEPT ![t].at = "write", ![t].map = [chosen EXCEPT ![s] = w]]
        /\ chosen' = [chosen EXCEPT ![s] = w]
        /\ UNCHANGED <<worktrees, mapFile, tmpFile, inode, list>>
  <2>1. CASE Worktree!setWorktreeSlugForParentSession(t)
    <3>1. Worktree!normalizeWorktreeSlug(c, task[t].slug) \in worktrees \cup {Root}
      BY <1>3 DEF Worktree!normalizeWorktreeSlug, Worktree!Available
    <3> QED
      BY <1>3, <2>1, <3>1 DEF Worktree!setWorktreeSlugForParentSession
  <2>2. CASE Worktree!removeParentSessionMapping(t)
    BY <1>3, <2>2 DEF Worktree!removeParentSessionMapping
  <2> QED
    BY <2>1, <2>2
<1> DEFINE map == [chosen EXCEPT ![s] = w]
<1>5. map \in [ParentSession -> worktrees \cup {Root, None}] /\ map \in Worktree!Map
  BY <1>3 DEF WorktreeTypes, Worktree!Map, Worktree!Place
<1>6. Worktree!Pruned(map, worktrees \cup {Root}) = map
  BY <1>5 DEF Worktree!Pruned
<1> HIDE DEF map
<1>7. /\ task' \in [Worktree!Task -> TaskRecord]
      /\ \A u \in Worktree!Task : u # t => task'[u] = task[u]
      /\ task'[t].at = "write" /\ task'[t].map = map
      /\ task'[t].todo = task[t].todo /\ task'[t].client = c
  BY <1>1, <1>4, <1>5 DEF WorktreeTypes, TaskRecord, Writing, map
<1>8. chosen' = map /\ copy' = [copy EXCEPT ![c] = map]
  BY <1>4 DEF map
<1>9. WorktreeTypes'
  BY <1>4, <1>5, <1>7, <1>8 DEF WorktreeTypes, TaskRecord, Worktree!Place, Worktree!Map, Worktree!Task
<1>10. Places' /\ OneChain'
  BY <1>1, <1>2, <1>7, Chains DEF Places, OneChain, Writing
<1>11. Brings'
  BY <1>1, <1>2, <1>7, <1>8, Chains DEF Brings, Writing
<1>12. FileIsChosen'
  BY <1>1, <1>7, Chains DEF FileIsChosen, Writing
<1>13. OwnFile'
  BY <1>1, <1>2, <1>4, <1>7, Chains DEF OwnFile
<1>14. CopyIsChosen'
  <2> SUFFICES ASSUME NEW d \in Client PROVE CopyOf(d)'
    BY DEF CopyIsChosen
  <2>1. d = c /\ copy'[d] = map /\ list'[d] = worktrees' \cup {Root} /\ worktrees' = worktrees
    BY <1>1, <1>3, <1>4, <1>8 DEF OnePage, WorktreeTypes
  <2>2. worktrees \cup {Root} # None /\ map # None
    BY <1>5, NoneIsApart, ChosenIsThere
  <2>3. Worktree!Pruned(copy[d], worktrees \cup {Root})' = map
    BY <1>6, <2>1 DEF Worktree!Pruned
  <2> QED
    BY <1>8, <2>1, <2>2, <2>3 DEF CopyOf
<1> QED
  BY <1>9, <1>10, <1>11, <1>12, <1>13, <1>14

\* git has a worktree more; nothing that was chosen is in it.
LEMMA CreateStep ==
  ASSUME WorktreeInv, NEW t \in Worktree!Task, Worktree!createManagedWorktree(t), OnePage
  PROVE  WorktreeInv'
<1> USE DEF WorktreeInv
<1> DEFINE c == task[t].client
<1>1. /\ task[t].at = "request" /\ task[t].todo = Creating /\ c \in Client
      /\ task[t] \in TaskRecord
  BY StepOf DEF Worktree!createManagedWorktree, Worktree!Is, WorktreeTypes
<1>2. \A u \in Worktree!Task : u # t => task[u].todo = Nothing /\ task[u].at \in {"idle", "done"}
  BY <1>1, Alone, Chains
<1>3. UNCHANGED <<mapFile, tmpFile, inode, list, copy, chosen>>
  BY DEF Worktree!createManagedWorktree
<1>4. CASE task[t].slug \in worktrees
  <2>1. task' = [task EXCEPT ![t] = Worktree!Done] /\ worktrees' = worktrees
    BY <1>4 DEF Worktree!createManagedWorktree
  <2>2. /\ task' \in [Worktree!Task -> TaskRecord]
        /\ \A u \in Worktree!Task : task'[u].todo = Nothing /\ task'[u].at \in {"idle", "done"}
        /\ \A u \in Worktree!Task : u # t => task'[u] = task[u]
        /\ task'[t].at = "done"
    BY <1>2, <2>1, RestingTasks DEF WorktreeTypes
  <2>3. WorktreeTypes'
    BY <1>3, <2>1, <2>2 DEF WorktreeTypes, TaskRecord, Worktree!Place, Worktree!Map, Worktree!Task
  <2>4. Places' /\ OneChain' /\ Brings'
    BY <2>2, Chains DEF Places, OneChain, Brings, Writing
  <2>5. FileIsChosen' /\ OwnFile'
    BY <1>1, <1>2, <1>3, <2>2, Chains DEF FileIsChosen, OwnFile, Writing,
       Worktree!readWorktreeMap, Worktree!NoEntries
  <2>6. CopyIsChosen'
    <3> SUFFICES ASSUME NEW d \in Client PROVE CopyOf(d)'
      BY DEF CopyIsChosen
    <3>1. CopyOf(d)
      BY DEF CopyIsChosen
    <3> QED
      BY <1>1, <1>2, <1>3, <2>1, <2>2, <3>1, Chains DEF CopyOf, Worktree!Pruned
  <2> QED
    BY <2>3, <2>4, <2>5, <2>6
<1>5. CASE task[t].slug \notin worktrees
  <2>0. worktrees' = worktrees \cup {task[t].slug} /\ task' = [task EXCEPT ![t].at = "answer"]
    BY <1>5 DEF Worktree!createManagedWorktree
  <2>1. task[t].slug \in Slug
    BY <1>1 DEF Places
  <2>2. /\ task' \in [Worktree!Task -> TaskRecord]
        /\ \A u \in Worktree!Task : u # t => task'[u] = task[u]
        /\ task'[t].at = "answer" /\ task'[t].todo = Creating /\ task'[t].client = c
        /\ task'[t].slug = task[t].slug
    BY <1>1, <2>0 DEF WorktreeTypes, TaskRecord
  <2>3. WorktreeTypes'
    BY <1>3, <2>0, <2>1, <2>2 DEF WorktreeTypes, TaskRecord, Worktree!Place, Worktree!Map, Worktree!Task
  <2>4. Places' /\ OneChain' /\ Brings'
    <3>1. Places'
      BY <1>1, <1>2, <2>1, <2>2, Chains DEF Places, Writing
    <3>2. OneChain'
      BY <1>2, <2>2 DEF OneChain
    <3>3. Brings'
      BY <1>2, <2>2, Chains DEF Brings, Writing
    <3> QED
      BY <3>1, <3>2, <3>3
  <2>5. FileIsChosen' /\ OwnFile'
    BY <1>1, <1>2, <1>3, <2>2, Chains DEF FileIsChosen, OwnFile, Writing,
       Worktree!readWorktreeMap, Worktree!NoEntries
  <2>6. CopyIsChosen'
    <3> SUFFICES ASSUME NEW d \in Client PROVE CopyOf(d)'
      BY DEF CopyIsChosen
    <3>1. CopyOf(d)
      BY DEF CopyIsChosen
    <3>2. copy[d] = chosen /\ list[d] # None
      <4>1. \A u \in Worktree!Task : /\ task[u].todo # Listing
                                     /\ task[u].todo = Removing => task[u].at = "request"
        BY <1>1, <1>2, Chains
      <4>2. copy[d] # None
        BY <1>1, <3>1 DEF CopyOf
      <4> QED
        BY <3>1, <4>1, <4>2 DEF CopyOf
    <3>3. Worktree!Pruned(copy[d], worktrees \cup {Root})' = chosen
      BY <1>3, <2>0, <3>2 DEF Worktree!Pruned, WorktreeTypes
    <3> QED
      BY <1>1, <1>3, <2>2, <3>2, <3>3, ChosenIsThere, Chains DEF CopyOf
  <2> QED
    BY <2>3, <2>4, <2>5, <2>6
<1> QED
  BY <1>4, <1>5

\* git has a worktree less, and with it go the choices that named it.
LEMMA RemoveStep ==
  ASSUME WorktreeInv, NEW t \in Worktree!Task, Worktree!removeWorktree(t), OnePage
  PROVE  WorktreeInv'
<1> USE DEF WorktreeInv
<1> DEFINE c == task[t].client
           w == task[t].slug
<1>1. /\ task[t].at = "request" /\ task[t].todo = Removing /\ c \in Client
      /\ task[t] \in TaskRecord /\ w \in Slug
  BY StepOf DEF Worktree!removeWorktree, Worktree!Is, WorktreeTypes, Places
<1>2. \A u \in Worktree!Task : u # t => task[u].todo = Nothing /\ task[u].at \in {"idle", "done"}
  BY <1>1, Alone, Chains
<1>3. UNCHANGED <<mapFile, tmpFile, inode, list, copy>>
  BY DEF Worktree!removeWorktree
<1>4. CASE w \notin worktrees
  <2>1. task' = [task EXCEPT ![t] = Worktree!Done] /\ UNCHANGED <<worktrees, chosen>>
    BY <1>4 DEF Worktree!removeWorktree
  <2>2. /\ task' \in [Worktree!Task -> TaskRecord]
        /\ \A u \in Worktree!Task : task'[u].todo = Nothing /\ task'[u].at \in {"idle", "done"}
        /\ \A u \in Worktree!Task : u # t => task'[u] = task[u]
        /\ task'[t].at = "done"
    BY <1>2, <2>1, RestingTasks DEF WorktreeTypes
  <2>3. WorktreeTypes'
    BY <1>3, <2>1, <2>2 DEF WorktreeTypes, TaskRecord, Worktree!Place, Worktree!Map, Worktree!Task
  <2>4. Places' /\ OneChain' /\ Brings'
    BY <2>2, Chains DEF Places, OneChain, Brings, Writing
  <2>5. FileIsChosen' /\ OwnFile'
    BY <1>1, <1>2, <1>3, <2>1, <2>2, Chains DEF FileIsChosen, OwnFile, Writing,
       Worktree!readWorktreeMap, Worktree!NoEntries
  <2>6. CopyIsChosen'
    <3> SUFFICES ASSUME NEW d \in Client PROVE CopyOf(d)'
      BY DEF CopyIsChosen
    <3>1. CopyOf(d)
      BY DEF CopyIsChosen
    <3> QED
      BY <1>1, <1>2, <1>3, <2>1, <2>2, <3>1, Chains DEF CopyOf, Worktree!Pruned
  <2> QED
    BY <2>3, <2>4, <2>5, <2>6
<1>5. CASE w \in worktrees
  <2>1. /\ worktrees' = worktrees \ {w} /\ task' = [task EXCEPT ![t].at = "prune"]
        /\ chosen' = [s \in ParentSession |-> IF chosen[s] = w THEN None ELSE chosen[s]]
    BY <1>5 DEF Worktree!removeWorktree
  <2>2. /\ task' \in [Worktree!Task -> TaskRecord]
        /\ \A u \in Worktree!Task : u # t => task'[u] = task[u]
        /\ task'[t].at = "prune" /\ task'[t].todo = Removing /\ task'[t].client = c
        /\ task'[t].slug = w
    BY <1>1, <2>1 DEF WorktreeTypes, TaskRecord
  <2>3. chosen' \in [ParentSession -> worktrees' \cup {Root, None}]
    BY <2>1 DEF WorktreeTypes
  <2>4. WorktreeTypes'
    BY <1>3, <2>1, <2>2, <2>3 DEF WorktreeTypes, TaskRecord, Worktree!Place, Worktree!Map, Worktree!Task
  <2>5. Places' /\ OneChain'
    BY <1>1, <1>2, <2>2, Chains DEF Places, OneChain, Writing
  <2>6. Worktree!readWorktreeMap = chosen /\ Worktree!readWorktreeMap' = Worktree!readWorktreeMap
    BY <1>1, <1>2, <1>3 DEF FileIsChosen, Writing, Worktree!readWorktreeMap, Worktree!NoEntries
  <2>7. Worktree!nextMapping(Worktree!readWorktreeMap, w) = chosen'
    BY <2>1, <2>6, NoneIsApart DEF Worktree!nextMapping, Worktree!Pruned, WorktreeTypes, Worktree!Place
  <2>8. Brings'
    <3>1. Worktree!nextMapping(Worktree!readWorktreeMap, w)' = chosen'
      BY <2>2, <2>6, <2>7 DEF Worktree!nextMapping, Worktree!Pruned, Worktree!Place
    <3> QED
      BY <1>1, <1>2, <2>2, <3>1 DEF Brings, Writing
  <2>9. FileIsChosen'
    BY <2>2, Chains DEF FileIsChosen
  <2>10. OwnFile'
    BY <1>1, <1>2, <1>3, <2>2, Chains DEF OwnFile
  <2>11. CopyIsChosen'
    <3> SUFFICES ASSUME NEW d \in Client PROVE CopyOf(d)'
      BY DEF CopyIsChosen
    <3>1. CopyOf(d)
      BY DEF CopyIsChosen
    <3>2. copy[d] \in {None, chosen}
      <4>1. \A u \in Worktree!Task : /\ task[u].todo # Listing
                                     /\ task[u].todo = Removing => task[u].at = "request"
        BY <1>1, <1>2, Chains
      <4> QED
        BY <3>1, <4>1 DEF CopyOf
    <3>3. copy[d] # None => Worktree!Pruned(copy[d], worktrees \cup {Root})' = chosen'
      BY <1>1, <1>3, <2>1, <3>2, NoneIsApart DEF Worktree!Pruned, WorktreeTypes
    <3> QED
      BY <1>1, <1>2, <1>3, <2>2, <3>1, <3>3, Chains DEF CopyOf
  <2> QED
    BY <2>4, <2>5, <2>8, <2>9, <2>10, <2>11
<1> QED
  BY <1>4, <1>5

\* The delete route computes what is left of the map.
LEMMA PruneStep ==
  ASSUME WorktreeInv, NEW t \in Worktree!Task, Worktree!deleteRoutePrunes(t), OnePage
  PROVE  WorktreeInv'
<1> USE DEF WorktreeInv
<1>1. /\ task[t].at = "prune" /\ task[t].todo = Removing /\ task[t] \in TaskRecord
      /\ task[t].client \in Client /\ task[t].slug \in Slug
  BY StepOf DEF Worktree!deleteRoutePrunes, WorktreeTypes, Places
<1>2. \A u \in Worktree!Task : u # t => task[u].todo = Nothing /\ task[u].at \in {"idle", "done"}
  BY <1>1, Alone, Chains
<1>3. Worktree!nextMapping(Worktree!readWorktreeMap, task[t].slug) = chosen
  BY <1>1 DEF Brings
<1>4. /\ UNCHANGED <<worktrees, mapFile, tmpFile, inode, list, copy, chosen>>
      /\ task' = [task EXCEPT ![t].at = IF chosen = Worktree!readWorktreeMap THEN "answer" ELSE "write",
                              ![t].map = chosen]
  BY <1>3 DEF Worktree!deleteRoutePrunes
<1>5. /\ task' \in [Worktree!Task -> TaskRecord]
      /\ \A u \in Worktree!Task : u # t => task'[u] = task[u]
      /\ task'[t].todo = Removing /\ task'[t].client = task[t].client /\ task'[t].slug = task[t].slug
      /\ task'[t].map = chosen
      /\ \/ task'[t].at = "answer" /\ Worktree!readWorktreeMap = chosen
         \/ task'[t].at = "write"
  BY <1>1, <1>4, ChosenIsThere DEF WorktreeTypes, TaskRecord, Writing
<1>6. WorktreeTypes'
  BY <1>4, <1>5 DEF WorktreeTypes, TaskRecord, Worktree!Place, Worktree!Map, Worktree!Task
<1>7. Places'
  BY <1>1, <1>2, <1>5, Chains DEF Places, Writing
<1>8. OneChain' /\ Brings'
  <2>1. OneChain'
    BY <1>2, <1>5 DEF OneChain
  <2>2. task'[t].at \in {"answer", "write"} /\ task'[t].todo \notin {Listing, ListingNew, Reading}
    BY <1>5, Chains
  <2>3. Brings'
    BY <1>2, <1>4, <1>5, <2>2, Chains DEF Brings, Writing
  <2> QED
    BY <2>1, <2>3
<1>9. FileIsChosen' /\ OwnFile'
  <2>1. Worktree!readWorktreeMap' = Worktree!readWorktreeMap
    BY <1>4 DEF Worktree!readWorktreeMap, Worktree!NoEntries
  <2>2. FileIsChosen'
    BY <1>1, <1>4, <1>5, <2>1, Chains DEF FileIsChosen, Writing
  <2>3. mapFile # t
    BY <1>1, Chains DEF OwnFile
  <2>4. OwnFile'
    BY <1>1, <1>2, <1>4, <1>5, <2>3, Chains DEF OwnFile
  <2> QED
    BY <2>2, <2>4
<1>10. CopyIsChosen'
  <2> SUFFICES ASSUME NEW d \in Client PROVE CopyOf(d)'
    BY DEF CopyIsChosen
  <2>1. CopyOf(d)
    BY DEF CopyIsChosen
  <2> QED
    BY <1>1, <1>2, <1>4, <1>5, <2>1, Chains DEF CopyOf, Worktree!Pruned
<1> QED
  BY <1>6, <1>7, <1>8, <1>9, <1>10

\* A request that writes has the temporary file to itself.
LEMMA WriteStep ==
  ASSUME WorktreeInv, NEW t \in Worktree!Task,
         Worktree!opensTmp(t) \/ Worktree!writesTmp(t) \/ Worktree!renames(t), OnePage
  PROVE  WorktreeInv'
<1> USE DEF WorktreeInv
<1>1. /\ task[t].at \in Writing /\ task[t].todo \in {Putting, Assigning, Forgetting, Removing}
      /\ task[t] \in TaskRecord /\ task[t].client \in Client
      /\ Head(task[t].todo) = "remove" <=> task[t].todo = Removing
      /\ task[t].todo = Removing => task[t].slug \in Slug
  <2>1. task[t].at \in Writing
    BY DEF Worktree!opensTmp, Worktree!writesTmp, Worktree!renames, Writing
  <2> QED
    BY <2>1, StepOf DEF Writing, WorktreeTypes, Places
<1>2. /\ \A u \in Worktree!Task : u # t => task[u].todo \in {Nothing, Reading}
      /\ \A u \in Worktree!Task : u # t => task[u].at \in {"idle", "done", "request", "answer"}
      /\ \A u \in Worktree!Task : u # t /\ task[t].todo # Putting => task[u].todo = Nothing
  BY <1>1, Chains DEF OneChain, Places
<1>3. /\ mapFile # t /\ t \in Nat /\ t # None /\ t # 0
      /\ task[t].map = chosen /\ chosen # None
      /\ Worktree!readWorktreeMap = IF inode[mapFile] = None THEN Worktree!NoEntries ELSE inode[mapFile]
  BY <1>1, NoneIsApart, ChosenIsThere, Chains
     DEF OwnFile, Brings, Worktree!Task, Worktree!readWorktreeMap, Writing
<1>4. UNCHANGED <<worktrees, list, copy, chosen>>
  BY DEF Worktree!opensTmp, Worktree!writesTmp, Worktree!renames
<1>5. ASSUME task' \in [Worktree!Task -> TaskRecord],
             \A u \in Worktree!Task : u # t => task'[u] = task[u],
             \/ /\ task'[t].at \in Writing \/ (task'[t].at = "answer" /\ task[t].todo = Removing)
                /\ task'[t].todo = task[t].todo /\ task'[t].client = task[t].client
                /\ task'[t].map = task[t].map /\ task'[t].slug = task[t].slug
             \/ /\ task'[t].at = "done" /\ task'[t].todo = Nothing
                /\ task[t].todo # Removing,
             inode' \in [Worktree!Task \cup {0} -> Worktree!Map \cup {None}],
             mapFile' \in Worktree!Task \cup {0},
             Worktree!readWorktreeMap' \in {Worktree!readWorktreeMap, chosen},
             task'[t].at \in Writing \/ Worktree!readWorktreeMap' = chosen
      PROVE  WorktreeTypes' /\ Places' /\ OneChain' /\ Brings' /\ FileIsChosen' /\ CopyIsChosen'
  <2>1. WorktreeTypes'
    BY <1>4, <1>5 DEF WorktreeTypes, TaskRecord, Worktree!Place, Worktree!Map, Worktree!Task
  <2>2. Places'
    BY <1>1, <1>5, Chains DEF Places, Writing
  <2>3. OneChain'
    BY <1>1, <1>5, Chains DEF OneChain
  <2>4. Brings'
    BY <1>1, <1>2, <1>3, <1>4, <1>5, Chains DEF Brings, Writing
  <2>5. FileIsChosen'
    BY <1>1, <1>2, <1>4, <1>5, Chains DEF FileIsChosen, Writing
  <2>6. CopyIsChosen'
    <3> SUFFICES ASSUME NEW d \in Client PROVE CopyOf(d)'
      BY DEF CopyIsChosen
    <3>1. CopyOf(d)
      BY DEF CopyIsChosen
    <3>2. task[t].todo = Removing => task'[t].todo = Removing /\ task'[t].at # "request"
      BY <1>1, <1>5 DEF Writing
    <3>3. \A u \in Worktree!Task : task'[u].todo \in {task[u].todo, Nothing}
      BY <1>5
    <3>4. \A u \in Worktree!Task :
            /\ task[u].todo \in {Listing, ListingNew} => task'[u].todo = task[u].todo
            /\ task[u].todo \in {Creating, Removing} =>
                 task'[u].todo = task[u].todo /\ (task'[u].at = "request" => task[u].at = "request")
      BY <1>1, <1>5, <3>2, Chains
    <3>5. (Worktree!Pruned(copy[d], worktrees \cup {Root}) = chosen)' <=>
            Worktree!Pruned(copy[d], worktrees \cup {Root}) = chosen
      BY <1>4 DEF Worktree!Pruned
    <3>6. (\A u \in Worktree!Task : /\ task'[u].todo # Listing
                                    /\ task'[u].todo = Removing => task'[u].at = "request") =>
            copy[d] \in {None, chosen}
      BY <1>1, <3>1, <3>3, <3>4, Chains DEF CopyOf
    <3>7. (\A u \in Worktree!Task : /\ task'[u].todo \notin {Listing, ListingNew}
                                    /\ task'[u].todo \in {Creating, Removing} => task'[u].at = "request") =>
            list[d] \in {None, worktrees \cup {Root}}
      BY <1>1, <3>1, <3>3, <3>4, Chains DEF CopyOf
    <3>8. \A u \in Worktree!Task :
            /\ task'[u].todo \in {Assigning, Forgetting, ListingNew, Creating} => copy[d] # None
            /\ task'[u].todo = Reading => list[d] # None
      BY <3>1, <3>3, Chains DEF CopyOf
    <3> QED
      BY <1>4, <3>1, <3>5, <3>6, <3>7, <3>8 DEF CopyOf
  <2> QED
    BY <2>1, <2>2, <2>3, <2>4, <2>5, <2>6
<1>6. CASE Worktree!opensTmp(t)
  <2>1. task[t].at = "write" /\ tmpFile = None
    <3>1. task[t].at = "write"
      BY <1>6 DEF Worktree!opensTmp
    <3> QED
      BY <1>2, <3>1 DEF OwnFile
  <2>2. /\ tmpFile' = t /\ inode' = [inode EXCEPT ![t] = None] /\ mapFile' = mapFile
        /\ task' = [task EXCEPT ![t].at = "opened", ![t].file = t]
    BY <1>6, <2>1 DEF Worktree!opensTmp
  <2>3. /\ task' \in [Worktree!Task -> TaskRecord]
        /\ \A u \in Worktree!Task : u # t => task'[u] = task[u]
        /\ task'[t].at = "opened" /\ task'[t].file = t
        /\ task'[t].todo = task[t].todo /\ task'[t].client = task[t].client
        /\ task'[t].map = task[t].map /\ task'[t].slug = task[t].slug
    BY <1>1, <2>2 DEF WorktreeTypes, TaskRecord, Writing
  <2>4. inode' \in [Worktree!Task \cup {0} -> Worktree!Map \cup {None}] /\ inode'[t] = None
    BY <2>2 DEF WorktreeTypes
  <2>5. Worktree!readWorktreeMap' = Worktree!readWorktreeMap
    BY <1>3, <2>2 DEF WorktreeTypes, Worktree!readWorktreeMap, Worktree!NoEntries
  <2>6. OwnFile'
    BY <1>1, <1>2, <1>3, <2>2, <2>3, <2>4, Chains DEF OwnFile
  <2> QED
    BY <1>5, <2>2, <2>3, <2>4, <2>5, <2>6 DEF WorktreeTypes, Writing
<1>7. CASE Worktree!writesTmp(t)
  <2>1. task[t].at = "opened" /\ task[t].file = t /\ inode[t] = None /\ tmpFile = t
    BY <1>7 DEF Worktree!writesTmp, OwnFile
  <2>2. /\ inode' = [inode EXCEPT ![t] = chosen] /\ UNCHANGED <<tmpFile, mapFile>>
        /\ task' = [task EXCEPT ![t].at = "written"]
    BY <1>3, <1>7, <2>1 DEF Worktree!writesTmp
  <2>3. /\ task' \in [Worktree!Task -> TaskRecord]
        /\ \A u \in Worktree!Task : u # t => task'[u] = task[u]
        /\ task'[t].at = "written" /\ task'[t].file = t
        /\ task'[t].todo = task[t].todo /\ task'[t].client = task[t].client
        /\ task'[t].map = task[t].map /\ task'[t].slug = task[t].slug
    BY <1>1, <2>1, <2>2 DEF WorktreeTypes, TaskRecord, Writing
  <2>4. inode' \in [Worktree!Task \cup {0} -> Worktree!Map \cup {None}] /\ inode'[t] = chosen
    BY <2>2, ChosenIsThere DEF WorktreeTypes
  <2>5. Worktree!readWorktreeMap' = Worktree!readWorktreeMap
    BY <1>3, <2>2 DEF WorktreeTypes, Worktree!readWorktreeMap, Worktree!NoEntries
  <2>6. OwnFile'
    BY <1>1, <1>2, <1>3, <2>1, <2>2, <2>3, <2>4, Chains DEF OwnFile
  <2> QED
    BY <1>5, <2>2, <2>3, <2>4, <2>5, <2>6 DEF WorktreeTypes, Writing
<1>8. CASE Worktree!renames(t)
  <2>1. task[t].at = "written" /\ inode[t] = chosen /\ tmpFile = t
    BY <1>3, <1>8 DEF Worktree!renames, OwnFile
  <2>2. /\ mapFile' = t /\ tmpFile' = None /\ inode' = inode
        /\ task' = [task EXCEPT ![t] = IF task[t].todo = Removing THEN [@ EXCEPT !.at = "answer"]
                                       ELSE Worktree!Done]
    BY <1>1, <1>3, <1>8, <2>1 DEF Worktree!renames
  <2>3. /\ task' \in [Worktree!Task -> TaskRecord]
        /\ \A u \in Worktree!Task : u # t => task'[u] = task[u]
        /\ \/ /\ task'[t].at = "answer" /\ task[t].todo = Removing
              /\ task'[t].todo = task[t].todo /\ task'[t].client = task[t].client
              /\ task'[t].map = task[t].map /\ task'[t].slug = task[t].slug
           \/ /\ task'[t].at = "done" /\ task'[t].todo = Nothing /\ task[t].todo # Removing
    <3>1. CASE task[t].todo = Removing
      BY <1>1, <2>2, <3>1 DEF WorktreeTypes, TaskRecord
    <3>2. CASE task[t].todo # Removing
      BY <2>2, <3>2, RestingTasks DEF WorktreeTypes
    <3> QED
      BY <3>1, <3>2
  <2>4. Worktree!readWorktreeMap' = chosen
    BY <1>3, <2>1, <2>2 DEF Worktree!readWorktreeMap, Worktree!NoEntries
  <2>5. OwnFile'
    BY <1>1, <1>2, <1>3, <2>2, <2>3, Chains DEF OwnFile
  <2> QED
    BY <1>5, <2>2, <2>3, <2>4, <2>5 DEF WorktreeTypes
<1> QED
  BY <1>6, <1>7, <1>8

\* The list of worktrees comes, and the page drops what it no longer names; a
\* request that nobody waits for puts the same map into the file again.
LEMMA ListedStep ==
  ASSUME WorktreeInv, NEW t \in Worktree!Task, Worktree!worktreesAnswered(t), OnePage
  PROVE  WorktreeInv'
<1> USE DEF WorktreeInv
<1> DEFINE c == task[t].client
           keep == worktrees \cup {Root}
           k == [task[t] EXCEPT !.at = "request", !.todo = Tail(@)]
           f == [task EXCEPT ![t] = k]
<1>1. /\ task[t].at = "answer" /\ task[t].todo \in {Listing, ListingNew} /\ c \in Client
      /\ task[t] \in TaskRecord /\ task[t].list = keep
  BY StepOf DEF Worktree!worktreesAnswered, Worktree!Is, WorktreeTypes, Brings
<1>2. \A u \in Worktree!Task : u # t => task[u].todo = Nothing /\ task[u].at \in {"idle", "done"}
  BY <1>1, Alone, Chains
<1>3. /\ keep # {} /\ keep \cup {Root} = keep /\ keep # None /\ keep \in SUBSET Worktree!Place
      /\ chosen \in Worktree!Map /\ chosen # None
      /\ Worktree!Pruned(chosen, keep) = chosen
  BY NoneIsApart, ChosenIsThere
<1>4. CopyOf(c) /\ \A d \in Client : d = c
  BY <1>1 DEF CopyIsChosen, OnePage
<1>5. /\ copy[c] # None => Worktree!Pruned(copy[c], keep) = chosen
      /\ task[t].todo = ListingNew => copy[c] = chosen
  <2>1. task[t].todo = ListingNew =>
          \A u \in Worktree!Task : task[u].todo # Listing /\ task[u].todo # Removing
    BY <1>1, <1>2, Chains
  <2> QED
    BY <1>1, <1>4, <2>1 DEF CopyOf
<1>6. /\ list' = [list EXCEPT ![c] = keep]
      /\ UNCHANGED <<worktrees, mapFile, tmpFile, inode, chosen>>
  BY <1>1, <1>3 DEF Worktree!worktreesAnswered
<1>7. /\ k \in TaskRecord /\ k.at = "request" /\ k.client = c /\ k.slug = task[t].slug
      /\ k.todo = IF task[t].todo = Listing THEN Reading ELSE Assigning
      /\ Worktree!Onward(t) = k
  <2>1. Tail(task[t].todo) = IF task[t].todo = Listing THEN Reading ELSE Assigning
    BY <1>1, Chains
  <2>2. Worktree!Onward(t) = k
    BY <1>1, Chains DEF Worktree!Onward
  <2>3. k.at = "request" /\ k.client = c /\ k.slug = task[t].slug /\ k.todo = Tail(task[t].todo)
    BY <1>1 DEF TaskRecord
  <2>4. k \in TaskRecord
    BY <1>1, <2>1 DEF TaskRecord
  <2> QED
    BY <2>1, <2>2, <2>3, <2>4
<1>8. f \in [Worktree!Task -> TaskRecord] /\ f[t] = k
      /\ \A u \in Worktree!Task : u # t => f[u] = task[u]
  BY <1>7 DEF WorktreeTypes
<1> HIDE DEF k, f
<1>9. /\ copy' = [copy EXCEPT ![c] = IF copy[c] = None THEN None ELSE chosen]
      /\ \/ task' = f
         \/ \E u \in Worktree!Task :
              /\ u # t /\ task[u].at = "idle" /\ task[t].todo = Listing
              /\ task' = [f EXCEPT ![u] = [Worktree!Idle EXCEPT !.at = "write", !.todo = <<"put">>,
                                                                !.client = c, !.map = chosen]]
  <2>1. CASE copy[c] = None
    BY <1>1, <1>3, <1>7, <2>1 DEF Worktree!worktreesAnswered, WorktreeTypes, f
  <2>2. CASE copy[c] # None
    <3>1. Worktree!prunes(c, copy[c], keep, f)
      BY <1>1, <1>3, <1>7, <2>2 DEF Worktree!worktreesAnswered, f
    <3>2. Worktree!Pruned(copy[c], keep \cup {Root}) = chosen
      BY <1>3, <1>5, <2>2
    <3>3. copy' = [copy EXCEPT ![c] = chosen]
      BY <3>1, <3>2 DEF Worktree!prunes
    <3>4. CASE copy[c] = chosen
      BY <2>2, <3>1, <3>2, <3>3, <3>4 DEF Worktree!prunes
    <3>5. CASE copy[c] # chosen
      <4>1. PICK u \in Worktree!Task :
              /\ Worktree!Free(u)
              /\ task' = [f EXCEPT ![u] = [Worktree!Idle EXCEPT !.at = "write", !.todo = <<"put">>,
                                                                !.client = c, !.map = chosen]]
        BY <3>1, <3>2, <3>5 DEF Worktree!prunes
      <4>2. task[u].at = "idle" /\ u # t
        BY <1>1, <4>1 DEF Worktree!Free
      <4>3. task[t].todo = Listing
        BY <1>1, <1>5, <3>5
      <4> QED
        BY <2>2, <3>3, <4>1, <4>2, <4>3
    <3> QED
      BY <3>4, <3>5
  <2> QED
    BY <2>1, <2>2
<1>10. copy'[c] \in {None, chosen} /\ (copy[c] # None => copy'[c] = chosen) /\ list'[c] = keep
       /\ copy' \in [Client -> Worktree!Map \cup {None}]
       /\ list' \in [Client -> (SUBSET Worktree!Place) \cup {None}]
  BY <1>1, <1>3, <1>6, <1>9 DEF WorktreeTypes
<1>11. Worktree!readWorktreeMap = chosen /\ Worktree!readWorktreeMap' = chosen
  BY <1>1, <1>2, <1>6 DEF FileIsChosen, Writing, Worktree!readWorktreeMap, Worktree!NoEntries
<1>12. CASE task' = f
  <2>0. /\ task'[t] = k /\ \A u \in Worktree!Task : u # t => task'[u] = task[u]
        /\ tmpFile = None /\ (mapFile = t => k.todo = Reading)
    <3>1. tmpFile = None
      BY <1>1, <1>2 DEF OwnFile
    <3>2. mapFile = t => task[t].todo = Listing
      BY <1>1, Chains DEF OwnFile
    <3> QED
      BY <1>7, <1>8, <1>12, <3>1, <3>2
  <2>1. WorktreeTypes'
    BY <1>6, <1>8, <1>10, <1>12
    DEF WorktreeTypes, TaskRecord, Worktree!Place, Worktree!Map, Worktree!Task
  <2>2. Places' /\ OneChain'
    BY <1>1, <1>2, <1>7, <1>8, <1>12, Chains DEF Places, OneChain
  <2>3. Brings'
    BY <1>2, <1>7, <1>8, <1>12 DEF Brings, Writing
  <2>4. FileIsChosen'
    BY <1>6, <1>11 DEF FileIsChosen
  <2>5. OwnFile'
    BY <1>2, <1>6, <1>7, <2>0 DEF OwnFile
  <2>6. CopyIsChosen'
    <3> SUFFICES ASSUME NEW d \in Client PROVE CopyOf(d)'
      BY DEF CopyIsChosen
    <3>1. d = c /\ worktrees' = worktrees /\ chosen' = chosen
      BY <1>4, <1>6
    <3>2. \A u \in Worktree!Task : task'[u].todo \in {Nothing, Reading, Assigning}
      BY <1>2, <1>7, <2>0
    <3>3. copy'[c] = None => \A u \in Worktree!Task : task'[u].todo # Assigning
      <4>1. copy'[c] = None => k.todo = Reading
        BY <1>1, <1>3, <1>5, <1>7, <1>10
      <4> QED
        BY <1>2, <2>0, <4>1, Chains
    <3>4. Worktree!Pruned(chosen, keep)' = chosen
      BY <1>3, <1>6 DEF Worktree!Pruned
    <3> QED
      BY <1>3, <1>10, <3>1, <3>2, <3>3, <3>4, Chains DEF CopyOf
  <2> QED
    BY <2>1, <2>2, <2>3, <2>4, <2>5, <2>6
<1>13. CASE task' # f
  <2>1. PICK u \in Worktree!Task :
          /\ u # t /\ task[u].at = "idle" /\ task[t].todo = Listing
          /\ task' = [f EXCEPT ![u] = [Worktree!Idle EXCEPT !.at = "write", !.todo = <<"put">>,
                                                            !.client = c, !.map = chosen]]
    BY <1>9, <1>13
  <2> DEFINE p == [Worktree!Idle EXCEPT !.at = "write", !.todo = <<"put">>, !.client = c,
                                        !.map = chosen]
  <2>2. p \in TaskRecord /\ p.at = "write" /\ p.todo = Putting /\ p.client = c /\ p.map = chosen
    BY <1>1, <1>3, RestingTasks DEF TaskRecord, Worktree!Idle, Writing, Putting
  <2> HIDE DEF p
  <2>3. /\ task' \in [Worktree!Task -> TaskRecord]
        /\ task'[u] = p /\ task'[t] = k
        /\ \A v \in Worktree!Task : v \notin {t, u} => task'[v] = task[v]
    BY <1>8, <2>1, <2>2 DEF p
  <2>4. WorktreeTypes'
    BY <1>6, <1>10, <2>3
    DEF WorktreeTypes, TaskRecord, Worktree!Place, Worktree!Map, Worktree!Task
  <2>5. k.todo = Reading
    BY <1>7, <2>1
  <2>6. Places'
    BY <1>1, <1>7, <2>2, <2>3, <2>5, Chains DEF Places, Writing
  <2>7. OneChain'
    BY <1>2, <2>2, <2>3, <2>5 DEF OneChain
  <2>8. Brings'
    BY <1>2, <1>6, <1>7, <2>2, <2>3 DEF Brings, Writing
  <2>9. FileIsChosen'
    BY <1>6, <1>11 DEF FileIsChosen
  <2>10. mapFile # u /\ tmpFile = None
    BY <1>1, <1>2, <2>1, Chains DEF OwnFile
  <2>11. OwnFile'
    BY <1>2, <1>6, <1>7, <2>2, <2>3, <2>5, <2>10 DEF OwnFile
  <2>12. CopyIsChosen'
    <3> SUFFICES ASSUME NEW d \in Client PROVE CopyOf(d)'
      BY DEF CopyIsChosen
    <3>1. d = c /\ worktrees' = worktrees /\ chosen' = chosen
      BY <1>4, <1>6
    <3>2. \A v \in Worktree!Task : task'[v].todo \in {Nothing, Reading, Putting}
      BY <1>2, <2>2, <2>3, <2>5
    <3>3. Worktree!Pruned(chosen, keep)' = chosen
      BY <1>3, <1>6 DEF Worktree!Pruned
    <3> QED
      BY <1>3, <1>10, <3>1, <3>2, <3>3, Chains DEF CopyOf
  <2> QED
    BY <2>4, <2>6, <2>7, <2>8, <2>9, <2>11, <2>12
<1> QED
  BY <1>12, <1>13

\* The map comes, and names no worktree that is gone.
LEMMA ReadStep ==
  ASSUME WorktreeInv, NEW t \in Worktree!Task, Worktree!mapAnswered(t), OnePage
  PROVE  WorktreeInv'
<1> USE DEF WorktreeInv
<1> DEFINE c == task[t].client
           keep == worktrees \cup {Root}
<1>1. /\ task[t].at = "answer" /\ task[t].todo = Reading /\ c \in Client
      /\ task[t] \in TaskRecord /\ task[t].map = chosen
  BY StepOf DEF Worktree!mapAnswered, Worktree!Is, WorktreeTypes, Brings
<1>2. \A u \in Worktree!Task : u # t => task[u].todo \in {Nothing, Putting}
  BY <1>1, Chains DEF OneChain, Places
<1>3. /\ keep \cup {Root} = keep /\ keep # None
      /\ chosen \in Worktree!Map /\ chosen # None
      /\ Worktree!Pruned(chosen, keep) = chosen
  BY NoneIsApart, ChosenIsThere
<1>4. CopyOf(c) /\ \A d \in Client : d = c
  BY <1>1 DEF CopyIsChosen, OnePage
<1>5. list[c] = keep
  <2>1. \A u \in Worktree!Task : task[u].todo \notin {Listing, ListingNew, Creating, Removing}
    BY <1>1, <1>2, Chains
  <2> QED
    BY <1>1, <1>4, <2>1 DEF CopyOf
<1>6. Worktree!Onward(t) = Worktree!Done
  BY <1>1, Chains DEF Worktree!Onward
<1>7. /\ task' = [task EXCEPT ![t] = Worktree!Done] /\ copy' = [copy EXCEPT ![c] = chosen]
      /\ UNCHANGED <<worktrees, mapFile, tmpFile, inode, list, chosen>>
  <2>1. CASE copy[c] = None
    <3>1. Worktree!prunes(c, chosen, keep, [task EXCEPT ![t] = Worktree!Done])
      BY <1>1, <1>3, <1>5, <1>6, <2>1 DEF Worktree!mapAnswered
    <3> QED
      BY <1>3, <3>1 DEF Worktree!prunes, Worktree!mapAnswered
  <2>2. CASE copy[c] # None
    BY <1>1, <1>6, <2>2 DEF Worktree!mapAnswered
  <2> QED
    BY <2>1, <2>2
<1>8. /\ task' \in [Worktree!Task -> TaskRecord]
      /\ task'[t].at = "done" /\ task'[t].todo = Nothing
      /\ \A u \in Worktree!Task : u # t => task'[u] = task[u]
  BY <1>7, RestingTasks DEF WorktreeTypes
<1>9. copy'[c] = chosen /\ copy' \in [Client -> Worktree!Map \cup {None}]
  BY <1>1, <1>3, <1>7 DEF WorktreeTypes
<1>10. WorktreeTypes'
  BY <1>7, <1>8, <1>9 DEF WorktreeTypes, TaskRecord, Worktree!Place, Worktree!Map, Worktree!Task
<1>11. Places' /\ OneChain'
  BY <1>8, Chains DEF Places, OneChain
<1>12. Brings'
  <2>1. \A u \in Worktree!Task : u # t => task'[u].at \in {"idle", "done"} \cup Writing
    BY <1>2, <1>8, Chains DEF Places
  <2> QED
    BY <1>7, <1>8, <2>1 DEF Brings, Writing
<1>13. FileIsChosen'
  <2>1. Worktree!readWorktreeMap = chosen /\ Worktree!readWorktreeMap' = Worktree!readWorktreeMap
    <3>1. \A u \in Worktree!Task : task[u].at \in Writing \cup {"prune"} => task[u].todo = Putting
      BY <1>1, <1>2, Chains DEF Places, Writing
    <3> QED
      BY <1>7, <3>1 DEF FileIsChosen, Worktree!readWorktreeMap, Worktree!NoEntries
  <2> QED
    BY <1>7, <2>1 DEF FileIsChosen
<1>14. OwnFile'
  BY <1>1, <1>7, <1>8 DEF OwnFile
<1>15. CopyIsChosen'
  <2> SUFFICES ASSUME NEW d \in Client PROVE CopyOf(d)'
    BY DEF CopyIsChosen
  <2>1. d = c /\ worktrees' = worktrees /\ chosen' = chosen /\ list'[c] = keep
    BY <1>4, <1>5, <1>7
  <2>2. Worktree!Pruned(chosen, keep)' = chosen
    BY <1>3, <1>7 DEF Worktree!Pruned
  <2> QED
    BY <1>3, <1>9, <2>1, <2>2 DEF CopyOf
<1> QED
  BY <1>10, <1>11, <1>12, <1>13, <1>14, <1>15

\* Every step keeps the invariant.
LEMMA WorktreeStep ==
  ASSUME ~Overlap, ~GitMayFail, OnePage, WorktreeInv, [Worktree!Next]_(Worktree!vars)
  PROVE  WorktreeInv'
<1>1. CASE UNCHANGED Worktree!vars
  <2>1. Worktree!readWorktreeMap' = Worktree!readWorktreeMap
    BY <1>1 DEF Worktree!vars, Worktree!readWorktreeMap, Worktree!NoEntries
  <2>2. WorktreeTypes' /\ Places' /\ OneChain'
    BY <1>1 DEF Worktree!vars, WorktreeInv, WorktreeTypes, Places, OneChain, TaskRecord,
                Worktree!Place, Worktree!Map, Worktree!Task
  <2>3. Brings'
    BY <1>1, <2>1 DEF Worktree!vars, WorktreeInv, Brings, Worktree!nextMapping, Worktree!Pruned,
                      Worktree!Place
  <2>4. FileIsChosen' /\ OwnFile'
    BY <1>1, <2>1 DEF Worktree!vars, WorktreeInv, FileIsChosen, OwnFile
  <2>5. CopyIsChosen'
    BY <1>1 DEF Worktree!vars, WorktreeInv, CopyIsChosen, CopyOf, Worktree!Pruned
  <2> QED
    BY <2>2, <2>3, <2>4, <2>5 DEF WorktreeInv
<1>2. ASSUME NEW c \in Client, Worktree!page(c) PROVE WorktreeInv'
  <2>1. CASE Worktree!reloads(c)
    BY <2>1, ReloadStep
  <2>2. CASE Worktree!hydrateInstanceData(c)
    BY <2>2, BeginStep, NoneIsApart, Chains DEF Worktree!hydrateInstanceData, Listing
  <2>3. ASSUME NEW s \in ParentSession, Worktree!forgets(c, s) PROVE WorktreeInv'
    BY <2>3, BeginStep, NoneIsApart, Chains DEF Worktree!forgets, Worktree!Loaded, Forgetting
  <2>4. ASSUME NEW s \in ParentSession, NEW w \in Worktree!Place, Worktree!assigns(c, s, w)
        PROVE  WorktreeInv'
    BY <2>4, BeginStep, Chains DEF Worktree!assigns, Worktree!Loaded, Assigning
  <2>5. ASSUME NEW s \in ParentSession, NEW w \in Slug, Worktree!createDialog(c, s, w)
        PROVE  WorktreeInv'
    BY <2>5, BeginStep, NoneIsApart, Chains DEF Worktree!createDialog, Worktree!Loaded, Creating
  <2>6. ASSUME NEW w \in Slug, Worktree!deleteDialog(c, w) PROVE WorktreeInv'
    BY <2>6, BeginStep, NoneIsApart, Chains DEF Worktree!deleteDialog, Worktree!Loaded, Removing
  <2> QED
    BY <1>2, <2>1, <2>2, <2>3, <2>4, <2>5, <2>6 DEF Worktree!page
<1>3. ASSUME NEW t \in Worktree!Task, Worktree!server(t) PROVE WorktreeInv'
  BY <1>3, AnswerStep, CreateStep, RemoveStep, PruneStep, WriteStep DEF Worktree!server
<1>4. ASSUME NEW t \in Worktree!Task, Worktree!answered(t) PROVE WorktreeInv'
  BY <1>4, ListedStep, ReadStep, DialogStep, AssignStep DEF Worktree!answered
<1> QED
  BY <1>1, <1>2, <1>3, <1>4 DEF Worktree!Next

\* Nothing is chosen when the program starts.
LEMMA WorktreeInit ==
  ASSUME Worktree!Init
  PROVE  WorktreeInv
<1>1. Worktree!NoEntries \in Worktree!Map /\ Worktree!NoEntries \in [ParentSession -> worktrees \cup {Root, None}]
  BY DEF Worktree!NoEntries, Worktree!Map
<1>2. /\ task \in [Worktree!Task -> TaskRecord]
      /\ \A t \in Worktree!Task : task[t].at = "idle" /\ task[t].todo = Nothing
  BY RestingTasks DEF Worktree!Init
<1>3. WorktreeTypes
  BY <1>1, <1>2 DEF Worktree!Init, WorktreeTypes
<1>4. Places /\ OneChain /\ Brings
  BY <1>2, Chains DEF Places, OneChain, Brings, Writing
<1>5. Worktree!readWorktreeMap = chosen
  BY <1>1, NoneIsApart DEF Worktree!Init, Worktree!readWorktreeMap, Worktree!Task
<1>6. FileIsChosen /\ OwnFile
  <2>1. \A t \in Worktree!Task : mapFile # t
    BY DEF Worktree!Init, Worktree!Task
  <2> QED
    BY <1>2, <1>5, <2>1 DEF FileIsChosen, OwnFile, Worktree!Init
<1>7. CopyIsChosen
  BY <1>2, Chains DEF Worktree!Init, CopyIsChosen, CopyOf
<1> QED
  BY <1>3, <1>4, <1>6, <1>7 DEF WorktreeInv

\* A session stays in the worktree that was chosen for it, whatever a page asks
\* for next, when there is one page whose chains of requests do not overlap and
\* git answers.
THEOREM ChoiceIsKeptAlways ==
  ASSUME ~Overlap, ~GitMayFail, OnePage
  PROVE  Worktree!Spec => []ChoiceIsKept
<1>1. WorktreeInv => ChoiceIsKept
  <2> SUFFICES ASSUME WorktreeInv, Worktree!Quiet, NEW s \in ParentSession, chosen[s] # None
               PROVE  /\ Worktree!readWorktreeMap[s] = chosen[s]
                      /\ \A c \in Client : copy[c] # None =>
                           Worktree!normalizeWorktreeSlug(c, copy[c][s]) = chosen[s]
    BY DEF ChoiceIsKept, Worktree!ChoiceIsKept
  <2>1. \A t \in Worktree!Task : task[t].todo = Nothing /\ task[t].at \in {"idle", "done"}
    BY DEF WorktreeInv, Worktree!Quiet, Places
  <2>2. Worktree!readWorktreeMap = chosen
    BY <2>1 DEF WorktreeInv, FileIsChosen, Writing
  <2>3. ASSUME NEW c \in Client, copy[c] # None
        PROVE  copy[c] = chosen /\ list[c] = worktrees \cup {Root}
    <3>1. \A t \in Worktree!Task : task[t].todo \notin {Listing, ListingNew, Creating, Removing}
      BY <2>1, Chains
    <3> QED
      BY <2>3, <3>1 DEF WorktreeInv, CopyIsChosen, CopyOf
  <2>4. chosen[s] \in worktrees \cup {Root}
    BY DEF WorktreeInv, WorktreeTypes
  <2> QED
    BY <2>2, <2>3, <2>4 DEF Worktree!normalizeWorktreeSlug, Worktree!Available
<1>2. WorktreeInv /\ [Worktree!Next]_(Worktree!vars) => WorktreeInv'
  BY WorktreeStep
<1> QED
  BY <1>1, <1>2, WorktreeInit, PTL DEF Worktree!Spec

=============================================================================
