----------------------------- MODULE BinaryDownload -----------------------------
(***************************************************************************)
(* The download of the OpenCode binary (opencode-paths.ts,                 *)
(* opencode-downloader.ts): one promise for all callers of a server, up to *)
(* five attempts, and files that outlive the server.                       *)
(*                                                                         *)
(* `at` is the await the download is at.  The archive of a failed attempt  *)
(* is unlinked by a call nobody waits for; it may take effect after the    *)
(* next attempt has opened the file, whose writer then fills a file that   *)
(* no longer has a name.  The server may be killed at every step, and the  *)
(* next one finds each file as far as it was written.  One server uses the *)
(* directory, and the archive of a release holds the binary.               *)
(***************************************************************************)
EXTENDS Naturals

CONSTANT Retries \* attempts of downloadWithRetry

VARIABLES
  promise,   \* downloadPromise: none, pending, or one that has settled
  phase,     \* downloadPhase
  at,        \* where ensureDownloaded is
  attempt,
  unlinking, \* an unlink of the archive nobody waits for
  zip,       \* is the archive of this platform a .zip, or a .tar.gz?
  archive,   \* archivePath
  extracted, \* BIN_DIR/extracted/BINARY_NAME, of a .tar.gz
  tmp,       \* BINARY_NAME.tmp
  installed  \* INSTALLED_BINARY_PATH

memory == <<promise, phase, attempt, unlinking>>
files == <<archive, extracted, tmp, installed>>
vars == <<memory, at, zip, files>>

\* What a file holds: there is none, it was written in part, or all of it.
Content == {"none", "part", "whole"}

TypeOK ==
  /\ promise \in {"none", "pending", "settled"}
  /\ phase \in {"idle", "downloading", "extracting", "verifying", "completed", "error"}
  /\ at \in {"idle", "latest", "fetch", "body", "delay", "extract", "unpack", "copy",
             "finish", "verify", "failed"}
  /\ attempt \in 0 .. Retries /\ unlinking \in BOOLEAN /\ zip \in BOOLEAN
  /\ archive \in Content /\ extracted \in Content
  /\ tmp \in Content /\ installed \in Content

Init ==
  /\ promise = "none" /\ phase = "idle" /\ at = "idle" /\ attempt = 0 /\ unlinking = FALSE
  /\ zip \in BOOLEAN
  /\ archive = "none" /\ extracted = "none" /\ tmp = "none"
  /\ installed \in {"none", "whole"}

(* The callers: the start of the server, the status route, and a create()   *)
(* whose binary does not exist.  A promise that has settled is returned as  *)
(* it is, which changes nothing.                                            *)
triggerBinaryDownload ==
  /\ promise = "none"
  /\ promise' = "pending" /\ phase' = "downloading" /\ at' = "latest"
  /\ UNCHANGED <<attempt, unlinking, files>>

succeeds ==
  /\ promise' = "none" /\ phase' = "completed" /\ at' = "idle"
  /\ UNCHANGED <<attempt, unlinking>>

fails ==
  /\ promise' = "settled" /\ phase' = "error" /\ at' = "idle"
  /\ UNCHANGED <<attempt, unlinking>>

downloads ==
  /\ at' = "fetch" /\ attempt' = 1
  /\ UNCHANGED <<promise, phase, unlinking>>

(* A binary that tells the latest version is used; one that was written in  *)
(* part tells none                                                          *)
latestVersionKnown ==
  /\ at = "latest"
  /\ \/ installed = "whole" /\ succeeds
     \/ downloads
  /\ UNCHANGED files

(* If nobody knows the latest version, any file that exists is used         *)
latestVersionUnknown ==
  /\ at = "latest"
  /\ IF installed # "none" THEN succeeds ELSE downloads
  /\ UNCHANGED files

(* BIN_DIR or the directory of the archive cannot be made                   *)
directoryFails ==
  /\ at = "latest"
  /\ fails
  /\ UNCHANGED files

(* The response is there: createWriteStream truncates what it finds         *)
responseStarts ==
  /\ at = "fetch"
  /\ at' = "body" /\ archive' = "part"
  /\ UNCHANGED <<memory, extracted, tmp, installed>>

(* A file that was unlinked meanwhile has no name any more                  *)
bodyEnds ==
  /\ at = "body"
  /\ archive' = IF archive = "none" THEN "none" ELSE "whole"
  /\ at' = "extract" /\ phase' = "extracting"
  /\ UNCHANGED <<promise, attempt, unlinking, extracted, tmp, installed>>

(* The catch of an attempt; the last one ends in the finally of             *)
(* ensureDownloaded                                                         *)
attemptFails ==
  /\ at \in {"fetch", "body"}
  /\ at' = IF attempt = Retries THEN "failed" ELSE "delay"
  /\ unlinking' = TRUE
  /\ UNCHANGED <<promise, phase, attempt, files>>

delayEnds ==
  /\ at = "delay"
  /\ at' = "fetch" /\ attempt' = attempt + 1
  /\ UNCHANGED <<promise, phase, unlinking, files>>

unlinks ==
  /\ unlinking
  /\ unlinking' = FALSE /\ archive' = "none"
  /\ UNCHANGED <<promise, phase, at, attempt, extracted, tmp, installed>>

(* A .zip has one entry read straight into the .tmp file; a .tar.gz is      *)
(* unpacked first.  Either opens the archive, which may have lost its name. *)
extractStarts ==
  /\ at = "extract" /\ archive = "whole"
  /\ IF zip THEN at' = "copy" /\ tmp' = "part" /\ UNCHANGED extracted
     ELSE at' = "unpack" /\ extracted' = "part" /\ UNCHANGED tmp
  /\ UNCHANGED <<memory, archive, installed>>

\* Mutant: the copy does not wait for the archive to be unpacked.
unpacked_NotAwaited ==
  /\ at = "unpack"
  /\ at' = "copy" /\ tmp' = "part"
  /\ UNCHANGED <<memory, archive, extracted, installed>>

(* tar.extract has resolved; the .tmp file is created or truncated          *)
unpacked ==
  /\ at = "unpack" /\ extracted' = "whole"
  /\ at' = "copy" /\ tmp' = "part"
  /\ UNCHANGED <<memory, archive, installed>>

(* The pipe is through: the .tmp file holds what its source held            *)
copied ==
  /\ at = "copy"
  /\ at' = "finish" /\ tmp' = IF zip THEN "whole" ELSE extracted
  /\ UNCHANGED <<memory, archive, extracted, installed>>

(* The handler of "finish": chmod and rename                                *)
renames ==
  /\ at = "finish"
  /\ installed' = tmp /\ tmp' = "none"
  /\ at' = "verify" /\ phase' = "verifying"
  /\ UNCHANGED <<promise, attempt, unlinking, archive, extracted>>

(* The archive is no archive, or the disk is full; the unlink of the .tmp   *)
(* file is not waited for, and is seen as done.  An error that has no       *)
(* handler, as in the stream of a .zip's entry, ends the server.            *)
extractionFails ==
  /\ at \in {"extract", "unpack", "copy"}
  /\ at' = "failed" /\ tmp' = IF at = "copy" THEN "none" ELSE tmp
  /\ UNCHANGED <<memory, archive, extracted, installed>>

(* verifyBinary is content with a file that exists; finally removes the     *)
(* archive                                                                  *)
verified ==
  /\ at = "verify"
  /\ succeeds
  /\ archive' = "none"
  /\ UNCHANGED <<extracted, tmp, installed>>

ensureDownloadedFails ==
  /\ at = "failed"
  /\ fails
  /\ archive' = "none"
  /\ UNCHANGED <<extracted, tmp, installed>>

serverDies ==
  /\ promise' = "none" /\ phase' = "idle" /\ at' = "idle" /\ attempt' = 0 /\ unlinking' = FALSE
  /\ UNCHANGED files

ensureDownloaded ==
  \/ latestVersionKnown \/ latestVersionUnknown \/ directoryFails
  \/ responseStarts \/ bodyEnds \/ attemptFails \/ delayEnds
  \/ extractStarts \/ unpacked \/ copied \/ renames \/ extractionFails
  \/ verified \/ ensureDownloadedFails

Next ==
  /\ triggerBinaryDownload \/ ensureDownloaded \/ unlinks \/ serverDies
  /\ UNCHANGED zip

Spec == Init /\ [][Next]_vars

-----------------------------------------------------------------------------
(* However often the server dies in a download, and whatever parts of      *)
(* files it leaves to the next one, what is found in the place of the       *)
(* binary, which nobody checks but for its existence, is all of a release   *)
(* (extractZip, extractTarGz, verifyBinary).                                *)
BinaryIsWhole == installed # "part"

=============================================================================
