----------------------------- MODULE MCSmallParts -----------------------------
(***************************************************************************)
(* UpdateRollback, ConversationSpeech, RemoteProxy, BinaryDownload,        *)
(* Sidecars and WorktreeMap share no state and are checked in one run:     *)
(* `moves` says which of them moves in a behaviour; the others stay in     *)
(* their first state.                                                      *)
(***************************************************************************)
EXTENDS UpdateRollback, FiniteSets

CONSTANTS
  \* ConversationSpeech
  Instance, Session, Part, instanceOf, sessionOf,
  \* RemoteProxy
  ProxySession, Sweep,
  \* BinaryDownload
  Retries,
  \* Sidecars
  Id, MaxProbes,
  \* WorktreeMap
  Client, ParentSession, Slug, Root, MaxTasks, Overlap, GitMayFail,
  None

ASSUME PartsAssumption ==
  /\ instanceOf \in [Session -> Instance]
  /\ sessionOf \in [Part -> Session]
  /\ IsFiniteSet(ProxySession)
  /\ None \notin Part \cup ProxySession
  /\ Retries \in Nat \ {0} /\ MaxProbes \in Nat \ {0} /\ MaxTasks \in Nat
  /\ Root \notin Slug /\ None \notin Slug \cup {Root} \cup 1 .. MaxTasks
  /\ \A places \in SUBSET (Slug \cup {Root}) : None # places
  /\ \A map \in [ParentSession -> Slug \cup {Root, None}] : None # map
  /\ Overlap \in BOOLEAN /\ GitMayFail \in BOOLEAN

(* Conversation mode: two instances, one shows either of two sessions, the  *)
(* other has one.                                                           *)
CONSTANTS i1, i2, s1, s2, s3, p1, p2, p3, p4

MCInstanceOf == [s \in {s1, s2, s3} |-> IF s = s3 THEN i2 ELSE i1]
MCSessionOf ==
  [p \in {p1, p2, p3, p4} |-> CASE p \in {p1, p2} -> s1 [] p = p3 -> s2 [] p = p4 -> s3]

VARIABLES
  moves,
  mode, updates, shown, queue, queuedKeys, spoken, runnerPhase, entry, current, sounding, heard,
  listener, sessions, activated, recent, busy, sweeps,
  promise, downloadPhase, at, attempt, unlinking, zip, archive, extracted, tmp, binary,
  configs, runtime, probes, file, told,
  worktrees, mapFile, tmpFile, inode, task, list, copy, chosen

Speech == INSTANCE ConversationSpeech WITH phase <- runnerPhase
Proxy == INSTANCE RemoteProxy WITH Session <- ProxySession
Download == INSTANCE BinaryDownload WITH phase <- downloadPhase, installed <- binary
Sidecar == INSTANCE Sidecars WITH heard <- told
Worktree == INSTANCE WorktreeMap WITH Session <- ParentSession

speechVars ==
  <<mode, updates, shown, queue, queuedKeys, spoken, runnerPhase, entry, current, sounding, heard>>
proxyVars == <<listener, sessions, activated, recent, busy, sweeps>>
downloadVars ==
  <<promise, downloadPhase, at, attempt, unlinking, zip, archive, extracted, tmp, binary>>
sidecarVars == <<configs, runtime, probes, file, told>>
worktreeVars == <<worktrees, mapFile, tmpFile, inode, task, list, copy, chosen>>
partsVars ==
  <<moves, vars, speechVars, proxyVars, downloadVars, sidecarVars, worktreeVars>>

(* The first state of a part that does not move is chosen once.             *)
PartsInit ==
  /\ moves \in {"update", "speech", "proxy", "download", "sidecars", "worktrees"}
  /\ Init
  /\ Speech!Init /\ (moves # "speech" => shown = CHOOSE s \in Session : TRUE)
  /\ Proxy!Init
  /\ Download!Init /\ (moves # "download" => ~zip /\ binary = "none")
  /\ Sidecar!Init /\ (moves # "sidecars" => file = {})
  /\ Worktree!Init /\ (moves # "worktrees" => worktrees = {})

PartsNext ==
  /\ \/ /\ moves = "update" /\ Next
        /\ UNCHANGED <<speechVars, proxyVars, downloadVars, sidecarVars, worktreeVars>>
     \/ /\ moves = "speech" /\ Speech!Next
        /\ UNCHANGED <<vars, proxyVars, downloadVars, sidecarVars, worktreeVars>>
     \/ /\ moves = "proxy" /\ Proxy!Next
        /\ UNCHANGED <<vars, speechVars, downloadVars, sidecarVars, worktreeVars>>
     \/ /\ moves = "download" /\ Download!Next
        /\ UNCHANGED <<vars, speechVars, proxyVars, sidecarVars, worktreeVars>>
     \/ /\ moves = "sidecars" /\ Sidecar!Next
        /\ UNCHANGED <<vars, speechVars, proxyVars, downloadVars, worktreeVars>>
     \/ /\ moves = "worktrees" /\ Worktree!Next
        /\ UNCHANGED <<vars, speechVars, proxyVars, downloadVars, sidecarVars>>
  /\ UNCHANGED moves

(* In the first state of the proxy nothing fair is enabled, so this asks    *)
(* nothing of a behaviour of another part.                                  *)
PartsSpec == PartsInit /\ [][PartsNext]_partsVars /\ Proxy!Fairness

-----------------------------------------------------------------------------
(* What waits to be spoken may be spoken (ConversationSpeech).              *)
QueueMayBeSpoken == Speech!QueueMayBeSpoken

(* What sounds is one part, and can be stopped (ConversationSpeech).        *)
AudibleCanBeStopped == Speech!AudibleCanBeStopped

(* No part is heard twice (ConversationSpeech).                             *)
HeardOnce == Speech!HeardOnce

(* A sweep closes no session that is in use (RemoteProxy).                  *)
InUseIsKept == Proxy!InUseIsKept

(* An idle session is closed in the end (RemoteProxy).                      *)
IdleIsDisposed == Proxy!IdleIsDisposed

(* No part of a binary is ever found in its place (BinaryDownload).         *)
BinaryIsWhole == Download!BinaryIsWhole

(* The events tell what the server takes for the status of every sidecar    *)
(* (Sidecars).                                                              *)
HeardStatusIsTrue == Sidecar!HeardStatusIsTrue

(* A session stays in the worktree that was chosen for it (WorktreeMap).    *)
ChoiceIsKept == Worktree!ChoiceIsKept

=============================================================================
