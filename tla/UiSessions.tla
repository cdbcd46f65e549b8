------------------------------ MODULE UiSessions ------------------------------
(***************************************************************************)
(* What the user interface (packages/ui/src) knows of the sessions of one  *)
(* OpenCode instance and of the requests they wait for: the session map    *)
(* with its cached indicator counts (stores/session-state.ts), the queues  *)
(* of permissions and questions with their counts per session              *)
(* (stores/instances.ts), the event handlers (stores/session-events.ts),   *)
(* the calls that fetch, create and delete sessions                        *)
(* (stores/session-api.ts), and what keeps the computer awake              *)
(* (stores/wake-lock-eligibility.ts).                                      *)
(*                                                                         *)
(* Answers to calls and events of the instance reach the interface on      *)
(* different connections.  A call is a snapshot, taken when the instance   *)
(* answers, that is applied later; `chan` is the stream of events, which a *)
(* reconnect may empty.  The instance is external.                         *)
(***************************************************************************)
EXTENDS Naturals, Sequences, FiniteSets

CONSTANTS
  Session,     \* session ids
  Permission,  \* ids of permission requests
  Question,    \* ids of questions
  Owner,       \* the session a request belongs to
  Attachment,  \* hydrations started by attachClient
  MaxEvents,   \* bound on the events of the instance
  MaxOnTheWay, \* bound on those that are on their way
  MaxCalls,    \* bound on the calls under way
  None

Request == Permission \cup Question
Kind == {"permission", "question"}

ASSUME SessionAssumption ==
  /\ IsFiniteSet(Session)
  /\ IsFiniteSet(Permission)
  /\ IsFiniteSet(Question)
  /\ Permission \cap Question = {}
  /\ Owner \in [Request -> Session]
  /\ "rehydration" \notin Attachment
  /\ MaxEvents \in Nat /\ MaxOnTheWay \in Nat /\ MaxCalls \in Nat

VARIABLES
  work,       \* the instance: what each session does
  asked,      \* the instance: state of each request
  chan,       \* events on their way to the interface
  emitted,    \* how many events the instance has sent
  inst,       \* the entry of the instance in instances()
  known,      \* sessions in the session map
  status,     \* their status
  flag,       \* those with pendingPermission, with pendingQuestion
  indicator,  \* instanceIndicatorCounts
  queue,      \* permissionQueues and questionQueues
  count,      \* permissionSessionCounts and questionSessionCounts
  hydration,  \* hydrateInstanceData calls
  fetching,   \* pendingSessionFetches, with what their calls hold
  answers,    \* answers of createSession and deleteSession under way
  replies     \* answers of permission.reply and question.reply under way

external == <<work, asked, emitted>>
session == <<known, status, flag, indicator>>
request == <<queue, count>>
call == <<hydration, fetching, answers, replies>>
vars == <<external, chan, inst, session, request, call>>

Work == {"absent", "idle", "working", "compacting", "deleted"}
Status == {"idle", "working", "compacting"}
Bucket == {"permission", "working", "compacting"}
SessionEvent == {"updated", "working", "idle", "compaction", "compacted"}
Event == (SessionEvent \X Session) \cup ({"asked", "replied"} \X Request)
           \cup {<<"disposed", None>>}
Hydration == Attachment \cup {"rehydration"}
\* The await a hydration is at, and what its last answers said.
HydrationState ==
  [at : {"off", "begun", "listed", "statused", "fetched", "permission", "synced", "question"},
   list : SUBSET Session, busy : SUBSET Session, pending : SUBSET Request]
Off == [at |-> "off", list |-> {}, busy |-> {}, pending |-> {}]
\* The status that made fetchSessionInfo necessary; whether the instance has
\* answered.
Fetch == [first : Status, answered : BOOLEAN]

of(rs, k) == {r \in rs : r \in IF k = "permission" THEN Permission ELSE Question}
Owned(rs, k, s) == {r \in of(rs, k) : Owner[r] = s}
Waiting == {r \in Request : asked[r] = "pending"}

TypeOK ==
  /\ work \in [Session -> Work]
  /\ asked \in [Request -> {"unasked", "pending", "answered"}]
  /\ chan \in Seq(Event)
  /\ emitted \in 0 .. MaxEvents
  /\ inst \in {"absent", "starting", "attached", "closing"}
  /\ known \subseteq Session
  /\ status \in [Session -> Status]
  /\ flag \in [Kind -> SUBSET Session]
  /\ indicator \in [Bucket -> Nat]
  /\ queue \subseteq Request
  /\ count \in [Kind -> [Session -> Nat]]
  /\ hydration \in [Hydration -> HydrationState]
  /\ fetching \in [Session -> Fetch \cup {None}]
  /\ answers \subseteq {"created", "deleted"} \X Session
  /\ replies \subseteq Request

\* The page was just loaded; the instance may have been at work for long.
Init ==
  /\ work \in [Session -> {"absent", "idle", "working"}]
  /\ asked \in [Request -> {"unasked", "pending"}]
  /\ \A r \in Waiting : work[Owner[r]] = "working"
  /\ chan = <<>>
  /\ emitted = 0
  /\ inst = "starting"
  /\ known = {}
  /\ status = [s \in Session |-> "idle"]
  /\ flag = [k \in Kind |-> {}]
  /\ indicator = [b \in Bucket |-> 0]
  /\ queue = {}
  /\ count = [k \in Kind |-> [s \in Session |-> 0]]
  /\ hydration = [h \in Hydration |-> Off]
  /\ fetching = [s \in Session |-> None]
  /\ answers = {}
  /\ replies = {}

-----------------------------------------------------------------------------
(* The session map and its indicator counts *)

Minus(a, b) == IF a > b THEN a - b ELSE 0

bucketOf(st, fl, s) == IF \E k \in Kind : s \in fl[k] THEN "permission" ELSE st[s]

recomputed(kn, st, fl) == [b \in Bucket |-> Cardinality({s \in kn : bucketOf(st, fl, s) = b})]

\* The sessions that move from one bucket to another are taken off one count
\* and put on the other.
adjusted(st, fl) ==
  LET leave(b) == {s \in known : bucketOf(status, flag, s) = b /\ bucketOf(st, fl, s) # b}
      enter(b) == {s \in known : bucketOf(status, flag, s) # b /\ bucketOf(st, fl, s) = b}
  IN  [b \in Bucket |-> Minus(indicator[b], Cardinality(leave(b))) + Cardinality(enter(b))]

withSession(st, fl) ==
  /\ status' = st
  /\ flag' = fl
  /\ indicator' = adjusted(st, fl)
  /\ UNCHANGED known

\* Mutant: the indicator is left to the events.
setSessions_NotSynced(kn, st, fl) ==
  /\ known' = kn
  /\ status' = [s \in Session |-> IF s \in kn THEN st[s] ELSE "idle"]
  /\ flag' = [k \in Kind |-> fl[k] \cap kn]
  /\ UNCHANGED indicator

\* setSessions with the indicator synchronised; what is not in the map has
\* neither status nor flags.
setSessions(kn, st, fl) ==
  /\ known' = kn
  /\ status' = [s \in Session |-> IF s \in kn THEN st[s] ELSE "idle"]
  /\ flag' = [k \in Kind |-> fl[k] \cap kn]
  /\ indicator' = recomputed(kn, st, fl)

\* Mutant: compaction gives way to any status.
applied_Any(s, st) == [status EXCEPT ![s] = st]

applied(s, st) ==
  IF status[s] = "compacting" /\ st # "compacting" THEN status ELSE [status EXCEPT ![s] = st]

-----------------------------------------------------------------------------
(* The queues.  Their order is not modelled: it decides which request is    *)
(* shown, not which are in the queue.                                       *)

\* `gone` leaves the queues, `new` enters them, one request after the other:
\* the counts are incremented and decremented, never recounted, and a flag
\* follows its count.
requeue(gone, new) ==
  LET remaining(k, s) == Minus(count[k][s], Cardinality(Owned(gone, k, s)))
      flagged(k, s) == \/ Owned(new, k, s) # {}
                       \/ IF Owned(gone, k, s) # {} THEN remaining(k, s) > 0 ELSE s \in flag[k]
  IN  /\ queue' = (queue \ gone) \cup new
      /\ count' = [k \in Kind |-> [s \in Session |->
                     remaining(k, s) + Cardinality(Owned(new, k, s))]]
      /\ withSession(status, [k \in Kind |-> {s \in known : flagged(k, s)}])

addToQueue(rs) == requeue({}, rs \ queue)
removeFromQueue(rs) == requeue(rs \cap queue, {})

\* Mutant: the flags outlive the queues.
cleared_Kept == flag

\* clearPermissionQueue and clearQuestionQueue, up to the flags.
cleared == [k \in Kind |-> {s \in flag[k] : count[k][s] = 0}]
clearQueues == queue' = {} /\ count' = [k \in Kind |-> [s \in Session |-> 0]]

-----------------------------------------------------------------------------
(* The instance (external) *)

\* How many calls are under way.
CallsUnderWay ==
  Cardinality({h \in Hydration : hydration[h].at # "off"})
    + Cardinality({s \in Session : fetching[s] # None})
    + Cardinality(answers) + Cardinality(replies)

MayCall == CallsUnderWay < MaxCalls

emits(type, x) ==
  /\ emitted < MaxEvents
  /\ Len(chan) < MaxOnTheWay
  /\ emitted' = emitted + 1
  /\ chan' = Append(chan, <<type, x>>)

\* The process of the instance runs.
Runs == inst \in {"starting", "attached"}

Exists(s) == work[s] \notin {"absent", "deleted"}

\* A session goes from one state to the next and says so.
works(s, from, to, type) ==
  /\ Runs
  /\ work[s] = from
  /\ to = "idle" => \A r \in Waiting : Owner[r] # s
  /\ work' = [work EXCEPT ![s] = to]
  /\ emits(type, s)
  /\ UNCHANGED <<asked, inst, session, request, call>>

asks(r) ==
  /\ Runs
  /\ asked[r] = "unasked"
  /\ work[Owner[r]] = "working"
  /\ asked' = [asked EXCEPT ![r] = "pending"]
  /\ emits("asked", r)
  /\ UNCHANGED <<work, inst, session, request, call>>

\* Another client, or the reply of this one, whose answer follows.
answered(r, here) ==
  /\ asked[r] = "pending"
  /\ here => r \in queue /\ inst = "attached" /\ MayCall
  /\ asked' = [asked EXCEPT ![r] = "answered"]
  /\ emits("replied", r)
  /\ replies' = IF here THEN replies \cup {r} ELSE replies
  /\ UNCHANGED <<work, inst, session, request, hydration, fetching, answers>>

\* All work and all requests of an instance end with it.
ends ==
  /\ work' = [s \in Session |-> IF Exists(s) THEN "idle" ELSE work[s]]
  /\ asked' = [r \in Request |-> IF asked[r] = "pending" THEN "answered" ELSE asked[r]]

disposes ==
  /\ Runs
  /\ ends
  /\ emits("disposed", None)
  /\ UNCHANGED <<inst, session, request, call>>

\* A reconnect of either event stream: what was under way is lost.
streamBreaks ==
  /\ chan # <<>>
  /\ chan' = <<>>
  /\ UNCHANGED <<external, inst, session, request, call>>

-----------------------------------------------------------------------------
(* The entry of the instance *)

workspaceStarting ==
  /\ inst = "absent"
  /\ inst' = "starting"
  /\ UNCHANGED <<external, chan, session, request, call>>

\* upsertWorkspace of a ready workspace: the first time, the client is made
\* and the data is fetched.
attachClient(h) ==
  /\ inst \in {"absent", "starting"}
  /\ hydration[h].at = "off"
  /\ MayCall
  /\ inst' = "attached"
  /\ hydration' = [hydration EXCEPT ![h].at = "begun"]
  /\ UNCHANGED <<external, chan, session, request, fetching, answers, replies>>

\* The workspace is stopped: its process is gone, the entry is not yet.
workspaceEnds ==
  /\ Runs
  /\ inst' = "closing"
  /\ ends
  /\ UNCHANGED <<chan, emitted, session, request, call>>

\* On workspace.stopped, and after the answer to stopInstance.  The indicator
\* is not synchronised.
removeInstance ==
  /\ inst = "closing"
  /\ inst' = "absent"
  /\ clearQueues
  /\ indicator' = adjusted(status, cleared)
  /\ known' = {}
  /\ status' = [s \in Session |-> "idle"]
  /\ flag' = [k \in Kind |-> {}]
  /\ UNCHANGED <<external, chan, call>>

-----------------------------------------------------------------------------
(* hydrateInstanceData *)

\* The instance answers; the next await of the hydration begins.
moves(h, from, new) ==
  /\ hydration[h].at = from
  /\ hydration' = [hydration EXCEPT ![h] = new]
  /\ UNCHANGED <<fetching, answers, replies>>

asksInstance(h, from, new) ==
  /\ inst = "attached"
  /\ moves(h, from, new)
  /\ UNCHANGED <<external, chan, inst, session, request>>

listSessions(h) == asksInstance(h, "begun",
  [Off EXCEPT !.at = "listed", !.list = {s \in Session : Exists(s)}])

\* Idle sessions are left out of the answer, and all of them if it failed.
listStatus(h) == \E ok \in BOOLEAN : asksInstance(h, "listed",
  [hydration[h] EXCEPT !.at = "statused",
     !.busy = IF ok THEN {s \in Session : work[s] \in {"working", "compacting"}} ELSE {}])

\* The map is replaced by the answer; what it does not say is taken over from
\* the map, except for the flags.
fetchSessions(h) ==
  LET new == hydration[h]
      st(s) == CASE s \in known /\ status[s] = "compacting" -> "compacting"
                 [] s \in new.busy /\ ~(s \in known /\ status[s] = "compacting") -> "working"
                 [] OTHER -> IF s \in known THEN status[s] ELSE "idle"
  IN  /\ moves(h, "statused", [Off EXCEPT !.at = "fetched"])
      /\ setSessions(new.list, [s \in Session |-> st(s)], [k \in Kind |-> {}])
      /\ UNCHANGED <<external, chan, inst, request>>
    
listRequests(h, k) == asksInstance(h, IF k = "permission" THEN "fetched" ELSE "synced",
  [Off EXCEPT !.at = k, !.pending = of(Waiting, k)])

\* What the answer does not have is removed, what it has is added.
syncPending(h, k) ==
  /\ moves(h, k, IF k = "permission" THEN [Off EXCEPT !.at = "synced"] ELSE Off)
  /\ LET remote == hydration[h].pending
         local == of(queue, k)
     IN  requeue(local \ remote, remote \ queue)
  /\ UNCHANGED <<external, chan, inst>>

\* A call fails, or finds the instance removed.  A failed list of permissions
\* is passed over.
hydrationFails(h) ==
  /\ \/ \E at \in {"begun", "listed", "fetched", "synced"} : moves(h, at, Off)
     \/ moves(h, "fetched", [Off EXCEPT !.at = "synced"])
  /\ UNCHANGED <<external, chan, inst, session, request>>

-----------------------------------------------------------------------------
(* Calls about one session *)

\* The session appears at the instance; this client asked for it, or another.
createSession(s, here) ==
  /\ work[s] = "absent"
  /\ inst = "attached"
  /\ here => MayCall
  /\ work' = [work EXCEPT ![s] = "idle"]
  /\ emits("updated", s)
  /\ answers' = IF here THEN answers \cup {<<"created", s>>} ELSE answers
  /\ UNCHANGED <<asked, inst, session, request, hydration, fetching, replies>>

sessionCreated(s) ==
  /\ <<"created", s>> \in answers
  /\ answers' = answers \ {<<"created", s>>}
  /\ setSessions(known \cup {s}, [status EXCEPT ![s] = "idle"],
                 [k \in Kind |-> flag[k] \ {s}])
  /\ UNCHANGED <<external, chan, inst, request, hydration, fetching, replies>>

deleteSession(s) ==
  /\ s \in known
  /\ Exists(s)
  /\ inst = "attached"
  /\ MayCall
  /\ work' = [work EXCEPT ![s] = "deleted"]
  /\ answers' = answers \cup {<<"deleted", s>>}
  /\ UNCHANGED <<asked, emitted, chan, inst, session, request, hydration, fetching, replies>>

sessionDeleted(s) ==
  /\ <<"deleted", s>> \in answers
  /\ answers' = answers \ {<<"deleted", s>>}
  /\ setSessions(known \ {s}, status, flag)
  /\ UNCHANGED <<external, chan, inst, request, hydration, fetching, replies>>

\* session.get and session.status.
fetchAnswers(s) ==
  /\ fetching[s] # None /\ ~fetching[s].answered
  /\ Exists(s)
  /\ inst = "attached"
  /\ fetching' = [fetching EXCEPT ![s].answered = TRUE]
  /\ UNCHANGED <<external, chan, inst, session, request, hydration, answers, replies>>

\* The session enters the map with the status of the answer, to which the one
\* that started the fetch is applied at once.
fetchSessionInfo(s) ==
  /\ fetching[s] # None /\ fetching[s].answered
  /\ LET compacting == s \in known /\ status[s] = "compacting"
         last == IF compacting THEN "compacting" ELSE fetching[s].first
     IN  setSessions(known \cup {s}, [status EXCEPT ![s] = last], flag)
  /\ fetching' = [fetching EXCEPT ![s] = None]
  /\ UNCHANGED <<external, chan, inst, request, hydration, answers, replies>>

fetchFails(s) ==
  /\ fetching[s] # None /\ ~fetching[s].answered
  /\ fetching' = [fetching EXCEPT ![s] = None]
  /\ UNCHANGED <<external, chan, inst, session, request, hydration, answers, replies>>

\* sendPermissionResponse, sendQuestionReply and sendQuestionReject, answered.
replyAnswered(r) ==
  /\ r \in replies
  /\ replies' = replies \ {r}
  /\ removeFromQueue({r})
  /\ UNCHANGED <<external, chan, inst, hydration, fetching, answers>>

-----------------------------------------------------------------------------
(* Events *)

\* The next event.
receives(type, x) ==
  /\ chan # <<>>
  /\ Head(chan) = <<type, x>>
  /\ chan' = Tail(chan)
  /\ UNCHANGED <<external, inst, answers, replies>>

ensureSessionStatus(s, st) ==
  /\ withSession(IF s \in known THEN applied(s, st) ELSE status, flag)
  /\ fetching' = IF s \notin known /\ fetching[s] = None /\ inst \in {"attached", "closing"}
                   THEN [fetching EXCEPT ![s] = [first |-> st, answered |-> FALSE]]
                   ELSE fetching
  /\ UNCHANGED <<request, hydration>>

handleSessionStatus(s) ==
  \E e \in {<<"working", "working">>, <<"idle", "idle">>, <<"compaction", "compacting">>} :
    /\ receives(e[1], s)
    /\ ensureSessionStatus(s, e[2])
  
handleSessionCompacted(s) ==
  /\ receives("compacted", s)
  /\ IF s \in known
       THEN withSession([status EXCEPT ![s] = "working"], flag)
            /\ UNCHANGED <<request, fetching, hydration>>
       ELSE ensureSessionStatus(s, "working")

\* A session that is not in the map enters it idle.
handleSessionUpdate(s) ==
  /\ receives("updated", s)
  /\ setSessions(known \cup {s}, status, flag)
  /\ UNCHANGED <<request, fetching, hydration>>

handleAsked(r) ==
  /\ receives("asked", r)
  /\ addToQueue({r})
  /\ UNCHANGED <<fetching, hydration>>

handleReplied(r) ==
  /\ receives("replied", r)
  /\ removeFromQueue({r})
  /\ UNCHANGED <<fetching, hydration>>

\* rehydrateInstance, once at a time.
handleDisposed ==
  /\ receives("disposed", None)
  /\ IF inst \in {"attached", "closing"} /\ hydration["rehydration"].at = "off"
       THEN /\ clearQueues
            /\ withSession(status, cleared)
            /\ hydration' = [hydration EXCEPT !["rehydration"].at = "begun"]
       ELSE UNCHANGED <<session, request, hydration>>
  /\ UNCHANGED fetching

-----------------------------------------------------------------------------
InstanceStep ==
  \/ \E s \in Session : \/ works(s, "idle", "working", "working")
                        \/ works(s, "working", "idle", "idle")
                        \/ works(s, "working", "compacting", "compaction")
                        \/ works(s, "compacting", "working", "compacted")
  \/ \E r \in Request : asks(r) \/ \E here \in BOOLEAN : answered(r, here)
  \/ disposes
  \/ streamBreaks

HydrationStep(h) ==
  \/ listSessions(h) \/ listStatus(h) \/ fetchSessions(h)
  \/ \E k \in Kind : listRequests(h, k) \/ syncPending(h, k)
  \/ hydrationFails(h)

SessionCall(s) ==
  \/ \E here \in BOOLEAN : createSession(s, here)
  \/ sessionCreated(s) \/ deleteSession(s) \/ sessionDeleted(s)
  \/ fetchAnswers(s) \/ fetchSessionInfo(s) \/ fetchFails(s)

EventStep ==
  \/ \E s \in Session : handleSessionStatus(s) \/ handleSessionCompacted(s) \/ handleSessionUpdate(s)
  \/ \E r \in Request : handleAsked(r) \/ handleReplied(r)
  \/ handleDisposed

Next ==
  \/ InstanceStep
  \/ workspaceStarting \/ (\E h \in Attachment : attachClient(h)) \/ workspaceEnds \/ removeInstance
  \/ \E h \in Hydration : HydrationStep(h)
  \/ \E s \in Session : SessionCall(s)
  \/ \E r \in Request : replyAnswered(r)
  \/ EventStep

Spec == Init /\ [][Next]_vars

-----------------------------------------------------------------------------
(* Properties *)

\* The counts per session, kept by increments and decrements through events,
\* synchronisations, replies and clears, are those of the queues.
CountsMatchQueue ==
  \A k \in Kind, s \in Session : count[k][s] = Cardinality(Owned(queue, k, s))

\* A session is never said to wait for the user when none of its requests is
\* in the queue: it would offer nothing to answer, and never leave that state.
FlagMeansQueued ==
  \A k \in Kind : \A s \in flag[k] : Owned(queue, k, s) # {}

\* The cached counts behind the tab's indicator are those of the session map,
\* as long as there is one.
IndicatorExact == known # {} => indicator = recomputed(known, status, flag)

\* Compaction is not ended by a late answer or by a status of the work it
\* interrupts, only by its own event, or with the session's entry.
CompactionIsKept ==
  [][\A s \in known \cap known' :
       status[s] = "compacting" /\ status'[s] # "compacting" =>
         \/ chan # <<>> /\ Head(chan) = <<"compacted", s>>
         \/ <<"created", s>> \in answers]_vars

\* hasWakeLockEligibleWork, for which the computer is kept awake.
wakeLockEligible(s) ==
  /\ s \in known
  /\ status[s] \in {"working", "compacting"}
  /\ \A k \in Kind : s \notin flag[k]

Quiet ==
  /\ chan = <<>>
  /\ \A h \in Hydration : hydration[h].at = "off"
  /\ \A s \in Session : fetching[s] = None
  /\ answers = {} /\ replies = {}

\* With all events and answers applied, no session keeps the computer awake
\* while a request of it is in the queue.
WaitingHoldsNoLock ==
  Quiet /\ inst # "absent" =>
    \A s \in Session : wakeLockEligible(s) => \A k \in Kind : Owned(queue, k, s) = {}

=============================================================================
