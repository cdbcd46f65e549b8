-------------------------- MODULE UiSessions_proofs --------------------------
(***************************************************************************)
(* Theorems about UiSessions, for any finite sets of sessions and requests *)
(* and any number of hydrations, events and calls under way: every cached  *)
(* count is the one it stands for, and no flag outlives its request.       *)
(***************************************************************************)
EXTENDS UiSessions, TLAPS, FiniteSetTheorems, SequenceTheorems

(* The type invariant in four parts. *)

ExternalType ==
  /\ work \in [Session -> Work]
  /\ asked \in [Request -> {"unasked", "pending", "answered"}]
  /\ chan \in Seq(Event)
  /\ emitted \in 0 .. MaxEvents
  /\ inst \in {"absent", "starting", "attached", "closing"}

SessionType ==
  /\ known \subseteq Session
  /\ status \in [Session -> Status]
  /\ flag \in [Kind -> SUBSET Session]
  /\ indicator \in [Bucket -> Nat]

RequestType ==
  /\ queue \subseteq Request
  /\ count \in [Kind -> [Session -> Nat]]

CallType ==
  /\ hydration \in [Hydration -> HydrationState]
  /\ fetching \in [Session -> Fetch \cup {None}]
  /\ answers \subseteq {"created", "deleted"} \X Session
  /\ replies \subseteq Request

(* The inductive invariant.  The sessions' half follows the map, the        *)
(* requests' half the queues; FlagMeansQueued joins them.                   *)

SessionInv == SessionType /\ IndicatorExact
RequestInv == RequestType /\ CountsMatchQueue
Inv == ExternalType /\ CallType /\ SessionInv /\ RequestInv /\ FlagMeansQueued

-----------------------------------------------------------------------------
(* Cardinalities *)

\* Sets of sessions and of requests of one session are finite.
LEMMA Finite ==
  /\ \A S \in SUBSET Session : IsFiniteSet(S) /\ Cardinality(S) \in Nat
  /\ \A R \in SUBSET Request : IsFiniteSet(R) /\ Cardinality(R) \in Nat
<1>1. IsFiniteSet(Request)
  BY SessionAssumption, FS_Union DEF Request
<1>2. QED
  BY <1>1, SessionAssumption, FS_Subset, FS_CardinalityType

\* Elements that leave and elements that enter a finite set change its
\* cardinality by their numbers.
LEMMA Exchange ==
  ASSUME NEW A, NEW Out, NEW In, IsFiniteSet(A), IsFiniteSet(In),
         Out \subseteq A, (A \ Out) \cap In = {}
  PROVE  /\ Cardinality((A \ Out) \cup In)
              = Minus(Cardinality(A), Cardinality(Out)) + Cardinality(In)
         /\ Minus(Cardinality(A), Cardinality(Out)) \in Nat
         /\ Minus(Cardinality(A), Cardinality(Out)) = Cardinality(A \ Out)
<1>1. /\ IsFiniteSet(Out) /\ IsFiniteSet(A \ Out)
      /\ Cardinality(Out) <= Cardinality(A)
  BY FS_Subset
<1>2. /\ Cardinality(A) \in Nat /\ Cardinality(Out) \in Nat /\ Cardinality(In) \in Nat
      /\ Cardinality(A \ Out) \in Nat
  BY <1>1, FS_CardinalityType
<1>3. Cardinality(A \ Out) = Cardinality(A) - Cardinality(Out)
  <2>1. A \cap Out = Out
    OBVIOUS
  <2>2. Cardinality(A \ Out) = Cardinality(A) - Cardinality(A \cap Out)
    BY <1>1, FS_Difference
  <2>3. QED
    BY <2>1, <2>2
<1>4. Cardinality((A \ Out) \cup In) = Cardinality(A \ Out) + Cardinality(In)
  <2>1. Cardinality((A \ Out) \cap In) = 0
    BY FS_EmptySet
  <2>2. Cardinality((A \ Out) \cup In)
          = Cardinality(A \ Out) + Cardinality(In) - Cardinality((A \ Out) \cap In)
    BY <1>1, FS_Union
  <2>3. QED
    BY <1>2, <2>1, <2>2
<1>5. QED
  BY <1>1, <1>2, <1>3, <1>4 DEF Minus

-----------------------------------------------------------------------------
(* The session map *)

\* The counts of a map are natural numbers.
LEMMA RecomputedType ==
  ASSUME NEW kn \in SUBSET Session, NEW st, NEW fl
  PROVE  recomputed(kn, st, fl) \in [Bucket -> Nat]
<1>1. \A b \in Bucket : {s \in kn : bucketOf(st, fl, s) = b} \in SUBSET Session
  OBVIOUS
<1>2. QED
  BY <1>1, Finite DEF recomputed

\* Adjusting exact counts gives exact counts.
LEMMA AdjustedExact ==
  ASSUME SessionType, NEW st, NEW fl, indicator = recomputed(known, status, flag)
  PROVE  adjusted(st, fl) = recomputed(known, st, fl)
<1>1. ASSUME NEW b \in Bucket
      PROVE  adjusted(st, fl)[b] = recomputed(known, st, fl)[b]
  <2> DEFINE A == {s \in known : bucketOf(status, flag, s) = b}
             Out == {s \in known : bucketOf(status, flag, s) = b /\ bucketOf(st, fl, s) # b}
             In == {s \in known : bucketOf(status, flag, s) # b /\ bucketOf(st, fl, s) = b}
             After == {s \in known : bucketOf(st, fl, s) = b}
  <2>1. /\ A \in SUBSET Session /\ In \in SUBSET Session
        /\ Out \subseteq A /\ (A \ Out) \cap In = {}
        /\ After = (A \ Out) \cup In
    BY DEF SessionType
  <2>2. /\ indicator[b] = Cardinality(A)
        /\ adjusted(st, fl)[b] = Minus(indicator[b], Cardinality(Out)) + Cardinality(In)
        /\ recomputed(known, st, fl)[b] = Cardinality(After)
    BY DEF recomputed, adjusted
  <2> HIDE DEF A, Out, In, After
  <2>3. IsFiniteSet(A) /\ IsFiniteSet(In)
    BY <2>1, Finite
  <2>4. /\ Cardinality((A \ Out) \cup In) = Minus(Cardinality(A), Cardinality(Out)) + Cardinality(In)
        /\ Minus(Cardinality(A), Cardinality(Out)) \in Nat
        /\ Minus(Cardinality(A), Cardinality(Out)) = Cardinality(A \ Out)
    BY <2>1, <2>3, Exchange, Zenon
  <2>5. QED
    BY <2>1, <2>2, <2>4
<1>2. QED
  BY <1>1 DEF adjusted, recomputed

\* Adjusted counts are natural numbers, even if they were wrong.
LEMMA AdjustedType ==
  ASSUME SessionType, NEW st, NEW fl
  PROVE  adjusted(st, fl) \in [Bucket -> Nat]
<1> DEFINE leave(b) == {s \in known : bucketOf(status, flag, s) = b /\ bucketOf(st, fl, s) # b}
           enter(b) == {s \in known : bucketOf(status, flag, s) # b /\ bucketOf(st, fl, s) = b}
<1>1. \A b \in Bucket : leave(b) \in SUBSET Session /\ enter(b) \in SUBSET Session
  BY DEF SessionType
<1>2. \A b \in Bucket : Cardinality(leave(b)) \in Nat /\ Cardinality(enter(b)) \in Nat
  <2> HIDE DEF leave, enter
  <2> QED BY <1>1, Finite
<1>3. \A b \in Bucket : indicator[b] \in Nat
  BY DEF SessionType
<1>4. \A b \in Bucket :
        Minus(indicator[b], Cardinality(leave(b))) + Cardinality(enter(b)) \in Nat
  <2> HIDE DEF leave, enter
  <2> QED BY <1>2, <1>3 DEF Minus
<1>5. QED
  BY <1>4 DEF adjusted

\* Changes of statuses and flags keep the indicator exact.
LEMMA WithSession ==
  ASSUME SessionInv, NEW st \in [Session -> Status], NEW fl \in [Kind -> SUBSET Session],
         withSession(st, fl)
  PROVE  SessionInv'
<1>1. SessionType'
  BY AdjustedType DEF SessionInv, SessionType, withSession
<1>2. IndicatorExact'
  <2> SUFFICES ASSUME known # {} PROVE indicator' = recomputed(known, st, fl)
    BY DEF IndicatorExact, withSession, recomputed, bucketOf
  <2>1. indicator = recomputed(known, status, flag)
    BY DEF SessionInv, IndicatorExact
  <2>2. QED
    BY <2>1, AdjustedExact DEF SessionInv, withSession
<1>3. QED
  BY <1>1, <1>2 DEF SessionInv

\* So does the replacement of the map.
LEMMA SetSessions ==
  ASSUME SessionInv, NEW kn \in SUBSET Session,
         NEW st, \A s \in kn : st[s] \in Status,
         NEW fl \in [Kind -> SUBSET Session],
         setSessions(kn, st, fl)
  PROVE  SessionInv'
<1>1. SessionType'
  <2>1. \A s \in Session : (IF s \in kn THEN st[s] ELSE "idle") \in Status
    BY DEF Status
  <2>2. QED
    BY <2>1, RecomputedType DEF SessionType, setSessions
<1>2. \A s \in kn : bucketOf(status', flag', s) = bucketOf(st, fl, s)
  BY DEF bucketOf, setSessions, Kind
<1>3. recomputed(kn, st, fl) = recomputed(kn, status', flag')
  BY <1>2 DEF recomputed
<1>4. QED
  BY <1>1, <1>3 DEF SessionInv, IndicatorExact, setSessions

\* Flags that are only taken away stay true.
LEMMA FlagsShrink ==
  ASSUME FlagMeansQueued, queue' = queue, \A k \in Kind : flag'[k] \subseteq flag[k]
  PROVE  FlagMeansQueued'
BY DEF FlagMeansQueued, Owned, of

-----------------------------------------------------------------------------
(* The queues *)

\* What leaves the queues was in them, and what enters was not: then counts
\* and flags follow the queues.
LEMMA Requeue ==
  ASSUME SessionInv, RequestInv, FlagMeansQueued,
         NEW gone \in SUBSET queue, NEW new \in SUBSET (Request \ queue),
         requeue(gone, new)
  PROVE  SessionInv' /\ RequestInv' /\ FlagMeansQueued'
<1> DEFINE remaining(k, s) == Minus(count[k][s], Cardinality(Owned(gone, k, s)))
           flagged(k, s) == \/ Owned(new, k, s) # {}
                            \/ IF Owned(gone, k, s) # {} THEN remaining(k, s) > 0 ELSE s \in flag[k]
<1>1. ASSUME NEW k \in Kind, NEW s \in Session
      PROVE  /\ remaining(k, s) \in Nat
             /\ remaining(k, s) = Cardinality(Owned(queue \ gone, k, s))
             /\ remaining(k, s) + Cardinality(Owned(new, k, s)) \in Nat
             /\ remaining(k, s) + Cardinality(Owned(new, k, s)) = Cardinality(Owned(queue', k, s))
  <2> DEFINE A == Owned(queue, k, s)
             Out == Owned(gone, k, s)
             In == Owned(new, k, s)
  <2>1. /\ A \in SUBSET Request /\ In \in SUBSET Request
        /\ Out \subseteq A /\ (A \ Out) \cap In = {}
    BY DEF RequestInv, RequestType, Owned, of
  <2>2. /\ Owned(queue \ gone, k, s) = A \ Out
        /\ Owned(queue', k, s) = (A \ Out) \cup In
    BY DEF requeue, Owned, of
  <2>3. count[k][s] = Cardinality(A)
    BY DEF RequestInv, CountsMatchQueue
  <2>4. IsFiniteSet(A) /\ IsFiniteSet(In) /\ Cardinality(In) \in Nat
    BY <2>1, Finite
  <2> HIDE DEF A, Out, In
  <2>5. /\ Cardinality((A \ Out) \cup In) = Minus(Cardinality(A), Cardinality(Out)) + Cardinality(In)
        /\ Minus(Cardinality(A), Cardinality(Out)) \in Nat
        /\ Minus(Cardinality(A), Cardinality(Out)) = Cardinality(A \ Out)
    BY <2>1, <2>4, Exchange
  <2>6. remaining(k, s) = Minus(Cardinality(A), Cardinality(Out))
    BY <2>3 DEF Out
  <2>7. /\ Cardinality(Owned(new, k, s)) = Cardinality(In)
        /\ Cardinality(Owned(queue', k, s)) = Cardinality((A \ Out) \cup In)
        /\ Cardinality(Owned(queue \ gone, k, s)) = Cardinality(A \ Out)
    BY <2>2 DEF In
  <2> HIDE DEF remaining
  <2>8. QED
    BY <2>4, <2>5, <2>6, <2>7
<1>2. RequestInv'
  <2>1. RequestType'
    <3>1. queue' \subseteq Request
      BY DEF requeue, RequestInv, RequestType
    <3>2. count' = [k \in Kind |-> [s \in Session |-> remaining(k, s) + Cardinality(Owned(new, k, s))]]
      BY DEF requeue
    <3> HIDE DEF remaining
    <3>3. QED
      BY <1>1, <3>1, <3>2 DEF RequestType
  <2>2. CountsMatchQueue'
    <3>1. \A k \in Kind, s \in Session :
            count'[k][s] = remaining(k, s) + Cardinality(Owned(new, k, s))
      BY DEF requeue
    <3> HIDE DEF remaining
    <3>2. QED
      BY <1>1, <3>1 DEF CountsMatchQueue, Owned, of
  <2>3. QED
    BY <2>1, <2>2 DEF RequestInv
<1>3. /\ withSession(status, [k \in Kind |-> {s \in known : flagged(k, s)}])
      /\ queue' = (queue \ gone) \cup new
  BY DEF requeue
<1>4. SessionInv'
  <2>1. [k \in Kind |-> {s \in known : flagged(k, s)}] \in [Kind -> SUBSET Session]
    BY DEF SessionInv, SessionType
  <2>2. status \in [Session -> Status]
    BY DEF SessionInv, SessionType
  <2> HIDE DEF flagged
  <2>3. QED
    BY <1>3, <2>1, <2>2, WithSession
<1>5. ASSUME NEW k \in Kind, NEW s \in flag'[k]
      PROVE  Owned(queue', k, s) # {}
  <2>1. s \in known /\ flagged(k, s)
    BY <1>3 DEF withSession
  <2>2. s \in Session
    BY <2>1 DEF SessionInv, SessionType
  <2>3. /\ Owned(new, k, s) \subseteq Owned(queue', k, s)
        /\ Owned(queue \ gone, k, s) \subseteq Owned(queue', k, s)
    BY <1>3 DEF Owned, of
  <2>4. CASE Owned(new, k, s) # {}
    BY <2>3, <2>4
  <2>5. CASE Owned(gone, k, s) # {} /\ remaining(k, s) > 0
    <3> HIDE DEF remaining
    <3>1. remaining(k, s) = Cardinality(Owned(queue \ gone, k, s))
      BY <1>1, <2>2, Zenon
    <3>2. Cardinality(Owned(queue \ gone, k, s)) > 0
      BY <2>5, <3>1, Zenon
    <3>3. Cardinality(Owned(queue \ gone, k, s)) # 0
      BY <3>2
    <3>4. Owned(queue \ gone, k, s) # {}
      BY <3>3, FS_EmptySet
    <3>5. QED
      BY <2>3, <3>4
  <2>6. CASE Owned(gone, k, s) = {} /\ s \in flag[k]
    <3>1. Owned(queue, k, s) # {}
      BY <2>6 DEF FlagMeansQueued
    <3>2. Owned(queue \ gone, k, s) = Owned(queue, k, s)
      BY <2>6 DEF Owned, of
    <3>3. QED
      BY <2>3, <3>1, <3>2
  <2>7. QED
    BY <2>1, <2>4, <2>5, <2>6
<1>6. FlagMeansQueued'
  BY <1>5 DEF FlagMeansQueued, Owned, of
<1>7. QED
  BY <1>2, <1>4, <1>6

\* With exact counts and flags, clearing the queues takes every flag away.
LEMMA Clear ==
  ASSUME SessionInv, RequestInv, FlagMeansQueued, clearQueues
  PROVE  /\ RequestInv'
         /\ cleared \in [Kind -> SUBSET Session]
         /\ \A k \in Kind : cleared[k] = {}
<1>1. \A k \in Kind, s \in Session : Owned({}, k, s) = {}
  BY DEF Owned, of
<1>2. RequestInv'
  <2>1. RequestType'
    BY DEF clearQueues, RequestType
  <2>2. CountsMatchQueue'
    BY <1>1, FS_EmptySet DEF clearQueues, CountsMatchQueue, Owned, of
  <2>3. QED
    BY <2>1, <2>2 DEF RequestInv
<1>3. ASSUME NEW k \in Kind, NEW s \in flag[k]
      PROVE  count[k][s] # 0
  <2>1. s \in Session
    BY DEF SessionInv, SessionType
  <2>2. Owned(queue, k, s) # {} /\ Owned(queue, k, s) \in SUBSET Request
    BY DEF FlagMeansQueued, RequestInv, RequestType, Owned, of
  <2>3. Cardinality(Owned(queue, k, s)) # 0
    BY <2>2, Finite, FS_EmptySet
  <2>4. QED
    BY <2>1, <2>3 DEF RequestInv, CountsMatchQueue
<1>4. \A k \in Kind : cleared[k] = {}
  BY <1>3 DEF cleared
<1>5. QED
  BY <1>2, <1>4 DEF cleared

-----------------------------------------------------------------------------
(* The instance and the stream of events *)

\* An event that is sent goes to the end of the stream.
LEMMA Emits ==
  ASSUME ExternalType, NEW type, NEW x, <<type, x>> \in Event, emits(type, x)
  PROVE  chan' \in Seq(Event) /\ emitted' \in 0 .. MaxEvents
<1>1. chan' \in Seq(Event)
  BY AppendProperties DEF ExternalType, emits
<1>2. emitted' \in 0 .. MaxEvents
  BY SessionAssumption DEF ExternalType, emits
<1>3. QED
  BY <1>1, <1>2

\* An event that is received leaves the others.
LEMMA Receives ==
  ASSUME ExternalType, NEW type, NEW x, receives(type, x)
  PROVE  ExternalType' /\ UNCHANGED <<answers, replies>>
<1>1. chan' \in Seq(Event)
  BY HeadTailProperties DEF ExternalType, receives
<1>2. QED
  BY <1>1 DEF ExternalType, receives, external

\* The events that the instance sends are events.
LEMMA Events ==
  /\ \A e \in SessionEvent, s \in Session : <<e, s>> \in Event
  /\ \A e \in {"asked", "replied"}, r \in Request : <<e, r>> \in Event
  /\ <<"disposed", None>> \in Event
BY DEF Event

\* Every step keeps the types of the instance, its stream and its entry.
LEMMA ExternalStep ==
  ASSUME ExternalType, [Next]_vars
  PROVE  ExternalType'
<1> USE DEF external
<1>1. ASSUME NEW s \in Session, NEW from \in Work, NEW to \in Work,
             NEW type \in SessionEvent, works(s, from, to, type)
      PROVE  ExternalType'
  <2>1. chan' \in Seq(Event) /\ emitted' \in 0 .. MaxEvents
    BY <1>1, Events, Emits DEF works
  <2>2. QED
    BY <1>1, <2>1 DEF works, ExternalType
<1>2. ASSUME NEW r \in Request, asks(r)
      PROVE  ExternalType'
  <2>1. chan' \in Seq(Event) /\ emitted' \in 0 .. MaxEvents
    BY <1>2, Events, Emits DEF asks
  <2>2. QED
    BY <1>2, <2>1 DEF asks, ExternalType
<1>3. ASSUME NEW r \in Request, NEW here \in BOOLEAN, answered(r, here)
      PROVE  ExternalType'
  <2>1. chan' \in Seq(Event) /\ emitted' \in 0 .. MaxEvents
    BY <1>3, Events, Emits DEF answered
  <2>2. QED
    BY <1>3, <2>1 DEF answered, ExternalType
<1>4. ASSUME ends
      PROVE  /\ work' \in [Session -> Work]
             /\ asked' \in [Request -> {"unasked", "pending", "answered"}]
  BY <1>4 DEF ends, ExternalType, Work
<1>5. ASSUME disposes
      PROVE  ExternalType'
  <2>1. chan' \in Seq(Event) /\ emitted' \in 0 .. MaxEvents
    BY <1>5, Events, Emits DEF disposes
  <2>2. QED
    BY <1>4, <1>5, <2>1 DEF disposes, ExternalType
<1>6. ASSUME streamBreaks
      PROVE  ExternalType'
  BY <1>6, EmptySeq DEF streamBreaks, ExternalType
<1>7. ASSUME workspaceStarting
      PROVE  ExternalType'
  BY <1>7 DEF workspaceStarting, ExternalType
<1>8. ASSUME NEW h \in Attachment, attachClient(h)
      PROVE  ExternalType'
  BY <1>8 DEF attachClient, ExternalType
<1>9. ASSUME workspaceEnds
      PROVE  ExternalType'
  BY <1>4, <1>9 DEF workspaceEnds, ExternalType
<1>10. ASSUME removeInstance
       PROVE  ExternalType'
  BY <1>10 DEF removeInstance, ExternalType
<1>11. ASSUME NEW h \in Hydration, HydrationStep(h)
       PROVE  ExternalType'
  BY <1>11 DEF HydrationStep, listSessions, listStatus, fetchSessions, listRequests,
     syncPending, hydrationFails, asksInstance, ExternalType
<1>12. ASSUME NEW s \in Session, NEW here \in BOOLEAN, createSession(s, here)
       PROVE  ExternalType'
  <2>1. chan' \in Seq(Event) /\ emitted' \in 0 .. MaxEvents
    BY <1>12, Events, Emits DEF createSession, SessionEvent
  <2>2. QED
    BY <1>12, <2>1 DEF createSession, ExternalType, Work
<1>13. ASSUME NEW s \in Session, deleteSession(s)
       PROVE  ExternalType'
  BY <1>13 DEF deleteSession, ExternalType, Work
<1>14. ASSUME NEW s \in Session,
              \/ sessionCreated(s) \/ sessionDeleted(s)
              \/ fetchAnswers(s) \/ fetchSessionInfo(s) \/ fetchFails(s)
       PROVE  ExternalType'
  BY <1>14 DEF sessionCreated, sessionDeleted, fetchAnswers, fetchSessionInfo, fetchFails, ExternalType
<1>15. ASSUME NEW r \in Request, replyAnswered(r)
       PROVE  ExternalType'
  BY <1>15 DEF replyAnswered, ExternalType
<1>16. ASSUME EventStep
       PROVE  ExternalType'
  BY <1>16, Receives DEF EventStep, handleSessionStatus, handleSessionCompacted,
     handleSessionUpdate, handleAsked, handleReplied, handleDisposed
<1>17. ASSUME UNCHANGED vars
       PROVE  ExternalType'
  BY <1>17 DEF vars, ExternalType
<1>18. ASSUME InstanceStep
       PROVE  ExternalType'
  BY <1>1, <1>2, <1>3, <1>5, <1>6, <1>18 DEF InstanceStep, Work, SessionEvent
<1>19. ASSUME NEW s \in Session, SessionCall(s)
       PROVE  ExternalType'
  BY <1>12, <1>13, <1>14, <1>19 DEF SessionCall
<1>20. QED
  BY <1>7, <1>8, <1>9, <1>10, <1>11, <1>15, <1>16, <1>17, <1>18, <1>19 DEF Next

-----------------------------------------------------------------------------
(* The calls under way *)

\* A hydration moves from one await to the next.
LEMMA Moves ==
  ASSUME CallType, NEW h \in Hydration, NEW from, NEW new \in HydrationState, moves(h, from, new)
  PROVE  CallType'
BY DEF moves, CallType

\* The states a hydration begins from, and those without lists.
LEMMA HydrationStates ==
  /\ Off \in HydrationState
  /\ \A x \in HydrationState, at \in {"begun", "listed", "statused", "fetched", "permission", "synced", "question"} :
       [x EXCEPT !.at = at] \in HydrationState
BY DEF Off, HydrationState

\* Every step of a hydration keeps the types of the calls.
LEMMA HydrationCalls ==
  ASSUME CallType, NEW h \in Hydration, HydrationStep(h)
  PROVE  CallType'
<1> DEFINE sessions == {s \in Session : Exists(s)}
           waiting(k) == of(Waiting, k)
<1>0. /\ hydration[h] \in HydrationState
      /\ sessions \in SUBSET Session
      /\ \A k : waiting(k) \in SUBSET Request
  BY DEF CallType, of, Waiting
<1>1. ASSUME listSessions(h)
      PROVE  CallType'
  <2>1. [Off EXCEPT !.at = "listed", !.list = sessions] \in HydrationState
    BY <1>0 DEF Off, HydrationState
  <2>2. QED
    BY <1>1, <2>1, Moves DEF listSessions, asksInstance
<1>2. ASSUME listStatus(h)
      PROVE  CallType'
  <2> DEFINE busy(ok) == IF ok THEN {s \in Session : work[s] \in {"working", "compacting"}} ELSE {}
  <2>1. \A ok \in BOOLEAN :
          [hydration[h] EXCEPT !.at = "statused", !.busy = busy(ok)] \in HydrationState
    BY <1>0 DEF HydrationState
  <2>2. QED
    BY <1>2, <2>1, Moves DEF listStatus, asksInstance
<1>3. ASSUME fetchSessions(h)
      PROVE  CallType'
  <2>1. [Off EXCEPT !.at = "fetched"] \in HydrationState
    BY HydrationStates
  <2>2. moves(h, "statused", [Off EXCEPT !.at = "fetched"])
    BY <1>3 DEF fetchSessions
  <2>3. QED
    BY <2>1, <2>2, Moves
<1>4. ASSUME NEW k \in Kind, listRequests(h, k)
      PROVE  CallType'
  <2>1. [Off EXCEPT !.at = k, !.pending = waiting(k)] \in HydrationState
    BY <1>0 DEF Off, HydrationState, Kind
  <2>2. QED
    BY <1>4, <2>1, Moves DEF listRequests, asksInstance
<1>5. ASSUME NEW k \in Kind, syncPending(h, k)
      PROVE  CallType'
  <2>1. (IF k = "permission" THEN [Off EXCEPT !.at = "synced"] ELSE Off) \in HydrationState
    BY HydrationStates
  <2>2. moves(h, k, IF k = "permission" THEN [Off EXCEPT !.at = "synced"] ELSE Off)
    BY <1>5 DEF syncPending
  <2>3. QED
    BY <2>1, <2>2, Moves
<1>6. ASSUME hydrationFails(h)
      PROVE  CallType'
  <2>1. Off \in HydrationState /\ [Off EXCEPT !.at = "synced"] \in HydrationState
    BY HydrationStates
  <2>2. QED
    BY <1>6, <2>1, Moves DEF hydrationFails
<1>7. QED
  BY <1>1, <1>2, <1>3, <1>4, <1>5, <1>6 DEF HydrationStep

\* Every step keeps the types of the calls.
LEMMA CallStep ==
  ASSUME CallType, [Next]_vars
  PROVE  CallType'
<1> USE DEF call
<1>1. ASSUME InstanceStep
      PROVE  CallType'
  BY <1>1 DEF InstanceStep, works, asks, answered, disposes, streamBreaks, CallType
<1>2. ASSUME workspaceStarting \/ workspaceEnds \/ removeInstance
      PROVE  CallType'
  BY <1>2 DEF workspaceStarting, workspaceEnds, removeInstance, CallType
<1>3. ASSUME NEW h \in Attachment, attachClient(h)
      PROVE  CallType'
  <2>1. h \in Hydration /\ hydration[h] \in HydrationState
    BY DEF CallType, Hydration
  <2>2. [hydration[h] EXCEPT !.at = "begun"] \in HydrationState
    BY <2>1, HydrationStates
  <2>3. hydration' = [hydration EXCEPT ![h] = [hydration[h] EXCEPT !.at = "begun"]]
    BY <1>3 DEF attachClient
  <2>4. QED
    BY <1>3, <2>1, <2>2, <2>3 DEF attachClient, CallType
<1>4. ASSUME NEW h \in Hydration, HydrationStep(h)
      PROVE  CallType'
  BY <1>4, HydrationCalls
<1>5. ASSUME NEW s \in Session, SessionCall(s)
      PROVE  CallType'
  <2>1. ASSUME NEW here \in BOOLEAN, createSession(s, here)
        PROVE  CallType'
    BY <2>1 DEF createSession, CallType
  <2>2. ASSUME sessionCreated(s) \/ deleteSession(s) \/ sessionDeleted(s)
        PROVE  CallType'
    BY <2>2 DEF sessionCreated, deleteSession, sessionDeleted, CallType
  <2>3. ASSUME fetchAnswers(s)
        PROVE  CallType'
    <3>1. [fetching[s] EXCEPT !.answered = TRUE] \in Fetch
      BY <2>3 DEF fetchAnswers, CallType, Fetch
    <3>2. fetching' = [fetching EXCEPT ![s] = [fetching[s] EXCEPT !.answered = TRUE]]
      BY <2>3 DEF fetchAnswers
    <3>3. QED
      BY <2>3, <3>1, <3>2 DEF fetchAnswers, CallType
  <2>4. ASSUME fetchSessionInfo(s) \/ fetchFails(s)
        PROVE  CallType'
    BY <2>4 DEF fetchSessionInfo, fetchFails, CallType
  <2>5. QED
    BY <1>5, <2>1, <2>2, <2>3, <2>4 DEF SessionCall
<1>6. ASSUME NEW r \in Request, replyAnswered(r)
      PROVE  CallType'
  BY <1>6 DEF replyAnswered, CallType
<1>7. ASSUME EventStep
      PROVE  CallType'
  <2>1. UNCHANGED <<answers, replies>>
    BY <1>7 DEF EventStep, handleSessionStatus, handleSessionCompacted, handleSessionUpdate,
       handleAsked, handleReplied, handleDisposed, receives
  <2>2. ASSUME NEW s \in Session, NEW st \in Status, ensureSessionStatus(s, st)
        PROVE  hydration' = hydration /\ fetching' \in [Session -> Fetch \cup {None}]
    <3>1. [first |-> st, answered |-> FALSE] \in Fetch
      BY DEF Fetch
    <3>2. QED
      BY <2>2, <3>1 DEF ensureSessionStatus, CallType
  <2>3. ASSUME NEW s \in Session, handleSessionStatus(s)
        PROVE  CallType'
    BY <2>1, <2>2, <2>3 DEF handleSessionStatus, CallType, Status
  <2>4. ASSUME NEW s \in Session, handleSessionCompacted(s)
        PROVE  CallType'
    BY <2>1, <2>2, <2>4 DEF handleSessionCompacted, CallType, Status
  <2>5. ASSUME NEW s \in Session, handleSessionUpdate(s)
        PROVE  CallType'
    BY <2>1, <2>5 DEF handleSessionUpdate, CallType
  <2>6. ASSUME NEW r \in Request, handleAsked(r) \/ handleReplied(r)
        PROVE  CallType'
    BY <2>1, <2>6 DEF handleAsked, handleReplied, CallType
  <2>7. ASSUME handleDisposed
        PROVE  CallType'
    <3>1. "rehydration" \in Hydration /\ hydration["rehydration"] \in HydrationState
      BY DEF CallType, Hydration
    <3>2. [hydration["rehydration"] EXCEPT !.at = "begun"] \in HydrationState
      BY <3>1, HydrationStates
    <3>3. \/ hydration' = hydration
          \/ hydration' = [hydration EXCEPT !["rehydration"] = [hydration["rehydration"] EXCEPT !.at = "begun"]]
      BY <2>7 DEF handleDisposed
    <3>4. hydration' \in [Hydration -> HydrationState]
      BY <3>1, <3>2, <3>3 DEF CallType
    <3>5. QED
      BY <2>1, <2>7, <3>4 DEF handleDisposed, CallType
  <2>8. QED
    BY <1>7, <2>3, <2>4, <2>5, <2>6, <2>7 DEF EventStep
<1>8. ASSUME UNCHANGED vars
      PROVE  CallType'
  BY <1>8 DEF vars, CallType
<1>9. QED
  BY <1>1, <1>2, <1>3, <1>4, <1>5, <1>6, <1>7, <1>8 DEF Next

-----------------------------------------------------------------------------
(* The session map, the queues and the flags *)

\* Neither the map nor the queues change.
LEMMA Untouched ==
  ASSUME SessionInv, RequestInv, FlagMeansQueued, UNCHANGED <<session, request>>
  PROVE  SessionInv' /\ RequestInv' /\ FlagMeansQueued'
BY DEF session, request, SessionInv, SessionType, IndicatorExact, RequestInv, RequestType,
   CountsMatchQueue, FlagMeansQueued

\* The map is replaced, the queues stay, and no flag is new.
LEMMA Replaced ==
  ASSUME SessionInv, RequestInv, FlagMeansQueued, UNCHANGED request,
         NEW kn \in SUBSET Session,
         NEW st, \A s \in kn : st[s] \in Status,
         NEW fl \in [Kind -> SUBSET Session], \A k \in Kind : fl[k] \subseteq flag[k],
         setSessions(kn, st, fl)
  PROVE  SessionInv' /\ RequestInv' /\ FlagMeansQueued'
<1>1. SessionInv'
  BY SetSessions
<1>2. RequestInv'
  BY DEF request, RequestInv, RequestType, CountsMatchQueue
<1>3. queue' = queue /\ \A k \in Kind : flag'[k] \subseteq flag[k]
  BY DEF request, setSessions
<1>4. QED
  BY <1>1, <1>2, <1>3, FlagsShrink

\* Statuses change, the flags and the queues stay.
LEMMA Status1 ==
  ASSUME SessionInv, RequestInv, FlagMeansQueued, UNCHANGED request,
         NEW st \in [Session -> Status], withSession(st, flag)
  PROVE  SessionInv' /\ RequestInv' /\ FlagMeansQueued'
<1>1. SessionInv'
  BY WithSession DEF SessionInv, SessionType
<1>2. RequestInv'
  BY DEF request, RequestInv, RequestType, CountsMatchQueue
<1>3. queue' = queue /\ \A k \in Kind : flag'[k] \subseteq flag[k]
  BY DEF request, withSession
<1>4. QED
  BY <1>1, <1>2, <1>3, FlagsShrink

\* Every step keeps the map's counts, the queues' counts and the flags exact.
LEMMA SessionStep ==
  ASSUME CallType, SessionInv, RequestInv, FlagMeansQueued, [Next]_vars
  PROVE  SessionInv' /\ RequestInv' /\ FlagMeansQueued'
<1>0. /\ known \in SUBSET Session /\ status \in [Session -> Status]
      /\ flag \in [Kind -> SUBSET Session]
      /\ [k \in Kind |-> {}] \in [Kind -> SUBSET Session]
  BY DEF SessionInv, SessionType
<1>1. ASSUME InstanceStep
      PROVE  SessionInv' /\ RequestInv' /\ FlagMeansQueued'
  BY <1>1, Untouched DEF InstanceStep, works, asks, answered, disposes, streamBreaks
<1>2. ASSUME workspaceStarting \/ workspaceEnds \/ \E h \in Attachment : attachClient(h)
      PROVE  SessionInv' /\ RequestInv' /\ FlagMeansQueued'
  BY <1>2, Untouched DEF workspaceStarting, workspaceEnds, attachClient
<1>3. ASSUME removeInstance
      PROVE  SessionInv' /\ RequestInv' /\ FlagMeansQueued'
  <2>1. RequestInv'
    BY <1>3, Clear DEF removeInstance
  <2>2. SessionInv'
    <3>1. adjusted(status, cleared) \in [Bucket -> Nat]
      BY AdjustedType DEF SessionInv
    <3>2. QED
      BY <1>3, <3>1 DEF removeInstance, SessionInv, SessionType, IndicatorExact, Status
  <2>3. FlagMeansQueued'
    BY <1>3 DEF removeInstance, FlagMeansQueued
  <2>4. QED
    BY <2>1, <2>2, <2>3
<1>4. ASSUME NEW h \in Hydration, HydrationStep(h)
      PROVE  SessionInv' /\ RequestInv' /\ FlagMeansQueued'
  <2>0. hydration[h] \in HydrationState
    BY DEF CallType
  <2>1. ASSUME \/ listSessions(h) \/ listStatus(h) \/ hydrationFails(h)
               \/ \E k \in Kind : listRequests(h, k)
        PROVE  SessionInv' /\ RequestInv' /\ FlagMeansQueued'
    BY <2>1, Untouched DEF listSessions, listStatus, hydrationFails, listRequests, asksInstance
  <2>2. ASSUME fetchSessions(h)
        PROVE  SessionInv' /\ RequestInv' /\ FlagMeansQueued'
    <3> DEFINE new == hydration[h]
               st(s) == CASE s \in known /\ status[s] = "compacting" -> "compacting"
                          [] s \in new.busy /\ ~(s \in known /\ status[s] = "compacting") -> "working"
                          [] OTHER -> IF s \in known THEN status[s] ELSE "idle"
    <3>1. new.list \in SUBSET Session
      BY <2>0 DEF HydrationState
    <3>2. \A s \in Session : st(s) \in Status
      BY <1>0 DEF Status
    <3>3. /\ setSessions(new.list, [s \in Session |-> st(s)], [k \in Kind |-> {}])
          /\ UNCHANGED request
      BY <2>2 DEF fetchSessions
    <3> HIDE DEF st, new
    <3>4. \A s \in new.list : [t \in Session |-> st(t)][s] \in Status
      BY <3>1, <3>2
    <3>5. \A k \in Kind : [j \in Kind |-> {}][k] \subseteq flag[k]
      OBVIOUS
    <3>6. QED
      BY <1>0, <3>1, <3>3, <3>4, <3>5, Replaced
  <2>3. ASSUME NEW k \in Kind, syncPending(h, k)
        PROVE  SessionInv' /\ RequestInv' /\ FlagMeansQueued'
    <3> DEFINE gone == of(queue, k) \ hydration[h].pending
               new == hydration[h].pending \ queue
    <3>1. gone \in SUBSET queue /\ new \in SUBSET (Request \ queue)
      BY <2>0 DEF HydrationState, of
    <3>2. requeue(gone, new)
      BY <2>3 DEF syncPending
    <3> HIDE DEF gone, new
    <3>3. QED
      BY <3>1, <3>2, Requeue
  <2>4. QED
    BY <1>4, <2>1, <2>2, <2>3 DEF HydrationStep
<1>5. ASSUME NEW s \in Session, SessionCall(s)
      PROVE  SessionInv' /\ RequestInv' /\ FlagMeansQueued'
  <2>1. ASSUME \/ \E here \in BOOLEAN : createSession(s, here)
               \/ deleteSession(s) \/ fetchAnswers(s) \/ fetchFails(s)
        PROVE  SessionInv' /\ RequestInv' /\ FlagMeansQueued'
    BY <2>1, Untouched DEF createSession, deleteSession, fetchAnswers, fetchFails
  <2>2. ASSUME sessionCreated(s)
        PROVE  SessionInv' /\ RequestInv' /\ FlagMeansQueued'
    <3> DEFINE kn == known \cup {s}
               st == [status EXCEPT ![s] = "idle"]
               fl == [k \in Kind |-> flag[k] \ {s}]
    <3>1. /\ kn \in SUBSET Session /\ fl \in [Kind -> SUBSET Session]
          /\ \A t \in kn : st[t] \in Status
          /\ \A k \in Kind : fl[k] \subseteq flag[k]
      BY <1>0 DEF Status
    <3>2. setSessions(kn, st, fl) /\ UNCHANGED request
      BY <2>2 DEF sessionCreated
    <3> HIDE DEF kn, st, fl
    <3>3. QED
      BY <3>1, <3>2, Replaced
  <2>3. ASSUME sessionDeleted(s)
        PROVE  SessionInv' /\ RequestInv' /\ FlagMeansQueued'
    <3>1. setSessions(known \ {s}, status, flag) /\ UNCHANGED request
      BY <2>3 DEF sessionDeleted
    <3>2. known \ {s} \in SUBSET Session /\ \A t \in known \ {s} : status[t] \in Status
      BY <1>0
    <3>3. QED
      BY <1>0, <3>1, <3>2, Replaced
  <2>4. ASSUME fetchSessionInfo(s)
        PROVE  SessionInv' /\ RequestInv' /\ FlagMeansQueued'
    <3> DEFINE last == IF s \in known /\ status[s] = "compacting" THEN "compacting" ELSE fetching[s].first
               kn == known \cup {s}
               st == [status EXCEPT ![s] = last]
    <3>1. fetching[s] \in Fetch
      BY <2>4 DEF fetchSessionInfo, CallType
    <3>2. last \in Status
      BY <3>1 DEF Fetch, Status
    <3>3. kn \in SUBSET Session /\ \A t \in kn : st[t] \in Status
      BY <1>0, <3>2
    <3>4. setSessions(kn, st, flag) /\ UNCHANGED request
      BY <2>4 DEF fetchSessionInfo
    <3> HIDE DEF kn, st
    <3>5. QED
      BY <1>0, <3>3, <3>4, Replaced
  <2>5. QED
    BY <1>5, <2>1, <2>2, <2>3, <2>4 DEF SessionCall
<1>6. ASSUME NEW rs \in SUBSET Request, removeFromQueue(rs)
      PROVE  SessionInv' /\ RequestInv' /\ FlagMeansQueued'
  <2>1. rs \cap queue \in SUBSET queue /\ {} \in SUBSET (Request \ queue)
    OBVIOUS
  <2>2. QED
    BY <1>6, <2>1, Requeue DEF removeFromQueue
<1>7. ASSUME NEW rs \in SUBSET Request, addToQueue(rs)
      PROVE  SessionInv' /\ RequestInv' /\ FlagMeansQueued'
  <2>1. {} \in SUBSET queue /\ rs \ queue \in SUBSET (Request \ queue)
    OBVIOUS
  <2>2. QED
    BY <1>7, <2>1, Requeue DEF addToQueue
<1>8. ASSUME NEW r \in Request, replyAnswered(r) \/ handleReplied(r) \/ handleAsked(r)
      PROVE  SessionInv' /\ RequestInv' /\ FlagMeansQueued'
  <2>1. {r} \in SUBSET Request
    OBVIOUS
  <2>2. QED
    BY <1>6, <1>7, <1>8, <2>1 DEF replyAnswered, handleReplied, handleAsked
<1>9. ASSUME NEW s \in Session, NEW st \in Status, ensureSessionStatus(s, st)
      PROVE  SessionInv' /\ RequestInv' /\ FlagMeansQueued'
  <2> DEFINE next == IF s \in known THEN applied(s, st) ELSE status
  <2>1. next \in [Session -> Status]
    BY <1>0 DEF applied
  <2>2. withSession(next, flag) /\ UNCHANGED request
    BY <1>9 DEF ensureSessionStatus
  <2> HIDE DEF next
  <2>3. QED
    BY <2>1, <2>2, Status1
<1>10. ASSUME NEW s \in Session, handleSessionStatus(s)
       PROVE  SessionInv' /\ RequestInv' /\ FlagMeansQueued'
  BY <1>9, <1>10 DEF handleSessionStatus, Status
<1>11. ASSUME NEW s \in Session, handleSessionCompacted(s)
       PROVE  SessionInv' /\ RequestInv' /\ FlagMeansQueued'
  <2>1. CASE s \in known
    <3>1. [status EXCEPT ![s] = "working"] \in [Session -> Status]
      BY <1>0 DEF Status
    <3>2. withSession([status EXCEPT ![s] = "working"], flag) /\ UNCHANGED request
      BY <1>11, <2>1 DEF handleSessionCompacted
    <3>3. QED
      BY <3>1, <3>2, Status1
  <2>2. CASE s \notin known
    BY <1>9, <1>11, <2>2 DEF handleSessionCompacted, Status
  <2>3. QED
    BY <2>1, <2>2
<1>12. ASSUME NEW s \in Session, handleSessionUpdate(s)
       PROVE  SessionInv' /\ RequestInv' /\ FlagMeansQueued'
  <2>1. setSessions(known \cup {s}, status, flag) /\ UNCHANGED request
    BY <1>12 DEF handleSessionUpdate
  <2>2. known \cup {s} \in SUBSET Session /\ \A t \in known \cup {s} : status[t] \in Status
    BY <1>0
  <2>3. QED
    BY <1>0, <2>1, <2>2, Replaced
<1>13. ASSUME handleDisposed
       PROVE  SessionInv' /\ RequestInv' /\ FlagMeansQueued'
  <2>1. CASE UNCHANGED <<session, request>>
    BY <2>1, Untouched
  <2>2. CASE clearQueues /\ withSession(status, cleared)
    <3>1. RequestInv' /\ cleared \in [Kind -> SUBSET Session] /\ \A k \in Kind : cleared[k] = {}
      BY <2>2, Clear
    <3>2. SessionInv'
      BY <1>0, <2>2, <3>1, WithSession
    <3>3. FlagMeansQueued'
      BY <2>2, <3>1 DEF FlagMeansQueued, withSession
    <3>4. QED
      BY <3>1, <3>2, <3>3
  <2>3. QED
    BY <1>13, <2>1, <2>2 DEF handleDisposed
<1>14. ASSUME UNCHANGED vars
       PROVE  SessionInv' /\ RequestInv' /\ FlagMeansQueued'
  BY <1>14, Untouched DEF vars
<1>15. QED
  BY <1>1, <1>2, <1>3, <1>4, <1>5, <1>8, <1>10, <1>11, <1>12, <1>13, <1>14 DEF Next, EventStep

-----------------------------------------------------------------------------
(* Theorems *)

\* A page that was just loaded: no sessions, no requests, no calls.
LEMMA InitInv == Init => Inv
<1> SUFFICES ASSUME Init PROVE Inv
  OBVIOUS
<1>1. ExternalType
  BY SessionAssumption, EmptySeq DEF Init, ExternalType, Work
<1>2. CallType
  BY HydrationStates DEF Init, CallType
<1>3. SessionInv
  BY DEF Init, SessionInv, SessionType, IndicatorExact, Status
<1>4. RequestInv
  <2>1. \A k \in Kind, s \in Session : Owned({}, k, s) = {}
    BY DEF Owned, of
  <2>2. QED
    BY <2>1, FS_EmptySet DEF Init, RequestInv, RequestType, CountsMatchQueue
<1>5. FlagMeansQueued
  BY DEF Init, FlagMeansQueued
<1>6. QED
  BY <1>1, <1>2, <1>3, <1>4, <1>5 DEF Inv

\* The inductive invariant holds in every reachable state of the stores of
\* session-state.ts and instances.ts, in whatever order events and answers come.
THEOREM Invariance == Spec => []Inv
<1>1. Inv /\ [Next]_vars => Inv'
  BY ExternalStep, CallStep, SessionStep DEF Inv
<1>2. QED
  BY InitInv, <1>1, PTL DEF Spec

\* Every variable keeps its type: statuses are statuses, counts never fall
\* below zero, and calls hold what the instance can answer.
THEOREM TypeCorrect == Spec => []TypeOK
<1>1. Inv => TypeOK
  BY DEF Inv, ExternalType, CallType, SessionInv, SessionType, RequestInv, RequestType, TypeOK
<1>2. QED
  BY Invariance, <1>1, PTL

\* permissionSessionCounts and questionSessionCounts are the lengths of what
\* they count, though they are only ever incremented and decremented.
THEOREM CountsAreExact == Spec => []CountsMatchQueue
<1>1. Inv => CountsMatchQueue
  BY DEF Inv, RequestInv
<1>2. QED
  BY Invariance, <1>1, PTL

\* pendingPermission and pendingQuestion of a session never outlive its last
\* request: no session is shown as waiting with nothing to answer.
THEOREM FlagsAreQueued == Spec => []FlagMeansQueued
<1>1. Inv => FlagMeansQueued
  BY DEF Inv
<1>2. QED
  BY Invariance, <1>1, PTL

\* instanceIndicatorCounts, adjusted by every change of one session, is what a
\* recount of the map would give.
THEOREM IndicatorsAreExact == Spec => []IndicatorExact
<1>1. Inv => IndicatorExact
  BY DEF Inv, SessionInv
<1>2. QED
  BY Invariance, <1>1, PTL

\* No late answer and no status of the interrupted work ends a compaction.
THEOREM CompactionIsKeptAlways == Spec => CompactionIsKept
<1> DEFINE Kept == \A s \in known \cap known' :
                     status[s] = "compacting" /\ status'[s] # "compacting" =>
                       \/ chan # <<>> /\ Head(chan) = <<"compacted", s>>
                       \/ <<"created", s>> \in answers
<1>1. ASSUME Inv, Next
      PROVE  Kept
  <2>0. known \subseteq Session /\ status \in [Session -> Status]
    BY <1>1 DEF Inv, SessionInv, SessionType
  <2>1. ASSUME UNCHANGED status
        PROVE  Kept
    BY <2>1
  <2>2. ASSUME NEW st, NEW fl, setSessions(known', st, fl),
               \A s \in known \cap known' : status[s] = "compacting" => st[s] = "compacting"
        PROVE  Kept
    BY <2>0, <2>2 DEF setSessions
  <2>3. ASSUME InstanceStep
        PROVE  Kept
    BY <2>1, <2>3 DEF InstanceStep, works, asks, answered, disposes, streamBreaks, session
  <2>4. ASSUME workspaceStarting \/ workspaceEnds \/ \E h \in Attachment : attachClient(h)
        PROVE  Kept
    BY <2>1, <2>4 DEF workspaceStarting, workspaceEnds, attachClient, session
  <2>5. ASSUME removeInstance
        PROVE  Kept
    BY <2>5 DEF removeInstance
  <2>6. ASSUME NEW h \in Hydration, HydrationStep(h)
        PROVE  Kept
    <3>1. CASE fetchSessions(h)
      <4> DEFINE new == hydration[h]
                 st(s) == CASE s \in known /\ status[s] = "compacting" -> "compacting"
                            [] s \in new.busy /\ ~(s \in known /\ status[s] = "compacting") -> "working"
                            [] OTHER -> IF s \in known THEN status[s] ELSE "idle"
      <4>1. setSessions(new.list, [s \in Session |-> st(s)], [k \in Kind |-> {}])
        BY <3>1 DEF fetchSessions
      <4>2. known' = new.list
        BY <4>1 DEF setSessions
      <4>3. \A s \in known : status[s] = "compacting" => st(s) = "compacting"
        OBVIOUS
      <4> HIDE DEF st, new
      <4>4. \A s \in known \cap known' : status[s] = "compacting" => [t \in Session |-> st(t)][s] = "compacting"
        BY <2>0, <4>3
      <4>5. QED
        BY <2>2, <4>1, <4>2, <4>4
    <3>2. CASE \E k \in Kind : syncPending(h, k)
      BY <2>1, <3>2 DEF syncPending, requeue, withSession
    <3>3. CASE \/ listSessions(h) \/ listStatus(h) \/ hydrationFails(h)
               \/ \E k \in Kind : listRequests(h, k)
      BY <2>1, <3>3 DEF listSessions, listStatus, hydrationFails, listRequests, asksInstance, session
    <3>4. QED
      BY <2>6, <3>1, <3>2, <3>3 DEF HydrationStep
  <2>7. ASSUME NEW s \in Session, SessionCall(s)
        PROVE  Kept
    <3>1. CASE \/ \E here \in BOOLEAN : createSession(s, here)
               \/ deleteSession(s) \/ fetchAnswers(s) \/ fetchFails(s)
      BY <2>1, <3>1 DEF createSession, deleteSession, fetchAnswers, fetchFails, session
    <3>2. CASE sessionCreated(s)
      BY <2>0, <3>2 DEF sessionCreated, setSessions
    <3>3. CASE sessionDeleted(s)
      <4>1. setSessions(known', status, flag)
        BY <3>3 DEF sessionDeleted, setSessions
      <4>2. QED
        BY <2>2, <4>1
    <3>4. CASE fetchSessionInfo(s)
      <4> DEFINE last == IF s \in known /\ status[s] = "compacting" THEN "compacting" ELSE fetching[s].first
                 st == [status EXCEPT ![s] = last]
      <4>1. setSessions(known', st, flag)
        BY <3>4 DEF fetchSessionInfo, setSessions
      <4>2. \A t \in known : status[t] = "compacting" => st[t] = "compacting"
        BY <2>0
      <4> HIDE DEF st
      <4>3. QED
        BY <2>2, <4>1, <4>2
    <3>5. QED
      BY <2>7, <3>1, <3>2, <3>3, <3>4 DEF SessionCall
  <2>8. ASSUME NEW r \in Request, replyAnswered(r) \/ handleAsked(r) \/ handleReplied(r)
        PROVE  Kept
    BY <2>1, <2>8 DEF replyAnswered, handleAsked, handleReplied, addToQueue, removeFromQueue,
       requeue, withSession
  <2>9. ASSUME NEW s \in Session, NEW st \in Status, ensureSessionStatus(s, st)
        PROVE  Kept
    BY <2>0, <2>9 DEF ensureSessionStatus, withSession, applied
  <2>10. ASSUME NEW s \in Session, handleSessionStatus(s)
         PROVE  Kept
    BY <2>9, <2>10 DEF handleSessionStatus, Status
  <2>11. ASSUME NEW s \in Session, handleSessionCompacted(s)
         PROVE  Kept
    <3>1. chan # <<>> /\ Head(chan) = <<"compacted", s>>
      BY <2>11 DEF handleSessionCompacted, receives
    <3>2. CASE s \in known
      BY <2>0, <2>11, <3>1, <3>2 DEF handleSessionCompacted, withSession
    <3>3. CASE s \notin known
      BY <2>9, <2>11, <3>3 DEF handleSessionCompacted, Status
    <3>4. QED
      BY <3>2, <3>3
  <2>12. ASSUME NEW s \in Session, handleSessionUpdate(s)
         PROVE  Kept
    <3>1. setSessions(known', status, flag)
      BY <2>12 DEF handleSessionUpdate, setSessions
    <3>2. QED
      BY <2>2, <3>1
  <2>13. ASSUME handleDisposed
         PROVE  Kept
    BY <2>1, <2>13 DEF handleDisposed, withSession, session
  <2> HIDE DEF Kept
  <2>14. QED
    BY <1>1, <2>3, <2>4, <2>5, <2>6, <2>7, <2>8, <2>10, <2>11, <2>12, <2>13 DEF Next, EventStep
<1>2. Inv /\ [Next]_vars => [Kept]_vars
  BY <1>1
<1>3. QED
  BY Invariance, <1>2, PTL DEF Spec, CompactionIsKept

=============================================================================
