---------------------------- MODULE MessageStore ----------------------------
(***************************************************************************)
(* The messages of one session as the user interface keeps them            *)
(* (packages/ui/src/stores/message-v2): records, their order, the last     *)
(* assistant message, token usage, and the requests for permission or for  *)
(* an answer, which are linked to the tool call they are about.            *)
(*                                                                         *)
(* Three sources write to it and overtake each other: the events of the    *)
(* instance, the answer to session.messages, which replaces the list, and  *)
(* the prompts of the user, which are listed under an id of their own      *)
(* until the instance echoes them.  The instance is external.              *)
(*                                                                         *)
(* `store` is one record, and the operations of the store are operators    *)
(* from stores to stores, since the handlers call several of them in turn. *)
(***************************************************************************)
EXTENDS Selections, FiniteSetsExt, SequencesExt

CONSTANTS
  MaxMessages, \* the instance makes the messages 1 .. MaxMessages, in this order
  Own,         \* ids of prompts that are sent from here
  Permission, Question,
  MaxEvents,   \* bound on the events of the instance
  MaxOnTheWay, \* bound on those that are on their way
  MaxCalls,    \* bound on the calls under way
  None

Message == 1 .. MaxMessages
Id == Message \cup Own
Request == Permission \cup Question

ASSUME MessageAssumption ==
  /\ MaxMessages \in Nat \ {0} /\ MaxEvents \in Nat /\ MaxOnTheWay \in Nat /\ MaxCalls \in Nat
  /\ IsFiniteSet(Own) /\ Own \cap Message = {} /\ None \notin Id
  /\ Permission \cap Question = {}

VARIABLES
  there,     \* the instance: its messages
  made,      \* the instance: how many it has made
  role,      \* the instance: who speaks in a message
  part,      \* the instance: the tool call of a message
  ended,     \* the instance: messages that are complete
  asked,     \* the instance: state of each request
  about,     \* the instance: the message with the tool call of a request
  reverted,  \* the instance: the message the session is reverted to
  chan,      \* events on their way
  emitted,   \* how many there have been
  lost,      \* whether a prompt was refused or the stream broke
  store,     \* InstanceMessageState
  queued,    \* permissionQueues and questionQueues of instances.ts
  memory,    \* `revert` in the session map
  unsent, sending, \* prompts not written yet, requests to send one
  load,      \* loadMessages
  sync,      \* syncPendingPermissions and syncPendingQuestions
  replies    \* answers to replies under way

messages == <<there, made, role, part, ended>>
requests == <<asked, about>>
stream == <<chan, emitted, lost>>
prompts == <<unsent, sending>>
vars == <<messages, requests, reverted, stream, store, queued, memory, prompts, load, sync, replies>>

Role == {"user", "assistant"}
\* The parts that matter are tool calls of the assistant; questions are asked
\* by a tool of their own.  Text is left out.
Part == {"tool", "question"}
Record == [role : Role, status : {"sending", "streaming", "complete"}, parts : SUBSET Part]

ASSUME NoneIsNoRecord == \A record \in Record : record # None

Load == [at : {"none", "asked", "answered"}, list : SUBSET Message,
         part : [Message -> Part \cup {"none", "gone"}], ended : SUBSET Message]
NoLoad == [at |-> "none", list |-> {}, part |-> [m \in Message |-> "none"], ended |-> {}]

\* `linked` is byMessage: a request stands there under its own id or under
\* that of the tool call's part; `bound` are those whose entry has a partId.
Store == [record : [Id -> Record \cup {None}], ids : Seq(Id), last : Id \cup {None},
          usage : SUBSET Message, total : Nat, latest : Message \cup {None},
          queue : SUBSET Request, bound : SUBSET Request,
          linked : SUBSET (Request \X {"request", "part"}),
          revert : Message \cup {None}]

TypeOK ==
  /\ there \subseteq Message /\ made \in 0 .. MaxMessages
  /\ role \in [Message -> Role]
  /\ part \in [Message -> Part \cup {"none", "gone"}]
  /\ ended \subseteq Message
  /\ asked \in [Request -> {"unasked", "pending", "answered"}]
  /\ about \in [Request -> Message \cup {None}]
  /\ reverted \in Message \cup {None}
  /\ Len(chan) <= MaxOnTheWay /\ emitted \in 0 .. MaxEvents /\ lost \in BOOLEAN
  /\ store \in Store
  /\ queued \subseteq Request
  /\ memory \in Message \cup {None}
  /\ unsent \subseteq Own /\ sending \subseteq Own
  /\ load \in Load
  /\ sync \in {None} \cup ({"permission", "question"} \X SUBSET Request)
  /\ replies \subseteq Request

\* The page was just loaded; the session may have a message.
Init ==
  /\ made \in {0, 1}
  /\ there = 1 .. made
  /\ role = [m \in Message |-> "user"]
  /\ part = [m \in Message |-> "none"]
  /\ ended = {}
  /\ asked = [r \in Request |-> "unasked"]
  /\ about = [r \in Request |-> None]
  /\ reverted = None
  /\ chan = <<>> /\ emitted = 0 /\ lost = FALSE
  /\ store = [record |-> [i \in Id |-> None], ids |-> <<>>, last |-> None,
              usage |-> {}, total |-> 0, latest |-> None,
              queue |-> {}, bound |-> {}, linked |-> {}, revert |-> None]
  /\ queued = {}
  /\ memory = None
  /\ unsent = Own /\ sending = {}
  /\ load = NoLoad /\ sync = None /\ replies = {}

-----------------------------------------------------------------------------
(* The list and its records *)

isOf(st, i, r) == st.record[i] # None /\ st.record[i].role = r

\* Mutant: the cached id is left alone.
listed_Cached(st, ids) == [st EXCEPT !.ids = ids]

findLastAssistantMessageId(st, ids) ==
  LET spoken == {n \in DOMAIN ids : isOf(st, ids[n], "assistant")}
  IN  IF spoken = {} THEN None ELSE ids[Max(spoken)]

listed(st, ids) == [st EXCEPT !.ids = ids, !.last = findLastAssistantMessageId(st, ids)]

upsertMessage(st, i, record) ==
  LET old == st.record[i]
      kept == IF old = None \/ record.parts # {} THEN record.parts ELSE old.parts
  IN  listed([st EXCEPT !.record[i] = [record EXCEPT !.parts = kept]],
             IF i \in Range(st.ids) THEN st.ids ELSE Append(st.ids, i))

\* Links and requests are never about an id of this side, so that none move.
\* The record of the old id stays: see "Removal".
replaceMessageId(st, old, new) ==
  listed([st EXCEPT !.record[new] = st.record[old]],
         [n \in DOMAIN st.ids |-> IF st.ids[n] = old THEN new ELSE st.ids[n]])

findPendingSyntheticMessageId(st, r) ==
  LET open == {n \in DOMAIN st.ids : isOf(st, st.ids[n], r) /\ st.record[st.ids[n]].status = "sending"}
  IN  IF open = {} THEN None ELSE st.ids[Min(open)]

\* Mutant: the echo is listed beside the prompt.
claimed_NoEcho(st, m, r) == st

\* A message that is new takes the place of the first prompt not yet echoed.
claimed(st, m, r) ==
  LET own == findPendingSyntheticMessageId(st, r)
  IN  IF st.record[m] # None \/ own = None THEN st ELSE replaceMessageId(st, own, m)

-----------------------------------------------------------------------------
(* Token usage: entries, their sum, the latest of them *)

newest(ms) == IF ms = {} THEN None ELSE Max(ms)

\* Mutant: the sum is left alone.
removeUsageEntry_KeepsTotal(st, ms) ==
  [st EXCEPT !.usage = @ \ ms,
             !.latest = IF @ \in st.usage \cap ms THEN newest(st.usage \ ms) ELSE @]

removeUsageEntry(st, ms) ==
  [st EXCEPT !.usage = @ \ ms,
             !.total = @ - Cardinality(st.usage \cap ms),
             !.latest = IF @ \in st.usage \cap ms THEN newest(st.usage \ ms) ELSE @]

updateUsageWithInfo(st, m, complete) ==
  LET rest == removeUsageEntry(st, {m})
  IN  IF ~complete THEN rest
      ELSE [rest EXCEPT !.usage = @ \cup {m}, !.total = @ + 1,
                        !.latest = IF @ = None \/ m >= @ THEN m ELSE @]

rebuildUsage(st, ms) ==
  [st EXCEPT !.usage = ms, !.total = Cardinality(ms), !.latest = newest(ms)]

-----------------------------------------------------------------------------
(* Requests and their tool calls *)

toolOf(r) == IF r \in Question THEN "question" ELSE "tool"
linksOf(rs) == rs \X {"request", "part"}

\* resolvePartIdFromCallId finds the part.
resolved(st, r) ==
  /\ st.record[about[r]] # None
  /\ toolOf(r) \in st.record[about[r]].parts

upsertRequest(st, r) ==
  [st EXCEPT !.queue = @ \cup {r},
             !.bound = IF resolved(st, r) THEN @ \cup {r} ELSE @ \ {r},
             !.linked = @ \cup {<<r, IF resolved(st, r) THEN "part" ELSE "request">>}]

upsertRequests(st, rs) ==
  [st EXCEPT !.queue = @ \cup rs,
             !.bound = (@ \ rs) \cup {r \in rs : resolved(st, r)},
             !.linked = @ \cup {<<r, IF resolved(st, r) THEN "part" ELSE "request">> : r \in rs}]

removeRequests(st, rs) ==
  [st EXCEPT !.queue = @ \ rs, !.bound = @ \ rs, !.linked = @ \ linksOf(rs)]

reconcilePending(st, rs) == upsertRequests(st, {r \in (st.queue \ st.bound) \cap rs : resolved(st, r)})

\* Mutant: permissions are left to the next load.
rebindPermissionForPart_Skipped(st, m) == st

\* Permissions only; a question waits for reconcilePendingQuestions.
rebindPermissionForPart(st, m) ==
  LET mine == {r \in Permission : about[r] = m /\ <<r, "request">> \in st.linked /\ resolved(st, r)}
  IN  [st EXCEPT !.linked = (@ \ (mine \X {"request"})) \cup (mine \X {"part"}),
                 !.bound = @ \cup (mine \cap st.queue)]

-----------------------------------------------------------------------------
(* Removal *)

\* The handlers return the map without the keys, and setState merges what it is
\* given into the store, which keeps them: records and links outlive their
\* message.  What they change in place (produce) or as an array does go.
removeMessage(st, m) == listed(removeUsageEntry(st, {m}), Without(st.ids, {m}))

removeMessagePart(st, m, p) ==
  IF st.record[m] = None THEN st ELSE [st EXCEPT !.record[m].parts = @ \ {p}]

\* From the message on, as they are listed.
pruneMessagesAfterRevert(st, m) ==
  IF m \notin Range(st.ids) THEN st
  ELSE LET first == CHOOSE n \in DOMAIN st.ids : st.ids[n] = m
           gone == {st.ids[n] : n \in first .. Len(st.ids)}
       IN  listed(removeUsageEntry(st, gone), SubSeq(st.ids, 1, first - 1))

setSessionRevert(st, m) == [pruneMessagesAfterRevert(st, m) EXCEPT !.revert = m]

-----------------------------------------------------------------------------
(* The answer to session.messages *)

\* The answer replaces the list.  Records that it does not have stay.
hydrateMessages(st, s) ==
  LET partsOf(m) == IF s.part[m] \in Part THEN {s.part[m]}
                    ELSE IF st.record[m] = None THEN {} ELSE st.record[m].parts
      recorded == [i \in Id |-> IF i \in s.list
                                  THEN [role |-> role[i], status |-> "complete", parts |-> partsOf(i)]
                                  ELSE st.record[i]]
  IN  listed(rebuildUsage([st EXCEPT !.record = recorded], s.ended \cap s.list), InOrder(s.list))

\* An empty answer changes nothing.  The revert of the session map is written
\* unless it is empty.
seedSessionMessages(st, s) ==
  IF s.list = {} THEN st
  ELSE reconcilePending(
         hydrateMessages([st EXCEPT !.revert = IF memory = None THEN @ ELSE memory], s), Request)

-----------------------------------------------------------------------------
(* The instance (external) *)

Pending == {r \in Request : asked[r] = "pending"}
Free(m) == \A r \in Pending : about[r] # m

MayCall ==
  Cardinality(sending) + Cardinality(replies)
    + (IF load = NoLoad THEN 0 ELSE 1) + (IF sync = None THEN 0 ELSE 1) < MaxCalls

emits(type, x, more) ==
  /\ emitted < MaxEvents
  /\ Len(chan) < MaxOnTheWay
  /\ emitted' = emitted + 1
  /\ chan' = Append(chan, <<type, x, more>>)
  /\ UNCHANGED lost

here == <<store, queued, memory, unsent, load, sync>>

\* The next message, of a prompt or of the assistant.
makes(r) ==
  /\ made < MaxMessages /\ reverted = None
  /\ made' = made + 1
  /\ there' = there \cup {made'}
  /\ role' = [role EXCEPT ![made'] = r]
  /\ emits("updated", made', FALSE)
  /\ UNCHANGED <<part, ended, requests, reverted, here, replies>>

accepts(o) ==
  /\ o \in sending
  /\ sending' = sending \ {o}
  /\ makes("user")

makesPart(m, p) ==
  /\ m \in there \ ended /\ part[m] = "none" /\ role[m] = "assistant"
  /\ part' = [part EXCEPT ![m] = p]
  /\ emits("part", m, p)
  /\ UNCHANGED <<there, made, role, ended, requests, reverted, here, sending, replies>>

ends(m) ==
  /\ m \in there \ ended /\ role[m] = "assistant" /\ Free(m)
  /\ ended' = ended \cup {m}
  /\ emits("updated", m, TRUE)
  /\ UNCHANGED <<there, made, role, part, requests, reverted, here, sending, replies>>

removes(m) ==
  /\ m \in there /\ Free(m)
  /\ there' = there \ {m}
  /\ reverted' = IF reverted = m THEN None ELSE reverted
  /\ emits("removed", m, None)
  /\ UNCHANGED <<made, role, part, ended, requests, here, sending, replies>>

removesPart(m) ==
  /\ m \in there /\ part[m] \in Part /\ Free(m)
  /\ part' = [part EXCEPT ![m] = "gone"]
  /\ emits("partRemoved", m, part[m])
  /\ UNCHANGED <<there, made, role, ended, requests, reverted, here, sending, replies>>

\* To a prompt of the user, or back.
reverts(m) ==
  /\ m # reverted
  /\ m # None => m \in there /\ role[m] = "user" /\ Pending = {}
  /\ reverted' = m
  /\ emits("session", m, None)
  /\ UNCHANGED <<messages, requests, here, sending, replies>>

compacts ==
  /\ emits("compacted", None, None)
  /\ UNCHANGED <<messages, requests, reverted, here, sending, replies>>

asks(r, m) ==
  /\ asked[r] = "unasked"
  /\ m \in there \ ended /\ part[m] = toolOf(r) /\ m \notin {about[q] : q \in Request}
  /\ reverted = None
  /\ asked' = [asked EXCEPT ![r] = "pending"]
  /\ about' = [about EXCEPT ![r] = m]
  /\ emits("asked", r, None)
  /\ UNCHANGED <<messages, reverted, here, sending, replies>>

\* By another client, or by a reply from here, whose answer follows.
answered(r, local) ==
  /\ asked[r] = "pending"
  /\ local => r \in queued /\ MayCall
  /\ asked' = [asked EXCEPT ![r] = "answered"]
  /\ emits("replied", r, None)
  /\ replies' = IF local THEN replies \cup {r} ELSE replies
  /\ UNCHANGED <<messages, about, reverted, here, sending>>

streamBreaks ==
  /\ chan # <<>>
  /\ chan' = <<>>
  /\ lost' = TRUE
  /\ UNCHANGED <<messages, requests, reverted, emitted, here, sending, replies>>

-----------------------------------------------------------------------------
(* Calls of the interface *)

instance == <<messages, requests, reverted, stream>>

sendMessage(o) ==
  /\ o \in unsent /\ MayCall
  /\ unsent' = unsent \ {o}
  /\ sending' = sending \cup {o}
  /\ store' = upsertMessage(store, o, [role |-> "user", status |-> "sending", parts |-> {}])
  /\ UNCHANGED <<instance, queued, memory, load, sync, replies>>

\* The prompt stays in the list.
promptFails(o) ==
  /\ o \in sending
  /\ sending' = sending \ {o}
  /\ lost' = TRUE
  /\ UNCHANGED <<messages, requests, reverted, chan, emitted, store, queued, memory, unsent, load, sync, replies>>

\* By the user, who opens the session or reloads it.
loadMessages ==
  /\ load = NoLoad /\ MayCall
  /\ load' = [NoLoad EXCEPT !.at = "asked"]
  /\ UNCHANGED <<instance, store, queued, memory, prompts, sync, replies>>

messagesAnswered ==
  /\ load.at = "asked"
  /\ load' = [at |-> "answered", list |-> there, part |-> part, ended |-> ended]
  /\ UNCHANGED <<instance, store, queued, memory, prompts, sync, replies>>

messagesLoaded ==
  /\ load.at = "answered"
  /\ load' = NoLoad
  /\ store' = seedSessionMessages(store, load)
  /\ UNCHANGED <<instance, queued, memory, prompts, sync, replies>>

loadFails ==
  /\ load.at = "asked"
  /\ load' = NoLoad
  /\ UNCHANGED <<instance, store, queued, memory, prompts, sync, replies>>

pendingListed(k) ==
  /\ sync = None /\ MayCall
  /\ sync' = <<k, Pending \cap IF k = "permission" THEN Permission ELSE Question>>
  /\ UNCHANGED <<instance, store, queued, memory, prompts, load, replies>>

\* What the answer does not have is removed, all that it has is put in again.
syncPending ==
  /\ sync # None
  /\ sync' = None
  /\ LET remote == sync[2]
         stale == (queued \ remote) \cap IF sync[1] = "permission" THEN Permission ELSE Question
     IN  /\ queued' = (queued \ stale) \cup remote
         /\ store' = upsertRequests(removeRequests(store, stale), remote)
  /\ UNCHANGED <<instance, memory, prompts, load, replies>>

\* The reply leaves the store to the event.
replyAnswered(r) ==
  /\ r \in replies
  /\ replies' = replies \ {r}
  /\ queued' = queued \ {r}
  /\ UNCHANGED <<instance, store, memory, prompts, load, sync>>

-----------------------------------------------------------------------------
(* Events *)

receives(type, x, more) ==
  /\ chan # <<>>
  /\ Head(chan) = <<type, x, more>>
  /\ chan' = Tail(chan)
  /\ UNCHANGED <<messages, requests, reverted, emitted, lost, prompts, sync, replies>>

handleMessageUpdate(m, complete) ==
  /\ receives("updated", m, complete)
  /\ LET record == [role |-> role[m], status |-> IF complete THEN "complete" ELSE "streaming", parts |-> {}]
     IN  store' = updateUsageWithInfo(
                    upsertMessage(claimed(store, m, role[m]), m, record), m, complete)
  /\ UNCHANGED <<queued, memory, load>>

\* Without the message's head the part is taken for the assistant's.
handleMessagePartUpdate(m, p) ==
  /\ receives("part", m, p)
  /\ LET ready == claimed(store, m, "assistant")
         known == IF ready.record[m] # None THEN ready
                  ELSE upsertMessage(ready, m, [role |-> "assistant", status |-> "streaming", parts |-> {}])
         shown == [known EXCEPT !.record[m].parts = @ \cup {p}]
     IN  store' = reconcilePending(rebindPermissionForPart(shown, m),
                                   IF p = "question" THEN Question ELSE {})
  /\ UNCHANGED <<queued, memory, load>>

handleMessageRemoved(m) ==
  /\ receives("removed", m, None)
  /\ store' = removeMessage(store, m)
  /\ UNCHANGED <<queued, memory, load>>

handleMessagePartRemoved(m, p) ==
  /\ receives("partRemoved", m, p)
  /\ store' = removeMessagePart(store, m, p)
  /\ UNCHANGED <<queued, memory, load>>

\* The session map does not forget a revert.
handleSessionUpdate(m) ==
  /\ receives("session", m, None)
  /\ store' = setSessionRevert(store, m)
  /\ memory' = IF m = None THEN memory ELSE m
  /\ UNCHANGED <<queued, load>>

\* A load that is under way is not started again.
handleSessionCompacted ==
  /\ receives("compacted", None, None)
  /\ load' = IF load = NoLoad THEN [NoLoad EXCEPT !.at = "asked"] ELSE load
  /\ UNCHANGED <<store, queued, memory>>

\* Mutant: only the queue is told.
handleAsked_QueueOnly(r) ==
  /\ receives("asked", r, None)
  /\ queued' = queued \cup {r}
  /\ UNCHANGED <<store, memory, load>>

handleAsked(r) ==
  /\ receives("asked", r, None)
  /\ queued' = queued \cup {r}
  /\ store' = upsertRequest(store, r)
  /\ UNCHANGED <<memory, load>>

handleReplied(r) ==
  /\ receives("replied", r, None)
  /\ queued' = queued \ {r}
  /\ store' = removeRequests(store, {r})
  /\ UNCHANGED <<memory, load>>

-----------------------------------------------------------------------------
InstanceStep ==
  \/ (\E r \in Role : makes(r)) /\ UNCHANGED sending
  \/ \E o \in Own : accepts(o)
  \/ \E m \in Message : \/ ends(m) \/ removes(m) \/ removesPart(m)
                        \/ \E p \in Part : makesPart(m, p)
                        \/ \E r \in Request : asks(r, m)
  \/ \E m \in Message \cup {None} : reverts(m)
  \/ compacts
  \/ \E r \in Request, local \in BOOLEAN : answered(r, local)
  \/ streamBreaks

CallStep ==
  \/ \E o \in Own : sendMessage(o) \/ promptFails(o)
  \/ loadMessages \/ messagesAnswered \/ messagesLoaded \/ loadFails
  \/ \E k \in {"permission", "question"} : pendingListed(k)
  \/ syncPending
  \/ \E r \in Request : replyAnswered(r)

EventStep ==
  \/ \E m \in Message :
       \/ \E complete \in BOOLEAN : handleMessageUpdate(m, complete)
       \/ \E p \in Part : handleMessagePartUpdate(m, p) \/ handleMessagePartRemoved(m, p)
       \/ handleMessageRemoved(m)
  \/ \E m \in Message \cup {None} : handleSessionUpdate(m)
  \/ handleSessionCompacted
  \/ \E r \in Request : handleAsked(r) \/ handleReplied(r)

Next == InstanceStep \/ CallStep \/ EventStep

Spec == Init /\ [][Next]_vars

-----------------------------------------------------------------------------
(* Properties *)

Listed == Range(store.ids)

\* The cached last assistant message, at which the interface decides what is
\* still streaming, is that of the list, through insertions, echoes, loads,
\* removals and reverts.
LastAssistantExact == store.last = findLastAssistantMessageId(store, store.ids)

\* The token sums are those of the entries, the latest entry is the newest,
\* and only listed messages are counted.
UsageExact ==
  /\ store.total = Cardinality(store.usage)
  /\ store.latest = newest(store.usage)
  /\ store.usage \subseteq Listed

\* A request that is in the queue is offered at its tool call as soon as that is
\* known, whichever of the two came first, by whichever way, and whatever was
\* removed, reverted, loaded or listed between them.
OfferedAtItsCall ==
  \A r \in store.queue : resolved(store, r) => <<r, "part">> \in store.linked

Quiet ==
  /\ chan = <<>> /\ sending = {} /\ load = NoLoad /\ sync = None /\ replies = {}

\* As long as nothing gets lost, every prompt is echoed: with nothing under
\* way no listed prompt says that it is being sent.
PromptsEchoed ==
  ~lost /\ Quiet => \A i \in Listed : store.record[i].status # "sending"

\* Every request that waits for the user in the queue is in the store too,
\* from which its tool call takes it.  (The converse fails: a request that a
\* late answer brings back stays in the store after the user's reply.)
QueuedIsOffered == queued \subseteq store.queue

=============================================================================
