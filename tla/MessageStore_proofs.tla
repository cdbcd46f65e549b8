------------------------ MODULE MessageStore_proofs ------------------------
(***************************************************************************)
(* Theorems about MessageStore, for any number of messages, requests and   *)
(* events and any finite set of prompts: in whichever order events,        *)
(* answers, prompts and reverts come, the cached last message and the      *)
(* token sums are those of the list, every prompt is echoed, and every     *)
(* request that waits is offered, at its tool call once that is shown.     *)
(*                                                                         *)
(* Lemmas on the operators that rebuild the store come first, then types   *)
(* and a sound store, then what the instance and its events say, then the  *)
(* echoes, then the places of the requests.                                *)
(***************************************************************************)
EXTENDS MessageStore, Selections_proofs

-----------------------------------------------------------------------------
(* The store and its operations *)

Stores ==
  [record : [Id -> Record \cup {None}], ids : Seq(Id), last : Id \cup {None},
   usage : SUBSET Message, total : Int, latest : Message \cup {None},
   queue : SUBSET Request, bound : SUBSET Request,
   linked : SUBSET (Request \X {"request", "part"}), revert : Message \cup {None}]

LastExact(st) == st.last = findLastAssistantMessageId(st, st.ids)

UsageIs(st) ==
  /\ st.total = Cardinality(st.usage)
  /\ st.latest = newest(st.usage)
  /\ st.usage \subseteq Range(st.ids)

RecordsKept(st) == \A i \in Range(st.ids) : st.record[i] # None

Sound(st) ==
  st \in Stores /\ LastExact(st) /\ UsageIs(st) /\ RecordsKept(st) /\ IsInjective(st.ids)

\* Prompts that are not echoed have ids of this side, and nothing else has.
PromptsAreOwn(st) ==
  \A i \in Id : st.record[i] # None =>
    /\ st.record[i].status = "sending" <=> i \in Own
    /\ i \in Own => st.record[i].role = "user" /\ st.record[i].parts = {}

\* What an operation on requests leaves alone, and what one on messages does.
SameMessages(st, tt) ==
  /\ tt.record = st.record /\ tt.ids = st.ids /\ tt.last = st.last
  /\ tt.usage = st.usage /\ tt.total = st.total /\ tt.latest = st.latest

SameRequests(st, tt) == tt.queue = st.queue /\ tt.bound = st.bound /\ tt.linked = st.linked

\* Messages are finitely many numbers, and no ids of this side.
LEMMA Ids ==
  /\ Message \in SUBSET Nat /\ IsFiniteSet(Message) /\ IsFiniteSet(Own)
  /\ Message \cap Own = {} /\ Message \subseteq Id /\ Own \subseteq Id
  /\ None \notin Id /\ None \notin Message /\ None \notin Own
  /\ \A ms \in SUBSET Message : IsFiniteSet(ms) /\ ms \in SUBSET Nat /\ Cardinality(ms) \in Nat
<1>1. IsFiniteSet(Message) /\ Message \in SUBSET Nat
  BY MessageAssumption, FS_Interval DEF Message
<1>2. \A ms \in SUBSET Message : IsFiniteSet(ms) /\ ms \in SUBSET Nat /\ Cardinality(ms) \in Nat
  BY <1>1, FS_Subset, FS_CardinalityType
<1> QED
  BY <1>1, <1>2, MessageAssumption DEF Id

\* The greatest of a set of numbers.
LEMMA Greatest ==
  ASSUME NEW ns \in SUBSET Nat, IsFiniteSet(ns), ns # {}
  PROVE  Max(ns) \in ns /\ \A n \in ns : Max(ns) >= n
<1>1. \E m \in ns : \A n \in ns : m >= n
  BY GreatestExists
<1> QED
  BY <1>1 DEF Max

\* The least of a set of numbers.
LEMMA Least ==
  ASSUME NEW ns \in SUBSET Nat, ns # {}
  PROVE  Min(ns) \in ns /\ \A n \in ns : Min(ns) <= n
<1>1. \E m \in ns : \A n \in ns : m <= n
  BY SmallestExists
<1> QED
  BY <1>1 DEF Min

\* The last assistant message depends on who speaks in what is listed.
LEMMA SameSpeakers ==
  ASSUME NEW st, NEW tt, NEW ids,
         \A n \in DOMAIN ids : isOf(tt, ids[n], "assistant") <=> isOf(st, ids[n], "assistant")
  PROVE  findLastAssistantMessageId(tt, ids) = findLastAssistantMessageId(st, ids)
<1>1. {n \in DOMAIN ids : isOf(tt, ids[n], "assistant")} = {n \in DOMAIN ids : isOf(st, ids[n], "assistant")}
  OBVIOUS
<1> QED
  BY <1>1 DEF findLastAssistantMessageId

\* The last assistant message is an id.
LEMMA LastIsId ==
  ASSUME NEW st, NEW ids \in Seq(Id)
  PROVE  findLastAssistantMessageId(st, ids) \in Id \cup {None}
<1> DEFINE spoken == {n \in DOMAIN ids : isOf(st, ids[n], "assistant")}
<1>1. CASE spoken = {}
  BY <1>1 DEF findLastAssistantMessageId
<1>2. CASE spoken # {}
  <2>1. IsFiniteSet(DOMAIN ids) /\ spoken \in SUBSET DOMAIN ids /\ DOMAIN ids \in SUBSET Nat
    <3>1. DOMAIN ids = 1 .. Len(ids) /\ Len(ids) \in Nat
      OBVIOUS
    <3> QED
      BY <3>1, FS_Interval
  <2>2. IsFiniteSet(spoken)
    BY <2>1, FS_Subset
  <2>3. Max(spoken) \in spoken
    BY <1>2, <2>1, <2>2, Greatest
  <2>4. ids[Max(spoken)] \in Id
    BY <2>3
  <2> QED
    BY <1>2, <2>4 DEF findLastAssistantMessageId
<1> QED
  BY <1>1, <1>2

\* A list brings its last assistant message with it.
LEMMA ListedIs ==
  ASSUME NEW st \in Stores, NEW ids \in Seq(Id)
  PROVE  LET tt == listed(st, ids)
         IN  /\ tt \in Stores /\ LastExact(tt) /\ SameRequests(st, tt)
             /\ tt.record = st.record /\ tt.ids = ids /\ tt.revert = st.revert
             /\ tt.usage = st.usage /\ tt.total = st.total /\ tt.latest = st.latest
<1> DEFINE tt == listed(st, ids)
<1>1. /\ tt \in Stores /\ tt.last = findLastAssistantMessageId(st, ids)
      /\ tt.record = st.record /\ tt.ids = ids /\ tt.revert = st.revert
      /\ tt.usage = st.usage /\ tt.total = st.total /\ tt.latest = st.latest
      /\ tt.queue = st.queue /\ tt.bound = st.bound /\ tt.linked = st.linked
  BY LastIsId DEF listed, Stores
<1> HIDE DEF tt
<1>2. findLastAssistantMessageId(tt, ids) = findLastAssistantMessageId(st, ids)
  BY <1>1, SameSpeakers DEF isOf
<1> QED
  BY <1>1, <1>2 DEF LastExact, SameRequests, tt

\* What an operation on requests leaves sound.
LEMMA SameIsSound ==
  ASSUME NEW st, NEW tt \in Stores, SameMessages(st, tt), Sound(st)
  PROVE  Sound(tt) /\ (PromptsAreOwn(st) => PromptsAreOwn(tt))
<1>1. findLastAssistantMessageId(tt, tt.ids) = findLastAssistantMessageId(st, st.ids)
  BY SameSpeakers DEF SameMessages, isOf
<1> QED
  BY <1>1 DEF SameMessages, Sound, LastExact, UsageIs, RecordsKept, PromptsAreOwn

\* What an insertion of a message does.
Upserted(st, tt, i, record) ==
  /\ tt \in Stores /\ LastExact(tt) /\ SameRequests(st, tt)
  /\ Range(tt.ids) = Range(st.ids) \cup {i} /\ tt.revert = st.revert
  /\ IsInjective(st.ids) => IsInjective(tt.ids)
  /\ tt.usage = st.usage /\ tt.total = st.total /\ tt.latest = st.latest
  /\ tt.record[i] \in Record
  /\ tt.record[i].role = record.role /\ tt.record[i].status = record.status
  /\ tt.record[i].parts = IF st.record[i] = None \/ record.parts # {} THEN record.parts
                          ELSE st.record[i].parts
  /\ \A j \in Id : j # i => tt.record[j] = st.record[j]

\* A message is put into the list, at its end if it is new.
LEMMA UpsertIs ==
  ASSUME NEW st \in Stores, NEW i \in Id, NEW record \in Record
  PROVE  Upserted(st, upsertMessage(st, i, record), i, record)
<1> DEFINE old == st.record[i]
           kept == IF old = None \/ record.parts # {} THEN record.parts ELSE old.parts
           new == [record EXCEPT !.parts = kept]
           bare == [st EXCEPT !.record[i] = new]
           ids == IF i \in Range(st.ids) THEN st.ids ELSE Append(st.ids, i)
<1>1. old \in Record \cup {None} /\ st.ids \in Seq(Id) /\ st.record \in [Id -> Record \cup {None}]
  BY DEF Stores
<1>2. kept \in SUBSET Part
  BY <1>1 DEF Record
<1>3. /\ new \in Record /\ new.role = record.role /\ new.status = record.status /\ new.parts = kept
  BY <1>2 DEF Record
<1>4. /\ ids \in Seq(Id) /\ Range(ids) = Range(st.ids) \cup {i}
      /\ IsInjective(st.ids) => IsInjective(ids)
  <2>1. CASE i \in Range(st.ids)
    BY <1>1, <2>1
  <2>2. CASE i \notin Range(st.ids)
    <3>1. /\ Append(st.ids, i) \in Seq(Id) /\ DOMAIN Append(st.ids, i) = 1 .. Len(st.ids) + 1
          /\ DOMAIN st.ids = 1 .. Len(st.ids) /\ Len(st.ids) \in Nat
          /\ \A n \in 1 .. Len(st.ids) : Append(st.ids, i)[n] = st.ids[n]
          /\ Append(st.ids, i)[Len(st.ids) + 1] = i
      BY <1>1
    <3>2. Range(Append(st.ids, i)) = Range(st.ids) \cup {i}
      BY <3>1 DEF Range
    <3>3. IsInjective(st.ids) => IsInjective(Append(st.ids, i))
      BY <2>2, <3>1 DEF IsInjective, Range
    <3> QED
      BY <2>2, <3>1, <3>2, <3>3
  <2> QED
    BY <2>1, <2>2
<1> HIDE DEF new, ids
<1>5. /\ bare \in Stores /\ bare.record = [st.record EXCEPT ![i] = new] /\ SameRequests(st, bare)
      /\ bare.usage = st.usage /\ bare.total = st.total /\ bare.latest = st.latest
      /\ bare.revert = st.revert
  BY <1>1, <1>3 DEF Stores, SameRequests
<1> HIDE DEF bare
<1>6. upsertMessage(st, i, record) = listed(bare, ids)
  BY DEF upsertMessage, bare, ids, new
<1>7. bare.record[i] = new /\ \A j \in Id : j # i => bare.record[j] = st.record[j]
  BY <1>1, <1>5
<1> DEFINE tt == upsertMessage(st, i, record)
<1>8. /\ tt \in Stores /\ LastExact(tt) /\ SameRequests(bare, tt)
      /\ tt.record = bare.record /\ tt.ids = ids /\ tt.revert = bare.revert
      /\ tt.usage = bare.usage /\ tt.total = bare.total /\ tt.latest = bare.latest
  BY <1>4, <1>5, <1>6, ListedIs
<1> HIDE DEF tt
<1>9. SameRequests(st, tt)
  BY <1>5, <1>8 DEF SameRequests
<1>10. /\ tt \in Stores /\ LastExact(tt) /\ SameRequests(st, tt)
       /\ Range(tt.ids) = Range(st.ids) \cup {i} /\ tt.revert = st.revert
       /\ IsInjective(st.ids) => IsInjective(tt.ids)
       /\ tt.usage = st.usage /\ tt.total = st.total /\ tt.latest = st.latest
       /\ tt.record[i] = new /\ \A j \in Id : j # i => tt.record[j] = st.record[j]
  BY <1>4, <1>5, <1>7, <1>8, <1>9
<1> QED
  BY <1>3, <1>10 DEF Upserted, tt

\* A store that was sound is sound with one message more.
LEMMA UpsertSound ==
  ASSUME NEW st, Sound(st), NEW i \in Id, NEW record \in Record
  PROVE  LET tt == upsertMessage(st, i, record)
         IN  /\ Sound(tt)
             /\ PromptsAreOwn(st) /\ (record.status = "sending" <=> i \in Own)
                  /\ (i \in Own => record.role = "user" /\ record.parts = {}) => PromptsAreOwn(tt)
<1> DEFINE tt == upsertMessage(st, i, record)
<1>1. st \in Stores /\ UsageIs(st) /\ RecordsKept(st) /\ IsInjective(st.ids)
  BY DEF Sound
<1>2. /\ tt \in Stores /\ LastExact(tt) /\ Range(tt.ids) = Range(st.ids) \cup {i}
      /\ IsInjective(tt.ids)
      /\ tt.usage = st.usage /\ tt.total = st.total /\ tt.latest = st.latest
      /\ tt.record[i] \in Record
      /\ tt.record[i].role = record.role /\ tt.record[i].status = record.status
      /\ tt.record[i].parts = IF st.record[i] = None \/ record.parts # {} THEN record.parts
                              ELSE st.record[i].parts
      /\ \A j \in Id : j # i => tt.record[j] = st.record[j]
  BY <1>1, UpsertIs DEF Upserted
<1> HIDE DEF tt
<1>3. UsageIs(tt)
  BY <1>1, <1>2 DEF UsageIs
<1>4. RecordsKept(tt)
  <2>1. Range(st.ids) \subseteq Id
    BY <1>1 DEF Stores, Range
  <2> QED
    BY <1>1, <1>2, <2>1, NoneIsNoRecord DEF RecordsKept
<1>5. ASSUME PromptsAreOwn(st), record.status = "sending" <=> i \in Own,
             i \in Own => record.role = "user" /\ record.parts = {}
      PROVE  PromptsAreOwn(tt)
  <2>1. i \in Own => tt.record[i].parts = {}
    BY <1>2, <1>5 DEF PromptsAreOwn
  <2> QED
    BY <1>2, <1>5, <2>1 DEF PromptsAreOwn
<1> QED
  BY <1>2, <1>3, <1>4, <1>5 DEF Sound, tt

\* A message takes the place of a prompt in the list, and its record as well.
LEMMA ReplaceIs ==
  ASSUME NEW st, Sound(st), NEW old \in Own, old \in Range(st.ids), NEW new \in Message,
         st.record[new] = None
  PROVE  LET tt == replaceMessageId(st, old, new)
         IN  /\ Sound(tt) /\ SameRequests(st, tt)
             /\ Range(tt.ids) = (Range(st.ids) \ {old}) \cup {new}
             /\ tt.usage = st.usage /\ tt.total = st.total /\ tt.latest = st.latest
             /\ tt.record[new] = st.record[old]
             /\ \A j \in Id : j # new => tt.record[j] = st.record[j]
<1> DEFINE tt == replaceMessageId(st, old, new)
           bare == [st EXCEPT !.record[new] = st.record[old]]
           ids == [n \in DOMAIN st.ids |-> IF st.ids[n] = old THEN new ELSE st.ids[n]]
<1>1. /\ st \in Stores /\ UsageIs(st) /\ RecordsKept(st) /\ IsInjective(st.ids) /\ old # new
      /\ old \in Id /\ new \in Id /\ old \notin Message
  BY Ids DEF Sound
<1>2. st.ids \in Seq(Id) /\ st.record \in [Id -> Record \cup {None}]
  BY <1>1 DEF Stores
<1>3. ids \in Seq(Id) /\ Range(ids) = (Range(st.ids) \ {old}) \cup {new} /\ IsInjective(ids)
  <2>1. DOMAIN st.ids = 1 .. Len(st.ids) /\ Len(st.ids) \in Nat
    BY <1>2
  <2>2. \A n \in DOMAIN st.ids : ids[n] \in Id
    BY <1>1, <1>2
  <2>3. ids \in Seq(Id)
    <3>1. ids \in [1 .. Len(st.ids) -> Id]
      BY <2>1, <2>2
    <3> QED
      BY <2>1, <3>1
  <2>4. PICK k \in DOMAIN st.ids : st.ids[k] = old
    BY DEF Range
  <2>5. Range(ids) = (Range(st.ids) \ {old}) \cup {new}
    <3>1. DOMAIN ids = DOMAIN st.ids /\ ids[k] = new
      BY <2>4
    <3>2. \A x \in Range(ids) : x \in (Range(st.ids) \ {old}) \cup {new}
      BY <3>1 DEF Range
    <3>3. ASSUME NEW x \in Range(st.ids) \ {old} PROVE x \in Range(ids)
      <4>1. PICK n \in DOMAIN st.ids : st.ids[n] = x
        BY DEF Range
      <4>2. ids[n] = x
        BY <3>3, <4>1
      <4> QED
        BY <3>1, <4>1, <4>2 DEF Range
    <3>4. new \in Range(ids)
      BY <2>4, <3>1 DEF Range
    <3> QED
      BY <3>2, <3>3, <3>4
  <2>6. IsInjective(ids)
    <3>1. \A n \in DOMAIN st.ids : st.ids[n] # new
      BY <1>1 DEF RecordsKept, Range
    <3> QED
      BY <1>1, <3>1 DEF IsInjective
  <2> QED
    BY <2>3, <2>5, <2>6
<1> HIDE DEF ids
<1>4. /\ bare \in Stores /\ SameRequests(st, bare) /\ bare.revert = st.revert
      /\ bare.usage = st.usage /\ bare.total = st.total /\ bare.latest = st.latest
      /\ bare.record[new] = st.record[old]
      /\ \A j \in Id : j # new => bare.record[j] = st.record[j]
  BY <1>1, <1>2 DEF Stores, SameRequests
<1> HIDE DEF bare
<1>5. tt = listed(bare, ids)
  BY DEF replaceMessageId, bare, ids
<1>6. /\ tt \in Stores /\ LastExact(tt) /\ SameRequests(bare, tt)
      /\ tt.record = bare.record /\ tt.ids = ids
      /\ tt.usage = bare.usage /\ tt.total = bare.total /\ tt.latest = bare.latest
  BY <1>3, <1>4, <1>5, ListedIs
<1> HIDE DEF tt
<1>7. st.usage \subseteq Message
  BY <1>1 DEF Stores
<1>8. UsageIs(tt)
  BY <1>1, <1>3, <1>4, <1>6, <1>7 DEF UsageIs
<1>9. RecordsKept(tt)
  <2>1. Range(st.ids) \subseteq Id
    BY <1>2 DEF Range
  <2> QED
    BY <1>1, <1>3, <1>4, <1>6, <2>1 DEF RecordsKept
<1>10. SameRequests(st, tt)
  BY <1>4, <1>6 DEF SameRequests
<1>11. Sound(tt)
  BY <1>3, <1>6, <1>8, <1>9 DEF Sound
<1> QED
  BY <1>3, <1>4, <1>6, <1>10, <1>11 DEF tt

\* The first prompt that was not echoed, if the message is one of the user's.
LEMMA PromptIs ==
  ASSUME NEW st, Sound(st), PromptsAreOwn(st), NEW r \in Role
  PROVE  LET own == findPendingSyntheticMessageId(st, r)
         IN  \/ own # None /\ own \in Own /\ own \in Range(st.ids) /\ r = "user"
             \/ own = None /\ (r = "user" => Range(st.ids) \cap Own = {})
<1> DEFINE open == {n \in DOMAIN st.ids : isOf(st, st.ids[n], r)
                                         /\ st.record[st.ids[n]].status = "sending"}
<1>1. st.ids \in Seq(Id) /\ RecordsKept(st)
  BY DEF Sound, Stores
<1>2. DOMAIN st.ids \subseteq Nat /\ \A n \in DOMAIN st.ids : st.ids[n] \in Id
  BY <1>1
<1>3. \A n \in open : st.ids[n] \in Own /\ st.ids[n] \in Range(st.ids) /\ r = "user"
  BY <1>2 DEF PromptsAreOwn, isOf, Range
<1>4. CASE open = {}
  <2>1. ASSUME r = "user", NEW o \in Range(st.ids) \cap Own PROVE FALSE
    <3>1. PICK n \in DOMAIN st.ids : st.ids[n] = o
      BY <2>1 DEF Range
    <3>2. st.record[o] # None /\ o \in Id
      BY <1>1, <1>2, <3>1 DEF RecordsKept, Range
    <3>3. n \in open
      BY <2>1, <3>1, <3>2 DEF PromptsAreOwn, isOf
    <3> QED
      BY <1>4, <3>3
  <2> QED
    BY <1>4, <2>1 DEF findPendingSyntheticMessageId
<1>5. CASE open # {}
  <2>1. Min(open) \in open
    BY <1>2, <1>5, Least
  <2>2. findPendingSyntheticMessageId(st, r) = st.ids[Min(open)]
    BY <1>5 DEF findPendingSyntheticMessageId
  <2> HIDE DEF open
  <2> QED
    BY <1>3, <2>1, <2>2, Ids
<1> QED
  BY <1>4, <1>5

\* The echo of a prompt takes its place; nothing else changes.
LEMMA ClaimedIs ==
  ASSUME NEW st, Sound(st), PromptsAreOwn(st), NEW m \in Message, NEW r \in Role
  PROVE  LET tt == claimed(st, m, r)
         IN  \/ /\ tt = st
                /\ st.record[m] # None \/ r = "assistant" \/ Range(st.ids) \cap Own = {}
             \/ /\ st.record[m] = None /\ r = "user"
                /\ \E own \in Own \cap Range(st.ids) :
                     /\ Sound(tt) /\ SameRequests(st, tt)
                     /\ Range(tt.ids) = (Range(st.ids) \ {own}) \cup {m}
                     /\ tt.record[m] # None /\ tt.record[m].parts = {}
                     /\ \A j \in Id : j # m => tt.record[j] = st.record[j]
<1> DEFINE own == findPendingSyntheticMessageId(st, r)
<1>1. \/ own # None /\ own \in Own /\ own \in Range(st.ids) /\ r = "user"
      \/ own = None /\ (r = "user" => Range(st.ids) \cap Own = {})
  BY PromptIs
<1> HIDE DEF own
<1>2. CASE st.record[m] # None \/ own = None
  BY <1>1, <1>2 DEF claimed, own, Role
<1>3. CASE st.record[m] = None /\ own # None
  <2>1. claimed(st, m, r) = replaceMessageId(st, own, m)
    BY <1>3 DEF claimed, own
  <2>2. st.record[own] # None /\ st.record[own].parts = {}
    BY <1>1, <1>3, Ids DEF Sound, RecordsKept, PromptsAreOwn
  <2>3. LET tt == replaceMessageId(st, own, m)
        IN  /\ Sound(tt) /\ SameRequests(st, tt)
            /\ Range(tt.ids) = (Range(st.ids) \ {own}) \cup {m}
            /\ tt.record[m] = st.record[own]
            /\ \A j \in Id : j # m => tt.record[j] = st.record[j]
    BY <1>1, <1>3, ReplaceIs
  <2> QED
    BY <1>1, <1>3, <2>1, <2>2, <2>3
<1> QED
  BY <1>2, <1>3

\* What Max is, once a greatest element is known.
LEMMA GreatestIs ==
  ASSUME NEW ns \in SUBSET Nat, NEW n \in ns, \A k \in ns : n >= k
  PROVE  Max(ns) = n
<1>1. \A k \in ns : (\A j \in ns : k >= j) => k = n
  OBVIOUS
<1> QED
  BY <1>1 DEF Max

\* Entries go, and the sum and the latest of them with them.
LEMMA UsageRemoved ==
  ASSUME NEW st \in Stores, st.total = Cardinality(st.usage), st.latest = newest(st.usage), NEW ms
  PROVE  LET tt == removeUsageEntry(st, ms)
         IN  /\ tt \in Stores /\ tt.usage = st.usage \ ms
             /\ tt.total = Cardinality(tt.usage) /\ tt.latest = newest(tt.usage)
             /\ tt.record = st.record /\ tt.ids = st.ids /\ tt.last = st.last
             /\ SameRequests(st, tt) /\ tt.revert = st.revert
<1> DEFINE tt == removeUsageEntry(st, ms)
           left == st.usage \ ms
<1>1. /\ st.usage \in SUBSET Message /\ st.latest \in Message \cup {None}
      /\ left \in SUBSET Message /\ st.usage \cap ms \in SUBSET Message
  BY DEF Stores
<1>2. Cardinality(left) = Cardinality(st.usage) - Cardinality(st.usage \cap ms)
  BY <1>1, Ids, FS_Difference
<1>3. newest(left) \in Message \cup {None}
  BY <1>1, Ids, Greatest DEF newest
<1>4. newest(left) = IF st.latest \in st.usage \cap ms THEN newest(left) ELSE st.latest
  <2>1. CASE st.usage = {}
    BY <2>1 DEF newest
  <2>2. CASE st.usage # {} /\ st.latest \notin ms
    <3>1. /\ st.latest = Max(st.usage) /\ st.latest \in st.usage
          /\ \A k \in st.usage : st.latest >= k
      BY <1>1, <2>2, Ids, Greatest DEF newest
    <3>2. Max(left) = st.latest
      BY <1>1, <2>2, <3>1, Ids, GreatestIs
    <3> QED
      BY <2>2, <3>1, <3>2 DEF newest
  <2>3. CASE st.usage # {} /\ st.latest \in ms
    BY <1>1, <2>3, Ids, Greatest DEF newest
  <2> QED
    BY <2>1, <2>2, <2>3
<1>5. Cardinality(st.usage) \in Nat /\ Cardinality(st.usage \cap ms) \in Nat
  BY <1>1, Ids
<1> HIDE DEF left
<1>6. /\ tt \in Stores /\ tt.usage = left
      /\ tt.total = st.total - Cardinality(st.usage \cap ms)
      /\ tt.latest = IF st.latest \in st.usage \cap ms THEN newest(left) ELSE st.latest
      /\ tt.record = st.record /\ tt.ids = st.ids /\ tt.last = st.last
      /\ tt.queue = st.queue /\ tt.bound = st.bound /\ tt.linked = st.linked
      /\ tt.revert = st.revert
  <2> DEFINE total == st.total - Cardinality(st.usage \cap ms)
             latest == IF st.latest \in st.usage \cap ms THEN newest(left) ELSE st.latest
  <2>1. total \in Int /\ latest \in Message \cup {None}
    BY <1>1, <1>3, <1>5 DEF Stores
  <2>2. tt = [st EXCEPT !.usage = left, !.total = total, !.latest = latest]
    BY DEF removeUsageEntry, left, Stores
  <2> HIDE DEF total, latest, tt
  <2>3. /\ tt \in Stores /\ tt.usage = left /\ tt.total = total /\ tt.latest = latest
        /\ tt.record = st.record /\ tt.ids = st.ids /\ tt.last = st.last
        /\ tt.queue = st.queue /\ tt.bound = st.bound /\ tt.linked = st.linked
        /\ tt.revert = st.revert
    BY <1>1, <2>1, <2>2 DEF Stores
  <2> QED
    BY <2>3 DEF total, latest
<1> HIDE DEF tt
<1> QED
  BY <1>2, <1>4, <1>5, <1>6 DEF SameRequests, tt, left

\* The entry of a complete message takes the place of its last one.
LEMMA UsageUpdated ==
  ASSUME NEW st, Sound(st), NEW m \in Range(st.ids) \cap Message, NEW complete \in BOOLEAN
  PROVE  LET tt == updateUsageWithInfo(st, m, complete)
         IN  /\ Sound(tt) /\ tt.record = st.record /\ tt.ids = st.ids
             /\ SameRequests(st, tt) /\ tt.revert = st.revert
<1> DEFINE rest == removeUsageEntry(st, {m})
           tt == updateUsageWithInfo(st, m, complete)
<1>1. st \in Stores /\ UsageIs(st) /\ LastExact(st) /\ RecordsKept(st) /\ IsInjective(st.ids)
  BY DEF Sound
<1>2. /\ rest \in Stores /\ rest.usage = st.usage \ {m}
      /\ rest.total = Cardinality(rest.usage) /\ rest.latest = newest(rest.usage)
      /\ rest.record = st.record /\ rest.ids = st.ids /\ rest.last = st.last
      /\ SameRequests(st, rest) /\ rest.revert = st.revert
  BY <1>1, UsageRemoved DEF UsageIs
<1> HIDE DEF rest
<1>3. /\ tt \in Stores /\ tt.usage \subseteq Range(st.ids)
      /\ tt.total = Cardinality(tt.usage) /\ tt.latest = newest(tt.usage)
      /\ tt.record = st.record /\ tt.ids = st.ids /\ tt.last = st.last
      /\ SameRequests(st, tt) /\ tt.revert = st.revert
  <2>1. CASE ~complete
    BY <1>1, <1>2, <2>1 DEF updateUsageWithInfo, rest, UsageIs
  <2>2. CASE complete
    <3> DEFINE more == rest.usage \cup {m}
    <3>1. rest.usage \in SUBSET Message /\ m \notin rest.usage /\ more \in SUBSET Message
      BY <1>2 DEF Stores
    <3>2. Cardinality(more) = rest.total + 1
      BY <1>2, <3>1, Ids, FS_AddElement
    <3>3. newest(more) = IF rest.latest = None \/ m >= rest.latest THEN m ELSE rest.latest
      <4>1. newest(more) = Max(more)
        BY DEF newest
      <4>2. CASE rest.usage = {}
        <5>1. Max(more) = m
          BY <3>1, <4>2, Ids, GreatestIs
        <5> QED
          BY <1>2, <4>1, <4>2, <5>1 DEF newest
      <4>3. CASE rest.usage # {}
        <5>1. /\ rest.latest \in rest.usage /\ \A k \in rest.usage : rest.latest >= k
          BY <1>2, <3>1, <4>3, Ids, Greatest DEF newest
        <5>2. rest.latest # None /\ rest.latest \in Nat /\ m \in Nat
          BY <3>1, <5>1, Ids
        <5>3. CASE m >= rest.latest
          <6>1. ASSUME NEW k \in more PROVE m >= k
            <7>1. k \in Nat /\ (k = m \/ rest.latest >= k)
              BY <3>1, <5>1, <5>2, Ids
            <7> QED
              BY <5>2, <5>3, <7>1
          <6>2. Max(more) = m
            BY <3>1, <6>1, Ids, GreatestIs
          <6> QED
            BY <4>1, <5>3, <6>2
        <5>4. CASE ~ (m >= rest.latest)
          <6>1. \A k \in more : rest.latest >= k
            BY <5>1, <5>2, <5>4
          <6>2. Max(more) = rest.latest
            BY <3>1, <5>1, <6>1, Ids, GreatestIs
          <6> QED
            BY <4>1, <5>2, <5>4, <6>2
        <5> QED
          BY <5>3, <5>4
      <4> QED
        BY <4>2, <4>3
    <3> HIDE DEF more
    <3>4. /\ tt \in Stores /\ tt.usage = more /\ tt.total = rest.total + 1
          /\ tt.latest = IF rest.latest = None \/ m >= rest.latest THEN m ELSE rest.latest
          /\ tt.record = rest.record /\ tt.ids = rest.ids /\ tt.last = rest.last
          /\ tt.queue = rest.queue /\ tt.bound = rest.bound /\ tt.linked = rest.linked
          /\ tt.revert = rest.revert
      <4> DEFINE latest == IF rest.latest = None \/ m >= rest.latest THEN m ELSE rest.latest
      <4>1. latest \in Message \cup {None} /\ rest.total + 1 \in Int
        BY <1>2 DEF Stores
      <4>2. tt = [rest EXCEPT !.usage = more, !.total = rest.total + 1, !.latest = latest]
        BY <1>2, <2>2 DEF updateUsageWithInfo, rest, Stores, more
      <4> HIDE DEF latest, tt
      <4>3. /\ tt \in Stores /\ tt.usage = more /\ tt.total = rest.total + 1 /\ tt.latest = latest
            /\ tt.record = rest.record /\ tt.ids = rest.ids /\ tt.last = rest.last
            /\ tt.queue = rest.queue /\ tt.bound = rest.bound /\ tt.linked = rest.linked
            /\ tt.revert = rest.revert
        BY <1>2, <3>1, <4>1, <4>2 DEF Stores
      <4> QED
        BY <4>3 DEF latest
    <3>5. more \subseteq Range(st.ids)
      BY <1>1, <1>2 DEF UsageIs, more
    <3> HIDE DEF tt
    <3> QED
      BY <1>2, <3>2, <3>3, <3>4, <3>5 DEF SameRequests
  <2> QED
    BY <2>1, <2>2
<1> HIDE DEF tt
<1>4. findLastAssistantMessageId(tt, tt.ids) = findLastAssistantMessageId(st, st.ids)
  BY <1>3, SameSpeakers DEF isOf
<1>5. Sound(tt)
  BY <1>1, <1>3, <1>4 DEF Sound, LastExact, UsageIs, RecordsKept
<1> QED
  BY <1>3, <1>5 DEF tt

\* What links name: a request, by its own id or by that of a tool call.
LEMMA LinksIn ==
  ASSUME NEW rs \in SUBSET Request
  PROVE  linksOf(rs) \subseteq Request \X {"request", "part"}
BY DEF linksOf

\* Requests that are put in stand at their tool call if it is there.
LEMMA RequestsPut ==
  ASSUME NEW st \in Stores, NEW rs \in SUBSET Request
  PROVE  LET tt == upsertRequests(st, rs)
         IN  /\ tt \in Stores /\ SameMessages(st, tt)
             /\ tt.queue = st.queue \cup rs
             /\ tt.bound = (st.bound \ rs) \cup {r \in rs : resolved(st, r)}
             /\ tt.linked = st.linked \cup {<<r, IF resolved(st, r) THEN "part" ELSE "request">> : r \in rs}
<1> DEFINE links == {<<r, IF resolved(st, r) THEN "part" ELSE "request">> : r \in rs}
<1>1. links \subseteq Request \X {"request", "part"}
  OBVIOUS
<1>2. {r \in rs : resolved(st, r)} \subseteq Request
  OBVIOUS
<1> HIDE DEF links
<1> QED
  BY <1>1, <1>2 DEF upsertRequests, Stores, SameMessages, links

\* One request is put in like a set of one.
LEMMA RequestPut ==
  ASSUME NEW st \in Stores, NEW r \in Request
  PROVE  LET tt == upsertRequest(st, r)
         IN  /\ tt \in Stores /\ SameMessages(st, tt)
             /\ tt.queue = st.queue \cup {r}
             /\ tt.bound = IF resolved(st, r) THEN st.bound \cup {r} ELSE st.bound \ {r}
             /\ tt.linked = st.linked \cup {<<r, IF resolved(st, r) THEN "part" ELSE "request">>}
<1>1. <<r, IF resolved(st, r) THEN "part" ELSE "request">> \in Request \X {"request", "part"}
  OBVIOUS
<1> QED
  BY <1>1 DEF upsertRequest, Stores, SameMessages

\* Requests that go leave nothing behind.
LEMMA RequestsRemoved ==
  ASSUME NEW st \in Stores, NEW rs \in SUBSET Request
  PROVE  LET tt == removeRequests(st, rs)
         IN  /\ tt \in Stores /\ SameMessages(st, tt)
             /\ tt.queue = st.queue \ rs /\ tt.bound = st.bound \ rs
             /\ tt.linked = st.linked \ linksOf(rs)
BY DEF removeRequests, Stores, SameMessages

\* What was not bound is, once its tool call is there.
LEMMA Reconciled ==
  ASSUME NEW st \in Stores, NEW rs \in SUBSET Request
  PROVE  LET tt == reconcilePending(st, rs)
             open == {r \in (st.queue \ st.bound) \cap rs : resolved(st, r)}
         IN  /\ tt \in Stores /\ SameMessages(st, tt)
             /\ tt.queue = st.queue /\ tt.bound = st.bound \cup open
             /\ st.linked \subseteq tt.linked
             /\ \A r \in open : <<r, "part">> \in tt.linked
<1> DEFINE open == {r \in (st.queue \ st.bound) \cap rs : resolved(st, r)}
           tt == upsertRequests(st, open)
<1>1. open \in SUBSET Request /\ open \subseteq st.queue /\ \A r \in open : resolved(st, r)
  OBVIOUS
<1>2. reconcilePending(st, rs) = tt
  BY DEF reconcilePending
<1> HIDE DEF open, tt
<1>3. /\ tt \in Stores /\ SameMessages(st, tt)
      /\ tt.queue = st.queue \cup open
      /\ tt.bound = (st.bound \ open) \cup {r \in open : resolved(st, r)}
      /\ tt.linked = st.linked \cup {<<r, IF resolved(st, r) THEN "part" ELSE "request">> : r \in open}
  BY <1>1, RequestsPut DEF tt
<1>4. \A r \in open : <<r, "part">> \in tt.linked
  BY <1>1, <1>3
<1>5. tt.queue = st.queue /\ tt.bound = st.bound \cup open /\ st.linked \subseteq tt.linked
  BY <1>1, <1>3
<1> QED
  BY <1>2, <1>3, <1>4, <1>5 DEF open

\* A permission that waited for the tool call moves to it.
LEMMA Rebound ==
  ASSUME NEW st \in Stores, NEW m \in Message
  PROVE  LET tt == rebindPermissionForPart(st, m)
             mine == {r \in Permission : /\ about[r] = m /\ <<r, "request">> \in st.linked
                                         /\ resolved(st, r)}
         IN  /\ tt \in Stores /\ SameMessages(st, tt)
             /\ tt.queue = st.queue /\ tt.bound = st.bound \cup (mine \cap st.queue)
             /\ tt.linked = (st.linked \ (mine \X {"request"})) \cup (mine \X {"part"})
<1> DEFINE mine == {r \in Permission : /\ about[r] = m /\ <<r, "request">> \in st.linked
                                       /\ resolved(st, r)}
<1>1. mine \subseteq Request
  BY DEF Request
<1>2. mine \X {"part"} \subseteq Request \X {"request", "part"}
  BY <1>1
<1>3. rebindPermissionForPart(st, m) =
        [st EXCEPT !.linked = (@ \ (mine \X {"request"})) \cup (mine \X {"part"}),
                   !.bound = @ \cup (mine \cap st.queue)]
  BY DEF rebindPermissionForPart
<1> HIDE DEF mine
<1>4. LET tt == [st EXCEPT !.linked = (@ \ (mine \X {"request"})) \cup (mine \X {"part"}),
                           !.bound = @ \cup (mine \cap st.queue)]
      IN  /\ tt \in Stores /\ SameMessages(st, tt)
          /\ tt.queue = st.queue /\ tt.bound = st.bound \cup (mine \cap st.queue)
          /\ tt.linked = (st.linked \ (mine \X {"request"})) \cup (mine \X {"part"})
  BY <1>1, <1>2 DEF Stores, SameMessages
<1> QED
  BY <1>3, <1>4 DEF mine

\* What a shorter list leaves alone: records, requests and their links.
Shortened(st, tt) ==
  /\ Sound(tt) /\ PromptsAreOwn(tt) /\ SameRequests(st, tt)
  /\ tt.record = st.record /\ Range(tt.ids) \subseteq Range(st.ids)

\* Messages go from the list and from the sums.
LEMMA ListShortened ==
  ASSUME NEW st, Sound(st), PromptsAreOwn(st), NEW gone, NEW ids \in Seq(Id),
         Range(ids) = Range(st.ids) \ gone, IsInjective(ids)
  PROVE  Shortened(st, listed(removeUsageEntry(st, gone), ids))
<1> DEFINE rest == removeUsageEntry(st, gone)
           tt == listed(rest, ids)
<1>1. st \in Stores /\ UsageIs(st) /\ RecordsKept(st)
  BY DEF Sound
<1>2. /\ rest \in Stores /\ rest.usage = st.usage \ gone
      /\ rest.total = Cardinality(rest.usage) /\ rest.latest = newest(rest.usage)
      /\ rest.record = st.record /\ SameRequests(st, rest)
  BY <1>1, UsageRemoved DEF UsageIs
<1> HIDE DEF rest
<1>3. /\ tt \in Stores /\ LastExact(tt) /\ SameRequests(rest, tt)
      /\ tt.record = rest.record /\ tt.ids = ids
      /\ tt.usage = rest.usage /\ tt.total = rest.total /\ tt.latest = rest.latest
  BY <1>2, ListedIs
<1> HIDE DEF tt
<1>4. UsageIs(tt)
  BY <1>1, <1>2, <1>3 DEF UsageIs
<1>5. RecordsKept(tt)
  BY <1>1, <1>2, <1>3 DEF RecordsKept
<1>6. Sound(tt)
  BY <1>3, <1>4, <1>5 DEF Sound
<1>7. PromptsAreOwn(tt)
  BY <1>2, <1>3 DEF PromptsAreOwn
<1>8. SameRequests(st, tt)
  BY <1>2, <1>3 DEF SameRequests
<1> QED
  BY <1>2, <1>3, <1>6, <1>7, <1>8 DEF Shortened, tt, rest

\* A message goes from the list and the sums.
LEMMA MessageRemoved ==
  ASSUME NEW st, Sound(st), PromptsAreOwn(st), NEW m \in Message
  PROVE  Shortened(st, removeMessage(st, m))
<1>1. /\ Without(st.ids, {m}) \in Seq(Id) /\ Range(Without(st.ids, {m})) = Range(st.ids) \ {m}
      /\ IsInjective(Without(st.ids, {m}))
  BY WithoutProperties DEF Sound, Stores
<1> QED
  BY <1>1, ListShortened DEF removeMessage

\* The same messages have a record.
SameKnown(st, tt) == \A j \in Id : tt.record[j] = None <=> st.record[j] = None

\* A part goes from its message.
LEMMA PartRemoved ==
  ASSUME NEW st, Sound(st), PromptsAreOwn(st), NEW m \in Message, NEW p \in Part
  PROVE  LET tt == removeMessagePart(st, m, p)
         IN  /\ Sound(tt) /\ PromptsAreOwn(tt) /\ tt.ids = st.ids
             /\ SameKnown(st, tt)
             /\ \A r \in Request : resolved(tt, r) => resolved(st, r)
             /\ SameRequests(st, tt)
<1> DEFINE tt == removeMessagePart(st, m, p)
<1>1. CASE st.record[m] = None
  BY <1>1 DEF removeMessagePart, SameKnown, SameRequests
<1>2. CASE st.record[m] # None
  <2>1. st \in Stores /\ m \in Id /\ m \notin Own /\ st.record[m] \in Record
    BY <1>2, Ids DEF Sound, Stores
  <2>2. tt = [st EXCEPT !.record[m].parts = @ \ {p}]
    BY <1>2 DEF removeMessagePart
  <2> DEFINE new == [st.record[m] EXCEPT !.parts = @ \ {p}]
  <2>3. new \in Record /\ new.role = st.record[m].role /\ new.status = st.record[m].status /\ new # None
    BY <2>1, NoneIsNoRecord DEF Record
  <2>10. new.parts \subseteq st.record[m].parts
    BY <2>1 DEF Record
  <2> HIDE DEF tt
  <2>4. /\ tt \in Stores /\ tt.record = [st.record EXCEPT ![m] = new]
        /\ tt.ids = st.ids /\ tt.last = st.last
        /\ tt.usage = st.usage /\ tt.total = st.total /\ tt.latest = st.latest
        /\ SameRequests(st, tt)
    BY <2>1, <2>2, <2>3 DEF Stores, SameRequests
  <2> HIDE DEF new
  <2>5. /\ st.record \in [Id -> Record \cup {None}] /\ tt.record[m] = new
        /\ \A j \in Id : j # m => tt.record[j] = st.record[j]
    BY <2>1, <2>4 DEF Stores
  <2>6. Range(st.ids) \subseteq Id
    BY <2>1 DEF Stores, Range
  <2>7. findLastAssistantMessageId(tt, tt.ids) = findLastAssistantMessageId(st, st.ids)
    <3>1. \A j \in Id : isOf(tt, j, "assistant") <=> isOf(st, j, "assistant")
      BY <1>2, <2>3, <2>5 DEF isOf
    <3>2. \A n \in DOMAIN st.ids : st.ids[n] \in Id
      BY <2>6 DEF Range
    <3> QED
      BY <2>4, <3>1, <3>2, SameSpeakers
  <2>8. Sound(tt)
    BY <2>3, <2>4, <2>5, <2>6, <2>7 DEF Sound, LastExact, UsageIs, RecordsKept
  <2>9. PromptsAreOwn(tt)
    BY <1>2, <2>1, <2>3, <2>5 DEF PromptsAreOwn
  <2>11. SameKnown(st, tt)
    BY <1>2, <2>3, <2>5 DEF SameKnown
  <2>12. ASSUME NEW r \in Request, resolved(tt, r) PROVE resolved(st, r)
    <3>1. CASE about[r] = m
      BY <1>2, <2>5, <2>10, <2>12, <3>1 DEF resolved
    <3>2. CASE about[r] # m
      <4>1. tt.record[about[r]] = st.record[about[r]]
        BY <2>4, <2>1, <3>2 DEF Stores
      <4> QED
        BY <2>12, <4>1 DEF resolved
    <3> QED
      BY <3>1, <3>2
  <2> QED
    BY <2>4, <2>8, <2>9, <2>11, <2>12 DEF tt
<1> QED
  BY <1>1, <1>2

\* From a message on, all goes from the list and the sums.
LEMMA Pruned ==
  ASSUME NEW st, Sound(st), PromptsAreOwn(st), NEW m \in Message \cup {None}
  PROVE  Shortened(st, pruneMessagesAfterRevert(st, m))
<1>1. IsInjective(st.ids) /\ st.ids \in Seq(Id) /\ Range(st.ids) \subseteq Id
  BY DEF Sound, Stores, Range
<1>2. CASE m \notin Range(st.ids)
  BY <1>2 DEF pruneMessagesAfterRevert, Shortened, SameRequests
<1>3. CASE m \in Range(st.ids)
  <2> DEFINE first == CHOOSE n \in DOMAIN st.ids : st.ids[n] = m
             gone == {st.ids[n] : n \in first .. Len(st.ids)}
             ids == SubSeq(st.ids, 1, first - 1)
             tt == pruneMessagesAfterRevert(st, m)
  <2>1. first \in 1 .. Len(st.ids) /\ Len(st.ids) \in Nat /\ DOMAIN st.ids = 1 .. Len(st.ids)
    BY <1>1, <1>3 DEF Range
  <2>2. tt = listed(removeUsageEntry(st, gone), ids)
    BY <1>3 DEF pruneMessagesAfterRevert
  <2> HIDE DEF first, tt
  <2>3. /\ ids \in Seq(Id) /\ DOMAIN ids = 1 .. first - 1
        /\ \A n \in 1 .. first - 1 : ids[n] = st.ids[n]
    BY <1>1, <2>1
  <2>4. Range(ids) = Range(st.ids) \ gone /\ IsInjective(ids)
    <3>1. IsInjective(ids)
      BY <1>1, <2>1, <2>3 DEF IsInjective
    <3>2. ASSUME NEW x \in Range(ids) PROVE x \in Range(st.ids) \ gone
      <4>1. PICK n \in 1 .. first - 1 : ids[n] = x
        BY <2>3 DEF Range
      <4>2. x = st.ids[n] /\ n \in DOMAIN st.ids
        BY <2>1, <2>3, <4>1
      <4>3. \A k \in first .. Len(st.ids) : st.ids[k] # x
        BY <1>1, <2>1, <4>1, <4>2 DEF IsInjective
      <4> QED
        BY <4>2, <4>3 DEF Range
    <3>3. ASSUME NEW x \in Range(st.ids) \ gone PROVE x \in Range(ids)
      <4>1. PICK n \in 1 .. Len(st.ids) : st.ids[n] = x
        BY <2>1 DEF Range
      <4>2. n \in 1 .. first - 1
        BY <2>1, <3>3, <4>1
      <4> QED
        BY <2>3, <4>1, <4>2 DEF Range
    <3> QED
      BY <3>1, <3>2, <3>3
  <2> HIDE DEF ids, gone
  <2> QED
    BY <2>2, <2>3, <2>4, ListShortened DEF tt
<1> QED
  BY <1>2, <1>3

\* The answer to session.messages takes the place of the list.
LEMMA Hydrated ==
  ASSUME NEW st \in Stores, PromptsAreOwn(st), NEW s \in Load, role \in [Message -> Role]
  PROVE  LET tt == hydrateMessages(st, s)
         IN  /\ Sound(tt) /\ PromptsAreOwn(tt) /\ SameRequests(st, tt)
             /\ Range(tt.ids) = s.list
             /\ \A j \in Id : j \notin s.list => tt.record[j] = st.record[j]
<1> DEFINE tt == hydrateMessages(st, s)
           partsOf(m) == IF s.part[m] \in Part THEN {s.part[m]}
                         ELSE IF st.record[m] = None THEN {} ELSE st.record[m].parts
           heard(m) == [role |-> role[m], status |-> "complete", parts |-> partsOf(m)]
           recorded == [i \in Id |-> IF i \in s.list THEN heard(i) ELSE st.record[i]]
           ms == s.ended \cap s.list
           bare == rebuildUsage([st EXCEPT !.record = recorded], ms)
<1>1. /\ s.list \in SUBSET Message /\ s.ended \subseteq Message
      /\ st.record \in [Id -> Record \cup {None}]
  BY DEF Load, Stores
<1>2. \A m \in s.list : heard(m) \in Record
  <2> SUFFICES ASSUME NEW m \in s.list PROVE heard(m) \in Record
    OBVIOUS
  <2>1. m \in Id /\ role[m] \in Role /\ st.record[m] \in Record \cup {None}
    BY <1>1, Ids
  <2>2. partsOf(m) \subseteq Part
    BY <2>1 DEF Record
  <2> HIDE DEF partsOf
  <2> QED
    BY <2>1, <2>2 DEF Record
<1>3. \A m \in s.list : heard(m).status = "complete"
  OBVIOUS
<1>4. tt = listed(bare, InOrder(s.list))
  BY DEF hydrateMessages
<1> HIDE DEF heard, tt
<1>5. /\ recorded \in [Id -> Record \cup {None}]
      /\ \A j \in Id : recorded[j] = IF j \in s.list THEN heard(j) ELSE st.record[j]
  BY <1>1, <1>2
<1> HIDE DEF recorded
<1>6. ms \in SUBSET Message /\ newest(ms) \in Message \cup {None} /\ Cardinality(ms) \in Nat
  <2>1. ms \in SUBSET Message
    BY <1>1
  <2> QED
    BY <2>1, Ids, Greatest DEF newest
<1>7. /\ bare \in Stores /\ bare.record = recorded
      /\ bare.usage = ms /\ bare.total = Cardinality(ms) /\ bare.latest = newest(ms)
      /\ SameRequests(st, bare)
  <2> DEFINE mid == [st EXCEPT !.record = recorded]
  <2>1. /\ mid \in Stores /\ mid.record = recorded
        /\ mid.queue = st.queue /\ mid.bound = st.bound /\ mid.linked = st.linked
    BY <1>5 DEF Stores
  <2> DEFINE total == Cardinality(ms)
             latest == newest(ms)
  <2>2. bare = [mid EXCEPT !.usage = ms, !.total = total, !.latest = latest]
    BY DEF rebuildUsage
  <2>3. ms \in SUBSET Message /\ total \in Int /\ latest \in Message \cup {None}
    BY <1>6
  <2> HIDE DEF ms, mid, bare, total, latest
  <2>4. /\ bare \in Stores /\ bare.record = mid.record
        /\ bare.usage = ms /\ bare.total = total /\ bare.latest = latest
        /\ bare.queue = mid.queue /\ bare.bound = mid.bound /\ bare.linked = mid.linked
    BY <2>1, <2>2, <2>3 DEF Stores
  <2> QED
    BY <2>1, <2>4 DEF SameRequests, total, latest
<1> HIDE DEF bare
<1>8. /\ InOrder(s.list) \in Seq(Id) /\ IsInjective(InOrder(s.list)) /\ Range(InOrder(s.list)) = s.list
  <2>1. /\ InOrder(s.list) \in Seq(s.list) /\ IsInjective(InOrder(s.list))
        /\ Range(InOrder(s.list)) = s.list
    BY <1>1, Ids, InOrderProperties
  <2>2. s.list \subseteq Id
    BY <1>1, Ids
  <2> QED
    BY <2>1, <2>2, SeqMonotonic
<1>9. /\ tt \in Stores /\ LastExact(tt) /\ SameRequests(bare, tt)
      /\ tt.record = bare.record /\ tt.ids = InOrder(s.list)
      /\ tt.usage = bare.usage /\ tt.total = bare.total /\ tt.latest = bare.latest
  BY <1>4, <1>7, <1>8, ListedIs
<1>10. UsageIs(tt)
  BY <1>7, <1>8, <1>9 DEF UsageIs
<1>11. RecordsKept(tt)
  <2>1. \A j \in s.list : recorded[j] \in Record /\ recorded[j] # None
    BY <1>1, <1>2, <1>5, Ids, NoneIsNoRecord
  <2> QED
    BY <1>7, <1>8, <1>9, <2>1 DEF RecordsKept
<1>12. PromptsAreOwn(tt)
  BY <1>1, <1>3, <1>5, <1>7, <1>9, Ids DEF PromptsAreOwn
<1>13. Sound(tt)
  BY <1>8, <1>9, <1>10, <1>11 DEF Sound
<1>14. SameRequests(st, tt)
  BY <1>7, <1>9 DEF SameRequests
<1> QED
  BY <1>5, <1>7, <1>8, <1>9, <1>12, <1>13, <1>14 DEF tt

\* An empty answer changes nothing; after another one what waits is reconciled.
LEMMA Seeded ==
  ASSUME NEW st, Sound(st), PromptsAreOwn(st), NEW s \in Load, role \in [Message -> Role],
         memory \in Message \cup {None}
  PROVE  LET tt == seedSessionMessages(st, s)
         IN  \/ tt = st
             \/ /\ Sound(tt) /\ PromptsAreOwn(tt) /\ Range(tt.ids) = s.list
                /\ tt.queue = st.queue /\ st.bound \subseteq tt.bound /\ st.linked \subseteq tt.linked
                /\ \A j \in Id : j \notin s.list => tt.record[j] = st.record[j]
                /\ \A r \in st.queue \ st.bound :
                     \/ <<r, "part">> \in tt.linked /\ r \in tt.bound
                     \/ ~resolved(tt, r) /\ r \notin tt.bound
<1> DEFINE ready == [st EXCEPT !.revert = IF memory = None THEN @ ELSE memory]
           heard == hydrateMessages(ready, s)
           tt == reconcilePending(heard, Request)
<1>1. CASE s.list = {}
  BY <1>1 DEF seedSessionMessages
<1>2. CASE s.list # {}
  <2>1. seedSessionMessages(st, s) = tt
    BY <1>2 DEF seedSessionMessages
  <2>2. ready \in Stores /\ ready.record = st.record /\ SameRequests(st, ready)
    BY DEF Sound, Stores, SameRequests
  <2> HIDE DEF ready
  <2>3. PromptsAreOwn(ready)
    BY <2>2 DEF PromptsAreOwn
  <2>4. /\ Sound(heard) /\ PromptsAreOwn(heard) /\ SameRequests(ready, heard)
        /\ Range(heard.ids) = s.list
        /\ \A j \in Id : j \notin s.list => heard.record[j] = ready.record[j]
    BY <2>2, <2>3, Hydrated
  <2> HIDE DEF heard
  <2> DEFINE open == {r \in (heard.queue \ heard.bound) \cap Request : resolved(heard, r)}
  <2>5. /\ tt \in Stores /\ SameMessages(heard, tt)
        /\ tt.queue = heard.queue /\ tt.bound = heard.bound \cup open
        /\ heard.linked \subseteq tt.linked
        /\ \A r \in open : <<r, "part">> \in tt.linked
    BY <2>4, Reconciled DEF Sound
  <2> HIDE DEF tt
  <2>6. Sound(tt) /\ PromptsAreOwn(tt)
    BY <2>4, <2>5, SameIsSound
  <2>7. tt.ids = heard.ids /\ tt.record = heard.record
    BY <2>5 DEF SameMessages
  <2>8. heard.queue = st.queue /\ heard.bound = st.bound /\ heard.linked = st.linked
        /\ heard.queue \subseteq Request
    BY <2>2, <2>4 DEF SameRequests, Sound, Stores
  <2>9. ASSUME NEW r \in st.queue \ st.bound
        PROVE  \/ <<r, "part">> \in tt.linked /\ r \in tt.bound
               \/ ~resolved(tt, r) /\ r \notin tt.bound
    <3>1. resolved(tt, r) <=> resolved(heard, r)
      BY <2>7 DEF resolved
    <3> QED
      BY <2>5, <2>8, <3>1
  <2>10. \A j \in Id : j \notin s.list => tt.record[j] = st.record[j]
    BY <2>2, <2>4, <2>7
  <2> QED
    BY <2>1, <2>4, <2>5, <2>6, <2>7, <2>8, <2>9, <2>10
<1> QED
  BY <1>1, <1>2

\* A request that waits for the user, or not, is where its tool call is.
PlacedIn(st, r) ==
  \/ r \in st.bound /\ <<r, "part">> \in st.linked
  \/ r \notin st.bound /\ <<r, "request">> \in st.linked /\ ~resolved(st, r)

\* What the head of a message that is said by r changes.
HeadShown(st, tt, m, r) ==
  /\ Sound(tt) /\ PromptsAreOwn(tt) /\ SameRequests(st, tt)
  /\ tt.record[m] # None
  /\ tt.record[m].parts = IF st.record[m] = None THEN {} ELSE st.record[m].parts
  /\ \A j \in Message : j # m => tt.record[j] = st.record[j]
  /\ Range(tt.ids) \cap Own \subseteq Range(st.ids)
  /\ \/ st.record[m] # None \/ r = "assistant" \/ Range(tt.ids) \cap Own = {}
     \/ \E own \in Own \cap Range(st.ids) : own \notin Range(tt.ids)

\* What a part of a message changes.
CallShown(st, tt, m) ==
  /\ Sound(tt) /\ PromptsAreOwn(tt) /\ tt.queue = st.queue
  /\ Range(tt.ids) \cap Own = Range(st.ids) \cap Own
  /\ tt.record[m] # None
  /\ \A j \in Message : j # m => tt.record[j] = st.record[j]
  /\ \A r \in st.queue : about[r] \in Message /\ PlacedIn(st, r) => PlacedIn(tt, r)

\* The head of a message: its prompt goes from the list if it has one, and no
\* tool call comes or goes.
LEMMA UpdateHandled ==
  ASSUME NEW st, Sound(st), PromptsAreOwn(st), NEW m \in Message, NEW r \in Role, NEW complete \in BOOLEAN
  PROVE  LET record == [role |-> r, status |-> IF complete THEN "complete" ELSE "streaming", parts |-> {}]
             tt == updateUsageWithInfo(upsertMessage(claimed(st, m, r), m, record), m, complete)
         IN  HeadShown(st, tt, m, r)
<1> DEFINE record == [role |-> r, status |-> IF complete THEN "complete" ELSE "streaming", parts |-> {}]
           ready == claimed(st, m, r)
           known == upsertMessage(ready, m, record)
           tt == updateUsageWithInfo(known, m, complete)
<1>1. /\ record \in Record /\ record.parts = {} /\ record.role = r /\ record.status # "sending"
      /\ m \in Id /\ m \notin Own /\ Own \subseteq Id /\ Message \subseteq Id
  BY Ids DEF Record, Role
<1> HIDE DEF record
<1>2. /\ Sound(ready) /\ SameRequests(st, ready)
      /\ ready.record[m] # None => ready.record[m].parts = IF st.record[m] = None THEN {} ELSE st.record[m].parts
      /\ ready.record[m] = None => st.record[m] = None
      /\ \A j \in Message : j # m => ready.record[j] = st.record[j]
      /\ \A j \in Id : j # m => ready.record[j] = st.record[j]
      /\ Range(ready.ids) \cap Own \subseteq Range(st.ids)
      /\ \/ st.record[m] # None \/ r = "assistant" \/ Range(ready.ids) \cap Own = {}
         \/ \E own \in Own \cap Range(st.ids) : own \notin Range(ready.ids)
  <2>1. CASE /\ ready = st
             /\ st.record[m] # None \/ r = "assistant" \/ Range(st.ids) \cap Own = {}
    BY <2>1 DEF SameRequests
  <2>2. CASE /\ st.record[m] = None
             /\ \E own \in Own \cap Range(st.ids) :
                  /\ Sound(ready) /\ SameRequests(st, ready)
                  /\ Range(ready.ids) = (Range(st.ids) \ {own}) \cup {m}
                  /\ ready.record[m] # None /\ ready.record[m].parts = {}
                  /\ \A j \in Id : j # m => ready.record[j] = st.record[j]
    BY <1>1, <2>2, Ids
  <2>3. LET tt1 == claimed(st, m, r)
         IN  \/ /\ tt1 = st
                /\ st.record[m] # None \/ r = "assistant" \/ Range(st.ids) \cap Own = {}
             \/ /\ st.record[m] = None /\ r = "user"
                /\ \E own \in Own \cap Range(st.ids) :
                     /\ Sound(tt1) /\ SameRequests(st, tt1)
                     /\ Range(tt1.ids) = (Range(st.ids) \ {own}) \cup {m}
                     /\ tt1.record[m] # None /\ tt1.record[m].parts = {}
                     /\ \A j \in Id : j # m => tt1.record[j] = st.record[j]
    BY ClaimedIs
  <2> QED
    BY <2>1, <2>2, <2>3
<1> HIDE DEF ready
<1>3. ready \in Stores /\ IsInjective(ready.ids)
  BY <1>2 DEF Sound
<1>4. /\ SameRequests(ready, known) /\ Range(known.ids) = Range(ready.ids) \cup {m}
      /\ known.record[m] \in Record
      /\ known.record[m].role = record.role /\ known.record[m].status = record.status
      /\ known.record[m].parts = IF ready.record[m] = None \/ record.parts # {} THEN record.parts
                                 ELSE ready.record[m].parts
      /\ \A j \in Id : j # m => known.record[j] = ready.record[j]
  <2>1. Upserted(ready, known, m, record)
    BY <1>1, <1>3, UpsertIs
  <2> HIDE DEF known
  <2> QED
    BY <2>1 DEF Upserted
<1>5. Sound(known)
  BY <1>1, <1>2, UpsertSound
<1> HIDE DEF known
<1>6. PromptsAreOwn(known)
  <2>1. ASSUME NEW j \in Id, j # m, known.record[j] # None
        PROVE  known.record[j] = st.record[j]
    BY <1>2, <1>4, <2>1
  <2> QED
    BY <1>1, <1>4, <2>1 DEF PromptsAreOwn
<1>7. m \in Range(known.ids) \cap Message
  BY <1>4
<1>8. /\ Sound(tt) /\ tt.record = known.record /\ tt.ids = known.ids /\ SameRequests(known, tt)
  BY <1>5, <1>7, UsageUpdated
<1> HIDE DEF tt
<1>9. SameRequests(st, tt)
  BY <1>2, <1>4, <1>8 DEF SameRequests
<1>10. PromptsAreOwn(tt)
  BY <1>6, <1>8 DEF PromptsAreOwn
<1>11. tt.record[m] # None
  BY <1>4, <1>8, NoneIsNoRecord
<1>12. tt.record[m].parts = IF st.record[m] = None THEN {} ELSE st.record[m].parts
  BY <1>1, <1>2, <1>4, <1>8
<1>13. \A j \in Message : j # m => tt.record[j] = st.record[j]
  BY <1>1, <1>2, <1>4, <1>8
<1>14. Range(tt.ids) = Range(ready.ids) \cup {m}
  BY <1>4, <1>8
<1>15. /\ Range(tt.ids) \cap Own \subseteq Range(st.ids)
       /\ \/ st.record[m] # None \/ r = "assistant" \/ Range(tt.ids) \cap Own = {}
          \/ \E own \in Own \cap Range(st.ids) : own \notin Range(tt.ids)
  BY <1>1, <1>2, <1>14
<1>16. tt = updateUsageWithInfo(upsertMessage(claimed(st, m, r), m, record), m, complete)
  BY DEF tt, known, ready
<1> QED
  <2>1. HeadShown(st, tt, m, r)
    BY <1>8, <1>9, <1>10, <1>11, <1>12, <1>13, <1>15 DEF HeadShown
  <2> QED
    BY <1>16, <2>1 DEF record

\* A part of a message that is there, or is listed for it.
LEMMA PartShown ==
  ASSUME NEW st, Sound(st), PromptsAreOwn(st), NEW m \in Message, NEW p \in Part
  PROVE  LET ready == claimed(st, m, "assistant")
             known == IF ready.record[m] # None THEN ready
                      ELSE upsertMessage(ready, m, [role |-> "assistant", status |-> "streaming", parts |-> {}])
             tt == [known EXCEPT !.record[m].parts = @ \cup {p}]
         IN  /\ Sound(tt) /\ PromptsAreOwn(tt) /\ SameRequests(st, tt)
             /\ Range(tt.ids) \cap Own = Range(st.ids) \cap Own
             /\ tt.record[m] # None
             /\ tt.record[m].parts = (IF st.record[m] = None THEN {} ELSE st.record[m].parts) \cup {p}
             /\ \A j \in Message : j # m => tt.record[j] = st.record[j]
<1> DEFINE record == [role |-> "assistant", status |-> "streaming", parts |-> {}]
           ready == claimed(st, m, "assistant")
           known == IF ready.record[m] # None THEN ready ELSE upsertMessage(ready, m, record)
           tt == [known EXCEPT !.record[m].parts = @ \cup {p}]
<1>1. /\ record \in Record /\ record.parts = {} /\ record.status # "sending"
      /\ m \in Id /\ m \notin Own /\ Own \subseteq Id /\ Message \subseteq Id
  BY Ids DEF Record, Role
<1> HIDE DEF record
<1>2. ready = st
  BY PromptIs, ClaimedIs DEF Role
<1> HIDE DEF ready
<1>3. st \in Stores /\ st.record \in [Id -> Record \cup {None}]
  BY DEF Sound, Stores
<1>4. /\ Sound(known) /\ PromptsAreOwn(known) /\ SameRequests(st, known)
      /\ Range(known.ids) \cap Own = Range(st.ids) \cap Own
      /\ known.record[m] # None /\ known.record[m] \in Record
      /\ known.record[m].parts = IF st.record[m] = None THEN {} ELSE st.record[m].parts
      /\ \A j \in Message : j # m => known.record[j] = st.record[j]
  <2>1. CASE st.record[m] # None
    BY <1>1, <1>2, <1>3, <2>1 DEF SameRequests
  <2>2. CASE st.record[m] = None
    <3> DEFINE more == upsertMessage(st, m, record)
    <3>1. known = more
      BY <1>2, <2>2
    <3>2. /\ SameRequests(st, more) /\ Range(more.ids) = Range(st.ids) \cup {m}
          /\ more.record[m] \in Record
          /\ more.record[m].parts = IF st.record[m] = None \/ record.parts # {} THEN record.parts
                                    ELSE st.record[m].parts
          /\ \A j \in Id : j # m => more.record[j] = st.record[j]
      <4>1. Upserted(st, more, m, record)
        BY <1>1, <1>3, UpsertIs
      <4> HIDE DEF more
      <4> QED
        BY <4>1 DEF Upserted
    <3>3. Sound(more) /\ PromptsAreOwn(more)
      BY <1>1, UpsertSound
    <3> HIDE DEF known, more
    <3> QED
      BY <1>1, <2>2, <3>1, <3>2, <3>3, NoneIsNoRecord
  <2> QED
    BY <2>1, <2>2
<1> HIDE DEF known
<1> DEFINE new == [known.record[m] EXCEPT !.parts = @ \cup {p}]
<1>5. /\ new \in Record /\ new.role = known.record[m].role /\ new.status = known.record[m].status
      /\ new # None /\ new.parts = known.record[m].parts \cup {p}
  BY <1>4, NoneIsNoRecord DEF Record
<1>6. known \in Stores /\ known.record \in [Id -> Record \cup {None}]
  BY <1>4 DEF Sound, Stores
<1> HIDE DEF tt
<1>7. /\ tt \in Stores /\ tt.record = [known.record EXCEPT ![m] = new]
      /\ tt.ids = known.ids /\ tt.last = known.last
      /\ tt.usage = known.usage /\ tt.total = known.total /\ tt.latest = known.latest
      /\ SameRequests(known, tt)
  <2>1. tt = [known EXCEPT !.record[m] = new]
    BY DEF tt
  <2> HIDE DEF new
  <2> QED
    BY <1>1, <1>5, <1>6, <2>1 DEF Stores, SameRequests
<1> HIDE DEF new
<1>8. tt.record[m] = new /\ \A j \in Id : j # m => tt.record[j] = known.record[j]
  BY <1>6, <1>7, <1>1
<1>9. findLastAssistantMessageId(tt, tt.ids) = findLastAssistantMessageId(known, known.ids)
  <2>1. \A j \in Id : isOf(tt, j, "assistant") <=> isOf(known, j, "assistant")
    BY <1>4, <1>5, <1>8 DEF isOf
  <2>2. \A n \in DOMAIN known.ids : known.ids[n] \in Id
    BY <1>6 DEF Stores
  <2> QED
    BY <1>7, <2>1, <2>2, SameSpeakers
<1>10. Sound(tt)
  <2>1. Range(known.ids) \subseteq Id
    BY <1>6 DEF Stores, Range
  <2> QED
    BY <1>4, <1>5, <1>7, <1>8, <1>9, <2>1 DEF Sound, LastExact, UsageIs, RecordsKept
<1>11. PromptsAreOwn(tt)
  BY <1>1, <1>4, <1>5, <1>8 DEF PromptsAreOwn
<1>12. SameRequests(st, tt)
  BY <1>4, <1>7 DEF SameRequests
<1>13. /\ Range(tt.ids) \cap Own = Range(st.ids) \cap Own
       /\ tt.record[m] # None
       /\ tt.record[m].parts = (IF st.record[m] = None THEN {} ELSE st.record[m].parts) \cup {p}
       /\ \A j \in Message : j # m => tt.record[j] = st.record[j]
  BY <1>1, <1>4, <1>5, <1>7, <1>8
<1> QED
  BY <1>10, <1>11, <1>12, <1>13 DEF tt, known, ready, record

\* A tool call that is shown draws the requests about it, permissions by
\* rebindPermissionForPart and questions by reconcilePendingQuestions.
LEMMA PartHandled ==
  ASSUME NEW st, Sound(st), PromptsAreOwn(st), NEW m \in Message, NEW p \in Part
  PROVE  LET ready == claimed(st, m, "assistant")
             known == IF ready.record[m] # None THEN ready
                      ELSE upsertMessage(ready, m, [role |-> "assistant", status |-> "streaming", parts |-> {}])
             shown == [known EXCEPT !.record[m].parts = @ \cup {p}]
             tt == reconcilePending(rebindPermissionForPart(shown, m),
                                    IF p = "question" THEN Question ELSE {})
         IN  CallShown(st, tt, m)
<1> DEFINE ready == claimed(st, m, "assistant")
           known == IF ready.record[m] # None THEN ready
                    ELSE upsertMessage(ready, m, [role |-> "assistant", status |-> "streaming", parts |-> {}])
           shown == [known EXCEPT !.record[m].parts = @ \cup {p}]
           rs == IF p = "question" THEN Question ELSE {}
           bound == rebindPermissionForPart(shown, m)
           tt == reconcilePending(bound, rs)
<1>1. /\ Sound(shown) /\ PromptsAreOwn(shown) /\ SameRequests(st, shown)
      /\ Range(shown.ids) \cap Own = Range(st.ids) \cap Own
      /\ shown.record[m] # None
      /\ shown.record[m].parts = (IF st.record[m] = None THEN {} ELSE st.record[m].parts) \cup {p}
      /\ \A j \in Message : j # m => shown.record[j] = st.record[j]
  BY PartShown
<1> HIDE DEF shown
<1> DEFINE mine == {r \in Permission : /\ about[r] = m /\ <<r, "request">> \in shown.linked
                                       /\ resolved(shown, r)}
           open == {r \in (bound.queue \ bound.bound) \cap rs : resolved(bound, r)}
<1>2. /\ shown \in Stores /\ rs \subseteq Request
      /\ st.queue \subseteq Request /\ st.queue = shown.queue
  BY <1>1 DEF Sound, Stores, Request, SameRequests
<1>3. /\ bound \in Stores /\ SameMessages(shown, bound)
      /\ bound.queue = shown.queue /\ bound.bound = shown.bound \cup (mine \cap shown.queue)
      /\ bound.linked = (shown.linked \ (mine \X {"request"})) \cup (mine \X {"part"})
  BY <1>2, Rebound
<1> HIDE DEF bound
<1>4. /\ tt \in Stores /\ SameMessages(bound, tt)
      /\ tt.queue = bound.queue /\ tt.bound = bound.bound \cup open
      /\ bound.linked \subseteq tt.linked
      /\ \A r \in open : <<r, "part">> \in tt.linked
  BY <1>2, <1>3, Reconciled
<1> HIDE DEF tt, rs
<1>5. SameMessages(shown, tt)
  BY <1>3, <1>4 DEF SameMessages
<1>6. Sound(tt) /\ PromptsAreOwn(tt)
  BY <1>1, <1>4, <1>5, SameIsSound
<1>7. bound.record = shown.record /\ tt.record = shown.record /\ tt.ids = shown.ids
  BY <1>3, <1>5 DEF SameMessages
<1>8. /\ tt.queue = st.queue /\ Range(tt.ids) \cap Own = Range(st.ids) \cap Own
      /\ tt.record[m] # None
      /\ \A j \in Message : j # m => tt.record[j] = st.record[j]
  BY <1>1, <1>2, <1>3, <1>4, <1>7
<1>9. ASSUME NEW r \in st.queue, about[r] \in Message, PlacedIn(st, r)
      PROVE  PlacedIn(tt, r)
  <2>1. /\ resolved(bound, r) <=> resolved(shown, r)
        /\ resolved(tt, r) <=> resolved(shown, r)
    BY <1>7 DEF resolved
  <2>2. /\ shown.bound = st.bound /\ shown.linked = st.linked /\ r \in Request
        /\ r \in bound.queue /\ r \in shown.queue
    BY <1>1, <1>2, <1>3 DEF SameRequests
  <2>3. CASE r \in st.bound /\ <<r, "part">> \in st.linked
    <3>1. r \in bound.bound /\ <<r, "part">> \in bound.linked
      BY <1>3, <2>2, <2>3
    <3> QED
      BY <1>4, <3>1 DEF PlacedIn
  <2>4. CASE /\ r \notin st.bound /\ <<r, "request">> \in st.linked
             /\ ~resolved(shown, r)
    <3>1. r \notin mine /\ r \notin open
      BY <2>1, <2>4
    <3>2. r \notin bound.bound /\ <<r, "request">> \in bound.linked
      BY <1>3, <2>2, <2>4, <3>1
    <3> QED
      BY <1>4, <2>1, <2>4, <3>1, <3>2 DEF PlacedIn
  <2>5. CASE /\ r \notin st.bound /\ <<r, "request">> \in st.linked
             /\ ~resolved(st, r) /\ resolved(shown, r)
    <3>1. about[r] = m
      BY <1>1, <1>9, <2>5 DEF resolved
    <3>2. toolOf(r) = p
      BY <1>1, <2>5, <3>1 DEF resolved
    <3>3. CASE r \in Permission
      <4>1. r \in mine
        BY <2>2, <2>5, <3>1, <3>3
      <4>2. r \in bound.bound /\ <<r, "part">> \in bound.linked
        BY <1>3, <2>2, <4>1
      <4> QED
        BY <1>4, <4>2 DEF PlacedIn
    <3>4. CASE r \in Question
      <4>1. r \notin mine /\ p = "question" /\ r \in rs
        BY <3>2, <3>4, MessageAssumption DEF toolOf, rs
      <4>2. r \notin bound.bound
        BY <1>3, <2>2, <2>5, <4>1
      <4>3. r \in open
        BY <2>1, <2>2, <2>5, <4>1, <4>2
      <4> QED
        BY <1>4, <4>3 DEF PlacedIn
    <3> QED
      BY <2>2, <3>3, <3>4 DEF Request
  <2> QED
    BY <1>9, <2>3, <2>4, <2>5 DEF PlacedIn
<1>10. tt = reconcilePending(rebindPermissionForPart(shown, m), IF p = "question" THEN Question ELSE {})
  BY DEF tt, bound, rs
<1>11. CallShown(st, tt, m)
  BY <1>6, <1>8, <1>9 DEF CallShown
<1> QED
  BY <1>10, <1>11 DEF shown

\* What decides where a request is.
LEMMA SamePlace ==
  ASSUME NEW st, NEW tt, NEW r, PlacedIn(st, r),
         r \in tt.bound <=> r \in st.bound,
         \A by \in {"request", "part"} : <<r, by>> \in st.linked => <<r, by>> \in tt.linked,
         resolved(tt, r) => resolved(st, r)
  PROVE  PlacedIn(tt, r)
BY DEF PlacedIn

-----------------------------------------------------------------------------
(* Types, and a sound store *)

Event ==
  {"updated", "part", "removed", "partRemoved", "session", "compacted", "asked", "replied"}
    \X (Message \cup Request \cup {None}) \X (BOOLEAN \cup Part \cup {None})

Typed ==
  /\ made \in 0 .. MaxMessages /\ there \subseteq 1 .. made
  /\ role \in [Message -> Role]
  /\ part \in [Message -> Part \cup {"none", "gone"}]
  /\ ended \subseteq Message
  /\ asked \in [Request -> {"unasked", "pending", "answered"}]
  /\ about \in [Request -> Message \cup {None}]
  /\ chan \in Seq(Event)
  /\ queued \subseteq Request
  /\ memory \in Message \cup {None}
  /\ unsent \subseteq Own /\ sending \subseteq Own /\ unsent \cap sending = {}
  /\ load \in Load /\ load.list \subseteq 1 .. made
  /\ sync # None => sync \in {"permission", "question"} \X SUBSET Request

StoreIsSound == Sound(store) /\ PromptsAreOwn(store)

\* The events that show a message and a part of it.
LEMMA HeadArrives ==
  ASSUME Typed, StoreIsSound, NEW m \in Message, NEW complete \in BOOLEAN,
         handleMessageUpdate(m, complete)
  PROVE  /\ Head(chan) = <<"updated", m, complete>> /\ queued' = queued
         /\ HeadShown(store, store', m, role[m])
<1>1. role[m] \in Role
  BY DEF Typed
<1> QED
  BY <1>1, UpdateHandled DEF handleMessageUpdate, receives, StoreIsSound

\* A part shows what is about it, whether its message was known or not.
LEMMA PartArrives ==
  ASSUME StoreIsSound, NEW m \in Message, NEW p \in Part, handleMessagePartUpdate(m, p)
  PROVE  /\ Head(chan) = <<"part", m, p>> /\ queued' = queued
         /\ CallShown(store, store', m)
BY PartHandled DEF handleMessagePartUpdate, receives, StoreIsSound

\* An event is put behind the others.
LEMMA Appended ==
  ASSUME NEW s \in Seq(Event), NEW e \in Event
  PROVE  /\ Append(s, e) \in Seq(Event) /\ Range(Append(s, e)) = Range(s) \cup {e}
         /\ DOMAIN s = 1 .. Len(s) /\ DOMAIN Append(s, e) = 1 .. Len(s) + 1 /\ Len(s) \in Nat
         /\ Append(s, e)[Len(s) + 1] = e
         /\ \A n \in DOMAIN s : Append(s, e)[n] = s[n]
<1>1. /\ Append(s, e) \in Seq(Event)
      /\ DOMAIN s = 1 .. Len(s) /\ DOMAIN Append(s, e) = 1 .. Len(s) + 1 /\ Len(s) \in Nat
      /\ Append(s, e)[Len(s) + 1] = e
      /\ \A n \in DOMAIN s : Append(s, e)[n] = s[n]
  OBVIOUS
<1> QED
  BY <1>1 DEF Range

\* The first event is taken.
LEMMA Taken ==
  ASSUME NEW s \in Seq(Event), s # <<>>
  PROVE  /\ Tail(s) \in Seq(Event) /\ Range(s) = Range(Tail(s)) \cup {Head(s)} /\ Head(s) \in Event
         /\ DOMAIN s = 1 .. Len(s) /\ DOMAIN Tail(s) = 1 .. Len(s) - 1 /\ Len(s) \in Nat
         /\ s[1] = Head(s)
         /\ \A n \in DOMAIN Tail(s) : Tail(s)[n] = s[n + 1]
<1>1. /\ Tail(s) \in Seq(Event) /\ Head(s) \in Event
      /\ DOMAIN s = 1 .. Len(s) /\ DOMAIN Tail(s) = 1 .. Len(s) - 1 /\ Len(s) \in Nat /\ Len(s) > 0
      /\ s[1] = Head(s)
      /\ \A n \in DOMAIN Tail(s) : Tail(s)[n] = s[n + 1]
  OBVIOUS
<1>2. \A x \in Range(s) : x \in Range(Tail(s)) \cup {Head(s)}
  <2> SUFFICES ASSUME NEW n \in DOMAIN s PROVE s[n] \in Range(Tail(s)) \cup {Head(s)}
    BY DEF Range
  <2>1. CASE n = 1
    BY <1>1, <2>1
  <2>2. CASE n # 1
    <3>1. n - 1 \in DOMAIN Tail(s) /\ Tail(s)[n - 1] = s[n]
      BY <1>1, <2>2
    <3> QED
      BY <3>1 DEF Range
  <2> QED
    BY <2>1, <2>2
<1>3. \A x \in Range(Tail(s)) \cup {Head(s)} : x \in Range(s)
  BY <1>1 DEF Range
<1> QED
  BY <1>1, <1>2, <1>3

\* Most steps of the instance only add an event, and leave what is here alone.
LEMMA EventAdded ==
  ASSUME Typed, NEW type \in {"updated", "part", "removed", "partRemoved", "session", "compacted", "asked", "replied"},
         NEW x \in Message \cup Request \cup {None}, NEW more \in BOOLEAN \cup Part \cup {None},
         chan' = Append(chan, <<type, x, more>>)
  PROVE  /\ chan' \in Seq(Event) /\ Range(chan') = Range(chan) \cup {<<type, x, more>>}
<1>1. <<type, x, more>> \in Event
  BY DEF Event
<1> QED
  BY <1>1, Appended DEF Typed

\* The steps of the instance keep the types.
LEMMA InstanceTyped ==
  ASSUME Typed, InstanceStep
  PROVE  Typed'
<1> USE DEF Typed, messages, requests, here
<1>1. ASSUME NEW r \in Role, makes(r), sending' \subseteq sending PROVE Typed'
  <2>1. /\ made' \in Message /\ made' = made + 1 /\ made' \in 0 .. MaxMessages
        /\ 1 .. made' = (1 .. made) \cup {made'} /\ made < MaxMessages
    BY <1>1, MessageAssumption DEF makes, Message
  <2>2. chan' \in Seq(Event)
    BY <1>1, <2>1, EventAdded DEF makes, emits
  <2>3. there' \subseteq 1 .. made' /\ role' \in [Message -> Role]
    BY <1>1, <2>1 DEF makes
  <2>4. load.list \subseteq 1 .. made'
    BY <2>1
  <2>5. /\ UNCHANGED <<part, ended, asked, about, queued, memory, unsent, load, sync>>
    BY <1>1 DEF makes
  <2>6. sending' \subseteq Own /\ unsent' \cap sending' = {}
    BY <1>1, <2>5
  <2> QED
    BY <2>1, <2>2, <2>3, <2>4, <2>5, <2>6
<1>2. ASSUME NEW o \in Own, accepts(o) PROVE Typed'
  BY <1>1, <1>2 DEF accepts, Role
<1>3. ASSUME NEW m \in Message, ends(m) PROVE Typed'
  BY <1>3, EventAdded DEF ends, emits
<1>4. ASSUME NEW m \in Message, removes(m) PROVE Typed'
  BY <1>4, EventAdded DEF removes, emits
<1>5. ASSUME NEW m \in Message, removesPart(m) PROVE Typed'
  BY <1>5, EventAdded DEF removesPart, emits
<1>6. ASSUME NEW m \in Message, NEW p \in Part, makesPart(m, p) PROVE Typed'
  BY <1>6, EventAdded DEF makesPart, emits
<1>7. ASSUME NEW m \in Message, NEW r \in Request, asks(r, m) PROVE Typed'
  BY <1>7, EventAdded DEF asks, emits
<1>8. ASSUME NEW m \in Message \cup {None}, reverts(m) PROVE Typed'
  BY <1>8, EventAdded DEF reverts, emits
<1>9. ASSUME compacts PROVE Typed'
  BY <1>9, EventAdded DEF compacts, emits
<1>10. ASSUME NEW r \in Request, NEW local \in BOOLEAN, answered(r, local) PROVE Typed'
  BY <1>10, EventAdded DEF answered, emits
<1>11. ASSUME streamBreaks PROVE Typed'
  BY <1>11 DEF streamBreaks
<1> HIDE DEF Typed
<1> QED
  BY <1>1, <1>2, <1>3, <1>4, <1>5, <1>6, <1>7, <1>8, <1>9, <1>10, <1>11 DEF InstanceStep

\* The calls keep the types.
LEMMA CallTyped ==
  ASSUME Typed, CallStep
  PROVE  Typed'
<1> USE DEF Typed, instance, messages, requests, stream, prompts
<1>0. /\ NoLoad \in Load /\ NoLoad.list = {}
      /\ [NoLoad EXCEPT !.at = "asked"] \in Load /\ [NoLoad EXCEPT !.at = "asked"].list = {}
  BY DEF NoLoad, Load
<1>1. ASSUME NEW o \in Own, sendMessage(o) PROVE Typed'
  BY <1>1 DEF sendMessage
<1>2. ASSUME NEW o \in Own, promptFails(o) PROVE Typed'
  BY <1>2 DEF promptFails
<1>3. ASSUME loadMessages PROVE Typed'
  BY <1>0, <1>3 DEF loadMessages
<1>4. ASSUME messagesAnswered PROVE Typed'
  <2>1. there \subseteq Message
    BY MessageAssumption DEF Message
  <2>2. load' \in Load /\ load'.list = there
    BY <1>4, <2>1 DEF messagesAnswered, Load
  <2> QED
    BY <1>4, <2>2 DEF messagesAnswered
<1>5. ASSUME messagesLoaded PROVE Typed'
  BY <1>0, <1>5 DEF messagesLoaded
<1>6. ASSUME loadFails PROVE Typed'
  BY <1>0, <1>6 DEF loadFails
<1>7. ASSUME NEW k \in {"permission", "question"}, pendingListed(k) PROVE Typed'
  BY <1>7 DEF pendingListed, Pending
<1>8. ASSUME syncPending PROVE Typed'
  BY <1>8 DEF syncPending
<1>9. ASSUME NEW r \in Request, replyAnswered(r) PROVE Typed'
  BY <1>9 DEF replyAnswered
<1> HIDE DEF Typed
<1> QED
  BY <1>1, <1>2, <1>3, <1>4, <1>5, <1>6, <1>7, <1>8, <1>9 DEF CallStep

\* The handlers of events keep the types.
LEMMA EventTyped ==
  ASSUME Typed, EventStep
  PROVE  Typed'
<1> USE DEF Typed, messages, requests, prompts
<1>0. /\ [NoLoad EXCEPT !.at = "asked"] \in Load /\ [NoLoad EXCEPT !.at = "asked"].list = {}
  BY DEF NoLoad, Load
<1>1. ASSUME NEW type, NEW x, NEW more, receives(type, x, more)
      PROVE  /\ chan' \in Seq(Event)
             /\ UNCHANGED <<made, there, role, part, ended, asked, about, unsent, sending, sync>>
  BY <1>1, Taken DEF receives
<1>2. ASSUME NEW m \in Message, NEW complete \in BOOLEAN, handleMessageUpdate(m, complete) PROVE Typed'
  BY <1>1, <1>2 DEF handleMessageUpdate
<1>3. ASSUME NEW m \in Message, NEW p \in Part, handleMessagePartUpdate(m, p) PROVE Typed'
  BY <1>1, <1>3 DEF handleMessagePartUpdate
<1>4. ASSUME NEW m \in Message, NEW p \in Part, handleMessagePartRemoved(m, p) PROVE Typed'
  BY <1>1, <1>4 DEF handleMessagePartRemoved
<1>5. ASSUME NEW m \in Message, handleMessageRemoved(m) PROVE Typed'
  BY <1>1, <1>5 DEF handleMessageRemoved
<1>6. ASSUME NEW m \in Message \cup {None}, handleSessionUpdate(m) PROVE Typed'
  BY <1>1, <1>6 DEF handleSessionUpdate
<1>7. ASSUME handleSessionCompacted PROVE Typed'
  BY <1>0, <1>1, <1>7 DEF handleSessionCompacted
<1>8. ASSUME NEW r \in Request, handleAsked(r) PROVE Typed'
  BY <1>1, <1>8 DEF handleAsked
<1>9. ASSUME NEW r \in Request, handleReplied(r) PROVE Typed'
  BY <1>1, <1>9 DEF handleReplied
<1> HIDE DEF Typed
<1> QED
  BY <1>2, <1>3, <1>4, <1>5, <1>6, <1>7, <1>8, <1>9 DEF EventStep

\* Types are kept by every step.
LEMMA TypedStep == Typed /\ [Next]_vars => Typed'
<1> SUFFICES ASSUME Typed, [Next]_vars PROVE Typed'
  OBVIOUS
<1>1. CASE InstanceStep
  BY <1>1, InstanceTyped
<1>2. CASE CallStep
  BY <1>2, CallTyped
<1>3. CASE EventStep
  BY <1>3, EventTyped
<1>4. CASE UNCHANGED vars
  BY <1>4 DEF vars, Typed, messages, requests, stream, prompts
<1> QED
  BY <1>1, <1>2, <1>3, <1>4 DEF Next

\* The store is empty at first.
LEMMA InitTyped == Init => Typed /\ StoreIsSound
<1> SUFFICES ASSUME Init PROVE Typed /\ StoreIsSound
  OBVIOUS
<1>1. NoLoad \in Load /\ NoLoad.list = {}
  BY DEF NoLoad, Load
<1>2. Typed
  BY <1>1, MessageAssumption DEF Init, Typed, Role
<1>3. /\ store.record = [i \in Id |-> None] /\ store.ids = <<>> /\ store.last = None
      /\ store.usage = {} /\ store.total = 0 /\ store.latest = None
      /\ store.queue = {} /\ store.bound = {} /\ store.linked = {} /\ store.revert = None
      /\ store \in Stores
  BY DEF Init, Stores
<1>4. DOMAIN store.ids = {} /\ Range(store.ids) = {}
  BY <1>3 DEF Range
<1>5. findLastAssistantMessageId(store, store.ids) = None
  BY <1>4 DEF findLastAssistantMessageId
<1>6. UsageIs(store)
  BY <1>3, FS_EmptySet DEF UsageIs, newest
<1>7. Sound(store)
  BY <1>3, <1>4, <1>5, <1>6 DEF Sound, LastExact, RecordsKept, IsInjective
<1>8. PromptsAreOwn(store)
  BY <1>3 DEF PromptsAreOwn
<1> QED
  BY <1>2, <1>7, <1>8 DEF StoreIsSound

-----------------------------------------------------------------------------
(* The store through the steps *)

\* The instance's steps leave what is here alone.
LEMMA InstanceKeeps == InstanceStep => UNCHANGED <<store, queued, memory, unsent, load, sync>>
BY DEF InstanceStep, makes, accepts, ends, removes, removesPart, makesPart, asks, reverts,
       compacts, answered, streamBreaks, here

\* The answer with the pending requests: what it does not have goes, what it
\* has is put in.
LEMMA Synced ==
  ASSUME NEW st \in Stores, NEW stale \in SUBSET Request, NEW remote \in SUBSET Request
  PROVE  LET tt == upsertRequests(removeRequests(st, stale), remote)
         IN  /\ tt \in Stores /\ SameMessages(st, tt)
             /\ tt.queue = (st.queue \ stale) \cup remote
             /\ \A r \in remote : PlacedIn(tt, r)
             /\ \A r \in Request \ (stale \cup remote) : PlacedIn(st, r) => PlacedIn(tt, r)
<1> DEFINE left == removeRequests(st, stale)
           tt == upsertRequests(left, remote)
<1>1. /\ left \in Stores /\ SameMessages(st, left)
      /\ left.queue = st.queue \ stale /\ left.bound = st.bound \ stale
      /\ left.linked = st.linked \ linksOf(stale)
  BY RequestsRemoved
<1> HIDE DEF left
<1>2. /\ tt \in Stores /\ SameMessages(left, tt)
      /\ tt.queue = left.queue \cup remote
      /\ tt.bound = (left.bound \ remote) \cup {r \in remote : resolved(left, r)}
      /\ tt.linked = left.linked \cup {<<r, IF resolved(left, r) THEN "part" ELSE "request">> : r \in remote}
  BY <1>1, RequestsPut
<1> HIDE DEF tt
<1>3. SameMessages(st, tt)
  BY <1>1, <1>2 DEF SameMessages
<1>4. \A r \in Request : (resolved(tt, r) <=> resolved(left, r)) /\ (resolved(tt, r) <=> resolved(st, r))
  BY <1>2, <1>3 DEF SameMessages, resolved
<1>5. ASSUME NEW r \in remote PROVE PlacedIn(tt, r)
  <2>1. CASE resolved(left, r)
    BY <1>2, <2>1 DEF PlacedIn
  <2>2. CASE ~resolved(left, r)
    BY <1>2, <1>4, <2>2 DEF PlacedIn
  <2> QED
    BY <2>1, <2>2
<1>6. ASSUME NEW r \in Request \ (stale \cup remote), PlacedIn(st, r) PROVE PlacedIn(tt, r)
  <2>1. r \in tt.bound <=> r \in st.bound
    BY <1>1, <1>2
  <2>2. \A by \in {"request", "part"} : <<r, by>> \in st.linked => <<r, by>> \in tt.linked
    BY <1>1, <1>2 DEF linksOf
  <2> QED
    BY <1>4, <1>6, <2>1, <2>2, SamePlace
<1> QED
  BY <1>1, <1>2, <1>3, <1>5, <1>6 DEF tt, left

\* A prompt that is sent is put at the end of the list.
LEMMA PromptSent ==
  ASSUME NEW st, Sound(st), PromptsAreOwn(st), NEW o \in Own
  PROVE  LET tt == upsertMessage(st, o, [role |-> "user", status |-> "sending", parts |-> {}])
         IN  /\ Sound(tt) /\ PromptsAreOwn(tt) /\ SameRequests(st, tt)
             /\ Range(tt.ids) = Range(st.ids) \cup {o}
             /\ \A j \in Message : tt.record[j] = st.record[j]
<1> DEFINE record == [role |-> "user", status |-> "sending", parts |-> {}]
           tt == upsertMessage(st, o, record)
<1>1. /\ record \in Record /\ record.status = "sending" /\ record.role = "user" /\ record.parts = {}
      /\ o \in Id /\ \A j \in Message : j \in Id /\ j # o
  BY Ids DEF Record, Role
<1> HIDE DEF record
<1>2. Upserted(st, tt, o, record)
  BY <1>1, UpsertIs DEF Sound
<1>3. Sound(tt) /\ PromptsAreOwn(tt)
  BY <1>1, UpsertSound
<1> HIDE DEF tt
<1>4. /\ SameRequests(st, tt) /\ Range(tt.ids) = Range(st.ids) \cup {o}
      /\ \A j \in Message : tt.record[j] = st.record[j]
  BY <1>1, <1>2 DEF Upserted
<1> QED
  BY <1>3, <1>4 DEF tt, record

\* A revert takes what follows the message from the list.
LEMMA RevertHandled ==
  ASSUME NEW st, Sound(st), PromptsAreOwn(st), NEW m \in Message \cup {None}
  PROVE  Shortened(st, setSessionRevert(st, m))
<1> DEFINE left == pruneMessagesAfterRevert(st, m)
           tt == setSessionRevert(st, m)
<1>1. Shortened(st, left)
  BY Pruned
<1>2. tt = [left EXCEPT !.revert = m]
  BY DEF setSessionRevert
<1> HIDE DEF left, tt
<1>3. tt \in Stores /\ SameMessages(left, tt) /\ SameRequests(left, tt)
  BY <1>1, <1>2 DEF Shortened, Sound, Stores, SameMessages, SameRequests
<1>4. Sound(tt) /\ PromptsAreOwn(tt)
  BY <1>1, <1>3, SameIsSound DEF Shortened
<1>5. /\ tt.record = st.record /\ Range(tt.ids) \subseteq Range(st.ids) /\ SameRequests(st, tt)
  BY <1>1, <1>3 DEF Shortened, SameMessages, SameRequests
<1> QED
  BY <1>4, <1>5 DEF Shortened, tt

\* The store is sound after every call.
LEMMA CallSound ==
  ASSUME Typed, StoreIsSound, CallStep
  PROVE  StoreIsSound'
<1> USE DEF StoreIsSound
<1>1. ASSUME NEW o \in Own, sendMessage(o) PROVE StoreIsSound'
  BY <1>1, PromptSent DEF sendMessage
<1>2. ASSUME messagesLoaded PROVE StoreIsSound'
  BY <1>2, Seeded DEF messagesLoaded, Typed
<1>3. ASSUME syncPending PROVE StoreIsSound'
  <2> DEFINE remote == sync[2]
             stale == (queued \ remote) \cap IF sync[1] = "permission" THEN Permission ELSE Question
  <2>1. remote \in SUBSET Request /\ stale \in SUBSET Request
    BY <1>3 DEF syncPending, Typed
  <2>2. store' = upsertRequests(removeRequests(store, stale), remote)
    BY <1>3 DEF syncPending
  <2> HIDE DEF remote, stale
  <2>3. store' \in Stores /\ SameMessages(store, store')
    BY <2>1, <2>2, Synced DEF Sound
  <2> QED
    BY <2>3, SameIsSound
<1>4. ASSUME UNCHANGED store PROVE StoreIsSound'
  BY <1>4
<1> HIDE DEF StoreIsSound
<1> QED
  BY <1>1, <1>2, <1>3, <1>4
  DEF CallStep, promptFails, loadMessages, messagesAnswered, loadFails, pendingListed, replyAnswered

\* The store is sound after every event.
LEMMA EventSound ==
  ASSUME Typed, StoreIsSound, EventStep
  PROVE  StoreIsSound'
<1> USE DEF StoreIsSound
<1>0. store \in Stores
  BY DEF Sound
<1>1. ASSUME NEW m \in Message, NEW complete \in BOOLEAN, handleMessageUpdate(m, complete)
      PROVE  StoreIsSound'
  BY <1>1, HeadArrives DEF HeadShown
<1>2. ASSUME NEW m \in Message, NEW p \in Part, handleMessagePartUpdate(m, p) PROVE StoreIsSound'
  BY <1>2, PartArrives DEF CallShown
<1>3. ASSUME NEW m \in Message, NEW p \in Part, handleMessagePartRemoved(m, p) PROVE StoreIsSound'
  BY <1>3, PartRemoved DEF handleMessagePartRemoved
<1>4. ASSUME NEW m \in Message, handleMessageRemoved(m) PROVE StoreIsSound'
  BY <1>4, MessageRemoved DEF handleMessageRemoved, Shortened
<1>5. ASSUME NEW m \in Message \cup {None}, handleSessionUpdate(m) PROVE StoreIsSound'
  BY <1>5, RevertHandled DEF handleSessionUpdate, Shortened
<1>6. ASSUME NEW r \in Request, handleAsked(r) PROVE StoreIsSound'
  <2>1. store' \in Stores /\ SameMessages(store, store')
    BY <1>0, <1>6, RequestPut DEF handleAsked
  <2> QED
    BY <2>1, SameIsSound
<1>7. ASSUME NEW r \in Request, handleReplied(r) PROVE StoreIsSound'
  <2>1. store' \in Stores /\ SameMessages(store, store')
    BY <1>0, <1>7, RequestsRemoved DEF handleReplied
  <2> QED
    BY <2>1, SameIsSound
<1>8. ASSUME handleSessionCompacted PROVE StoreIsSound'
  BY <1>8 DEF handleSessionCompacted
<1> HIDE DEF StoreIsSound
<1> QED
  BY <1>1, <1>2, <1>3, <1>4, <1>5, <1>6, <1>7, <1>8 DEF EventStep

\* The store stays sound.
LEMMA SoundStep == Typed /\ StoreIsSound /\ [Next]_vars => StoreIsSound'
<1> SUFFICES ASSUME Typed, StoreIsSound, [Next]_vars PROVE StoreIsSound'
  OBVIOUS
<1>1. CASE InstanceStep
  BY <1>1, InstanceKeeps DEF StoreIsSound
<1>2. CASE CallStep
  BY <1>2, CallSound
<1>3. CASE EventStep
  BY <1>3, EventSound
<1>4. CASE UNCHANGED vars
  BY <1>4 DEF vars, StoreIsSound
<1> QED
  BY <1>1, <1>2, <1>3, <1>4 DEF Next

\* Types and soundness hold together.
THEOREM StoreAlways == Spec => [](Typed /\ StoreIsSound)
<1>1. Init => Typed /\ StoreIsSound
  BY InitTyped
<1>2. Typed /\ StoreIsSound /\ [Next]_vars => (Typed /\ StoreIsSound)'
  BY TypedStep, SoundStep
<1> QED
  BY <1>1, <1>2, PTL DEF Spec

\* The cached last assistant message is that of the list.
THEOREM LastAssistantAlways == Spec => []LastAssistantExact
<1>1. Typed /\ StoreIsSound => LastAssistantExact
  BY DEF StoreIsSound, Sound, LastExact, LastAssistantExact
<1> QED
  BY <1>1, StoreAlways, PTL

\* The token sums are those of the entries.
THEOREM UsageAlways == Spec => []UsageExact
<1>1. Typed /\ StoreIsSound => UsageExact
  BY DEF StoreIsSound, Sound, UsageIs, UsageExact, Listed
<1> QED
  BY <1>1, StoreAlways, PTL

-----------------------------------------------------------------------------
(* What is queued is in the store *)

\* A call leaves the instance and its events alone.
LEMMA CallKeeps ==
  CallStep => UNCHANGED <<made, there, role, part, ended, asked, about, reverted, chan, memory>>
BY DEF CallStep, sendMessage, promptFails, loadMessages, messagesAnswered, messagesLoaded, loadFails,
       pendingListed, syncPending, replyAnswered, instance, messages, requests, stream

\* An event is taken off; the instance goes on without it.
LEMMA EventKeeps ==
  EventStep => /\ chan # <<>> /\ chan' = Tail(chan)
               /\ UNCHANGED <<made, there, role, part, ended, asked, about, reverted, lost,
                              unsent, sending, sync, replies>>
BY DEF EventStep, handleMessageUpdate, handleMessagePartUpdate, handleMessageRemoved,
       handleMessagePartRemoved, handleSessionUpdate, handleSessionCompacted, handleAsked,
       handleReplied, receives, messages, requests, prompts

\* What the calls do to the queue of the store.
LEMMA CallQueue ==
  ASSUME Typed, StoreIsSound, CallStep
  PROVE  \/ store'.queue = store.queue /\ queued' \subseteq queued
         \/ /\ sync # None /\ sync[2] \in SUBSET Request
            /\ LET stale == (queued \ sync[2]) \cap IF sync[1] = "permission" THEN Permission ELSE Question
               IN  /\ store'.queue = (store.queue \ stale) \cup sync[2]
                   /\ queued' = (queued \ stale) \cup sync[2]
<1> USE DEF StoreIsSound
<1>1. ASSUME NEW o \in Own, sendMessage(o) PROVE store'.queue = store.queue /\ queued' \subseteq queued
  BY <1>1, PromptSent DEF sendMessage, SameRequests
<1>2. ASSUME messagesLoaded PROVE store'.queue = store.queue /\ queued' \subseteq queued
  BY <1>2, Seeded DEF messagesLoaded, Typed
<1>3. ASSUME syncPending
      PROVE  /\ sync # None /\ sync[2] \in SUBSET Request
             /\ LET stale == (queued \ sync[2]) \cap IF sync[1] = "permission" THEN Permission ELSE Question
                IN  /\ store'.queue = (store.queue \ stale) \cup sync[2]
                    /\ queued' = (queued \ stale) \cup sync[2]
  <2> DEFINE stale == (queued \ sync[2]) \cap IF sync[1] = "permission" THEN Permission ELSE Question
  <2>1. /\ sync # None /\ sync[2] \in SUBSET Request /\ stale \in SUBSET Request
        /\ queued' = (queued \ stale) \cup sync[2]
        /\ store' = upsertRequests(removeRequests(store, stale), sync[2])
    BY <1>3 DEF syncPending, Typed
  <2> HIDE DEF stale
  <2>2. store'.queue = (store.queue \ stale) \cup sync[2]
    BY <2>1, Synced DEF Sound
  <2> QED
    BY <2>1, <2>2 DEF stale
<1>4. ASSUME UNCHANGED store, queued' \subseteq queued
      PROVE store'.queue = store.queue /\ queued' \subseteq queued
  BY <1>4
<1> HIDE DEF StoreIsSound
<1> QED
  BY <1>1, <1>2, <1>3, <1>4
  DEF CallStep, promptFails, loadMessages, messagesAnswered, loadFails, pendingListed, replyAnswered

\* What the events do to the queue of the store.
LEMMA EventQueue ==
  ASSUME Typed, StoreIsSound, EventStep
  PROVE  \/ store'.queue = store.queue /\ queued' = queued
         \/ \E r \in Request : /\ Head(chan) = <<"asked", r, None>>
                               /\ store'.queue = store.queue \cup {r} /\ queued' = queued \cup {r}
         \/ \E r \in Request : /\ Head(chan) = <<"replied", r, None>>
                               /\ store'.queue = store.queue \ {r} /\ queued' = queued \ {r}
<1> USE DEF StoreIsSound, SameRequests
<1>0. store \in Stores
  BY DEF Sound
<1>1. ASSUME NEW m \in Message, NEW complete \in BOOLEAN, handleMessageUpdate(m, complete)
      PROVE  store'.queue = store.queue /\ queued' = queued
  BY <1>1, HeadArrives DEF HeadShown
<1>2. ASSUME NEW m \in Message, NEW p \in Part, handleMessagePartUpdate(m, p)
      PROVE  store'.queue = store.queue /\ queued' = queued
  BY <1>2, PartArrives DEF CallShown
<1>3. ASSUME NEW m \in Message, NEW p \in Part, handleMessagePartRemoved(m, p)
      PROVE  store'.queue = store.queue /\ queued' = queued
  BY <1>3, PartRemoved DEF handleMessagePartRemoved
<1>4. ASSUME NEW m \in Message, handleMessageRemoved(m)
      PROVE  store'.queue = store.queue /\ queued' = queued
  BY <1>4, MessageRemoved DEF handleMessageRemoved, Shortened
<1>5. ASSUME NEW m \in Message \cup {None}, handleSessionUpdate(m)
      PROVE  store'.queue = store.queue /\ queued' = queued
  BY <1>5, RevertHandled DEF handleSessionUpdate, Shortened
<1>6. ASSUME NEW r \in Request, handleAsked(r)
      PROVE  /\ Head(chan) = <<"asked", r, None>>
             /\ store'.queue = store.queue \cup {r} /\ queued' = queued \cup {r}
  BY <1>0, <1>6, RequestPut DEF handleAsked, receives
<1>7. ASSUME NEW r \in Request, handleReplied(r)
      PROVE  /\ Head(chan) = <<"replied", r, None>>
             /\ store'.queue = store.queue \ {r} /\ queued' = queued \ {r}
  BY <1>0, <1>7, RequestsRemoved DEF handleReplied, receives
<1>8. ASSUME handleSessionCompacted PROVE store'.queue = store.queue /\ queued' = queued
  BY <1>8 DEF handleSessionCompacted
<1> HIDE DEF StoreIsSound, SameRequests
<1> QED
  BY <1>1, <1>2, <1>3, <1>4, <1>5, <1>6, <1>7, <1>8 DEF EventStep

\* The queue of the session and that of the store are filled together.
LEMMA QueuedStep == Typed /\ StoreIsSound /\ QueuedIsOffered /\ [Next]_vars => QueuedIsOffered'
<1> SUFFICES ASSUME Typed, StoreIsSound, QueuedIsOffered, [Next]_vars PROVE QueuedIsOffered'
  OBVIOUS
<1>1. CASE InstanceStep
  BY <1>1, InstanceKeeps DEF QueuedIsOffered
<1>2. CASE CallStep
  BY <1>2, CallQueue DEF QueuedIsOffered
<1>3. CASE EventStep
  BY <1>3, EventQueue DEF QueuedIsOffered
<1>4. CASE UNCHANGED vars
  BY <1>4 DEF vars, QueuedIsOffered
<1> QED
  BY <1>1, <1>2, <1>3, <1>4 DEF Next

\* Every request that waits for the user in the queue is in the store.
THEOREM QueuedIsOfferedAlways == Spec => []QueuedIsOffered
<1>1. Init => QueuedIsOffered
  BY DEF Init, QueuedIsOffered
<1>2. QueuedIsOffered /\ Typed /\ StoreIsSound /\ [Next]_vars => QueuedIsOffered'
  BY QueuedStep
<1> QED
  BY <1>1, <1>2, StoreAlways, PTL DEF Spec

-----------------------------------------------------------------------------
(* What has happened at the instance when its events arrive *)

\* What an event on its way says is still so.
StillSo(e) ==
  /\ e[1] \in {"updated", "part", "removed", "partRemoved"} => e[2] \in 1 .. made
  /\ e[1] \in {"asked", "replied"} => e[2] \in Request
  /\ e[1] = "part" => role[e[2]] = "assistant"
  /\ e[1] = "removed" => e[2] \notin there
  /\ e[1] = "partRemoved" => part[e[2]] = "gone"
  /\ e[1] = "asked" => asked[e[2]] # "unasked"
  /\ e[1] = "replied" => asked[e[2]] = "answered"

EventsHold == \A e \in Range(chan) : StillSo(e)

\* A request waits in a tool call that is there and goes on.
CallsWait ==
  \A r \in Request : asked[r] = "pending" =>
    about[r] \in there \ ended /\ part[about[r]] = toolOf(r)

\* Nothing is known here before the instance has made it.
KnownIsMade ==
  /\ \A m \in Message : m \notin 1 .. made => store.record[m] = None
  /\ \A r \in store.queue : asked[r] # "unasked"
  /\ sync # None => \A r \in sync[2] : asked[r] # "unasked"

HistoryIsKept == EventsHold /\ CallsWait /\ KnownIsMade

\* The instance only goes on: what was so for an event stays so.
LEMMA InstanceHistory ==
  ASSUME Typed, HistoryIsKept, InstanceStep
  PROVE  EventsHold' /\ CallsWait'
<1> USE DEF HistoryIsKept, StillSo, CallsWait, messages, requests, here
<1>0. /\ \A e \in Range(chan) : StillSo(e) /\ 1 .. made \subseteq Message
      /\ \A m \in there : m \in 1 .. made /\ m \in Message
  BY MessageAssumption DEF EventsHold, Typed, Message
<1>1. ASSUME NEW r \in Role, makes(r) PROVE EventsHold' /\ CallsWait'
  <2>1. PICK new \in Message : /\ new = made' /\ 1 .. made \subseteq 1 .. made'
                               /\ new \notin 1 .. made /\ new \in 1 .. made'
    BY <1>1, MessageAssumption DEF makes, Message, Typed
  <2>2. Range(chan') = Range(chan) \cup {<<"updated", new, FALSE>>}
    BY <1>1, <2>1, EventAdded DEF makes, emits
  <2>3. StillSo(<<"updated", new, FALSE>>)'
    BY <2>1
  <2>4. ASSUME NEW e \in Range(chan) PROVE StillSo(e)'
    BY <1>0, <1>1, <2>1, <2>4 DEF makes, Typed
  <2>5. CallsWait'
    BY <1>1, <2>1 DEF makes
  <2> QED
    BY <2>2, <2>3, <2>4, <2>5 DEF EventsHold
<1>2. ASSUME NEW o \in Own, accepts(o) PROVE EventsHold' /\ CallsWait'
  BY <1>1, <1>2 DEF accepts, Role
<1>3. ASSUME NEW m \in Message, ends(m) PROVE EventsHold' /\ CallsWait'
  <2>1. Range(chan') = Range(chan) \cup {<<"updated", m, TRUE>>}
    BY <1>3, EventAdded DEF ends, emits
  <2>2. StillSo(<<"updated", m, TRUE>>)'
    BY <1>0, <1>3 DEF ends
  <2>3. \A e \in Range(chan) : StillSo(e)'
    BY <1>0, <1>3 DEF ends
  <2>4. CallsWait'
    BY <1>3 DEF ends, Free, Pending
  <2> QED
    BY <2>1, <2>2, <2>3, <2>4 DEF EventsHold
<1>4. ASSUME NEW m \in Message, removes(m) PROVE EventsHold' /\ CallsWait'
  <2>1. Range(chan') = Range(chan) \cup {<<"removed", m, None>>}
    BY <1>4, EventAdded DEF removes, emits
  <2>2. StillSo(<<"removed", m, None>>)'
    BY <1>0, <1>4 DEF removes
  <2>3. \A e \in Range(chan) : StillSo(e)'
    BY <1>0, <1>4 DEF removes
  <2>4. CallsWait'
    BY <1>4 DEF removes, Free, Pending
  <2> QED
    BY <2>1, <2>2, <2>3, <2>4 DEF EventsHold
<1>5. ASSUME NEW m \in Message, removesPart(m) PROVE EventsHold' /\ CallsWait'
  <2>1. Range(chan') = Range(chan) \cup {<<"partRemoved", m, part[m]>>}
    BY <1>5, EventAdded DEF removesPart, emits
  <2>2. StillSo(<<"partRemoved", m, part[m]>>)'
    BY <1>0, <1>5 DEF removesPart, Typed
  <2>3. \A e \in Range(chan) : StillSo(e)'
    BY <1>0, <1>5 DEF removesPart, Typed
  <2>4. CallsWait'
    BY <1>0, <1>5 DEF removesPart, Free, Pending, Typed
  <2> QED
    BY <2>1, <2>2, <2>3, <2>4 DEF EventsHold
<1>6. ASSUME NEW m \in Message, NEW p \in Part, makesPart(m, p) PROVE EventsHold' /\ CallsWait'
  <2>1. Range(chan') = Range(chan) \cup {<<"part", m, p>>}
    BY <1>6, EventAdded DEF makesPart, emits
  <2>2. StillSo(<<"part", m, p>>)'
    BY <1>0, <1>6 DEF makesPart
  <2>3. \A e \in Range(chan) : StillSo(e)'
    BY <1>0, <1>6 DEF makesPart, Typed
  <2>4. CallsWait'
    BY <1>0, <1>6 DEF makesPart, toolOf, Typed
  <2> QED
    BY <2>1, <2>2, <2>3, <2>4 DEF EventsHold
<1>7. ASSUME NEW m \in Message, NEW r \in Request, asks(r, m) PROVE EventsHold' /\ CallsWait'
  <2>1. Range(chan') = Range(chan) \cup {<<"asked", r, None>>}
    BY <1>7, EventAdded DEF asks, emits
  <2>2. StillSo(<<"asked", r, None>>)'
    BY <1>7 DEF asks, Typed
  <2>3. \A e \in Range(chan) : StillSo(e)'
    BY <1>0, <1>7 DEF asks, Typed
  <2>4. CallsWait'
    BY <1>7 DEF asks, Typed
  <2> QED
    BY <2>1, <2>2, <2>3, <2>4 DEF EventsHold
<1>8. ASSUME NEW m \in Message \cup {None}, reverts(m) PROVE EventsHold' /\ CallsWait'
  <2>1. Range(chan') = Range(chan) \cup {<<"session", m, None>>}
    BY <1>8, EventAdded DEF reverts, emits
  <2>2. StillSo(<<"session", m, None>>)' /\ \A e \in Range(chan) : StillSo(e)'
    BY <1>0, <1>8 DEF reverts
  <2>3. CallsWait'
    BY <1>8 DEF reverts
  <2> QED
    BY <2>1, <2>2, <2>3 DEF EventsHold
<1>9. ASSUME compacts PROVE EventsHold' /\ CallsWait'
  <2>1. Range(chan') = Range(chan) \cup {<<"compacted", None, None>>}
    BY <1>9, EventAdded DEF compacts, emits
  <2>2. StillSo(<<"compacted", None, None>>)' /\ \A e \in Range(chan) : StillSo(e)'
    BY <1>0, <1>9 DEF compacts
  <2>3. CallsWait'
    BY <1>9 DEF compacts
  <2> QED
    BY <2>1, <2>2, <2>3 DEF EventsHold
<1>10. ASSUME NEW r \in Request, NEW local \in BOOLEAN, answered(r, local)
       PROVE  EventsHold' /\ CallsWait'
  <2>1. Range(chan') = Range(chan) \cup {<<"replied", r, None>>}
    BY <1>10, EventAdded DEF answered, emits
  <2>2. StillSo(<<"replied", r, None>>)'
    BY <1>10 DEF answered, Typed
  <2>3. \A e \in Range(chan) : StillSo(e)'
    BY <1>0, <1>10 DEF answered, Typed
  <2>4. CallsWait'
    BY <1>10 DEF answered, Typed
  <2> QED
    BY <2>1, <2>2, <2>3, <2>4 DEF EventsHold
<1>11. ASSUME streamBreaks PROVE EventsHold' /\ CallsWait'
  <2>1. Range(chan') = {}
    BY <1>11 DEF streamBreaks, Range
  <2>2. CallsWait'
    BY <1>11 DEF streamBreaks
  <2> QED
    BY <2>1, <2>2 DEF EventsHold
<1> HIDE DEF HistoryIsKept, StillSo, CallsWait, messages, requests, here
<1> QED
  BY <1>1, <1>2, <1>3, <1>4, <1>5, <1>6, <1>7, <1>8, <1>9, <1>10, <1>11 DEF InstanceStep

\* What the calls do to the list.
LEMMA CallList ==
  ASSUME Typed, StoreIsSound, CallStep
  PROVE  \/ \E o \in unsent : /\ Range(store'.ids) = Range(store.ids) \cup {o}
                              /\ \A j \in Message : store'.record[j] = store.record[j]
                              /\ sending' = sending \cup {o} /\ lost' = lost
         \/ /\ Range(store'.ids) \cap Own = {}
            /\ \A j \in Message : j \notin load.list => store'.record[j] = store.record[j]
         \/ /\ Range(store'.ids) = Range(store.ids)
            /\ \A j \in Message : store'.record[j] = store.record[j]
            /\ lost' \/ (sending' = sending /\ lost' = lost)
<1> USE DEF StoreIsSound
<1>1. ASSUME NEW o \in Own, sendMessage(o)
      PROVE  /\ o \in unsent /\ Range(store'.ids) = Range(store.ids) \cup {o}
             /\ \A j \in Message : store'.record[j] = store.record[j]
             /\ sending' = sending \cup {o} /\ lost' = lost
  BY <1>1, PromptSent DEF sendMessage, instance, stream
<1>2. ASSUME messagesLoaded
      PROVE  \/ /\ Range(store'.ids) \cap Own = {}
                /\ \A j \in Message : j \notin load.list => store'.record[j] = store.record[j]
             \/ store' = store /\ sending' = sending /\ lost' = lost
  <2>1. /\ load \in Load /\ load.list \cap Own = {} /\ Message \subseteq Id
        /\ role \in [Message -> Role] /\ memory \in Message \cup {None}
    BY Ids DEF Typed, Load
  <2>2. \/ store' = store
        \/ /\ Range(store'.ids) = load.list
           /\ \A j \in Id : j \notin load.list => store'.record[j] = store.record[j]
    BY <1>2, <2>1, Seeded DEF messagesLoaded
  <2>3. sending' = sending /\ lost' = lost
    BY <1>2 DEF messagesLoaded, instance, stream, prompts
  <2> QED
    BY <2>1, <2>2, <2>3
<1>3. ASSUME syncPending
      PROVE  /\ store'.ids = store.ids /\ store'.record = store.record
             /\ sending' = sending /\ lost' = lost
  <2> DEFINE stale == (queued \ sync[2]) \cap IF sync[1] = "permission" THEN Permission ELSE Question
  <2>1. /\ sync[2] \in SUBSET Request /\ stale \in SUBSET Request
        /\ store' = upsertRequests(removeRequests(store, stale), sync[2])
        /\ sending' = sending /\ lost' = lost
    BY <1>3 DEF syncPending, Typed, instance, stream, prompts
  <2> HIDE DEF stale
  <2>2. SameMessages(store, store')
    BY <2>1, Synced DEF Sound
  <2> QED
    BY <2>1, <2>2 DEF SameMessages
<1>4. ASSUME UNCHANGED store, lost' \/ (sending' = sending /\ lost' = lost)
      PROVE  /\ Range(store'.ids) = Range(store.ids)
             /\ \A j \in Message : store'.record[j] = store.record[j]
             /\ lost' \/ (sending' = sending /\ lost' = lost)
  BY <1>4
<1> HIDE DEF StoreIsSound
<1>5. CASE \E o \in Own : sendMessage(o)
  BY <1>1, <1>5
<1>6. CASE messagesLoaded
  BY <1>2, <1>6
<1>7. CASE syncPending
  BY <1>3, <1>7
<1>8. CASE UNCHANGED store /\ (lost' \/ (sending' = sending /\ lost' = lost))
  BY <1>4, <1>8
<1>9. ASSUME NEW o \in Own, promptFails(o) PROVE UNCHANGED store /\ lost'
  BY <1>9 DEF promptFails
<1>10. ASSUME \/ loadMessages \/ messagesAnswered \/ loadFails
              \/ \E k \in {"permission", "question"} : pendingListed(k)
              \/ \E r \in Request : replyAnswered(r)
       PROVE  UNCHANGED store /\ sending' = sending /\ lost' = lost
  BY <1>10 DEF loadMessages, messagesAnswered, loadFails, pendingListed, replyAnswered,
               instance, stream, prompts
<1>11. CASE \/ loadMessages \/ messagesAnswered \/ loadFails
            \/ \E k \in {"permission", "question"} : pendingListed(k)
            \/ \E r \in Request : replyAnswered(r)
  BY <1>8, <1>10, <1>11
<1>12. CASE \E o \in Own : promptFails(o)
  BY <1>8, <1>9, <1>12
<1>13. \/ \E o \in Own : sendMessage(o)
       \/ \E o \in Own : promptFails(o)
       \/ messagesLoaded
       \/ syncPending
       \/ \/ loadMessages \/ messagesAnswered \/ loadFails
          \/ \E k \in {"permission", "question"} : pendingListed(k)
          \/ \E r \in Request : replyAnswered(r)
  BY DEF CallStep
<1> QED
  BY <1>5, <1>6, <1>7, <1>11, <1>12, <1>13

\* What the events do to the list.
LEMMA EventList ==
  ASSUME Typed, StoreIsSound, EventStep
  PROVE  \/ \E m \in Message, complete \in BOOLEAN :
              /\ Head(chan) = <<"updated", m, complete>>
              /\ store'.record[m] # None
              /\ \A j \in Message : j # m => store'.record[j] = store.record[j]
              /\ Range(store'.ids) \cap Own \subseteq Range(store.ids)
              /\ \/ store.record[m] # None \/ role[m] = "assistant" \/ Range(store'.ids) \cap Own = {}
                 \/ \E own \in Own \cap Range(store.ids) : own \notin Range(store'.ids)
         \/ \E m \in Message, p \in Part :
              /\ Head(chan) = <<"part", m, p>>
              /\ \A j \in Message : j # m => store'.record[j] = store.record[j]
              /\ Range(store'.ids) \cap Own \subseteq Range(store.ids)
         \/ /\ Head(chan)[1] # "updated"
            /\ \A j \in Message : store.record[j] = None => store'.record[j] = None
            /\ Range(store'.ids) \cap Own \subseteq Range(store.ids)
<1> USE DEF StoreIsSound
<1>0. store \in Stores /\ Message \subseteq Id
  BY Ids DEF Sound
<1>1. ASSUME NEW m \in Message, NEW complete \in BOOLEAN, handleMessageUpdate(m, complete)
      PROVE  /\ Head(chan) = <<"updated", m, complete>>
             /\ store'.record[m] # None
             /\ \A j \in Message : j # m => store'.record[j] = store.record[j]
             /\ Range(store'.ids) \cap Own \subseteq Range(store.ids)
             /\ \/ store.record[m] # None \/ role[m] = "assistant" \/ Range(store'.ids) \cap Own = {}
                \/ \E own \in Own \cap Range(store.ids) : own \notin Range(store'.ids)
  BY <1>1, HeadArrives DEF HeadShown
<1>2. ASSUME NEW m \in Message, NEW p \in Part, handleMessagePartUpdate(m, p)
      PROVE  /\ Head(chan) = <<"part", m, p>>
             /\ \A j \in Message : j # m => store'.record[j] = store.record[j]
             /\ Range(store'.ids) \cap Own \subseteq Range(store.ids)
  BY <1>2, PartArrives DEF CallShown
<1> DEFINE Fewer == /\ Head(chan)[1] # "updated"
                    /\ \A j \in Message : store.record[j] = None => store'.record[j] = None
                    /\ Range(store'.ids) \cap Own \subseteq Range(store.ids)
<1>3. ASSUME NEW m \in Message, NEW p \in Part, handleMessagePartRemoved(m, p) PROVE Fewer
  <2>1. Head(chan)[1] # "updated"
    BY <1>3 DEF handleMessagePartRemoved, receives
  <2>2. store' = removeMessagePart(store, m, p)
    BY <1>3 DEF handleMessagePartRemoved
  <2>3. store'.ids = store.ids
    BY <2>2, PartRemoved
  <2>4. SameKnown(store, store')
    BY <2>2, PartRemoved
  <2> QED
    BY <1>0, <2>1, <2>3, <2>4 DEF SameKnown
<1>4. ASSUME NEW m \in Message, handleMessageRemoved(m) PROVE Fewer
  <2>1. Head(chan)[1] # "updated"
    BY <1>4 DEF handleMessageRemoved, receives
  <2>2. Shortened(store, store')
    BY <1>4, MessageRemoved DEF handleMessageRemoved
  <2> QED
    BY <2>1, <2>2 DEF Shortened
<1>5. ASSUME NEW m \in Message \cup {None}, handleSessionUpdate(m) PROVE Fewer
  <2>1. Head(chan)[1] # "updated"
    BY <1>5 DEF handleSessionUpdate, receives
  <2>2. Shortened(store, store')
    BY <1>5, RevertHandled DEF handleSessionUpdate
  <2> QED
    BY <2>1, <2>2 DEF Shortened
<1>6. ASSUME NEW r \in Request, handleAsked(r) PROVE Fewer
  <2>1. Head(chan)[1] # "updated"
    BY <1>6 DEF handleAsked, receives
  <2>2. SameMessages(store, store')
    BY <1>0, <1>6, RequestPut DEF handleAsked
  <2> QED
    BY <2>1, <2>2 DEF SameMessages
<1>7. ASSUME NEW r \in Request, handleReplied(r) PROVE Fewer
  <2>1. Head(chan)[1] # "updated"
    BY <1>7 DEF handleReplied, receives
  <2>2. SameMessages(store, store')
    BY <1>0, <1>7, RequestsRemoved DEF handleReplied
  <2> QED
    BY <2>1, <2>2 DEF SameMessages
<1>8. ASSUME handleSessionCompacted PROVE Fewer
  BY <1>8 DEF handleSessionCompacted, receives
<1> HIDE DEF StoreIsSound, Fewer
<1>9. CASE \E m \in Message, complete \in BOOLEAN : handleMessageUpdate(m, complete)
  BY <1>1, <1>9
<1>10. CASE \E m \in Message, p \in Part : handleMessagePartUpdate(m, p)
  BY <1>2, <1>10
<1>11. CASE Fewer
  BY <1>11 DEF Fewer
<1> QED
  BY <1>3, <1>4, <1>5, <1>6, <1>7, <1>8, <1>9, <1>10, <1>11 DEF EventStep

\* The instance makes messages and asks requests, and takes neither back.
LEMMA InstanceGoesOn ==
  ASSUME Typed, InstanceStep
  PROVE  /\ 1 .. made \subseteq 1 .. made'
         /\ \A r \in Request : asked[r] # "unasked" => asked'[r] # "unasked"
<1> USE DEF messages, requests
<1>1. ASSUME NEW r \in Role, makes(r) PROVE 1 .. made \subseteq 1 .. made' /\ asked' = asked
  BY <1>1 DEF makes, Typed
<1>2. ASSUME NEW r \in Request, NEW m \in Message, asks(r, m)
      PROVE  made' = made /\ \A q \in Request : asked[q] # "unasked" => asked'[q] # "unasked"
  BY <1>2 DEF asks, Typed
<1>3. ASSUME NEW r \in Request, NEW local \in BOOLEAN, answered(r, local)
      PROVE  made' = made /\ \A q \in Request : asked[q] # "unasked" => asked'[q] # "unasked"
  BY <1>3 DEF answered, Typed
<1> QED
  BY <1>1, <1>2, <1>3
  DEF InstanceStep, accepts, ends, removes, removesPart, makesPart, reverts, compacts, streamBreaks, Role

\* What is known here has been made.
LEMMA HistoryStep ==
  Typed /\ StoreIsSound /\ HistoryIsKept /\ [Next]_vars => HistoryIsKept'
<1> SUFFICES ASSUME Typed, StoreIsSound, HistoryIsKept, [Next]_vars PROVE HistoryIsKept'
  OBVIOUS
<1>0. /\ load.list \subseteq 1 .. made /\ store.queue \subseteq Request
      /\ sync # None => sync[2] \subseteq Request
  BY DEF Typed, StoreIsSound, Sound, Stores
<1>1. CASE InstanceStep
  <2>1. EventsHold' /\ CallsWait'
    BY <1>1, InstanceHistory
  <2>2. KnownIsMade'
    BY <1>0, <1>1, InstanceKeeps, InstanceGoesOn DEF KnownIsMade, HistoryIsKept
  <2> QED
    BY <2>1, <2>2 DEF HistoryIsKept
<1>2. CASE CallStep
  <2>1. UNCHANGED <<made, there, role, part, ended, asked, about, chan>>
    BY <1>2, CallKeeps
  <2>2. EventsHold' /\ CallsWait'
    BY <2>1 DEF EventsHold, StillSo, CallsWait, HistoryIsKept
  <2>3. \A m \in Message : m \notin 1 .. made => store'.record[m] = None
    BY <1>0, <1>2, CallList DEF KnownIsMade, HistoryIsKept
  <2>4. \A r \in store'.queue : asked[r] # "unasked"
    BY <1>2, CallQueue DEF KnownIsMade, HistoryIsKept
  <2>5. sync' # None => \A r \in sync'[2] : asked[r] # "unasked"
    <3>1. sync' # None => sync' = sync \/ \E k : sync' = <<k, sync'[2]>> /\ sync'[2] \subseteq Pending
      BY <1>2 DEF CallStep, sendMessage, promptFails, loadMessages, messagesAnswered, messagesLoaded,
                  loadFails, pendingListed, syncPending, replyAnswered
    <3> QED
      BY <3>1 DEF KnownIsMade, HistoryIsKept, Pending
  <2> QED
    BY <2>1, <2>2, <2>3, <2>4, <2>5 DEF HistoryIsKept, KnownIsMade
<1>3. CASE EventStep
  <2>1. /\ UNCHANGED <<made, there, role, part, ended, asked, about, sync>>
        /\ Range(chan) = Range(chan') \cup {Head(chan)}
    BY <1>3, EventKeeps, Taken DEF Typed
  <2>2. EventsHold' /\ CallsWait'
    BY <2>1 DEF EventsHold, StillSo, CallsWait, HistoryIsKept
  <2>3. StillSo(Head(chan))
    BY <2>1 DEF EventsHold, HistoryIsKept
  <2>4. \A m \in Message : m \notin 1 .. made => store'.record[m] = None
    <3>1. \A m \in Message : \A x : Head(chan) = <<"updated", m, x>> \/ Head(chan) = <<"part", m, x>> => m \in 1 .. made
      BY <2>3 DEF StillSo
    <3> QED
      BY <1>3, <3>1, EventList DEF KnownIsMade, HistoryIsKept
  <2>5. \A r \in store'.queue : asked[r] # "unasked"
    <3>1. \A r \in Request : Head(chan) = <<"asked", r, None>> => asked[r] # "unasked"
      BY <2>3 DEF StillSo
    <3> QED
      BY <1>3, <3>1, EventQueue DEF KnownIsMade, HistoryIsKept
  <2> QED
    BY <2>1, <2>2, <2>4, <2>5 DEF HistoryIsKept, KnownIsMade
<1>4. CASE UNCHANGED vars
  BY <1>4 DEF vars, messages, requests, stream, HistoryIsKept, EventsHold, StillSo, CallsWait, KnownIsMade
<1> QED
  BY <1>1, <1>2, <1>3, <1>4 DEF Next

-----------------------------------------------------------------------------
(* Every prompt is echoed *)

\* Prompts the instance has taken, and of which nothing is known here.
Unseen ==
  {m \in Message : /\ role[m] = "user" /\ store.record[m] = None
                   /\ <<"updated", m, FALSE>> \in Range(chan)}

\* A prompt in the list is still being sent, or its echo is on its way.
EchoesOutstanding ==
  ~lost => Cardinality(Listed \cap Own) <= Cardinality(sending) + Cardinality(Unseen)

\* One element more makes a set larger by one at most.
LEMMA OneMore ==
  ASSUME NEW S, IsFiniteSet(S), NEW x
  PROVE  IsFiniteSet(S \cup {x}) /\ Cardinality(S \cup {x}) <= Cardinality(S) + 1
<1>1. Cardinality(S) \in Nat
  BY FS_CardinalityType
<1>2. /\ IsFiniteSet(S \cup {x})
      /\ Cardinality(S \cup {x}) = IF x \in S THEN Cardinality(S) ELSE Cardinality(S) + 1
  BY FS_AddElement
<1> QED
  BY <1>1, <1>2

\* A prompt that is accepted becomes a message that nothing is known of here.
LEMMA InstanceEchoes ==
  ASSUME Typed, InstanceStep
  PROVE  \/ lost'
         \/ /\ lost' = lost /\ Range(chan) \subseteq Range(chan')
            /\ \A m \in 1 .. made : role'[m] = role[m]
            /\ \/ sending' = sending
               \/ \E o \in sending, new \in Message :
                    /\ sending' = sending \ {o}
                    /\ new \notin 1 .. made /\ role'[new] = "user"
                    /\ <<"updated", new, FALSE>> \in Range(chan')
<1> USE DEF messages
<1>1. ASSUME NEW r \in Role, makes(r)
      PROVE  /\ lost' = lost /\ Range(chan) \subseteq Range(chan')
             /\ \A m \in 1 .. made : role'[m] = role[m]
             /\ \E new \in Message : /\ new \notin 1 .. made /\ role'[new] = r
                                     /\ <<"updated", new, FALSE>> \in Range(chan')
  <2>1. PICK new \in Message : new = made' /\ new \notin 1 .. made
    BY <1>1, MessageAssumption DEF makes, Message, Typed
  <2>2. Range(chan') = Range(chan) \cup {<<"updated", new, FALSE>>}
    BY <1>1, <2>1, EventAdded DEF makes, emits
  <2>3. lost' = lost /\ role' = [role EXCEPT ![new] = r]
    BY <1>1, <2>1 DEF makes, emits
  <2>4. \A m \in 1 .. made : m \in Message /\ role'[m] = role[m]
    BY <2>1, <2>3, MessageAssumption DEF Typed, Message
  <2>5. role'[new] = r
    BY <2>3 DEF Typed
  <2> QED
    BY <2>1, <2>2, <2>3, <2>4, <2>5
<1>2. ASSUME NEW type \in {"updated", "part", "removed", "partRemoved", "session", "compacted", "asked", "replied"},
             NEW x \in Message \cup Request \cup {None}, NEW more \in BOOLEAN \cup Part \cup {None},
             emits(type, x, more), role' = role, sending' = sending
      PROVE  /\ lost' = lost /\ Range(chan) \subseteq Range(chan')
             /\ \A m \in 1 .. made : role'[m] = role[m]
             /\ sending' = sending
  BY <1>2, EventAdded DEF emits
<1> DEFINE Goes == /\ lost' = lost /\ Range(chan) \subseteq Range(chan')
                   /\ \A m \in 1 .. made : role'[m] = role[m]
                   /\ sending' = sending
<1>3. ASSUME NEW m \in Message, ends(m) PROVE Goes
  BY <1>2, <1>3 DEF ends
<1>4. ASSUME NEW m \in Message, removes(m) PROVE Goes
  BY <1>2, <1>4 DEF removes
<1>5. ASSUME NEW m \in Message, removesPart(m) PROVE Goes
  BY <1>2, <1>5 DEF removesPart
<1>6. ASSUME NEW m \in Message, NEW p \in Part, makesPart(m, p) PROVE Goes
  BY <1>2, <1>6 DEF makesPart
<1>7. ASSUME NEW m \in Message, NEW r \in Request, asks(r, m) PROVE Goes
  BY <1>2, <1>7 DEF asks
<1>8. ASSUME NEW m \in Message \cup {None}, reverts(m) PROVE Goes
  BY <1>2, <1>8 DEF reverts
<1>9. ASSUME compacts PROVE Goes
  BY <1>2, <1>9 DEF compacts
<1>10. ASSUME NEW r \in Request, NEW local \in BOOLEAN, answered(r, local) PROVE Goes
  BY <1>2, <1>10 DEF answered
<1> DEFINE Accepted == /\ lost' = lost /\ Range(chan) \subseteq Range(chan')
                       /\ \A m \in 1 .. made : role'[m] = role[m]
                       /\ \E o \in sending, new \in Message :
                            /\ sending' = sending \ {o}
                            /\ new \notin 1 .. made /\ role'[new] = "user"
                            /\ <<"updated", new, FALSE>> \in Range(chan')
<1>11. ASSUME NEW o \in Own, accepts(o) PROVE Accepted
  BY <1>1, <1>11 DEF accepts, Role
<1>12. ASSUME NEW r \in Role, makes(r), UNCHANGED sending PROVE Goes
  BY <1>1, <1>12
<1>13. ASSUME streamBreaks PROVE lost'
  BY <1>13 DEF streamBreaks
<1> HIDE DEF Goes, Accepted, messages
<1>14. Goes \/ Accepted \/ lost'
  BY <1>3, <1>4, <1>5, <1>6, <1>7, <1>8, <1>9, <1>10, <1>11, <1>12, <1>13 DEF InstanceStep
<1> QED
  BY <1>14 DEF Goes, Accepted

\* No prompt is in the list without its sending or its echo.
LEMMA EchoesStep ==
  Typed /\ StoreIsSound /\ HistoryIsKept /\ EchoesOutstanding /\ [Next]_vars => EchoesOutstanding'
<1> SUFFICES ASSUME Typed, StoreIsSound, HistoryIsKept, EchoesOutstanding, [Next]_vars, ~lost'
             PROVE  Cardinality(Listed' \cap Own) <= Cardinality(sending') + Cardinality(Unseen')
  BY DEF EchoesOutstanding
<1> DEFINE S == Listed \cap Own
           U == Unseen
           T == Listed' \cap Own
           V == Unseen'
<1>1. /\ IsFiniteSet(S) /\ IsFiniteSet(T) /\ IsFiniteSet(U) /\ IsFiniteSet(V) /\ IsFiniteSet(sending)
      /\ U \subseteq Message /\ V \subseteq Message
  <2>1. /\ S \subseteq Own /\ T \subseteq Own /\ U \subseteq Message /\ V \subseteq Message /\ sending \subseteq Own
    BY DEF Unseen, Typed
  <2> QED
    BY <2>1, Ids, FS_Subset
<1>2. /\ Cardinality(S) \in Nat /\ Cardinality(T) \in Nat /\ Cardinality(U) \in Nat
      /\ Cardinality(V) \in Nat /\ Cardinality(sending) \in Nat
  BY <1>1, FS_CardinalityType
<1>3. U \subseteq 1 .. made
  BY DEF Unseen, HistoryIsKept, EventsHold, StillSo
<1>4. /\ T \subseteq S => Cardinality(T) <= Cardinality(S)
      /\ U \subseteq V => Cardinality(U) <= Cardinality(V)
  BY <1>1, FS_Subset
<1>5. U = {m \in Message : role[m] = "user" /\ store.record[m] = None /\ <<"updated", m, FALSE>> \in Range(chan)}
  BY DEF Unseen
<1>6. V = {m \in Message : role'[m] = "user" /\ store'.record[m] = None /\ <<"updated", m, FALSE>> \in Range(chan')}
  BY DEF Unseen
<1>7. S = Range(store.ids) \cap Own /\ T = Range(store'.ids) \cap Own
  BY DEF Listed
<1>8. ~lost => Cardinality(S) <= Cardinality(sending) + Cardinality(U)
  BY DEF EchoesOutstanding
<1> HIDE DEF S, T, U, V
<1>9. CASE InstanceStep
  <2>1. store' = store /\ S = T
    BY <1>7, <1>9, InstanceKeeps
  <2>2. /\ ~lost /\ Range(chan) \subseteq Range(chan')
        /\ \A m \in 1 .. made : role'[m] = role[m]
        /\ \/ sending' = sending
           \/ \E o \in sending, new \in Message :
                /\ sending' = sending \ {o}
                /\ new \notin 1 .. made /\ role'[new] = "user"
                /\ <<"updated", new, FALSE>> \in Range(chan')
    <3>1. \/ lost'
          \/ /\ lost' = lost /\ Range(chan) \subseteq Range(chan')
             /\ \A m \in 1 .. made : role'[m] = role[m]
             /\ \/ sending' = sending
                \/ \E o \in sending, new \in Message :
                     /\ sending' = sending \ {o}
                     /\ new \notin 1 .. made /\ role'[new] = "user"
                     /\ <<"updated", new, FALSE>> \in Range(chan')
      BY <1>9, InstanceEchoes
    <3>2. ASSUME lost' = lost PROVE ~lost
      BY <3>2, Zenon
    <3> QED
      BY <3>1, <3>2
  <2>3. U \subseteq V
    BY <1>3, <1>5, <1>6, <2>1, <2>2
  <2>4. CASE sending' = sending
    BY <1>2, <1>4, <1>8, <2>1, <2>2, <2>3, <2>4 DEF T, V
  <2>5. CASE \E o \in sending, new \in Message :
                /\ sending' = sending \ {o}
                /\ new \notin 1 .. made /\ role'[new] = "user"
                /\ <<"updated", new, FALSE>> \in Range(chan')
    <3>1. PICK o \in sending, new \in Message :
                /\ sending' = sending \ {o}
                /\ new \notin 1 .. made /\ role'[new] = "user"
                /\ <<"updated", new, FALSE>> \in Range(chan')
      BY <2>5
    <3>2. Cardinality(sending') = Cardinality(sending) - 1
      BY <1>1, <3>1, FS_RemoveElement
    <3>3. new \in V
      BY <1>6, <2>1, <3>1 DEF HistoryIsKept, KnownIsMade
    <3>4. U \subseteq V \ {new}
      BY <1>3, <2>3, <3>1
    <3>5. Cardinality(V \ {new}) = Cardinality(V) - 1 /\ IsFiniteSet(V \ {new})
      BY <1>1, <3>3, FS_RemoveElement
    <3>6. Cardinality(U) <= Cardinality(V \ {new})
      BY <3>4, <3>5, FS_Subset
    <3>7. Cardinality(T) <= Cardinality(sending') + Cardinality(V)
      BY <1>2, <1>8, <2>1, <2>2, <3>2, <3>5, <3>6
    <3> QED
      BY <3>7 DEF T, V
  <2> QED
    BY <2>2, <2>4, <2>5
<1>10. CASE CallStep
  <2>1. chan' = chan /\ role' = role
    BY <1>10, CallKeeps
  <2>2. CASE \E o \in unsent : /\ Range(store'.ids) = Range(store.ids) \cup {o}
                               /\ \A j \in Message : store'.record[j] = store.record[j]
                               /\ sending' = sending \cup {o} /\ lost' = lost
    <3>1. PICK o \in unsent : /\ Range(store'.ids) = Range(store.ids) \cup {o}
                              /\ \A j \in Message : store'.record[j] = store.record[j]
                              /\ sending' = sending \cup {o} /\ lost' = lost
      BY <2>2
    <3>2. o \notin sending
      BY DEF Typed
    <3>3. Cardinality(sending') = Cardinality(sending) + 1
      BY <1>1, <3>1, <3>2, FS_AddElement
    <3>4. U = V
      BY <1>5, <1>6, <2>1, <3>1
    <3>5. T \subseteq S \cup {o}
      BY <1>7, <3>1
    <3>6. Cardinality(T) <= Cardinality(S) + 1
      <4>1. IsFiniteSet(S \cup {o}) /\ Cardinality(S \cup {o}) <= Cardinality(S) + 1
        BY <1>1, OneMore
      <4>2. Cardinality(T) <= Cardinality(S \cup {o}) /\ Cardinality(S \cup {o}) \in Nat
        BY <3>5, <4>1, FS_Subset, FS_CardinalityType
      <4> QED
        BY <1>2, <4>1, <4>2
    <3>7. Cardinality(T) <= Cardinality(sending') + Cardinality(V)
      BY <1>2, <1>8, <3>1, <3>3, <3>4, <3>6
    <3> QED
      BY <3>7 DEF T, V
  <2>3. CASE Range(store'.ids) \cap Own = {}
    <3>1. Cardinality(T) = 0
      BY <1>7, <2>3, FS_EmptySet
    <3>2. Cardinality(sending') \in Nat
      <4>1. sending' \subseteq Own
        BY TypedStep DEF Typed
      <4> QED
        BY <4>1, Ids, FS_Subset, FS_CardinalityType
    <3>3. Cardinality(T) <= Cardinality(sending') + Cardinality(V)
      BY <1>2, <3>1, <3>2
    <3> QED
      BY <3>3 DEF T, V
  <2>4. CASE /\ Range(store'.ids) = Range(store.ids)
             /\ \A j \in Message : store'.record[j] = store.record[j]
             /\ lost' \/ (sending' = sending /\ lost' = lost)
    <3>1. U = V /\ S = T
      BY <1>5, <1>6, <1>7, <2>1, <2>4
    <3>2. Cardinality(T) <= Cardinality(sending') + Cardinality(V)
      BY <1>8, <2>4, <3>1
    <3> QED
      BY <3>2 DEF T, V
  <2> QED
    BY <1>10, <2>2, <2>3, <2>4, CallList
<1>11. CASE EventStep
  <2>1. /\ Range(chan) = Range(chan') \cup {Head(chan)}
        /\ role' = role /\ ~lost /\ sending' = sending
    <3>1. chan # <<>> /\ chan' = Tail(chan) /\ chan \in Seq(Event)
      BY <1>11, EventKeeps DEF Typed
    <3>2. role' = role /\ lost' = lost /\ sending' = sending
      BY <1>11, EventKeeps
    <3>3. ~lost
      BY <3>2, Zenon
    <3> QED
      BY <3>1, <3>2, <3>3, Taken
  <2>2. StillSo(Head(chan))
    BY <2>1 DEF EventsHold, HistoryIsKept
  <2>3. SUFFICES Cardinality(T) <= Cardinality(sending) + Cardinality(V)
    BY <2>1 DEF T, V
  <2>4. CASE \E m \in Message, complete \in BOOLEAN :
               /\ Head(chan) = <<"updated", m, complete>>
               /\ \A j \in Message : j # m => store'.record[j] = store.record[j]
               /\ Range(store'.ids) \cap Own \subseteq Range(store.ids)
               /\ \/ store.record[m] # None \/ role[m] = "assistant" \/ Range(store'.ids) \cap Own = {}
                  \/ \E own \in Own \cap Range(store.ids) : own \notin Range(store'.ids)
    <3>1. PICK m \in Message, complete \in BOOLEAN :
               /\ Head(chan) = <<"updated", m, complete>>
               /\ \A j \in Message : j # m => store'.record[j] = store.record[j]
               /\ Range(store'.ids) \cap Own \subseteq Range(store.ids)
               /\ \/ store.record[m] # None \/ role[m] = "assistant" \/ Range(store'.ids) \cap Own = {}
                  \/ \E own \in Own \cap Range(store.ids) : own \notin Range(store'.ids)
      BY <2>4
    <3>2. U \ {m} \subseteq V /\ T \subseteq S
      <4>1. ASSUME NEW j \in U \ {m} PROVE <<"updated", j, FALSE>> \in Range(chan')
        <5>1. <<"updated", j, FALSE>> # Head(chan)
          <6>1. <<"updated", j, FALSE>>[2] = j /\ Head(chan)[2] = m /\ j # m
            BY <3>1, <4>1
          <6> QED
            BY <6>1
        <5> QED
          BY <1>5, <2>1, <4>1, <5>1
      <4> QED
        BY <1>5, <1>6, <1>7, <2>1, <3>1, <4>1
    <3>3. CASE store.record[m] # None \/ role[m] = "assistant"
      <4>1. U \subseteq V
        BY <1>5, <3>2, <3>3
      <4> QED
        BY <1>2, <1>4, <1>8, <2>1, <3>2, <4>1
    <3>4. CASE Range(store'.ids) \cap Own = {}
      <4>1. Cardinality(T) = 0
        BY <1>7, <3>4, FS_EmptySet
      <4> QED
        BY <1>2, <4>1
    <3>5. CASE \E own \in Own \cap Range(store.ids) : own \notin Range(store'.ids)
      <4>1. PICK own \in S : own \notin T
        BY <1>7, <3>5
      <4>2. T \subseteq S \ {own}
        BY <3>2, <4>1
      <4>3. Cardinality(S \ {own}) = Cardinality(S) - 1 /\ IsFiniteSet(S \ {own})
        BY <1>1, <4>1, FS_RemoveElement
      <4>4. Cardinality(T) <= Cardinality(S \ {own})
        BY <4>2, <4>3, FS_Subset
      <4>5. Cardinality(U) <= Cardinality(V) + 1
        <5>1. IsFiniteSet(V \cup {m}) /\ Cardinality(V \cup {m}) <= Cardinality(V) + 1
          BY <1>1, OneMore
        <5>2. U \subseteq V \cup {m}
          BY <3>2
        <5>3. Cardinality(U) <= Cardinality(V \cup {m}) /\ Cardinality(V \cup {m}) \in Nat
          BY <5>1, <5>2, FS_Subset, FS_CardinalityType
        <5> QED
          BY <1>2, <5>1, <5>3
      <4> QED
        BY <1>2, <1>8, <2>1, <4>3, <4>4, <4>5
    <3> QED
      BY <3>1, <3>3, <3>4, <3>5
  <2>5. CASE \E m \in Message, p \in Part :
               /\ Head(chan) = <<"part", m, p>>
               /\ \A j \in Message : j # m => store'.record[j] = store.record[j]
               /\ Range(store'.ids) \cap Own \subseteq Range(store.ids)
    <3>1. PICK m \in Message, p \in Part :
               /\ Head(chan) = <<"part", m, p>>
               /\ \A j \in Message : j # m => store'.record[j] = store.record[j]
               /\ Range(store'.ids) \cap Own \subseteq Range(store.ids)
      BY <2>5
    <3>2. role[m] = "assistant"
      BY <2>2, <3>1 DEF StillSo
    <3>3. ASSUME NEW j PROVE <<"updated", j, FALSE>> # Head(chan)
      <4>1. <<"updated", j, FALSE>>[1] = "updated" /\ Head(chan)[1] = "part"
        BY <3>1
      <4> QED
        BY <4>1
    <3>4. U \subseteq V /\ T \subseteq S
      BY <1>5, <1>6, <1>7, <2>1, <3>1, <3>2, <3>3
    <3> QED
      BY <1>2, <1>4, <1>8, <2>1, <3>4
  <2>6. CASE /\ Head(chan)[1] # "updated"
             /\ \A j \in Message : store.record[j] = None => store'.record[j] = None
             /\ Range(store'.ids) \cap Own \subseteq Range(store.ids)
    <3>1. ASSUME NEW j PROVE <<"updated", j, FALSE>> # Head(chan)
      <4>1. <<"updated", j, FALSE>>[1] = "updated"
        OBVIOUS
      <4> QED
        BY <2>6, <4>1
    <3>2. U \subseteq V /\ T \subseteq S
      BY <1>5, <1>6, <1>7, <2>1, <2>6, <3>1
    <3> QED
      BY <1>2, <1>4, <1>8, <2>1, <3>2
  <2> QED
    BY <1>11, <2>4, <2>5, <2>6, EventList
<1>12. CASE UNCHANGED vars
  BY <1>8, <1>12 DEF vars, messages, stream, prompts, S, U, Listed, Unseen
<1> QED
  BY <1>9, <1>10, <1>11, <1>12 DEF Next

\* The instance and the store agree on what has happened, and no prompt is
\* forgotten.
THEOREM HistoryAlways == Spec => [](HistoryIsKept /\ EchoesOutstanding)
<1>1. Init => HistoryIsKept /\ EchoesOutstanding
  <2> SUFFICES ASSUME Init PROVE HistoryIsKept /\ EchoesOutstanding
    OBVIOUS
  <2>1. /\ Range(chan) = {} /\ Range(store.ids) = {} /\ store.queue = {} /\ sync = None
        /\ \A m \in Message : m \in Id /\ store.record[m] = None
        /\ \A r \in Request : asked[r] = "unasked"
    BY Ids DEF Init, Range
  <2>2. HistoryIsKept
    BY <2>1 DEF HistoryIsKept, EventsHold, CallsWait, KnownIsMade
  <2>3. Listed \cap Own = {} /\ Unseen = {} /\ sending = {}
    BY <2>1 DEF Listed, Unseen, Init
  <2>4. EchoesOutstanding
    BY <2>3, FS_EmptySet DEF EchoesOutstanding
  <2> QED
    BY <2>2, <2>4
<1>2. HistoryIsKept /\ EchoesOutstanding /\ Typed /\ StoreIsSound /\ [Next]_vars
        => HistoryIsKept' /\ EchoesOutstanding'
  BY HistoryStep, EchoesStep
<1> QED
  BY <1>1, <1>2, StoreAlways, PTL DEF Spec

\* With nothing under way, and nothing lost, no listed prompt is being sent.
THEOREM PromptsEchoedAlways == Spec => []PromptsEchoed
<1>1. Typed /\ StoreIsSound /\ HistoryIsKept /\ EchoesOutstanding => PromptsEchoed
  <2> SUFFICES ASSUME StoreIsSound, EchoesOutstanding, ~lost, Quiet, NEW i \in Listed,
                      store.record[i].status = "sending"
               PROVE  FALSE
    BY DEF PromptsEchoed
  <2>1. Range(chan) = {} /\ sending = {}
    BY DEF Quiet, Range
  <2>2. Unseen = {}
    BY <2>1 DEF Unseen
  <2>3. Cardinality(Listed \cap Own) <= 0 + 0
    BY <2>1, <2>2, FS_EmptySet DEF EchoesOutstanding
  <2>4. IsFiniteSet(Listed \cap Own) /\ Cardinality(Listed \cap Own) \in Nat
    BY Ids, FS_Subset, FS_CardinalityType
  <2>5. Listed \cap Own = {}
    BY <2>3, <2>4, FS_EmptySet
  <2>6. i \in Id /\ store.record[i] # None
    BY DEF StoreIsSound, Sound, Stores, RecordsKept, Listed, Range
  <2>7. i \in Own
    BY <2>6 DEF StoreIsSound, PromptsAreOwn
  <2> QED
    BY <2>5, <2>7
<1> QED
  BY <1>1, StoreAlways, HistoryAlways, PTL

-----------------------------------------------------------------------------
(* Requests are offered at their tool calls *)

\* A request that was asked is about a message.
AsksAreAbout == \A r \in Request : asked[r] # "unasked" => about[r] \in Message

\* A request in the queue stands at its tool call, or that is not known yet.
AllPlaced == \A r \in store.queue : PlacedIn(store, r)

\* A request that was asked stays about the same message.
LEMMA InstanceAsks ==
  ASSUME Typed, InstanceStep, NEW r \in Request
  PROVE  /\ asked[r] # "unasked" => about'[r] = about[r]
         /\ asked'[r] # "unasked" => asked[r] # "unasked" \/ about'[r] \in Message
<1> USE DEF messages, requests
<1>1. ASSUME NEW q \in Request, NEW m \in Message, asks(q, m)
      PROVE  /\ asked[r] # "unasked" => about'[r] = about[r]
             /\ asked'[r] # "unasked" => asked[r] # "unasked" \/ about'[r] \in Message
  BY <1>1 DEF asks, Typed
<1>2. ASSUME NEW q \in Request, NEW local \in BOOLEAN, answered(q, local)
      PROVE  about' = about /\ (asked'[r] # "unasked" => asked[r] # "unasked")
  BY <1>2 DEF answered, Typed
<1>3. ASSUME UNCHANGED <<asked, about>>
      PROVE  about' = about /\ asked' = asked
  BY <1>3
<1> QED
  BY <1>1, <1>2, <1>3
  DEF InstanceStep, makes, accepts, ends, removes, removesPart, makesPart, reverts, compacts, streamBreaks

\* What a request is about is settled when it is asked.
LEMMA AsksStep == Typed /\ AsksAreAbout /\ [Next]_vars => AsksAreAbout'
<1> SUFFICES ASSUME Typed, AsksAreAbout, [Next]_vars PROVE AsksAreAbout'
  OBVIOUS
<1>1. CASE InstanceStep
  BY <1>1, InstanceAsks DEF AsksAreAbout
<1>2. CASE CallStep
  BY <1>2, CallKeeps DEF AsksAreAbout
<1>3. CASE EventStep
  BY <1>3, EventKeeps DEF AsksAreAbout
<1>4. CASE UNCHANGED vars
  BY <1>4 DEF vars, requests, AsksAreAbout
<1> QED
  BY <1>1, <1>2, <1>3, <1>4 DEF Next

\* A request that is placed stays so through the calls, and one that a list
\* brings is placed.
LEMMA CallPlaces ==
  ASSUME Typed, StoreIsSound, CallStep,
         NEW r \in store'.queue, about[r] \in Message,
         r \in store.queue => PlacedIn(store, r)
  PROVE  PlacedIn(store', r)
<1> USE DEF StoreIsSound
<1>0. store \in Stores /\ store.queue \subseteq Request
  BY DEF Sound, Stores
<1>1. ASSUME NEW o \in Own, sendMessage(o) PROVE PlacedIn(store', r)
  <2>1. SameRequests(store, store')
    BY <1>1, PromptSent DEF sendMessage
  <2>2. \A j \in Message : store'.record[j] = store.record[j]
    BY <1>1, PromptSent DEF sendMessage
  <2>3. r \in store.queue /\ store'.bound = store.bound /\ store'.linked = store.linked
    BY <2>1 DEF SameRequests
  <2>4. resolved(store', r) => resolved(store, r)
    BY <2>2 DEF resolved
  <2> QED
    BY <2>3, <2>4, SamePlace
<1>2. ASSUME messagesLoaded PROVE PlacedIn(store', r)
  <2>1. \/ store' = store
        \/ /\ store'.queue = store.queue
           /\ store.bound \subseteq store'.bound /\ store.linked \subseteq store'.linked
           /\ \A q \in store.queue \ store.bound :
                \/ <<q, "part">> \in store'.linked /\ q \in store'.bound
                \/ ~resolved(store', q) /\ q \notin store'.bound
    BY <1>2, Seeded DEF messagesLoaded, Typed
  <2> QED
    BY <2>1 DEF PlacedIn
<1>3. ASSUME syncPending PROVE PlacedIn(store', r)
  <2> DEFINE stale == (queued \ sync[2]) \cap IF sync[1] = "permission" THEN Permission ELSE Question
  <2>1. /\ sync[2] \in SUBSET Request /\ stale \in SUBSET Request
        /\ store' = upsertRequests(removeRequests(store, stale), sync[2])
    BY <1>3 DEF syncPending, Typed
  <2> HIDE DEF stale
  <2>2. store'.queue = (store.queue \ stale) \cup sync[2]
    BY <1>0, <2>1, Synced
  <2>3. /\ \A q \in sync[2] : PlacedIn(store', q)
        /\ \A q \in Request \ (stale \cup sync[2]) : PlacedIn(store, q) => PlacedIn(store', q)
    BY <1>0, <2>1, Synced
  <2>4. r \in sync[2] \/ (r \in store.queue /\ r \in Request \ (stale \cup sync[2]))
    BY <1>0, <2>2
  <2> QED
    BY <2>3, <2>4
<1>4. ASSUME UNCHANGED store PROVE PlacedIn(store', r)
  BY <1>4
<1> HIDE DEF StoreIsSound
<1> QED
  BY <1>1, <1>2, <1>3, <1>4
  DEF CallStep, promptFails, loadMessages, messagesAnswered, loadFails, pendingListed, replyAnswered

\* A request that is placed stays so through the events, its own event places
\* it, and the reply takes it from the queue.
LEMMA EventPlaces ==
  ASSUME Typed, StoreIsSound, EventStep,
         NEW r \in store'.queue, about[r] \in Message,
         r \in store.queue => PlacedIn(store, r)
  PROVE  PlacedIn(store', r)
<1> USE DEF StoreIsSound
<1>0. store \in Stores /\ store.queue \subseteq Request /\ \A m \in Message : role[m] \in Role
  BY DEF Sound, Stores, Typed
<1>1. ASSUME SameRequests(store, store'), resolved(store', r) => resolved(store, r)
      PROVE  PlacedIn(store', r)
  BY <1>1, SamePlace DEF SameRequests
<1>2. ASSUME NEW m \in Message, NEW complete \in BOOLEAN, handleMessageUpdate(m, complete)
      PROVE  PlacedIn(store', r)
  <2>1. HeadShown(store, store', m, role[m])
    BY <1>2, HeadArrives
  <2>2. resolved(store', r) => resolved(store, r)
    BY <2>1 DEF resolved, HeadShown
  <2> QED
    BY <1>1, <2>1, <2>2 DEF HeadShown
<1>3. ASSUME NEW m \in Message, NEW p \in Part, handleMessagePartUpdate(m, p) PROVE PlacedIn(store', r)
  <2>1. CallShown(store, store', m)
    BY <1>3, PartArrives
  <2> QED
    BY <2>1 DEF CallShown
<1>4. ASSUME NEW m \in Message, NEW p \in Part, handleMessagePartRemoved(m, p) PROVE PlacedIn(store', r)
  <2>1. /\ SameRequests(store, store')
        /\ \A q \in Request : resolved(store', q) => resolved(store, q)
    BY <1>4, PartRemoved DEF handleMessagePartRemoved
  <2>2. r \in Request
    BY <1>0, <2>1 DEF SameRequests
  <2> QED
    BY <1>1, <2>1, <2>2
<1>5. ASSUME Shortened(store, store') PROVE PlacedIn(store', r)
  BY <1>1, <1>5 DEF Shortened, resolved
<1>6. ASSUME NEW m \in Message, handleMessageRemoved(m) PROVE PlacedIn(store', r)
  BY <1>5, <1>6, MessageRemoved DEF handleMessageRemoved
<1>7. ASSUME NEW m \in Message \cup {None}, handleSessionUpdate(m) PROVE PlacedIn(store', r)
  BY <1>5, <1>7, RevertHandled DEF handleSessionUpdate
<1>8. ASSUME NEW q \in Request, handleAsked(q) PROVE PlacedIn(store', r)
  <2>1. /\ SameMessages(store, store') /\ store'.queue = store.queue \cup {q}
        /\ store'.bound = IF resolved(store, q) THEN store.bound \cup {q} ELSE store.bound \ {q}
        /\ store'.linked = store.linked \cup {<<q, IF resolved(store, q) THEN "part" ELSE "request">>}
    BY <1>0, <1>8, RequestPut DEF handleAsked
  <2>2. resolved(store', r) <=> resolved(store, r)
    BY <2>1 DEF SameMessages, resolved
  <2>3. CASE q = r
    BY <2>1, <2>2, <2>3 DEF PlacedIn
  <2>4. CASE q # r
    <3>1. PlacedIn(store, r)
      BY <2>1, <2>4
    <3>2. r \in store'.bound <=> r \in store.bound
      BY <2>1, <2>4
    <3>3. \A by \in {"request", "part"} : <<r, by>> \in store.linked => <<r, by>> \in store'.linked
      BY <2>1
    <3> QED
      BY <2>2, <3>1, <3>2, <3>3, SamePlace
  <2> QED
    BY <2>3, <2>4
<1>9. ASSUME NEW q \in Request, handleReplied(q) PROVE PlacedIn(store', r)
  <2>1. /\ SameMessages(store, store') /\ store'.queue = store.queue \ {q}
        /\ store'.bound = store.bound \ {q} /\ store'.linked = store.linked \ linksOf({q})
    BY <1>0, <1>9, RequestsRemoved DEF handleReplied
  <2>2. r # q /\ PlacedIn(store, r)
    BY <2>1
  <2>3. r \in store'.bound <=> r \in store.bound
    BY <2>1, <2>2
  <2>4. \A by \in {"request", "part"} : <<r, by>> \in store.linked => <<r, by>> \in store'.linked
    BY <2>1, <2>2 DEF linksOf
  <2>5. resolved(store', r) => resolved(store, r)
    BY <2>1 DEF SameMessages, resolved
  <2> QED
    BY <2>2, <2>3, <2>4, <2>5, SamePlace
<1>10. ASSUME handleSessionCompacted PROVE PlacedIn(store', r)
  BY <1>10 DEF handleSessionCompacted
<1> HIDE DEF StoreIsSound
<1> QED
  BY <1>2, <1>3, <1>4, <1>6, <1>7, <1>8, <1>9, <1>10 DEF EventStep

\* Every request in the queue stays in its place.
LEMMA PlacesStep ==
  Typed /\ StoreIsSound /\ HistoryIsKept /\ AsksAreAbout /\ AllPlaced /\ [Next]_vars => AllPlaced'
<1> SUFFICES ASSUME Typed, StoreIsSound, HistoryIsKept, AsksAreAbout, AllPlaced, [Next]_vars,
                    NEW r \in store'.queue
             PROVE  PlacedIn(store, r)'
  BY DEF AllPlaced
<1>1. store.queue \subseteq Request /\ \A q \in store.queue : about[q] \in Message
  BY DEF StoreIsSound, Sound, Stores, HistoryIsKept, KnownIsMade, AsksAreAbout
<1>2. r \in store.queue => PlacedIn(store, r)
  BY DEF AllPlaced
<1>3. CASE InstanceStep
  <2>1. store' = store
    BY <1>3, InstanceKeeps
  <2>2. about'[r] = about[r]
    BY <1>1, <1>3, <2>1, InstanceAsks DEF HistoryIsKept, KnownIsMade
  <2> QED
    BY <1>2, <2>1, <2>2 DEF PlacedIn, resolved
<1>4. ASSUME UNCHANGED <<asked, about>> PROVE about[r] \in Message
  <2>1. HistoryIsKept' /\ StoreIsSound'
    BY HistoryStep, SoundStep
  <2>2. store'.queue \subseteq Request /\ \A q \in store'.queue : asked'[q] # "unasked"
    BY <2>1 DEF StoreIsSound, Sound, Stores, HistoryIsKept, KnownIsMade
  <2> QED
    BY <1>4, <2>2 DEF AsksAreAbout
<1>5. CASE CallStep
  <2>1. asked' = asked /\ about' = about
    BY <1>5, CallKeeps
  <2>2. PlacedIn(store', r)
    BY <1>2, <1>4, <1>5, <2>1, CallPlaces
  <2> QED
    BY <2>1, <2>2 DEF PlacedIn, resolved
<1>6. CASE EventStep
  <2>1. asked' = asked /\ about' = about
    BY <1>6, EventKeeps
  <2>2. PlacedIn(store', r)
    BY <1>2, <1>4, <1>6, <2>1, EventPlaces
  <2> QED
    BY <2>1, <2>2 DEF PlacedIn, resolved
<1>7. CASE UNCHANGED vars
  BY <1>2, <1>7 DEF vars, requests, PlacedIn, resolved
<1> QED
  BY <1>3, <1>5, <1>6, <1>7 DEF Next

\* A request in the queue is offered at its tool call as soon as that is known.
THEOREM OfferedAtItsCallAlways == Spec => []OfferedAtItsCall
<1>1. Init => AsksAreAbout /\ AllPlaced
  BY DEF Init, AsksAreAbout, AllPlaced
<1>2. AsksAreAbout /\ AllPlaced /\ Typed /\ StoreIsSound /\ HistoryIsKept /\ [Next]_vars
        => AsksAreAbout' /\ AllPlaced'
  BY AsksStep, PlacesStep
<1>3. AllPlaced => OfferedAtItsCall
  BY DEF AllPlaced, OfferedAtItsCall, PlacedIn
<1> QED
  BY <1>1, <1>2, <1>3, StoreAlways, HistoryAlways, PTL DEF Spec

=============================================================================
