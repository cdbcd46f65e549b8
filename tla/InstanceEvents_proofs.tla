------------------------ MODULE InstanceEvents_proofs ------------------------
(***************************************************************************)
(* Theorems about WorkspaceLifecycle and InstanceEvents, for any number of *)
(* folders, create() and delete() calls, overlapping or not, with healthy  *)
(* or sick instances: the lifecycle alone; the composition, which keeps    *)
(* what the lifecycle guarantees; and, while clients wait for answers and  *)
(* instances stay healthy, that records, processes, passwords, event       *)
(* streams and the clients' view belong together.                          *)
(***************************************************************************)
EXTENDS InstanceEvents, TLAPS

-----------------------------------------------------------------------------
(* The lifecycle                                                            *)

(* The invariant: per create() call, per map entry, and what is awaited.   *)

CallOK(c) ==
  /\ call[c] # "idle" => folder[c] \in Workspace
  /\ child[c] \in Live => call[c] \notin {"idle", "download", "stuck"}
  /\ call[c] \in {"launching", "probing", "settling"} => child[c] \in Live
  /\ hasPid[c] => call[c] = "ready"
  /\ hasPid[c] <=> status[c] = "ready"

EntryOK(w) ==
  /\ workspaces[w] # None =>
       /\ call[workspaces[w]] # "idle"
       /\ folder[workspaces[w]] = w
       /\ hasPid[workspaces[w]] => child[workspaces[w]] \in Live
  /\ processes[w] # None =>
       /\ folder[processes[w]] = w
       /\ child[processes[w]] \in Live

CallsOK == \A c \in Create : CallOK(c)
EntriesOK == \A w \in Workspace : EntryOK(w)

Inv == TypeOK /\ CallsOK /\ EntriesOK /\ AwaitedIsSignalled

Record == [type : EventType, ws : Workspace]

-----------------------------------------------------------------------------
(* Published sequences *)

\* Event makes a sequence of one event record.
LEMMA EventType1 ==
  ASSUME NEW t \in EventType, NEW w \in Workspace
  PROVE  Event(t, w) \in Seq(Record)
BY DEF Event, Record

\* Two sequences of event records in a row are one.
LEMMA ConcatType ==
  ASSUME NEW s \in Seq(Record), NEW t \in Seq(Record)
  PROVE  s \o t \in Seq(Record)
OBVIOUS

-----------------------------------------------------------------------------
(* Init *)

\* A server that has just started: no records, no processes, no calls.
LEMMA InitInv == Init => Inv
<1> SUFFICES ASSUME Init PROVE Inv
  OBVIOUS
<1> USE WorkspaceAssumption DEF Init
<1>1. TypeOK
  BY DEF TypeOK, CallState, Pending, Live
<1>2. CallsOK
  BY DEF CallsOK, CallOK, Live
<1>3. EntriesOK
  BY DEF EntriesOK, EntryOK
<1>4. AwaitedIsSignalled
  BY DEF AwaitedIsSignalled
<1> QED
  BY <1>1, <1>2, <1>3, <1>4 DEF Inv

-----------------------------------------------------------------------------
(* create() *)

\* What startInstance does with the variables it changes, for a call that has
\* its folder and no process yet.
LEMMA StartInstanceInv ==
  ASSUME NEW c \in Create, NEW w \in Workspace,
         NEW st \in {"none", "starting", "ready", "stopped", "error"},
         NEW before \in Seq(Record),
         TypeOK, startInstance(c, w, st, before)
  PROVE  /\ auth' \in [Workspace -> Create \cup {None}]
         /\ published' \in Seq(Record)
         /\ processes' \in [Workspace -> Create \cup {None}]
         /\ \E s \in {"stuck", "failed", "launching"} :
              /\ call' = [call EXCEPT ![c] = s]
              /\ IF s = "launching"
                 THEN /\ child' = [child EXCEPT ![c] = "up"]
                      /\ processes' = [processes EXCEPT ![w] = c]
                 ELSE /\ child' = child
                      /\ processes' \in {processes, [processes EXCEPT ![w] = None]}
         /\ \E s \in {st, "error"} : status' = [status EXCEPT ![c] = s]
<1> USE DEF startInstance, TypeOK
<1>1. auth' \in [Workspace -> Create \cup {None}]
  OBVIOUS
<1>2. Event("error", w) \in Seq(Record)
  BY EventType1 DEF EventType
<1>3. published' \in Seq(Record)
  <2>1. published' \in {before, before \o Event("error", w)}
    OBVIOUS
  <2>2. before \o Event("error", w) \in Seq(Record)
    BY <1>2, ConcatType
  <2> HIDE DEF startInstance, TypeOK
  <2> QED
    BY <2>1, <2>2
<1>4. processes' \in [Workspace -> Create \cup {None}]
  OBVIOUS
<1>5. \E s \in {"stuck", "failed", "launching"} :
        /\ call' = [call EXCEPT ![c] = s]
        /\ IF s = "launching"
           THEN /\ child' = [child EXCEPT ![c] = "up"]
                /\ processes' = [processes EXCEPT ![w] = c]
           ELSE /\ child' = child
                /\ processes' \in {processes, [processes EXCEPT ![w] = None]}
  OBVIOUS
<1>6. \E s \in {st, "error"} : status' = [status EXCEPT ![c] = s]
  OBVIOUS
<1> QED
  BY <1>1, <1>3, <1>4, <1>5, <1>6

\* create keeps the invariant, also when it replaces the record of its folder.
LEMMA CreateInv ==
  ASSUME Inv, NEW c \in Create, NEW w \in Workspace, create(c, w)
  PROVE  Inv'
<1> USE WorkspaceAssumption
<1>0. /\ TypeOK /\ CallsOK /\ EntriesOK /\ AwaitedIsSignalled
      /\ call[c] = "idle" /\ ~hasPid[c] /\ child[c] \notin Live
  BY DEF Inv, create, CallsOK, CallOK
<1>1. Event("created", w) \in Seq(Record)
  BY EventType1 DEF EventType
<1>2. /\ published' \in Seq(Record)
      /\ auth' \in [Workspace -> Create \cup {None}]
      /\ processes' \in [Workspace -> Create \cup {None}]
      /\ \E s \in {"stuck", "failed", "launching", "download"} :
           /\ call' = [call EXCEPT ![c] = s]
           /\ IF s = "launching"
              THEN /\ child' = [child EXCEPT ![c] = "up"]
                   /\ processes' = [processes EXCEPT ![w] = c]
              ELSE /\ child' = child
                   /\ processes' \in {processes, [processes EXCEPT ![w] = None]}
      /\ \E s \in {"starting", "error"} : status' = [status EXCEPT ![c] = s]
  <2>1. CASE startInstance(c, w, "starting", Event("created", w))
    BY <1>0, <1>1, <2>1, StartInstanceInv
  <2>2. CASE /\ call' = [call EXCEPT ![c] = "download"]
             /\ status' = [status EXCEPT ![c] = "starting"]
             /\ published' = Event("created", w)
             /\ UNCHANGED <<auth, child, processes>>
    <3>1. /\ auth \in [Workspace -> Create \cup {None}]
          /\ processes \in [Workspace -> Create \cup {None}]
      BY <1>0 DEF TypeOK
    <3> QED
      BY <1>1, <2>2, <3>1
  <2> QED
    BY <2>1, <2>2 DEF create
<1>3. PICK s \in {"stuck", "failed", "launching", "download"} :
        /\ call' = [call EXCEPT ![c] = s]
        /\ IF s = "launching"
           THEN /\ child' = [child EXCEPT ![c] = "up"]
                /\ processes' = [processes EXCEPT ![w] = c]
           ELSE /\ child' = child
                /\ processes' \in {processes, [processes EXCEPT ![w] = None]}
  BY <1>2
<1>4. PICK st \in {"starting", "error"} : status' = [status EXCEPT ![c] = st]
  BY <1>2
<1>5. /\ folder' = [folder EXCEPT ![c] = w]
      /\ workspaces' = [workspaces EXCEPT ![w] = c]
      /\ UNCHANGED <<hasPid, requested, deleting, deletes, server, shutWaits>>
  BY DEF create
<1>6. TypeOK'
  BY <1>0, <1>2, <1>3, <1>4, <1>5 DEF TypeOK, CallState, Pending, Live, Record
<1>7. CallsOK'
  BY <1>0, <1>3, <1>4, <1>5 DEF TypeOK, CallsOK, CallOK, Live
<1>8. ASSUME NEW v \in Workspace PROVE EntryOK(v)'
  <2>1. workspaces'[v] = c \/ (workspaces'[v] = workspaces[v] /\ v # w)
    BY <1>0, <1>5 DEF TypeOK
  <2>2. processes'[v] # None =>
          \/ processes'[v] = c /\ v = w /\ s = "launching"
          \/ processes'[v] = processes[v] /\ processes[v] # c
    BY <1>0, <1>3 DEF TypeOK, EntriesOK, EntryOK
  <2> QED
    BY <1>0, <1>3, <1>5, <2>1, <2>2 DEF TypeOK, EntriesOK, EntryOK, Live
<1>9. AwaitedIsSignalled'
  BY <1>0, <1>3, <1>5 DEF TypeOK, AwaitedIsSignalled, Live
<1> QED
  BY <1>6, <1>7, <1>8, <1>9 DEF Inv, EntriesOK

\* The answer of the download keeps the invariant: the instance starts or fails.
LEMMA DownloadInv ==
  ASSUME Inv, NEW c \in Create, downloadSettles(c)
  PROVE  Inv'
<1> USE WorkspaceAssumption
<1>0. /\ TypeOK /\ CallsOK /\ EntriesOK /\ AwaitedIsSignalled
      /\ call[c] = "download" /\ ~hasPid[c] /\ child[c] \notin Live
      /\ folder[c] \in Workspace /\ status[c] # "ready"
      /\ status[c] \in {"none", "starting", "ready", "stopped", "error"}
  BY DEF Inv, downloadSettles, CallsOK, CallOK, TypeOK
<1>1. <<>> \in Seq(Record)
  OBVIOUS
<1> DEFINE Started(w, st0, before) ==
      /\ published' \in Seq(Record)
      /\ auth' \in [Workspace -> Create \cup {None}]
      /\ processes' \in [Workspace -> Create \cup {None}]
      /\ \E s \in {"stuck", "failed", "launching"} :
           /\ call' = [call EXCEPT ![c] = s]
           /\ IF s = "launching"
              THEN /\ child' = [child EXCEPT ![c] = "up"]
                   /\ processes' = [processes EXCEPT ![w] = c]
              ELSE /\ child' = child
                   /\ processes' \in {processes, [processes EXCEPT ![w] = None]}
      /\ \E s \in {st0, "error"} : status' = [status EXCEPT ![c] = s]
<1>a. \A w \in Workspace, st0 \in {"none", "starting", "ready", "stopped", "error"},
        before \in Seq(Record) :
          startInstance(c, w, st0, before) => Started(w, st0, before)
  BY <1>0, StartInstanceInv
<1> HIDE DEF Started
<1>2. /\ published' \in Seq(Record)
      /\ auth' \in [Workspace -> Create \cup {None}]
      /\ processes' \in [Workspace -> Create \cup {None}]
      /\ \E s \in {"stuck", "failed", "launching"} :
           /\ call' = [call EXCEPT ![c] = s]
           /\ IF s = "launching"
              THEN /\ child' = [child EXCEPT ![c] = "up"]
                   /\ processes' = [processes EXCEPT ![folder[c]] = c]
              ELSE /\ child' = child
                   /\ processes' \in {processes, [processes EXCEPT ![folder[c]] = None]}
      /\ \E s \in {status[c], "error"} : status' = [status EXCEPT ![c] = s]
  <2>1. CASE startInstance(c, folder[c], status[c], <<>>)
    BY <1>0, <1>1, <1>a, <2>1 DEF Started
  <2>2. CASE /\ call' = [call EXCEPT ![c] = "stuck"]
             /\ published' = <<>>
             /\ UNCHANGED <<status, auth, child, processes>>
    <3>1. /\ auth \in [Workspace -> Create \cup {None}]
          /\ processes \in [Workspace -> Create \cup {None}]
          /\ status = [status EXCEPT ![c] = status[c]]
      BY <1>0 DEF TypeOK
    <3> QED
      BY <1>1, <2>2, <3>1
  <2> QED
    BY <2>1, <2>2 DEF downloadSettles
<1>3. PICK s \in {"stuck", "failed", "launching"} :
        /\ call' = [call EXCEPT ![c] = s]
        /\ IF s = "launching"
           THEN /\ child' = [child EXCEPT ![c] = "up"]
                /\ processes' = [processes EXCEPT ![folder[c]] = c]
           ELSE /\ child' = child
                /\ processes' \in {processes, [processes EXCEPT ![folder[c]] = None]}
  BY <1>2
<1>4. PICK st \in {status[c], "error"} : status' = [status EXCEPT ![c] = st]
  BY <1>2
<1>5. UNCHANGED <<folder, hasPid, requested, workspaces, deleting, deletes, server,
                  shutWaits>>
  BY DEF downloadSettles
<1>6. TypeOK'
  BY <1>0, <1>2, <1>3, <1>4, <1>5 DEF TypeOK, CallState, Pending, Live, Record
<1>7. CallsOK'
  BY <1>0, <1>3, <1>4, <1>5 DEF TypeOK, CallsOK, CallOK, Live
<1>8. ASSUME NEW v \in Workspace PROVE EntryOK(v)'
  <2>1. processes'[v] # None =>
          \/ processes'[v] = c /\ v = folder[c] /\ s = "launching"
          \/ processes'[v] = processes[v] /\ processes[v] # c
    BY <1>0, <1>3 DEF TypeOK, EntriesOK, EntryOK
  <2> QED
    BY <1>0, <1>3, <1>5, <2>1 DEF TypeOK, EntriesOK, EntryOK, Live
<1>9. AwaitedIsSignalled'
  BY <1>0, <1>3, <1>5 DEF TypeOK, AwaitedIsSignalled, Live
<1> QED
  BY <1>6, <1>7, <1>8, <1>9 DEF Inv, EntriesOK

\* portFound, instanceHealthy, readinessFails and becomesReady.
LEMMA ReadinessInv ==
  ASSUME Inv, NEW c \in Create,
         portFound(c) \/ instanceHealthy(c) \/ readinessFails(c) \/ becomesReady(c)
  PROVE  Inv'
<1> USE WorkspaceAssumption
<1>0. /\ TypeOK /\ CallsOK /\ EntriesOK /\ AwaitedIsSignalled
      /\ CallOK(c)
  BY DEF Inv, CallsOK
<1>1. /\ call[c] \in {"launching", "probing", "settling"}
      /\ UNCHANGED <<folder, child, requested, workspaces, processes, auth,
                     deleting, deletes, server, shutWaits>>
      /\ \E s \in {"probing", "settling", "failed", "ready"} :
           /\ call' = [call EXCEPT ![c] = s]
           /\ \/ /\ s \in {"probing", "settling"}
                 /\ UNCHANGED <<status, hasPid>>
                 /\ published' = <<>>
              \/ /\ s = "failed"
                 /\ status' = [status EXCEPT ![c] = "error"]
                 /\ UNCHANGED hasPid
                 /\ published' = Event("error", folder[c])
              \/ /\ s = "ready"
                 /\ status' = [status EXCEPT ![c] = "ready"]
                 /\ hasPid' = [hasPid EXCEPT ![c] = TRUE]
                 /\ published' = Event("started", folder[c])
  <2>1. CASE portFound(c)
    BY <2>1 DEF portFound
  <2>2. CASE instanceHealthy(c)
    BY <2>2 DEF instanceHealthy
  <2>3. CASE readinessFails(c)
    BY <2>3 DEF readinessFails
  <2>4. CASE becomesReady(c)
    BY <2>4 DEF becomesReady
  <2> QED
    BY <2>1, <2>2, <2>3, <2>4
<1>2. child[c] \in Live /\ folder[c] \in Workspace
  BY <1>0, <1>1 DEF CallOK
<1>3. published' \in Seq(Record)
  <2>1. /\ Event("error", folder[c]) \in Seq(Record)
        /\ Event("started", folder[c]) \in Seq(Record)
    BY <1>2, EventType1 DEF EventType
  <2>2. <<>> \in Seq(Record)
    OBVIOUS
  <2> QED
    BY <1>1, <2>1, <2>2
<1>4. TypeOK'
  <2>1. call' \in [Create -> CallState]
    BY <1>0, <1>1 DEF TypeOK, CallState, Pending
  <2>2. status' \in [Create -> {"none", "starting", "ready", "stopped", "error"}]
    BY <1>0, <1>1 DEF TypeOK
  <2>3. hasPid' \in [Create -> BOOLEAN]
    BY <1>0, <1>1 DEF TypeOK
  <2> QED
    BY <1>0, <1>1, <1>3, <2>1, <2>2, <2>3 DEF TypeOK, Record
<1>5. CallsOK'
  BY <1>0, <1>1, <1>2 DEF TypeOK, CallsOK, CallOK
<1>6. ASSUME NEW v \in Workspace PROVE EntryOK(v)'
  BY <1>0, <1>1, <1>2 DEF TypeOK, EntriesOK, EntryOK
<1>7. AwaitedIsSignalled'
  BY <1>0, <1>1 DEF AwaitedIsSignalled
<1> QED
  BY <1>4, <1>5, <1>6, <1>7 DEF Inv, EntriesOK

-----------------------------------------------------------------------------
(* The end of a process *)

\* What the exit handler publishes is a sequence of events.
LEMMA ExitEvents ==
  ASSUME NEW c \in Create, NEW clean \in BOOLEAN, folder[c] \in Workspace
  PROVE  eventsOfExit(c, clean) \in Seq(Record)
<1>1. /\ Event(exitStatus(c, clean), folder[c]) \in Seq(Record)
      /\ Event("error", folder[c]) \in Seq(Record)
  BY EventType1 DEF EventType, exitStatus
<1>2. <<>> \in Seq(Record)
  OBVIOUS
<1> DEFINE first == IF exitRecord(c) = None THEN <<>>
                    ELSE Event(exitStatus(c, clean), folder[c])
           second == IF call[c] \in Pending THEN Event("error", folder[c]) ELSE <<>>
<1>3. first \in Seq(Record) /\ second \in Seq(Record)
  BY <1>1, <1>2
<1>4. first \o second \in Seq(Record)
  <2> HIDE DEF first, second
  <2> QED
    BY <1>3, ConcatType
<1> QED
  BY <1>4 DEF eventsOfExit

\* The exit of a process keeps the invariant, whichever record it finds.
LEMMA ChildExitsInv ==
  ASSUME Inv, NEW c \in Create, NEW clean \in BOOLEAN, childExits(c, clean)
  PROVE  Inv'
<1> USE WorkspaceAssumption
<1>0. /\ TypeOK /\ CallsOK /\ EntriesOK /\ AwaitedIsSignalled
      /\ CallOK(c)
      /\ child[c] \in Live
      /\ folder[c] \in Workspace
  BY DEF Inv, CallsOK, CallOK, childExits
<1>1. published' \in Seq(Record)
  BY <1>0, ExitEvents DEF childExits
<1>2. /\ child' = [child EXCEPT ![c] = "gone"]
      /\ processes' = [processes EXCEPT ![folder[c]] = None]
      /\ call' = [call EXCEPT ![c] = IF @ \in Pending THEN "failed" ELSE @]
      /\ workspaces' = [w \in Workspace |->
                          IF w \in removedByExit(c) THEN None ELSE workspaces[w]]
      /\ status' = statusAfterExit(c, clean)
      /\ hasPid' = [r \in Create |-> hasPid[r] /\ r # exitRecord(c)]
      /\ deleting' = deleting \ {c}
      /\ shutWaits' = shutWaits \ {c}
      /\ UNCHANGED <<folder, requested, deletes>>
  BY DEF childExits
<1>3. auth' \in [Workspace -> Create \cup {None}]
  BY <1>0 DEF TypeOK, childExits
<1>4. server' \in {"up", "stopping", "cleared", "exited"}
  BY <1>0 DEF TypeOK, childExits
<1>5. /\ exitRecord(c) \in Create \cup {None}
      /\ workspaces[folder[c]] = c => exitRecord(c) = c \/ call[c] = "launching"
  BY <1>0 DEF TypeOK, exitRecord
<1>6. TypeOK'
  <2>1. status' \in [Create -> {"none", "starting", "ready", "stopped", "error"}]
    BY <1>0, <1>2 DEF TypeOK, statusAfterExit, exitStatus
  <2>2. hasPid' \in [Create -> BOOLEAN]
    BY <1>2
  <2>3. call' \in [Create -> CallState]
    BY <1>0, <1>2 DEF TypeOK, CallState, Pending
  <2>4. workspaces' \in [Workspace -> Create \cup {None}]
    BY <1>0, <1>2 DEF TypeOK
  <2> QED
    BY <1>0, <1>1, <1>2, <1>3, <1>4, <2>1, <2>2, <2>3, <2>4 DEF TypeOK, Record
<1>7. ASSUME NEW d \in Create PROVE CallOK(d)'
  <2>1. /\ CallOK(d)
        /\ status'[d] = IF d = c /\ call[c] \in Pending THEN "error"
                        ELSE IF d = exitRecord(c) THEN exitStatus(c, clean)
                        ELSE status[d]
        /\ hasPid'[d] = (hasPid[d] /\ d # exitRecord(c))
    BY <1>0, <1>2 DEF CallsOK, statusAfterExit
  <2>2. exitStatus(c, clean) # "ready"
    BY DEF exitStatus
  <2>3. hasPid'[d] <=> status'[d] = "ready"
    BY <2>1, <2>2, <1>0 DEF CallOK, Pending
  <2>4. /\ call'[d] # "idle" => folder'[d] \in Workspace
        /\ child'[d] \in Live => call'[d] \notin {"idle", "download", "stuck"}
        /\ call'[d] \in {"launching", "probing", "settling"} => child'[d] \in Live
        /\ hasPid'[d] => call'[d] = "ready"
    BY <1>0, <1>2, <2>1 DEF TypeOK, CallOK, Pending, Live
  <2> QED
    BY <2>3, <2>4 DEF CallOK
<1>8. ASSUME NEW v \in Workspace PROVE EntryOK(v)'
  <2>1. EntryOK(v)
    BY <1>0 DEF EntriesOK
  <2>2. processes'[v] # None =>
          /\ folder'[processes'[v]] = v
          /\ child'[processes'[v]] \in Live
    BY <1>0, <1>2, <2>1 DEF TypeOK, EntryOK, Live
  <2>3. ASSUME workspaces'[v] # None
        PROVE  /\ call'[workspaces'[v]] # "idle"
               /\ folder'[workspaces'[v]] = v
               /\ hasPid'[workspaces'[v]] => child'[workspaces'[v]] \in Live
    <3>1. workspaces'[v] = workspaces[v] /\ workspaces[v] \in Create
      BY <1>0, <1>2, <2>3 DEF TypeOK
    <3>2. call'[workspaces[v]] # "idle" /\ folder'[workspaces[v]] = v
      BY <1>0, <1>2, <2>1, <2>3, <3>1 DEF TypeOK, EntryOK
    <3>3. CASE workspaces[v] = c
      <4>1. ~hasPid'[c]
        BY <1>0, <1>2, <1>5, <2>1, <3>1, <3>3 DEF EntryOK, CallOK
      <4> QED
        BY <3>1, <3>2, <3>3, <4>1
    <3>4. CASE workspaces[v] # c
      BY <1>0, <1>2, <2>1, <2>3, <3>1, <3>2, <3>4 DEF TypeOK, EntryOK, Live
    <3> QED
      BY <3>3, <3>4
  <2> QED
    BY <2>2, <2>3 DEF EntryOK
<1>9. AwaitedIsSignalled'
  BY <1>0, <1>2 DEF TypeOK, AwaitedIsSignalled
<1> QED
  BY <1>6, <1>7, <1>8, <1>9 DEF Inv, CallsOK, EntriesOK

-----------------------------------------------------------------------------
(* delete() and shutdown() *)

\* delete keeps the invariant: what it waits for, it has signalled.
LEMMA DeleteInv ==
  ASSUME Inv, NEW w \in Workspace, delete(w)
  PROVE  Inv'
<1> USE WorkspaceAssumption
<1>0. /\ TypeOK /\ CallsOK /\ EntriesOK /\ AwaitedIsSignalled
      /\ workspaces[w] \in Create
      /\ UNCHANGED <<call, folder, status, hasPid, processes, server, shutWaits>>
  BY DEF Inv, TypeOK, delete
<1>1. deletes' \in 0 .. MaxDeletes
  BY <1>0 DEF TypeOK, delete
<1>2. <<>> \in Seq(Record) /\ Event("stopped", w) \in Seq(Record)
  BY EventType1 DEF EventType
<1>3. CASE deleteAtOnce(w)
  <2>1. published' \in Seq(Record)
    BY <1>2, <1>3 DEF deleteAtOnce
  <2>2. TypeOK'
    BY <1>0, <1>1, <1>3, <2>1 DEF TypeOK, deleteAtOnce, Record
  <2>3. CallsOK'
    BY <1>0, <1>3 DEF deleteAtOnce, CallsOK, CallOK
  <2>4. ASSUME NEW v \in Workspace PROVE EntryOK(v)'
    BY <1>0, <1>3 DEF TypeOK, deleteAtOnce, EntriesOK, EntryOK
  <2>5. AwaitedIsSignalled'
    BY <1>0, <1>3 DEF deleteAtOnce, AwaitedIsSignalled
  <2> QED
    BY <2>2, <2>3, <2>4, <2>5 DEF Inv, EntriesOK
<1>4. CASE deleteStops(w) /\ processes[w] # None
  <2>1. processes[w] \in Create /\ child[processes[w]] \in Live
    BY <1>0, <1>4 DEF TypeOK, EntriesOK, EntryOK
  <2>2. /\ child' \in [Create -> Live \cup {"none", "gone"}]
        /\ requested' \in [Create -> BOOLEAN]
        /\ \A c \in Create : child'[c] \in Live <=> child[c] \in Live
        /\ child'[processes[w]] \in {"term", "kill"} /\ requested'[processes[w]]
        /\ \A c \in Create : child[c] \in {"term", "kill"} /\ requested[c]
             => child'[c] \in {"term", "kill"} /\ requested'[c]
    BY <1>0, <1>4, <2>1 DEF deleteStops, TypeOK, Signalled, Live
  <2>3. /\ UNCHANGED <<workspaces, auth>>
        /\ deleting' = deleting \cup {processes[w]}
        /\ published' = <<>>
    BY <1>4 DEF deleteStops
  <2>4. TypeOK'
    BY <1>0, <1>1, <1>2, <2>1, <2>2, <2>3 DEF TypeOK, Record
  <2>5. CallsOK'
    BY <1>0, <2>2, <2>3 DEF CallsOK, CallOK
  <2>6. ASSUME NEW v \in Workspace PROVE EntryOK(v)'
    BY <1>0, <2>2, <2>3 DEF TypeOK, EntriesOK, EntryOK
  <2>7. AwaitedIsSignalled'
    BY <1>0, <2>1, <2>2, <2>3 DEF TypeOK, AwaitedIsSignalled
  <2> QED
    BY <2>4, <2>5, <2>6, <2>7 DEF Inv, EntriesOK
<1> QED
  BY <1>3, <1>4 DEF delete

\* The escalation timer only moves a process from SIGTERM to SIGKILL.
LEMMA EscalateInv ==
  ASSUME Inv, NEW c \in Create, escalate(c)
  PROVE  Inv'
<1> USE WorkspaceAssumption DEF escalate
<1>0. /\ TypeOK /\ CallsOK /\ EntriesOK /\ AwaitedIsSignalled
  BY DEF Inv
<1>1. <<>> \in Seq(Record)
  OBVIOUS
<1>2. TypeOK'
  BY <1>0, <1>1 DEF TypeOK, Live, Record
<1>3. CallsOK'
  BY <1>0 DEF TypeOK, CallsOK, CallOK, Live
<1>4. ASSUME NEW v \in Workspace PROVE EntryOK(v)'
  BY <1>0 DEF TypeOK, EntriesOK, EntryOK, Live
<1>5. AwaitedIsSignalled'
  BY <1>0 DEF TypeOK, AwaitedIsSignalled
<1> QED
  BY <1>2, <1>3, <1>4, <1>5 DEF Inv, EntriesOK

\* shutdown keeps the invariant: it signals what it waits for.
LEMMA ShutdownInv == Inv /\ shutdown => Inv'
<1> SUFFICES ASSUME Inv, shutdown PROVE Inv'
  OBVIOUS
<1> USE WorkspaceAssumption
<1>0. /\ TypeOK /\ CallsOK /\ EntriesOK /\ AwaitedIsSignalled
  BY DEF Inv
<1>1. /\ Registered(Running) \in SUBSET Create
      /\ \A c \in Registered(Running) : child[c] \in Live
  BY <1>0 DEF TypeOK, EntriesOK, EntryOK, Registered, Running
<1>2. /\ child' \in [Create -> Live \cup {"none", "gone"}]
      /\ requested' \in [Create -> BOOLEAN]
      /\ \A c \in Create : child'[c] \in Live <=> child[c] \in Live
      /\ \A c \in Registered(Running) : child'[c] \in {"term", "kill"} /\ requested'[c]
      /\ \A c \in Create : child[c] \in {"term", "kill"} /\ requested[c]
           => child'[c] \in {"term", "kill"} /\ requested'[c]
  BY <1>0, <1>1 DEF shutdown, TypeOK, Signalled, Live
<1>3. /\ UNCHANGED <<call, folder, status, hasPid, processes, deleting, deletes>>
      /\ shutWaits' = Registered(Running)
      /\ published' = <<>>
      /\ server' \in {"stopping", "cleared"}
      /\ \/ UNCHANGED <<workspaces, auth>>
         \/ /\ workspaces' = [w \in Workspace |-> None]
            /\ auth' = [w \in Workspace |-> None]
  BY DEF shutdown
<1>4. <<>> \in Seq(Record)
  OBVIOUS
<1>5. TypeOK'
  BY <1>0, <1>1, <1>2, <1>3, <1>4 DEF TypeOK, Record
<1>6. CallsOK'
  BY <1>0, <1>2, <1>3 DEF CallsOK, CallOK
<1>7. ASSUME NEW v \in Workspace PROVE EntryOK(v)'
  BY <1>0, <1>2, <1>3 DEF TypeOK, EntriesOK, EntryOK
<1>8. AwaitedIsSignalled'
  BY <1>0, <1>1, <1>2, <1>3 DEF TypeOK, AwaitedIsSignalled
<1> QED
  BY <1>5, <1>6, <1>7, <1>8 DEF Inv, EntriesOK

\* The end of the server process and stuttering keep the invariant.
LEMMA QuietInv == Inv /\ (processExit \/ UNCHANGED vars) => Inv'
<1> SUFFICES ASSUME Inv, processExit \/ UNCHANGED vars PROVE Inv'
  OBVIOUS
<1>1. <<>> \in Seq(Record)
  OBVIOUS
<1>2. /\ UNCHANGED <<call, folder, status, hasPid, child, requested, workspaces,
                     processes, auth, deleting, deletes, shutWaits>>
      /\ server' \in {server, "exited"}
      /\ published' \in {published, <<>>}
  BY DEF processExit, vars
<1>3. TypeOK'
  BY <1>1, <1>2 DEF Inv, TypeOK, Record
<1> QED
  BY <1>2, <1>3 DEF Inv, CallsOK, CallOK, EntriesOK, EntryOK, AwaitedIsSignalled

-----------------------------------------------------------------------------
(* Theorems *)

\* Every step of the workspace manager keeps the invariant.
LEMMA NextInv == Inv /\ [Next]_vars => Inv'
<1> SUFFICES ASSUME Inv, [Next]_vars PROVE Inv'
  OBVIOUS
<1>1. ASSUME NEW c \in Create, NEW w \in Workspace, create(c, w) PROVE Inv'
  BY <1>1, CreateInv
<1>2. ASSUME NEW c \in Create, downloadSettles(c) PROVE Inv'
  BY <1>2, DownloadInv
<1>3. ASSUME NEW c \in Create,
             portFound(c) \/ instanceHealthy(c) \/ readinessFails(c) \/ becomesReady(c)
      PROVE  Inv'
  BY <1>3, ReadinessInv
<1>4. ASSUME NEW c \in Create, NEW clean \in BOOLEAN, childExits(c, clean) PROVE Inv'
  BY <1>4, ChildExitsInv
<1>5. ASSUME NEW w \in Workspace, delete(w) PROVE Inv'
  BY <1>5, DeleteInv
<1>6. ASSUME NEW c \in Create, escalate(c) PROVE Inv'
  BY <1>6, EscalateInv
<1>7. CASE shutdown
  BY <1>7, ShutdownInv
<1>8. CASE processExit \/ UNCHANGED vars
  BY <1>8, QuietInv
<1> QED
  BY <1>1, <1>2, <1>3, <1>4, <1>5, <1>6, <1>7, <1>8 DEF Next

\* The three maps, the descriptors and the processes stay related as Inv says
\* in every reachable state.
THEOREM Invariance == Spec => []Inv
BY InitInv, NextInv, PTL DEF Spec

\* Type correctness.
THEOREM TypeCorrect == Spec => []TypeOK
<1>1. Inv => TypeOK
  BY DEF Inv
<1> QED
  BY <1>1, Invariance, PTL

\* The proxy never forwards to a port whose process is gone, although exits
\* are handled by workspace id.
THEOREM PortsAreLive == Spec => []PortIsLive
<1>1. Inv => PortIsLive
  BY DEF Inv, TypeOK, EntriesOK, EntryOK, PortIsLive
<1> QED
  BY <1>1, Invariance, PTL

\* delete() and shutdown() go by the pid of exactly the ready workspaces.
THEOREM ReadyHasPidAlways == Spec => []ReadyHasPid
<1>1. Inv => ReadyHasPid
  BY DEF Inv, TypeOK, CallsOK, CallOK, ReadyHasPid
<1> QED
  BY <1>1, Invariance, PTL

\* What is awaited has been marked and signalled and can still exit.
THEOREM AwaitedIsSignalledAlways == Spec => []AwaitedIsSignalled
<1>1. Inv => AwaitedIsSignalled
  BY DEF Inv
<1> QED
  BY <1>1, Invariance, PTL

-----------------------------------------------------------------------------
(* The composition implements the lifecycle *)

\* A step of the composition is a step of the lifecycle or leaves it alone.
LEMMA StepsOfLifecycle == [EventsNext]_allVars => [Next]_vars
<1> SUFFICES ASSUME [EventsNext]_allVars PROVE [Next]_vars
  OBVIOUS
<1>1. CASE LifecycleStep
  BY <1>1 DEF LifecycleStep, Next
<1>2. CASE shutdownAll
  BY <1>2 DEF shutdownAll, Next
<1>3. ASSUME NEW w \in Workspace, StreamStep(w) PROVE UNCHANGED vars
  BY <1>3 DEF StreamStep
<1>4. CASE UNCHANGED allVars
  BY <1>4 DEF allVars
<1> QED
  BY <1>1, <1>2, <1>3, <1>4 DEF EventsNext

\* With the bridge on the bus the manager behaves as it does alone: whatever
\* is a theorem of Spec holds of the composition.
THEOREM Implements == EventsSpec => Spec
<1>1. EventsInit => Init
  BY DEF EventsInit
<1> QED
  BY <1>1, StepsOfLifecycle, PTL DEF EventsSpec, Spec

\* The invariant of the lifecycle holds of the composition.
LEMMA InvAlways == EventsSpec => []Inv
BY Implements, Invariance, PTL

\* With the bridge too, no port of a dead process is forwarded to.
THEOREM PortsAreLiveWithBridge == EventsSpec => []PortIsLive
BY Implements, PortsAreLive, PTL

-----------------------------------------------------------------------------
(* What clients are told of a process, whatever they do *)

StreamTypes ==
  /\ stream \in [Workspace -> StreamState]
  /\ target \in [Workspace -> Create \cup {None}]
  /\ streamStatus \in [Workspace -> StreamStatus]
  /\ view \in [Workspace -> EventType \cup {"never"}]

\* The end of a sequence that an event is put behind.
LEMMA LastOfConcat ==
  ASSUME NEW s \in Seq(Record), NEW e \in Record
  PROVE  Len(s \o <<e>>) = Len(s) + 1 /\ (s \o <<e>>)[Len(s) + 1] = e
OBVIOUS

\* The last event of one or two that are told together.
LEMMA LastEvents ==
  ASSUME NEW s \in Seq(Record), NEW t \in EventType, NEW w \in Workspace,
         published' = Event(t, w) \/ published' = s \o Event(t, w)
  PROVE  published' # <<>> /\ lastEvent = [type |-> t, ws |-> w]
<1> DEFINE e == [type |-> t, ws |-> w]
<1>1. e \in Record /\ Event(t, w) = <<e>>
  BY DEF Event, Record
<1>2. CASE published' = Event(t, w)
  BY <1>1, <1>2 DEF lastEvent
<1>3. CASE published' = s \o Event(t, w)
  <2> HIDE DEF e
  <2>1. Len(published') = Len(s) + 1 /\ published'[Len(s) + 1] = e
    BY <1>1, <1>3, LastOfConcat
  <2>2. lastEvent = e
    BY <2>1 DEF lastEvent
  <2>3. published' # <<>>
    <3>1. Len(s) \in Nat
      OBVIOUS
    <3> QED
      BY <2>1, <3>1
  <2> QED
    BY <2>2, <2>3 DEF e
<1> QED
  BY <1>2, <1>3

\* A folder is told of the start of a process that came up and lives.
CameUp(c, w) == folder[c] = w /\ call[c] = "ready" /\ child[c] \in Live

\* The last event of a step that tells something is about w, and is no start.
TellsNoStart(w) ==
  /\ published' # <<>>
  /\ lastEvent.ws = w
  /\ lastEvent.type # "started"

\* An event that ends what a step publishes.
LEMMA NoStart ==
  ASSUME NEW s \in Seq(Record), NEW t \in EventType \ {"started"}, NEW w \in Workspace,
         published' = Event(t, w) \/ published' = s \o Event(t, w)
  PROVE  TellsNoStart(w)
<1>1. t \in EventType
  OBVIOUS
<1>2. published' # <<>> /\ lastEvent = [type |-> t, ws |-> w]
  BY <1>1, LastEvents
<1> QED
  BY <1>2 DEF TellsNoStart

\* Starting an instance tells what create has told before, or of an error.
LEMMA StartTells ==
  ASSUME NEW c \in Create, NEW w \in Workspace, NEW st,
         NEW before \in {<<>>, Event("created", w)},
         startInstance(c, w, st, before)
  PROVE  published' = before \/ TellsNoStart(w)
<1>1. before \in Seq(Record)
  <2>1. Event("created", w) \in Seq(Record)
    BY EventType1 DEF EventType
  <2>2. <<>> \in Seq(Record)
    OBVIOUS
  <2> QED
    BY <2>1, <2>2
<1>2. published' = before \/ published' = before \o Event("error", w)
  BY DEF startInstance
<1> QED
  BY <1>1, <1>2, NoStart DEF EventType

\* A folder is opened with an event.
LEMMA CreateTells ==
  ASSUME NEW c \in Create, NEW w \in Workspace, create(c, w)
  PROVE  TellsNoStart(w)
<1>1. CASE published' = Event("created", w)
  <2>1. <<>> \in Seq(Record)
    OBVIOUS
  <2> QED
    BY <1>1, <2>1, NoStart DEF EventType
<1>2. CASE startInstance(c, w, "starting", Event("created", w))
  BY <1>1, <1>2, StartTells
<1> QED
  BY <1>1, <1>2 DEF create

\* The end of a process that came up is told, if the folder is open.
LEMMA ExitTells ==
  ASSUME Inv, NEW c \in Create, NEW clean \in BOOLEAN, childExits(c, clean)
  PROVE  /\ folder[c] \in Workspace
         /\ published' = <<>> \/ TellsNoStart(folder[c])
         /\ call[c] = "ready" /\ workspaces[folder[c]] # None => TellsNoStart(folder[c])
<1> DEFINE w == folder[c]
           x == exitStatus(c, clean)
<1>1. w \in Workspace
  BY DEF childExits, Inv, CallsOK, CallOK
<1>2. x \in EventType \ {"started"} /\ "error" \in EventType \ {"started"}
  BY DEF exitStatus, EventType
<1>3. published' = eventsOfExit(c, clean)
  BY DEF childExits
<1> HIDE DEF w, x
<1>4. <<>> \in Seq(Record) /\ Event(x, w) \in Seq(Record) /\ Event("error", w) \in Seq(Record)
  BY <1>1, <1>2, EventType1
<1>5. CASE call[c] \in Pending
  <2>1. \/ published' = <<>> \o Event("error", w)
        \/ published' = Event(x, w) \o Event("error", w)
    BY <1>3, <1>5 DEF eventsOfExit, w, x
  <2>2. TellsNoStart(w)
    BY <1>1, <1>2, <1>4, <2>1, NoStart
  <2> QED
    BY <1>1, <1>5, <2>2 DEF Pending, w
<1>6. CASE call[c] \notin Pending /\ exitRecord(c) = None
  <2>1. published' = <<>> \o <<>>
    BY <1>3, <1>6 DEF eventsOfExit
  <2>2. published' = <<>>
    BY <2>1
  <2> QED
    BY <1>1, <1>6, <2>2 DEF exitRecord, w
<1>7. CASE call[c] \notin Pending /\ exitRecord(c) # None
  <2>1. published' = Event(x, w) \o <<>>
    BY <1>3, <1>7 DEF eventsOfExit, w, x
  <2>2. published' = Event(x, w)
    BY <1>4, <2>1
  <2>3. TellsNoStart(w)
    BY <1>1, <1>2, <1>4, <2>2, NoStart
  <2> QED
    BY <1>1, <2>3 DEF w
<1> QED
  BY <1>5, <1>6, <1>7

\* Only a process that comes up is told of as started.
LEMMA StartIsTold ==
  ASSUME Inv, LifecycleStep, NEW w \in Workspace,
         published' # <<>>, lastEvent.type = "started", lastEvent.ws = w
  PROVE  \E c \in Create : CameUp(c, w)'
<1> USE DEF TellsNoStart
<1>0. <<>> \in Seq(Record)
  OBVIOUS
<1>1. ASSUME NEW c \in Create, NEW v \in Workspace, create(c, v) PROVE FALSE
  BY <1>1, CreateTells
<1>2. ASSUME NEW c \in Create, downloadSettles(c) PROVE FALSE
  <2>1. folder[c] \in Workspace
    BY <1>2 DEF Inv, CallsOK, CallOK, downloadSettles
  <2> QED
    BY <1>2, <2>1, StartTells DEF downloadSettles
<1>3. ASSUME NEW c \in Create, portFound(c) \/ instanceHealthy(c) PROVE FALSE
  BY <1>3 DEF portFound, instanceHealthy
<1>4. ASSUME NEW c \in Create, readinessFails(c) PROVE FALSE
  <2>1. folder[c] \in Workspace /\ published' = Event("error", folder[c])
    BY <1>4 DEF Inv, CallsOK, CallOK, readinessFails
  <2> QED
    BY <1>0, <2>1, NoStart DEF EventType
<1>5. ASSUME NEW c \in Create, becomesReady(c) PROVE CameUp(c, w)'
  <2>1. /\ folder[c] \in Workspace /\ child[c] \in Live
        /\ published' = Event("started", folder[c])
        /\ folder' = folder /\ child' = child /\ call'[c] = "ready"
    BY <1>5 DEF Inv, TypeOK, CallsOK, CallOK, becomesReady
  <2>2. lastEvent = [type |-> "started", ws |-> folder[c]]
    BY <1>0, <2>1, LastEvents DEF EventType
  <2> QED
    BY <2>1, <2>2 DEF CameUp
<1>6. ASSUME NEW c \in Create, NEW clean \in BOOLEAN, childExits(c, clean) PROVE FALSE
  BY <1>6, ExitTells
<1>7. ASSUME NEW v \in Workspace, delete(v) PROVE FALSE
  <2>1. published' = Event("stopped", v)
    BY <1>7 DEF delete, deleteAtOnce, deleteStops
  <2> QED
    BY <1>0, <2>1, NoStart DEF EventType
<1>8. ASSUME NEW c \in Create, escalate(c) PROVE FALSE
  BY <1>8 DEF escalate
<1>9. CASE processExit
  BY <1>9 DEF processExit
<1> QED
  BY <1>1, <1>2, <1>3, <1>4, <1>5, <1>6, <1>7, <1>8, <1>9 DEF LifecycleStep

\* A process that came up stays what it is until its exit.
LEMMA CameUpStays ==
  ASSUME Inv, [Next]_vars, NEW c \in Create, NEW w \in Workspace, CameUp(c, w)
  PROVE  \/ CameUp(c, w)'
         \/ \E clean \in BOOLEAN : childExits(c, clean)
<1> USE DEF CameUp, Live
<1>0. TypeOK
  BY DEF Inv
<1>1. ASSUME NEW d \in Create, NEW v \in Workspace, create(d, v) PROVE CameUp(c, w)'
  BY <1>0, <1>1 DEF TypeOK, create, startInstance
<1>2. ASSUME NEW d \in Create, downloadSettles(d) PROVE CameUp(c, w)'
  BY <1>0, <1>2 DEF TypeOK, downloadSettles, startInstance
<1>3. ASSUME NEW d \in Create,
             portFound(d) \/ instanceHealthy(d) \/ readinessFails(d) \/ becomesReady(d)
      PROVE  CameUp(c, w)'
  BY <1>0, <1>3 DEF TypeOK, portFound, instanceHealthy, readinessFails, becomesReady
<1>4. ASSUME NEW d \in Create, NEW clean \in BOOLEAN, childExits(d, clean), d # c
      PROVE  CameUp(c, w)'
  BY <1>0, <1>4 DEF TypeOK, childExits, Pending
<1>5. ASSUME NEW v \in Workspace, delete(v) PROVE CameUp(c, w)'
  BY <1>0, <1>5 DEF TypeOK, delete, deleteAtOnce, deleteStops, Signalled
<1>6. ASSUME NEW d \in Create, escalate(d) PROVE CameUp(c, w)'
  BY <1>0, <1>6 DEF TypeOK, escalate
<1>7. CASE shutdown
  BY <1>0, <1>7 DEF TypeOK, shutdown, Signalled
<1>8. CASE processExit \/ UNCHANGED vars
  BY <1>8 DEF processExit, vars
<1> QED
  BY <1>1, <1>2, <1>3, <1>4, <1>5, <1>6, <1>7, <1>8 DEF Next

\* Only a create opens a folder.
LEMMA OpenedByCreate ==
  ASSUME Inv, [Next]_vars, NEW w \in Workspace, workspaces'[w] # None
  PROVE  workspaces[w] # None \/ \E c \in Create : create(c, w)
<1>0. TypeOK
  BY DEF Inv
<1>1. ASSUME NEW d \in Create, NEW v \in Workspace, create(d, v), v # w
      PROVE workspaces[w] # None
  BY <1>0, <1>1 DEF TypeOK, create
<1>2. ASSUME NEW d \in Create, NEW clean \in BOOLEAN, childExits(d, clean)
      PROVE workspaces[w] # None
  BY <1>0, <1>2 DEF TypeOK, childExits
<1>3. ASSUME NEW v \in Workspace, delete(v) PROVE workspaces[w] # None
  BY <1>0, <1>3 DEF TypeOK, delete, deleteAtOnce, deleteStops
<1>4. CASE shutdown
  BY <1>0, <1>4 DEF TypeOK, shutdown
<1>5. CASE UNCHANGED workspaces
  BY <1>5
<1> QED
  BY <1>1, <1>2, <1>3, <1>4, <1>5 DEF Next, downloadSettles, portFound, instanceHealthy,
     readinessFails, becomesReady, escalate, processExit, vars

\* No step leaves an open folder with the word of a start and no process.
LEMMA StartedStep ==
  ASSUME Inv, StreamTypes, StartedIsAlive, [EventsNext]_allVars
  PROVE  StartedIsAlive'
<1> SUFFICES ASSUME server' # "exited", NEW w \in Workspace,
                    view'[w] = "started", workspaces'[w] # None
             PROVE  \E c \in Create : CameUp(c, w)'
  BY DEF StartedIsAlive, CameUp
<1>1. [Next]_vars
  BY StepsOfLifecycle
<1>2. server # "exited"
  <2>1. CASE LifecycleStep \/ shutdownAll
    BY <2>1 DEF LifecycleStep, shutdownAll, shutdown, create, downloadSettles, portFound,
       instanceHealthy, readinessFails, becomesReady, childExits, delete, escalate, processExit
  <2>2. CASE UNCHANGED vars
    BY <2>2 DEF vars
  <2> QED
    BY <2>1, <2>2 DEF EventsNext, StreamStep, allVars
<1>3. ASSUME view[w] = "started", workspaces[w] # None,
             \A c \in Create, clean \in BOOLEAN :
               folder[c] = w /\ call[c] = "ready" => ~childExits(c, clean)
      PROVE  \E c \in Create : CameUp(c, w)'
  <2>1. PICK c \in Create : CameUp(c, w)
    BY <1>2, <1>3 DEF StartedIsAlive, CameUp
  <2> QED
    BY <1>1, <1>3, <2>1, CameUpStays DEF CameUp
<1>4. CASE LifecycleStep /\ bridgeReacts
  <2>1. CASE published' # <<>> /\ lastEvent.ws = w
    <3>1. view' = [view EXCEPT ![w] = lastEvent.type]
      BY <1>4, <2>1 DEF bridgeReacts
    <3>2. lastEvent.type = "started"
      BY <3>1 DEF StreamTypes
    <3> QED
      BY <1>4, <2>1, <3>2, StartIsTold
  <2>2. CASE ~(published' # <<>> /\ lastEvent.ws = w)
    <3>1. view'[w] = view[w]
      BY <1>4, <2>2 DEF bridgeReacts, streamVars, StreamTypes
    <3>2. workspaces[w] # None
      BY <1>1, <2>2, OpenedByCreate, CreateTells DEF TellsNoStart
    <3>3. \A c \in Create, clean \in BOOLEAN :
             folder[c] = w /\ call[c] = "ready" => ~childExits(c, clean)
      BY <2>2, <3>2, ExitTells DEF TellsNoStart
    <3> QED
      BY <1>3, <3>1, <3>2, <3>3
  <2> QED
    BY <2>1, <2>2
<1>5. CASE shutdownAll
  <2>1. view' = view /\ published' = <<>>
    BY <1>5 DEF shutdownAll, shutdown, bridgeShutdown
  <2>2. workspaces[w] # None
    BY <1>1, <2>1, OpenedByCreate, CreateTells DEF TellsNoStart
  <2>3. \A c \in Create, clean \in BOOLEAN :
           folder[c] = w /\ call[c] = "ready" => ~childExits(c, clean)
    BY <2>1, <2>2, ExitTells DEF TellsNoStart
  <2> QED
    BY <1>3, <2>1, <2>2, <2>3
<1>6. CASE UNCHANGED <<vars, view>>
  <2>1. PICK c \in Create : CameUp(c, w)
    BY <1>2, <1>6 DEF StartedIsAlive, CameUp, vars
  <2> QED
    BY <1>6, <2>1 DEF CameUp, vars
<1> QED
  BY <1>4, <1>5, <1>6 DEF EventsNext, StreamStep, allVars, streamVars

-----------------------------------------------------------------------------
(* Clients that wait for answers, healthy instances *)

SerialClients == ~Overlap /\ ~Sick

\* Per call: what is alive or on its way up holds the entries of its folder.
SerialCall(c) ==
  /\ child[c] \in Live =>
       /\ workspaces[folder[c]] = c
       /\ processes[folder[c]] = c
       /\ auth[folder[c]] = c
  /\ call[c] \in Pending => workspaces[folder[c]] = c /\ status[c] = "starting"
  /\ child[c] \in Live /\ call[c] \notin Pending => status[c] = "ready"
  /\ c \in deleting => call[c] = "ready"

Serial == server = "up" => \A c \in Create : SerialCall(c)

\* What a step leaves alone of a folder, and what it may tell of one.
Same(w) == workspaces'[w] = workspaces[w] /\ Recorded(w)' = Recorded(w)

Silent == published' = <<>> /\ \A v \in Workspace : Same(v)

Told(w, t) ==
  /\ published' # <<>>
  /\ lastEvent = [type |-> t, ws |-> w]
  /\ t \in ViewOf[Recorded(w)']
  /\ t \in {"created", "started"} => Recorded(w) # "ready"
  /\ t = "started" => auth'[w] = workspaces'[w]
  /\ \A v \in Workspace \ {w} : Same(v)

Effect == Silent \/ \E w \in Workspace, t \in EventType : Told(w, t)

\* What SerialCall speaks of when the call is another one.
LEMMA Untouched ==
  ASSUME NEW d \in Create, SerialCall(d),
         call'[d] = call[d], status'[d] = status[d], folder'[d] = folder[d],
         child'[d] \in Live => child[d] \in Live,
         d \in deleting' => d \in deleting,
         \/ child[d] \notin Live /\ call[d] \notin Pending
         \/ /\ workspaces'[folder[d]] = workspaces[folder[d]]
            /\ processes'[folder[d]] = processes[folder[d]]
            /\ auth'[folder[d]] = auth[folder[d]]
  PROVE  SerialCall(d)'
BY DEF SerialCall

\* Starting an instance, seen from its folder: at the end it is on its way up
\* with all entries its own, or there is no process.
LEMMA StartSerial ==
  ASSUME Inv, NEW c \in Create, NEW w \in Workspace, NEW before \in Seq(Record),
         child[c] \notin Live,
         startInstance(c, w, "starting", before)
  PROVE  /\ \A d \in Create \ {c} :
              call'[d] = call[d] /\ status'[d] = status[d] /\ child'[d] = child[d]
         /\ \A v \in Workspace \ {w} :
              processes'[v] = processes[v] /\ auth'[v] = auth[v]
         /\ \/ /\ call'[c] = "launching" /\ status'[c] = "starting"
               /\ processes'[w] = c /\ auth'[w] = c
               /\ published' = before
            \/ /\ call'[c] = "stuck" /\ status'[c] = "starting" /\ child'[c] = child[c]
               /\ published' = before
            \/ /\ call'[c] = "failed" /\ status'[c] = "error" /\ child'[c] = child[c]
               /\ published' = before \o Event("error", w)
BY DEF Inv, TypeOK, startInstance

\* A folder whose clients may create or delete in it: no process is alive
\* there but that of a ready record, and nothing is on its way up.
LEMMA QuietFolder ==
  ASSUME Inv, Serial, server = "up", NEW w \in Workspace, Quiet(w),
         NEW d \in Create, folder[d] = w, child[d] \in Live \/ call[d] \in Pending
  PROVE  workspaces[w] = d /\ status[d] = "ready" /\ processes[w] = d
BY DEF Quiet, Serial, SerialCall

\* create: only a folder without record, or with a record of something that
\* ended, is opened.
LEMMA CreateSerial ==
  ASSUME Inv, Serial, SerialClients, NEW c \in Create, NEW w \in Workspace, create(c, w)
  PROVE  Serial' /\ Effect
<1> USE WorkspaceAssumption
<1>1. /\ server = "up" /\ server' = "up"
      /\ call[c] = "idle" /\ child[c] \notin Live /\ c \notin deleting
      /\ workspaces[w] # None => status[workspaces[w]] \in {"stopped", "error"}
      /\ Quiet(w)
      /\ folder' = [folder EXCEPT ![c] = w]
      /\ workspaces' = [workspaces EXCEPT ![w] = c]
      /\ UNCHANGED deleting
      /\ TypeOK
  BY DEF SerialClients, create, MayCreate, Inv, CallsOK, CallOK, AwaitedIsSignalled, Live
<1>2. ASSUME NEW d \in Create, d # c, folder[d] = w
      PROVE  child[d] \notin Live /\ call[d] \notin Pending
  BY <1>1, <1>2, QuietFolder
<1>3. Recorded(w) # "ready"
  BY <1>1 DEF Recorded
<1>4. Event("created", w) \in Seq(Record) /\ <<>> \in Seq(Record)
  BY EventType1 DEF EventType
<1>5. /\ \A d \in Create \ {c} :
           call'[d] = call[d] /\ status'[d] = status[d] /\ child'[d] = child[d]
      /\ \A v \in Workspace \ {w} :
           processes'[v] = processes[v] /\ auth'[v] = auth[v]
      /\ \/ /\ call'[c] = "launching" /\ status'[c] = "starting"
            /\ processes'[w] = c /\ auth'[w] = c
            /\ published' = Event("created", w)
         \/ /\ call'[c] \in {"stuck", "download"} /\ status'[c] = "starting"
            /\ child'[c] = child[c]
            /\ published' = Event("created", w)
         \/ /\ call'[c] = "failed" /\ status'[c] = "error" /\ child'[c] = child[c]
            /\ published' = Event("created", w) \o Event("error", w)
  <2>1. CASE startInstance(c, w, "starting", Event("created", w))
    BY <1>1, <1>4, <2>1, StartSerial
  <2>2. CASE /\ call' = [call EXCEPT ![c] = "download"]
             /\ status' = [status EXCEPT ![c] = "starting"]
             /\ published' = Event("created", w)
             /\ UNCHANGED <<auth, child, processes>>
    BY <1>1, <2>2 DEF TypeOK
  <2> QED
    BY <2>1, <2>2 DEF create
<1>6. ASSUME NEW d \in Create PROVE SerialCall(d)'
  <2>1. CASE d = c
    BY <1>1, <1>5, <2>1 DEF TypeOK, SerialCall, Pending
  <2>2. CASE d # c
    <3>1. SerialCall(d) /\ folder'[d] = folder[d]
      BY <1>1, <2>2 DEF Serial, TypeOK
    <3>2. CASE folder[d] = w
      BY <1>1, <1>2, <1>5, <2>2, <3>1, <3>2, Untouched
    <3>3. CASE folder[d] # w
      <4>1. child[d] \in Live \/ call[d] \in Pending => folder[d] \in Workspace
        BY DEF Inv, CallsOK, CallOK, Pending
      <4>2. folder[d] \in Workspace =>
              /\ workspaces'[folder[d]] = workspaces[folder[d]]
              /\ processes'[folder[d]] = processes[folder[d]]
              /\ auth'[folder[d]] = auth[folder[d]]
        BY <1>1, <1>5, <3>3 DEF TypeOK
      <4> QED
        BY <1>1, <1>5, <2>2, <3>1, <4>1, <4>2, Untouched
    <3> QED
      BY <3>2, <3>3
  <2> QED
    BY <2>1, <2>2
<1>7. ASSUME NEW v \in Workspace \ {w} PROVE Same(v)
  <2>1. workspaces'[v] = workspaces[v]
    BY <1>1 DEF TypeOK
  <2>2. workspaces[v] # c
    BY <1>1 DEF Inv, EntriesOK, EntryOK
  <2>3. workspaces[v] # None => status'[workspaces[v]] = status[workspaces[v]]
    BY <1>1, <1>5, <2>2 DEF TypeOK
  <2> QED
    BY <2>1, <2>3 DEF Same, Recorded
<1>8. Recorded(w)' = status'[c]
  BY <1>1 DEF TypeOK, Recorded
<1>9. Effect
  <2>1. CASE status'[c] = "starting" /\ published' = Event("created", w)
    <3>1. published' # <<>> /\ lastEvent = [type |-> "created", ws |-> w]
      BY <1>4, <2>1, LastEvents DEF EventType
    <3> QED
      BY <1>3, <1>7, <1>8, <2>1, <3>1 DEF Effect, Told, EventType, ViewOf
  <2>2. CASE status'[c] = "error" /\ published' = Event("created", w) \o Event("error", w)
    <3>1. published' # <<>> /\ lastEvent = [type |-> "error", ws |-> w]
      BY <1>4, <2>2, LastEvents DEF EventType
    <3> QED
      BY <1>3, <1>7, <1>8, <2>2, <3>1 DEF Effect, Told, EventType, ViewOf
  <2> QED
    BY <1>5, <2>1, <2>2
<1> QED
  BY <1>6, <1>9 DEF Serial

\* The answer of the download: the record is still the call's own.
LEMMA DownloadSerial ==
  ASSUME Inv, Serial, NEW c \in Create, downloadSettles(c), server = "up"
  PROVE  Serial' /\ Effect
<1> USE WorkspaceAssumption
<1> DEFINE w == folder[c]
<1>1. /\ server' = "up" /\ call[c] = "download" /\ child[c] \notin Live
      /\ w \in Workspace /\ workspaces[w] = c /\ status[c] = "starting"
      /\ c \notin deleting
      /\ UNCHANGED <<folder, workspaces, deleting>>
      /\ TypeOK
  BY DEF downloadSettles, Inv, CallsOK, CallOK, Serial, SerialCall, Pending
<1>2. <<>> \in Seq(Record) /\ Event("error", w) \in Seq(Record)
  BY <1>1, EventType1 DEF EventType
<1>3. /\ \A d \in Create \ {c} :
           call'[d] = call[d] /\ status'[d] = status[d] /\ child'[d] = child[d]
      /\ \A v \in Workspace \ {w} :
           processes'[v] = processes[v] /\ auth'[v] = auth[v]
      /\ \/ /\ call'[c] = "launching" /\ status'[c] = "starting"
            /\ processes'[w] = c /\ auth'[w] = c
            /\ published' = <<>>
         \/ /\ call'[c] = "stuck" /\ status'[c] = "starting" /\ child'[c] = child[c]
            /\ published' = <<>>
         \/ /\ call'[c] = "failed" /\ status'[c] = "error" /\ child'[c] = child[c]
            /\ published' = <<>> \o Event("error", w)
  <2>1. CASE startInstance(c, w, status[c], <<>>)
    <3>1. startInstance(c, w, "starting", <<>>)
      BY <1>1, <2>1
    <3> HIDE DEF w
    <3> QED
      BY <1>1, <1>2, <3>1, StartSerial
  <2>2. CASE /\ call' = [call EXCEPT ![c] = "stuck"]
             /\ published' = <<>>
             /\ UNCHANGED <<status, auth, child, processes>>
    BY <1>1, <2>2 DEF TypeOK
  <2> QED
    BY <2>1, <2>2 DEF downloadSettles
<1>4. ASSUME NEW d \in Create PROVE SerialCall(d)'
  <2>1. CASE d = c
    BY <1>1, <1>3, <2>1 DEF TypeOK, SerialCall, Pending
  <2>2. CASE d # c
    <3>1. SerialCall(d)
      BY DEF Serial
    <3>2. child[d] \in Live \/ call[d] \in Pending => folder[d] \in Workspace \ {w}
      BY <1>1, <2>2, <3>1 DEF Inv, CallsOK, CallOK, Pending, SerialCall
    <3> QED
      BY <1>1, <1>3, <2>2, <3>1, <3>2, Untouched
  <2> QED
    BY <2>1, <2>2
<1>5. ASSUME NEW v \in Workspace, status'[c] = status[c] \/ v # w PROVE Same(v)
  <2>1. workspaces[v] # None =>
          workspaces[v] \in Create /\ folder[workspaces[v]] = v
    BY DEF Inv, TypeOK, EntriesOK, EntryOK
  <2>2. workspaces[v] # None => status'[workspaces[v]] = status[workspaces[v]]
    BY <1>3, <1>5, <2>1
  <2> QED
    BY <1>1, <2>2 DEF Same, Recorded
<1>6. Effect
  <2>1. CASE published' = <<>> /\ status'[c] = "starting"
    BY <1>1, <1>5, <2>1 DEF Effect, Silent
  <2>2. CASE status'[c] = "error" /\ published' = <<>> \o Event("error", w)
    <3>1. published' # <<>> /\ lastEvent = [type |-> "error", ws |-> w]
      BY <1>1, <1>2, <2>2, LastEvents DEF EventType
    <3>2. Recorded(w)' = "error"
      BY <1>1, <2>2 DEF Recorded
    <3>3. \A v \in Workspace \ {w} : Same(v)
      BY <1>5
    <3>4. Told(w, "error")
      BY <3>1, <3>2, <3>3 DEF Told, ViewOf
    <3> QED
      BY <1>1, <3>4 DEF Effect, EventType
  <2> QED
    BY <1>3, <2>1, <2>2
<1> QED
  BY <1>4, <1>6 DEF Serial

\* A step that changes the progress of one call that has a process, and
\* nothing of any record, tells nothing.
LEMMA ProgressSerial ==
  ASSUME Inv, Serial, NEW c \in Create, portFound(c) \/ instanceHealthy(c),
         server = "up"
  PROVE  Serial' /\ Effect
<1>1. /\ TypeOK /\ server' = "up" /\ published' = <<>>
      /\ call[c] \in Pending
      /\ \E s \in Pending : call' = [call EXCEPT ![c] = s]
      /\ UNCHANGED <<folder, status, child, workspaces, processes, auth, deleting>>
  BY DEF Inv, portFound, instanceHealthy, Pending
<1>2. ASSUME NEW d \in Create PROVE SerialCall(d)'
  <2>1. SerialCall(d)
    BY DEF Serial
  <2>2. CASE d = c
    BY <1>1, <2>1, <2>2 DEF TypeOK, SerialCall, Pending
  <2>3. CASE d # c
    BY <1>1, <2>1, <2>3 DEF TypeOK, SerialCall
  <2> QED
    BY <2>2, <2>3
<1>3. Effect
  BY <1>1 DEF Effect, Silent, Same, Recorded
<1> QED
  BY <1>2, <1>3 DEF Serial

\* A healthy instance whose password is the stored one passes its checks.
LEMMA ReadinessHolds ==
  ASSUME Inv, Serial, SerialClients, NEW c \in Create, server = "up"
  PROVE  ~readinessFails(c)
<1>1. call[c] = "probing" => child[c] \in Live
  BY DEF Inv, CallsOK, CallOK
<1>2. child[c] \in Live => auth[folder[c]] = c
  BY DEF Serial, SerialCall
<1> QED
  BY <1>1, <1>2 DEF readinessFails, SerialClients

\* becomesReady: the record that becomes ready is the one of its folder.
LEMMA ReadySerial ==
  ASSUME Inv, Serial, NEW c \in Create, becomesReady(c), server = "up"
  PROVE  Serial' /\ Effect
<1> USE WorkspaceAssumption
<1> DEFINE w == folder[c]
<1>1. /\ TypeOK /\ server' = "up" /\ call[c] = "settling"
      /\ child[c] \in Live /\ w \in Workspace
      /\ workspaces[w] = c /\ auth[w] = c /\ status[c] = "starting"
      /\ call' = [call EXCEPT ![c] = "ready"]
      /\ status' = [status EXCEPT ![c] = "ready"]
      /\ published' = Event("started", w)
      /\ UNCHANGED <<folder, child, workspaces, processes, auth, deleting>>
  BY DEF becomesReady, Inv, CallsOK, CallOK, Serial, SerialCall, Pending
<1>2. ASSUME NEW d \in Create PROVE SerialCall(d)'
  <2>1. SerialCall(d)
    BY DEF Serial
  <2>2. CASE d = c
    BY <1>1, <2>1, <2>2 DEF TypeOK, SerialCall, Pending
  <2>3. CASE d # c
    BY <1>1, <2>1, <2>3 DEF TypeOK, SerialCall
  <2> QED
    BY <2>2, <2>3
<1>3. ASSUME NEW v \in Workspace \ {w} PROVE Same(v)
  <2>1. workspaces[v] # c
    BY <1>3 DEF Inv, EntriesOK, EntryOK
  <2> QED
    BY <1>1, <2>1 DEF TypeOK, Same, Recorded
<1>4. published' # <<>> /\ lastEvent = [type |-> "started", ws |-> w]
  <2>1. <<>> \in Seq(Record)
    OBVIOUS
  <2> QED
    BY <1>1, <2>1, LastEvents DEF EventType
<1>5. Recorded(w) = "starting" /\ Recorded(w)' = "ready"
  BY <1>1 DEF TypeOK, Recorded
<1>6. Told(w, "started")
  BY <1>1, <1>3, <1>4, <1>5 DEF Told, ViewOf
<1> QED
  BY <1>1, <1>2, <1>6 DEF Serial, Effect, EventType

\* What the exit of a process leaves behind while the server is up: its record
\* has ended, or is gone when a delete waited for it.
LEMMA ExitShape ==
  ASSUME Inv, Serial, NEW c \in Create, NEW clean \in BOOLEAN, childExits(c, clean),
         server = "up"
  PROVE  LET w == folder[c]
             st == IF call[c] \in Pending THEN "error" ELSE exitStatus(c, clean)
         IN  /\ w \in Workspace /\ workspaces[w] = c
             /\ server' = "up"
             /\ call'[c] \notin Pending /\ child'[c] \notin Live
             /\ status'[c] = st
             /\ \A d \in Create \ {c} :
                  call'[d] = call[d] /\ status'[d] = status[d] /\ child'[d] = child[d]
             /\ \A v \in Workspace \ {w} :
                  /\ workspaces'[v] = workspaces[v]
                  /\ processes'[v] = processes[v]
                  /\ auth'[v] = auth[v]
             /\ workspaces'[w] = IF c \in deleting THEN None ELSE c
             /\ deleting' = deleting \ {c}
             /\ folder' = folder
             /\ c \in deleting => call[c] = "ready"
             /\ published' # <<>>
             /\ lastEvent = [type |-> st, ws |-> w]
<1> USE WorkspaceAssumption
<1> DEFINE w == folder[c]
           st == IF call[c] \in Pending THEN "error" ELSE exitStatus(c, clean)
<1>1. /\ TypeOK /\ child[c] \in Live /\ w \in Workspace /\ workspaces[w] = c
      /\ c \in deleting => call[c] = "ready"
      /\ ~ShutdownDone(c)
      /\ exitRecord(c) = IF call[c] = "launching" THEN None ELSE c
  BY DEF childExits, Inv, CallsOK, CallOK, Serial, SerialCall, ShutdownDone, exitRecord
<1>2. removedByExit(c) = IF c \in deleting THEN {w} ELSE {}
  BY <1>1 DEF removedByExit
<1>3. /\ child' = [child EXCEPT ![c] = "gone"]
      /\ processes' = [processes EXCEPT ![w] = None]
      /\ status' = statusAfterExit(c, clean)
      /\ call' = [call EXCEPT ![c] = IF @ \in Pending THEN "failed" ELSE @]
      /\ workspaces' = [v \in Workspace |->
                          IF v \in removedByExit(c) THEN None ELSE workspaces[v]]
      /\ auth' = [v \in Workspace |->
                    IF \/ v \in removedByExit(c)
                       \/ v = w /\ exitRecord(c) # None
                    THEN None ELSE auth[v]]
      /\ deleting' = deleting \ {c}
      /\ server' = server
      /\ published' = eventsOfExit(c, clean)
      /\ folder' = folder
  BY <1>1 DEF childExits
<1>4. call'[c] \notin Pending /\ child'[c] \notin Live
  BY <1>1, <1>3 DEF TypeOK, Pending, Live
<1>5. status'[c] = st
  BY <1>1, <1>3 DEF statusAfterExit, Pending
<1>6. \A d \in Create \ {c} :
        call'[d] = call[d] /\ status'[d] = status[d] /\ child'[d] = child[d]
  BY <1>1, <1>3 DEF TypeOK, statusAfterExit
<1>7. \A v \in Workspace \ {w} :
        /\ workspaces'[v] = workspaces[v]
        /\ processes'[v] = processes[v]
        /\ auth'[v] = auth[v]
  BY <1>1, <1>2, <1>3 DEF TypeOK
<1>8. workspaces'[w] = IF c \in deleting THEN None ELSE c
  BY <1>1, <1>2, <1>3
<1>9. published' # <<>> /\ lastEvent = [type |-> st, ws |-> w]
  <2>1. st \in {"stopped", "error"} /\ exitStatus(c, clean) \in {"stopped", "error"}
    BY DEF exitStatus
  <2>2. /\ <<>> \in Seq(Record)
        /\ Event(st, w) \in Seq(Record)
        /\ Event("error", w) \in Seq(Record)
        /\ Event(exitStatus(c, clean), w) \in Seq(Record)
    BY <1>1, <2>1, EventType1 DEF EventType
  <2>3. PICK s \in Seq(Record) : published' = Event(st, w) \/ published' = s \o Event(st, w)
    <3>1. CASE call[c] \in Pending
      <4>1. PICK s \in Seq(Record) : published' = s \o Event("error", w)
        BY <1>3, <2>2, <3>1 DEF eventsOfExit
      <4> QED
        BY <3>1, <4>1
    <3>2. CASE call[c] \notin Pending
      <4>1. published' = Event(st, w) \o <<>>
        BY <1>1, <1>3, <3>2 DEF eventsOfExit, Pending
      <4>2. Event(st, w) \o <<>> = Event(st, w)
        <5> HIDE DEF st, w
        <5> QED
          BY <2>2
      <4> QED
        BY <2>2, <4>1, <4>2
    <3> QED
      BY <3>1, <3>2
  <2> HIDE DEF st, w
  <2> QED
    BY <1>1, <2>1, <2>3, LastEvents DEF EventType
<1> QED
  BY <1>1, <1>3, <1>4, <1>5, <1>6, <1>7, <1>8, <1>9

\* childExits: the record of the process ends with it.
LEMMA ExitSerial ==
  ASSUME Inv, Serial, NEW c \in Create, NEW clean \in BOOLEAN, childExits(c, clean),
         server = "up"
  PROVE  Serial' /\ Effect
<1> USE WorkspaceAssumption
<1> DEFINE w == folder[c]
           st == IF call[c] \in Pending THEN "error" ELSE exitStatus(c, clean)
<1>1. /\ w \in Workspace /\ workspaces[w] = c
      /\ server' = "up"
      /\ call'[c] \notin Pending /\ child'[c] \notin Live
      /\ status'[c] = st
      /\ \A d \in Create \ {c} :
           call'[d] = call[d] /\ status'[d] = status[d] /\ child'[d] = child[d]
      /\ \A v \in Workspace \ {w} :
           /\ workspaces'[v] = workspaces[v]
           /\ processes'[v] = processes[v]
           /\ auth'[v] = auth[v]
      /\ workspaces'[w] = IF c \in deleting THEN None ELSE c
      /\ deleting' = deleting \ {c}
      /\ folder' = folder
      /\ c \in deleting => call[c] = "ready"
      /\ published' # <<>>
      /\ lastEvent = [type |-> st, ws |-> w]
  BY ExitShape
<1>2. TypeOK /\ (c \in deleting => requested[c])
  BY DEF Inv, AwaitedIsSignalled
<1>3. /\ st \in {"stopped", "error"}
      /\ c \in deleting => st = "stopped"
  BY <1>1, <1>2 DEF exitStatus, Pending
<1>4. ASSUME NEW d \in Create PROVE SerialCall(d)'
  <2>1. CASE d = c
    BY <1>1, <2>1 DEF SerialCall
  <2>2. CASE d # c
    <3>1. SerialCall(d)
      BY DEF Serial
    <3>2. child[d] \in Live \/ call[d] \in Pending => folder[d] \in Workspace \ {w}
      BY <1>1, <2>2, <3>1 DEF Inv, CallsOK, CallOK, Pending, SerialCall
    <3> QED
      BY <1>1, <2>2, <3>1, <3>2, Untouched
  <2> QED
    BY <2>1, <2>2
<1>5. ASSUME NEW v \in Workspace \ {w} PROVE Same(v)
  <2>1. workspaces[v] # None => workspaces[v] \in Create \ {c}
    BY <1>5 DEF Inv, TypeOK, EntriesOK, EntryOK
  <2>2. workspaces[v] # None => status'[workspaces[v]] = status[workspaces[v]]
    BY <1>1, <2>1
  <2>3. workspaces'[v] = workspaces[v]
    BY <1>1, <1>5
  <2> QED
    BY <2>2, <2>3 DEF Same, Recorded
<1>6. Recorded(w)' = IF c \in deleting THEN "none" ELSE st
  BY <1>1 DEF Recorded
<1>7. st \in ViewOf[Recorded(w)']
  BY <1>3, <1>6 DEF ViewOf
<1>8. Told(w, st)
  <2> HIDE DEF st, w
  <2> QED
    BY <1>1, <1>3, <1>5, <1>7 DEF Told
<1> QED
  BY <1>1, <1>3, <1>4, <1>8 DEF Serial, Effect, EventType

\* delete: what is dropped at once has no process; what has one is its own.
LEMMA DeleteSerial ==
  ASSUME Inv, Serial, SerialClients, NEW w \in Workspace, delete(w)
  PROVE  Serial' /\ Effect
<1> USE WorkspaceAssumption
<1>1. /\ TypeOK /\ server = "up" /\ server' = "up" /\ Quiet(w)
      /\ workspaces[w] \in Create
      /\ UNCHANGED <<call, folder, status, hasPid, processes>>
  BY DEF Inv, TypeOK, delete, SerialClients, MayDelete
<1>2. CASE deleteAtOnce(w) /\ ~(hasPid[workspaces[w]] /\ processes[w] # None)
  <2>1. ASSUME NEW d \in Create, folder[d] = w
        PROVE  child[d] \notin Live /\ call[d] \notin Pending
    <3>1. SUFFICES ASSUME child[d] \in Live \/ call[d] \in Pending PROVE FALSE
      OBVIOUS
    <3>2. workspaces[w] = d /\ status[d] = "ready" /\ processes[w] = d
      BY <1>1, <2>1, <3>1, QuietFolder
    <3> QED
      BY <1>2, <3>2 DEF Inv, CallsOK, CallOK
  <2>2. ~hasPid[workspaces[w]]
    BY <1>1, <2>1 DEF Inv, EntriesOK, EntryOK
  <2>3. /\ workspaces' = [workspaces EXCEPT ![w] = None]
        /\ auth' = [auth EXCEPT ![w] = None]
        /\ published' = Event("stopped", w)
        /\ UNCHANGED <<child, deleting>>
    BY <1>2, <2>2 DEF deleteAtOnce
  <2>4. ASSUME NEW d \in Create PROVE SerialCall(d)'
    <3>1. SerialCall(d)
      BY <1>1 DEF Serial
    <3>2. child[d] \in Live \/ call[d] \in Pending => folder[d] \in Workspace \ {w}
      BY <2>1 DEF Inv, CallsOK, CallOK, Pending
    <3>3. folder[d] \in Workspace \ {w} =>
            workspaces'[folder[d]] = workspaces[folder[d]] /\ auth'[folder[d]] = auth[folder[d]]
      BY <1>1, <2>3 DEF TypeOK
    <3> QED
      BY <1>1, <2>3, <3>1, <3>2, <3>3, Untouched
  <2>5. \A v \in Workspace \ {w} : Same(v)
    BY <1>1, <2>3 DEF TypeOK, Same, Recorded
  <2>6. published' # <<>> /\ lastEvent = [type |-> "stopped", ws |-> w]
    <3>1. <<>> \in Seq(Record)
      OBVIOUS
    <3> QED
      BY <2>3, <3>1, LastEvents DEF EventType
  <2>7. Recorded(w)' = "none"
    BY <1>1, <2>3 DEF TypeOK, Recorded
  <2>8. Told(w, "stopped")
    BY <2>5, <2>6, <2>7 DEF Told, ViewOf
  <2> QED
    BY <1>1, <2>4, <2>8 DEF Serial, Effect, EventType
<1>3. CASE deleteStops(w) /\ hasPid[workspaces[w]] /\ processes[w] # None
  <2>1. /\ processes[w] \in Create /\ child[processes[w]] \in Live
        /\ folder[processes[w]] = w
    BY <1>1, <1>3 DEF TypeOK, Inv, EntriesOK, EntryOK
  <2>2. workspaces[w] = processes[w]
    BY <1>1, <2>1 DEF Serial, SerialCall
  <2>3. call[processes[w]] = "ready"
    BY <1>1, <1>3, <2>2 DEF Inv, CallsOK, CallOK
  <2>4. /\ deleting' = deleting \cup {processes[w]}
        /\ published' = <<>>
        /\ UNCHANGED <<workspaces, auth>>
        /\ \A d \in Create : child'[d] \in Live => child[d] \in Live
    BY <1>3 DEF deleteStops, Signalled, Live
  <2>5. \A d \in Create : SerialCall(d)'
    BY <1>1, <2>3, <2>4 DEF Serial, SerialCall
  <2>6. Effect
    BY <1>1, <2>4 DEF Effect, Silent, Same, Recorded
  <2> QED
    BY <2>5, <2>6 DEF Serial
<1> QED
  BY <1>2, <1>3 DEF delete

\* The escalation timer tells nothing.
LEMMA EscalateSerial ==
  ASSUME Inv, Serial, NEW c \in Create, escalate(c), server = "up"
  PROVE  Serial' /\ Effect
<1>1. /\ published' = <<>>
      /\ UNCHANGED <<call, folder, status, workspaces, processes, auth, deleting>>
      /\ \A d \in Create : child'[d] \in Live => child[d] \in Live
  BY DEF escalate, Inv, TypeOK, Live
<1>2. \A d \in Create : SerialCall(d)'
  BY <1>1 DEF Serial, SerialCall
<1>3. Effect
  BY <1>1 DEF Effect, Silent, Same, Recorded
<1> QED
  BY <1>2, <1>3 DEF Serial

\* Every step of the lifecycle that leaves the server up keeps the entries of
\* a folder together, and tells what it does to a record.
LEMMA LifecycleSerial ==
  ASSUME Inv, Serial, SerialClients, LifecycleStep, server' = "up"
  PROVE  server = "up" /\ Serial' /\ Effect
<1>1. server = "up"
  BY DEF LifecycleStep, create, downloadSettles, portFound, instanceHealthy,
         readinessFails, becomesReady, childExits, delete, escalate, processExit
<1>2. ASSUME NEW c \in Create, NEW w \in Workspace, create(c, w) PROVE Serial' /\ Effect
  BY <1>2, CreateSerial
<1>3. ASSUME NEW c \in Create, downloadSettles(c) PROVE Serial' /\ Effect
  BY <1>1, <1>3, DownloadSerial
<1>4. ASSUME NEW c \in Create, portFound(c) \/ instanceHealthy(c) PROVE Serial' /\ Effect
  BY <1>1, <1>4, ProgressSerial
<1>5. ASSUME NEW c \in Create, readinessFails(c) PROVE FALSE
  BY <1>1, <1>5, ReadinessHolds
<1>6. ASSUME NEW c \in Create, becomesReady(c) PROVE Serial' /\ Effect
  BY <1>1, <1>6, ReadySerial
<1>7. ASSUME NEW c \in Create, NEW clean \in BOOLEAN, childExits(c, clean)
      PROVE  Serial' /\ Effect
  BY <1>1, <1>7, ExitSerial
<1>8. ASSUME NEW w \in Workspace, delete(w) PROVE Serial' /\ Effect
  BY <1>8, DeleteSerial
<1>9. ASSUME NEW c \in Create, escalate(c) PROVE Serial' /\ Effect
  BY <1>1, <1>9, EscalateSerial
<1>10. ~processExit
  BY <1>1 DEF processExit
<1> QED
  BY <1>1, <1>2, <1>3, <1>4, <1>5, <1>6, <1>7, <1>8, <1>9, <1>10 DEF LifecycleStep

-----------------------------------------------------------------------------
(* The bridge and the clients' view *)

\* Whatever a turn of runStream finds, it stays within the types.
LEMMA RunStreamTypes ==
  ASSUME Inv', StreamTypes, NEW w \in Workspace, runStream(w)
  PROVE  /\ stream' \in [Workspace -> StreamState]
         /\ target' \in [Workspace -> Create \cup {None}]
         /\ streamStatus' \in [Workspace -> StreamStatus]
<1>1. getInstancePort(w) \in Create \cup {None}
  BY DEF Inv, TypeOK, getInstancePort
<1> QED
  BY <1>1 DEF StreamTypes, runStream, StreamState, StreamStatus

\* The event the bridge acts upon is an event of a folder.
LEMMA LastEventType ==
  ASSUME Inv', published' # <<>>
  PROVE  lastEvent.ws \in Workspace /\ lastEvent.type \in EventType
<1>1. published' \in Seq(Record)
  BY DEF Inv, TypeOK, Record
<1>2. lastEvent \in Record
  BY <1>1 DEF lastEvent
<1> QED
  BY <1>2 DEF Record

\* Streams, targets, statuses and views stay within their types.
LEMMA StreamTypesNext ==
  ASSUME Inv', StreamTypes, [EventsNext]_allVars
  PROVE  StreamTypes'
<1>1. CASE bridgeReacts /\ published' = <<>>
  BY <1>1 DEF bridgeReacts, streamVars, StreamTypes
<1>2. CASE bridgeReacts /\ published' # <<>>
  <2> DEFINE w == lastEvent.ws
  <2>1. w \in Workspace /\ lastEvent.type \in EventType
    BY <1>2, LastEventType
  <2>2. view' = [view EXCEPT ![w] = lastEvent.type]
    BY <1>2 DEF bridgeReacts
  <2>3. runStream(w) \/ streamAborted({w}) \/ UNCHANGED <<stream, target, streamStatus>>
    BY <1>2 DEF bridgeReacts
  <2> HIDE DEF w
  <2>4. /\ stream' \in [Workspace -> StreamState]
        /\ target' \in [Workspace -> Create \cup {None}]
        /\ streamStatus' \in [Workspace -> StreamStatus]
    <3>1. CASE runStream(w)
      BY <2>1, <3>1, RunStreamTypes
    <3>2. CASE streamAborted({w})
      BY <3>2 DEF StreamTypes, streamAborted, StreamState, StreamStatus
    <3>3. CASE UNCHANGED <<stream, target, streamStatus>>
      BY <3>3 DEF StreamTypes
    <3> QED
      BY <2>3, <3>1, <3>2, <3>3
  <2> QED
    BY <2>1, <2>2, <2>4 DEF StreamTypes
<1>3. CASE shutdownAll
  BY <1>3 DEF shutdownAll, bridgeShutdown, streamAborted, StreamTypes, StreamState, StreamStatus
<1>4. ASSUME NEW w \in Workspace, StreamStep(w) PROVE StreamTypes'
  <2>1. view' = view
    BY <1>4 DEF StreamStep
  <2>2. CASE runStream(w)
    BY <2>1, <2>2, RunStreamTypes DEF StreamTypes
  <2>3. CASE streamError(w)
    BY <2>1, <2>3 DEF StreamTypes, streamError, StreamState, StreamStatus
  <2>4. CASE /\ stream' = [stream EXCEPT ![w] = "connected"]
             /\ streamStatus' = [streamStatus EXCEPT ![w] = "connected"]
             /\ UNCHANGED target
    BY <2>1, <2>4 DEF StreamTypes, StreamState, StreamStatus
  <2> QED
    BY <1>4, <2>2, <2>3, <2>4 DEF StreamStep, retry, fetchSettles, streamEnds
<1>5. CASE UNCHANGED allVars
  BY <1>5 DEF allVars, streamVars, StreamTypes
<1> QED
  BY <1>1, <1>2, <1>3, <1>4, <1>5 DEF EventsNext

\* What the serial properties say of one folder; a stream that is off has no
\* target a later launch could take over.
SerialStream(w) ==
  /\ stream[w] # "off" <=> Recorded(w) = "ready"
  /\ target[w] # None => target[w] = workspaces[w]
  /\ stream[w] = "off" => target[w] = None
  /\ streamStatus[w] = "connected" <=> stream[w] = "connected"
  /\ view[w] \in ViewOf[Recorded(w)]

SerialStreams == server = "up" => \A w \in Workspace : SerialStream(w)

SerialInv == Inv /\ Serial /\ StreamTypes /\ SerialStreams

\* A turn of runStream for a ready record whose password fits connects to the
\* process of the record.
LEMMA RunStreamSerial ==
  ASSUME Inv', StreamTypes, NEW w \in Workspace, runStream(w), Recorded(w)' = "ready"
  PROVE  /\ target'[w] = workspaces'[w]
         /\ stream'[w] \in {"connecting", "unauthorised"}
         /\ streamStatus'[w] = "connecting"
         /\ \A v \in Workspace \ {w} :
              stream'[v] = stream[v] /\ target'[v] = target[v] /\ streamStatus'[v] = streamStatus[v]
<1>1. workspaces'[w] # None /\ status'[workspaces'[w]] = "ready"
  BY DEF Recorded
<1>2. workspaces'[w] \in Create /\ hasPid'[workspaces'[w]]
  BY <1>1 DEF Inv, TypeOK, CallsOK, CallOK
<1>3. getInstancePort(w) = workspaces'[w]
  BY <1>1, <1>2 DEF getInstancePort
<1> QED
  BY <1>1, <1>3 DEF StreamTypes, runStream

\* What does not change for a folder keeps its SerialStream.
LEMMA StreamSame ==
  ASSUME NEW v \in Workspace, SerialStream(v), Same(v),
         stream'[v] = stream[v], target'[v] = target[v],
         streamStatus'[v] = streamStatus[v], view'[v] = view[v]
  PROVE  SerialStream(v)'
BY DEF SerialStream, Same

\* The bridge follows what the step tells.
LEMMA BridgeFollows ==
  ASSUME Inv', StreamTypes, \A w \in Workspace : SerialStream(w), Effect, bridgeReacts
  PROVE  \A w \in Workspace : SerialStream(w)'
<1> USE WorkspaceAssumption
<1>1. CASE Silent
  BY <1>1, StreamSame DEF Silent, bridgeReacts, streamVars
<1>2. ASSUME NEW w \in Workspace, NEW t \in EventType, Told(w, t)
      PROVE  \A v \in Workspace : SerialStream(v)'
  <2>1. /\ published' # <<>> /\ lastEvent.ws = w /\ lastEvent.type = t
        /\ t \in ViewOf[Recorded(w)']
        /\ t \in {"created", "started"} => Recorded(w) # "ready"
        /\ \A v \in Workspace \ {w} : Same(v)
        /\ SerialStream(w)
    BY <1>2 DEF Told
  <2>2. /\ view' = [view EXCEPT ![w] = t]
        /\ t = "started" /\ stream[w] = "off" => runStream(w)
        /\ t \in {"stopped", "error"} => streamAborted({w})
        /\ t = "created" => UNCHANGED <<stream, target, streamStatus>>
    BY <2>1 DEF bridgeReacts
  <2>3. Recorded(w)' \in DOMAIN ViewOf
    BY DEF Inv, TypeOK, Recorded, ViewOf
  <2>4. view'[w] = t /\ \A v \in Workspace \ {w} : view'[v] = view[v]
    BY <2>2 DEF StreamTypes
  <2>5. CASE t = "started"
    <3>1. Recorded(w)' = "ready" /\ stream[w] = "off"
      BY <2>1, <2>3, <2>5 DEF ViewOf, SerialStream
    <3>2. runStream(w)
      BY <2>2, <2>5, <3>1
    <3>3. /\ target'[w] = workspaces'[w]
          /\ stream'[w] \in {"connecting", "unauthorised"}
          /\ streamStatus'[w] = "connecting"
          /\ \A v \in Workspace \ {w} :
               stream'[v] = stream[v] /\ target'[v] = target[v] /\ streamStatus'[v] = streamStatus[v]
      BY <3>1, <3>2, RunStreamSerial
    <3>4. SerialStream(w)'
      BY <2>1, <2>4, <3>1, <3>3 DEF SerialStream
    <3> QED
      BY <2>1, <2>4, <3>3, <3>4, StreamSame
  <2>6. CASE t \in {"stopped", "error"}
    <3>1. Recorded(w)' # "ready"
      BY <2>1, <2>3, <2>6 DEF ViewOf
    <3>2. /\ stream'[w] = "off" /\ target'[w] = None
          /\ streamStatus'[w] # "connected"
          /\ \A v \in Workspace \ {w} :
               stream'[v] = stream[v] /\ target'[v] = target[v] /\ streamStatus'[v] = streamStatus[v]
      BY <2>1, <2>2, <2>6 DEF streamAborted, SerialStream
    <3>3. SerialStream(w)'
      BY <2>1, <2>4, <3>1, <3>2 DEF SerialStream
    <3> QED
      BY <2>1, <2>4, <3>2, <3>3, StreamSame
  <2>7. CASE t = "created"
    <3>1. Recorded(w)' # "ready" /\ stream[w] = "off" /\ target[w] = None
      BY <2>1, <2>3, <2>7 DEF ViewOf, SerialStream
    <3>2. UNCHANGED <<stream, target, streamStatus>>
      BY <2>2, <2>7
    <3>3. SerialStream(w)'
      BY <2>1, <2>4, <3>1, <3>2 DEF SerialStream
    <3> QED
      BY <2>1, <2>4, <3>2, <3>3, StreamSame
  <2> QED
    BY <2>5, <2>6, <2>7 DEF EventType
<1> QED
  BY <1>1, <1>2 DEF Effect

\* A step of a stream task keeps to the record it serves.
LEMMA StreamStepSerial ==
  ASSUME Inv', StreamTypes, \A v \in Workspace : SerialStream(v),
         NEW w \in Workspace, StreamStep(w)
  PROVE  \A v \in Workspace : SerialStream(v)'
<1> USE WorkspaceAssumption
<1>1. /\ UNCHANGED <<vars, view>>
      /\ stream[w] # "off" /\ SerialStream(w)
  BY DEF StreamStep, retry, fetchSettles, streamEnds
<1>2. /\ \A v \in Workspace : Same(v)
      /\ Recorded(w)' = Recorded(w) /\ workspaces' = workspaces
  BY <1>1 DEF Same, Recorded, vars
<1>3. Recorded(w) = "ready"
  BY <1>1 DEF SerialStream
<1>4. CASE runStream(w)
  <2>1. /\ target'[w] = workspaces'[w]
        /\ stream'[w] \in {"connecting", "unauthorised"}
        /\ streamStatus'[w] = "connecting"
        /\ \A v \in Workspace \ {w} :
             stream'[v] = stream[v] /\ target'[v] = target[v] /\ streamStatus'[v] = streamStatus[v]
    BY <1>2, <1>3, <1>4, RunStreamSerial
  <2>2. SerialStream(w)'
    BY <1>1, <1>2, <1>3, <2>1 DEF SerialStream
  <2> QED
    BY <1>1, <1>2, <2>1, <2>2, StreamSame
<1>5. CASE streamError(w)
  <2>1. /\ target'[w] = None
        /\ stream'[w] = "waiting"
        /\ streamStatus'[w] = "error"
        /\ \A v \in Workspace \ {w} :
             stream'[v] = stream[v] /\ target'[v] = target[v] /\ streamStatus'[v] = streamStatus[v]
    BY <1>5 DEF streamError, StreamTypes
  <2>2. SerialStream(w)'
    BY <1>1, <1>2, <1>3, <2>1 DEF SerialStream
  <2> QED
    BY <1>1, <1>2, <2>1, <2>2, StreamSame
<1>6. CASE /\ stream' = [stream EXCEPT ![w] = "connected"]
           /\ streamStatus' = [streamStatus EXCEPT ![w] = "connected"]
           /\ UNCHANGED target
  <2>1. SerialStream(w)'
    BY <1>1, <1>2, <1>3, <1>6 DEF SerialStream, StreamTypes
  <2>2. \A v \in Workspace \ {w} :
          stream'[v] = stream[v] /\ target'[v] = target[v] /\ streamStatus'[v] = streamStatus[v]
    BY <1>6 DEF StreamTypes
  <2> QED
    BY <1>1, <1>2, <2>1, <2>2, StreamSame
<1> QED
  BY <1>4, <1>5, <1>6 DEF StreamStep, retry, fetchSettles, streamEnds

-----------------------------------------------------------------------------
(* Theorems *)

\* Before the first call no folder has anything.
LEMMA EventsInitInv == EventsInit => Inv /\ StreamTypes /\ Serial /\ SerialStreams
<1> SUFFICES ASSUME EventsInit PROVE Inv /\ StreamTypes /\ Serial /\ SerialStreams
  OBVIOUS
<1>1. Inv
  BY InitInv DEF EventsInit
<1>2. StreamTypes
  BY DEF EventsInit, StreamTypes, StreamState, StreamStatus
<1>3. Serial
  BY DEF EventsInit, Init, Serial, SerialCall, Live, Pending
<1>4. SerialStreams
  BY DEF EventsInit, Init, SerialStreams, SerialStream, Recorded, ViewOf
<1> QED
  BY <1>1, <1>2, <1>3, <1>4

\* While the server is up, no step of serial clients separates what belongs
\* together.
LEMMA SerialInvNext ==
  ASSUME SerialInv, SerialClients, [EventsNext]_allVars
  PROVE  SerialInv'
<1>1. Inv'
  BY StepsOfLifecycle, NextInv DEF SerialInv
<1>2. StreamTypes'
  BY <1>1, StreamTypesNext DEF SerialInv
<1>3. CASE server' # "up"
  BY <1>1, <1>2, <1>3 DEF SerialInv, Serial, SerialStreams
<1>4. CASE server' = "up"
  <2>1. CASE LifecycleStep /\ bridgeReacts
    <3>1. server = "up" /\ Serial' /\ Effect
      BY <1>4, <2>1, LifecycleSerial DEF SerialInv
    <3>2. \A w \in Workspace : SerialStream(w)
      BY <3>1 DEF SerialInv, SerialStreams
    <3>3. \A w \in Workspace : SerialStream(w)'
      BY <1>1, <2>1, <3>1, <3>2, BridgeFollows DEF SerialInv
    <3> QED
      BY <1>1, <1>2, <3>1, <3>3 DEF SerialInv, SerialStreams
  <2>2. ASSUME NEW w \in Workspace, StreamStep(w) PROVE SerialInv'
    <3>1. UNCHANGED vars /\ server = "up"
      BY <1>4, <2>2 DEF StreamStep, vars
    <3>2. Serial'
      BY <3>1 DEF SerialInv, Serial, SerialCall, vars
    <3>3. \A v \in Workspace : SerialStream(v)'
      BY <1>1, <2>2, <3>1, StreamStepSerial DEF SerialInv, SerialStreams
    <3> QED
      BY <1>1, <1>2, <3>2, <3>3 DEF SerialInv, SerialStreams
  <2>3. ~shutdownAll
    BY <1>4 DEF shutdownAll, shutdown
  <2>4. CASE UNCHANGED allVars
    BY <1>1, <1>2, <2>4 DEF SerialInv, Serial, SerialCall, SerialStreams, SerialStream,
       Recorded, allVars, vars, streamVars
  <2> QED
    BY <2>1, <2>2, <2>3, <2>4 DEF EventsNext
<1> QED
  BY <1>3, <1>4

\* Type correctness of the composition, whatever clients do.
THEOREM EventsTypeCorrect == EventsSpec => []EventsTypeOK
<1>1. EventsInit => Inv /\ StreamTypes
  BY EventsInitInv
<1>2. Inv /\ StreamTypes /\ [EventsNext]_allVars => (Inv /\ StreamTypes)'
  <2> SUFFICES ASSUME Inv, StreamTypes, [EventsNext]_allVars PROVE Inv' /\ StreamTypes'
    OBVIOUS
  <2>1. Inv'
    BY StepsOfLifecycle, NextInv
  <2> QED
    BY <2>1, StreamTypesNext
<1>3. Inv /\ StreamTypes => EventsTypeOK
  BY DEF Inv, StreamTypes, EventsTypeOK
<1> QED
  BY <1>1, <1>2, <1>3, PTL DEF EventsSpec

\* However launches, deletes and exits of one folder cross, clients that have
\* an open workspace for started have a process of it.
THEOREM StartedIsAliveAlways == EventsSpec => []StartedIsAlive
<1>1. EventsInit => StreamTypes /\ StartedIsAlive
  BY EventsInitInv DEF EventsInit, StartedIsAlive
<1>2. Inv /\ StreamTypes /\ StartedIsAlive /\ [EventsNext]_allVars
        => (StreamTypes /\ StartedIsAlive)'
  <2> SUFFICES ASSUME Inv, StreamTypes, StartedIsAlive, [EventsNext]_allVars
               PROVE  StreamTypes' /\ StartedIsAlive'
    OBVIOUS
  <2>1. Inv'
    BY StepsOfLifecycle, NextInv
  <2> QED
    BY <2>1, StreamTypesNext, StartedStep
<1> QED
  BY <1>1, <1>2, InvAlways, PTL DEF EventsSpec

\* The invariant of serial clients holds in every reachable state.
LEMMA SerialInvAlways ==
  ASSUME SerialClients
  PROVE  EventsSpec => []SerialInv
<1>1. EventsInit => SerialInv
  BY EventsInitInv DEF SerialInv
<1>2. SerialInv /\ [EventsNext]_allVars => SerialInv'
  BY SerialInvNext
<1> QED
  BY <1>1, <1>2, PTL DEF EventsSpec

\* Clients that wait for answers never leave a live process without its record
\* and its entry.
THEOREM ChildrenAreOwned ==
  ASSUME SerialClients
  PROVE  EventsSpec => []EveryChildIsOwned
<1>1. SerialInv => EveryChildIsOwned
  BY DEF SerialInv, Serial, SerialCall, EveryChildIsOwned
<1> QED
  BY <1>1, SerialInvAlways, PTL

\* The stored password is that of the process as long as it lives.
THEOREM PasswordsFit ==
  ASSUME SerialClients
  PROVE  EventsSpec => []PasswordFitsChild
<1>1. SerialInv => PasswordFitsChild
  BY DEF SerialInv, Serial, SerialCall, PasswordFitsChild
<1> QED
  BY <1>1, SerialInvAlways, PTL

\* Clients see of every folder what the server's map says.
THEOREM ViewsMatch ==
  ASSUME SerialClients
  PROVE  EventsSpec => []ViewMatchesMap
<1>1. SerialInv => ViewMatchesMap
  BY DEF SerialInv, SerialStreams, SerialStream, ViewMatchesMap
<1> QED
  BY <1>1, SerialInvAlways, PTL

\* Exactly the ready workspaces have an event stream, each to its own process.
THEOREM StreamsFollow ==
  ASSUME SerialClients
  PROVE  EventsSpec => []StreamFollowsWorkspace
<1>1. SerialInv => StreamFollowsWorkspace
  BY DEF SerialInv, SerialStreams, SerialStream, StreamFollowsWorkspace
<1> QED
  BY <1>1, SerialInvAlways, PTL

\* Clients that were told of a connection have one.
THEOREM ConnectedIsTrueAlways ==
  ASSUME SerialClients
  PROVE  EventsSpec => []ConnectedIsTrue
<1>1. SerialInv => ConnectedIsTrue
  BY DEF SerialInv, SerialStreams, SerialStream, ConnectedIsTrue
<1> QED
  BY <1>1, SerialInvAlways, PTL

=============================================================================
