--------------------- MODULE BackgroundProcesses_proofs ---------------------
(***************************************************************************)
(* The safety of BackgroundProcesses for any numbers of processes,         *)
(* requests and cleanups.                                                  *)
(*                                                                         *)
(* An entry can call a process ended only if somebody who knew wrote it:   *)
(* the invariant follows that knowledge through the hands of the tasks,    *)
(* their stale copies of the index included.                               *)
(***************************************************************************)
EXTENDS BackgroundProcesses, TLAPS

Started(p) == child[p] # "none"
Ended(p) == child[p] \in {"kill", "exited", "closed"}

\* What records, in the file or in a task's hands, may say.
RecordsOK(r) ==
  \A p \in Process :
    /\ r[p] # "absent" => Started(p)
    /\ r[p] = "stopped" => Ended(p)

TaskOK(t) ==
  /\ task[t].at \notin {"idle", "rm", "done"} => task[t].on \in Process
  /\ RecordsOK(task[t].copy)
  /\ task[t].at \in Waiting => t \in Waiter /\ Started(task[t].on)
  /\ task[t].at = "kill" => Ended(task[t].on)
  /\ task[t].at = "read" => Started(task[t].on)
  /\ task[t].at = "read" /\ t[1] # "start" => Ended(task[t].on)
  /\ t[1] = "cleanup" => task[t].at \in {"idle", "rm", "done"} \cup Waiting

\* A process is started by its own task; what lives is in the map.
ProcessOK(p) ==
  /\ task[Starting(p)].at \in {"idle", "mkdir"} => ~Started(p)
  /\ task[Starting(p)].at = "mkdir" => task[Starting(p)].on = p
  /\ p \in running => Started(p)
  /\ child[p] \in {"up", "term"} => p \in running

CleanupOK(k) ==
  /\ \A p \in owed[k] : Started(p)
  /\ task[Cleaning(k)].at \in {"rm", "done"} => \A p \in owed[k] : Ended(p)

IInv ==
  /\ TypeOK
  /\ RecordsOK(index)
  /\ \A t \in Task : TaskOK(t)
  /\ \A p \in Process : ProcessOK(p)
  /\ \A k \in Cleanup : CleanupOK(k)

-----------------------------------------------------------------------------
(* Lemmas *)

\* The four kinds of tasks are different.
LEMMA Kinds ==
  /\ \A p \in Process : Starting(p) \in Task /\ Starting(p)[1] = "start" /\ Starting(p) \notin Waiter
  /\ \A p \in Process : Closing(p) \in Task /\ Closing(p)[1] = "close" /\ Closing(p) \notin Waiter
  /\ \A r \in Request : Asking(r) \in Task /\ Asking(r)[1] = "request" /\ Asking(r) \in Waiter
  /\ \A k \in Cleanup : Cleaning(k) \in Task /\ Cleaning(k)[1] = "cleanup" /\ Cleaning(k) \in Waiter
  /\ \A p, q \in Process : Starting(p) = Starting(q) => p = q
  /\ \A k, l \in Cleanup : Cleaning(k) = Cleaning(l) => k = l
  /\ \A t \in Waiter : t \in Task /\ t[1] \in {"request", "cleanup"}
  BY DEF Starting, Closing, Asking, Cleaning, Task, Waiter

\* Fresh and finished tasks have the type of tasks and hold no records.
LEMMA FreshOK ==
  ASSUME NEW place \in Place, NEW p \in Process \cup {None}, NEW goal \in {"keep", "remove"}
  PROVE  /\ Fresh(place, p, goal) \in TaskState
         /\ Fresh(place, p, goal).at = place
         /\ Fresh(place, p, goal).on = p
         /\ Fresh(place, p, goal).goal = goal
         /\ Fresh(place, p, goal).copy = NoRecords
  BY DEF Fresh, TaskState, Index, NoRecords

\* No step brings a process back.
Onward ==
  /\ \A p \in Process : Started(p) => Started(p)'
  /\ \A p \in Process : Ended(p) => Ended(p)'

\* A task that a step leaves alone stays right.
LEMMA TaskKept ==
  ASSUME TypeOK, Onward, NEW t \in Task, TaskOK(t), task'[t] = task[t]
  PROVE  TaskOK(t)'
<1>1. task[t].copy \in Index
  BY DEF TypeOK, TaskState
<1>2. RecordsOK(task[t].copy)'
  BY <1>1 DEF TaskOK, RecordsOK, Onward, Index
<1>3. task[t].at \notin {"idle", "rm", "done"} => task[t].on \in Process
  BY DEF TaskOK
<1> QED
  BY <1>2, <1>3 DEF TaskOK, Onward, Waiting

\* Records stay right.
LEMMA RecordsKept ==
  ASSUME Onward, NEW r, RecordsOK(r)
  PROVE  (\A p \in Process : /\ r[p] # "absent" => Started(p)'
                             /\ r[p] = "stopped" => Ended(p)')
  BY DEF RecordsOK, Onward

\* The empty file says nothing.
LEMMA EmptyOK == RecordsOK(NoRecords)
  BY DEF RecordsOK, NoRecords

\* The invariant holds at first.
LEMMA InitInv == Init => IInv
<1> SUFFICES ASSUME Init PROVE IInv
  OBVIOUS
<1>1. Fresh("idle", None, "keep") \in TaskState /\ Fresh("idle", None, "keep").at = "idle"
      /\ Fresh("idle", None, "keep").copy = NoRecords
  BY FreshOK DEF Place
<1>2. TypeOK
  BY <1>1 DEF Init, TypeOK, Index, NoRecords
<1>3. \A t \in Task : TaskOK(t)
  BY <1>1, EmptyOK DEF Init, TaskOK, Waiting
<1>4. \A p \in Process : ProcessOK(p)
  BY <1>1, Kinds DEF Init, ProcessOK, Started
<1>5. \A k \in Cleanup : CleanupOK(k)
  BY <1>1 DEF Init, CleanupOK
<1> QED
  BY <1>2, <1>3, <1>4, <1>5, EmptyOK DEF IInv, Init

\* A step of one task keeps the invariant if it keeps what is said of the
\* task, of the index and of the processes it starts or takes off the map.
LEMMA OneTask ==
  ASSUME IInv, TypeOK', Onward, RecordsOK(index)', NEW t \in Task,
         \A u \in Task : u # t => task'[u] = task[u],
         TaskOK(t)',
         \A p \in Process : t = Starting(p) => ProcessOK(p)',
         \A p \in Process : t # Starting(p) =>
           /\ Started(p)' => Started(p)
           /\ p \in running' => p \in running
           /\ child[p]' \in {"up", "term"} => p \in running',
         \A k \in Cleanup : t = Cleaning(k) => CleanupOK(k)',
         \A k \in Cleanup : t # Cleaning(k) => owed'[k] = owed[k]
  PROVE  IInv'
<1>1. \A u \in Task : TaskOK(u)'
  <2> SUFFICES ASSUME NEW u \in Task, u # t PROVE TaskOK(u)'
    OBVIOUS
  <2> QED
    BY TaskKept DEF IInv
<1>2. \A p \in Process : ProcessOK(p)'
  <2> SUFFICES ASSUME NEW p \in Process, t # Starting(p) PROVE ProcessOK(p)'
    OBVIOUS
  <2>1. task'[Starting(p)] = task[Starting(p)] /\ ProcessOK(p)
    BY Kinds DEF IInv
  <2> QED
    BY <2>1 DEF ProcessOK, Onward
<1>3. \A k \in Cleanup : CleanupOK(k)'
  <2> SUFFICES ASSUME NEW k \in Cleanup, t # Cleaning(k) PROVE CleanupOK(k)'
    OBVIOUS
  <2>1. task'[Cleaning(k)] = task[Cleaning(k)] /\ CleanupOK(k) /\ owed'[k] = owed[k]
    BY Kinds DEF IInv
  <2>2. owed[k] \subseteq Process
    BY DEF IInv, TypeOK
  <2> QED
    BY <2>1, <2>2 DEF CleanupOK, Onward
<1> QED
  BY <1>1, <1>2, <1>3 DEF IInv

-----------------------------------------------------------------------------
(* What the operators shared by the actions do *)

\* A task that is over has the type of tasks, and nothing to be wrong about.
LEMMA OverOK ==
  ASSUME TypeOK, NEW t \in Task
  PROVE  /\ Over \in TaskState
         /\ Over.at = "done"
         /\ task'[t] = Over => TaskOK(t)'
<1>1. Over \in TaskState /\ Over.at = "done" /\ Over.copy = NoRecords
  BY FreshOK DEF Over, Place
<1> QED
  BY <1>1 DEF TaskOK, RecordsOK, NoRecords, Waiting

\* A failure ends its own task.
LEMMA Fails ==
  ASSUME TypeOK, NEW t \in Task, fails(t)
  PROVE  /\ task' \in [Task -> TaskState]
         /\ \A u \in Task : u # t => task'[u] = task[u]
         /\ task'[t] = Over
         /\ server' \in {"up", "uncaught", "unhandled"}
  BY OverOK DEF fails, TypeOK

\* An update begins with its task as it was, or fails.
LEMMA Begins ==
  ASSUME TypeOK, NEW t \in Task, NEW s \in TaskState, beginsUpdate(t, s)
  PROVE  /\ task' \in [Task -> TaskState]
         /\ \A u \in Task : u # t => task'[u] = task[u]
         /\ \/ task'[t] = Over
            \/ /\ task'[t].at = "read"
               /\ task'[t].on = s.on
               /\ task'[t].copy = s.copy
         /\ server' \in {"up", "uncaught", "unhandled"}
<1>1. CASE known
  <2>1. task' = [task EXCEPT ![t] = [s EXCEPT !.at = "read"]] /\ server' = server
    BY <1>1 DEF beginsUpdate
  <2>2. [s EXCEPT !.at = "read"] \in TaskState
    BY DEF TaskState, Place
  <2>3. task'[t] = [s EXCEPT !.at = "read"]
    BY <2>1 DEF TypeOK
  <2>4. task'[t].at = "read" /\ task'[t].on = s.on /\ task'[t].copy = s.copy
    BY <2>3 DEF TaskState
  <2>5. task' \in [Task -> TaskState] /\ \A u \in Task : u # t => task'[u] = task[u]
    BY <2>1, <2>2 DEF TypeOK
  <2> QED
    BY <2>1, <2>4, <2>5 DEF TypeOK
<1>2. CASE ~known
  BY <1>2, Fails DEF beginsUpdate
<1> QED
  BY <1>1, <1>2 DEF TypeOK

\* A SIGTERM.
Terminated ==
  /\ child' \in [Process -> {"none", "up", "term", "kill", "exited", "closed"}]
  /\ completion' \in [Process -> {"keep", "remove"}]
  /\ \A p \in Process : child'[p] = child[p] \/ (child[p] = "up" /\ child'[p] = "term")

\* It ends nothing yet.
LEMMA TerminatedOnward ==
  ASSUME Terminated
  PROVE  /\ Onward
         /\ \A p \in Process : Started(p)' <=> Started(p)
         /\ \A p \in Process : Ended(p)' <=> Ended(p)
         /\ \A p \in Process : child[p]' \in {"up", "term"} <=> child[p] \in {"up", "term"}
  BY DEF Terminated, Onward, Started, Ended

\* terminates sends one.
LEMMA Terminates ==
  ASSUME TypeOK, NEW p \in Process, NEW how \in {"keep", "remove"}, terminates(p, how)
  PROVE  Terminated
  BY DEF TypeOK, terminates, Terminated

\* A wait that is over goes on to another process that is left, or ends the
\* task; a cleanup ends with nothing left.
LEMMA WaitOver ==
  ASSUME TypeOK, NEW t \in Waiter, NEW left \in SUBSET Process, NEW there \in BOOLEAN,
         \/ t[1] = "cleanup" /\ cleansNext(t, left, there)
         \/ t[1] = "request" /\ task' = [task EXCEPT ![t] = Over] /\ UNCHANGED <<completion, child>>
  PROVE  /\ Terminated
         /\ task' \in [Task -> TaskState]
         /\ \A u \in Task : u # t => task'[u] = task[u]
         /\ task'[t].copy = NoRecords
         /\ \/ task'[t].at = "wait" /\ task'[t].on \in left
            \/ task'[t].at \in {"rm", "done"} /\ (t[1] = "cleanup" => left = {})
<1> t \in Task
  BY Kinds
<1>1. UNCHANGED <<completion, child>> => Terminated
  BY DEF TypeOK, Terminated
<1>2. CASE task' = [task EXCEPT ![t] = Over] /\ UNCHANGED <<completion, child>> /\ (t[1] = "cleanup" => left = {})
  BY <1>1, <1>2, FreshOK DEF TypeOK, Over, Place
<1>3. CASE task' = [task EXCEPT ![t] = Fresh("rm", None, "keep")] /\ UNCHANGED <<completion, child>> /\ left = {}
  BY <1>1, <1>3, FreshOK DEF TypeOK, Place
<1>4. ASSUME NEW p \in left, terminates(p, "remove"), task' = [task EXCEPT ![t] = Fresh("wait", p, "remove")]
      PROVE  /\ Terminated
             /\ task' \in [Task -> TaskState]
             /\ \A u \in Task : u # t => task'[u] = task[u]
             /\ task'[t].copy = NoRecords
             /\ task'[t].at = "wait" /\ task'[t].on \in left
  BY <1>4, FreshOK, Terminates DEF TypeOK, Place, Waiting
<1>5. CASE t[1] = "cleanup" /\ cleansNext(t, left, there)
  BY <1>2, <1>3, <1>4, <1>5 DEF cleansNext
<1>6. CASE t[1] = "request" /\ task' = [task EXCEPT ![t] = Over] /\ UNCHANGED <<completion, child>>
  BY <1>2, <1>6
<1> QED
  BY <1>5, <1>6

-----------------------------------------------------------------------------
(* The actions *)

\* A start is accepted.
LEMMA StartInv ==
  ASSUME IInv, NEW p \in Process, start(p)
  PROVE  IInv'
<1> DEFINE t == Starting(p)
<1>1. t \in Task /\ t[1] = "start" /\ (\A k \in Cleanup : t # Cleaning(k))
  BY Kinds
<1>2. TypeOK' /\ (\A u \in Task : u # t => task'[u] = task[u]) /\ task'[t] = Fresh("mkdir", p, "keep")
  BY <1>1, FreshOK DEF IInv, TypeOK, start, Place
<1>3. Onward /\ ~Started(p)'
  BY <1>1 DEF IInv, ProcessOK, start, Onward, Started, Ended
<1>4. task'[t].at = "mkdir" /\ task'[t].on = p /\ task'[t].copy = NoRecords
  BY <1>2, FreshOK DEF Place
<1>5. TaskOK(t)'
  BY <1>1, <1>4 DEF TaskOK, RecordsOK, NoRecords, Waiting
<1>6. ProcessOK(p)'
  BY <1>3, <1>4 DEF IInv, ProcessOK, start, Started
<1>7. RecordsOK(index)'
  BY DEF IInv, RecordsOK, start, Started, Ended
<1>8. \A q \in Process : /\ Started(q)' => Started(q)
                         /\ q \in running' => q \in running
                         /\ child[q]' \in {"up", "term"} => q \in running'
  BY DEF IInv, ProcessOK, start, Started
<1>9. \A k \in Cleanup : owed'[k] = owed[k]
  BY DEF start
<1>10. \A q \in Process : t = Starting(q) => ProcessOK(q)'
  BY <1>6, Kinds
<1> QED
  BY <1>1, <1>2, <1>3, <1>5, <1>7, <1>8, <1>9, <1>10, OneTask

\* The process is spawned and its entry is about to be written.
LEMMA SpawnInv ==
  ASSUME IInv, NEW p \in Process, spawn(p)
  PROVE  IInv'
<1> DEFINE t == Starting(p)
<1>1. t \in Task /\ t[1] = "start" /\ (\A k \in Cleanup : t # Cleaning(k))
  BY Kinds
<1>2. TypeOK /\ task[t] \in TaskState /\ TaskOK(t) /\ task[t].at = "mkdir" /\ task[t].on = p /\ ~Started(p)
  BY <1>1 DEF IInv, TypeOK, ProcessOK, spawn
<1>3. beginsUpdate(t, task[t])
  BY DEF spawn
<1>4. /\ task' \in [Task -> TaskState]
      /\ \A u \in Task : u # t => task'[u] = task[u]
      /\ \/ task'[t] = Over
         \/ task'[t].at = "read" /\ task'[t].on = p /\ task'[t].copy = task[t].copy
      /\ server' \in {"up", "uncaught", "unhandled"}
  BY <1>1, <1>2, <1>3, Begins
<1>5. TypeOK'
  BY <1>2, <1>4 DEF TypeOK, spawn
<1>6. Onward /\ Started(p)' /\ p \in running' /\ child'[p] = "up"
  BY <1>2 DEF Onward, Started, Ended, spawn, TypeOK
<1>7. RecordsOK(index)'
  BY <1>6, RecordsKept DEF IInv, RecordsOK, spawn
<1>8. TaskOK(t)'
  <2>1. \A q \in Process : /\ task[t].copy[q] # "absent" => Started(q)'
                           /\ task[t].copy[q] = "stopped" => Ended(q)'
    BY <1>2, <1>6 DEF TaskOK, RecordsOK, Onward
  <2>2. CASE task'[t] = Over
    BY <1>1, <1>2, <2>2, OverOK
  <2>3. CASE task'[t].at = "read" /\ task'[t].on = p /\ task'[t].copy = task[t].copy
    BY <1>1, <1>6, <2>1, <2>3 DEF TaskOK, RecordsOK, Waiting
  <2> QED
    BY <1>4, <2>2, <2>3
<1>9. task'[t].at \notin {"idle", "mkdir"}
  BY <1>1, <1>2, <1>4, OverOK
<1>10. \A q \in Process : t = Starting(q) => ProcessOK(q)'
  <2> SUFFICES ProcessOK(p)'
    BY Kinds
  <2> QED
    BY <1>6, <1>9 DEF ProcessOK
<1>11. \A q \in Process : t # Starting(q) =>
         /\ Started(q)' => Started(q)
         /\ q \in running' => q \in running
         /\ child[q]' \in {"up", "term"} => q \in running'
  BY DEF IInv, TypeOK, ProcessOK, Started, spawn
<1>12. \A k \in Cleanup : owed'[k] = owed[k]
  BY DEF spawn
<1> QED
  BY <1>1, <1>4, <1>5, <1>6, <1>7, <1>8, <1>10, <1>11, <1>12, OneTask

\* The child is gone.
LEMMA ExitsInv ==
  ASSUME IInv, NEW p \in Process, exits(p)
  PROVE  IInv'
<1>1. TypeOK' /\ UNCHANGED <<task, running, index, owed>>
  BY DEF IInv, TypeOK, exits
<1>2. Onward
  BY DEF IInv, TypeOK, exits, Onward, Started, Ended
<1>3. RecordsOK(index)'
  BY <1>1, <1>2, RecordsKept DEF IInv, RecordsOK
<1>4. \A t \in Task : TaskOK(t)'
  BY <1>1, <1>2, TaskKept DEF IInv
<1>5. \A q \in Process : /\ Started(q)' <=> Started(q)
                         /\ child[q]' \in {"up", "term"} => child[q] \in {"up", "term"}
  BY DEF IInv, TypeOK, exits, Started
<1>6. \A q \in Process : ProcessOK(q)'
  BY <1>1, <1>5 DEF IInv, ProcessOK
<1>7. \A k \in Cleanup : CleanupOK(k)'
  BY <1>1, <1>2 DEF IInv, TypeOK, CleanupOK, Onward
<1> QED
  BY <1>1, <1>3, <1>4, <1>6, <1>7 DEF IInv

\* The close handler begins, or fails.
LEMMA ClosesInv ==
  ASSUME IInv, NEW p \in Process, closes(p)
  PROVE  IInv'
<1> DEFINE t == Closing(p)
           s == Fresh("read", p, completion[p])
<1>1. t \in Task /\ t[1] = "close" /\ (\A k \in Cleanup : t # Cleaning(k)) /\ (\A q \in Process : t # Starting(q))
  BY Kinds
<1>2. TypeOK /\ completion[p] \in {"keep", "remove"} /\ child[p] = "exited"
  BY DEF IInv, TypeOK, closes
<1>3. s \in TaskState /\ s.on = p /\ s.copy = NoRecords
  BY <1>2, FreshOK DEF Place
<1>4. beginsUpdate(t, s)
  BY DEF closes
<1> HIDE DEF s
<1>5. /\ task' \in [Task -> TaskState]
      /\ \A u \in Task : u # t => task'[u] = task[u]
      /\ \/ task'[t] = Over
         \/ task'[t].at = "read" /\ task'[t].on = p /\ task'[t].copy = NoRecords
      /\ server' \in {"up", "uncaught", "unhandled"}
  BY <1>1, <1>2, <1>3, <1>4, Begins
<1>6. TypeOK'
  BY <1>2, <1>5 DEF TypeOK, closes
<1>7. Onward /\ Ended(p)' /\ Started(p)'
  BY <1>2 DEF Onward, Started, Ended, closes, TypeOK
<1>8. RecordsOK(index)'
  BY <1>7, RecordsKept DEF IInv, RecordsOK, closes
<1>9. TaskOK(t)'
  <2>1. CASE task'[t] = Over
    BY <1>1, <1>2, <2>1, OverOK
  <2>2. CASE task'[t].at = "read" /\ task'[t].on = p /\ task'[t].copy = NoRecords
    BY <1>1, <1>7, <2>2 DEF TaskOK, RecordsOK, NoRecords, Waiting
  <2> QED
    BY <1>5, <2>1, <2>2
<1>10. \A q \in Process : /\ Started(q)' => Started(q)
                          /\ q \in running' => q \in running
                          /\ child[q]' \in {"up", "term"} => q \in running'
  BY <1>2 DEF IInv, TypeOK, ProcessOK, Started, closes
<1>11. \A k \in Cleanup : owed'[k] = owed[k]
  BY DEF closes
<1> QED
  BY <1>1, <1>5, <1>6, <1>7, <1>8, <1>9, <1>10, <1>11, OneTask

\* A request looks for its process.
LEMMA RequestInv ==
  ASSUME IInv, NEW r \in Request, NEW p \in Process, NEW how \in {"keep", "remove"}, request(r, p, how)
  PROVE  IInv'
<1> DEFINE t == Asking(r)
<1>1. t \in Task /\ t[1] = "request" /\ (\A k \in Cleanup : t # Cleaning(k)) /\ (\A q \in Process : t # Starting(q))
  BY Kinds
<1>2. /\ Fresh("find", p, how) \in TaskState
      /\ Fresh("find", p, how).at = "find"
      /\ Fresh("find", p, how).on = p
      /\ Fresh("find", p, how).copy = NoRecords
  BY FreshOK DEF Place
<1>3. TypeOK' /\ (\A u \in Task : u # t => task'[u] = task[u]) /\ task'[t] = Fresh("find", p, how)
  BY <1>1, <1>2 DEF IInv, TypeOK, request
<1>4. Onward
  BY DEF request, Onward, Started, Ended
<1>5. RecordsOK(index)'
  BY DEF IInv, RecordsOK, request, Started, Ended
<1>6. TaskOK(t)'
  BY <1>1, <1>2, <1>3 DEF TaskOK, RecordsOK, NoRecords, Waiting
<1>7. \A q \in Process : /\ Started(q)' => Started(q)
                         /\ q \in running' => q \in running
                         /\ child[q]' \in {"up", "term"} => q \in running'
  BY DEF IInv, ProcessOK, Started, request
<1>8. \A k \in Cleanup : owed'[k] = owed[k]
  BY DEF request
<1> QED
  BY <1>1, <1>3, <1>4, <1>5, <1>6, <1>7, <1>8, OneTask

\* The request has found what there is: a process of the map is started, one
\* that is not in the map although it has an entry has ended.
LEMMA FoundInv ==
  ASSUME IInv, NEW r \in Request, found(r)
  PROVE  IInv'
<1> DEFINE t == Asking(r)
           p == task[t].on
<1>1. t \in Task /\ t[1] = "request" /\ t \in Waiter /\ (\A k \in Cleanup : t # Cleaning(k)) /\ (\A q \in Process : t # Starting(q))
  BY Kinds
<1>2. TypeOK /\ task[t] \in TaskState /\ TaskOK(t) /\ task[t].at = "find" /\ p \in Process /\ task[t].goal \in {"keep", "remove"}
  BY <1>1 DEF IInv, TypeOK, TaskState, TaskOK, found
<1>3. UNCHANGED <<running, index, dirs, known, owed>>
  BY DEF found
<1>4. Terminated
  <2>1. CASE index[p] # "absent" /\ p \in running
    BY <1>2, <2>1, Terminates DEF found
  <2>2. CASE ~(index[p] # "absent" /\ p \in running)
    BY <1>2, <2>2 DEF found, TypeOK, Terminated
  <2> QED
    BY <2>1, <2>2
<1>5. /\ task' \in [Task -> TaskState]
      /\ \A u \in Task : u # t => task'[u] = task[u]
      /\ \/ task'[t] = Over
         \/ /\ task'[t].at = "wait" /\ p \in running
            /\ task'[t].on = p /\ task'[t].copy = task[t].copy
         \/ /\ task'[t].at = "read" /\ index[p] # "absent" /\ p \notin running
            /\ task'[t].on = p /\ task'[t].copy = task[t].copy
      /\ server' \in {"up", "uncaught", "unhandled"}
  <2>1. CASE index[p] # "absent" /\ p \in running
    <3>1. task' = [task EXCEPT ![t] = [task[t] EXCEPT !.at = "wait"]] /\ server' = server
      BY <2>1 DEF found
    <3>2. [task[t] EXCEPT !.at = "wait"] \in TaskState
      BY <1>2 DEF TaskState, Place, Waiting
    <3>3. task'[t] = [task[t] EXCEPT !.at = "wait"]
      BY <1>1, <1>2, <3>1 DEF TypeOK
    <3>4. task'[t].at = "wait" /\ task'[t].on = p /\ task'[t].copy = task[t].copy
      BY <1>2, <3>3 DEF TaskState
    <3>5. task' \in [Task -> TaskState] /\ \A u \in Task : u # t => task'[u] = task[u]
      BY <1>1, <1>2, <3>1, <3>2 DEF TypeOK
    <3> QED
      BY <1>2, <2>1, <3>1, <3>4, <3>5 DEF TypeOK
  <2>2. CASE index[p] = "absent" \/ (index[p] = "stopped" /\ task[t].goal = "keep" /\ p \notin running)
    BY <1>1, <1>2, <2>2, OverOK DEF found, TypeOK
  <2>3. CASE index[p] # "absent" /\ p \notin running /\ ~(index[p] = "stopped" /\ task[t].goal = "keep")
    <3>1. beginsUpdate(t, task[t])
      BY <2>3 DEF found
    <3> QED
      BY <1>1, <1>2, <2>3, <3>1, Begins
  <2> QED
    BY <2>1, <2>2, <2>3
<1>6. TypeOK'
  BY <1>2, <1>3, <1>4, <1>5 DEF TypeOK, Terminated
<1>7. RecordsOK(index)'
  BY <1>3, <1>4, TerminatedOnward, RecordsKept DEF IInv, RecordsOK
<1>8. index[p] # "absent" => Started(p)
  BY <1>2 DEF IInv, RecordsOK
<1>9. index[p] # "absent" /\ p \notin running => Ended(p)
  BY <1>2, <1>8 DEF IInv, ProcessOK, TypeOK, Started, Ended
<1>10. \A q \in Process : /\ task[t].copy[q] # "absent" => Started(q)'
                          /\ task[t].copy[q] = "stopped" => Ended(q)'
  BY <1>2, <1>4, TerminatedOnward DEF TaskOK, RecordsOK, Onward
<1>11. TaskOK(t)'
  <2>1. CASE task'[t] = Over
    BY <1>1, <1>2, <2>1, OverOK
  <2>2. CASE /\ task'[t].at = "wait" /\ p \in running
             /\ task'[t].on = p /\ task'[t].copy = task[t].copy
    <3>1. Started(p)'
      BY <1>2, <1>4, <2>2, TerminatedOnward DEF IInv, ProcessOK
    <3> QED
      BY <1>1, <1>2, <1>10, <2>2, <3>1 DEF TaskOK, RecordsOK, Waiting
  <2>3. CASE /\ task'[t].at = "read" /\ index[p] # "absent" /\ p \notin running
             /\ task'[t].on = p /\ task'[t].copy = task[t].copy
    <3>1. Started(p)' /\ Ended(p)'
      BY <1>2, <1>4, <1>8, <1>9, <2>3, TerminatedOnward
    <3> QED
      BY <1>1, <1>2, <1>10, <2>3, <3>1 DEF TaskOK, RecordsOK, Waiting
  <2> QED
    BY <1>5, <2>1, <2>2, <2>3
<1>12. \A q \in Process : /\ Started(q)' => Started(q)
                          /\ q \in running' => q \in running
                          /\ child[q]' \in {"up", "term"} => q \in running'
  BY <1>3, <1>4, TerminatedOnward DEF IInv, ProcessOK
<1> QED
  BY <1>1, <1>3, <1>4, <1>5, <1>6, <1>7, <1>11, <1>12, OneTask, TerminatedOnward

\* What a task is about to write of its process is true.
LEMMA EntryOK ==
  ASSUME TypeOK, NEW t \in Task, TaskOK(t), task[t].at = "read"
  PROVE  /\ entry(t) \in {"absent", "running", "stopped"}
         /\ Started(task[t].on)
         /\ entry(t) = "stopped" => Ended(task[t].on)
  BY DEF TaskOK, entry, Ended

\* The file is read and emptied; the copy is as true as the file was.
LEMMA ReadInv ==
  ASSUME IInv, NEW t \in Task, readIndex(t)
  PROVE  IInv'
<1> DEFINE p == task[t].on
           c == [index EXCEPT ![p] = entry(t)]
<1>1. TypeOK /\ task[t] \in TaskState /\ TaskOK(t) /\ task[t].at = "read" /\ p \in Process
  BY DEF IInv, TypeOK, TaskOK, readIndex
<1>2. UNCHANGED <<child, running, completion, dirs, known, owed>>
  BY DEF readIndex
<1>3. Onward
  BY <1>2 DEF Onward, Started, Ended
<1>4. c \in Index /\ RecordsOK(c)
  BY <1>1, EntryOK DEF IInv, TypeOK, RecordsOK, Index
<1>5. (\A k \in Cleanup : t # Cleaning(k))
  BY <1>1, Kinds DEF TaskOK, Waiting
<1>6. \A q \in Process : t = Starting(q) => ~(task[t].at \in {"idle", "mkdir"}) /\ ProcessOK(q)
  BY <1>1 DEF IInv
<1>7. /\ task' \in [Task -> TaskState]
      /\ \A u \in Task : u # t => task'[u] = task[u]
      /\ \/ task'[t] = Over
         \/ task'[t] = task[t]
         \/ /\ task'[t].at = "write"
            /\ task'[t].on = p /\ task'[t].copy = c
      /\ server' \in {"up", "uncaught", "unhandled"}
      /\ index' \in {index, NoRecords}
  <2>1. CASE t[1] = "start" /\ p \notin dirs
    BY <1>1, <2>1 DEF readIndex, TypeOK
  <2>2. CASE ~(t[1] = "start" /\ p \notin dirs) /\ ~known
    <3>1. fails(t) /\ index' = index
      BY <2>2 DEF readIndex
    <3> QED
      BY <1>1, <3>1, Fails
  <2>3. CASE ~(t[1] = "start" /\ p \notin dirs) /\ known
    <3>1. /\ task' = [task EXCEPT ![t] = [task[t] EXCEPT !.at = "write", !.copy = c]]
          /\ index' = NoRecords /\ server' = server
      BY <1>1, <2>3 DEF readIndex, TypeOK
    <3> HIDE DEF c
    <3>2. [task[t] EXCEPT !.at = "write", !.copy = c] \in TaskState
      BY <1>1, <1>4 DEF TaskState, Place
    <3>3. task'[t] = [task[t] EXCEPT !.at = "write", !.copy = c]
      BY <1>1, <3>1 DEF TypeOK
    <3>4. task'[t].at = "write" /\ task'[t].on = p /\ task'[t].copy = c
      BY <1>1, <3>3 DEF TaskState
    <3>5. task' \in [Task -> TaskState] /\ \A u \in Task : u # t => task'[u] = task[u]
      BY <1>1, <3>1, <3>2 DEF TypeOK
    <3> QED
      BY <1>1, <3>1, <3>4, <3>5 DEF TypeOK
  <2> QED
    BY <2>1, <2>2, <2>3
<1> HIDE DEF c
<1>8. TypeOK'
  <2>1. index' \in Index
    BY <1>1, <1>7 DEF TypeOK, Index, NoRecords
  <2> QED
    BY <1>1, <1>2, <1>7, <2>1 DEF TypeOK
<1>9. RecordsOK(index)'
  BY <1>3, <1>7 DEF IInv, RecordsOK, NoRecords, Onward
<1>10. TaskOK(t)'
  <2>1. CASE task'[t] = Over
    BY <1>1, <2>1, OverOK
  <2>2. CASE task'[t] = task[t]
    BY <1>1, <1>3, <2>2, TaskKept
  <2>3. CASE /\ task'[t].at = "write"
             /\ task'[t].on = p /\ task'[t].copy = c
    <3>1. \A q \in Process : /\ c[q] # "absent" => Started(q)'
                             /\ c[q] = "stopped" => Ended(q)'
      BY <1>3, <1>4 DEF RecordsOK, Onward
    <3>2. t[1] # "cleanup"
      BY <1>1 DEF TaskOK, Waiting
    <3> QED
      BY <1>1, <2>3, <3>1, <3>2 DEF TaskOK, RecordsOK, Waiting
  <2> QED
    BY <1>7, <2>1, <2>2, <2>3
<1>11. task'[t].at \notin {"idle", "mkdir"}
  BY <1>1, <1>7, OverOK
<1>12. \A q \in Process : t = Starting(q) => ProcessOK(q)'
  BY <1>2, <1>6, <1>11 DEF ProcessOK, Started
<1>13. \A q \in Process : /\ Started(q)' => Started(q)
                          /\ q \in running' => q \in running
                          /\ child[q]' \in {"up", "term"} => q \in running'
  BY <1>2 DEF IInv, ProcessOK, Started
<1> QED
  BY <1>2, <1>3, <1>5, <1>7, <1>8, <1>9, <1>10, <1>12, <1>13, OneTask

\* The copy lands in the file, or does not.
LEMMA WriteInv ==
  ASSUME IInv, NEW t \in Task, writeIndex(t)
  PROVE  IInv'
<1>1. TypeOK /\ task[t] \in TaskState /\ TaskOK(t) /\ task[t].at \in {"write", "lost"}
  BY DEF IInv, TypeOK, writeIndex
<1>2. UNCHANGED <<child, running, completion, known, owed>> /\ dirs' \subseteq Process
  BY <1>1 DEF writeIndex, TypeOK
<1>3. Onward
  BY <1>2 DEF Onward, Started, Ended
<1>4. index' \in {index, task[t].copy, NoRecords}
  BY DEF writeIndex
<1>5. \A k \in Cleanup : t # Cleaning(k)
  BY <1>1, Kinds DEF TaskOK, Waiting
<1>6. /\ task' \in [Task -> TaskState]
      /\ \A u \in Task : u # t => task'[u] = task[u]
      /\ task'[t] = Over
      /\ server' \in {"up", "uncaught", "unhandled"}
  <2>1. CASE fails(t)
    BY <1>1, <2>1, Fails
  <2>2. CASE task' = [task EXCEPT ![t] = Over] /\ server' = server
    BY <1>1, <2>2, OverOK DEF TypeOK
  <2> QED
    BY <2>1, <2>2 DEF writeIndex
<1>7. TypeOK'
  <2>1. index' \in Index
    BY <1>1, <1>4 DEF TypeOK, TaskState, Index, NoRecords
  <2> QED
    BY <1>1, <1>2, <1>6, <2>1 DEF TypeOK
<1>8. RecordsOK(index)'
  <2>1. RecordsOK(index) /\ RecordsOK(task[t].copy)
    BY <1>1 DEF IInv, TaskOK
  <2> QED
    BY <1>3, <1>4, <2>1 DEF RecordsOK, NoRecords, Onward
<1>9. TaskOK(t)'
  BY <1>1, <1>6, OverOK
<1>10. \A q \in Process : t = Starting(q) => ProcessOK(q)'
  <2>1. task'[t].at \notin {"idle", "mkdir"}
    BY <1>1, <1>6, OverOK
  <2> QED
    BY <1>2, <2>1 DEF IInv, ProcessOK, Started
<1>11. \A q \in Process : /\ Started(q)' => Started(q)
                          /\ q \in running' => q \in running
                          /\ child[q]' \in {"up", "term"} => q \in running'
  BY <1>2 DEF IInv, ProcessOK, Started
<1> QED
  BY <1>2, <1>3, <1>5, <1>6, <1>7, <1>8, <1>9, <1>10, <1>11, OneTask

\* A wait ends, and with it its process is off the map or was before: what
\* is alive is still in the map.
LEMMA WaitInv ==
  ASSUME IInv, NEW t \in Waiter, NEW left \in SUBSET Process,
         waitOver(t, left), running' = left, left \subseteq running,
         \A p \in Process : child[p] \in {"up", "term"} => p \in left,
         UNCHANGED <<index, dirs, known, server, owed>>
  PROVE  IInv'
<1>1. TypeOK /\ known \in BOOLEAN
  BY DEF IInv, TypeOK
<1>2. t \in Task /\ (\A q \in Process : t # Starting(q)) /\ t[1] # "start" /\ t[1] \in {"request", "cleanup"}
  BY Kinds
<1>3. /\ Terminated
      /\ task' \in [Task -> TaskState]
      /\ \A u \in Task : u # t => task'[u] = task[u]
      /\ task'[t].copy = NoRecords
      /\ \/ task'[t].at = "wait" /\ task'[t].on \in left
         \/ task'[t].at \in {"rm", "done"} /\ (t[1] = "cleanup" => left = {})
  BY <1>1, WaitOver DEF waitOver
<1>4. TypeOK'
  BY <1>1, <1>3 DEF TypeOK, Terminated
<1>5. RecordsOK(index)'
  BY <1>3, TerminatedOnward DEF IInv, RecordsOK, Onward
<1>6. \A p \in left : Started(p)'
  BY <1>3, TerminatedOnward DEF IInv, ProcessOK
<1>7. TaskOK(t)'
  BY <1>2, <1>3, <1>6 DEF TaskOK, RecordsOK, NoRecords, Waiting
<1>8. \A p \in Process : /\ Started(p)' => Started(p)
                         /\ p \in running' => p \in running
                         /\ child[p]' \in {"up", "term"} => p \in running'
  BY <1>3, TerminatedOnward
<1>9. \A k \in Cleanup : t = Cleaning(k) => CleanupOK(k)'
  <2> SUFFICES ASSUME NEW k \in Cleanup, t = Cleaning(k) PROVE CleanupOK(k)'
    OBVIOUS
  <2>1. owed[k] \subseteq Process /\ \A p \in owed[k] : Started(p)
    BY <1>1 DEF IInv, CleanupOK, TypeOK
  <2>2. \A p \in owed[k] : Started(p)'
    BY <2>1, <1>3, TerminatedOnward
  <2>3. left = {} => \A p \in owed[k] : Ended(p)'
    BY <1>1, <1>3, <2>1, TerminatedOnward DEF TypeOK, Started, Ended
  <2>4. task'[t].at \in {"rm", "done"} => left = {}
    BY <1>3, Kinds
  <2> QED
    BY <2>2, <2>3, <2>4 DEF CleanupOK
<1> QED
  BY <1>2, <1>3, <1>4, <1>5, <1>7, <1>8, <1>9, OneTask, TerminatedOnward

\* The close handler is through.
LEMMA ExitSeenInv ==
  ASSUME IInv, NEW t \in Waiter, exitSeen(t)
  PROVE  IInv'
<1>1. running \in SUBSET Process /\ \A p \in Process : child[p] \in {"up", "term"} => p \in running
  BY DEF IInv, TypeOK, ProcessOK
<1> QED
  BY <1>1, WaitInv DEF exitSeen

\* The child is given up: it was killed.
LEMMA GiveUpInv ==
  ASSUME IInv, NEW t \in Waiter, giveUp(t)
  PROVE  IInv'
<1>1. Ended(task[t].on)
  BY Kinds DEF IInv, TaskOK, giveUp
<1>2. /\ running \ {task[t].on} \in SUBSET Process
      /\ \A p \in Process : child[p] \in {"up", "term"} => p \in running \ {task[t].on}
  BY <1>1 DEF IInv, TypeOK, ProcessOK, Ended
<1> QED
  BY <1>2, WaitInv DEF giveUp

\* The child is killed.
LEMMA EscalateInv ==
  ASSUME IInv, NEW t \in Waiter, escalate(t)
  PROVE  IInv'
<1> DEFINE p == task[t].on
<1>1. t \in Task /\ (\A q \in Process : t # Starting(q)) /\ t[1] # "start"
  BY Kinds
<1>2. TypeOK /\ task[t] \in TaskState /\ TaskOK(t) /\ task[t].at = "wait" /\ p \in Process /\ Started(p)
  BY <1>1 DEF IInv, TypeOK, TaskOK, escalate, Waiting
<1>3. task'[t] = [task[t] EXCEPT !.at = "kill"]
  BY <1>1, <1>2 DEF escalate, TypeOK
<1>4. /\ task'[t] \in TaskState
      /\ task'[t].at = "kill" /\ task'[t].on = p /\ task'[t].copy = task[t].copy
  BY <1>2, <1>3 DEF TaskState, Place, Waiting
<1>5. task' \in [Task -> TaskState] /\ \A u \in Task : u # t => task'[u] = task[u]
  BY <1>1, <1>2, <1>4 DEF escalate, TypeOK
<1>6. UNCHANGED <<running, completion, index, dirs, known, server, owed>>
  BY DEF escalate
<1>7. child' = [child EXCEPT ![p] = IF child[p] \in {"up", "term"} THEN "kill" ELSE child[p]]
  BY DEF escalate, forced
<1>8. TypeOK'
  BY <1>2, <1>5, <1>6, <1>7 DEF TypeOK
<1>9. /\ Onward /\ Ended(p)' /\ Started(p)'
      /\ \A q \in Process : /\ Started(q)' => Started(q)
                            /\ child[q]' \in {"up", "term"} => child[q] \in {"up", "term"}
  BY <1>2, <1>4, <1>7 DEF Onward, Started, Ended, TypeOK
<1>10. RecordsOK(index)'
  BY <1>6, <1>9 DEF IInv, RecordsOK, Onward
<1>11. TaskOK(t)'
  <2>1. \A q \in Process : /\ task[t].copy[q] # "absent" => Started(q)'
                           /\ task[t].copy[q] = "stopped" => Ended(q)'
    BY <1>2, <1>9 DEF TaskOK, RecordsOK, Onward
  <2> QED
    BY <1>2, <1>4, <1>9, <2>1 DEF TaskOK, RecordsOK, Waiting
<1>12. \A q \in Process : /\ Started(q)' => Started(q)
                          /\ q \in running' => q \in running
                          /\ child[q]' \in {"up", "term"} => q \in running'
  BY <1>6, <1>9 DEF IInv, ProcessOK
<1>13. \A k \in Cleanup : t = Cleaning(k) => CleanupOK(k)'
  BY <1>4, <1>6, <1>9 DEF IInv, CleanupOK, TypeOK, Onward
<1> QED
  BY <1>1, <1>5, <1>6, <1>8, <1>9, <1>10, <1>11, <1>12, <1>13, OneTask

\* A cleanup begins; it owes what is in the map.
LEMMA EndsInv ==
  ASSUME IInv, NEW k \in Cleanup, NEW there \in BOOLEAN, workspaceEnds(k, there)
  PROVE  IInv'
<1> DEFINE t == Cleaning(k)
<1>1. /\ t \in Task /\ t \in Waiter /\ t[1] = "cleanup"
      /\ \A q \in Process : t # Starting(q)
      /\ \A l \in Cleanup : t = Cleaning(l) => k = l
  BY Kinds
<1>2. TypeOK /\ running \in SUBSET Process /\ known' \in BOOLEAN
  BY DEF IInv, TypeOK, workspaceEnds
<1>3. UNCHANGED <<running, index, dirs, server>> /\ owed' = [owed EXCEPT ![k] = running]
  BY DEF workspaceEnds
<1>4. /\ Terminated
      /\ task' \in [Task -> TaskState]
      /\ \A u \in Task : u # t => task'[u] = task[u]
      /\ task'[t].copy = NoRecords
      /\ \/ task'[t].at = "wait" /\ task'[t].on \in running
         \/ task'[t].at \in {"rm", "done"} /\ running = {}
  BY <1>1, <1>2, WaitOver DEF workspaceEnds
<1>5. TypeOK'
  BY <1>2, <1>3, <1>4 DEF TypeOK, Terminated
<1>6. RecordsOK(index)'
  BY <1>3, <1>4, TerminatedOnward DEF IInv, RecordsOK, Onward
<1>7. \A p \in running : Started(p)'
  BY <1>2, <1>4, TerminatedOnward DEF IInv, ProcessOK
<1>8. TaskOK(t)'
  BY <1>1, <1>2, <1>4, <1>7 DEF TaskOK, RecordsOK, NoRecords, Waiting
<1>9. \A p \in Process : /\ Started(p)' => Started(p)
                         /\ p \in running' => p \in running
                         /\ child[p]' \in {"up", "term"} => p \in running'
  BY <1>3, <1>4, TerminatedOnward DEF IInv, ProcessOK
<1>10. CleanupOK(k)'
  BY <1>2, <1>3, <1>4, <1>7 DEF CleanupOK, TypeOK
<1>11. \A l \in Cleanup : t # Cleaning(l) => owed'[l] = owed[l]
  BY <1>2, <1>3 DEF TypeOK
<1> QED
  BY <1>1, <1>4, <1>5, <1>6, <1>8, <1>9, <1>10, <1>11, OneTask, TerminatedOnward

\* The directory of the workspace is removed under the writers.
LEMMA RemovedInv ==
  ASSUME IInv, NEW k \in Cleanup, dirRemoved(k)
  PROVE  IInv'
<1> DEFINE c == Cleaning(k)
           lost(t) == [task[t] EXCEPT !.at = "lost"]
<1>1. TypeOK /\ c \in Task /\ task[c].at = "rm"
  BY Kinds DEF IInv, dirRemoved
<1>2. UNCHANGED <<child, running, completion, known, server, owed>> /\ index' = NoRecords /\ dirs' = {}
  BY DEF dirRemoved
<1>3. Onward
  BY <1>2 DEF Onward, Started, Ended
<1>4. \A t \in Task : task'[t] = IF t = c THEN Over ELSE IF task[t].at = "write" THEN lost(t) ELSE task[t]
  BY DEF dirRemoved
<1>5. \A t \in Task : lost(t) \in TaskState /\ lost(t).at = "lost" /\ lost(t).on = task[t].on /\ lost(t).copy = task[t].copy
  BY <1>1 DEF TypeOK, TaskState, Place
<1> HIDE DEF lost
<1>6. task' \in [Task -> TaskState]
  <2>1. \A t \in Task : (IF t = c THEN Over ELSE IF task[t].at = "write" THEN lost(t) ELSE task[t]) \in TaskState
    BY <1>1, <1>5, OverOK DEF TypeOK
  <2> QED
    BY <2>1 DEF dirRemoved, lost
<1>7. TypeOK'
  BY <1>1, <1>2, <1>6 DEF TypeOK, Index, NoRecords
<1>8. \A t \in Task : TaskOK(t)'
  <2> SUFFICES ASSUME NEW t \in Task PROVE TaskOK(t)'
    OBVIOUS
  <2>0. TaskOK(t)
    BY DEF IInv
  <2>1. CASE t = c
    BY <1>1, <1>4, <2>1, OverOK
  <2>2. CASE t # c /\ task[t].at = "write"
    <3>1. task'[t].at = "lost" /\ task'[t].on = task[t].on /\ task'[t].copy = task[t].copy
      BY <1>4, <1>5, <2>2
    <3>2. \A q \in Process : /\ task[t].copy[q] # "absent" => Started(q)'
                             /\ task[t].copy[q] = "stopped" => Ended(q)'
      BY <1>3, <2>0 DEF TaskOK, RecordsOK, Onward
    <3> QED
      BY <2>0, <2>2, <3>1, <3>2 DEF TaskOK, RecordsOK, Waiting
  <2>3. CASE t # c /\ task[t].at # "write"
    BY <1>1, <1>3, <1>4, <2>0, <2>3, TaskKept
  <2> QED
    BY <2>1, <2>2, <2>3
<1>9. \A p \in Process : ProcessOK(p)'
  <2> SUFFICES ASSUME NEW p \in Process PROVE ProcessOK(p)'
    OBVIOUS
  <2>1. Starting(p) \in Task /\ Starting(p) # c /\ ProcessOK(p)
    BY Kinds DEF IInv
  <2>2. \/ task'[Starting(p)] = task[Starting(p)]
        \/ task'[Starting(p)].at = "lost"
    BY <1>4, <1>5, <2>1
  <2> QED
    BY <1>2, <2>1, <2>2 DEF ProcessOK, Started
<1>10. \A l \in Cleanup : CleanupOK(l)'
  <2> SUFFICES ASSUME NEW l \in Cleanup PROVE CleanupOK(l)'
    OBVIOUS
  <2>1. CleanupOK(l) /\ TaskOK(Cleaning(l)) /\ Cleaning(l) \in Task /\ Cleaning(l)[1] = "cleanup"
    BY Kinds DEF IInv
  <2>2. task'[Cleaning(l)] = task[Cleaning(l)] \/ task[Cleaning(l)].at \in {"rm", "done"}
    BY <1>1, <1>4, <2>1 DEF TaskOK, Waiting
  <2> QED
    BY <1>2, <2>1, <2>2 DEF CleanupOK, Started, Ended
<1> QED
  BY <1>2, <1>7, <1>8, <1>9, <1>10 DEF IInv, RecordsOK, NoRecords

\* What leaves tasks, processes and records alone leaves the invariant alone.
LEMMA QuietInv ==
  ASSUME IInv, UNCHANGED <<task, child, running, completion, index, dirs, owed>>,
         known' \in BOOLEAN, server' \in {"up", "uncaught", "unhandled"}
  PROVE  IInv'
<1>1. Onward /\ TypeOK'
  BY DEF IInv, TypeOK, Onward, Started, Ended
<1>2. \A t \in Task : TaskOK(t)'
  BY <1>1, TaskKept DEF IInv
<1> QED
  BY <1>1, <1>2 DEF IInv, RecordsOK, ProcessOK, CleanupOK, Started, Ended

\* Every step keeps the invariant.
LEMMA NextInv == IInv /\ [Next]_vars => IInv'
<1> SUFFICES ASSUME IInv, [Next]_vars PROVE IInv'
  OBVIOUS
<1>0. server \in {"up", "uncaught", "unhandled"} /\ known \in BOOLEAN
  BY DEF IInv, TypeOK
<1>1. ASSUME NEW p \in Process, start(p) PROVE IInv'
  BY <1>1, StartInv
<1>2. ASSUME NEW p \in Process, spawn(p) PROVE IInv'
  BY <1>2, SpawnInv
<1>3. ASSUME NEW p \in Process, spawnFails(p) PROVE IInv'
  BY <1>0, <1>3, QuietInv DEF spawnFails
<1>4. ASSUME NEW p \in Process, exits(p) PROVE IInv'
  BY <1>4, ExitsInv
<1>5. ASSUME NEW p \in Process, closes(p) PROVE IInv'
  BY <1>5, ClosesInv
<1>6. ASSUME NEW r \in Request, NEW p \in Process, NEW how \in {"keep", "remove"}, request(r, p, how)
      PROVE  IInv'
  BY <1>6, RequestInv
<1>7. ASSUME NEW r \in Request, found(r) PROVE IInv'
  BY <1>7, FoundInv
<1>8. ASSUME NEW t \in Task, readIndex(t) PROVE IInv'
  BY <1>8, ReadInv
<1>9. ASSUME NEW t \in Task, writeIndex(t) PROVE IInv'
  BY <1>9, WriteInv
<1>10. ASSUME NEW t \in Waiter, exitSeen(t) PROVE IInv'
  BY <1>10, ExitSeenInv
<1>11. ASSUME NEW t \in Waiter, escalate(t) PROVE IInv'
  BY <1>11, EscalateInv
<1>12. ASSUME NEW t \in Waiter, giveUp(t) PROVE IInv'
  BY <1>12, GiveUpInv
<1>13. ASSUME NEW k \in Cleanup, NEW there \in BOOLEAN, workspaceEnds(k, there) PROVE IInv'
  BY <1>13, EndsInv
<1>14. ASSUME NEW k \in Cleanup, dirRemoved(k) PROVE IInv'
  BY <1>14, RemovedInv
<1>15. ASSUME workspaceOpens PROVE IInv'
  BY <1>0, <1>15, QuietInv DEF workspaceOpens
<1>16. ASSUME UNCHANGED vars PROVE IInv'
  BY <1>0, <1>16, QuietInv DEF vars
<1> QED
  BY <1>1, <1>2, <1>3, <1>4, <1>5, <1>6, <1>7, <1>8, <1>9, <1>10, <1>11, <1>12, <1>13, <1>14, <1>15, <1>16
     DEF Next

-----------------------------------------------------------------------------
(* Theorems *)

\* The inductive invariant holds in every reachable state.
THEOREM Invariance == Spec => []IInv
  BY InitInv, NextInv, PTL DEF Spec

\* The variables have their types, for any numbers of processes, requests and
\* cleanups.
THEOREM TypeCorrect == Spec => []TypeOK
<1>1. IInv => TypeOK
  BY DEF IInv
<1> QED
  BY <1>1, Invariance, PTL

\* index.json never calls a process ended that lives, although every update is
\* a read, a truncation and a write that others overtake (upsertIndex).
THEOREM StoppedIsDeadAlways == Spec => []StoppedIsDead
<1>1. IInv => StoppedIsDead
  BY DEF IInv, RecordsOK, StoppedIsDead, Ended, Dead
<1> QED
  BY <1>1, Invariance, PTL

\* cleanupWorkspace leaves nothing alive of what ran when it began, whoever
\* else stops, waits and gives up meanwhile.
THEOREM CleanupLeavesNoneAlways == Spec => []CleanupLeavesNone
<1>1. IInv => CleanupLeavesNone
  BY DEF IInv, CleanupOK, CleanupLeavesNone, Ended, Dead
<1> QED
  BY <1>1, Invariance, PTL

=============================================================================
