----------------------------- MODULE WorktreeMap -----------------------------
(***************************************************************************)
(* Which worktree a session works in: the map file of a repository         *)
(* (worktree-map.ts), the routes that write it (routes/worktrees.ts) and   *)
(* the pages that keep a copy of it (packages/ui/src/stores/worktrees.ts). *)
(*                                                                         *)
(* A page computes a whole new map from its copy and sends it.  The server *)
(* writes a temporary file, whose name is the same for all requests, and   *)
(* renames it: inode[t] is what the file holds that request t has created, *)
(* mapFile and tmpFile say whose files have the two names.  A page drops   *)
(* the entries of worktrees that are missing from its list.                *)
(*                                                                         *)
(* A task is a chain of requests one click makes; `todo` are the steps     *)
(* ahead, `at` is where the first of them is.  The default worktree is     *)
(* left out: nothing sets it.                                              *)
(***************************************************************************)
EXTENDS Naturals, Sequences

CONSTANTS
  Client,     \* pages
  Session,    \* parent sessions
  Slug,       \* worktrees other than the repository itself
  Root,
  None,
  MaxTasks,   \* bounds the number of tasks
  Overlap,    \* a task may begin while another is under way
  GitMayFail  \* `git worktree list` may fail

VARIABLES
  worktrees, \* what git has
  mapFile, tmpFile, inode,
  task,
  list,      \* worktreesByInstance of each page
  copy,      \* worktreeMapByInstance of each page
  chosen     \* what was last chosen for a session in any page

vars == <<worktrees, mapFile, tmpFile, inode, task, list, copy, chosen>>

Task == 1 .. MaxTasks
Place == Slug \cup {Root}
Map == [Session -> Place \cup {None}]
NoEntries == [s \in Session |-> None]

Idle == [at |-> "idle", todo |-> <<>>, client |-> None, session |-> None, slug |-> Root,
         map |-> NoEntries, file |-> 0, list |-> {}]
Done == [Idle EXCEPT !.at = "done"]

(* File 0 is the one the program found when it started.                     *)
Init ==
  /\ worktrees \in SUBSET Slug
  /\ inode = [f \in Task \cup {0} |-> NoEntries]
  /\ mapFile = 0 /\ tmpFile = None
  /\ task = [t \in Task |-> Idle]
  /\ list = [c \in Client |-> None] /\ copy = [c \in Client |-> None]
  /\ chosen = NoEntries

(* None in place of a map: a file that is empty or no JSON.  It reads as no *)
(* entries, as a missing file does.                                         *)
readWorktreeMap == IF inode[mapFile] = None THEN NoEntries ELSE inode[mapFile]

Available(c) == list[c] \cup {Root}

normalizeWorktreeSlug(c, w) == IF list[c] = {} \/ w \in Available(c) THEN w ELSE Root

Pruned(map, keep) == [s \in Session |-> IF map[s] \in keep THEN map[s] ELSE None]

-----------------------------------------------------------------------------
(* The tasks of a page                                                      *)

Begin(f, t, c, todo, s, w) ==
  [f EXCEPT ![t] = [Idle EXCEPT !.at = "request", !.todo = todo, !.client = c,
                                !.session = s, !.slug = w]]

Free(t) == task[t].at = "idle" /\ \A u \in Task : u < t => task[u].at # "idle"

MayBegin == Overlap \/ \A t \in Task : task[t].at \in {"idle", "done"}

begin(c, todo, s, w) ==
  /\ MayBegin
  /\ \E t \in Task : Free(t) /\ task' = Begin(task, t, c, todo, s, w)
  /\ UNCHANGED <<worktrees, mapFile, tmpFile, inode, list, copy>>

Loaded(c) == list[c] # None /\ copy[c] # None

(* The first load of an instance, and a rehydration of it                   *)
hydrateInstanceData(c) ==
  begin(c, <<"list", "read">>, None, Root) /\ UNCHANGED chosen

(* The selector, and a session that was created                             *)
assigns(c, s, w) ==
  /\ Loaded(c) /\ w \in Available(c)
  /\ begin(c, <<"assign">>, s, w) /\ UNCHANGED chosen

(* A session was deleted                                                    *)
forgets(c, s) ==
  /\ Loaded(c) /\ copy[c][s] # None
  /\ begin(c, <<"forget">>, s, Root) /\ UNCHANGED chosen

createDialog(c, s, w) ==
  Loaded(c) /\ begin(c, <<"create", "list", "assign">>, s, w) /\ UNCHANGED chosen

deleteDialog(c, w) ==
  /\ Loaded(c) /\ w \in list[c] \ {Root}
  /\ begin(c, <<"remove", "list", "read">>, None, w) /\ UNCHANGED chosen

(* The page is loaded anew.                                                 *)
reloads(c) ==
  /\ MayBegin /\ \A t \in Task : task[t].client # c
  /\ list' = [list EXCEPT ![c] = None] /\ copy' = [copy EXCEPT ![c] = None]
  /\ UNCHANGED <<worktrees, mapFile, tmpFile, inode, task, chosen>>

Onward(t) == IF Len(task[t].todo) = 1 THEN Done
            ELSE [task[t] EXCEPT !.at = "request", !.todo = Tail(@)]

Is(t, at, step) == task[t].at = at /\ Head(task[t].todo) = step

(* pruneWorktreeMap: the page's copy at once, the file by a request nobody  *)
(* waits for.                                                               *)
prunes(c, map, keep, f) ==
  LET next == Pruned(map, keep \cup {Root}) IN
  /\ copy' = [copy EXCEPT ![c] = next]
  /\ IF next = map THEN task' = f
     ELSE \E t \in Task : Free(t) /\
            task' = [f EXCEPT ![t] = [Idle EXCEPT !.at = "write", !.todo = <<"put">>,
                                                  !.client = c, !.map = next]]

(* reloadWorktrees, and ensureWorktreesLoaded, which takes a failure for an *)
(* empty list.                                                              *)
worktreesAnswered(t) ==
  LET c == task[t].client
      failed == task[t].list = {}
      known == IF failed /\ list[c] # None THEN list[c] ELSE task[t].list
      f == [task EXCEPT ![t] = Onward(t)]
  IN
  /\ Is(t, "answer", "list")
  /\ list' = [list EXCEPT ![c] = known]
  /\ IF ~failed /\ copy[c] # None
     THEN prunes(c, copy[c], known, f)
     ELSE task' = f /\ UNCHANGED copy
  /\ UNCHANGED <<worktrees, mapFile, tmpFile, inode, chosen>>

(* ensureWorktreeMapLoaded prunes, reloadWorktreeMap does not.              *)
mapAnswered(t) ==
  LET c == task[t].client
      f == [task EXCEPT ![t] = Onward(t)]
  IN
  /\ Is(t, "answer", "read")
  /\ IF copy[c] = None /\ list[c] # None
     THEN prunes(c, task[t].map, list[c], f)
     ELSE task' = f /\ copy' = [copy EXCEPT ![c] = task[t].map]
  /\ UNCHANGED <<worktrees, mapFile, tmpFile, inode, list, chosen>>

dialogAnswered(t) ==
  /\ Is(t, "answer", "create") \/ Is(t, "answer", "remove")
  /\ task' = [task EXCEPT ![t] = Onward(t)]
  /\ UNCHANGED <<worktrees, mapFile, tmpFile, inode, list, copy, chosen>>

setWorktreeSlugForParentSession(t) ==
  LET c == task[t].client
      w == normalizeWorktreeSlug(c, task[t].slug)
      next == [copy[c] EXCEPT ![task[t].session] = w]
  IN
  /\ Is(t, "request", "assign")
  /\ copy' = [copy EXCEPT ![c] = next]
  /\ task' = [task EXCEPT ![t].at = "write", ![t].map = next]
  /\ chosen' = [chosen EXCEPT ![task[t].session] = w]
  /\ UNCHANGED <<worktrees, mapFile, tmpFile, inode, list>>

removeParentSessionMapping(t) ==
  LET c == task[t].client
      next == [copy[c] EXCEPT ![task[t].session] = None]
  IN
  /\ Is(t, "request", "forget")
  /\ copy' = [copy EXCEPT ![c] = next]
  /\ task' = [task EXCEPT ![t].at = "write", ![t].map = next]
  /\ chosen' = [chosen EXCEPT ![task[t].session] = None]
  /\ UNCHANGED <<worktrees, mapFile, tmpFile, inode, list>>

-----------------------------------------------------------------------------
(* The routes                                                               *)

(* What the answer is made of: if git fails, the root alone; the empty set  *)
(* stands for an answer that is an error.                                   *)
listWorktrees(t) ==
  /\ Is(t, "request", "list")
  /\ \E answer \in {worktrees \cup {Root}} \cup (IF GitMayFail THEN {{Root}, {}} ELSE {}) :
       task' = [task EXCEPT ![t].at = "answer", ![t].list = answer]
  /\ UNCHANGED <<worktrees, mapFile, tmpFile, inode, list, copy, chosen>>

getMap(t) ==
  /\ Is(t, "request", "read")
  /\ task' = [task EXCEPT ![t].at = "answer", ![t].map = readWorktreeMap]
  /\ UNCHANGED <<worktrees, mapFile, tmpFile, inode, list, copy, chosen>>

(* An error ends the dialog's chain.                                        *)
createManagedWorktree(t) ==
  /\ Is(t, "request", "create")
  /\ IF task[t].slug \in worktrees
     THEN task' = [task EXCEPT ![t] = Done] /\ UNCHANGED worktrees
     ELSE /\ worktrees' = worktrees \cup {task[t].slug}
          /\ task' = [task EXCEPT ![t].at = "answer"]
  /\ UNCHANGED <<mapFile, tmpFile, inode, list, copy, chosen>>

removeWorktree(t) ==
  LET w == task[t].slug IN
  /\ Is(t, "request", "remove")
  /\ IF w \notin worktrees
     THEN task' = [task EXCEPT ![t] = Done] /\ UNCHANGED <<worktrees, chosen>>
     ELSE /\ worktrees' = worktrees \ {w}
          /\ task' = [task EXCEPT ![t].at = "prune"]
          /\ chosen' = [s \in Session |-> IF chosen[s] = w THEN None ELSE chosen[s]]
  /\ UNCHANGED <<mapFile, tmpFile, inode, list, copy>>

\* Mutant: the mappings of every other worktree go as well.
nextMapping_Inverted(map, w) == Pruned(map, {w, Root})

nextMapping(map, w) == Pruned(map, Place \ {w})

(* The delete route prunes what it reads after the removal.                 *)
deleteRoutePrunes(t) ==
  LET current == readWorktreeMap
      next == nextMapping(current, task[t].slug)
  IN
  /\ task[t].at = "prune"
  /\ task' = [task EXCEPT ![t].at = IF next = current THEN "answer" ELSE "write", ![t].map = next]
  /\ UNCHANGED <<worktrees, mapFile, tmpFile, inode, list, copy, chosen>>

(* writeWorktreeMap: writeFile opens the temporary file, which truncates it *)
(* if it is there, and writes; then comes the rename.                       *)
opensTmp(t) ==
  LET f == IF tmpFile = None THEN t ELSE tmpFile IN
  /\ task[t].at = "write"
  /\ tmpFile' = f /\ inode' = [inode EXCEPT ![f] = None]
  /\ task' = [task EXCEPT ![t].at = "opened", ![t].file = f]
  /\ UNCHANGED <<worktrees, mapFile, list, copy, chosen>>

(* On top of what another request has written, a shorter map leaves a tail. *)
writesTmp(t) ==
  LET f == task[t].file IN
  /\ task[t].at = "opened"
  /\ \E content \in {task[t].map} \cup (IF inode[f] \in {None, task[t].map} THEN {} ELSE {None}) :
       inode' = [inode EXCEPT ![f] = content]
  /\ task' = [task EXCEPT ![t].at = "written"]
  /\ UNCHANGED <<worktrees, mapFile, tmpFile, list, copy, chosen>>

(* Without a temporary file the rename fails, and a dialog ends.            *)
renames(t) ==
  /\ task[t].at = "written"
  /\ IF tmpFile = None
     THEN task' = [task EXCEPT ![t] = Done] /\ UNCHANGED <<mapFile, tmpFile>>
     ELSE /\ mapFile' = tmpFile /\ tmpFile' = None
          /\ task' = [task EXCEPT ![t] = IF Head(@.todo) = "remove" THEN [@ EXCEPT !.at = "answer"]
                                         ELSE Done]
  /\ UNCHANGED <<worktrees, inode, list, copy, chosen>>

server(t) ==
  \/ listWorktrees(t) \/ getMap(t) \/ createManagedWorktree(t) \/ removeWorktree(t)
  \/ deleteRoutePrunes(t) \/ opensTmp(t) \/ writesTmp(t) \/ renames(t)

page(c) ==
  \/ hydrateInstanceData(c) \/ reloads(c)
  \/ \E s \in Session : forgets(c, s)
  \/ \E s \in Session, w \in Place : assigns(c, s, w)
  \/ \E s \in Session, w \in Slug : createDialog(c, s, w)
  \/ \E w \in Slug : deleteDialog(c, w)

answered(t) ==
  \/ worktreesAnswered(t) \/ mapAnswered(t) \/ dialogAnswered(t)
  \/ setWorktreeSlugForParentSession(t) \/ removeParentSessionMapping(t)

Next == (\E c \in Client : page(c)) \/ (\E t \in Task : server(t) \/ answered(t))

Spec == Init /\ [][Next]_vars

-----------------------------------------------------------------------------
TypeOK ==
  /\ worktrees \subseteq Slug
  /\ mapFile \in Task \cup {0} /\ tmpFile \in Task \cup {None}
  /\ inode \in [Task \cup {0} -> Map \cup {None}]
  /\ \A c \in Client : copy[c] \in Map \cup {None} /\ (list[c] = None \/ list[c] \subseteq Place)
  /\ chosen \in Map

Quiet == \A t \in Task : task[t].at \in {"idle", "done"}

(* A session stays in the worktree that was chosen for it: the file, and    *)
(* every page that has loaded it, say so once nothing is under way.         *)
ChoiceIsKept ==
  Quiet => \A s \in Session : chosen[s] # None =>
    /\ readWorktreeMap[s] = chosen[s]
    /\ \A c \in Client : copy[c] # None => normalizeWorktreeSlug(c, copy[c][s]) = chosen[s]

=============================================================================
