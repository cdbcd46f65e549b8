------------------------------- MODULE Sidecars -------------------------------
(***************************************************************************)
(* Sidecars (sidecars/manager.ts): programs beside the server that it      *)
(* knows by their port.  Their configuration is kept in the settings       *)
(* document, their status in memory only; a status is what the last probe  *)
(* of the port said, and every change of it is published.                  *)
(*                                                                         *)
(* A probe awaits a connection; meanwhile its sidecar may be changed,      *)
(* deleted or created anew under the same id, which is made from its name. *)
(***************************************************************************)
EXTENDS Naturals, FiniteSets

CONSTANTS
  Id,
  MaxProbes \* probes of one id under way

VARIABLES
  configs, \* SideCarManager.configs
  runtime, \* SideCarManager.runtime
  probes,  \* for each id, the calls of isPortAvailable under way
  file,    \* the sidecars of the settings document on disk
  heard    \* what the events of this server have told about each id

vars == <<configs, runtime, probes, file, heard>>

Status == {"running", "stopped"}

TypeOK ==
  /\ configs \subseteq Id /\ file \subseteq Id
  /\ runtime \in [Id -> Status \cup {"none"}] /\ heard \in [Id -> Status \cup {"none"}]
  /\ probes \in [Id -> 0 .. MaxProbes]

(* The constructor with its microtask, which probes all it has loaded       *)
loadConfiguredSideCars(stored) ==
  /\ configs' = stored
  /\ runtime' = [i \in Id |-> IF i \in stored THEN "stopped" ELSE "none"]
  /\ probes' = [i \in Id |-> IF i \in stored THEN 1 ELSE 0]
  /\ heard' = [i \in Id |-> "none"]

Init ==
  /\ file \in SUBSET Id /\ configs = file
  /\ runtime = [i \in Id |-> IF i \in file THEN "stopped" ELSE "none"]
  /\ probes = [i \in Id |-> IF i \in file THEN 1 ELSE 0]
  /\ heard = [i \in Id |-> "none"]

restart == loadConfiguredSideCars(file) /\ UNCHANGED file

(* A document that cannot be written stays as it is; it is written whole    *)
(* the next time                                                            *)
persistConfigs == file' = configs' \/ UNCHANGED file

refresh(ids) ==
  /\ \A i \in ids : probes[i] < MaxProbes
  /\ probes' = [i \in Id |-> IF i \in ids THEN probes[i] + 1 ELSE probes[i]]

\* Mutant: a status that is there is kept.
created_KeepsStatus(i) ==
  runtime' = [runtime EXCEPT ![i] = IF @ = "none" THEN "stopped" ELSE @]

created(i) == runtime' = [runtime EXCEPT ![i] = "stopped"]

create(i) ==
  /\ i \notin configs
  /\ configs' = configs \cup {i}
  /\ created(i)
  /\ persistConfigs
  /\ refresh({i})
  /\ UNCHANGED heard

(* A change of name, port or path publishes nothing of its own              *)
update(i) ==
  /\ i \in configs
  /\ UNCHANGED <<configs, runtime, heard>>
  /\ persistConfigs
  /\ refresh({i})

delete(i) ==
  /\ i \in configs
  /\ configs' = configs \ {i}
  /\ runtime' = [runtime EXCEPT ![i] = "none"]
  /\ persistConfigs
  /\ heard' = [heard EXCEPT ![i] = "none"]
  /\ UNCHANGED probes

list ==
  /\ configs # {}
  /\ refresh(configs)
  /\ UNCHANGED <<configs, runtime, file, heard>>

get(i) ==
  /\ i \in configs
  /\ refresh({i})
  /\ UNCHANGED <<configs, runtime, file, heard>>

(* The rest of refreshPortSideCar.  An id that was deleted meanwhile gets   *)
(* its runtime entry back, and nothing is published.                        *)
probeEnds(i, status) ==
  /\ probes[i] > 0
  /\ probes' = [probes EXCEPT ![i] = @ - 1]
  /\ runtime' = [runtime EXCEPT ![i] = status]
  /\ heard' = IF runtime[i] # status /\ i \in configs
              THEN [heard EXCEPT ![i] = status] ELSE heard
  /\ UNCHANGED <<configs, file>>

Next ==
  \/ \E i \in Id :
       \/ create(i) \/ update(i) \/ delete(i) \/ get(i)
       \/ \E status \in Status : probeEnds(i, status)
  \/ list \/ restart

Spec == Init /\ [][Next]_vars

-----------------------------------------------------------------------------
(* A client that was told of every change knows the status the server has   *)
(* of each sidecar, and one that was told of none may take it for stopped,  *)
(* although entries come back that nobody was told of and an id is created  *)
(* anew over them (refreshPortSideCar line 168, create line 84).  Whether   *)
(* the status is that of the present port is another matter: a probe of a   *)
(* sidecar that was deleted, or of the port it had before, ends in the      *)
(* entry of whatever has the id by then, and its answer is published.       *)
HeardStatusIsTrue ==
  \A i \in configs : runtime[i] = IF heard[i] = "none" THEN "stopped" ELSE heard[i]

=============================================================================
