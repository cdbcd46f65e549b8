----------------------------- MODULE VoiceMode ------------------------------
(***************************************************************************)
(* Client connections and voice mode in the server                         *)
(* (packages/server/src): ClientConnectionManager                          *)
(* (clients/connection-manager.ts) with the SSE route that registers with  *)
(* it (server/routes/events.ts), VoiceModeManager (plugins/voice-mode.ts)  *)
(* and PluginChannelManager (plugins/channel.ts) with their routes         *)
(* (server/routes/plugin.ts).                                              *)
(*                                                                         *)
(* A connection key (client id and connection id) outlives the HTTP        *)
(* streams opened under it.  Handlers are synchronous: each is one step,   *)
(* with the subscribers it notifies.                                       *)
(***************************************************************************)
EXTENDS Naturals, FiniteSets

CONSTANTS
  Instance,  \* workspace ids
  Conn,      \* connection keys
  Stream,    \* GET /api/events requests
  Plugin,    \* plugin event streams
  None

ASSUME VoiceAssumption ==
  /\ None \notin Stream
  /\ None \notin Conn
  /\ None \notin Instance

VARIABLES
  sse,          \* state of each GET /api/events request
  keyOf,        \* the connection key it came with
  connections,  \* ClientConnectionManager.connections: key -> stream
  stale,        \* keys not heard of for STALE_CONNECTION_TIMEOUT_MS
  enabled,      \* VoiceModeManager.enabledConnectionsByInstance
  aggregate,    \* VoiceModeManager.aggregateByInstance
  listens,      \* plugin stream -> instance it is registered for
  heard,        \* last voiceMode value written to a plugin stream
  known,        \* instances WorkspaceManager.get knows
  up            \* FALSE once the server's shutdown() ran

vars == <<sse, keyOf, connections, stale, enabled, aggregate, listens, heard,
          known, up>>

\* "ended": the server has ended the response, the request's own "close"
\* event is still to come.
StreamState == {"idle", "open", "ended", "gone"}

TypeOK ==
  /\ sse \in [Stream -> StreamState]
  /\ keyOf \in [Stream -> Conn \cup {None}]
  /\ connections \in [Conn -> Stream \cup {None}]
  /\ stale \subseteq Conn
  /\ enabled \in [Instance -> SUBSET Conn]
  /\ aggregate \in [Instance -> BOOLEAN]
  /\ listens \in [Plugin -> Instance \cup {None}]
  /\ heard \in [Plugin -> BOOLEAN]
  /\ known \subseteq Instance
  /\ up \in BOOLEAN

Init ==
  /\ sse = [s \in Stream |-> "idle"]
  /\ keyOf = [s \in Stream |-> None]
  /\ connections = [k \in Conn |-> None]
  /\ stale = {}
  /\ enabled = [i \in Instance |-> {}]
  /\ aggregate = [i \in Instance |-> FALSE]
  /\ listens = [p \in Plugin |-> None]
  /\ heard = [p \in Plugin |-> FALSE]
  /\ known = {}
  /\ up = TRUE

isConnected(k) == connections[k] # None
Connected == {k \in Conn : isConnected(k)}

-----------------------------------------------------------------------------
(* Voice mode *)

\* Mutant: switching off is recorded but not sent.
publishIfChanged_OffUnsent(en, touched) ==
  LET agg == [i \in Instance |-> IF i \in touched THEN en[i] # {} ELSE aggregate[i]]
  IN  /\ enabled' = en
      /\ aggregate' = agg
      /\ heard' = [p \in Plugin |-> heard[p] \/ (listens[p] \in touched /\ agg[listens[p]])]

\* An event goes to the instance's plugin streams only when the aggregate of
\* a touched instance changes.
publishIfChanged(en, touched) ==
  LET agg == [i \in Instance |-> IF i \in touched THEN en[i] # {} ELSE aggregate[i]]
      changed == {i \in touched : agg[i] # aggregate[i]}
  IN  /\ enabled' = en
      /\ aggregate' = agg
      /\ heard' = [p \in Plugin |->
                     IF listens[p] \in changed THEN agg[listens[p]] ELSE heard[p]]

clearConnections(keys) ==
  publishIfChanged([i \in Instance |-> enabled[i] \ keys],
                   {i \in Instance : enabled[i] \cap keys # {}})

\* POST plugin/voice-mode; an unknown workspace answers 404, and enabling
\* without a live connection 409, and neither changes anything.
setEnabled(i, k, on) ==
  /\ up
  /\ i \in known
  /\ on => isConnected(k)
  /\ publishIfChanged([enabled EXCEPT ![i] = IF on THEN @ \cup {k} ELSE @ \ {k}], {i})
  /\ UNCHANGED <<sse, keyOf, connections, stale, listens, known, up>>

\* GET plugin/events: register, then syncInstance writes the aggregate to
\* every stream of the instance.
pluginConnects(p, i) ==
  /\ up
  /\ i \in known
  /\ listens[p] = None
  /\ listens' = [listens EXCEPT ![p] = i]
  /\ heard' = [q \in Plugin |-> IF listens'[q] = i THEN aggregate[i] ELSE heard[q]]
  /\ UNCHANGED <<sse, keyOf, connections, stale, enabled, aggregate, known, up>>

pluginCloses(p) ==
  /\ listens[p] # None
  /\ listens' = [listens EXCEPT ![p] = None]
  /\ UNCHANGED <<sse, keyOf, connections, stale, enabled, aggregate, heard, known, up>>

-----------------------------------------------------------------------------
(* Client connections *)

\* disconnect(): drop the entry, end its stream, notify.
ended(keys) == {connections[k] : k \in keys} \ {None}

disconnect(keys) ==
  /\ connections' = [k \in Conn |-> IF k \in keys THEN None ELSE connections[k]]
  /\ sse' = [s \in Stream |-> IF s \in ended(keys) THEN "ended" ELSE sse[s]]
  /\ clearConnections(keys)

\* GET /api/events.  An entry under the same key is disconnected first
\* ("replaced"), which also withdraws what it had enabled.
register(s, k) ==
  /\ up
  /\ sse[s] = "idle"
  /\ keyOf' = [keyOf EXCEPT ![s] = k]
  /\ connections' = [connections EXCEPT ![k] = s]
  /\ sse' = [t \in Stream |-> IF t = s THEN "open"
                              ELSE IF t = connections[k] THEN "ended" ELSE sse[t]]
  /\ clearConnections({k} \cap Connected)
  /\ stale' = stale \ {k}
  /\ UNCHANGED <<listens, known, up>>

pong(k) ==
  /\ up
  /\ isConnected(k)
  /\ stale' = stale \ {k}
  /\ UNCHANGED <<sse, keyOf, connections, enabled, aggregate, listens, heard, known, up>>

\* 45 s pass without a pong.
grow(k) ==
  /\ up
  /\ isConnected(k)
  /\ stale' = stale \cup {k}
  /\ UNCHANGED <<sse, keyOf, connections, enabled, aggregate, listens, heard, known, up>>

\* Mutant: the sweep drops and ends the stale connections but notifies nobody.
sweepStaleConnections_Unnotified ==
  /\ up
  /\ stale \cap Connected # {}
  /\ connections' = [k \in Conn |-> IF k \in stale THEN None ELSE connections[k]]
  /\ sse' = [s \in Stream |-> IF s \in ended(stale) THEN "ended" ELSE sse[s]]
  /\ UNCHANGED <<keyOf, stale, enabled, aggregate, listens, heard, known, up>>

sweepStaleConnections ==
  /\ up
  /\ stale \cap Connected # {}
  /\ disconnect(stale)
  /\ UNCHANGED <<keyOf, stale, listens, known, up>>

\* The request's "close" event: handleClose ends the response if it is open
\* and calls the unregister closure, which disconnects whatever is
\* registered under the key by now.
streamCloses(s) ==
  /\ sse[s] \in {"open", "ended"}
  /\ connections' = [connections EXCEPT ![keyOf[s]] = None]
  /\ sse' = [t \in Stream |-> IF t = s THEN "gone"
                              ELSE IF t = connections[keyOf[s]] THEN "ended"
                              ELSE sse[t]]
  /\ clearConnections({keyOf[s]} \cap Connected)
  /\ UNCHANGED <<keyOf, stale, listens, known, up>>

\* index.ts shutdown(): the HTTP servers end every stream, the manager
\* disconnects every entry, and no request is served any more.
shutdown ==
  /\ up
  /\ up' = FALSE
  /\ sse' = [s \in Stream |-> IF sse[s] = "open" THEN "ended" ELSE sse[s]]
  /\ connections' = [k \in Conn |-> None]
  /\ clearConnections(Connected)
  /\ UNCHANGED <<keyOf, stale, listens, known>>

\* A workspace enters or leaves WorkspaceManager.workspaces; voice mode keeps
\* what it has for the id.
workspaceChanges(i) ==
  /\ up
  /\ known' = IF i \in known THEN known \ {i} ELSE known \cup {i}
  /\ UNCHANGED <<sse, keyOf, connections, stale, enabled, aggregate, listens,
                 heard, up>>

-----------------------------------------------------------------------------
Next ==
  \/ \E s \in Stream, k \in Conn : register(s, k)
  \/ \E s \in Stream : streamCloses(s)
  \/ \E k \in Conn : pong(k) \/ grow(k)
  \/ sweepStaleConnections
  \/ \E i \in Instance, k \in Conn, on \in BOOLEAN : setEnabled(i, k, on)
  \/ \E p \in Plugin, i \in Instance : pluginConnects(p, i)
  \/ \E p \in Plugin : pluginCloses(p)
  \/ \E i \in Instance : workspaceChanges(i)
  \/ shutdown

\* The sweep timer runs.
Fairness == WF_vars(sweepStaleConnections)

Spec == Init /\ [][Next]_vars

FairSpec == Spec /\ Fairness

-----------------------------------------------------------------------------
(* Properties *)

\* The cached aggregate of an instance is on exactly when some connection has
\* voice mode enabled for it: no disconnect path forgets to recompute it.
AggregateExact == \A i \in Instance : aggregate[i] <=> enabled[i] # {}

\* Only live connections count: however a connection ends (closed, replaced,
\* timed out, shut down), its wishes go with it.
EnabledAreConnected == \A i \in Instance : enabled[i] \subseteq Connected

\* A listening plugin has been sent the current aggregate of its instance,
\* although events are written on changes only.
PluginsHearAggregate ==
  \A p \in Plugin : listens[p] # None => heard[p] = aggregate[listens[p]]

\* The registry and the open streams agree: a registered stream is open, under
\* its own key, and an open stream is registered, so it is swept when its
\* client falls silent.
RegistryMatchesStreams ==
  /\ \A k \in Conn : isConnected(k) =>
       sse[connections[k]] = "open" /\ keyOf[connections[k]] = k
  /\ \A s \in Stream : sse[s] = "open" => connections[keyOf[s]] = s

\* Clients that fall silent for good do not keep voice mode on in a plugin:
\* a plugin told "on" for the sake of silent connections only is told "off",
\* unless one of them speaks or a live one joins.
OnForSilent(p) ==
  /\ listens[p] # None
  /\ heard[p]
  /\ enabled[listens[p]] \subseteq stale

SilentIsDropped == \A p \in Plugin : OnForSilent(p) ~> ~OnForSilent(p)

\* The detailed protocol implements the promise.
Promise == INSTANCE VoiceChannel
             WITH live <- Connected, wanted <- enabled, joined <- listens, told <- heard

PromiseKept == Promise!ChannelSpec

=============================================================================
