--------------------------- MODULE VoiceMode_proofs ---------------------------
(***************************************************************************)
(* Theorems about VoiceMode, for any set of instances, connection keys,    *)
(* HTTP streams and plugins; the last one says that it implements          *)
(* VoiceChannel.                                                           *)
(***************************************************************************)
EXTENDS VoiceMode, TLAPS

\* A stream that was opened has a key.
StreamsHaveKeys == \A s \in Stream : sse[s] # "idle" => keyOf[s] \in Conn

\* Voice mode: caches and wishes fit the registry.
VoiceOK == AggregateExact /\ EnabledAreConnected /\ PluginsHearAggregate

Inv == TypeOK /\ StreamsHaveKeys /\ RegistryMatchesStreams /\ VoiceOK

\* A server that has just started: no streams, no voice mode.
LEMMA InitInv == Init => Inv
<1> USE VoiceAssumption
<1> QED
  BY DEF Init, Inv, TypeOK, StreamState, StreamsHaveKeys, RegistryMatchesStreams,
         VoiceOK, AggregateExact, EnabledAreConnected, PluginsHearAggregate,
         isConnected, Connected

-----------------------------------------------------------------------------
(* publishIfChanged, the only writer of the caches *)

\* If every instance whose set changes is touched, the caches are exact
\* again and every listening plugin has heard them.
LEMMA PublishExact ==
  ASSUME TypeOK, AggregateExact, PluginsHearAggregate,
         NEW en \in [Instance -> SUBSET Conn], NEW touched \in SUBSET Instance,
         \A i \in Instance \ touched : en[i] = enabled[i],
         publishIfChanged(en, touched), UNCHANGED listens
  PROVE  /\ enabled' = en
         /\ aggregate' \in [Instance -> BOOLEAN]
         /\ heard' \in [Plugin -> BOOLEAN]
         /\ AggregateExact'
         /\ PluginsHearAggregate'
<1> DEFINE agg == [i \in Instance |-> IF i \in touched THEN en[i] # {} ELSE aggregate[i]]
           changed == {i \in touched : agg[i] # aggregate[i]}
<1>1. /\ enabled' = en
      /\ aggregate' = agg
      /\ heard' = [p \in Plugin |->
                     IF listens[p] \in changed THEN agg[listens[p]] ELSE heard[p]]
  BY DEF publishIfChanged
<1>2. aggregate' \in [Instance -> BOOLEAN]
  BY <1>1 DEF TypeOK
<1>3. heard' \in [Plugin -> BOOLEAN]
  BY <1>1 DEF TypeOK
<1>4. AggregateExact'
  <2> SUFFICES ASSUME NEW i \in Instance PROVE aggregate'[i] <=> enabled'[i] # {}
    BY DEF AggregateExact
  <2>1. CASE i \in touched
    BY <1>1, <2>1
  <2>2. CASE i \notin touched
    BY <1>1, <2>2 DEF AggregateExact
  <2> QED
    BY <2>1, <2>2
<1>5. PluginsHearAggregate'
  <2> SUFFICES ASSUME NEW p \in Plugin, listens[p] # None
               PROVE  heard'[p] = aggregate'[listens[p]]
    BY DEF PluginsHearAggregate
  <2>1. listens[p] \in Instance
    BY DEF TypeOK
  <2>2. heard[p] = aggregate[listens[p]]
    BY DEF PluginsHearAggregate
  <2>3. CASE listens[p] \in changed
    BY <1>1, <2>1, <2>3
  <2>4. CASE listens[p] \notin changed
    <3>1. agg[listens[p]] = aggregate[listens[p]]
      BY <2>1, <2>4
    <3> QED
      BY <1>1, <2>1, <2>2, <2>4, <3>1
  <2> QED
    BY <2>3, <2>4
<1> QED
  BY <1>1, <1>2, <1>3, <1>4, <1>5

\* clearConnections withdraws exactly the given keys.
LEMMA ClearExact ==
  ASSUME TypeOK, VoiceOK, NEW keys \in SUBSET Conn,
         clearConnections(keys), UNCHANGED listens
  PROVE  /\ enabled' = [i \in Instance |-> enabled[i] \ keys]
         /\ aggregate' \in [Instance -> BOOLEAN]
         /\ heard' \in [Plugin -> BOOLEAN]
         /\ AggregateExact'
         /\ PluginsHearAggregate'
<1> DEFINE en == [i \in Instance |-> enabled[i] \ keys]
           touched == {i \in Instance : enabled[i] \cap keys # {}}
<1>1. /\ en \in [Instance -> SUBSET Conn]
      /\ touched \in SUBSET Instance
      /\ \A i \in Instance \ touched : en[i] = enabled[i]
  BY DEF TypeOK
<1>2. publishIfChanged(en, touched)
  BY DEF clearConnections
<1> HIDE DEF en, touched
<1>3. /\ enabled' = en
      /\ aggregate' \in [Instance -> BOOLEAN]
      /\ heard' \in [Plugin -> BOOLEAN]
      /\ AggregateExact'
      /\ PluginsHearAggregate'
  BY <1>1, <1>2, PublishExact DEF VoiceOK
<1> QED
  BY <1>3 DEF en

-----------------------------------------------------------------------------
(* Steps that end connections: the registry first, then voice mode *)

\* register: the new stream takes its key's entry, the replaced one is ended.
LEMMA RegisterRegistry ==
  ASSUME Inv, NEW s \in Stream, NEW k \in Conn, register(s, k)
  PROVE  /\ sse' \in [Stream -> StreamState]
         /\ keyOf' \in [Stream -> Conn \cup {None}]
         /\ connections' \in [Conn -> Stream \cup {None}]
         /\ StreamsHaveKeys'
         /\ RegistryMatchesStreams'
         /\ Connected' = Connected \cup {k}
<1> USE VoiceAssumption DEF Inv, TypeOK, register
<1>1. /\ sse' \in [Stream -> StreamState]
      /\ keyOf' \in [Stream -> Conn \cup {None}]
      /\ connections' \in [Conn -> Stream \cup {None}]
  BY DEF StreamState
<1>2. StreamsHaveKeys'
  BY DEF StreamsHaveKeys, RegistryMatchesStreams, isConnected
<1>3. RegistryMatchesStreams'
  <2>1. ASSUME NEW j \in Conn, connections'[j] # None
        PROVE  sse'[connections'[j]] = "open" /\ keyOf'[connections'[j]] = j
    <3>1. CASE j = k
      BY <3>1
    <3>2. CASE j # k
      <4>1. connections'[j] = connections[j] /\ connections[j] \in Stream
        BY <2>1, <3>2
      <4>2. sse[connections[j]] = "open" /\ keyOf[connections[j]] = j
        BY <2>1, <4>1 DEF RegistryMatchesStreams, isConnected
      <4>3. connections[j] # s /\ connections[j] # connections[k]
        BY <3>2, <4>1, <4>2 DEF RegistryMatchesStreams, isConnected
      <4> QED
        BY <4>1, <4>2, <4>3
    <3> QED
      BY <3>1, <3>2
  <2>2. ASSUME NEW t \in Stream, sse'[t] = "open" PROVE connections'[keyOf'[t]] = t
    <3>1. CASE t = s
      BY <3>1
    <3>2. CASE t # s
      <4>1. sse[t] = "open" /\ t # connections[k] /\ keyOf'[t] = keyOf[t]
        BY <2>2, <3>2
      <4>2. connections[keyOf[t]] = t /\ keyOf[t] \in Conn
        BY <4>1 DEF RegistryMatchesStreams, StreamsHaveKeys
      <4> QED
        BY <4>1, <4>2
    <3> QED
      BY <3>1, <3>2
  <2> QED
    BY <2>1, <2>2 DEF RegistryMatchesStreams, isConnected
<1>4. Connected' = Connected \cup {k}
  BY DEF Connected, isConnected
<1> QED
  BY <1>1, <1>2, <1>3, <1>4

\* streamCloses: only the close of the registered stream frees its key.
LEMMA CloseRegistry ==
  ASSUME Inv, NEW s \in Stream, streamCloses(s)
  PROVE  /\ keyOf[s] \in Conn
         /\ sse' \in [Stream -> StreamState]
         /\ connections' \in [Conn -> Stream \cup {None}]
         /\ StreamsHaveKeys'
         /\ RegistryMatchesStreams'
         /\ Connected' = Connected \ {keyOf[s]}
<1> USE VoiceAssumption DEF Inv, TypeOK, streamCloses
<1>0. keyOf[s] \in Conn
  BY DEF StreamsHaveKeys
<1>1. /\ sse' \in [Stream -> StreamState]
      /\ connections' \in [Conn -> Stream \cup {None}]
  BY DEF StreamState
<1>2. StreamsHaveKeys'
  BY DEF StreamsHaveKeys, RegistryMatchesStreams, isConnected
<1>3. RegistryMatchesStreams'
  <2>1. ASSUME NEW j \in Conn, connections'[j] # None
        PROVE  sse'[connections'[j]] = "open" /\ keyOf'[connections'[j]] = j
    <3>1. j # keyOf[s] /\ connections'[j] = connections[j] /\ connections[j] \in Stream
      BY <1>0, <2>1
    <3>2. sse[connections[j]] = "open" /\ keyOf[connections[j]] = j
      BY <2>1, <3>1 DEF RegistryMatchesStreams, isConnected
    <3>3. connections[j] # s
      BY <3>1, <3>2
    <3>4. connections[j] # connections[keyOf[s]]
      BY <1>0, <3>1, <3>2 DEF RegistryMatchesStreams, isConnected
    <3> QED
      BY <3>1, <3>2, <3>3, <3>4
  <2>2. ASSUME NEW t \in Stream, sse'[t] = "open" PROVE connections'[keyOf'[t]] = t
    <3>1. sse[t] = "open" /\ t # connections[keyOf[s]]
      BY <2>2
    <3>2. connections[keyOf[t]] = t /\ keyOf[t] \in Conn
      BY <3>1 DEF RegistryMatchesStreams, StreamsHaveKeys
    <3> QED
      BY <1>0, <3>1, <3>2
  <2> QED
    BY <2>1, <2>2 DEF RegistryMatchesStreams, isConnected
<1>4. Connected' = Connected \ {keyOf[s]}
  BY <1>0 DEF Connected, isConnected
<1> QED
  BY <1>0, <1>1, <1>2, <1>3, <1>4

\* sweepStaleConnections: exactly the stale connections leave the registry.
LEMMA SweepRegistry ==
  ASSUME Inv, sweepStaleConnections
  PROVE  /\ sse' \in [Stream -> StreamState]
         /\ connections' \in [Conn -> Stream \cup {None}]
         /\ StreamsHaveKeys'
         /\ RegistryMatchesStreams'
         /\ Connected' = Connected \ stale
<1> USE VoiceAssumption DEF Inv, TypeOK, sweepStaleConnections, disconnect, ended
<1>1. /\ sse' \in [Stream -> StreamState]
      /\ connections' \in [Conn -> Stream \cup {None}]
  BY DEF StreamState
<1>2. StreamsHaveKeys'
  BY DEF StreamsHaveKeys, RegistryMatchesStreams, isConnected
<1>3. RegistryMatchesStreams'
  <2>1. ASSUME NEW j \in Conn, connections'[j] # None
        PROVE  sse'[connections'[j]] = "open" /\ keyOf'[connections'[j]] = j
    <3>1. j \notin stale /\ connections'[j] = connections[j] /\ connections[j] \in Stream
      BY <2>1
    <3>2. sse[connections[j]] = "open" /\ keyOf[connections[j]] = j
      BY <2>1, <3>1 DEF RegistryMatchesStreams, isConnected
    <3>3. connections[j] \notin ended(stale)
      BY <3>1, <3>2 DEF RegistryMatchesStreams, isConnected
    <3> QED
      BY <3>1, <3>2, <3>3
  <2>2. ASSUME NEW t \in Stream, sse'[t] = "open" PROVE connections'[keyOf'[t]] = t
    <3>1. sse[t] = "open" /\ t \notin ended(stale)
      BY <2>2
    <3>2. connections[keyOf[t]] = t /\ keyOf[t] \in Conn
      BY <3>1 DEF RegistryMatchesStreams, StreamsHaveKeys
    <3>3. keyOf[t] \notin stale
      BY <3>1, <3>2
    <3> QED
      BY <3>2, <3>3
  <2> QED
    BY <2>1, <2>2 DEF RegistryMatchesStreams, isConnected
<1>4. Connected' = Connected \ stale
  BY DEF Connected, isConnected
<1> QED
  BY <1>1, <1>2, <1>3, <1>4

\* shutdown: the registry is empty and no stream is left open.
LEMMA ShutdownRegistry ==
  ASSUME Inv, shutdown
  PROVE  /\ sse' \in [Stream -> StreamState]
         /\ connections' \in [Conn -> Stream \cup {None}]
         /\ StreamsHaveKeys'
         /\ RegistryMatchesStreams'
         /\ Connected' = {}
BY VoiceAssumption DEF Inv, TypeOK, StreamState, shutdown, StreamsHaveKeys, RegistryMatchesStreams,
   isConnected, Connected

\* What is lost leaves the wishes; the wishes of the other connections stay.
LEMMA LoseVoice ==
  ASSUME Inv, NEW gone \in SUBSET Conn, NEW new \in SUBSET Conn,
         clearConnections(gone), UNCHANGED listens,
         Connected' = (Connected \ gone) \cup new
  PROVE  /\ enabled' = [i \in Instance |-> enabled[i] \ gone]
         /\ enabled' \in [Instance -> SUBSET Conn]
         /\ aggregate' \in [Instance -> BOOLEAN]
         /\ heard' \in [Plugin -> BOOLEAN]
         /\ VoiceOK'
<1>1. /\ enabled' = [i \in Instance |-> enabled[i] \ gone]
      /\ aggregate' \in [Instance -> BOOLEAN]
      /\ heard' \in [Plugin -> BOOLEAN]
      /\ AggregateExact'
      /\ PluginsHearAggregate'
  BY ClearExact DEF Inv
<1>2. EnabledAreConnected'
  BY <1>1 DEF Inv, VoiceOK, EnabledAreConnected
<1>3. enabled' \in [Instance -> SUBSET Conn]
  BY <1>1 DEF Inv, TypeOK
<1> QED
  BY <1>1, <1>2, <1>3 DEF VoiceOK

\* The abstract step of the four.
Loses(gone, new) ==
  /\ gone \subseteq Connected
  /\ Connected' = (Connected \ gone) \cup new
  /\ enabled' = [i \in Instance |-> enabled[i] \ gone]
  /\ UNCHANGED listens

\* register keeps the invariant; a replaced connection loses its voice mode.
LEMMA RegisterStep ==
  ASSUME Inv, NEW s \in Stream, NEW k \in Conn, register(s, k)
  PROVE  Inv' /\ Loses({k} \cap Connected, {k})
<1> DEFINE gone == {k} \cap Connected
<1>1. /\ clearConnections(gone)
      /\ stale' = stale \ {k}
      /\ UNCHANGED <<listens, known, up>>
  BY DEF register
<1>2. /\ sse' \in [Stream -> StreamState]
      /\ keyOf' \in [Stream -> Conn \cup {None}]
      /\ connections' \in [Conn -> Stream \cup {None}]
      /\ StreamsHaveKeys'
      /\ RegistryMatchesStreams'
      /\ Connected' = Connected \cup {k}
  BY RegisterRegistry
<1>3. Connected' = (Connected \ gone) \cup {k} /\ gone \in SUBSET Conn
  BY <1>2 DEF Connected
<1>4. /\ enabled' = [i \in Instance |-> enabled[i] \ gone]
      /\ enabled' \in [Instance -> SUBSET Conn]
      /\ aggregate' \in [Instance -> BOOLEAN]
      /\ heard' \in [Plugin -> BOOLEAN]
      /\ VoiceOK'
  <2> HIDE DEF gone
  <2> QED
    BY <1>1, <1>3, LoseVoice
<1>5. TypeOK'
  BY <1>1, <1>2, <1>4 DEF Inv, TypeOK
<1> QED
  BY <1>1, <1>2, <1>3, <1>4, <1>5 DEF Inv, Loses

\* streamCloses keeps the invariant; a connection that goes loses its voice mode.
LEMMA CloseStep ==
  ASSUME Inv, NEW s \in Stream, streamCloses(s)
  PROVE  Inv' /\ Loses({keyOf[s]} \cap Connected, {})
<1>1. /\ clearConnections({keyOf[s]} \cap Connected)
      /\ UNCHANGED <<keyOf, stale, listens, known, up>>
  BY DEF streamCloses
<1>2. /\ keyOf[s] \in Conn
      /\ sse' \in [Stream -> StreamState]
      /\ connections' \in [Conn -> Stream \cup {None}]
      /\ StreamsHaveKeys'
      /\ RegistryMatchesStreams'
      /\ Connected' = Connected \ {keyOf[s]}
  BY CloseRegistry
<1>3. PICK gone \in SUBSET Conn : gone = {keyOf[s]} \cap Connected
  BY <1>2
<1>4. Connected' = (Connected \ gone) \cup {}
  BY <1>2, <1>3
<1>5. /\ enabled' = [i \in Instance |-> enabled[i] \ gone]
      /\ enabled' \in [Instance -> SUBSET Conn]
      /\ aggregate' \in [Instance -> BOOLEAN]
      /\ heard' \in [Plugin -> BOOLEAN]
      /\ VoiceOK'
  <2>1. clearConnections(gone) /\ UNCHANGED listens /\ {} \in SUBSET Conn
    BY <1>1, <1>3
  <2> QED
    BY <1>4, <2>1, LoseVoice
<1>6. TypeOK'
  BY <1>1, <1>2, <1>5 DEF Inv, TypeOK
<1>7. Loses(gone, {})
  BY <1>1, <1>3, <1>4, <1>5 DEF Loses
<1> QED
  BY <1>2, <1>3, <1>5, <1>6, <1>7 DEF Inv, Loses

\* The sweep keeps the invariant; what it drops loses its voice mode.
LEMMA SweepStep ==
  ASSUME Inv, sweepStaleConnections
  PROVE  Inv' /\ Loses(stale \cap Connected, {})
<1>1. /\ clearConnections(stale)
      /\ UNCHANGED <<keyOf, stale, listens, known, up>>
  BY DEF sweepStaleConnections, disconnect
<1>2. /\ sse' \in [Stream -> StreamState]
      /\ connections' \in [Conn -> Stream \cup {None}]
      /\ StreamsHaveKeys'
      /\ RegistryMatchesStreams'
      /\ Connected' = Connected \ stale
  BY SweepRegistry
<1>3. PICK gone \in SUBSET Conn : gone = stale
  BY DEF Inv, TypeOK
<1>4. Connected' = (Connected \ gone) \cup {}
  BY <1>2, <1>3
<1>5. /\ enabled' = [i \in Instance |-> enabled[i] \ gone]
      /\ enabled' \in [Instance -> SUBSET Conn]
      /\ aggregate' \in [Instance -> BOOLEAN]
      /\ heard' \in [Plugin -> BOOLEAN]
      /\ VoiceOK'
  <2>1. clearConnections(gone) /\ UNCHANGED listens /\ {} \in SUBSET Conn
    BY <1>1, <1>3
  <2> QED
    BY <1>4, <2>1, LoseVoice
<1>6. TypeOK'
  BY <1>1, <1>2, <1>5 DEF Inv, TypeOK
<1>7. enabled' = [i \in Instance |-> enabled[i] \ (stale \cap Connected)]
  BY <1>3, <1>5 DEF Inv, TypeOK, VoiceOK, EnabledAreConnected
<1>8. Loses(stale \cap Connected, {})
  BY <1>1, <1>2, <1>7 DEF Loses
<1> QED
  BY <1>2, <1>5, <1>6, <1>8 DEF Inv

\* shutdown keeps the invariant; every connection loses its voice mode.
LEMMA ShutdownStep ==
  ASSUME Inv, shutdown
  PROVE  Inv' /\ Loses(Connected, {})
<1>1. /\ clearConnections(Connected)
      /\ up' = FALSE
      /\ UNCHANGED <<keyOf, stale, listens, known>>
  BY DEF shutdown
<1>2. /\ sse' \in [Stream -> StreamState]
      /\ connections' \in [Conn -> Stream \cup {None}]
      /\ StreamsHaveKeys'
      /\ RegistryMatchesStreams'
      /\ Connected' = {}
  BY ShutdownRegistry
<1>3. PICK gone \in SUBSET Conn : gone = Connected
  BY DEF Connected
<1>4. Connected' = (Connected \ gone) \cup {}
  BY <1>2, <1>3
<1>5. /\ enabled' = [i \in Instance |-> enabled[i] \ gone]
      /\ enabled' \in [Instance -> SUBSET Conn]
      /\ aggregate' \in [Instance -> BOOLEAN]
      /\ heard' \in [Plugin -> BOOLEAN]
      /\ VoiceOK'
  <2>1. clearConnections(gone) /\ UNCHANGED listens /\ {} \in SUBSET Conn
    BY <1>1, <1>3
  <2> QED
    BY <1>4, <2>1, LoseVoice
<1>6. TypeOK'
  BY <1>1, <1>2, <1>5 DEF Inv, TypeOK
<1>7. Loses(gone, {})
  BY <1>1, <1>3, <1>4, <1>5 DEF Loses
<1> QED
  BY <1>2, <1>3, <1>5, <1>6, <1>7 DEF Inv, Loses

-----------------------------------------------------------------------------
(* The other steps *)

\* setEnabled keeps the invariant and changes one connection of one instance.
LEMMA SetEnabledStep ==
  ASSUME Inv, NEW i \in Instance, NEW k \in Conn, NEW on \in BOOLEAN,
         setEnabled(i, k, on)
  PROVE  /\ Inv'
         /\ on => k \in Connected
         /\ enabled' = [enabled EXCEPT ![i] = IF on THEN @ \cup {k} ELSE @ \ {k}]
         /\ UNCHANGED <<Connected, listens>>
<1>1. PICK en \in [Instance -> SUBSET Conn] :
        en = [enabled EXCEPT ![i] = IF on THEN @ \cup {k} ELSE @ \ {k}]
  BY DEF Inv, TypeOK
<1>2. /\ publishIfChanged(en, {i})
      /\ on => k \in Connected
      /\ UNCHANGED <<sse, keyOf, connections, stale, listens, known, up>>
  BY <1>1 DEF setEnabled, Connected
<1>3. UNCHANGED Connected
  BY <1>2 DEF Connected, isConnected
<1>4. \A j \in Instance \ {i} : en[j] = enabled[j]
  BY <1>1 DEF Inv, TypeOK
<1>5. /\ enabled' = en
      /\ aggregate' \in [Instance -> BOOLEAN]
      /\ heard' \in [Plugin -> BOOLEAN]
      /\ AggregateExact'
      /\ PluginsHearAggregate'
  <2>1. {i} \in SUBSET Instance /\ UNCHANGED listens
    BY <1>2
  <2> QED
    BY <1>2, <1>4, <2>1, PublishExact DEF Inv, VoiceOK
<1>6. EnabledAreConnected'
  BY <1>1, <1>2, <1>3, <1>5 DEF Inv, TypeOK, VoiceOK, EnabledAreConnected
<1>7. TypeOK'
  BY <1>2, <1>5 DEF Inv, TypeOK
<1>8. StreamsHaveKeys' /\ RegistryMatchesStreams'
  BY <1>2 DEF Inv, StreamsHaveKeys, RegistryMatchesStreams, isConnected
<1> QED
  BY <1>1, <1>2, <1>3, <1>5, <1>6, <1>7, <1>8 DEF Inv, VoiceOK

\* What both plugin steps leave alone.
LEMMA PluginFrame ==
  ASSUME Inv, UNCHANGED <<sse, keyOf, connections, stale, enabled, aggregate, known, up>>,
         listens' \in [Plugin -> Instance \cup {None}], heard' \in [Plugin -> BOOLEAN],
         PluginsHearAggregate'
  PROVE  Inv' /\ UNCHANGED <<Connected, enabled>>
<1>1. UNCHANGED Connected
  BY DEF Connected, isConnected
<1>2. AggregateExact' /\ EnabledAreConnected'
  BY <1>1 DEF Inv, VoiceOK, AggregateExact, EnabledAreConnected
<1>3. TypeOK'
  BY DEF Inv, TypeOK
<1>4. StreamsHaveKeys' /\ RegistryMatchesStreams'
  BY DEF Inv, StreamsHaveKeys, RegistryMatchesStreams, isConnected
<1> QED
  BY <1>1, <1>2, <1>3, <1>4 DEF Inv, VoiceOK

\* A plugin that connects is sent the current value before anything else.
LEMMA PluginConnectsStep ==
  ASSUME Inv, NEW p \in Plugin, NEW i \in Instance, pluginConnects(p, i)
  PROVE  /\ Inv'
         /\ listens' = [listens EXCEPT ![p] = i]
         /\ UNCHANGED <<Connected, enabled>>
<1>1. /\ UNCHANGED <<sse, keyOf, connections, stale, enabled, aggregate, known, up>>
      /\ listens' = [listens EXCEPT ![p] = i]
      /\ heard' = [q \in Plugin |-> IF listens'[q] = i THEN aggregate[i] ELSE heard[q]]
  BY DEF pluginConnects
<1>2. /\ listens' \in [Plugin -> Instance \cup {None}]
      /\ heard' \in [Plugin -> BOOLEAN]
  BY <1>1 DEF Inv, TypeOK
<1>3. ASSUME NEW q \in Plugin, listens'[q] # None
      PROVE  heard'[q] = aggregate'[listens'[q]]
  <2>1. CASE listens'[q] = i
    BY <1>1, <2>1
  <2>2. CASE listens'[q] # i
    <3>1. listens'[q] = listens[q] /\ heard'[q] = heard[q]
      BY <1>1, <2>2 DEF Inv, TypeOK
    <3>2. heard[q] = aggregate[listens[q]]
      BY <1>3, <3>1 DEF Inv, VoiceOK, PluginsHearAggregate
    <3> QED
      BY <1>1, <3>1, <3>2
  <2> QED
    BY <2>1, <2>2
<1>4. PluginsHearAggregate'
  BY <1>3 DEF PluginsHearAggregate
<1> QED
  BY <1>1, <1>2, <1>4, PluginFrame

\* A plugin that closes disturbs nobody else.
LEMMA PluginClosesStep ==
  ASSUME Inv, NEW p \in Plugin, pluginCloses(p)
  PROVE  /\ Inv'
         /\ listens' = [listens EXCEPT ![p] = None]
         /\ UNCHANGED <<Connected, enabled>>
<1>1. /\ UNCHANGED <<sse, keyOf, connections, stale, enabled, aggregate, heard, known, up>>
      /\ listens' = [listens EXCEPT ![p] = None]
  BY DEF pluginCloses
<1>2. /\ listens' \in [Plugin -> Instance \cup {None}]
      /\ heard' \in [Plugin -> BOOLEAN]
  BY <1>1 DEF Inv, TypeOK
<1>3. PluginsHearAggregate'
  BY <1>1 DEF Inv, VoiceOK, TypeOK, PluginsHearAggregate
<1> QED
  BY <1>1, <1>2, <1>3, PluginFrame

\* Pongs, silence and workspace changes leave streams and voice mode alone.
LEMMA OtherStep ==
  ASSUME Inv,
         \/ \E k \in Conn : pong(k) \/ grow(k)
         \/ \E i \in Instance : workspaceChanges(i)
         \/ UNCHANGED vars
  PROVE  Inv' /\ UNCHANGED <<Connected, enabled, listens, heard>>
<1>1. /\ UNCHANGED <<sse, keyOf, connections, enabled, aggregate, listens, heard, up>>
      /\ stale' \subseteq Conn /\ known' \subseteq Instance
  BY DEF Inv, TypeOK, pong, grow, workspaceChanges, vars
<1>2. UNCHANGED Connected
  BY <1>1 DEF Connected, isConnected
<1>3. VoiceOK'
  BY <1>1, <1>2 DEF Inv, VoiceOK, AggregateExact, EnabledAreConnected, PluginsHearAggregate
<1>4. StreamsHaveKeys' /\ RegistryMatchesStreams'
  BY <1>1 DEF Inv, StreamsHaveKeys, RegistryMatchesStreams, isConnected
<1>5. TypeOK'
  BY <1>1 DEF Inv, TypeOK
<1> QED
  BY <1>1, <1>2, <1>3, <1>4, <1>5 DEF Inv

-----------------------------------------------------------------------------
(* Theorems *)

\* Every step keeps the invariant and is one of the abstract kinds.
Abstract ==
  \/ \E gone, new \in SUBSET Conn : Loses(gone, new)
  \/ \E i \in Instance, k \in Conn, on \in BOOLEAN :
       /\ on => k \in Connected
       /\ enabled' = [enabled EXCEPT ![i] = IF on THEN @ \cup {k} ELSE @ \ {k}]
       /\ UNCHANGED <<Connected, listens>>
  \/ \E p \in Plugin, j \in Instance \cup {None} :
       /\ listens' = [listens EXCEPT ![p] = j]
       /\ UNCHANGED <<Connected, enabled>>
  \/ UNCHANGED <<Connected, enabled, listens, heard>>

\* Every step of the server keeps the invariant and is a step of the promise.
LEMMA NextStep == Inv /\ [Next]_vars => Inv' /\ Abstract
<1> SUFFICES ASSUME Inv, [Next]_vars PROVE Inv' /\ Abstract
  OBVIOUS
<1>0. Connected \in SUBSET Conn
  BY DEF Connected
<1>1. ASSUME NEW s \in Stream, NEW k \in Conn, register(s, k) PROVE Inv' /\ Abstract
  <2>1. {k} \cap Connected \in SUBSET Conn /\ {k} \in SUBSET Conn
    OBVIOUS
  <2> QED
    BY <1>1, <2>1, RegisterStep DEF Abstract
<1>2. ASSUME NEW s \in Stream, streamCloses(s) PROVE Inv' /\ Abstract
  <2>1. {keyOf[s]} \cap Connected \in SUBSET Conn /\ {} \in SUBSET Conn
    BY <1>0
  <2> QED
    BY <1>2, <2>1, CloseStep DEF Abstract
<1>3. CASE sweepStaleConnections
  <2>1. stale \cap Connected \in SUBSET Conn /\ {} \in SUBSET Conn
    BY <1>0
  <2> QED
    BY <1>3, <2>1, SweepStep DEF Abstract
<1>4. CASE shutdown
  <2>1. {} \in SUBSET Conn
    OBVIOUS
  <2> QED
    BY <1>0, <1>4, <2>1, ShutdownStep DEF Abstract
<1>5. ASSUME NEW i \in Instance, NEW k \in Conn, NEW on \in BOOLEAN, setEnabled(i, k, on)
      PROVE  Inv' /\ Abstract
  BY <1>5, SetEnabledStep DEF Abstract
<1>6. ASSUME NEW p \in Plugin, NEW i \in Instance, pluginConnects(p, i)
      PROVE  Inv' /\ Abstract
  BY <1>6, PluginConnectsStep DEF Abstract
<1>7. ASSUME NEW p \in Plugin, pluginCloses(p) PROVE Inv' /\ Abstract
  BY <1>7, PluginClosesStep DEF Abstract
<1>8. CASE \/ \E k \in Conn : pong(k) \/ grow(k)
           \/ \E i \in Instance : workspaceChanges(i)
           \/ UNCHANGED vars
  BY <1>8, OtherStep DEF Abstract
<1> QED
  BY <1>1, <1>2, <1>3, <1>4, <1>5, <1>6, <1>7, <1>8 DEF Next

\* The inductive invariant holds in every reachable state.
THEOREM Invariance == Spec => []Inv
BY InitInv, NextStep, PTL DEF Spec

\* Type correctness.
THEOREM TypeCorrect == Spec => []TypeOK
<1>1. Inv => TypeOK
  BY DEF Inv
<1> QED
  BY <1>1, Invariance, PTL

\* No path forgets to recompute the aggregate.
THEOREM AggregateIsExact == Spec => []AggregateExact
<1>1. Inv => AggregateExact
  BY DEF Inv, VoiceOK
<1> QED
  BY <1>1, Invariance, PTL

\* Only live connections keep voice mode on, however the others ended.
THEOREM OnlyConnectedCount == Spec => []EnabledAreConnected
<1>1. Inv => EnabledAreConnected
  BY DEF Inv, VoiceOK
<1> QED
  BY <1>1, Invariance, PTL

\* Listening plugins hold the current aggregate.
THEOREM PluginsAreCurrent == Spec => []PluginsHearAggregate
<1>1. Inv => PluginsHearAggregate
  BY DEF Inv, VoiceOK
<1> QED
  BY <1>1, Invariance, PTL

\* Registered and open streams correspond one to one.
THEOREM RegistryIsExact == Spec => []RegistryMatchesStreams
<1>1. Inv => RegistryMatchesStreams
  BY DEF Inv
<1> QED
  BY <1>1, Invariance, PTL

\* The caches and change notifications implement the promise to the plugins.
THEOREM Implements == Spec => PromiseKept
<1>1. Init => Promise!ChannelInit
  BY DEF Init, Promise!ChannelInit, Connected, isConnected
<1>2. Inv /\ Inv' /\ Abstract => [Promise!ChannelNext]_<<Connected, enabled, listens, heard>>
  <2> SUFFICES ASSUME Inv, Inv', Abstract
               PROVE  [Promise!ChannelNext]_<<Connected, enabled, listens, heard>>
    OBVIOUS
  <2>1. Promise!TellTruth
    <3> SUFFICES ASSUME NEW p \in Plugin, listens'[p] # None
                 PROVE  heard'[p] = (enabled'[listens'[p]] # {})
      BY DEF Promise!TellTruth
    <3>1. listens'[p] \in Instance
      BY DEF Inv, TypeOK
    <3>2. heard'[p] = aggregate'[listens'[p]]
      BY DEF Inv, VoiceOK, PluginsHearAggregate
    <3>3. aggregate'[listens'[p]] <=> enabled'[listens'[p]] # {}
      BY <3>1 DEF Inv, VoiceOK, AggregateExact
    <3>4. aggregate'[listens'[p]] \in BOOLEAN
      BY <3>1 DEF Inv, TypeOK
    <3> QED
      BY <3>2, <3>3, <3>4
  <2>2. ASSUME NEW gone \in SUBSET Conn, NEW new \in SUBSET Conn, Loses(gone, new)
        PROVE  Promise!ChannelNext
    BY <2>1, <2>2 DEF Loses, Promise!ChannelNext, Promise!Lose
  <2>3. ASSUME NEW i \in Instance, NEW k \in Conn, NEW on \in BOOLEAN,
               on => k \in Connected,
               enabled' = [enabled EXCEPT ![i] = IF on THEN @ \cup {k} ELSE @ \ {k}],
               UNCHANGED <<Connected, listens>>
        PROVE  Promise!ChannelNext
    <3>1. CASE on
      BY <2>1, <2>3, <3>1 DEF Promise!ChannelNext, Promise!Want
    <3>2. CASE ~on
      BY <2>1, <2>3, <3>2 DEF Promise!ChannelNext, Promise!Unwant
    <3> QED
      BY <3>1, <3>2
  <2>4. ASSUME NEW p \in Plugin, NEW j \in Instance \cup {None},
               listens' = [listens EXCEPT ![p] = j],
               UNCHANGED <<Connected, enabled>>
        PROVE  Promise!ChannelNext
    BY <2>1, <2>4 DEF Promise!ChannelNext, Promise!Join
  <2> QED
    BY <2>2, <2>3, <2>4 DEF Abstract
<1>3. Inv /\ Inv' /\ [Next]_vars => [Promise!ChannelNext]_(Promise!channelVars)
  BY <1>2, NextStep DEF Promise!channelVars
<1> QED
  BY <1>1, <1>3, Invariance, PTL DEF Spec, PromiseKept, Promise!ChannelSpec

=============================================================================
