------------------------------ MODULE Sessions ------------------------------
(***************************************************************************)
(* The sessions of clients: connection, handshake, login, the way into the *)
(* world, kicks, departures, and the data of the player between storage    *)
(* and Client.player_data (network/server.rs, network/events,              *)
(* clients_container.rs, runtime_plugin.rs).                               *)
(*                                                                         *)
(* A tick drains the network, then every system handles the events of its  *)
(* channel, in any order, and at last the queued commands are applied.     *)
(* The next tick begins when that is done.  A system that returns inside   *)
(* its loop over events leaves the others of its channel for the next      *)
(* tick: the event channel is of a library, and taken to keep them.        *)
(*                                                                         *)
(* Clients (external) answer each message of the handshake once, so one    *)
(* message of it at most is on its way: handshake says which, and where.   *)
(* A client id is used for one connection, which is still to come at first.*)
(* Player data are the set of the changes they include.                    *)
(***************************************************************************)
EXTENDS Naturals, FiniteSets

CONSTANTS
  Client,          \* clients
  Login,           \* logins
  LoginOf,         \* the login a client sends
  None,            \* no login, no data
  Parts,           \* parts of the resource archive, 0 if there is none
  StorageFails,    \* whether reads and writes of player data may fail
  MaxChanges       \* bound on the changes of the data of a login

\* Player data.
PlayerData == SUBSET (1..MaxChanges)

ASSUME SessionAssumption ==
  /\ LoginOf \in [Client -> Login]
  /\ None \notin Login /\ \A changes \in PlayerData : None # changes
  /\ Parts \in Nat
  /\ StorageFails \in BOOLEAN
  /\ MaxChanges \in Nat

VARIABLES
  connection,      \* "coming", "open", "closing", "closed"
  container,       \* ClientsContainer.players
  client_info,     \* the login in Client.client_info
  player_data,     \* Client.player_data
  world_entity,    \* clients whose Client.world_entity is set
  entities,        \* clients that have an entity in the world
  handshake,       \* the message, event or command of the handshake under way
  loaded_parts,    \* parts of the archive the client has
  disconnects,     \* the channel of PlayerDisconnectEvent
  departed,        \* clients removed in this tick: other systems still have their events
  returned,        \* systems that returned early in this tick
  storage,         \* the data of each login in the server storage
  made,            \* history: changes made to the data of a login so far
  lapsed,          \* history: logins whose data were read before the session that had
                   \* them saved them, or that were lost, or overwritten by a plugin
  late,            \* history: clients whose entity was spawned after they left
  server           \* "active", "stopping", "ending", "stopped", or "panic"

client == <<client_info, player_data, world_entity>>
progress == <<handshake, loaded_parts>>
tick == <<disconnects, departed, returned>>
data == <<storage, made, lapsed>>
vars == <<connection, container, client, entities, progress, tick, data, late, server>>

\* Handshake messages at the client, and what it answers to them.
Asked == {"allow", "scheme", "part", "settings"}
Answer == [allow |-> "info", scheme |-> "cache", part |-> "part_loaded",
           settings |-> "settings_loaded"]

\* Messages of the client that are not drained yet, and the events they become.
Sent == {"info", "cache", "part_loaded", "settings_loaded"}
Event == [info |-> "info_event", cache |-> "cache_event",
          part_loaded |-> "media_event", settings_loaded |-> "settings_event"]

Events == {"connection_event", "info_event", "cache_event", "media_event", "settings_event"}

\* "stopping" and "ending" are both ServerState::STOPPING, before and after the last
\* drain: a stop may fall between update_runtime and the drain of a tick.
Running == server \in {"active", "stopping", "ending"}

Init ==
  /\ connection = [c \in Client |-> "coming"]
  /\ container = {}
  /\ client_info = [c \in Client |-> None]
  /\ player_data = [c \in Client |-> None]
  /\ world_entity = {}
  /\ entities = {}
  /\ handshake = [c \in Client |-> "none"]
  /\ loaded_parts = [c \in Client |-> 0]
  /\ disconnects = {}
  /\ departed = {}
  /\ returned = {}
  /\ storage = [l \in Login |-> {}]
  /\ made = [l \in Login |-> 0]
  /\ lapsed = {}
  /\ late = {}
  /\ server = "active"

-----------------------------------------------------------------------------
(* The network.                                                            *)

\* The client answers what it was asked; there are no parts after the last one.
ClientAnswers(c) ==
  /\ connection[c] = "open"
  /\ handshake[c] \in Asked
  /\ handshake[c] = "part" => loaded_parts[c] < Parts
  /\ handshake' = [handshake EXCEPT ![c] = Answer[@]]
  /\ loaded_parts' = IF handshake[c] = "part"
                     THEN [loaded_parts EXCEPT ![c] = @ + 1] ELSE loaded_parts
  /\ UNCHANGED <<connection, container, client, entities, tick, data, late, server>>

\* A client leaves, or its connection is lost.
Leave(c) ==
  /\ connection[c] = "open"
  /\ connection' = [connection EXCEPT ![c] = "closing"]
  /\ UNCHANGED <<container, client, entities, progress, tick, data, late, server>>

-----------------------------------------------------------------------------
(* The tick.                                                               *)

\* The systems that have something to do: those whose channel is not empty, and
\* that neither returned early in this tick nor do so because the server stops.
Idle ==
  \A c \in Client :
    /\ handshake[c] \in Events => \/ handshake[c] \in returned
                                  \/ server # "active" /\
                                     handshake[c] \in {"info_event", "cache_event", "media_event"}
    /\ handshake[c] # "spawning"
    /\ disconnects = {}

\* What drain_network_system makes of new clients, of the ends of connections, and of
\* the messages of all clients in the container, those that left included.
Drained(came, left, heard) ==
  /\ connection' = [c \in Client |-> IF c \in came THEN "open"
                                     ELSE IF c \in left THEN "closed"
                                     ELSE connection[c]]
  /\ container' = container \cup came
  /\ disconnects' = left \cap container
  /\ handshake' = [c \in Client |-> IF c \in came THEN "connection_event"
                                    ELSE IF c \in heard THEN Event[handshake[c]]
                                    ELSE handshake[c]]

\* drain_network_system, at the start of a tick that has something to do.
Drain ==
  /\ server \in {"active", "stopping"}
  /\ Idle
  /\ \E came \in SUBSET {c \in Client : connection[c] = "coming"},
        left \in SUBSET {c \in Client : connection[c] = "closing"},
        heard \in SUBSET {c \in container : handshake[c] \in Sent} :
       /\ came \cup left \cup heard # {} \/ returned # {} \/ departed # {}
       /\ Drained(came, left, heard)
  /\ returned' = {} /\ departed' = {}
  /\ server' = IF server = "stopping" THEN "ending" ELSE server
  /\ UNCHANGED <<client, entities, loaded_parts, data, late>>

\* on_connection.
OnConnection(c) ==
  /\ Running
  /\ handshake[c] = "connection_event"
  /\ handshake' = [handshake EXCEPT ![c] = "allow"]
  /\ UNCHANGED <<connection, container, client, entities, loaded_parts, tick, data,
                 late, server>>

\* Mutation: the connection is not closed.
Disconnected_StaysOpen(cs) ==
  /\ client_info' = [c \in Client |-> IF c \in cs THEN None ELSE client_info[c]]
  /\ UNCHANGED connection

\* Client::disconnect, for a set of clients.
Disconnected(cs) ==
  /\ client_info' = [c \in Client |-> IF c \in cs THEN None ELSE client_info[c]]
  /\ connection' = [c \in Client |-> IF c \in cs /\ connection[c] = "open" THEN "closing"
                                     ELSE connection[c]]

\* Mutation: the client itself is looked for, not the others.
InUse_Self(c) == client_info[c] = LoginOf[c]

\* The login of a client belongs to another client in the container.
InUse(c) == \E d \in container \ {c} : client_info[d] = LoginOf[c]

\* on_connection_info for a login in use, or if the player data cannot be read.
\* It returns: the other events of the channel wait.
RefuseLogin(c) ==
  /\ server = "active"
  /\ handshake[c] = "info_event" /\ "info_event" \notin returned
  /\ InUse(c) \/ StorageFails
  /\ Disconnected({c})
  /\ handshake' = [handshake EXCEPT ![c] = "none"]
  /\ returned' = returned \cup {"info_event"}
  /\ UNCHANGED <<container, player_data, world_entity, entities, loaded_parts,
                 disconnects, departed, data, late, server>>

\* The clients in the container that have the data of a login, and will save them.
Holders(l) == {c \in container : LoginOf[c] = l /\ player_data[c] # None}

\* on_connection_info.
OnConnectionInfo(c) ==
  /\ server = "active"
  /\ handshake[c] = "info_event" /\ "info_event" \notin returned
  /\ ~InUse(c)
  /\ client_info' = [client_info EXCEPT ![c] = LoginOf[c]]
  /\ player_data' = [player_data EXCEPT ![c] = storage[LoginOf[c]]]
  /\ handshake' = [handshake EXCEPT ![c] = IF Parts > 0 THEN "scheme" ELSE "media_event"]
  /\ lapsed' = IF Holders(LoginOf[c]) # {} THEN lapsed \cup {LoginOf[c]} ELSE lapsed
  /\ UNCHANGED <<connection, container, world_entity, entities, loaded_parts,
                 tick, storage, made, late, server>>

\* on_resources_has_cache: the client has the archive already, or gets the first
\* part of it.
OnResourcesHasCache(c) ==
  /\ server = "active"
  /\ handshake[c] = "cache_event" /\ "cache_event" \notin returned
  /\ \/ /\ handshake' = [handshake EXCEPT ![c] = "media_event"]
        /\ loaded_parts' = [loaded_parts EXCEPT ![c] = Parts]
        /\ UNCHANGED returned
     \/ /\ handshake' = [handshake EXCEPT ![c] = "part"]
        /\ returned' = returned \cup {"cache_event"}
        /\ UNCHANGED loaded_parts
  /\ UNCHANGED <<connection, container, client, entities, disconnects, departed, data,
                 late, server>>

\* Mutation: off by one, the last part is not recognised.
LastPart_OffByOne(c) == loaded_parts[c] > Parts

\* The client has all parts, or there are none, or it had them cached.
LastPart(c) == loaded_parts[c] >= Parts

\* on_media_loaded: the next part, or the settings.
OnMediaLoaded(c) ==
  /\ server = "active"
  /\ handshake[c] = "media_event" /\ "media_event" \notin returned
  /\ handshake' = [handshake EXCEPT ![c] = IF LastPart(c) THEN "settings" ELSE "part"]
  /\ returned' = IF LastPart(c) THEN returned ELSE returned \cup {"media_event"}
  /\ UNCHANGED <<connection, container, client, entities, loaded_parts, disconnects,
                 departed, data, late, server>>

\* on_settings_loaded queues a SpawnPlayer, whether or not the client is still
\* there and the server goes on.
OnSettingsLoaded(c) ==
  /\ Running
  /\ handshake[c] = "settings_event"
  /\ handshake' = [handshake EXCEPT ![c] = "spawning"]
  /\ UNCHANGED <<connection, container, client, entities, loaded_parts, tick, data,
                 late, server>>

\* SpawnPlayer::apply.  The skin needs the player data, the tag the login.
SpawnPlayer(c) ==
  /\ Running
  /\ handshake[c] = "spawning"
  /\ handshake' = [handshake EXCEPT ![c] = "spawned"]
  /\ \/ /\ player_data[c] # None /\ client_info[c] # None
        /\ entities' = entities \cup {c}
        /\ world_entity' = world_entity \cup {c}
        /\ late' = IF c \in container THEN late ELSE late \cup {c}
        /\ UNCHANGED server
     \/ /\ player_data[c] = None \/ client_info[c] = None
        /\ server' = "panic"
        /\ UNCHANGED <<entities, world_entity, late>>
  /\ UNCHANGED <<connection, container, client_info, player_data, loaded_parts, tick, data>>

\* Mutation: the data of a client without a world are not saved.
Saves_InWorld(c) == player_data[c] # None /\ c \in world_entity

\* save_player_data writes if there are data.
Saves(c) == player_data[c] # None

\* Mutation: the entity of a client is despawned only if the client is logged in.
Despawned_LoggedIn(c) == IF client_info[c] = None THEN {} ELSE {c} \cap world_entity

\* The entity that is despawned when a client departs.
Despawned(c) == {c} \cap world_entity

\* on_disconnect: a failed save is logged, and nothing else.
OnDisconnect(c) ==
  /\ Running
  /\ c \in disconnects
  /\ disconnects' = disconnects \ {c}
  /\ \/ /\ storage' = IF Saves(c) THEN [storage EXCEPT ![LoginOf[c]] = player_data[c]]
                                  ELSE storage
        /\ UNCHANGED lapsed
     \/ /\ StorageFails /\ Saves(c)
        /\ lapsed' = lapsed \cup {LoginOf[c]}
        /\ UNCHANGED storage
  /\ entities' = entities \ Despawned(c)
  /\ container' = container \ {c}
  /\ departed' = departed \cup {c}
  /\ UNCHANGED <<connection, client, progress, returned, made, late, server>>

-----------------------------------------------------------------------------
(* The console, the game, and the end.                                     *)

\* ClientsContainer::get_by_login; it takes the first one.
GetByLogin(l) == {c \in container : client_info[c] = l}

\* command_kick.
CommandKick(l) ==
  /\ Running
  /\ \E c \in GetByLogin(l) : Disconnected({c})
  /\ UNCHANGED <<container, player_data, world_entity, entities, progress, tick, data,
                 late, server>>

\* The data of a player change: an action on its inventory, of its own, of a plugin or of
\* the console.  An action of the tick in which it left comes after the save.
ChangeData(c) ==
  /\ Running
  /\ c \in container \cup departed
  /\ player_data[c] # None
  /\ LET l == LoginOf[c] IN
       /\ made[l] < MaxChanges
       /\ made' = [made EXCEPT ![l] = @ + 1]
       /\ player_data' = [player_data EXCEPT ![c] = @ \cup {made[l] + 1}]
       /\ lapsed' = IF c \in container THEN lapsed ELSE lapsed \cup {l}
  /\ UNCHANGED <<connection, container, client_info, world_entity, entities, progress,
                 tick, storage, late, server>>

\* save_player_data_raw: a plugin writes data of a login, which it read at some time
\* and may have changed, past the sessions.  The write may stand only if no session has
\* the data: a session will save over it.
SavePlayerData(l) ==
  /\ Running
  /\ \E read \in SUBSET (1..made[l]) : storage' = [storage EXCEPT ![l] = read]
  /\ lapsed' = IF Holders(l) = {} THEN lapsed \cup {l} ELSE lapsed
  /\ UNCHANGED <<connection, container, client, entities, progress, tick, made, late,
                 server>>

\* Mutation: the wrong ServerState.
Stop_Started ==
  /\ server = "active"
  /\ server' = "started"
  /\ UNCHANGED <<connection, container, client, entities, progress, tick, data, late>>

\* RuntimePlugin::stop.
Stop ==
  /\ server = "active"
  /\ server' = "stopping"
  /\ UNCHANGED <<connection, container, client, entities, progress, tick, data, late>>

\* update_runtime, at the start of a tick: disconnect_all empties the container, so the
\* ends of these connections find no client.  The rest of that last tick does nothing
\* to clients.
UpdateRuntime ==
  /\ server \in {"stopping", "ending"}
  /\ Idle
  /\ server' = "stopped"
  /\ Disconnected(container)
  /\ container' = {}
  /\ lapsed' = lapsed \cup {l \in Login : Holders(l) # {}}
  /\ UNCHANGED <<player_data, world_entity, entities, progress, tick, storage, made, late>>

-----------------------------------------------------------------------------

ClientStep(c) == ClientAnswers(c) \/ Leave(c)

Handle(c) ==
  \/ OnConnection(c) \/ RefuseLogin(c) \/ OnConnectionInfo(c) \/ OnResourcesHasCache(c)
  \/ OnMediaLoaded(c) \/ OnSettingsLoaded(c) \/ SpawnPlayer(c) \/ OnDisconnect(c)

Next ==
  \/ Drain \/ Stop \/ UpdateRuntime
  \/ \E c \in Client : ClientStep(c) \/ Handle(c) \/ ChangeData(c)
  \/ \E l \in Login : CommandKick(l) \/ SavePlayerData(l)

Spec == Init /\ [][Next]_vars

\* The drain takes something of client c.
DrainOf(c) ==
  Drain /\ (connection'[c] # connection[c] \/ handshake'[c] # handshake[c])

\* Ticks go on, take what has come of every client, and handle what they took: of the
\* events that a system leaves behind, the oldest is the first of the next tick.
\* Connected clients answer.
FairSpec ==
  /\ Spec
  /\ WF_vars(Drain)
  /\ \A c \in Client : WF_vars(ClientAnswers(c)) /\ WF_vars(DrainOf(c)) /\ WF_vars(Handle(c))

-----------------------------------------------------------------------------
(* Properties.                                                             *)

Handshake == {"none", "spawning", "spawned"} \cup Asked \cup Sent \cup Events

\* Every variable has its type.
TypeOK ==
  /\ connection \in [Client -> {"coming", "open", "closing", "closed"}]
  /\ container \subseteq Client
  /\ client_info \in [Client -> Login \cup {None}]
  /\ player_data \in [Client -> PlayerData \cup {None}]
  /\ world_entity \subseteq Client /\ entities \subseteq Client
  /\ handshake \in [Client -> Handshake]
  /\ loaded_parts \in [Client -> 0..Parts]
  /\ disconnects \subseteq Client /\ departed \subseteq Client
  /\ returned \subseteq Events
  /\ storage \in [Login -> PlayerData]
  /\ made \in [Login -> 0..MaxChanges]
  /\ lapsed \subseteq Login /\ late \subseteq Client
  /\ server \in {"active", "stopping", "ending", "stopped", "panic"}

\* No two clients are logged in under the same login (on_connection_info.rs, "This
\* account is already logged in from another session"), however their connections,
\* kicks and departures interleave.
OneSessionPerLogin ==
  \A c, d \in container :
    c # d /\ client_info[c] # None => client_info[c] # client_info[d]

\* No change of player data is lost, except in the cases that make a login lapse: while
\* a client in the container has the data of a login, it is the only one and has all
\* changes, whatever plugins store meanwhile; otherwise the storage has them all.
\* (on_connection_info reads, on_disconnect saves; kicked clients keep their data until
\* then.)
ChangesKept ==
  \A l \in Login \ lapsed :
    /\ \A c, d \in Holders(l) : c = d
    /\ \A c \in Holders(l) : player_data[c] = 1..made[l]
    /\ Holders(l) = {} => storage[l] = 1..made[l]

\* The clients in the container that have a world entity have a living one, which
\* on_disconnect and many others unwrap, and all other entities of players are those that
\* were spawned after their client had left.
EntitiesOfSessions ==
  server # "stopped" => entities \ late = container \cap world_entity

\* What a client becomes when its login is accepted and later.
PastLogin == Handshake \ {"none", "connection_event", "allow", "info", "info_event"}

\* A client whose connection is open and whose login was accepted has its login and its
\* data, both of which SpawnPlayer unwraps: a kick takes the login away from under the
\* messages that are on their way, but never without closing the connection.
LoggedInWhileOpen ==
  \A c \in Client : connection[c] = "open" /\ handshake[c] \in PastLogin =>
    client_info[c] = LoginOf[c] /\ player_data[c] # None

\* Nobody gets the settings, and enters the world, without the whole archive of
\* resources (on_media_loaded.rs), in one piece from the cache or part by part.
SettingsAfterResources ==
  \A c \in Client :
    handshake[c] \in {"settings", "settings_loaded", "settings_event", "spawning", "spawned"}
      => loaded_parts[c] = Parts

\* Who connects is in the world in the end, or is disconnected, or the server stops: no
\* handshake waits for ever, although systems return early and leave events behind.
HandshakeEnds ==
  \A c \in Client :
    connection[c] = "coming" ~>
      c \in world_entity \/ connection[c] = "closed" \/ server # "active"

-----------------------------------------------------------------------------
(* Violated.                                                               *)

\* Client.player_data is "loaded after login and saved on disconnect": without failures
\* of the storage, the data of a client that goes out of the container are stored.
SavedOnDisconnect ==
  [][~StorageFails =>
       \A c \in container \ container' :
         player_data[c] # None => storage'[LoginOf[c]] = player_data[c]]_vars
=============================================================================
