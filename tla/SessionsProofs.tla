--------------------------- MODULE SessionsProofs ---------------------------
(***************************************************************************)
(* Proofs about Sessions, for any clients, logins, parts and bounds:       *)
(* types, one session per login, the whole archive before the settings,    *)
(* entities of sessions, that no change of player data is lost, and that   *)
(* a handshake may always go on and never goes back.                       *)
(***************************************************************************)
EXTENDS Sessions, TLAPS

\* One client that connects is new; an end of a connection in the channel is of a client
\* that is still in the container.
Registered ==
  /\ \A c \in Client : connection[c] = "coming" =>
       /\ c \notin container /\ c \notin world_entity /\ c \notin late
       /\ client_info[c] = None /\ player_data[c] = None
  /\ disconnects \subseteq container
  /\ late \cap container = {}
  /\ \A c \in Client : client_info[c] \in {LoginOf[c], None}
  /\ \A c \in Client : handshake[c] # "none" => connection[c] # "coming"

USE DEF Running, Asked, Sent, Events, Handshake

-----------------------------------------------------------------------------
(* Types.                                                                  *)

\* The step of the types.
LEMMA TypeStep == ASSUME TypeOK, [Next]_vars PROVE TypeOK'
<1> USE SessionAssumption DEF TypeOK
<1>1. CASE Drain
  <2>1. PICK came \in SUBSET {c \in Client : connection[c] = "coming"},
             left \in SUBSET {c \in Client : connection[c] = "closing"},
             heard \in SUBSET {c \in container : handshake[c] \in Sent} :
          Drained(came, left, heard)
    BY <1>1, Zenon DEF Drain
  <2>2. \A m \in Sent : Event[m] \in Events
    BY DEF Event
  <2>3. handshake' \in [Client -> Handshake]
    BY <2>1, <2>2 DEF Drained
  <2>4. /\ connection' \in [Client -> {"coming", "open", "closing", "closed"}]
        /\ container' \subseteq Client /\ disconnects' \subseteq Client
    BY <2>1 DEF Drained
  <2> QED
    BY <1>1, <2>3, <2>4 DEF Drain, client, data
<1>2. CASE Stop
  BY <1>2 DEF Stop, client, progress, tick, data
<1>3. CASE UpdateRuntime
  BY <1>3 DEF UpdateRuntime, Disconnected, client, progress, tick, data
<1>4. ASSUME NEW c \in Client, ClientAnswers(c) PROVE TypeOK'
  <2>1. \A m \in Asked : Answer[m] \in Sent
    BY DEF Answer
  <2> QED
    BY <1>4, <2>1 DEF ClientAnswers, client, tick, data
<1>5. ASSUME NEW c \in Client, Leave(c) PROVE TypeOK'
  BY <1>5 DEF Leave, client, progress, tick, data
<1>6. ASSUME NEW c \in Client, OnConnection(c) PROVE TypeOK'
  BY <1>6 DEF OnConnection, client, tick, data
<1>7. ASSUME NEW c \in Client, RefuseLogin(c) PROVE TypeOK'
  BY <1>7 DEF RefuseLogin, Disconnected, data
<1>8. ASSUME NEW c \in Client, OnConnectionInfo(c) PROVE TypeOK'
  BY <1>8 DEF OnConnectionInfo, tick
<1>9. ASSUME NEW c \in Client, OnResourcesHasCache(c) PROVE TypeOK'
  <2>1. Parts \in 0..Parts
    OBVIOUS
  <2>2. loaded_parts' \in [Client -> 0..Parts]
    BY <1>9, <2>1 DEF OnResourcesHasCache
  <2>3. handshake' \in [Client -> Handshake] /\ returned' \subseteq Events
    BY <1>9 DEF OnResourcesHasCache
  <2> QED
    BY <1>9, <2>2, <2>3 DEF OnResourcesHasCache, client, data
<1>10. ASSUME NEW c \in Client, OnMediaLoaded(c) PROVE TypeOK'
  BY <1>10 DEF OnMediaLoaded, client, data
<1>11. ASSUME NEW c \in Client, OnSettingsLoaded(c) PROVE TypeOK'
  BY <1>11 DEF OnSettingsLoaded, client, tick, data
<1>12. ASSUME NEW c \in Client, SpawnPlayer(c) PROVE TypeOK'
  BY <1>12 DEF SpawnPlayer, tick, data
<1>13. ASSUME NEW c \in Client, OnDisconnect(c) PROVE TypeOK'
  <2>1. storage' \in [Login -> PlayerData]
    <3>1. CASE Saves(c) /\ storage' = [storage EXCEPT ![LoginOf[c]] = player_data[c]]
      <4>1. player_data[c] \in PlayerData
        BY <3>1 DEF Saves
      <4> QED
        BY <3>1, <4>1
    <3>2. CASE storage' = storage
      BY <3>2
    <3> QED
      BY <1>13, <3>1, <3>2 DEF OnDisconnect
  <2>2. lapsed' \subseteq Login
    BY <1>13 DEF OnDisconnect
  <2> QED
    BY <1>13, <2>1, <2>2 DEF OnDisconnect, client, progress
<1>14. ASSUME NEW l \in Login, CommandKick(l) PROVE TypeOK'
  BY <1>14 DEF CommandKick, GetByLogin, Disconnected, progress, tick, data
<1>15. ASSUME NEW c \in Client, ChangeData(c) PROVE TypeOK'
  <2>1. LoginOf[c] \in Login /\ player_data[c] \in PlayerData
    BY <1>15 DEF ChangeData
  <2>2. made[LoginOf[c]] + 1 \in 1..MaxChanges
    BY <1>15, <2>1 DEF ChangeData
  <2>3. player_data[c] \cup {made[LoginOf[c]] + 1} \in PlayerData
    BY <2>1, <2>2 DEF PlayerData
  <2>4. made' \in [Login -> 0..MaxChanges]
    BY <1>15, <2>1, <2>2 DEF ChangeData
  <2>5. player_data' \in [Client -> PlayerData \cup {None}]
    BY <1>15, <2>3 DEF ChangeData
  <2> QED
    BY <1>15, <2>1, <2>4, <2>5 DEF ChangeData, progress, tick
<1>17. ASSUME NEW l \in Login, SavePlayerData(l) PROVE TypeOK'
  <2>1. \A read \in SUBSET (1..made[l]) : read \in PlayerData
    <3>1. made[l] \in 0..MaxChanges
      OBVIOUS
    <3>2. 1..made[l] \subseteq 1..MaxChanges
      BY <3>1
    <3> QED
      BY <3>2 DEF PlayerData
  <2>2. storage' \in [Login -> PlayerData] /\ lapsed' \subseteq Login
    BY <1>17, <2>1 DEF SavePlayerData
  <2> QED
    BY <1>17, <2>2 DEF SavePlayerData, client, progress, tick
<1>16. CASE UNCHANGED vars
  BY <1>16 DEF vars, client, progress, tick, data
<1> QED
  BY <1>1, <1>2, <1>3, <1>4, <1>5, <1>6, <1>7, <1>8, <1>9, <1>10, <1>11, <1>12, <1>13,
     <1>14, <1>15, <1>16, <1>17 DEF Next, ClientStep, Handle

\* Every variable of Sessions always has its type.
THEOREM TypeCorrect == Spec => []TypeOK
<1>1. Init => TypeOK
  <2> SUFFICES ASSUME Init PROVE TypeOK
    OBVIOUS
  <2>1. 0 \in 0..Parts /\ 0 \in 0..MaxChanges /\ {} \in PlayerData
    BY SessionAssumption DEF PlayerData
  <2>2. /\ connection \in [Client -> {"coming", "open", "closing", "closed"}]
        /\ client_info \in [Client -> Login \cup {None}]
        /\ handshake \in [Client -> Handshake]
        /\ loaded_parts \in [Client -> 0..Parts]
        /\ made \in [Login -> 0..MaxChanges]
    BY <2>1 DEF Init
  <2>3. /\ player_data \in [Client -> PlayerData \cup {None}]
        /\ storage \in [Login -> PlayerData]
    BY <2>1 DEF Init
  <2> QED
    BY <2>2, <2>3 DEF Init, TypeOK
<1> QED
  BY <1>1, TypeStep, PTL DEF Spec

-----------------------------------------------------------------------------
(* Clients and the container.                                              *)

\* What a drain does, for the proofs below.
LEMMA DrainCases ==
  ASSUME Drain
  PROVE  \E came \in SUBSET {c \in Client : connection[c] = "coming"},
            left \in SUBSET {c \in Client : connection[c] = "closing"},
            heard \in SUBSET {c \in container : handshake[c] \in Sent} :
           Drained(came, left, heard)
  BY Zenon DEF Drain

\* The step of what is registered.
LEMMA RegisteredStep == ASSUME TypeOK, Registered, [Next]_vars PROVE Registered'
<1> USE SessionAssumption DEF TypeOK, Registered
<1>1. CASE Drain
  <2>1. PICK came \in SUBSET {c \in Client : connection[c] = "coming"},
             left \in SUBSET {c \in Client : connection[c] = "closing"},
             heard \in SUBSET {c \in container : handshake[c] \in Sent} :
          Drained(came, left, heard)
    BY <1>1, DrainCases
  <2>2. UNCHANGED <<client_info, player_data, world_entity, late>>
    BY <1>1 DEF Drain, client
  <2>3. \A c \in Client : connection'[c] = "coming" => connection[c] = "coming" /\ c \notin came
    BY <2>1 DEF Drained
  <2>4. \A c \in Client : c \in came => handshake[c] = "none" /\ c \notin late
    BY <2>1
  <2>5. \A c \in Client : handshake'[c] # "none" => handshake[c] # "none" \/ c \in came
    BY <2>1 DEF Drained
  <2>6. container' = container \cup came /\ disconnects' \subseteq container'
    BY <2>1 DEF Drained
  <2> QED
    BY <2>1, <2>2, <2>3, <2>4, <2>5, <2>6
<1>2. CASE Stop
  BY <1>2 DEF Stop, client, progress, tick, data
<1>3. CASE UpdateRuntime
  <2>1. Client = {} \/ disconnects = {}
    BY <1>3 DEF UpdateRuntime, Idle
  <2> QED
    BY <1>3, <2>1 DEF UpdateRuntime, Disconnected, client, progress, tick, data
<1>4. ASSUME NEW c \in Client, ClientAnswers(c) PROVE Registered'
  BY <1>4 DEF ClientAnswers, client, tick, data
<1>5. ASSUME NEW c \in Client, Leave(c) PROVE Registered'
  BY <1>5 DEF Leave, client, progress, tick, data
<1>6. ASSUME NEW c \in Client, OnConnection(c) PROVE Registered'
  BY <1>6 DEF OnConnection, client, tick, data
<1>7. ASSUME NEW c \in Client, RefuseLogin(c) PROVE Registered'
  BY <1>7 DEF RefuseLogin, Disconnected, data
<1>8. ASSUME NEW c \in Client, OnConnectionInfo(c) PROVE Registered'
  BY <1>8 DEF OnConnectionInfo, tick
<1>9. ASSUME NEW c \in Client, OnResourcesHasCache(c) PROVE Registered'
  BY <1>9 DEF OnResourcesHasCache, client, data
<1>10. ASSUME NEW c \in Client, OnMediaLoaded(c) PROVE Registered'
  BY <1>10 DEF OnMediaLoaded, client, data
<1>11. ASSUME NEW c \in Client, OnSettingsLoaded(c) PROVE Registered'
  BY <1>11 DEF OnSettingsLoaded, client, tick, data
<1>12. ASSUME NEW c \in Client, SpawnPlayer(c) PROVE Registered'
  BY <1>12 DEF SpawnPlayer, tick, data
<1>13. ASSUME NEW c \in Client, OnDisconnect(c) PROVE Registered'
  BY <1>13 DEF OnDisconnect, client, progress
<1>14. ASSUME NEW l \in Login, CommandKick(l) PROVE Registered'
  BY <1>14 DEF CommandKick, GetByLogin, Disconnected, progress, tick, data
<1>15. ASSUME NEW c \in Client, ChangeData(c) PROVE Registered'
  BY <1>15 DEF ChangeData, progress, tick
<1>17. ASSUME NEW l \in Login, SavePlayerData(l) PROVE Registered'
  BY <1>17 DEF SavePlayerData, client, progress, tick
<1>16. CASE UNCHANGED vars
  BY <1>16 DEF vars, client, progress, tick, data
<1> QED
  BY <1>1, <1>2, <1>3, <1>4, <1>5, <1>6, <1>7, <1>8, <1>9, <1>10, <1>11, <1>12, <1>13,
     <1>14, <1>15, <1>16, <1>17 DEF Next, ClientStep, Handle

LEMMA RegisteredInvariant == Spec => [](TypeOK /\ Registered)
<1>1. Init => Registered
  BY SessionAssumption DEF Init, Registered
<1> QED
  BY <1>1, TypeStep, RegisteredStep, TypeCorrect, PTL DEF Spec

-----------------------------------------------------------------------------
(* One session per login.                                                  *)

\* Only a login changes a login, and it looks at all others in the container.
LEMMA LoginStep ==
  ASSUME TypeOK, Registered, OneSessionPerLogin, [Next]_vars
  PROVE  OneSessionPerLogin'
<1> USE SessionAssumption DEF TypeOK, OneSessionPerLogin
<1>1. CASE Drain
  <2>1. PICK came \in SUBSET {c \in Client : connection[c] = "coming"},
             left \in SUBSET {c \in Client : connection[c] = "closing"},
             heard \in SUBSET {c \in container : handshake[c] \in Sent} :
          Drained(came, left, heard)
    BY <1>1, DrainCases
  <2>2. \A c \in container' : c \in container \/ client_info[c] = None
    BY <2>1 DEF Drained, Registered
  <2> QED
    BY <1>1, <2>2 DEF Drain, client
<1>2. ASSUME NEW c \in Client, OnConnectionInfo(c) PROVE OneSessionPerLogin'
  <2>1. \A d \in container \ {c} : client_info[d] # LoginOf[c]
    BY <1>2 DEF OnConnectionInfo, InUse
  <2> QED
    BY <1>2, <2>1 DEF OnConnectionInfo
<1>3. ASSUME NEW cs \in SUBSET Client, Disconnected(cs), container' \subseteq container
      PROVE  OneSessionPerLogin'
  BY <1>3 DEF Disconnected
<1>4. ASSUME UNCHANGED client_info, container' \subseteq container
      PROVE  OneSessionPerLogin'
  BY <1>4
<1>5. CASE UpdateRuntime
  BY <1>3, <1>5 DEF UpdateRuntime
<1>6. ASSUME NEW c \in Client, RefuseLogin(c) PROVE OneSessionPerLogin'
  BY <1>3, <1>6 DEF RefuseLogin
<1>9. ASSUME NEW l \in Login, CommandKick(l) PROVE OneSessionPerLogin'
  BY <1>3, <1>9 DEF CommandKick, GetByLogin
<1>10. ASSUME NEW l \in Login, SavePlayerData(l) PROVE OneSessionPerLogin'
  BY <1>4, <1>10 DEF SavePlayerData, client
<1>7. CASE Stop \/ UNCHANGED vars
  BY <1>4, <1>7 DEF Stop, vars, client
<1>8. ASSUME NEW c \in Client,
             \/ ClientStep(c) \/ OnConnection(c) \/ OnResourcesHasCache(c) \/ OnMediaLoaded(c)
             \/ OnSettingsLoaded(c) \/ SpawnPlayer(c) \/ OnDisconnect(c) \/ ChangeData(c)
      PROVE  OneSessionPerLogin'
  BY <1>4, <1>8 DEF ClientStep, ClientAnswers, Leave, OnConnection, OnResourcesHasCache,
     OnMediaLoaded, OnSettingsLoaded, SpawnPlayer, OnDisconnect, ChangeData, client
<1> QED
  BY <1>1, <1>2, <1>5, <1>6, <1>7, <1>8, <1>9, <1>10 DEF Next, Handle

\* No two clients in the container are logged in under one login, whatever connections,
\* kicks and departures come in between (on_connection_info.rs).
THEOREM OneSessionPerLoginHolds == Spec => []OneSessionPerLogin
<1>1. Init => OneSessionPerLogin
  BY DEF Init, OneSessionPerLogin
<1> QED
  BY <1>1, LoginStep, RegisteredInvariant, PTL DEF Spec

LEMMA OpenStep ==
  ASSUME TypeOK, Registered, LoggedInWhileOpen, [Next]_vars
  PROVE  LoggedInWhileOpen'
<1> USE SessionAssumption DEF TypeOK, LoggedInWhileOpen, PastLogin
<1>1. CASE Drain
  <2>1. PICK came \in SUBSET {c \in Client : connection[c] = "coming"},
             left \in SUBSET {c \in Client : connection[c] = "closing"},
             heard \in SUBSET {c \in container : handshake[c] \in Sent} :
          Drained(came, left, heard)
    BY <1>1, DrainCases
  <2> QED
    BY <1>1, <2>1 DEF Drain, Drained, Event, client
<1>2. ASSUME NEW c \in Client, ClientAnswers(c) PROVE LoggedInWhileOpen'
  BY <1>2 DEF ClientAnswers, Answer, client
<1>3. ASSUME NEW c \in Client, OnConnectionInfo(c) PROVE LoggedInWhileOpen'
  <2>1. LoginOf[c] \in Login /\ storage[LoginOf[c]] # None
    OBVIOUS
  <2> QED
    BY <1>3, <2>1 DEF OnConnectionInfo
<1>4. ASSUME NEW c \in Client, ChangeData(c) PROVE LoggedInWhileOpen'
  <2>1. LoginOf[c] \in Login /\ player_data[c] \in PlayerData
    BY <1>4 DEF ChangeData
  <2>2. player_data[c] \cup {made[LoginOf[c]] + 1} \in PlayerData
    BY <1>4, <2>1 DEF ChangeData, PlayerData
  <2>3. player_data[c] \cup {made[LoginOf[c]] + 1} # None
    BY <2>2
  <2> QED
    BY <1>4, <2>3 DEF ChangeData, progress
<1>5. ASSUME NEW c \in Client, RefuseLogin(c) PROVE LoggedInWhileOpen'
  BY <1>5 DEF RefuseLogin, Disconnected
<1>9. ASSUME NEW l \in Login, CommandKick(l) PROVE LoggedInWhileOpen'
  BY <1>9 DEF CommandKick, GetByLogin, Disconnected, progress
<1>10. ASSUME NEW l \in Login, SavePlayerData(l) PROVE LoggedInWhileOpen'
  BY <1>10 DEF SavePlayerData, client, progress
<1>6. CASE UpdateRuntime
  BY <1>6 DEF UpdateRuntime, Disconnected, progress
<1>7. ASSUME NEW c \in Client,
             \/ Leave(c) \/ OnConnection(c) \/ OnResourcesHasCache(c) \/ OnMediaLoaded(c)
             \/ OnSettingsLoaded(c) \/ SpawnPlayer(c) \/ OnDisconnect(c)
      PROVE  LoggedInWhileOpen'
  BY <1>7 DEF Leave, OnConnection, OnResourcesHasCache, OnMediaLoaded, OnSettingsLoaded,
     SpawnPlayer, OnDisconnect, client, progress
<1>8. CASE Stop \/ UNCHANGED vars
  BY <1>8 DEF Stop, vars, client, progress
<1> QED
  BY <1>1, <1>2, <1>3, <1>4, <1>5, <1>6, <1>7, <1>8, <1>9, <1>10 DEF Next, ClientStep, Handle

\* Who has logged in and is connected has its login and its data, which the spawn unwraps
\* (Client::disconnect, Client::get_player_spawn_components).
THEOREM LoggedInWhileOpenHolds == Spec => []LoggedInWhileOpen
<1>1. Init => LoggedInWhileOpen
  BY DEF Init, LoggedInWhileOpen
<1> QED
  BY <1>1, OpenStep, RegisteredInvariant, PTL DEF Spec

-----------------------------------------------------------------------------
(* Resources before settings, and entities.                                *)

LEMMA ResourcesStep ==
  ASSUME TypeOK, SettingsAfterResources, [Next]_vars
  PROVE  SettingsAfterResources'
<1> USE SessionAssumption DEF TypeOK, SettingsAfterResources
<1>1. CASE Drain
  <2>1. PICK came \in SUBSET {c \in Client : connection[c] = "coming"},
             left \in SUBSET {c \in Client : connection[c] = "closing"},
             heard \in SUBSET {c \in container : handshake[c] \in Sent} :
          Drained(came, left, heard)
    BY <1>1, DrainCases
  <2> QED
    BY <1>1, <2>1 DEF Drain, Drained, Event
<1>2. ASSUME NEW c \in Client, ClientAnswers(c) PROVE SettingsAfterResources'
  BY <1>2 DEF ClientAnswers, Answer
<1>3. ASSUME NEW c \in Client, OnResourcesHasCache(c) \/ OnMediaLoaded(c)
      PROVE  SettingsAfterResources'
  BY <1>3 DEF OnResourcesHasCache, OnMediaLoaded, LastPart
<1>4. ASSUME NEW c \in Client,
             \/ OnConnection(c) \/ RefuseLogin(c) \/ OnConnectionInfo(c)
             \/ OnSettingsLoaded(c) \/ SpawnPlayer(c)
      PROVE  SettingsAfterResources'
  BY <1>4 DEF OnConnection, RefuseLogin, OnConnectionInfo, OnSettingsLoaded, SpawnPlayer
<1>5. ASSUME UNCHANGED progress PROVE SettingsAfterResources'
  BY <1>5 DEF progress
<1>6. ASSUME NEW c \in Client, Leave(c) \/ OnDisconnect(c) \/ ChangeData(c)
      PROVE  SettingsAfterResources'
  BY <1>5, <1>6 DEF Leave, OnDisconnect, ChangeData
<1>8. ASSUME NEW l \in Login, CommandKick(l) \/ SavePlayerData(l)
      PROVE  SettingsAfterResources'
  BY <1>5, <1>8 DEF CommandKick, SavePlayerData
<1>7. CASE Stop \/ UpdateRuntime \/ UNCHANGED vars
  BY <1>5, <1>7 DEF Stop, UpdateRuntime, vars
<1> QED
  BY <1>1, <1>2, <1>3, <1>4, <1>6, <1>7, <1>8 DEF Next, ClientStep, Handle

\* Whoever gets the settings, and whoever enters the world, has all parts of the archive
\* (on_media_loaded.rs).
THEOREM SettingsAfterResourcesHolds == Spec => []SettingsAfterResources
<1>1. Init => SettingsAfterResources
  BY DEF Init, SettingsAfterResources
<1> QED
  BY <1>1, ResourcesStep, TypeCorrect, PTL DEF Spec

LEMMA EntitiesStep ==
  ASSUME TypeOK, Registered, EntitiesOfSessions, [Next]_vars
  PROVE  EntitiesOfSessions'
<1> USE DEF TypeOK, Registered, EntitiesOfSessions
<1>1. CASE Drain
  <2>1. PICK came \in SUBSET {c \in Client : connection[c] = "coming"},
             left \in SUBSET {c \in Client : connection[c] = "closing"},
             heard \in SUBSET {c \in container : handshake[c] \in Sent} :
          Drained(came, left, heard)
    BY <1>1, DrainCases
  <2>2. container' \cap world_entity = container \cap world_entity
    BY <2>1 DEF Drained
  <2> QED
    BY <1>1, <2>2 DEF Drain, client, data
<1>2. CASE UpdateRuntime
  BY <1>2 DEF UpdateRuntime
<1>3. ASSUME NEW c \in Client, SpawnPlayer(c) PROVE EntitiesOfSessions'
  BY <1>3 DEF SpawnPlayer
<1>4. ASSUME NEW c \in Client, OnDisconnect(c) PROVE EntitiesOfSessions'
  BY <1>4 DEF OnDisconnect, Despawned, client
<1>5. ASSUME UNCHANGED <<entities, late, container, world_entity>>,
             server' = "stopped" \/ server # "stopped"
      PROVE  EntitiesOfSessions'
  BY <1>5
<1>6. ASSUME NEW c \in Client,
             \/ ClientStep(c) \/ OnConnection(c) \/ RefuseLogin(c) \/ OnConnectionInfo(c)
             \/ OnResourcesHasCache(c) \/ OnMediaLoaded(c) \/ OnSettingsLoaded(c)
             \/ ChangeData(c)
      PROVE  EntitiesOfSessions'
  BY <1>6 DEF ClientStep, ClientAnswers, Leave, OnConnection, RefuseLogin, OnConnectionInfo,
     OnResourcesHasCache, OnMediaLoaded, OnSettingsLoaded, ChangeData, client
<1>8. ASSUME NEW l \in Login, CommandKick(l) \/ SavePlayerData(l)
      PROVE  EntitiesOfSessions'
  BY <1>8 DEF CommandKick, SavePlayerData, client
<1>7. CASE Stop \/ UNCHANGED vars
  BY <1>7 DEF Stop, vars, client
<1> QED
  BY <1>1, <1>2, <1>3, <1>4, <1>6, <1>7, <1>8 DEF Next, Handle

\* Until the server has stopped, the entities of players are those of the clients in the
\* container that have one, but for the entities spawned too late (on_disconnect.rs).
THEOREM EntitiesOfSessionsHolds == Spec => []EntitiesOfSessions
<1>1. Init => EntitiesOfSessions
  BY DEF Init, EntitiesOfSessions
<1> QED
  BY <1>1, EntitiesStep, RegisteredInvariant, PTL DEF Spec

-----------------------------------------------------------------------------
(* Player data.                                                            *)

LEMMA DataStep ==
  ASSUME TypeOK, Registered, ChangesKept, [Next]_vars
  PROVE  ChangesKept'
<1> USE SessionAssumption DEF TypeOK, ChangesKept
<1>1. CASE Drain
  <2>1. PICK came \in SUBSET {c \in Client : connection[c] = "coming"},
             left \in SUBSET {c \in Client : connection[c] = "closing"},
             heard \in SUBSET {c \in container : handshake[c] \in Sent} :
          Drained(came, left, heard)
    BY <1>1, DrainCases
  <2>2. \A l \in Login : Holders(l)' = Holders(l)
    BY <1>1, <2>1 DEF Drain, Drained, Registered, Holders, client
  <2> QED
    BY <1>1, <2>2 DEF Drain, client, data
<1>2. ASSUME NEW c \in Client, OnConnectionInfo(c) PROVE ChangesKept'
  <2> DEFINE k == LoginOf[c]
  <2>1. k \in Login /\ storage[k] \in PlayerData /\ storage[k] # None
    OBVIOUS
  <2>2. \A l \in Login \ {k} : Holders(l)' = Holders(l)
    BY <1>2 DEF OnConnectionInfo, Holders
  <2>3. ASSUME k \notin lapsed' PROVE Holders(k) = {} /\ storage[k] = 1..made[k]
    BY <1>2, <2>1, <2>3 DEF OnConnectionInfo
  <2>4. ASSUME k \notin lapsed' PROVE Holders(k)' \subseteq {c}
    BY <1>2, <2>3, <2>4 DEF OnConnectionInfo, Holders
  <2>5. player_data'[c] = storage[k] /\ \A d \in Client \ {c} : player_data'[d] = player_data[d]
    BY <1>2 DEF OnConnectionInfo
  <2>6. /\ UNCHANGED <<storage, made>> /\ lapsed \subseteq lapsed'
        /\ \A l \in Login : Holders(l) \subseteq {d \in Client : LoginOf[d] = l}
    BY <1>2 DEF OnConnectionInfo, Holders
  <2>7. ASSUME k \notin lapsed'
        PROVE  /\ \A d, e \in Holders(k)' : d = e
               /\ \A d \in Holders(k)' : player_data'[d] = 1..made'[k]
               /\ storage'[k] = 1..made'[k]
    BY <2>3, <2>4, <2>5, <2>6, <2>7
  <2>8. ASSUME NEW l \in Login \ lapsed', l # k
        PROVE  /\ \A d, e \in Holders(l)' : d = e
               /\ \A d \in Holders(l)' : player_data'[d] = 1..made'[l]
               /\ Holders(l)' = {} => storage'[l] = 1..made'[l]
    <3>1. Holders(l)' = Holders(l) /\ c \notin Holders(l) /\ l \notin lapsed
      BY <2>2, <2>6, <2>8
    <3> QED
      BY <2>5, <2>6, <2>8, <3>1
  <2> QED
    BY <2>7, <2>8
<1>3. ASSUME NEW c \in Client, OnDisconnect(c) PROVE ChangesKept'
  <2> DEFINE k == LoginOf[c]
  <2>1. k \in Login /\ c \in container
    BY <1>3 DEF OnDisconnect, Registered
  <2>2. \A l \in Login : Holders(l)' = Holders(l) \ {c}
    BY <1>3 DEF OnDisconnect, Holders, client
  <2>3. \A l \in Login \ {k} : c \notin Holders(l) /\ storage'[l] = storage[l]
    BY <1>3 DEF OnDisconnect, Holders
  <2>4. UNCHANGED <<made, player_data>> /\ lapsed \subseteq lapsed'
    BY <1>3 DEF OnDisconnect, client
  <2>5. CASE Saves(c)
    <3>1. c \in Holders(k)
      BY <2>1, <2>5 DEF Saves, Holders
    <3>2. ASSUME k \notin lapsed' PROVE storage'[k] = 1..made[k]
      BY <1>3, <2>1, <2>4, <2>5, <3>1, <3>2 DEF OnDisconnect
    <3>3. ASSUME NEW l \in Login \ lapsed'
          PROVE  /\ \A d, e \in Holders(l)' : d = e
                 /\ \A d \in Holders(l)' : player_data'[d] = 1..made'[l]
                 /\ Holders(l)' = {} => storage'[l] = 1..made'[l]
      <4>1. l \notin lapsed /\ Holders(l)' = Holders(l) \ {c}
        BY <2>2, <2>4
      <4>2. CASE l = k
        BY <2>4, <3>2, <3>3, <4>1, <4>2
      <4>3. CASE l # k
        BY <2>3, <2>4, <4>1, <4>3
      <4> QED
        BY <4>2, <4>3
    <3> QED
      BY <3>3
  <2>6. CASE ~Saves(c)
    <3>1. c \notin Holders(k) /\ UNCHANGED storage
      BY <1>3, <2>6 DEF OnDisconnect, Saves, Holders
    <3> QED
      BY <2>1, <2>2, <2>3, <2>4, <3>1
  <2> QED
    BY <2>5, <2>6
<1>4. ASSUME NEW c \in Client, ChangeData(c) PROVE ChangesKept'
  <2> DEFINE k == LoginOf[c]
  <2>1. k \in Login /\ made[k] \in Nat /\ player_data[c] \in PlayerData
    BY <1>4 DEF ChangeData
  <2>2. /\ made'[k] = made[k] + 1 /\ player_data'[c] = player_data[c] \cup {made[k] + 1}
        /\ \A l \in Login \ {k} : made'[l] = made[l]
        /\ \A d \in Client \ {c} : player_data'[d] = player_data[d]
        /\ UNCHANGED <<storage, container>> /\ lapsed \subseteq lapsed'
    BY <1>4, <2>1 DEF ChangeData
  <2>3. player_data'[c] # None
    <3>1. made[k] + 1 \in 1..MaxChanges
      BY <1>4, <2>1 DEF ChangeData
    <3>2. player_data'[c] \in PlayerData
      BY <2>1, <2>2, <3>1 DEF PlayerData
    <3> QED
      BY <3>2
  <2>4. \A l \in Login : Holders(l)' = Holders(l)
    BY <1>4, <2>2, <2>3 DEF ChangeData, Holders
  <2>5. ASSUME k \notin lapsed' PROVE c \in Holders(k) /\ player_data[c] = 1..made[k]
    BY <1>4, <2>1, <2>5 DEF ChangeData, Holders
  <2>6. ASSUME k \notin lapsed' PROVE player_data'[c] = 1..made'[k]
    BY <2>1, <2>2, <2>5, <2>6
  <2>7. \A l \in Login : Holders(l) \subseteq {d \in Client : LoginOf[d] = l}
    BY DEF Holders
  <2>8. ASSUME NEW l \in Login \ lapsed', l # k
        PROVE  /\ \A d, e \in Holders(l)' : d = e
               /\ \A d \in Holders(l)' : player_data'[d] = 1..made'[l]
               /\ Holders(l)' = {} => storage'[l] = 1..made'[l]
    BY <2>2, <2>4, <2>7, <2>8
  <2>9. ASSUME k \notin lapsed'
        PROVE  /\ \A d, e \in Holders(k)' : d = e
               /\ \A d \in Holders(k)' : player_data'[d] = 1..made'[k]
               /\ Holders(k)' # {}
    <3>1. k \notin lapsed
      BY <2>2, <2>9
    <3>2. Holders(k)' = {c}
      BY <2>1, <2>4, <2>5, <2>9, <3>1
    <3> HIDE DEF k
    <3> QED
      BY <2>6, <2>9, <3>2
  <2> QED
    BY <2>8, <2>9
<1>5. CASE UpdateRuntime
  <2>1. \A l \in Login : Holders(l)' = {}
    BY <1>5 DEF UpdateRuntime, Holders
  <2> QED
    BY <1>5, <2>1 DEF UpdateRuntime
<1>6. ASSUME UNCHANGED <<container, player_data, storage, made, lapsed>> PROVE ChangesKept'
  BY <1>6 DEF Holders
<1>7. ASSUME NEW c \in Client,
             \/ ClientStep(c) \/ OnConnection(c) \/ RefuseLogin(c) \/ OnResourcesHasCache(c)
             \/ OnMediaLoaded(c) \/ OnSettingsLoaded(c) \/ SpawnPlayer(c)
      PROVE  ChangesKept'
  BY <1>6, <1>7 DEF ClientStep, ClientAnswers, Leave, OnConnection, RefuseLogin,
     OnResourcesHasCache, OnMediaLoaded, OnSettingsLoaded, SpawnPlayer, client, data
<1>9. ASSUME NEW l \in Login, CommandKick(l) PROVE ChangesKept'
  BY <1>6, <1>9 DEF CommandKick, data
<1>10. ASSUME NEW k \in Login, SavePlayerData(k) PROVE ChangesKept'
  <2>1. \A l \in Login : Holders(l)' = Holders(l)
    BY <1>10 DEF SavePlayerData, Holders, client
  <2>2. UNCHANGED <<player_data, made>> /\ lapsed \subseteq lapsed'
    BY <1>10 DEF SavePlayerData, client
  <2>3. \A l \in Login \ {k} : storage'[l] = storage[l]
    BY <1>10 DEF SavePlayerData
  <2>4. k \in lapsed' \/ Holders(k) # {}
    BY <1>10 DEF SavePlayerData
  <2>5. ASSUME NEW l \in Login \ lapsed'
        PROVE  /\ \A c, d \in Holders(l)' : c = d
               /\ \A c \in Holders(l)' : player_data'[c] = 1..made'[l]
               /\ Holders(l)' = {} => storage'[l] = 1..made'[l]
    <3>1. l \notin lapsed /\ (l = k => Holders(l) # {})
      BY <2>2, <2>4
    <3>2. Holders(l)' = Holders(l) /\ made'[l] = made[l]
      BY <2>1, <2>2
    <3>3. Holders(l) = {} => storage'[l] = storage[l]
      BY <2>3, <3>1
    <3> QED
      BY <2>2, <3>1, <3>2, <3>3
  <2> QED
    BY <2>5
<1>8. CASE Stop \/ UNCHANGED vars
  BY <1>6, <1>8 DEF Stop, vars, client, data
<1> QED
  BY <1>1, <1>2, <1>3, <1>4, <1>5, <1>7, <1>8, <1>9, <1>10 DEF Next, Handle

\* No change of player data is lost unless its login has lapsed: the one session that has
\* the data has every change, and the storage has them when there is none
\* (Client::read_player_data, save_player_data, on_disconnect).
THEOREM ChangesKeptHolds == Spec => []ChangesKept
<1>1. Init => ChangesKept
  BY DEF Init, ChangesKept, Holders
<1> QED
  BY <1>1, DataStep, RegisteredInvariant, PTL DEF Spec

-----------------------------------------------------------------------------
(* What HandshakeEnds rests on: an open handshake waits for nobody but the    *)
(* client itself, the next tick or a system that can run, and it has a step   *)
(* less to go after each.  That these are taken at last is fairness, and      *)
(* stays with TLC.                                                            *)

\* The moves of the handshake of a client, and of the parts it has.
Forward(c) ==
  \/ /\ loaded_parts'[c] = loaded_parts[c]
     /\ \/ /\ handshake[c] = "none" /\ connection[c] = "coming"
           /\ handshake'[c] = "connection_event"
        \/ handshake[c] = "connection_event" /\ handshake'[c] = "allow"
        \/ handshake[c] = "allow" /\ handshake'[c] = "info"
        \/ handshake[c] = "info" /\ handshake'[c] = "info_event"
        \/ handshake[c] = "info_event" /\ handshake'[c] = "none"
        \/ handshake[c] = "info_event" /\ handshake'[c] = "scheme" /\ Parts > 0
        \/ handshake[c] = "info_event" /\ handshake'[c] = "media_event" /\ Parts = 0
        \/ handshake[c] = "scheme" /\ handshake'[c] = "cache"
        \/ handshake[c] = "cache" /\ handshake'[c] = "cache_event"
        \/ handshake[c] = "cache_event" /\ handshake'[c] = "part"
        \/ handshake[c] = "part_loaded" /\ handshake'[c] = "media_event"
        \/ handshake[c] = "media_event" /\ handshake'[c] = "part" /\ loaded_parts[c] < Parts
        \/ handshake[c] = "media_event" /\ handshake'[c] = "settings" /\ loaded_parts[c] = Parts
        \/ handshake[c] = "settings" /\ handshake'[c] = "settings_loaded"
        \/ handshake[c] = "settings_loaded" /\ handshake'[c] = "settings_event"
        \/ handshake[c] = "settings_event" /\ handshake'[c] = "spawning"
        \/ handshake[c] = "spawning" /\ handshake'[c] = "spawned"
  \/ /\ handshake[c] = "cache_event" /\ handshake'[c] = "media_event"
     /\ loaded_parts'[c] = Parts
  \/ /\ handshake[c] = "part" /\ handshake'[c] = "part_loaded"
     /\ loaded_parts[c] < Parts /\ loaded_parts'[c] = loaded_parts[c] + 1

\* No step moves a handshake otherwise.
LEMMA ForwardStep ==
  ASSUME TypeOK, Registered, [Next]_vars, NEW c \in Client
  PROVE  UNCHANGED <<handshake[c], loaded_parts[c]>> \/ Forward(c)
<1> USE SessionAssumption DEF TypeOK
<1>1. CASE Drain
  <2>1. PICK came \in SUBSET {d \in Client : connection[d] = "coming"},
             left \in SUBSET {d \in Client : connection[d] = "closing"},
             heard \in SUBSET {d \in container : handshake[d] \in Sent} :
          Drained(came, left, heard)
    BY <1>1, DrainCases
  <2>2. loaded_parts' = loaded_parts
    BY <1>1 DEF Drain
  <2>3. CASE c \in came
    BY <2>1, <2>2, <2>3 DEF Drained, Registered, Forward
  <2>4. CASE c \in heard /\ c \notin came
    BY <2>1, <2>2, <2>4 DEF Drained, Event, Forward
  <2>5. CASE c \notin heard /\ c \notin came
    BY <2>1, <2>2, <2>5 DEF Drained
  <2> QED
    BY <2>3, <2>4, <2>5
<1>2. ASSUME NEW d \in Client, ClientAnswers(d)
      PROVE  UNCHANGED <<handshake[c], loaded_parts[c]>> \/ Forward(c)
  BY <1>2 DEF ClientAnswers, Answer, Forward
<1>3. ASSUME NEW d \in Client, OnResourcesHasCache(d) \/ OnMediaLoaded(d)
      PROVE  UNCHANGED <<handshake[c], loaded_parts[c]>> \/ Forward(c)
  BY <1>3 DEF OnResourcesHasCache, OnMediaLoaded, LastPart, Forward
<1>4. ASSUME NEW d \in Client,
             \/ OnConnection(d) \/ RefuseLogin(d) \/ OnConnectionInfo(d)
             \/ OnSettingsLoaded(d) \/ SpawnPlayer(d)
      PROVE  UNCHANGED <<handshake[c], loaded_parts[c]>> \/ Forward(c)
  BY <1>4 DEF OnConnection, RefuseLogin, OnConnectionInfo, OnSettingsLoaded, SpawnPlayer, Forward
<1>5. CASE UNCHANGED progress
  BY <1>5 DEF progress
<1>6. CASE \/ \E d \in Client : Leave(d) \/ OnDisconnect(d) \/ ChangeData(d)
           \/ \E l \in Login : CommandKick(l) \/ SavePlayerData(l)
           \/ Stop \/ UpdateRuntime \/ UNCHANGED vars
  BY <1>5, <1>6 DEF Leave, OnDisconnect, ChangeData, CommandKick, SavePlayerData, Stop,
     UpdateRuntime, vars
<1> QED
  BY <1>1, <1>2, <1>3, <1>4, <1>6 DEF Next, ClientStep, Handle

BeforeParts ==
  {"connection_event", "allow", "info", "info_event", "scheme", "cache", "cache_event"}

\* A client has parts only once it has been asked for its cache, of which there is
\* no question without an archive, and is sent a part only if it lacks one.
PartsInOrder ==
  \A c \in Client :
    /\ connection[c] = "coming" \/ handshake[c] \in BeforeParts => loaded_parts[c] = 0
    /\ handshake[c] \in {"scheme", "cache", "cache_event"} => Parts > 0
    /\ handshake[c] = "part" => loaded_parts[c] < Parts

\* An open connection is of a client in the container, and its handshake has begun;
\* at the end of it the client is in the world.  Who departs has no connection left.
OpenInContainer ==
  \A c \in Client :
    /\ connection[c] = "open" => c \in container /\ handshake[c] # "none"
    /\ handshake[c] = "spawned" => c \in world_entity \/ server = "panic"
    /\ c \in disconnects => connection[c] = "closed"

\* A client that is still to come was so before.
LEMMA ConnectionStep ==
  ASSUME TypeOK, [Next]_vars, NEW c \in Client, connection'[c] = "coming"
  PROVE  connection[c] = "coming"
<1> USE DEF TypeOK
<1>1. CASE Drain
  BY <1>1, DrainCases DEF Drained
<1>2. CASE UpdateRuntime
  BY <1>2 DEF UpdateRuntime, Disconnected
<1>3. CASE \E d \in Client : Leave(d) \/ RefuseLogin(d)
  BY <1>3 DEF Leave, RefuseLogin, Disconnected
<1>4. CASE \E l \in Login : CommandKick(l)
  BY <1>4 DEF CommandKick, GetByLogin, Disconnected
<1>5. CASE \/ \E d \in Client : \/ ClientAnswers(d) \/ ChangeData(d) \/ OnConnection(d)
                               \/ OnConnectionInfo(d) \/ OnResourcesHasCache(d)
                               \/ OnMediaLoaded(d) \/ OnSettingsLoaded(d)
                               \/ SpawnPlayer(d) \/ OnDisconnect(d)
           \/ \E l \in Login : SavePlayerData(l)
           \/ Stop \/ UNCHANGED vars
  BY <1>5 DEF ClientAnswers, ChangeData, OnConnection, OnConnectionInfo, OnResourcesHasCache,
     OnMediaLoaded, OnSettingsLoaded, SpawnPlayer, OnDisconnect, SavePlayerData,
     Stop, vars
<1> QED
  BY <1>1, <1>2, <1>3, <1>4, <1>5 DEF Next, ClientStep, Handle

LEMMA PartsInOrderStep ==
  ASSUME TypeOK, Registered, PartsInOrder, [Next]_vars
  PROVE  PartsInOrder'
<1> SUFFICES ASSUME NEW c \in Client
             PROVE  /\ connection'[c] = "coming" \/ handshake'[c] \in BeforeParts
                         => loaded_parts'[c] = 0
                    /\ handshake'[c] \in {"scheme", "cache", "cache_event"} => Parts > 0
                    /\ handshake'[c] = "part" => loaded_parts'[c] < Parts
  BY DEF PartsInOrder
<1>1. connection'[c] = "coming" =>
        connection[c] = "coming" /\ handshake[c] = "none" /\ handshake'[c] = "none"
  <2> SUFFICES ASSUME connection'[c] = "coming"
               PROVE  connection[c] = "coming" /\ handshake[c] = "none" /\ handshake'[c] = "none"
    OBVIOUS
  <2>1. Registered'
    BY RegisteredStep
  <2>2. handshake'[c] = "none"
    BY <2>1 DEF Registered
  <2>3. connection[c] = "coming"
    BY ConnectionStep
  <2> QED
    BY <2>2, <2>3 DEF Registered
<1>2. CASE UNCHANGED <<handshake[c], loaded_parts[c]>>
  BY <1>1, <1>2 DEF PartsInOrder, BeforeParts
<1>3. CASE Forward(c)
  BY <1>1, <1>3, SessionAssumption DEF PartsInOrder, BeforeParts, Forward, TypeOK
<1> QED
  BY <1>2, <1>3, ForwardStep

LEMMA OpenInContainerStep ==
  ASSUME TypeOK, Registered, OpenInContainer, [Next]_vars
  PROVE  OpenInContainer'
<1> USE SessionAssumption DEF TypeOK, OpenInContainer
<1>1. CASE Drain
  <2>1. PICK came \in SUBSET {c \in Client : connection[c] = "coming"},
             left \in SUBSET {c \in Client : connection[c] = "closing"},
             heard \in SUBSET {c \in container : handshake[c] \in Sent} :
          Drained(came, left, heard)
    BY <1>1, DrainCases
  <2>2. world_entity' = world_entity /\ server # "panic" /\ server' # "panic"
    BY <1>1 DEF Drain, client
  <2>3. \A m \in Sent : Event[m] \notin {"none", "spawned"}
    BY DEF Event
  <2>4. \A c \in Client : c \notin came /\ c \notin heard =>
          handshake'[c] = handshake[c] /\ (connection'[c] = "open" => connection[c] = "open")
    BY <2>1 DEF Drained
  <2>5. \A c \in came : handshake'[c] = "connection_event" /\ c \in container'
    BY <2>1 DEF Drained
  <2>6. \A c \in heard : handshake'[c] \notin {"none", "spawned"} /\ c \in container'
    BY <2>1, <2>3 DEF Drained
  <2>7. container \subseteq container'
    BY <2>1 DEF Drained
  <2> SUFFICES ASSUME NEW c \in Client
               PROVE  /\ connection'[c] = "open" => c \in container' /\ handshake'[c] # "none"
                      /\ handshake'[c] = "spawned" => c \in world_entity' \/ server' = "panic"
                      /\ c \in disconnects' => connection'[c] = "closed"
    OBVIOUS
  <2>10. c \in disconnects' => connection'[c] = "closed"
    BY <2>1 DEF Drained
  <2>8. CASE c \in came \cup heard
    BY <2>5, <2>6, <2>8, <2>10
  <2>9. CASE c \notin came \cup heard
    BY <2>2, <2>4, <2>7, <2>9, <2>10
  <2> QED
    BY <2>8, <2>9
<1>2. CASE UpdateRuntime
  BY <1>2 DEF UpdateRuntime, Disconnected, client, progress, tick
<1>3. ASSUME NEW d \in Client, OnDisconnect(d) PROVE OpenInContainer'
  <2>1. connection[d] = "closed"
    BY <1>3 DEF OnDisconnect
  <2> QED
    BY <1>3, <2>1 DEF OnDisconnect, client, progress
<1>4. ASSUME NEW d \in Client, SpawnPlayer(d) PROVE OpenInContainer'
  BY <1>4 DEF SpawnPlayer, tick
<1>5. ASSUME NEW d \in Client, RefuseLogin(d) PROVE OpenInContainer'
  BY <1>5 DEF RefuseLogin, Disconnected
<1>6. ASSUME NEW l \in Login, CommandKick(l) PROVE OpenInContainer'
  BY <1>6 DEF CommandKick, GetByLogin, Disconnected, progress, tick
<1>7. ASSUME NEW d \in Client,
             \/ ClientAnswers(d) \/ OnConnection(d) \/ OnConnectionInfo(d)
             \/ OnResourcesHasCache(d) \/ OnMediaLoaded(d) \/ OnSettingsLoaded(d)
      PROVE  OpenInContainer'
  BY <1>7 DEF ClientAnswers, Answer, OnConnection, OnConnectionInfo, OnResourcesHasCache,
     OnMediaLoaded, OnSettingsLoaded, client, tick
<1>8. CASE \/ \E d \in Client : Leave(d) \/ ChangeData(d)
           \/ \E l \in Login : SavePlayerData(l)
           \/ Stop \/ UNCHANGED vars
  BY <1>8 DEF Leave, ChangeData, SavePlayerData, Stop, vars, client, progress, tick
<1> QED
  BY <1>1, <1>2, <1>3, <1>4, <1>5, <1>6, <1>7, <1>8 DEF Next, ClientStep, Handle

LEMMA HandshakeInvariant == Spec => [](PartsInOrder /\ OpenInContainer)
<1>1. Init => PartsInOrder /\ OpenInContainer
  BY DEF Init, PartsInOrder, BeforeParts, OpenInContainer
<1> QED
  BY <1>1, PartsInOrderStep, OpenInContainerStep, RegisteredInvariant, PTL DEF Spec

\* The condition of ClientAnswers.
ClientMayAnswer(c) ==
  handshake[c] \in Asked /\ (handshake[c] = "part" => loaded_parts[c] < Parts)

\* The conditions of Handle.
MayHandle(c) ==
  \/ handshake[c] \in {"connection_event", "settings_event", "spawning"}
  \/ handshake[c] \in {"info_event", "cache_event", "media_event"} \ returned
  \/ c \in disconnects

\* The conditions of a drain that hears client c, or lets its event be handled.
MayDrainFor(c) ==
  /\ Idle
  /\ \/ c \in container /\ handshake[c] \in Sent
     \/ handshake[c] \in returned

\* While the server is active, a client whose connection is open is in the world, or
\* can answer, or the tick goes on: a system has an event that it can handle, or the
\* next drain takes what the client sent, or brings back the event that a system left
\* when it returned early (on_connection_info.rs, on_resources_has_cache.rs,
\* on_media_loaded.rs).
THEOREM HandshakeGoesOn ==
  Spec => [](\A c \in Client :
               connection[c] = "open" /\ server = "active" =>
                 \/ c \in world_entity
                 \/ ClientMayAnswer(c)
                 \/ \E d \in Client : MayHandle(d)
                 \/ MayDrainFor(c))
<1>1. TypeOK /\ Registered /\ PartsInOrder /\ OpenInContainer =>
        \A c \in Client :
          connection[c] = "open" /\ server = "active" =>
            \/ c \in world_entity
            \/ ClientMayAnswer(c)
            \/ \E d \in Client : MayHandle(d)
            \/ MayDrainFor(c)
  <2> SUFFICES ASSUME TypeOK, Registered, PartsInOrder, OpenInContainer,
                      NEW c \in Client, connection[c] = "open", server = "active",
                      c \notin world_entity, ~ClientMayAnswer(c),
                      \A d \in Client : ~MayHandle(d)
               PROVE  MayDrainFor(c)
    OBVIOUS
  <2>1. Idle
    <3>1. disconnects = {}
      BY DEF TypeOK, MayHandle
    <3>2. \A d \in Client : handshake[d] # "spawning" /\
                            (handshake[d] \in Events => handshake[d] \in returned)
      BY DEF MayHandle
    <3> QED
      BY <3>1, <3>2 DEF Idle
  <2>2. handshake[c] \notin Asked
    BY DEF ClientMayAnswer, PartsInOrder
  <2>3. c \in container /\ handshake[c] \notin {"none", "spawned"}
    BY DEF OpenInContainer
  <2>4. handshake[c] \in Sent \cup Events
    <3>1. handshake[c] # "spawning" /\ handshake[c] \in Handshake
      BY DEF MayHandle, TypeOK
    <3> QED
      BY <2>2, <2>3, <3>1
  <2>5. handshake[c] \in Events => handshake[c] \in returned
    BY DEF MayHandle
  <2> QED
    BY <2>1, <2>3, <2>4, <2>5 DEF MayDrainFor
<1> QED
  BY <1>1, RegisteredInvariant, HandshakeInvariant, PTL

\* How many steps the handshake of a client has to go at most, with three for each
\* part of the archive.
MessagesLeft(message, parts) ==
  [none |-> 0, spawned |-> 0, spawning |-> 1, settings_event |-> 2, settings_loaded |-> 3,
   settings |-> 4, media_event |-> parts + 5, part_loaded |-> parts + 6, part |-> parts + 4,
   cache_event |-> parts + 7, cache |-> parts + 8, scheme |-> parts + 9,
   info_event |-> parts + 10, info |-> parts + 11, allow |-> parts + 12,
   connection_event |-> parts + 13][message]

StepsLeft(c) == MessagesLeft(handshake[c], 3 * (Parts - loaded_parts[c]))

LEMMA MessagesLeftValues ==
  ASSUME NEW parts
  PROVE  /\ MessagesLeft("none", parts) = 0 /\ MessagesLeft("spawned", parts) = 0
         /\ MessagesLeft("spawning", parts) = 1
         /\ MessagesLeft("settings_event", parts) = 2
         /\ MessagesLeft("settings_loaded", parts) = 3
         /\ MessagesLeft("settings", parts) = 4
         /\ MessagesLeft("media_event", parts) = parts + 5
         /\ MessagesLeft("part_loaded", parts) = parts + 6
         /\ MessagesLeft("part", parts) = parts + 4
         /\ MessagesLeft("cache_event", parts) = parts + 7
         /\ MessagesLeft("cache", parts) = parts + 8
         /\ MessagesLeft("scheme", parts) = parts + 9
         /\ MessagesLeft("info_event", parts) = parts + 10
         /\ MessagesLeft("info", parts) = parts + 11
         /\ MessagesLeft("allow", parts) = parts + 12
         /\ MessagesLeft("connection_event", parts) = parts + 13
  BY DEF MessagesLeft

\* Every step of the handshake of a client that has connected leaves fewer to go: no
\* part is sent twice and no message is asked for again, though systems return early
\* and other clients come and go (on_media_loaded.rs).
THEOREM HandshakeForward ==
  Spec => [][\A c \in Client :
               connection[c] # "coming" =>
                 \/ UNCHANGED <<handshake[c], loaded_parts[c]>>
                 \/ StepsLeft(c) \in Nat /\ StepsLeft(c)' \in Nat /\ StepsLeft(c)' < StepsLeft(c)]_vars
<1> DEFINE Fewer(c) ==
             \/ UNCHANGED <<handshake[c], loaded_parts[c]>>
             \/ StepsLeft(c) \in Nat /\ StepsLeft(c)' \in Nat /\ StepsLeft(c)' < StepsLeft(c)
<1>1. TypeOK /\ TypeOK' /\ Registered /\ PartsInOrder /\ [Next]_vars =>
        \A c \in Client : connection[c] # "coming" => Fewer(c)
  <2> SUFFICES ASSUME TypeOK, TypeOK', Registered, PartsInOrder, [Next]_vars,
                      NEW c \in Client, connection[c] # "coming",
                      ~UNCHANGED <<handshake[c], loaded_parts[c]>>
               PROVE  /\ StepsLeft(c) \in Nat /\ StepsLeft(c)' \in Nat
                      /\ StepsLeft(c)' < StepsLeft(c)
    OBVIOUS
  <2>1. Forward(c)
    BY ForwardStep
  <2>2. /\ Parts \in Nat /\ loaded_parts[c] \in 0..Parts /\ loaded_parts'[c] \in 0..Parts
        /\ handshake[c] \in Handshake
    BY SessionAssumption DEF TypeOK
  <2>3. handshake[c] \in {"info_event", "cache_event"} => loaded_parts[c] = 0
    BY DEF PartsInOrder, BeforeParts
  <2> DEFINE here == Parts - loaded_parts[c]
             then == Parts - loaded_parts'[c]
  <2>4. /\ StepsLeft(c) = MessagesLeft(handshake[c], 3 * here)
        /\ StepsLeft(c)' = MessagesLeft(handshake'[c], 3 * then)
        /\ here \in Nat /\ then \in Nat
    BY <2>2, SessionAssumption DEF StepsLeft
  <2>5. CASE loaded_parts'[c] = loaded_parts[c]
    <3> DEFINE parts == 3 * here
    <3>1. parts \in Nat /\ 3 * here = parts /\ 3 * then = parts
      BY <2>2, <2>4, <2>5
    <3>2. loaded_parts'[c] # loaded_parts[c] + 1
      BY <2>2, <2>5
    <3>3. handshake[c] = "cache_event" /\ handshake'[c] = "media_event" =>
            MessagesLeft(handshake'[c], parts) < MessagesLeft(handshake[c], parts)
      BY <3>1, MessagesLeftValues
    <3>4. MessagesLeft(handshake'[c], parts) \in Nat /\ MessagesLeft(handshake[c], parts) \in Nat
      <4> HIDE DEF parts
      <4> QED
        BY <2>1, <3>1, MessagesLeftValues DEF Forward
    <3> HIDE DEF here, then, parts
    <3>5. MessagesLeft(handshake'[c], parts) < MessagesLeft(handshake[c], parts)
      BY <2>1, <3>1, <3>2, <3>3, MessagesLeftValues DEF Forward
    <3> QED
      BY <2>4, <3>1, <3>4, <3>5
  <2>6. CASE handshake[c] = "cache_event" /\ handshake'[c] = "media_event"
             /\ loaded_parts'[c] = Parts
    <3>1. 3 * here \in Nat /\ 3 * then = 0
      BY <2>2, <2>4, <2>6
    <3> HIDE DEF here, then
    <3> QED
      BY <2>4, <2>6, <3>1, MessagesLeftValues
  <2>7. CASE handshake[c] = "part" /\ handshake'[c] = "part_loaded"
             /\ loaded_parts'[c] = loaded_parts[c] + 1
    <3>1. 3 * here \in Nat /\ 3 * then \in Nat /\ 3 * here = 3 * then + 3
      BY <2>2, <2>4, <2>7
    <3> HIDE DEF here, then
    <3> QED
      BY <2>4, <2>7, <3>1, MessagesLeftValues
  <2> QED
    BY <2>1, <2>5, <2>6, <2>7 DEF Forward
<1>2. TypeOK /\ TypeOK' /\ Registered /\ PartsInOrder =>
        [Next => \A c \in Client : connection[c] # "coming" => Fewer(c)]_vars
  BY <1>1
<1> QED
  BY <1>2, RegisteredInvariant, HandshakeInvariant, PTL DEF Spec
=============================================================================
