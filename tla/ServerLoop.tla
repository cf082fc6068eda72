----------------------------- MODULE ServerLoop -----------------------------
(***************************************************************************)
(* The loop of the server from start to stop (runtime_plugin.rs, the       *)
(* systems of Startup), and the console beside it: the thread that reads   *)
(* lines (console/console_handler.rs) and asks for completions of them     *)
(* (console/completer.rs), and the systems that execute and complete them  *)
(* (console/mod.rs).                                                       *)
(*                                                                         *)
(* Lines, requests and responses travel in flume channels of one place,    *)
(* and a send waits for room.  A channel is a sequence; each has one       *)
(* sender, and an element beyond Capacity is that of the sender that       *)
(* waits.  The channels are of a library: recv makes room for the sender   *)
(* that waits; drain may take its element with the others, or leave it     *)
(* waiting until the next drain.                                           *)
(*                                                                         *)
(* A request is its number, and so is the response to it.                  *)
(***************************************************************************)
EXTENDS Naturals, Sequences

CONSTANTS
  Capacity,      \* flume::bounded(1)
  MaxLines,      \* bound on the lines entered
  MaxRequests    \* bound on the completions asked for

ASSUME ConsoleAssumption ==
  /\ Capacity \in Nat \ {0}
  /\ MaxLines \in Nat
  /\ MaxRequests \in Nat

VARIABLES
  runtime,       \* SERVER_STATE: started, active or stopping; nothing sets STOPPED
  loop,          \* the loop of the app: startup, running, exiting or ended
  todo,          \* systems that have not run in this update
  loaded,        \* systems of the startup that have loaded what they are for
  reader,        \* the thread that reads: off, typing, entering (a line waits for
                 \* room), asking (a request waits for room), waiting for a
                 \* response, ended
  lines,         \* CONSOLE_INPUT_CHANNEL
  requests,      \* CONSOLE_COMPLETE_REQUESTS
  responses,     \* CONSOLE_COMPLETE_RESPONSES
  drained,       \* requests that handler_console_complete has taken and not answered
  entered,       \* how many lines were entered
  asked,         \* how many completions were asked for
  given_up       \* how many requests timed out

server == <<runtime, loop, todo, loaded>>
channels == <<lines, requests, responses, drained>>
counters == <<entered, asked, given_up>>
vars == <<server, reader, channels, counters>>

\* The systems of the startup that load something, each with those it comes after.
After ==
  [init_server_storage |-> {}, setup_default_blocks |-> {},
   rescan_plugins |-> {"init_server_storage", "setup_default_blocks"},
   rescan_server_settings |-> {"rescan_plugins"},
   load_worlds |-> {"rescan_server_settings"}]

LoadSystems ==
  {"init_server_storage", "setup_default_blocks", "rescan_plugins", "rescan_server_settings",
   "load_worlds"}
StartupSystems == LoadSystems \cup {"run_handler", "activate_runtime"}
UpdateSystems == {"handler_console_input", "handler_console_complete"}

Init ==
  /\ runtime = "started"
  /\ loop = "startup"
  /\ todo = StartupSystems
  /\ loaded = {}
  /\ reader = "off"
  /\ lines = <<>>
  /\ requests = <<>>
  /\ responses = <<>>
  /\ drained = <<>>
  /\ entered = 0
  /\ asked = 0
  /\ given_up = 0

\* Mutation: sends do not wait.
HasRoom_Always(channel) == TRUE

\* Mutation: channels without a place, bounded(0).
HasRoom_Rendezvous(channel) == Len(channel) < Capacity

\* The sender does not wait.
HasRoom(channel) == Len(channel) <= Capacity

-----------------------------------------------------------------------------
(* Start and stop.                                                         *)

\* Mutation: set_stoped would set the state of its name, which nobody sets.
Stopping_Stopped == runtime = "stopped"

\* RuntimePlugin::is_stopping, and is_stopped, which says the same.
Stopping == runtime = "stopping"

\* A system of the startup runs.
Startup(system) ==
  /\ loop = "startup"
  /\ system \in todo
  /\ todo' = todo \ {system}
  /\ UNCHANGED <<loop, channels, counters>>

\* A system does nothing, or loads what it is for, or fails and stops the server.
Load(system, does) ==
  /\ Startup(system)
  /\ After[system] \cap todo = {}
  /\ \/ ~does /\ UNCHANGED <<runtime, loaded>>
     \/ does /\ loaded' = loaded \cup {system} /\ UNCHANGED runtime
     \/ does /\ runtime' = "stopping" /\ UNCHANGED loaded
  /\ UNCHANGED reader

InitServerStorage == Load("init_server_storage", ~Stopping)

SetupDefaultBlocks == Load("setup_default_blocks", ~Stopping)

\* The only one that does not look whether the server stops.
RescanPlugins == Load("rescan_plugins", TRUE)

\* An error in making the directory stops the server, and the file is read after it.
RescanServerSettings == Load("rescan_server_settings", ~Stopping)

LoadWorlds == Load("load_worlds", ~Stopping)

\* run_handler starts the thread, unless the server stops already.
RunHandler ==
  /\ Startup("run_handler")
  /\ reader' = IF Stopping THEN "off" ELSE "typing"
  /\ UNCHANGED <<runtime, loaded>>

\* Mutation: activation does not look at the state.
Activated_Always == "active"

Activated == IF runtime = "started" THEN "active" ELSE runtime

ActivateRuntime ==
  /\ Startup("activate_runtime")
  /\ runtime' = Activated
  /\ UNCHANGED <<loaded, reader>>

\* RuntimePlugin::stop by a task of the pool.
Stop ==
  /\ loop \in {"running", "exiting"}
  /\ runtime' = "stopping"
  /\ UNCHANGED <<loop, todo, loaded, reader, channels, counters>>

\* The systems of the console are not in the middle of anything.
Idle == drained = <<>> /\ HasRoom(responses)

\* The first system of an update; the rest of the update follows also if it is
\* the last one.
UpdateRuntime ==
  /\ loop \in {"startup", "running"}
  /\ todo = {} /\ Idle
  /\ loop' = IF Stopping THEN "exiting" ELSE "running"
  /\ todo' = UpdateSystems
  /\ UNCHANGED <<runtime, loaded, reader, channels, counters>>

\* app.run returns, and main with it.
Exit ==
  /\ loop = "exiting"
  /\ todo = {} /\ Idle
  /\ loop' = "ended"
  /\ UNCHANGED <<runtime, todo, loaded, reader, channels, counters>>

-----------------------------------------------------------------------------
(* The systems of the console.                                             *)

Update(system) ==
  /\ loop \in {"running", "exiting"}
  /\ system \in todo /\ Idle
  /\ todo' = todo \ {system}
  /\ UNCHANGED <<runtime, loop, loaded, counters>>

\* How many elements drain may take.
Drains(channel) == {n \in {Capacity, Len(channel)} : n <= Len(channel)}

\* Executes the lines that have come.
HandlerConsoleInput ==
  /\ Update("handler_console_input")
  /\ \E n \in Drains(lines) :
       /\ lines' = SubSeq(lines, n + 1, Len(lines))
       /\ reader' = IF reader = "entering" /\ n = Len(lines) THEN "typing" ELSE reader
  /\ UNCHANGED <<requests, responses, drained>>

\* Mutation: only the latest of the requests is answered.
ToAnswer_Latest(n) == IF n = 0 THEN <<>> ELSE <<requests[n]>>

\* The first n requests, all to be answered.
ToAnswer(n) == SubSeq(requests, 1, n)

\* Takes the requests that have come.
HandlerConsoleComplete ==
  /\ Update("handler_console_complete")
  /\ \E n \in Drains(requests) :
       /\ drained' = ToAnswer(n)
       /\ requests' = SubSeq(requests, n + 1, Len(requests))
       /\ reader' = IF reader = "asking" /\ n = Len(requests) THEN "waiting" ELSE reader
  /\ UNCHANGED <<lines, responses>>

\* send_complete_response, for each of them; a send that finds no room holds
\* up the whole update.
SendCompleteResponse ==
  /\ loop \in {"running", "exiting"}
  /\ drained # <<>>
  /\ HasRoom(responses)
  /\ responses' = Append(responses, Head(drained))
  /\ drained' = Tail(drained)
  /\ UNCHANGED <<server, reader, lines, requests, counters>>

-----------------------------------------------------------------------------
(* The thread that reads.                                                  *)

Reading == loop # "ended" /\ reader = "typing"

\* The line is sent, or waits for room.
EnterLine ==
  /\ Reading
  /\ entered < MaxLines
  /\ entered' = entered + 1
  /\ lines' = Append(lines, entered + 1)
  /\ reader' = IF Len(lines) < Capacity THEN "typing" ELSE "entering"
  /\ UNCHANGED <<server, requests, responses, drained, asked, given_up>>

\* Completer::complete sends a request.
Complete ==
  /\ Reading
  /\ asked < MaxRequests
  /\ asked' = asked + 1
  /\ requests' = Append(requests, asked + 1)
  /\ reader' = IF Len(requests) < Capacity THEN "waiting" ELSE "asking"
  /\ UNCHANGED <<server, lines, responses, drained, entered, given_up>>

\* The request has been sent, and recv_timeout waits.
Receiving == loop # "ended" /\ reader = "waiting"

\* The response that recv_timeout finds is taken for that to the request.
TakeResponse ==
  /\ Receiving
  /\ responses # <<>>
  /\ responses' = Tail(responses)
  /\ reader' = "typing"
  /\ UNCHANGED <<server, lines, requests, drained, counters>>

\* Five seconds have passed.
GiveUp ==
  /\ Receiving
  /\ responses = <<>>
  /\ given_up' = given_up + 1
  /\ reader' = "typing"
  /\ UNCHANGED <<server, channels, entered, asked>>

\* Ctrl-C ends the thread and stops the server.
Interrupt ==
  /\ Reading
  /\ runtime' = "stopping"
  /\ reader' = "ended"
  /\ UNCHANGED <<loop, todo, loaded, channels, counters>>

-----------------------------------------------------------------------------
ServerStep ==
  \/ InitServerStorage \/ SetupDefaultBlocks \/ RescanPlugins \/ RescanServerSettings
  \/ LoadWorlds \/ RunHandler \/ ActivateRuntime
  \/ UpdateRuntime \/ Exit
  \/ HandlerConsoleInput \/ HandlerConsoleComplete \/ SendCompleteResponse

ReaderStep == EnterLine \/ Complete \/ TakeResponse \/ GiveUp \/ Interrupt

Next == ServerStep \/ Stop \/ ReaderStep

Spec == Init /\ [][Next]_vars

\* The server runs, and the thread takes what it waits for; nobody has to type.
Fairness == WF_vars(ServerStep) /\ WF_vars(TakeResponse)

FairSpec == Spec /\ Fairness

-----------------------------------------------------------------------------
(* Properties.                                                             *)

\* Every variable has its type, and at most one sender waits at a channel.
TypeOK ==
  /\ runtime \in {"started", "active", "stopping"}
  /\ loop \in {"startup", "running", "exiting", "ended"}
  /\ todo \in SUBSET (StartupSystems \cup UpdateSystems)
  /\ loaded \in SUBSET LoadSystems
  /\ reader \in {"off", "typing", "entering", "asking", "waiting", "ended"}
  /\ \A channel \in {lines, requests, responses} :
       channel \in Seq(Nat) /\ Len(channel) <= Capacity + 1
  /\ drained \in Seq(Nat)
  /\ entered \in Nat
  /\ asked \in Nat
  /\ given_up \in Nat

\* Once requests have timed out, every completion shows the response to a
\* request as many before it as have timed out: late responses are never
\* thrown away, and the thread never catches up.
AnswersLag ==
  [][TakeResponse => Head(responses) = asked - given_up]_vars

\* The send of a response waits for a thread that does not take it: it types, or
\* waits itself for the server to drain its line or its request.
Stuck == ~HasRoom(responses) /\ reader # "waiting"

\* The update of the server stands still, until somebody asks for a completion or
\* for ever, only if more requests have timed out than the channel has places.
StuckAfterTimeouts == Stuck => given_up > Capacity

\* The server goes on after its first update only if everything has been loaded:
\* a failure is not covered up by the activation, which may come after it, and
\* nothing is skipped without one.
RunsLoaded == loop = "running" => loaded = LoadSystems

\* A stop, whether before the activation, between two systems or while a
\* request is under way, ends the server, unless it may be stuck as above.
StopEnds == runtime = "stopping" ~> loop = "ended" \/ given_up > Capacity
=============================================================================
