-------------------------- MODULE ServerLoopProofs --------------------------
(***************************************************************************)
(* Proofs about module ServerLoop: the requests that are under way are as  *)
(* many as have timed out, and one more while the thread waits; a system   *)
(* of the startup has loaded or the server stops; and the server may       *)
(* always go on, to its end once it stops, unless it is stuck.             *)
(***************************************************************************)
EXTENDS ServerLoop, TLAPS

Waiting == IF reader \in {"asking", "waiting"} THEN 1 ELSE 0

\* The element at place i of the requests under way, oldest first, and how many
\* there are.
UnderWay == Len(responses) + Len(drained) + Len(requests)

\* The requests under way are the latest ones, in the order they were made, and
\* as many as timed out, besides the one that the thread waits for.  A channel has
\* more than its places only while the thread waits for room, and the thread does
\* not run before it is started.
InOrder ==
  /\ UnderWay = given_up + Waiting
  /\ UnderWay <= asked
  /\ \A i \in DOMAIN responses : responses[i] = asked - UnderWay + i
  /\ \A i \in DOMAIN drained : drained[i] = asked - UnderWay + Len(responses) + i
  /\ \A i \in DOMAIN requests : requests[i] = asked - Len(requests) + i
  /\ reader = "asking" => requests # <<>>
  /\ reader # "asking" => Len(requests) <= Capacity
  /\ reader # "entering" => Len(lines) <= Capacity
  /\ "run_handler" \in todo => reader = "off"

\* A system of the startup that has run has loaded, or the server stops.
StopsOrLoads ==
  /\ loop = "startup" /\ runtime # "stopping" => LoadSystems \subseteq loaded \cup todo
  /\ loop = "running" => loaded = LoadSystems

IInv == TypeOK /\ InOrder /\ StopsOrLoads

USE ConsoleAssumption

LEMMA InitIInv == Init => IInv
  BY DEF Init, IInv, TypeOK, InOrder, StopsOrLoads, UnderWay, Waiting, HasRoom,
     StartupSystems, UpdateSystems

\* What drain takes of a channel, and what it leaves.
LEMMA DrainTaken ==
  ASSUME NEW channel \in Seq(Nat), NEW n \in Drains(channel)
  PROVE  /\ n \in Nat /\ n <= Len(channel)
         /\ SubSeq(channel, 1, n) \in Seq(Nat)
         /\ Len(SubSeq(channel, 1, n)) = n
         /\ \A i \in 1..n : SubSeq(channel, 1, n)[i] = channel[i]
         /\ SubSeq(channel, n + 1, Len(channel)) \in Seq(Nat)
         /\ Len(SubSeq(channel, n + 1, Len(channel))) = Len(channel) - n
         /\ \A i \in 1..(Len(channel) - n) :
              SubSeq(channel, n + 1, Len(channel))[i] = channel[n + i]
<1>1. n \in Nat /\ n <= Len(channel) /\ Len(channel) \in Nat
  BY DEF Drains
<1>2. /\ SubSeq(channel, 1, n) = [i \in 1..n |-> channel[i]]
      /\ SubSeq(channel, n + 1, Len(channel)) = [i \in 1..(Len(channel) - n) |-> channel[n + i]]
  BY <1>1
<1>3. \A i \in 1..Len(channel) : channel[i] \in Nat
  OBVIOUS
<1> QED
  BY <1>1, <1>2, <1>3

LEMMA ServerStepIInv == IInv /\ ServerStep => IInv'
<1> SUFFICES ASSUME IInv, ServerStep PROVE IInv'
  OBVIOUS
<1> USE DEF IInv, TypeOK, InOrder, StopsOrLoads, UnderWay, Waiting, HasRoom
<1>1. CASE \/ InitServerStorage \/ SetupDefaultBlocks \/ RescanPlugins \/ RescanServerSettings
            \/ LoadWorlds \/ RunHandler \/ ActivateRuntime
  <2>1. /\ runtime' \in {"started", "active", "stopping"}
        /\ loop = "startup"
        /\ todo' \subseteq todo
        /\ loaded' \in SUBSET LoadSystems
        /\ runtime' # "stopping" =>
             /\ runtime # "stopping"
             /\ loaded \cup todo \subseteq
                  loaded' \cup todo' \cup {"run_handler", "activate_runtime"}
        /\ \/ reader' = reader
           \/ "run_handler" \in todo \ todo' /\ reader' \in {"off", "typing"}
        /\ UNCHANGED <<loop, lines, requests, responses, drained, entered, asked, given_up>>
    <3> runtime \in {"started", "active", "stopping"} /\ loaded \in SUBSET LoadSystems
      OBVIOUS
    <3> HIDE DEF IInv
    <3>1. ASSUME NEW system \in LoadSystems, NEW does,
                 does \/ runtime = "stopping", Load(system, does)
          PROVE  /\ runtime' \in {runtime, "stopping"}
                 /\ loop = "startup"
                 /\ todo' \subseteq todo
                 /\ loaded' \in SUBSET LoadSystems
                 /\ runtime' # "stopping" =>
                      /\ runtime # "stopping"
                      /\ loaded \cup todo \subseteq loaded' \cup todo'
                 /\ reader' = reader
                 /\ UNCHANGED <<loop, lines, requests, responses, drained, entered, asked, given_up>>
      BY <3>1 DEF Load, Startup, channels, counters
    <3>4. CASE \/ InitServerStorage \/ SetupDefaultBlocks \/ RescanPlugins
               \/ RescanServerSettings \/ LoadWorlds
      <4>1. PICK system \in LoadSystems :
              Load(system, runtime # "stopping") \/ Load(system, TRUE)
        BY <3>4 DEF InitServerStorage, SetupDefaultBlocks, RescanPlugins, RescanServerSettings,
                    LoadWorlds, LoadSystems, Stopping
      <4> QED
        BY <3>1, <4>1
    <3>2. CASE RunHandler
      BY <3>2 DEF RunHandler, Startup, channels, counters
    <3>3. CASE ActivateRuntime
      BY <3>3 DEF ActivateRuntime, Activated, Startup, channels, counters
    <3> QED
      BY <1>1, <3>2, <3>3, <3>4
  <2>2. StopsOrLoads'
    <3>1. loop = "startup" /\ runtime # "stopping" => LoadSystems \subseteq loaded \cup todo
      OBVIOUS
    <3> HIDE DEF IInv
    <3> QED
      BY <2>1, <3>1 DEF LoadSystems
  <2>3. TypeOK' /\ InOrder'
    BY <2>1
  <2> QED
    BY <2>2, <2>3
<1>2. CASE UpdateRuntime \/ Exit
  <2>1. StopsOrLoads'
    BY <1>2 DEF UpdateRuntime, Exit, Stopping
  <2>2. TypeOK' /\ InOrder'
    BY <1>2 DEF UpdateRuntime, Exit, UpdateSystems, channels, counters
  <2> QED
    BY <2>1, <2>2
<1>3. CASE HandlerConsoleInput
  <2>1. PICK n \in Drains(lines) :
          /\ lines' = SubSeq(lines, n + 1, Len(lines))
          /\ reader' = IF reader = "entering" /\ n = Len(lines) THEN "typing" ELSE reader
    BY <1>3 DEF HandlerConsoleInput
  <2>2. /\ todo' = todo \ {"handler_console_input"}
        /\ UNCHANGED <<runtime, loop, loaded, requests, responses, drained, entered, asked, given_up>>
    BY <1>3 DEF HandlerConsoleInput, Update, counters
  <2>3. n \in Nat /\ n <= Len(lines) /\ lines' \in Seq(Nat) /\ Len(lines') = Len(lines) - n
    BY <2>1, DrainTaken
  <2>4. Len(lines') <= Capacity /\ (n # Len(lines) \/ reader # "entering" => reader' = reader)
    <3>1. Len(lines) <= Capacity + 1 /\ Len(lines) \in Nat /\ n \in {Capacity, Len(lines)}
      BY <2>1 DEF Drains
    <3> QED
      BY <2>1, <2>3, <3>1
  <2>5. TypeOK' /\ StopsOrLoads'
    <3>1. Len(lines') <= Capacity + 1
      BY <2>3, <2>4
    <3>2. reader' \in {"off", "typing", "entering", "asking", "waiting", "ended"}
      BY <2>1
    <3>3. TypeOK'
      <4>1. TypeOK
        OBVIOUS
      <4> HIDE DEF IInv, InOrder, StopsOrLoads
      <4> QED
        BY <2>2, <2>3, <3>1, <3>2, <4>1
    <3>4. StopsOrLoads'
      <4>1. StopsOrLoads /\ "handler_console_input" \notin LoadSystems
            /\ "handler_console_complete" \notin LoadSystems
        BY DEF LoadSystems
      <4> HIDE DEF IInv, InOrder, TypeOK
      <4> QED
        BY <2>2, <4>1
    <3> QED
      BY <3>3, <3>4
  <2>6. InOrder'
    <3>1. /\ (reader' = "asking") = (reader = "asking")
          /\ (reader' = "waiting") = (reader = "waiting")
          /\ (reader = "off" => reader' = "off")
      BY <2>1
    <3>2. InOrder
      OBVIOUS
    <3> HIDE DEF IInv
    <3>3. UnderWay' = UnderWay /\ Waiting' = Waiting
      BY <2>2, <3>1
    <3> HIDE DEF UnderWay, Waiting
    <3> QED
      BY <2>2, <2>4, <3>1, <3>2, <3>3
  <2> QED
    BY <2>5, <2>6
<1>4. CASE HandlerConsoleComplete
  <2>1. PICK n \in Drains(requests) :
          /\ drained' = ToAnswer(n)
          /\ requests' = SubSeq(requests, n + 1, Len(requests))
          /\ reader' = IF reader = "asking" /\ n = Len(requests) THEN "waiting" ELSE reader
    BY <1>4 DEF HandlerConsoleComplete
  <2>2. /\ todo' = todo \ {"handler_console_complete"} /\ drained = <<>>
        /\ UNCHANGED <<runtime, loop, loaded, lines, responses, entered, asked, given_up>>
    BY <1>4 DEF HandlerConsoleComplete, Update, Idle, counters
  <2>3. /\ n \in Nat /\ n <= Len(requests)
        /\ requests' \in Seq(Nat) /\ Len(requests') = Len(requests) - n
        /\ \A i \in 1..Len(requests') : requests'[i] = requests[n + i]
        /\ drained' \in Seq(Nat) /\ Len(drained') = n
        /\ \A i \in 1..n : drained'[i] = requests[i]
    <3>1. requests \in Seq(Nat) /\ n \in Drains(requests)
      BY <2>1
    <3>2. drained' = SubSeq(requests, 1, n) /\ requests' = SubSeq(requests, n + 1, Len(requests))
      BY <2>1 DEF ToAnswer
    <3> HIDE DEF IInv
    <3> QED
      BY <3>1, <3>2, DrainTaken
  <2>4. Len(requests') <= Capacity /\ (n # Len(requests) => requests' # <<>>)
    <3>1. /\ Len(requests) <= Capacity + 1 /\ Len(requests) \in Nat
          /\ n \in {Capacity, Len(requests)}
      BY <2>1 DEF Drains
    <3> HIDE DEF IInv
    <3> QED
      BY <2>3, <3>1, ConsoleAssumption
  <2>5. TypeOK' /\ StopsOrLoads'
    <3>1. Len(requests') <= Capacity + 1
      BY <2>3, <2>4
    <3>2. reader' \in {"off", "typing", "entering", "asking", "waiting", "ended"}
      BY <2>1
    <3>3. TypeOK'
      <4>1. TypeOK
        OBVIOUS
      <4> HIDE DEF IInv, InOrder, StopsOrLoads
      <4> QED
        BY <2>2, <2>3, <3>1, <3>2, <4>1
    <3>4. StopsOrLoads'
      <4>1. StopsOrLoads /\ "handler_console_input" \notin LoadSystems
            /\ "handler_console_complete" \notin LoadSystems
        BY DEF LoadSystems
      <4> HIDE DEF IInv, InOrder, TypeOK
      <4> QED
        BY <2>2, <4>1
    <3> QED
      BY <3>3, <3>4
  <2>6. UnderWay' = UnderWay /\ Waiting' = Waiting
    <3>1. (reader' \in {"asking", "waiting"}) = (reader \in {"asking", "waiting"})
      BY <2>1
    <3>2. Len(drained) = 0 /\ Len(requests) \in Nat /\ Len(responses') = Len(responses)
      BY <2>2
    <3> QED
      BY <2>3, <3>1, <3>2
  <2>7. InOrder'
    <3>1. /\ UnderWay = given_up + Waiting /\ UnderWay <= asked /\ UnderWay \in Nat
          /\ Len(responses) \in Nat /\ Len(requests) \in Nat /\ asked \in Nat
          /\ UnderWay = Len(responses) + Len(requests)
      BY <2>2
    <3>2. /\ \A i \in DOMAIN responses : responses[i] = asked - UnderWay + i
          /\ \A i \in 1..Len(requests) : requests[i] = asked - Len(requests) + i
          /\ reader # "entering" => Len(lines) <= Capacity
          /\ reader = "asking" => requests # <<>>
          /\ "run_handler" \in todo => reader = "off"
      OBVIOUS
    <3> HIDE DEF UnderWay, IInv, Waiting
    <3>3. \A i \in 1..Len(drained') : drained'[i] = asked' - UnderWay' + Len(responses') + i
      <4> SUFFICES ASSUME NEW i \in 1..n
                   PROVE  drained'[i] = asked - UnderWay + Len(responses) + i
        BY <2>2, <2>3, <2>6
      <4>1. drained'[i] = requests[i] /\ i \in 1..Len(requests) /\ i \in Nat
        BY <2>3, <3>1
      <4>2. requests[i] = asked - Len(requests) + i
        BY <3>2, <4>1
      <4> HIDE DEF InOrder, TypeOK, StopsOrLoads
      <4> QED
        BY <3>1, <4>1, <4>2
    <3>4. \A i \in 1..Len(requests') : requests'[i] = asked' - Len(requests') + i
      BY <2>2, <2>3, <3>1, <3>2
    <3>5. DOMAIN drained' = 1..Len(drained') /\ DOMAIN requests' = 1..Len(requests')
      BY <2>3
    <3> QED
      BY <2>1, <2>2, <2>4, <2>6, <3>1, <3>2, <3>3, <3>4, <3>5
  <2> QED
    BY <2>5, <2>7
<1>5. CASE SendCompleteResponse
  <2>1. /\ drained # <<>> /\ HasRoom(responses)
        /\ responses' = Append(responses, Head(drained))
        /\ drained' = Tail(drained)
        /\ UNCHANGED <<runtime, loop, todo, loaded, reader, lines, requests, entered, asked, given_up>>
    BY <1>5 DEF SendCompleteResponse, server, counters
  <2>2. /\ Len(drained) \in Nat \ {0} /\ Head(drained) = drained[1] /\ drained[1] \in Nat
        /\ Len(drained') = Len(drained) - 1
        /\ \A i \in 1..(Len(drained) - 1) : drained'[i] = drained[i + 1]
        /\ drained' \in Seq(Nat)
    <3>1. drained \in Seq(Nat) /\ drained # <<>> /\ drained' = Tail(drained)
      BY <2>1
    <3> HIDE DEF IInv
    <3> QED
      BY <3>1
  <2>3. /\ Len(responses') = Len(responses) + 1
        /\ \A i \in 1..Len(responses) : responses'[i] = responses[i]
        /\ responses'[Len(responses) + 1] = drained[1]
        /\ responses' \in Seq(Nat)
    BY <2>1, <2>2
  <2>4. TypeOK'
    BY <2>1, <2>2, <2>3
  <2>5. UnderWay' = UnderWay
    BY <2>1, <2>2, <2>3
  <2>6. \A i \in 1..(Len(responses) + 1) : responses'[i] = asked - UnderWay + i
    <3>1. drained[1] = asked - UnderWay + Len(responses) + 1
      <4>1. 1 \in DOMAIN drained
        BY <2>2
      <4>2. \A i \in DOMAIN drained : drained[i] = asked - UnderWay + Len(responses) + i
        OBVIOUS
      <4> HIDE DEF UnderWay, IInv
      <4> QED
        BY <4>1, <4>2
    <3>2. UnderWay \in Nat /\ Len(responses) \in Nat /\ asked \in Nat
      OBVIOUS
    <3>3. \A i \in 1..Len(responses) : responses[i] = asked - UnderWay + i
      OBVIOUS
    <3> HIDE DEF UnderWay, IInv
    <3> QED
      BY <2>3, <3>1, <3>2, <3>3
  <2>7. \A i \in 1..(Len(drained) - 1) : drained'[i] = asked - UnderWay + Len(responses') + i
    <3>1. \A i \in 1..Len(drained) : drained[i] = asked - UnderWay + Len(responses) + i
      OBVIOUS
    <3>2. UnderWay \in Nat /\ Len(responses) \in Nat /\ asked \in Nat
      OBVIOUS
    <3> HIDE DEF UnderWay, IInv
    <3> QED
      BY <2>2, <2>3, <3>1, <3>2
  <2>8. DOMAIN responses' = 1..(Len(responses) + 1) /\ DOMAIN drained' = 1..(Len(drained) - 1)
    BY <2>2, <2>3
  <2>9. InOrder'
    <3>1. UnderWay = given_up + Waiting /\ UnderWay <= asked
      OBVIOUS
    <3>2. \A i \in DOMAIN requests : requests[i] = asked - Len(requests) + i
      OBVIOUS
    <3>3. /\ reader = "asking" => requests # <<>>
          /\ reader # "asking" => Len(requests) <= Capacity
          /\ reader # "entering" => Len(lines) <= Capacity
          /\ "run_handler" \in todo => reader = "off"
      OBVIOUS
    <3> HIDE DEF UnderWay, IInv, HasRoom, Waiting
    <3>4. Waiting' = Waiting
      BY <2>1 DEF Waiting
    <3> QED
      BY <2>1, <2>5, <2>6, <2>7, <2>8, <3>1, <3>2, <3>3, <3>4
  <2>10. StopsOrLoads'
    BY <2>1
  <2> QED
    BY <2>4, <2>9, <2>10
<1> QED
  BY <1>1, <1>2, <1>3, <1>4, <1>5 DEF ServerStep

LEMMA ReaderStepIInv == IInv /\ ReaderStep => IInv'
<1> SUFFICES ASSUME IInv, ReaderStep PROVE IInv'
  OBVIOUS
<1> USE DEF IInv, TypeOK, InOrder, StopsOrLoads, UnderWay, Waiting, HasRoom
<1>1. CASE EnterLine
  <2>1. /\ reader = "typing" /\ reader' = IF Len(lines) < Capacity THEN "typing" ELSE "entering"
        /\ entered' = entered + 1 /\ lines' = Append(lines, entered + 1)
        /\ UNCHANGED <<runtime, loop, todo, loaded, requests, responses, drained, asked, given_up>>
    BY <1>1 DEF EnterLine, Reading, server
  <2>2. lines' \in Seq(Nat) /\ Len(lines') = Len(lines) + 1 /\ Len(lines) <= Capacity
    BY <2>1
  <2> QED
    BY <2>1, <2>2
<1>2. CASE Complete
  <2>1. /\ reader = "typing" /\ asked' = asked + 1
        /\ reader' = IF Len(requests) < Capacity THEN "waiting" ELSE "asking"
        /\ requests' = Append(requests, asked + 1)
        /\ UNCHANGED <<runtime, loop, todo, loaded, lines, responses, drained, entered, given_up>>
    BY <1>2 DEF Complete, Reading, server
  <2>2. /\ Len(requests') = Len(requests) + 1
        /\ \A i \in 1..Len(requests) : requests'[i] = requests[i]
        /\ requests'[Len(requests) + 1] = asked + 1
        /\ requests' \in Seq(Nat)
    BY <2>1
  <2>3. TypeOK'
    BY <2>1, <2>2
  <2>4. UnderWay' = UnderWay + 1
    BY <2>1, <2>2
  <2>5. /\ DOMAIN requests' = 1..(Len(requests) + 1)
        /\ \A i \in 1..(Len(requests) + 1) : requests'[i] = asked' - Len(requests') + i
    <3>1. \A i \in 1..Len(requests) : requests[i] = asked - Len(requests) + i
      OBVIOUS
    <3>2. Len(requests) \in Nat /\ asked \in Nat
      OBVIOUS
    <3> HIDE DEF IInv
    <3> QED
      BY <2>1, <2>2, <3>1, <3>2
  <2>6. asked' - UnderWay' = asked - UnderWay
    BY <2>1, <2>4
  <2>7. InOrder'
    <3>1. /\ UnderWay = given_up + Waiting /\ UnderWay <= asked /\ Waiting = 0
          /\ UnderWay \in Nat /\ asked \in Nat /\ given_up \in Nat
          /\ "run_handler" \notin todo
      BY <2>1
    <3>2. /\ \A i \in DOMAIN responses : responses[i] = asked - UnderWay + i
          /\ \A i \in DOMAIN drained : drained[i] = asked - UnderWay + Len(responses) + i
      OBVIOUS
    <3>8. Len(requests) \in Nat /\ Capacity \in Nat /\ Len(lines) <= Capacity
      BY <2>1
    <3> HIDE DEF UnderWay, IInv, Waiting
    <3>3. Waiting' = 1
      BY <2>1 DEF Waiting
    <3>4. /\ UnderWay' = given_up' + Waiting' /\ UnderWay' <= asked'
          /\ "run_handler" \notin todo'
      BY <2>1, <2>4, <3>1, <3>3
    <3>5. /\ \A i \in DOMAIN responses' : responses'[i] = asked' - UnderWay' + i
          /\ \A i \in DOMAIN drained' :
               drained'[i] = asked' - UnderWay' + Len(responses') + i
      BY <2>1, <2>6, <3>2
    <3>6. \A i \in DOMAIN requests' : requests'[i] = asked' - Len(requests') + i
      BY <2>5
    <3>7. /\ reader' # "asking" => Len(requests') <= Capacity
          /\ reader' = "asking" => requests' # <<>>
          /\ reader' # "entering" => Len(lines') <= Capacity
      BY <2>1, <2>2, <3>8
    <3> QED
      BY <3>4, <3>5, <3>6, <3>7
  <2>8. StopsOrLoads'
    BY <2>1
  <2> QED
    BY <2>3, <2>7, <2>8
<1>3. CASE TakeResponse
  <2>1. /\ reader = "waiting" /\ reader' = "typing"
        /\ responses # <<>> /\ responses' = Tail(responses)
        /\ UNCHANGED <<runtime, loop, todo, loaded, lines, requests, drained, entered, asked, given_up>>
    BY <1>3 DEF TakeResponse, Receiving, server, counters
  <2>2. /\ Len(responses') = Len(responses) - 1
        /\ \A i \in 1..(Len(responses) - 1) : responses'[i] = responses[i + 1]
        /\ responses' \in Seq(Nat)
    BY <2>1
  <2>3. TypeOK'
    BY <2>1, <2>2
  <2>4. UnderWay' = UnderWay - 1
    BY <2>1, <2>2
  <2>5. DOMAIN responses' = 1..(Len(responses) - 1)
    BY <2>2
  <2>6. InOrder'
    <3>1. /\ UnderWay = given_up + Waiting /\ UnderWay <= asked /\ Waiting = 1
          /\ UnderWay \in Nat /\ asked \in Nat /\ Len(responses) \in Nat /\ given_up \in Nat
          /\ "run_handler" \notin todo /\ Len(requests) <= Capacity /\ Len(lines) <= Capacity
      BY <2>1
    <3>2. /\ \A i \in DOMAIN responses : responses[i] = asked - UnderWay + i
          /\ \A i \in DOMAIN drained : drained[i] = asked - UnderWay + Len(responses) + i
          /\ \A i \in DOMAIN requests : requests[i] = asked - Len(requests) + i
      OBVIOUS
    <3>7. DOMAIN responses = 1..Len(responses)
      BY <2>1
    <3>6. \A i \in DOMAIN drained : i \in Nat
      <4>1. drained \in Seq(Nat)
        OBVIOUS
      <4> HIDE DEF IInv, InOrder, TypeOK, StopsOrLoads
      <4> QED
        BY <4>1
    <3> HIDE DEF UnderWay, IInv, Waiting
    <3>3. Waiting' = 0
      BY <2>1 DEF Waiting
    <3> HIDE DEF InOrder, TypeOK, StopsOrLoads
    <3>4. \A i \in 1..(Len(responses) - 1) : responses'[i] = asked - UnderWay' + i
      BY <2>2, <2>4, <3>1, <3>2, <3>7
    <3>5. \A i \in DOMAIN drained : drained[i] = asked - UnderWay' + Len(responses') + i
      BY <2>2, <2>4, <3>1, <3>2, <3>6
    <3> QED
      BY <2>1, <2>4, <2>5, <3>1, <3>2, <3>3, <3>4, <3>5 DEF InOrder
  <2>7. StopsOrLoads'
    BY <2>1
  <2> QED
    BY <2>3, <2>6, <2>7
<1>4. CASE GiveUp
  BY <1>4 DEF GiveUp, Receiving, server, channels
<1>5. CASE Interrupt
  BY <1>5 DEF Interrupt, Reading, channels, counters
<1> QED
  BY <1>1, <1>2, <1>3, <1>4, <1>5 DEF ReaderStep

LEMMA NextIInv == IInv /\ [Next]_vars => IInv'
<1>1. IInv /\ Stop => IInv'
  BY DEF Stop, IInv, TypeOK, InOrder, StopsOrLoads, UnderWay, Waiting, HasRoom,
     channels, counters
<1>2. IInv /\ UNCHANGED vars => IInv'
  BY DEF vars, server, channels, counters, IInv, TypeOK, InOrder, StopsOrLoads,
     UnderWay, Waiting, HasRoom
<1> QED
  BY <1>1, <1>2, ServerStepIInv, ReaderStepIInv DEF Next

LEMMA Invariance == Spec => []IInv
  BY InitIInv, NextIInv, PTL DEF Spec

\* Every variable of ServerLoop always has its type, for channels of any size: a
\* sender waits for room (flume::bounded, completer.rs and console_handler.rs).
THEOREM TypeCorrect == Spec => []TypeOK
<1>1. IInv => TypeOK
  BY DEF IInv
<1> QED
  BY <1>1, Invariance, PTL

\* The send of a response (completer.rs) holds up the server only after more
\* requests timed out than the channel has places.
THEOREM StuckAfterTimeoutsHolds == Spec => []StuckAfterTimeouts
<1>1. IInv => StuckAfterTimeouts
  BY DEF IInv, TypeOK, InOrder, UnderWay, Waiting, StuckAfterTimeouts, Stuck, HasRoom
<1> QED
  BY <1>1, Invariance, PTL

\* The systems of the startup (plugins_manager.rs, load_worlds.rs, ...) have all
\* loaded when the server goes on after its first update (update_runtime).
THEOREM RunsLoadedHolds == Spec => []RunsLoaded
<1>1. IInv => RunsLoaded
  BY DEF IInv, StopsOrLoads, RunsLoaded
<1> QED
  BY <1>1, Invariance, PTL

\* A completion (Completer::complete) shows the response to the request as many
\* before its own as have timed out.
THEOREM AnswersLagHolds == Spec => AnswersLag
<1>1. IInv /\ TakeResponse => Head(responses) = asked - given_up
  <2> SUFFICES ASSUME IInv, TakeResponse PROVE Head(responses) = asked - given_up
    OBVIOUS
  <2>1. /\ reader = "waiting" /\ responses # <<>> /\ responses \in Seq(Nat)
        /\ asked \in Nat /\ given_up \in Nat
    BY DEF IInv, TypeOK, TakeResponse, Receiving
  <2>2. 1 \in DOMAIN responses /\ Head(responses) = responses[1]
    BY <2>1
  <2>3. responses[1] = asked - UnderWay + 1 /\ UnderWay = given_up + 1
    BY <2>1, <2>2 DEF IInv, InOrder, Waiting
  <2> QED
    BY <2>1, <2>2, <2>3
<1>2. IInv => [TakeResponse => Head(responses) = asked - given_up]_vars
  BY <1>1
<1> QED
  BY <1>2, Invariance, PTL DEF AnswersLag

-----------------------------------------------------------------------------
(* What StopEnds rests on: while it has not ended, the server has a step to   *)
(* take or is stuck, and once it stops its steps are numbered.  That enabled  *)
(* steps are taken at last is fairness, and stays with TLC.                   *)

\* The systems to run are those of the phase, and requests are answered only
\* by the running server.
PhaseSystems ==
  /\ loop = "startup" => todo \subseteq StartupSystems
  /\ loop # "startup" => todo \subseteq UpdateSystems
  /\ drained # <<>> => loop \in {"running", "exiting"}

\* The conditions under which ServerStep has a step, one for each kind of system.
ServerMayStep ==
  \/ loop = "startup" /\ \E system \in todo \cap StartupSystems :
                           system \in LoadSystems => After[system] \cap todo = {}
  \/ loop # "ended" /\ todo = {} /\ Idle
  \/ loop \in {"running", "exiting"} /\ todo \cap UpdateSystems # {} /\ Idle
  \/ loop \in {"running", "exiting"} /\ drained # <<>> /\ HasRoom(responses)

\* The thread has a response to take.
ReaderMayTake == Receiving /\ responses # <<>>

LEMMA PhaseSystemsInvariant == Spec => []PhaseSystems
<1>1. Init => PhaseSystems
  BY DEF Init, PhaseSystems
<1>2. PhaseSystems /\ [Next]_vars => PhaseSystems'
  <2> SUFFICES ASSUME PhaseSystems, [Next]_vars PROVE PhaseSystems'
    OBVIOUS
  <2> USE DEF PhaseSystems
  <2>1. CASE \/ InitServerStorage \/ SetupDefaultBlocks \/ RescanPlugins
             \/ RescanServerSettings \/ LoadWorlds \/ RunHandler \/ ActivateRuntime
    <3>1. todo' \subseteq todo /\ UNCHANGED <<loop, drained>>
      BY <2>1 DEF InitServerStorage, SetupDefaultBlocks, RescanPlugins, RescanServerSettings,
                  LoadWorlds, RunHandler, ActivateRuntime, Load, Startup, channels
    <3> QED
      BY <3>1
  <2>2. CASE UpdateRuntime \/ Exit
    BY <2>2 DEF UpdateRuntime, Exit, Idle, channels
  <2>3. CASE HandlerConsoleInput \/ HandlerConsoleComplete
    BY <2>3 DEF HandlerConsoleInput, HandlerConsoleComplete, Update
  <2>4. CASE SendCompleteResponse
    BY <2>4 DEF SendCompleteResponse, server
  <2>5. CASE Stop \/ ReaderStep
    BY <2>5 DEF Stop, ReaderStep, EnterLine, Complete, TakeResponse, GiveUp, Interrupt,
                server, channels
  <2>6. CASE UNCHANGED vars
    BY <2>6 DEF vars, server, channels
  <2> QED
    BY <2>1, <2>2, <2>3, <2>4, <2>5, <2>6 DEF Next, ServerStep
<1> QED
  BY <1>1, <1>2, PTL DEF Spec

\* One of the systems to run at startup is not after another one of them.
LEMMA StartupGoesOn ==
  ASSUME todo \subseteq StartupSystems, todo # {}
  PROVE  \E system \in todo : system \in LoadSystems => After[system] \cap todo = {}
<1>1. CASE todo \cap {"run_handler", "activate_runtime"} # {}
  BY <1>1 DEF LoadSystems
<1>2. CASE todo \cap {"init_server_storage", "setup_default_blocks"} # {}
  BY <1>2 DEF After
<1>3. CASE todo \subseteq {"rescan_plugins", "rescan_server_settings", "load_worlds"}
  <2>1. CASE "rescan_plugins" \in todo
    BY <1>3, <2>1 DEF After
  <2>2. CASE "rescan_plugins" \notin todo /\ "rescan_server_settings" \in todo
    <3>1. After["rescan_server_settings"] = {"rescan_plugins"}
      BY DEF After
    <3> QED
      BY <2>2, <3>1
  <2>3. CASE "rescan_plugins" \notin todo /\ "rescan_server_settings" \notin todo
    <3>1. After["load_worlds"] = {"rescan_server_settings"} /\ "load_worlds" \in todo
      BY <1>3, <2>3 DEF After
    <3> QED
      BY <2>3, <3>1
  <2> QED
    BY <2>1, <2>2, <2>3
<1> QED
  BY <1>1, <1>2, <1>3 DEF StartupSystems, LoadSystems

\* Until it has ended the server has a step to take, or takes one after the
\* thread has taken a response that waits for it, or is stuck in the send of a
\* response (completer.rs), and then more requests have timed out than the
\* channel has places: the order of the systems of the startup has no cycle, and
\* nothing else of the console holds up the server.
THEOREM ServerGoesOn ==
  Spec => [](\/ loop = "ended"
             \/ ServerMayStep
             \/ ReaderMayTake
             \/ Stuck /\ given_up > Capacity)
<1>1. IInv /\ PhaseSystems =>
        \/ loop = "ended"
        \/ ServerMayStep
        \/ ReaderMayTake
        \/ Stuck /\ given_up > Capacity
  <2> SUFFICES ASSUME IInv, PhaseSystems, loop # "ended", ~ServerMayStep, ~ReaderMayTake
               PROVE  Stuck /\ given_up > Capacity
    OBVIOUS
  <2>1. /\ loop \in {"startup", "running", "exiting"}
        /\ responses \in Seq(Nat) /\ Capacity \in Nat
    BY DEF IInv, TypeOK
  <2>2. ~HasRoom(responses)
    <3> SUFFICES ASSUME HasRoom(responses) PROVE FALSE
      OBVIOUS
    <3>1. Idle
      BY <2>1 DEF PhaseSystems, ServerMayStep, Idle
    <3>2. CASE loop = "startup"
      <4>1. todo \subseteq StartupSystems
        BY <3>2 DEF PhaseSystems
      <4> QED
        BY <3>1, <3>2, <4>1, StartupGoesOn DEF ServerMayStep
    <3>3. CASE loop \in {"running", "exiting"}
      BY <3>1, <3>3 DEF ServerMayStep, PhaseSystems
    <3> QED
      BY <2>1, <3>2, <3>3
  <2>3. reader # "waiting"
    BY <2>1, <2>2 DEF ReaderMayTake, Receiving, HasRoom
  <2>4. Stuck
    BY <2>2, <2>3 DEF Stuck
  <2>5. StuckAfterTimeouts
    BY DEF IInv, TypeOK, InOrder, UnderWay, Waiting, StuckAfterTimeouts, Stuck, HasRoom
  <2> QED
    BY <2>4, <2>5 DEF StuckAfterTimeouts
<1> QED
  BY <1>1, Invariance, PhaseSystemsInvariant, PTL

\* How many phases the loop has before it.
Phases == [startup |-> 3, running |-> 2, exiting |-> 1, ended |-> 0]

\* What is left to do of the server's steps: a later phase, or the same with
\* fewer systems to run, or the same with fewer requests to answer.
LessLeft ==
  \/ Phases[loop'] < Phases[loop]
  \/ loop' = loop /\ todo' \subseteq todo /\ todo' # todo
  \/ loop' = loop /\ todo' = todo /\ Len(drained') < Len(drained)

\* A server that is to stop (RuntimePlugin::is_stopping) stays so, and every
\* step of it brings it nearer to its end; what the thread of the console does,
\* and a second stop, set nothing back.
THEOREM StopGoesOn ==
  Spec => [][runtime = "stopping" =>
               /\ runtime' = "stopping"
               /\ ServerStep => LessLeft
               /\ ~ServerStep => UNCHANGED <<loop, todo, drained>>]_vars
<1>1. IInv /\ PhaseSystems /\ Next /\ runtime = "stopping" =>
        /\ runtime' = "stopping"
        /\ ServerStep => LessLeft
        /\ ~ServerStep => UNCHANGED <<loop, todo, drained>>
  <2> SUFFICES ASSUME IInv, PhaseSystems, Next, runtime = "stopping"
               PROVE  /\ runtime' = "stopping"
                      /\ ServerStep => LessLeft
                      /\ ~ServerStep => UNCHANGED <<loop, todo, drained>>
    OBVIOUS
  <2>1. CASE \/ InitServerStorage \/ SetupDefaultBlocks \/ RescanPlugins
             \/ RescanServerSettings \/ LoadWorlds \/ RunHandler \/ ActivateRuntime
    <3>1. /\ runtime' = "stopping" /\ loop' = loop
          /\ \E system \in todo : todo' = todo \ {system}
      BY <2>1 DEF InitServerStorage, SetupDefaultBlocks, RescanPlugins, RescanServerSettings,
                  LoadWorlds, RunHandler, ActivateRuntime, Activated, Load, Startup
    <3> QED
      BY <2>1, <3>1 DEF LessLeft, ServerStep
  <2>2. CASE UpdateRuntime \/ Exit
    <3>1. runtime' = "stopping" /\ Phases[loop'] < Phases[loop]
      BY <2>2 DEF UpdateRuntime, Exit, Stopping, Phases
    <3> QED
      BY <2>2, <3>1 DEF LessLeft, ServerStep
  <2>3. CASE HandlerConsoleInput \/ HandlerConsoleComplete
    <3>1. /\ runtime' = "stopping" /\ loop' = loop
          /\ \E system \in todo : todo' = todo \ {system}
      BY <2>3 DEF HandlerConsoleInput, HandlerConsoleComplete, Update
    <3> QED
      BY <2>3, <3>1 DEF LessLeft, ServerStep
  <2>4. CASE SendCompleteResponse
    <3>1. /\ runtime' = "stopping" /\ loop' = loop /\ todo' = todo
          /\ drained # <<>> /\ drained' = Tail(drained) /\ drained \in Seq(Nat)
      BY <2>4 DEF SendCompleteResponse, server, IInv, TypeOK
    <3>2. Len(drained') < Len(drained)
      BY <3>1
    <3> QED
      BY <2>4, <3>1, <3>2 DEF LessLeft, ServerStep
  <2>5. CASE ~ServerStep
    BY <2>5 DEF Next, Stop, ReaderStep, EnterLine, Complete, TakeResponse, GiveUp, Interrupt,
                server, channels
  <2> QED
    BY <2>1, <2>2, <2>3, <2>4, <2>5 DEF ServerStep
<1>2. IInv /\ PhaseSystems =>
        [Next => (runtime = "stopping" =>
                    /\ runtime' = "stopping"
                    /\ ServerStep => LessLeft
                    /\ ~ServerStep => UNCHANGED <<loop, todo, drained>>)]_vars
  BY <1>1
<1> QED
  BY <1>2, Invariance, PhaseSystemsInvariant, PTL DEF Spec
=============================================================================
