-------------------------- MODULE SdkSessionProofs --------------------------
(***************************************************************************)
(* What holds of the session for every set of robots, heartbeat threads    *)
(* and descriptors, every buffer, and every choice of calls and faults     *)
(* that the theorem does not exclude.                                      *)
(***************************************************************************)
EXTENDS SdkSession, RecursionFacts, TLAPS

(* socket: the lowest free descriptor is one. *)
LEMMA FreeFdFits ==
    ASSUME fds # Fds, fds \subseteq Fds
    PROVE  FreeFd \in Fds \ fds
<1>1. Fds \ fds # {} /\ Fds \ fds \in SUBSET Nat
  BY SessionAssumption
<1>2. \E f \in Fds \ fds : \A g \in Fds \ fds : f <= g
  BY <1>1, LeastNat
<1> QED BY <1>2 DEF FreeFd

-----------------------------------------------------------------------------
(* Type correctness.  TypeOK needs that the call under way has the fields    *)
(* its steps use.                                                            *)

OfRobot  == {"connect", "connectSend", "connectRecv", "connectInfo", "connectSpawn",
             "connectLocal", "disconnect", "disconnectRecv", "disconnectClear"}
OfSearch == {"discovery", "discoveryOff", "discoveryRecv"}

CallFits ==
    /\ app.at \in OfRobot => app.call \in Calls /\ app.call.ip \in Robots \cup {Local}
    /\ app.at \in OfSearch => app.call \in Calls /\ app.call.max \in Nat /\ app.call.name \in Robots \cup {NoAddr}

Typed == TypeOK /\ CallFits

LEMMA CallFields ==
    ASSUME NEW c \in Calls
    PROVE  /\ c.op \in {"init", "deinit", "connect", "disconnect", "report", "discovery"}
           /\ c.op # "discovery" => c.ip \in Robots \cup {Local}
           /\ c.op = "discovery" => c.max \in Nat /\ c.name \in Robots \cup {NoAddr}
  BY SessionAssumption DEF Call

LEMMA TypedInit == Init => Typed
<1> SUFFICES ASSUME Init PROVE Typed
    OBVIOUS
<1> USE DEF Init
<1>1. app \in AppState
  <2>1. "none" \in Returned /\ NoAddr \in Addr /\ NoCall \in Calls \cup {NoCall} /\ "idle" \in AppAt
    BY DEF Addr, AppAt, Returned
  <2> QED BY <2>1 DEF AppState
<1>2. /\ {rxFd, txFd} \subseteq Fds \cup {-1} /\ port \in {-1, SDK_REMOTE_SOCKET_PORT}
      /\ bcast \in BOOLEAN /\ status \in {0, 1} /\ fds \subseteq Fds /\ linked \subseteq Robots
      /\ failed \in BOOLEAN
  OBVIOUS
<1>3. info \in [ip : Addr, name : Addr] /\ mutex \in [ok : BOOLEAN, owner : Beats \cup {Nobody}]
  BY DEF Addr
<1>4. hb \in [Beats -> BeatAt] /\ hbIp \in [Beats -> Addr]
  BY DEF BeatAt, Addr
<1>5. inbox \in Seq(Datagram) /\ net \in [Datagram -> Nat]
  OBVIOUS
<1>6. CallFits
  BY DEF CallFits, OfRobot, OfSearch
<1> QED BY <1>1, <1>2, <1>3, <1>4, <1>5, <1>6 DEF Typed, TypeOK

(* TypeOK by the parts that the actions change together. *)
AppTyped     == app \in AppState /\ failed \in BOOLEAN /\ CallFits
SocketsTyped == {rxFd, txFd} \subseteq Fds \cup {-1} /\ fds \subseteq Fds
                /\ port \in {-1, SDK_REMOTE_SOCKET_PORT} /\ bcast \in BOOLEAN
SharedTyped  == /\ status \in {0, 1}
                /\ info \in [ip : Addr, name : Addr]
                /\ mutex \in [ok : BOOLEAN, owner : Beats \cup {Nobody}]
ThreadsTyped == hb \in [Beats -> BeatAt] /\ hbIp \in [Beats -> Addr]
WorldTyped   == inbox \in Seq(Datagram) /\ net \in [Datagram -> Nat] /\ linked \subseteq Robots

LEMMA TypedParts ==
    Typed <=> AppTyped /\ SocketsTyped /\ SharedTyped /\ ThreadsTyped /\ WorldTyped
  BY DEF Typed, TypeOK, AppTyped, SocketsTyped, SharedTyped, ThreadsTyped, WorldTyped

(* A call that returns leaves no call under way. *)
LEMMA ReturnTyped ==
    ASSUME AppTyped, NEW rc \in Returned, NEW ip \in Addr, ReturnFound(rc, ip)
    PROVE  AppTyped'
<1>1. app' \in AppState
  BY DEF ReturnFound, AppState, AppAt, Addr
<1>2. app'.at = "idle" /\ failed' \in BOOLEAN
  BY DEF ReturnFound, AppTyped
<1> QED BY <1>1, <1>2 DEF AppTyped, CallFits, OfRobot, OfSearch

(* A step to at stays in the calls with the fields that at needs. *)
Continues(at) ==
    at \in OfRobot \cup OfSearch
        => \/ at \in OfRobot /\ app.at \in OfRobot
           \/ at \in OfSearch /\ app.at \in OfSearch

LEMMA GotoTyped ==
    ASSUME AppTyped, NEW at \in AppAt, Goto(at), failed' = failed,
           Continues(at)
    PROVE  AppTyped'
<1>1. app' \in AppState /\ app'.at = at /\ app'.call = app.call
  BY DEF AppTyped, Goto, AppState
<1> QED BY <1>1 DEF AppTyped, CallFits, OfRobot, OfSearch, Continues

LEMMA BeginTyped ==
    ASSUME AppTyped, NEW c \in Calls, Begin(c)
    PROVE  AppTyped'
<1>1. app' = [app EXCEPT !.at = c.op, !.call = c, !.found = NoAddr, !.ret = "none"] /\ failed' = failed
  BY DEF Begin
<1>2. /\ c.op \in {"init", "deinit", "connect", "disconnect", "report", "discovery"}
      /\ c.op # "discovery" => c.ip \in Robots \cup {Local}
      /\ c.op = "discovery" => c.max \in Nat /\ c.name \in Robots \cup {NoAddr}
  BY CallFields
<1>3. c.op \in AppAt /\ "none" \in Returned /\ NoAddr \in Addr
  BY <1>2 DEF AppAt, Returned, Addr
<1>4. app' \in AppState /\ app'.at = c.op /\ app'.call = c
  BY <1>1, <1>3 DEF AppTyped, AppState
<1> QED BY <1>1, <1>2, <1>4 DEF AppTyped, CallFits, OfRobot, OfSearch

(* The application thread's own state. *)
LEMMA AppTypedNext ==
    ASSUME Typed, Next
    PROVE  AppTyped'
<1>0. AppTyped /\ SocketsTyped /\ SharedTyped /\ WorldTyped
  BY TypedParts
<1>1. /\ \A rc \in Returned : Return(rc) => AppTyped'
      /\ \A rc \in Returned, ip \in Addr : ReturnFound(rc, ip) => AppTyped'
  BY <1>0, ReturnTyped DEF Return, Addr
<1>2. /\ "SUCCESS" \in Returned /\ "FAILED" \in Returned /\ "SOCKET_FAILED" \in Returned
      /\ "SOCKET_SENDERROR" \in Returned /\ "SOCKET_NORESOURCE" \in Returned
  BY DEF Returned
<1>3. UNCHANGED <<app, failed>> => AppTyped'
  BY <1>0 DEF AppTyped, CallFits
<1>4. inbox # <<>> => Head(inbox).kind \in Requests \cup Acks /\ Head(inbox).robot \in Robots
  <2> HAVE inbox # <<>>
  <2>1. Head(inbox) \in Datagram
    BY <1>0 DEF WorldTyped
  <2> QED BY <2>1 DEF Datagram
<1>5. \A at \in AppAt : Goto(at) /\ failed' = failed /\ Continues(at) => AppTyped'
  BY <1>0, GotoTyped
<1>6. CASE \E c \in Calls : Begin(c)
  BY <1>6, <1>0, BeginTyped
<1>7. CASE AppStep
  <2>1. CASE InitSockets
    <3>1. CASE Return("SOCKET_FAILED")
      BY <3>1, <1>1, <1>2
    <3>2. CASE Goto("initPort") /\ failed' = failed
      BY <3>2, <1>5 DEF AppAt, Continues, OfRobot, OfSearch
    <3> QED BY <2>1, <3>1, <3>2 DEF InitSockets
  <2>2. CASE InitPort \/ Deinitialize \/ ConnectLocalDone \/ ConnectSpawn \/ DisconnectLocal
             \/ DisconnectClear \/ ReportStatus
    BY <2>2, <1>1, <1>2 DEF InitPort, Deinitialize, ConnectLocalDone, ConnectSpawn, DisconnectLocal,
       DisconnectClear, ReportStatus
  <2>3. CASE DiscoverySend
    <3>1. CASE Goto("discoveryOff") /\ failed' = failed
      BY <3>1, <2>3, <1>5 DEF DiscoverySend, AppAt, Continues, OfRobot, OfSearch
    <3>2. CASE Return("SOCKET_NORESOURCE") \/ Return("SOCKET_FAILED") \/ Return("SOCKET_SENDERROR")
      BY <3>2, <1>1, <1>2
    <3> QED BY <2>3, <3>1, <3>2 DEF DiscoverySend
  <2>4. CASE DiscoveryOff
    <3>1. /\ app.at \in OfSearch /\ failed' = failed
          /\ app' = [app EXCEPT !.at = "discoveryRecv", !.left = app.call.max]
      BY <2>4 DEF DiscoveryOff, OfSearch
    <3>2. app' \in AppState /\ app'.at = "discoveryRecv" /\ app'.call = app.call
      BY <3>1, <1>0 DEF AppTyped, CallFits, AppState, AppAt
    <3> QED BY <3>1, <3>2, <1>0 DEF AppTyped, CallFits, OfRobot, OfSearch
  <2>5. CASE DiscoveryRecv
    <3>1. CASE Return("SUCCESS") \/ Return("SOCKET_SENDERROR") \/ Return("FAILED")
      BY <3>1, <1>1, <1>2
    <3>2. CASE inbox # <<>> /\ ReturnFound("SUCCESS", Head(inbox).robot)
      BY <3>2, <1>1, <1>2, <1>4 DEF Addr
    <3>3. CASE app.at = "discoveryRecv" /\ app.left > 0 /\ app' = [app EXCEPT !.left = @ - 1]
               /\ failed' = failed
      <4>1. app' \in AppState /\ app'.at = app.at /\ app'.call = app.call
        BY <3>3, <1>0 DEF AppTyped, AppState
      <4> QED BY <3>3, <4>1, <1>0 DEF AppTyped, CallFits
    <3> QED BY <2>5, <3>1, <3>2, <3>3 DEF DiscoveryRecv
  <2>6. CASE ConnectLocal \/ ConnectPort
    <3>1. app.at \in OfRobot /\ failed' = failed /\ (Goto("connectLocal") \/ Goto("connectSend"))
      BY <2>6 DEF ConnectLocal, ConnectPort, OfRobot
    <3>2. "connectLocal" \in AppAt \cap OfRobot /\ "connectSend" \in AppAt \cap OfRobot
      BY DEF AppAt, OfRobot
    <3> QED BY <3>1, <3>2, <1>5 DEF Continues
  <2>7. CASE ConnectSend \/ DisconnectSend
    <3>1. CASE Return("SOCKET_SENDERROR")
      BY <3>1, <1>1, <1>2
    <3>2. CASE app.at \in OfRobot /\ failed' = failed /\ (Goto("connectRecv") \/ Goto("disconnectRecv"))
      <4>1. "connectRecv" \in AppAt \cap OfRobot /\ "disconnectRecv" \in AppAt \cap OfRobot
        BY DEF AppAt, OfRobot
      <4> QED BY <3>2, <4>1, <1>5 DEF Continues
    <3>3. "connectSend" \in OfRobot /\ "disconnect" \in OfRobot
      BY DEF OfRobot
    <3> QED BY <2>7, <3>1, <3>2, <3>3 DEF ConnectSend, DisconnectSend
  <2>8. CASE ConnectRecv
    <3>1. CASE Return("SOCKET_SENDERROR")
      BY <3>1, <1>1, <1>2
    <3>2. CASE inbox # <<>> /\ failed' = failed
               /\ app' = [app EXCEPT !.at = "connectInfo", !.name = Head(inbox).robot]
      <4>1. app' \in AppState /\ app'.at = "connectInfo" /\ app'.call = app.call
        BY <3>2, <1>0, <1>4 DEF AppTyped, AppState, AppAt, Addr
      <4>2. app.at \in OfRobot
        BY <2>8 DEF ConnectRecv, OfRobot
      <4> QED BY <3>2, <4>1, <4>2, <1>0 DEF AppTyped, CallFits, OfRobot, OfSearch
    <3>3. CASE app' = app /\ failed' = failed
      BY <3>3, <1>3
    <3> QED BY <2>8, <3>1, <3>2, <3>3 DEF ConnectRecv
  <2>9. CASE ConnectInfo
    <3>1. app.at \in OfRobot /\ failed' = failed /\ Goto("connectSpawn")
      BY <2>9 DEF ConnectInfo, OfRobot
    <3>2. "connectSpawn" \in AppAt \cap OfRobot
      BY DEF AppAt, OfRobot
    <3> QED BY <3>1, <3>2, <1>5 DEF Continues
  <2>10. CASE DisconnectRecv
    <3>1. CASE Return("SOCKET_SENDERROR") \/ Return("FAILED")
      BY <3>1, <1>1, <1>2
    <3>2. CASE Goto("disconnectClear") /\ failed' = failed
      <4>1. "disconnectClear" \in AppAt \cap OfRobot /\ app.at \in OfRobot
        BY <2>10 DEF AppAt, OfRobot, DisconnectRecv
      <4> QED BY <3>2, <4>1, <1>5 DEF Continues
    <3> QED BY <2>10, <3>1, <3>2 DEF DisconnectRecv
  <2> QED BY <1>7, <2>1, <2>2, <2>3, <2>4, <2>5, <2>6, <2>7, <2>8, <2>9, <2>10 DEF AppStep
<1>8. CASE \E h \in Beats : BeatStep(h)
  BY <1>8, <1>3 DEF BeatStep, BeatCheck, BeatLock, BeatSend, BeatWake, BeatExit
<1>9. CASE NetStep
  BY <1>9, <1>3 DEF NetStep, RobotAnswers, Deliver, Lose
<1> QED BY <1>6, <1>7, <1>8, <1>9 DEF Next

(* The sockets, the port and the descriptors. *)
LEMMA SocketsTypedNext ==
    ASSUME Typed, Next
    PROVE  SocketsTyped'
<1>0. SocketsTyped
  BY TypedParts
<1>1. UNCHANGED <<rxFd, txFd, port, bcast, fds>> => SocketsTyped'
  BY <1>0 DEF SocketsTyped
<1>2. fds # Fds => FreeFd \in Fds
  BY <1>0, FreeFdFits DEF SocketsTyped
<1>3. CASE InitSockets
  BY <1>0, <1>2, <1>3 DEF InitSockets, SocketsTyped
<1>4. CASE InitPort
  BY <1>0, <1>4 DEF InitPort, SocketsTyped
<1>5. CASE Deinitialize
  BY <1>0, <1>5 DEF Deinitialize, CloseSockets, SocketsTyped
<1>6. CASE DiscoverySend
  BY <1>0, <1>2, <1>6 DEF DiscoverySend, SocketsTyped
<1>7. CASE DiscoveryOff
  BY <1>0, <1>7 DEF DiscoveryOff, SocketsTyped
<1>8. CASE (\E c \in Calls : Begin(c)) \/ DiscoveryRecv \/ ConnectPort \/ ConnectSend \/ ConnectSpawn
           \/ DisconnectSend \/ ReportStatus
  BY <1>1, <1>8 DEF Begin, DiscoveryRecv, ConnectPort, ConnectSend, ConnectSpawn, DisconnectSend,
     ReportStatus, globals
<1>9. CASE ConnectLocal \/ ConnectLocalDone \/ ConnectRecv \/ ConnectInfo \/ DisconnectLocal
           \/ DisconnectRecv \/ DisconnectClear
  BY <1>1, <1>9 DEF ConnectLocal, ConnectLocalDone, ConnectRecv, ConnectInfo, DisconnectLocal,
     DisconnectRecv, DisconnectClear
<1>10. CASE \E h \in Beats : BeatStep(h)
  BY <1>1, <1>10 DEF BeatStep, BeatCheck, BeatLock, BeatSend, BeatWake, BeatExit, globals
<1>11. CASE NetStep
  BY <1>1, <1>11 DEF NetStep, RobotAnswers, Deliver, Lose, globals
<1> QED BY <1>3, <1>4, <1>5, <1>6, <1>7, <1>8, <1>9, <1>10, <1>11 DEF Next, AppStep

(* What the application and the heartbeat threads share, and the latter. *)
LEMMA SharedTypedNext ==
    ASSUME Typed, Next
    PROVE  SharedTyped' /\ ThreadsTyped'
<1>0. SharedTyped /\ ThreadsTyped /\ AppTyped
  BY TypedParts
<1>1. /\ info \in [ip : Addr, name : Addr] /\ mutex \in [ok : BOOLEAN, owner : Beats \cup {Nobody}]
      /\ Local \in Addr /\ Junk \in Addr /\ NoAddr \in Addr /\ app.name \in Addr
      /\ info.ip \in Addr
  BY <1>0 DEF SharedTyped, AppTyped, AppState, Addr
<1>2. UNCHANGED <<status, info, mutex>> => SharedTyped'
  BY <1>0 DEF SharedTyped
<1>3. UNCHANGED threads => ThreadsTyped'
  BY <1>0 DEF threads, ThreadsTyped
<1>4. CASE (\E c \in Calls : Begin(c)) \/ DiscoveryRecv \/ ConnectPort \/ ConnectSend
           \/ DisconnectSend \/ ReportStatus
  BY <1>2, <1>3, <1>4 DEF Begin, DiscoveryRecv, ConnectPort, ConnectSend, DisconnectSend,
     ReportStatus, globals
<1>5. CASE DiscoverySend \/ DiscoveryOff
  BY <1>2, <1>3, <1>5 DEF DiscoverySend, DiscoveryOff
<1>6. CASE InitSockets \/ InitPort \/ Deinitialize \/ ConnectLocalDone \/ DisconnectLocal \/ DisconnectClear
  <2>1. UNCHANGED <<status, threads>>
    BY <1>6 DEF InitSockets, InitPort, Deinitialize, ConnectLocalDone, DisconnectLocal, DisconnectClear
  <2>2. info' \in {info, [ip |-> NoAddr, name |-> NoAddr], [ip |-> Local, name |-> Junk]}
    BY <1>6 DEF InitSockets, InitPort, Deinitialize, ConnectLocalDone, DisconnectLocal, DisconnectClear
  <2>3. mutex' = mutex \/ mutex' = [ok |-> TRUE, owner |-> Nobody] \/ mutex' = [mutex EXCEPT !.ok = FALSE]
    BY <1>6 DEF InitSockets, InitPort, Deinitialize, ConnectLocalDone, DisconnectLocal, DisconnectClear
  <2>4. info' \in [ip : Addr, name : Addr]
    BY <1>1, <2>2
  <2>5. mutex' \in [ok : BOOLEAN, owner : Beats \cup {Nobody}]
    <3>1. CASE mutex' = mutex
      BY <3>1, <1>1
    <3>2. CASE mutex' = [ok |-> TRUE, owner |-> Nobody]
      BY <3>2
    <3>3. CASE mutex' = [mutex EXCEPT !.ok = FALSE]
      BY <3>3, <1>1
    <3> QED BY <2>3, <3>1, <3>2, <3>3
  <2> QED BY <1>0, <1>3, <2>1, <2>4, <2>5 DEF SharedTyped
<1>7. CASE ConnectLocal
  BY <1>0, <1>1, <1>3, <1>7 DEF ConnectLocal, SharedTyped
<1>8. CASE ConnectRecv \/ DisconnectRecv
  <2>1. status' \in {status, 0, 1} /\ UNCHANGED <<info, mutex, threads>>
    BY <1>8 DEF ConnectRecv, DisconnectRecv
  <2> QED BY <1>0, <1>3, <2>1 DEF SharedTyped
<1>9. CASE ConnectInfo
  <2>1. app.call.ip \in Addr
    BY <1>0, <1>9 DEF ConnectInfo, AppTyped, CallFits, OfRobot, Addr
  <2> QED BY <1>0, <1>1, <1>3, <1>9, <2>1 DEF ConnectInfo, SharedTyped
<1>10. CASE ConnectSpawn
  <2>1. UNCHANGED <<status, info, mutex>>
    BY <1>10 DEF ConnectSpawn, globals
  <2>2. ThreadsTyped'
    BY <1>0, <1>1, <1>3, <1>10 DEF ConnectSpawn, ThreadsTyped, BeatAt
  <2> QED BY <1>2, <2>1, <2>2
<1>11. ASSUME NEW h \in Beats, BeatStep(h)
       PROVE  SharedTyped' /\ ThreadsTyped'
  <2>1. CASE BeatLock(h)
    BY <2>1, <1>0, <1>1 DEF BeatLock, SharedTyped, ThreadsTyped, BeatAt
  <2>2. CASE BeatSend(h)
    BY <2>2, <1>0, <1>1 DEF BeatSend, SharedTyped, ThreadsTyped, BeatAt
  <2>3. CASE BeatCheck(h) \/ BeatWake(h) \/ BeatExit(h)
    <3>1. /\ UNCHANGED <<status, info, mutex>> /\ hbIp' = hbIp
          /\ \E b \in BeatAt : hb' = [hb EXCEPT ![h] = b]
      BY <2>3 DEF BeatCheck, BeatWake, BeatExit, globals, BeatAt
    <3>2. hb' \in [Beats -> BeatAt]
      BY <3>1, <1>0 DEF ThreadsTyped
    <3> QED BY <3>1, <3>2, <1>0, <1>2 DEF ThreadsTyped
  <2> QED BY <1>11, <2>1, <2>2, <2>3 DEF BeatStep
<1>12. CASE NetStep
  BY <1>2, <1>3, <1>12 DEF NetStep, RobotAnswers, Deliver, Lose, globals
<1> QED BY <1>4, <1>5, <1>6, <1>7, <1>8, <1>9, <1>10, <1>11, <1>12 DEF Next, AppStep

(* The robots and the network. *)
LEMMA WorldTypedNext ==
    ASSUME Typed, Next
    PROVE  WorldTyped'
<1>0. WorldTyped
  BY TypedParts
<1>1. UNCHANGED <<inbox, net, linked>> => WorldTyped'
  BY <1>0 DEF WorldTyped
<1>2. inbox # <<>> => Tail(inbox) \in Seq(Datagram)
  BY <1>0 DEF WorldTyped
<1>3. \A kind, rs : Emit(kind, rs) => net' \in [Datagram -> Nat]
  BY <1>0 DEF WorldTyped, Emit
<1>4. CASE InitSockets
  <2>1. net' = net /\ linked' = linked
    BY <1>4 DEF InitSockets
  <2>2. inbox' = inbox \/ inbox' = <<>>
    BY <1>4 DEF InitSockets
  <2>3. inbox \in Seq(Datagram) /\ <<>> \in Seq(Datagram)
    BY <1>0 DEF WorldTyped
  <2>4. inbox' \in Seq(Datagram)
    BY <2>2, <2>3
  <2> QED BY <1>0, <2>1, <2>4 DEF WorldTyped
<1>5. CASE Deinitialize
  <2>1. inbox' = <<>> /\ linked' = linked
    BY <1>5 DEF Deinitialize
  <2>2. net' \in [Datagram -> Nat]
    BY <1>0, <1>5 DEF Deinitialize, WorldTyped
  <2> QED BY <1>0, <2>1, <2>2 DEF WorldTyped
<1>6. CASE DiscoverySend \/ ConnectSend \/ DisconnectSend
  <2>1. UNCHANGED <<inbox, linked>>
    BY <1>6 DEF DiscoverySend, ConnectSend, DisconnectSend
  <2>2. net' \in [Datagram -> Nat]
    BY <1>0, <1>3, <1>6 DEF DiscoverySend, ConnectSend, DisconnectSend, WorldTyped
  <2> QED BY <1>0, <2>1, <2>2 DEF WorldTyped
<1>7. CASE DiscoveryRecv \/ ConnectRecv \/ DisconnectRecv
  <2>1. UNCHANGED <<net, linked>>
    BY <1>7 DEF DiscoveryRecv, ConnectRecv, DisconnectRecv
  <2>2. inbox' \in Seq(Datagram)
    BY <1>0, <1>2, <1>7 DEF DiscoveryRecv, ConnectRecv, DisconnectRecv, WorldTyped
  <2> QED BY <1>0, <2>1, <2>2 DEF WorldTyped
<1>8. CASE (\E c \in Calls : Begin(c)) \/ InitPort \/ DiscoveryOff \/ ConnectLocal \/ ConnectLocalDone
           \/ ConnectPort \/ ConnectInfo \/ ConnectSpawn \/ DisconnectLocal \/ DisconnectClear
           \/ ReportStatus
  BY <1>1, <1>8 DEF Begin, InitPort, DiscoveryOff, ConnectLocal, ConnectLocalDone, ConnectPort,
     ConnectInfo, ConnectSpawn, DisconnectLocal, DisconnectClear, ReportStatus, world
<1>9. CASE \E h \in Beats : BeatStep(h)
  BY <1>1, <1>9 DEF BeatStep, BeatCheck, BeatLock, BeatSend, BeatWake, BeatExit, world
<1>10. ASSUME NEW d \in Datagram, RobotAnswers(d) \/ Deliver(d) \/ Lose(d)
       PROVE  WorldTyped'
  <2>1. d.robot \in Robots /\ (d.kind \in Requests => AckOf(d.kind) \in Requests \cup Acks)
    BY DEF Datagram, Requests, Acks, AckOf
  <2>2. CASE RobotAnswers(d)
    <3>1. [d EXCEPT !.kind = AckOf(d.kind)] \in Datagram
      BY <2>1, <2>2 DEF RobotAnswers, Datagram
    <3>2. net' \in [Datagram -> Nat]
      BY <3>1, <2>2, <1>0 DEF RobotAnswers, WorldTyped
    <3>3. linked' \subseteq Robots
      BY <2>1, <2>2, <1>0 DEF RobotAnswers, WorldTyped
    <3> QED BY <3>2, <3>3, <2>2, <1>0 DEF RobotAnswers, WorldTyped
  <2>3. CASE Deliver(d)
    <3>1. net' \in [Datagram -> Nat] /\ linked' = linked
      BY <2>3, <1>0 DEF Deliver, WorldTyped
    <3>2. inbox' \in Seq(Datagram)
      BY <2>3, <1>0 DEF Deliver, WorldTyped
    <3> QED BY <3>1, <3>2, <1>0 DEF WorldTyped
  <2>4. CASE Lose(d)
    BY <2>4, <1>0 DEF Lose, WorldTyped
  <2> QED BY <1>10, <2>2, <2>3, <2>4
<1> QED BY <1>4, <1>5, <1>6, <1>7, <1>8, <1>9, <1>10 DEF Next, AppStep, NetStep

LEMMA TypedNext ==
    ASSUME Typed, [Next]_vars
    PROVE  Typed'
<1>1. CASE Next
  <2>1. AppTyped' /\ SocketsTyped' /\ SharedTyped' /\ ThreadsTyped' /\ WorldTyped'
    BY <1>1, AppTypedNext, SocketsTypedNext, SharedTypedNext, WorldTypedNext
  <2> QED BY <2>1 DEF Typed, TypeOK, AppTyped, SocketsTyped, SharedTyped, ThreadsTyped, WorldTyped
<1>2. CASE UNCHANGED vars
  BY <1>2 DEF vars, globals, threads, world, Typed, TypeOK, CallFits
<1> QED BY <1>1, <1>2

LEMMA TypedAlways == Spec => []Typed
  BY TypedInit, TypedNext, PTL DEF Spec

(* Every variable keeps to its declaration, whatever the application calls   *)
(* and whatever fails around it (RobotApi.c:118-132).                        *)
THEOREM SessionTyped == Spec => []TypeOK
<1>1. Typed => TypeOK
  BY DEF Typed
<1> QED BY TypedAlways, <1>1, PTL

-----------------------------------------------------------------------------
(* The heartbeat of a session.  HeartbeatAlive is inductive as it stands.    *)

Alive == \E h \in Beats : hb[h] \notin {"none", "exit"}

Spawning == {"connectInfo", "connectSpawn"}

LEMMA HeartbeatNext ==
    ASSUME "thread" \notin Faults, Typed, HeartbeatAlive, [Next]_vars
    PROVE  HeartbeatAlive'
<1>0. hb \in [Beats -> BeatAt] /\ status \in {0, 1} /\ app \in AppState
  BY DEF Typed, TypeOK
<1>1. ASSUME UNCHANGED <<status, hb>>, app.at \notin Spawning \/ app'.at \in Spawning
      PROVE  HeartbeatAlive'
  BY <1>1 DEF HeartbeatAlive, Spawning
<1>2. CASE \E c \in Calls : Begin(c)
  BY <1>1, <1>2 DEF Begin, globals, threads, Spawning
<1>3. CASE AppStep
  <2>1. CASE InitSockets \/ InitPort \/ Deinitialize
    BY <1>1, <2>1 DEF InitSockets, InitPort, Deinitialize, threads, Spawning
  <2>2. CASE DiscoverySend \/ DiscoveryOff \/ DiscoveryRecv
    BY <1>1, <2>2 DEF DiscoverySend, DiscoveryOff, DiscoveryRecv, globals, threads, Spawning
  <2>3. CASE ConnectLocal \/ ConnectLocalDone \/ ConnectPort \/ ConnectSend
    BY <1>1, <2>3 DEF ConnectLocal, ConnectLocalDone, ConnectPort, ConnectSend, globals, threads, Spawning
  <2>4. CASE ConnectRecv
    <3>1. CASE app' = [app EXCEPT !.at = "connectInfo", !.name = Head(inbox).robot]
      BY <3>1, <1>0 DEF HeartbeatAlive, AppState
    <3>2. CASE UNCHANGED <<status, hb>>
      BY <3>2, <2>4, <1>1 DEF ConnectRecv, Spawning
    <3> QED BY <2>4, <3>1, <3>2 DEF ConnectRecv, threads
  <2>5. CASE ConnectInfo
    <3>1. app'.at = "connectSpawn"
      BY <2>5, <1>0 DEF ConnectInfo, Goto, AppState
    <3> QED BY <3>1 DEF HeartbeatAlive
  <2>6. CASE ConnectSpawn
    <3>1. PICK h \in Beats : hb' = [hb EXCEPT ![h] = "check"]
      BY <2>6 DEF ConnectSpawn
    <3>2. hb'[h] = "check"
      BY <3>1, <1>0
    <3> QED BY <3>2 DEF HeartbeatAlive
  <2>7. CASE DisconnectLocal \/ DisconnectSend \/ DisconnectClear \/ ReportStatus
    BY <1>1, <2>7 DEF DisconnectLocal, DisconnectSend, DisconnectClear, ReportStatus, globals, threads,
       Spawning
  <2>8. CASE DisconnectRecv
    <3>1. CASE status' = 0
      BY <3>1 DEF HeartbeatAlive
    <3>2. CASE UNCHANGED <<status, hb>>
      BY <3>2, <2>8, <1>1 DEF DisconnectRecv, Spawning
    <3> QED BY <2>8, <3>1, <3>2 DEF DisconnectRecv, threads
  <2> QED BY <1>3, <2>1, <2>2, <2>3, <2>4, <2>5, <2>6, <2>7, <2>8 DEF AppStep
<1>4. ASSUME NEW h \in Beats, BeatStep(h)
      PROVE  HeartbeatAlive'
  <2>1. UNCHANGED <<status, app>>
    BY <1>4 DEF BeatStep, BeatCheck, BeatLock, BeatSend, BeatWake, BeatExit, globals
  <2>2. status = 1 /\ hb[h] \notin {"none", "exit"} => hb'[h] \notin {"none", "exit"}
    BY <1>0, <1>4 DEF BeatStep, BeatCheck, BeatLock, BeatSend, BeatWake, BeatExit
  <2>3. \A g \in Beats \ {h} : hb'[g] = hb[g]
    BY <1>0, <1>4 DEF BeatStep, BeatCheck, BeatLock, BeatSend, BeatWake, BeatExit
  <2> QED BY <2>1, <2>2, <2>3 DEF HeartbeatAlive
<1>5. CASE NetStep
  BY <1>5 DEF NetStep, RobotAnswers, Deliver, Lose, globals, threads, HeartbeatAlive
<1>6. CASE UNCHANGED vars
  BY <1>6 DEF vars, globals, threads, HeartbeatAlive
<1> QED BY <1>2, <1>3, <1>4, <1>5, <1>6 DEF Next

(* A connected SDK has a live heartbeat, for any number of threads that      *)
(* overlap and any calls, as long as threads can be created                  *)
(* (RobotApi.c:469, 2473-2488, 2558).                                        *)
THEOREM HeartbeatAlways ==
    ASSUME "thread" \notin Faults
    PROVE  Spec => []HeartbeatAlive
<1>1. Init => HeartbeatAlive
  BY DEF Init, HeartbeatAlive
<1>2. Typed /\ HeartbeatAlive /\ [Next]_vars => HeartbeatAlive'
  BY HeartbeatNext
<1> QED BY <1>1, <1>2, TypedAlways, PTL DEF Spec

-----------------------------------------------------------------------------
(* The descriptors.  A Deinitialize clears both globals and Initialize is    *)
(* called when there is no receiving socket: then there is no sending one,   *)
(* and what Initialize opens takes the place of nothing.                     *)

Paired ==
    /\ Named \subseteq fds
    /\ rxFd = -1 => txFd = -1
    /\ app.at = "init" => rxFd = -1

(* What SocketsAccounted asks of one step. *)
Accounted ==
    /\ Named' \subseteq fds'
    /\ \/ Lost' = Lost
       \/ /\ app.at \in {"init", "discovery"} /\ app'.ret = "SOCKET_FAILED"
          /\ UNCHANGED <<rxFd, txFd>>
          /\ \E f \in Fds \ fds : Lost' = Lost \cup {f}

LEMMA PairedNext ==
    ASSUME Typed, Paired, [Next]_vars
    PROVE  Paired' /\ Accounted
<1>0. /\ app \in AppState /\ fds \subseteq Fds /\ -1 \notin Fds
      /\ rxFd \in Fds \cup {-1} /\ txFd \in Fds \cup {-1}
  BY SessionAssumption DEF Typed, TypeOK
<1>1. ASSUME UNCHANGED <<rxFd, txFd, fds>>, app'.at # "init"
      PROVE  Paired' /\ Accounted
  BY <1>1 DEF Paired, Accounted, Named, Lost
<1>2. ASSUME NEW c \in Calls, Begin(c)
      PROVE  Paired' /\ Accounted
  <2>1. app'.at = c.op /\ UNCHANGED <<rxFd, txFd, fds>>
    BY <1>0, <1>2, CallFields DEF Begin, AppState, globals
  <2>2. c.op = "init" => rxFd = -1
    BY <1>2 DEF Begin, InTurn
  <2> QED BY <2>1, <2>2 DEF Paired, Accounted, Named, Lost
<1>3. ASSUME NEW rc, Return(rc)
      PROVE  app'.at = "idle" /\ app'.ret = rc
  BY <1>3 DEF Return, ReturnFound
<1>4. ASSUME NEW at, Goto(at)
      PROVE  app'.at = at
  BY <1>0, <1>4 DEF Goto, AppState
<1>5. ASSUME fds # Fds, app.at \in {"init", "discovery"}, fds' = fds \cup {FreeFd},
             Return("SOCKET_FAILED"), UNCHANGED <<rxFd, txFd>>
      PROVE  Paired' /\ Accounted
  <2>1. FreeFd \in Fds \ fds /\ app'.at = "idle" /\ app'.ret = "SOCKET_FAILED"
    BY <1>0, <1>3, <1>5, FreeFdFits
  <2>2. Lost' = Lost \cup {FreeFd}
    BY <1>5, <2>1 DEF Paired, Named, Lost
  <2> HIDE DEF FreeFd
  <2> QED BY <1>5, <2>1, <2>2 DEF Paired, Accounted, Named
<1>6. CASE InitSockets
  <2>1. rxFd = -1 /\ txFd = -1 /\ app.at = "init"
    BY <1>6 DEF InitSockets, Paired
  <2>2. CASE Return("SOCKET_FAILED") /\ UNCHANGED <<rxFd, txFd, fds, inbox>>
    BY <2>2, <1>1, <1>3
  <2>3. CASE fds # Fds /\ fds' = fds \cup {FreeFd} /\ Return("SOCKET_FAILED")
             /\ UNCHANGED <<rxFd, txFd, inbox>>
    BY <2>1, <2>3, <1>5
  <2>4. CASE fds # Fds /\ rxFd' = FreeFd /\ Return("SOCKET_FAILED") /\ fds' = fds \cup {FreeFd}
             /\ txFd' = txFd
    <3>1. FreeFd \in Fds \ fds /\ app'.at = "idle"
      BY <2>4, <1>0, <1>3, FreeFdFits
    <3> HIDE DEF FreeFd
    <3>2. Named' = {FreeFd} /\ Named = {}
      BY <2>1, <2>4, <3>1, <1>0 DEF Named
    <3>3. Lost' = Lost
      BY <2>4, <3>1, <3>2 DEF Lost
    <3> QED BY <2>1, <2>4, <3>1, <3>2, <3>3, <1>0 DEF Paired, Accounted
  <2>5. CASE fds # Fds /\ rxFd' = FreeFd
             /\ \E f \in Fds \ (fds \cup {FreeFd}) :
                   txFd' = f /\ fds' = fds \cup {FreeFd, f} /\ Goto("initPort")
    <3>1. FreeFd \in Fds \ fds /\ app'.at = "initPort"
      BY <2>5, <1>0, <1>4, FreeFdFits
    <3> HIDE DEF FreeFd
    <3>2. PICK f \in Fds \ (fds \cup {FreeFd}) : txFd' = f /\ fds' = fds \cup {FreeFd, f}
      BY <2>5
    <3>3. Named' = {FreeFd, f} /\ Named = {}
      BY <2>1, <2>5, <3>1, <3>2, <1>0 DEF Named
    <3>4. Lost' = Lost
      BY <3>1, <3>2, <3>3 DEF Lost
    <3> QED BY <2>5, <3>1, <3>2, <3>3, <3>4, <1>0 DEF Paired, Accounted
  <2> QED BY <1>6, <2>2, <2>3, <2>4, <2>5 DEF InitSockets
<1>7. CASE Deinitialize
  <2>1. app'.at = "idle" /\ rxFd' = -1 /\ txFd' = -1 /\ fds' = fds \ {rxFd, txFd}
    BY <1>7, <1>3 DEF Deinitialize, CloseSockets
  <2>2. Named' = {} /\ Lost' = Lost
    BY <2>1, <1>0 DEF Named, Lost
  <2> QED BY <2>1, <2>2 DEF Paired, Accounted
<1>8. CASE InitPort \/ ConnectLocalDone \/ ConnectSpawn \/ DisconnectLocal \/ DisconnectClear
           \/ ReportStatus
  BY <1>1, <1>3, <1>8 DEF InitPort, ConnectLocalDone, ConnectSpawn, DisconnectLocal, DisconnectClear,
     ReportStatus, globals
<1>9. CASE ConnectLocal \/ ConnectPort \/ ConnectSend \/ ConnectInfo \/ DisconnectSend
           \/ DisconnectRecv
  BY <1>1, <1>3, <1>4, <1>9 DEF ConnectLocal, ConnectPort, ConnectSend, ConnectInfo, DisconnectSend,
     DisconnectRecv, globals
<1>10. CASE ConnectRecv
  <2>1. app'.at \in {"idle", "connectInfo", "connectRecv"}
    BY <1>0, <1>3, <1>10 DEF ConnectRecv, AppState
  <2> QED BY <1>1, <1>10, <2>1 DEF ConnectRecv
<1>11. CASE DiscoverySend
  <2>1. app.at = "discovery" /\ UNCHANGED <<rxFd, txFd>>
    BY <1>11 DEF DiscoverySend
  <2>2. CASE UNCHANGED fds
    <3>1. app'.at \in {"idle", "discoveryOff"}
      BY <1>3, <1>4, <1>11, <2>2 DEF DiscoverySend
    <3> QED BY <1>1, <2>1, <2>2, <3>1
  <2>3. CASE fds # Fds /\ fds' = fds \cup {FreeFd} /\ Return("SOCKET_FAILED")
    BY <1>5, <2>1, <2>3
  <2> QED BY <1>11, <2>2, <2>3 DEF DiscoverySend
<1>12. CASE DiscoveryOff \/ DiscoveryRecv
  <2>1. DiscoveryOff => app'.at = "discoveryRecv"
    BY <1>0 DEF DiscoveryOff, AppState
  <2>2. DiscoveryRecv => app'.at \in {"idle", "discoveryRecv"}
    <3>1. ASSUME NEW rc, NEW ip, ReturnFound(rc, ip)
          PROVE  app'.at = "idle"
      BY <3>1 DEF ReturnFound
    <3>2. app.at = "discoveryRecv" /\ app' = [app EXCEPT !.left = @ - 1] => app'.at = "discoveryRecv"
      BY <1>0 DEF AppState
    <3> QED BY <1>3, <3>1, <3>2 DEF DiscoveryRecv
  <2> QED BY <1>1, <1>12, <2>1, <2>2 DEF DiscoveryOff, DiscoveryRecv, globals
<1>13. CASE UNCHANGED <<rxFd, txFd, fds, app>>
  BY <1>13 DEF Paired, Accounted, Named, Lost
<1>14. CASE \E h \in Beats : BeatStep(h)
  BY <1>13, <1>14 DEF BeatStep, BeatCheck, BeatLock, BeatSend, BeatWake, BeatExit, globals
<1>15. CASE NetStep
  BY <1>13, <1>15 DEF NetStep, RobotAnswers, Deliver, Lose, globals
<1>16. CASE UNCHANGED vars
  BY <1>13, <1>16 DEF vars, globals
<1> QED
  BY <1>2, <1>6, <1>7, <1>8, <1>9, <1>10, <1>11, <1>12, <1>14, <1>15, <1>16 DEF Next, AppStep

(* Every descriptor that a call opens is named by a global until it is       *)
(* closed, except the two that an Initialize without a timeout and a         *)
(* Discovery without wlan0 leave behind, one for each call that fails so:    *)
(* for any calls and any faults (RobotApi.c:165-169, 501-505, 3020-3083).    *)
THEOREM SocketsAlways == Spec => SocketsAccounted
<1>1. Init => Paired
  BY DEF Init, Paired, Named
<1>2. Typed /\ Paired /\ [Next]_vars => Paired' /\ Accounted
  BY PairedNext
<1>3. Typed /\ Paired /\ [Next]_vars => [Accounted]_vars
  BY <1>2
<1>4. Spec => []Paired
  BY <1>1, <1>2, TypedAlways, PTL DEF Spec
<1> QED BY <1>3, <1>4, TypedAlways, PTL DEF Spec, SocketsAccounted, Accounted

-----------------------------------------------------------------------------
(* The agreement of SDK and robot.  As long as every call succeeded, at most *)
(* one datagram exists, the request a call has sent or the answer to it, and *)
(* only while that call receives.                                            *)

Quiet == inbox = <<>> /\ \A d \in Datagram : net[d] = 0

Exchange(ask, answer) ==
    /\ \A d \in Datagram : d \notin {ask, answer} => net[d] = 0
    /\ \/ inbox = <<>> /\ net[ask] \in {0, 1} /\ net[answer] = 0
       \/ inbox = <<>> /\ net[ask] = 0 /\ net[answer] = 1
       \/ inbox = <<answer>> /\ net[ask] = 0 /\ net[answer] = 0

Answered(answer) == inbox # <<>> \/ net[answer] = 1

Ask(kind) == [kind |-> kind, robot |-> app.call.ip]

(* The robot the SDK holds itself connected to agrees, except for robots of rs. *)
AgreedBut(rs) ==
    status = 1 /\ info.ip \in Robots => info.name = info.ip /\ info.ip \in linked \cup rs

Remote == {"connectSend", "connectRecv", "connectInfo", "disconnectRecv"}

Agreement ==
    /\ app.at \notin OfSearch
    /\ app.at \in Remote => app.call.ip \in Robots
    /\ ~failed =>
          /\ app.at \notin {"connectRecv", "disconnectRecv"} => Quiet
          /\ app.at = "connectRecv" =>
                /\ Exchange(Ask("connect"), Ask("connect_ack"))
                /\ Answered(Ask("connect_ack")) => app.call.ip \in linked
          /\ app.at = "disconnectRecv" =>
                Exchange(Ask("disconnect"), Ask("disconnect_ack"))
          /\ app.at = "connectInfo" => app.name = app.call.ip /\ app.call.ip \in linked
          /\ app.at = "disconnectRecv" => AgreedBut({app.call.ip})
          /\ app.at = "disconnectClear" => status = 0
          /\ app.at \notin {"connectInfo", "disconnectRecv", "disconnectClear"} => AgreedBut({})

Busy == {"connectRecv", "disconnectRecv", "connectInfo", "disconnectClear"}

(* What adds nothing to the network and the inbox leaves them quiet. *)
LEMMA Undisturbed ==
    ASSUME Agreement, linked' = linked, status' = status, failed => failed',
           inbox' = inbox \/ inbox' = <<>>,
           \A d \in Datagram : net'[d] = net[d] \/ net'[d] = 0,
           app.at \notin Busy, app'.at \notin Busy \cup OfSearch,
           app'.at \in Remote => app'.call.ip \in Robots,
           info' = info \/ info'.ip \notin Robots
    PROVE  Agreement'
<1>1. CASE failed
  BY <1>1 DEF Agreement, Busy
<1>2. CASE ~failed
  <2>1. Quiet /\ AgreedBut({})
    BY <1>2 DEF Agreement, Busy
  <2>2. Quiet' /\ AgreedBut({})'
    BY <2>1 DEF Quiet, AgreedBut
  <2> QED BY <2>2 DEF Agreement, Busy
<1> QED BY <1>1, <1>2

(* A call that fails ends what the invariant says. *)
LEMMA Failing ==
    ASSUME NEW rc, Return(rc), rc # "SUCCESS"
    PROVE  Agreement'
<1>1. app'.at = "idle" /\ failed'
  BY DEF Return, ReturnFound
<1> QED BY <1>1 DEF Agreement, OfSearch, Remote

(* A request leaves at most one datagram, and nothing else is there. *)
LEMMA Asking ==
    ASSUME Quiet, WorldTyped, NEW kind \in Requests, app.call.ip \in Robots,
           Emit(kind, {app.call.ip}), inbox' = inbox, app'.call = app.call
    PROVE  Exchange(Ask(kind), Ask(AckOf(kind)))' /\ ~Answered(Ask(AckOf(kind)))'
<1>1. Ask(kind) \in Datagram /\ Ask(AckOf(kind)) \in Datagram /\ Ask(kind) # Ask(AckOf(kind))
  BY DEF Ask, Datagram, Requests, Acks, AckOf
<1>2. \A d \in Datagram : d.kind = kind /\ d.robot \in {app.call.ip} => d = Ask(kind)
  BY DEF Ask, Datagram
<1>3. \A d \in Datagram : net'[d] = IF d.kind = kind /\ d.robot \in {app.call.ip} /\ port # -1
                                    THEN net[d] + 1 ELSE net[d]
  BY DEF Emit
<1>4. \A d \in Datagram : net[d] = 0
  BY DEF Quiet
<1>5. \A d \in Datagram : d # Ask(kind) => net'[d] = 0
  BY <1>2, <1>3, <1>4
<1>6. net'[Ask(kind)] \in {0, 1}
  BY <1>1, <1>3, <1>4
<1>7. inbox' = <<>> /\ Ask(kind)' = Ask(kind) /\ Ask(AckOf(kind))' = Ask(AckOf(kind))
  BY DEF Quiet, Ask
<1> QED BY <1>1, <1>5, <1>6, <1>7 DEF Exchange, Answered

(* The steps of the robots and of the network keep to the exchange. *)
LEMMA Exchanging ==
    ASSUME WorldTyped, NEW ask \in Datagram, NEW d \in Datagram,
           ask.kind \in {"connect", "disconnect"},
           NEW answer, answer = [ask EXCEPT !.kind = AckOf(ask.kind)],
           Exchange(ask, answer),
           RobotAnswers(d) \/ Deliver(d) \/ Lose(d)
    PROVE  /\ Exchange(ask, answer)'
           /\ Answered(answer)' => Answered(answer) \/ RobotAnswers(d)
<1>1. /\ answer \in Datagram /\ answer # ask /\ answer.robot = ask.robot
      /\ answer.kind \notin Requests /\ ask.kind \in Requests /\ ask.kind \notin Acks
  BY DEF Datagram, Requests, Acks, AckOf
<1>2. net[d] > 0 /\ net \in [Datagram -> Nat]
  BY DEF RobotAnswers, Deliver, Lose, WorldTyped
<1>3. /\ \A e \in Datagram : e \notin {ask, answer} => net[e] = 0
      /\ d \in {ask, answer}
  BY <1>2 DEF Exchange
<1>4. CASE RobotAnswers(d)
  <2>1. d = ask
    BY <1>1, <1>3, <1>4 DEF RobotAnswers
  <2>2. inbox = <<>> /\ net[ask] = 1 /\ net[answer] = 0
    BY <1>2, <2>1 DEF Exchange
  <2>3. net' = [net EXCEPT ![ask] = @ - 1, ![answer] = @ + 1] /\ inbox' = inbox
    BY <1>4, <2>1 DEF RobotAnswers
  <2>4. net'[ask] = 0 /\ net'[answer] = 1 /\ \A e \in Datagram : e \notin {ask, answer} => net'[e] = 0
    BY <1>1, <1>2, <1>3, <2>2, <2>3
  <2> QED BY <1>1, <1>4, <2>2, <2>3, <2>4 DEF Exchange
<1>5. CASE Deliver(d)
  <2>1. d = answer
    BY <1>1, <1>3, <1>5 DEF Deliver
  <2>2. inbox = <<>> /\ net[ask] = 0 /\ net[answer] = 1
    BY <1>2, <2>1 DEF Exchange
  <2>3. net' = [net EXCEPT ![answer] = @ - 1]
    BY <1>5, <2>1 DEF Deliver
  <2>4. inbox' = <<>> \/ inbox' = <<answer>>
    BY <1>5, <2>1, <2>2 DEF Deliver
  <2>5. net'[ask] = 0 /\ net'[answer] = 0 /\ \A e \in Datagram : e \notin {ask, answer} => net'[e] = 0
    BY <1>1, <1>2, <1>3, <2>2, <2>3
  <2> QED BY <1>1, <2>2, <2>4, <2>5 DEF Exchange, Answered
<1>6. CASE Lose(d)
  <2>1. net' = [net EXCEPT ![d] = @ - 1] /\ inbox' = inbox
    BY <1>6 DEF Lose
  <2>2. inbox = <<>>
    BY <1>2, <1>3 DEF Exchange
  <2>3. net[ask] \in {0, 1} /\ net[answer] \in {0, 1} /\ net[ask] + net[answer] = 1
    BY <1>1, <1>2, <1>3 DEF Exchange
  <2>4. net'[ask] = 0 /\ net'[answer] = 0 /\ \A e \in Datagram : e \notin {ask, answer} => net'[e] = 0
    BY <1>1, <1>2, <1>3, <2>1, <2>3
  <2> QED BY <2>1, <2>2, <2>4 DEF Exchange, Answered
<1> QED BY <1>4, <1>5, <1>6

LEMMA AgreementNext ==
    ASSUME \A c \in Calls : c.op # "discovery", "refuse" \notin Faults,
           Typed, Agreement, [Next]_vars
    PROVE  Agreement'
<1>0. /\ app \in AppState /\ WorldTyped /\ CallFits /\ inbox \in Seq(Datagram)
      /\ NoAddr \notin Robots /\ Junk \notin Robots /\ Local \notin Robots
  BY SessionAssumption DEF Typed, TypeOK, WorldTyped
<1>1. ASSUME NEW rc, Return(rc)
      PROVE  app'.at = "idle" /\ (failed => failed')
  BY <1>1 DEF Return, ReturnFound
<1>2. ASSUME NEW at, Goto(at)
      PROVE  app'.at = at /\ app'.call = app.call
  BY <1>0, <1>2 DEF Goto, AppState
<1>3. "idle" \notin Busy \cup OfSearch \cup Remote
  BY DEF Busy, OfSearch, Remote
<1>4. ASSUME NEW c \in Calls, Begin(c)
      PROVE  Agreement'
  <2>1. c.op \notin Busy \cup OfSearch \cup Remote
    BY CallFields DEF Busy, OfSearch, Remote
  <2>2. /\ app'.at = c.op /\ app.at = "idle"
        /\ UNCHANGED <<linked, status, failed, inbox, net, info>>
    BY <1>0, <1>4 DEF Begin, AppState, globals, world
  <2> QED BY <1>3, <2>1, <2>2, Undisturbed
<1>5. CASE InitSockets
  <2>1. CASE Return("SOCKET_FAILED")
    BY <2>1, Failing
  <2>2. CASE Goto("initPort") /\ failed' = failed
    <3>1. app'.at = "initPort" /\ app.at = "init"
      BY <1>2, <1>5, <2>2 DEF InitSockets
    <3>2. /\ linked' = linked /\ status' = status /\ net' = net /\ info' = info
          /\ inbox' = inbox \/ inbox' = <<>>
      BY <1>5 DEF InitSockets
    <3> QED BY <2>2, <3>1, <3>2, Undisturbed DEF Busy, OfSearch, Remote
  <2> QED BY <1>5, <2>1, <2>2 DEF InitSockets
<1>6. CASE InitPort \/ ConnectLocalDone \/ DisconnectLocal
  <2>1. /\ app'.at = "idle" /\ (failed => failed') /\ info'.ip \notin Robots
        /\ app.at \in {"initPort", "connectLocal", "disconnect"}
    BY <1>0, <1>1, <1>6 DEF InitPort, ConnectLocalDone, DisconnectLocal
  <2>2. linked' = linked /\ status' = status /\ net' = net /\ inbox' = inbox
    BY <1>6 DEF InitPort, ConnectLocalDone, DisconnectLocal, world
  <2> QED BY <1>3, <2>1, <2>2, Undisturbed DEF Busy
<1>7. CASE Deinitialize
  <2>1. /\ app'.at = "idle" /\ (failed => failed') /\ info'.ip \notin Robots /\ app.at = "deinit"
    BY <1>0, <1>1, <1>7 DEF Deinitialize
  <2>2. /\ linked' = linked /\ status' = status /\ inbox' = <<>>
        /\ \A d \in Datagram : net'[d] = net[d] \/ net'[d] = 0
    BY <1>7 DEF Deinitialize
  <2> QED BY <1>3, <2>1, <2>2, Undisturbed DEF Busy
<1>8. CASE ConnectLocal
  <2>1. /\ app'.at = "connectLocal" /\ app.at = "connect" /\ failed' = failed
    BY <1>2, <1>8 DEF ConnectLocal
  <2>2. info'.ip \notin Robots
    BY <1>0, <1>8 DEF ConnectLocal, Typed, TypeOK
  <2>3. linked' = linked /\ status' = status /\ net' = net /\ inbox' = inbox
    BY <1>8 DEF ConnectLocal, world
  <2> QED BY <2>1, <2>2, <2>3, Undisturbed DEF Busy, OfSearch, Remote
<1>9. CASE ConnectPort
  <2>1. /\ app'.at = "connectSend" /\ app.at = "connect" /\ failed' = failed /\ info' = info
        /\ app'.call.ip \in Robots
    BY <1>0, <1>2, <1>9 DEF ConnectPort, globals, CallFits, OfRobot
  <2>2. linked' = linked /\ status' = status /\ net' = net /\ inbox' = inbox
    BY <1>9 DEF ConnectPort, globals, world
  <2> QED BY <2>1, <2>2, Undisturbed DEF Busy, OfSearch, Remote
<1>10. CASE ConnectSpawn \/ ReportStatus
  <2>1. /\ app'.at = "idle" /\ (failed => failed') /\ info' = info
        /\ app.at \in {"connectSpawn", "report"}
    BY <1>1, <1>10 DEF ConnectSpawn, ReportStatus, globals
  <2>2. linked' = linked /\ status' = status /\ net' = net /\ inbox' = inbox
    BY <1>10 DEF ConnectSpawn, ReportStatus, globals, world
  <2> QED BY <1>3, <2>1, <2>2, Undisturbed DEF Busy
<1>11. CASE ConnectSend
  <2>1. CASE Return("SOCKET_SENDERROR")
    BY <2>1, Failing
  <2>2. CASE Emit("connect", {app.call.ip}) /\ Goto("connectRecv") /\ failed' = failed
    <3>1. /\ app'.at = "connectRecv" /\ app'.call = app.call /\ app.call.ip \in Robots
          /\ app.at = "connectSend"
      BY <1>2, <1>11, <2>2 DEF ConnectSend, Agreement, Remote
    <3>2. UNCHANGED <<linked, status, inbox, info>>
      BY <1>11 DEF ConnectSend, globals
    <3>3. ~failed => Quiet /\ AgreedBut({})
      BY <3>1 DEF Agreement
    <3>4. ASSUME ~failed
          PROVE  Exchange(Ask("connect"), Ask("connect_ack"))' /\ ~Answered(Ask("connect_ack"))'
      <4>1. /\ Exchange(Ask("connect"), Ask(AckOf("connect")))'
            /\ ~Answered(Ask(AckOf("connect")))'
        BY <1>0, <2>2, <3>1, <3>2, <3>3, <3>4, Asking DEF Requests
      <4> QED BY <4>1 DEF AckOf
    <3>5. ~failed => AgreedBut({})'
      BY <3>2, <3>3 DEF AgreedBut
    <3> QED BY <2>2, <3>1, <3>4, <3>5 DEF Agreement, OfSearch
  <2> QED BY <1>11, <2>1, <2>2 DEF ConnectSend
<1>12. CASE DisconnectSend
  <2>1. CASE Return("SOCKET_SENDERROR")
    BY <2>1, Failing
  <2>2. CASE Emit("disconnect", {app.call.ip}) /\ Goto("disconnectRecv") /\ failed' = failed
    <3>1. /\ app'.at = "disconnectRecv" /\ app'.call = app.call /\ app.call.ip \in Robots
          /\ app.at = "disconnect"
      BY <1>0, <1>2, <1>12, <2>2 DEF DisconnectSend, CallFits, OfRobot
    <3>2. UNCHANGED <<linked, status, inbox, info>>
      BY <1>12 DEF DisconnectSend, globals
    <3>3. ~failed => Quiet /\ AgreedBut({})
      BY <3>1 DEF Agreement
    <3>4. ASSUME ~failed
          PROVE  Exchange(Ask("disconnect"), Ask("disconnect_ack"))'
      <4>1. Exchange(Ask("disconnect"), Ask(AckOf("disconnect")))'
        BY <1>0, <2>2, <3>1, <3>2, <3>3, <3>4, Asking DEF Requests
      <4> QED BY <4>1 DEF AckOf
    <3>5. ~failed => AgreedBut({app.call.ip})'
      BY <3>1, <3>2, <3>3 DEF AgreedBut
    <3> QED BY <2>2, <3>1, <3>4, <3>5 DEF Agreement, OfSearch
  <2> QED BY <1>12, <2>1, <2>2 DEF DisconnectSend
<1>13. ASSUME ~failed, app.at = "connectRecv", inbox # <<>>
       PROVE  /\ Head(inbox) = Ask("connect_ack") /\ Tail(inbox) = <<>>
              /\ app.call.ip \in linked /\ \A d \in Datagram : net[d] = 0
  <2>1. Exchange(Ask("connect"), Ask("connect_ack")) /\ app.call.ip \in linked
    BY <1>13 DEF Agreement, Answered
  <2>2. inbox = <<Ask("connect_ack")>> /\ \A d \in Datagram : net[d] = 0
    BY <1>13, <2>1 DEF Exchange
  <2> QED BY <2>1, <2>2
<1>14. ASSUME ~failed, app.at = "disconnectRecv", inbox # <<>>
       PROVE  Tail(inbox) = <<>> /\ \A d \in Datagram : net[d] = 0
  <2>1. Exchange(Ask("disconnect"), Ask("disconnect_ack"))
    BY <1>14 DEF Agreement
  <2>2. inbox = <<Ask("disconnect_ack")>> /\ \A d \in Datagram : net[d] = 0
    BY <1>14, <2>1 DEF Exchange
  <2> QED BY <2>2
<1>15. CASE ConnectRecv
  <2>1. CASE Return("SOCKET_SENDERROR")
    BY <2>1, Failing
  <2>2. CASE /\ inbox # <<>> /\ inbox' = Tail(inbox) /\ failed' = failed
             /\ app' = [app EXCEPT !.at = "connectInfo", !.name = Head(inbox).robot]
    <3>1. /\ app'.at = "connectInfo" /\ app'.call = app.call /\ app'.name = Head(inbox).robot
          /\ app.at = "connectRecv" /\ linked' = linked /\ net' = net
      BY <1>0, <1>15, <2>2 DEF ConnectRecv, AppState
    <3>2. app.call.ip \in Robots
      BY <3>1 DEF Agreement, Remote
    <3>3. ~failed => Quiet' /\ app'.name = app'.call.ip /\ app'.call.ip \in linked'
      BY <1>13, <2>2, <3>1 DEF Quiet, Ask
    <3> QED BY <2>2, <3>1, <3>2, <3>3 DEF Agreement, OfSearch
  <2>3. CASE inbox # <<>> /\ ~Awaited(Head(inbox)) /\ UNCHANGED <<app, status, failed>>
    <3>1. failed /\ app.at = "connectRecv"
      BY <1>13, <1>15, <2>3 DEF Awaited, Ask, ConnectRecv
    <3> QED BY <2>3, <3>1 DEF Agreement
  <2> QED BY <1>15, <2>1, <2>2, <2>3 DEF ConnectRecv
<1>16. CASE ConnectInfo
  <2>1. /\ app'.at = "connectSpawn" /\ app.at = "connectInfo" /\ failed' = failed
        /\ info' = [ip |-> app.call.ip, name |-> app.name]
        /\ UNCHANGED <<inbox, net, linked>>
    BY <1>2, <1>16 DEF ConnectInfo, world
  <2>2. ~failed => Quiet /\ app.name = app.call.ip /\ app.call.ip \in linked
    BY <2>1 DEF Agreement
  <2>3. ~failed => Quiet' /\ AgreedBut({})'
    BY <2>1, <2>2 DEF Quiet, AgreedBut
  <2> QED BY <2>1, <2>3 DEF Agreement, OfSearch, Remote
<1>17. CASE DisconnectRecv
  <2>1. CASE Return("SOCKET_SENDERROR") \/ Return("FAILED")
    BY <2>1, Failing
  <2>2. CASE /\ inbox # <<>> /\ inbox' = Tail(inbox) /\ status' = 0
             /\ Goto("disconnectClear") /\ failed' = failed
    <3>1. app'.at = "disconnectClear" /\ app.at = "disconnectRecv" /\ net' = net
      BY <1>2, <1>17, <2>2 DEF DisconnectRecv
    <3>2. ~failed => Quiet'
      BY <1>14, <2>2, <3>1 DEF Quiet
    <3> QED BY <2>2, <3>1, <3>2 DEF Agreement, OfSearch, Remote
  <2> QED BY <1>17, <2>1, <2>2 DEF DisconnectRecv
<1>18. CASE DisconnectClear
  <2>1. /\ app'.at = "idle" /\ (failed => failed') /\ app.at = "disconnectClear"
        /\ UNCHANGED <<inbox, net, linked, status>>
    BY <1>1, <1>18 DEF DisconnectClear, world
  <2>2. ~failed => Quiet' /\ AgreedBut({})'
    BY <2>1 DEF Agreement, Quiet, AgreedBut
  <2> QED BY <1>3, <2>1, <2>2 DEF Agreement
<1>19. CASE DiscoverySend \/ DiscoveryOff \/ DiscoveryRecv
  BY <1>19 DEF DiscoverySend, DiscoveryOff, DiscoveryRecv, Agreement, OfSearch
<1>20. ASSUME UNCHANGED <<app, status, info, inbox, net, linked, failed>>
       PROVE  Agreement'
  BY <1>20 DEF Agreement, Quiet, Exchange, Answered, Ask, AgreedBut
<1>21. CASE \E h \in Beats : BeatStep(h)
  BY <1>20, <1>21 DEF BeatStep, BeatCheck, BeatLock, BeatSend, BeatWake, BeatExit, globals, world
<1>22. CASE UNCHANGED vars
  BY <1>20, <1>22 DEF vars, globals, world
<1>23. ASSUME NEW d \in Datagram, RobotAnswers(d) \/ Deliver(d) \/ Lose(d)
       PROVE  Agreement'
  <2>1. UNCHANGED <<app, status, info, failed>> /\ net[d] > 0
    BY <1>23 DEF RobotAnswers, Deliver, Lose, globals
  <2>2. CASE failed
    BY <2>1, <2>2 DEF Agreement
  <2>3. CASE ~failed /\ app.at \notin {"connectRecv", "disconnectRecv"}
    BY <2>1, <2>3, <1>23 DEF Agreement, Quiet
  <2>4. ASSUME NEW kind \in {"connect", "disconnect"}, app.call.ip \in Robots
        PROVE  /\ Ask(kind) \in Datagram /\ Ask(kind).kind = kind /\ Ask(kind).robot = app.call.ip
               /\ Ask(AckOf(kind)) = [Ask(kind) EXCEPT !.kind = AckOf(Ask(kind).kind)]
               /\ Ask(kind)' = Ask(kind) /\ Ask(AckOf(kind))' = Ask(AckOf(kind))
    BY <2>1, <2>4 DEF Ask, Datagram, Requests
  <2>5. CASE ~failed /\ app.at = "connectRecv"
    <3>1. /\ app.call.ip \in Robots /\ AgreedBut({})
          /\ Exchange(Ask("connect"), Ask("connect_ack"))
          /\ Answered(Ask("connect_ack")) => app.call.ip \in linked
      BY <2>5 DEF Agreement, Remote
    <3>2. d \in {Ask("connect"), Ask("connect_ack")}
      BY <2>1, <3>1 DEF Exchange
    <3>3. /\ linked \subseteq linked' /\ (RobotAnswers(d) => app.call.ip \in linked')
      BY <1>23, <3>2 DEF RobotAnswers, Deliver, Lose, Ask, Requests
    <3>4. /\ Exchange(Ask("connect"), Ask("connect_ack"))'
          /\ Answered(Ask("connect_ack"))' => Answered(Ask("connect_ack")) \/ RobotAnswers(d)
      BY <1>0, <1>23, <2>4, <3>1, Exchanging DEF AckOf
    <3>5. Answered(Ask("connect_ack"))' => app'.call.ip \in linked'
      BY <2>1, <3>1, <3>3, <3>4
    <3>6. AgreedBut({})'
      BY <2>1, <3>1, <3>3 DEF AgreedBut
    <3> QED BY <2>1, <2>5, <3>1, <3>4, <3>5, <3>6 DEF Agreement, OfSearch
  <2>6. CASE ~failed /\ app.at = "disconnectRecv"
    <3>1. /\ app.call.ip \in Robots /\ AgreedBut({app.call.ip})
          /\ Exchange(Ask("disconnect"), Ask("disconnect_ack"))
      BY <2>6 DEF Agreement, Remote
    <3>2. d \in {Ask("disconnect"), Ask("disconnect_ack")}
      BY <2>1, <3>1 DEF Exchange
    <3>3. linked \ {app.call.ip} \subseteq linked'
      BY <1>23, <3>2 DEF RobotAnswers, Deliver, Lose, Ask
    <3>4. Exchange(Ask("disconnect"), Ask(AckOf("disconnect")))'
      BY <1>0, <1>23, <2>4, <3>1, Exchanging DEF AckOf
    <3>5. AgreedBut({app.call.ip})'
      BY <2>1, <3>1, <3>3 DEF AgreedBut
    <3> QED BY <2>1, <2>6, <3>1, <3>4, <3>5 DEF Agreement, OfSearch, AckOf
  <2> QED BY <2>2, <2>3, <2>5, <2>6
<1> QED
  BY <1>4, <1>5, <1>6, <1>7, <1>8, <1>9, <1>10, <1>11, <1>12, <1>15, <1>16, <1>17, <1>18, <1>19,
     <1>21, <1>22, <1>23 DEF Next, AppStep, NetStep

(* As long as every call succeeded, the robot the SDK holds itself connected *)
(* to holds itself connected too, and nothing is left behind on the socket:  *)
(* for any robots that carry out what they acknowledge - a connect_ack that  *)
(* says no is taken for a yes (RobotMsg.c:2564-2572) - and whatever is lost, *)
(* late or fails around them (RobotApi.c:2458-2477, 2549-2562).  Discovery,  *)
(* whose answers stay behind, is not called.                                 *)
THEOREM AgreementAlways ==
    ASSUME \A c \in Calls : c.op # "discovery", "refuse" \notin Faults
    PROVE  Spec => []SuccessMeansAgreement
<1>1. Init => Agreement
  BY SessionAssumption DEF Init, Agreement, OfSearch, Remote, Quiet, AgreedBut
<1>2. Typed /\ Agreement /\ [Next]_vars => Agreement'
  BY AgreementNext
<1>3. Typed /\ Agreement => SuccessMeansAgreement
  BY DEF Agreement, SuccessMeansAgreement, Quiet, AgreedBut, UnderWay, Typed, TypeOK
<1> QED BY <1>1, <1>2, <1>3, TypedAlways, PTL DEF Spec
=============================================================================
