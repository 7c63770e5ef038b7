------------------------- MODULE SdkSessionPromises -------------------------
(***************************************************************************)
(* What the session keeps to also when calls fail and Discovery leaves     *)
(* answers behind: the robot whose name is stored is the one whose address *)
(* is, heartbeats go to it, and the calls are those of a RobotLink.        *)
(***************************************************************************)
EXTENDS SdkSessionProofs, FiniteSetTheorems, FunctionTheorems

(* A connect_ack does not say which request it answers.  What keeps a call   *)
(* from taking another call's is that there is none: between two Connects    *)
(* no connect and no connect_ack exists, and while one receives there is one *)
(* at most, from the robot it asked.                                         *)

OfConnect == {"connect", "connect_ack"}

NoneUnderWay == \A d \in Datagram : d.kind \in OfConnect => net[d] = 0
NoneWaiting  == \A i \in 1..Len(inbox) : inbox[i].kind # "connect_ack"

OnlyOne(ask, answer) ==
    /\ \A d \in Datagram : d.kind \in OfConnect /\ d \notin {ask, answer} => net[d] = 0
    /\ \/ NoneWaiting /\ net[ask] + net[answer] <= 1
       \/ /\ NoneUnderWay
          /\ \E i \in 1..Len(inbox) :
                /\ inbox[i] = answer
                /\ \A j \in 1..Len(inbox) : j # i => inbox[j].kind # "connect_ack"

Asked == OnlyOne(Ask("connect"), Ask("connect_ack"))

Identity ==
    /\ rxFd = -1 => txFd = -1
    /\ app.at # "connectRecv" => NoneUnderWay /\ NoneWaiting
    /\ app.at = "connectRecv" => rxFd # -1 /\ Asked
    /\ app.at \in {"connectSend", "connectRecv", "connectInfo"} => app.call.ip \in Robots
    /\ app.at = "connectInfo" => app.name = app.call.ip
    /\ info.ip \in Robots => info.name = info.ip

(* Taking a datagram from the inbox, or emptying it, and what the other      *)
(* calls send bring no connect and no connect_ack.                           *)
LEMMA NoneMore ==
    ASSUME NoneUnderWay, NoneWaiting, inbox \in Seq(Datagram),
           inbox' = inbox \/ inbox' = <<>> \/ (inbox # <<>> /\ inbox' = Tail(inbox)),
           \A d \in Datagram : d.kind \in OfConnect => net'[d] \in {net[d], 0}
    PROVE  NoneUnderWay' /\ NoneWaiting'
<1>1. NoneUnderWay'
  BY DEF NoneUnderWay
<1>2. CASE inbox' = inbox \/ inbox' = <<>>
  BY <1>1, <1>2 DEF NoneWaiting
<1>3. CASE inbox # <<>> /\ inbox' = Tail(inbox)
  <2>1. \A i \in 1..Len(inbox') : i + 1 \in 1..Len(inbox) /\ inbox'[i] = inbox[i + 1]
    BY <1>3
  <2> QED BY <1>1, <2>1 DEF NoneWaiting
<1> QED BY <1>2, <1>3

(* The network brings neither when there is neither. *)
LEMMA NoneFromNet ==
    ASSUME WorldTyped, NoneUnderWay, NoneWaiting, NEW d \in Datagram,
           RobotAnswers(d) \/ Deliver(d) \/ Lose(d)
    PROVE  NoneUnderWay' /\ NoneWaiting'
<1>0. inbox \in Seq(Datagram) /\ net \in [Datagram -> Nat]
  BY DEF WorldTyped
<1>1. d.kind \notin OfConnect
  BY <1>0 DEF NoneUnderWay, RobotAnswers, Deliver, Lose
<1>2. CASE RobotAnswers(d)
  <2> DEFINE a == [d EXCEPT !.kind = AckOf(d.kind)]
  <2>1. a \in Datagram /\ a.kind \notin OfConnect
    BY <1>1, <1>2 DEF RobotAnswers, Datagram, Requests, Acks, AckOf, OfConnect
  <2>2. inbox' = inbox /\ \A e \in Datagram : e \notin {d, a} => net'[e] = net[e]
    BY <1>0, <1>2 DEF RobotAnswers
  <2> QED BY <1>1, <2>1, <2>2 DEF NoneUnderWay, NoneWaiting
<1>3. CASE Deliver(d)
  <2>1. \A e \in Datagram : e # d => net'[e] = net[e]
    BY <1>0, <1>3 DEF Deliver
  <2>2. inbox' = inbox \/ inbox' = Append(inbox, d)
    BY <1>3 DEF Deliver
  <2>3. CASE inbox' = Append(inbox, d)
    <3>1. \A i \in 1..Len(inbox') : inbox'[i] = d \/ (i \in 1..Len(inbox) /\ inbox'[i] = inbox[i])
      BY <1>0, <2>3
    <3> QED BY <1>1, <2>1, <3>1 DEF NoneUnderWay, NoneWaiting, OfConnect
  <2> QED BY <1>1, <2>1, <2>2, <2>3 DEF NoneUnderWay, NoneWaiting
<1>4. CASE Lose(d)
  <2>1. inbox' = inbox /\ \A e \in Datagram : e # d => net'[e] = net[e]
    BY <1>0, <1>4 DEF Lose
  <2> QED BY <1>1, <2>1 DEF NoneUnderWay, NoneWaiting
<1> QED BY <1>2, <1>3, <1>4

(* A Connect's request is the only one. *)
LEMMA OneAsked ==
    ASSUME WorldTyped, NoneUnderWay, NoneWaiting, app.call.ip \in Robots,
           Emit("connect", {app.call.ip}), inbox' = inbox, app'.call = app.call
    PROVE  Asked'
<1> DEFINE ask == Ask("connect")
           answer == Ask("connect_ack")
<1>1. ask \in Datagram /\ answer \in Datagram /\ ask # answer /\ ask' = ask /\ answer' = answer
  BY DEF Ask, Datagram, Requests, Acks
<1>2. \A d \in Datagram : d.kind = "connect" /\ d.robot \in {app.call.ip} => d = ask
  BY DEF Ask, Datagram
<1>3. \A d \in Datagram : net'[d] = IF d.kind = "connect" /\ d.robot \in {app.call.ip} /\ port # -1
                                    THEN net[d] + 1 ELSE net[d]
  BY DEF Emit
<1>4. net[ask] = 0 /\ net[answer] = 0
  BY <1>1 DEF NoneUnderWay, OfConnect, Ask
<1>5. \A d \in Datagram : d.kind \in OfConnect /\ d # ask => net'[d] = 0
  BY <1>2, <1>3 DEF NoneUnderWay
<1>6. net'[ask] \in {0, 1} /\ net'[answer] = 0
  BY <1>1, <1>3, <1>4, <1>5 DEF OfConnect, Ask
<1>7. NoneWaiting'
  BY DEF NoneWaiting
<1> QED BY <1>1, <1>5, <1>6, <1>7 DEF Asked, OnlyOne

(* The robots and the network keep it the only one. *)
LEMMA OneFromNet ==
    ASSUME WorldTyped, NEW ask \in Datagram, ask.kind = "connect",
           NEW answer, answer = [ask EXCEPT !.kind = "connect_ack"],
           OnlyOne(ask, answer), NEW d \in Datagram,
           RobotAnswers(d) \/ Deliver(d) \/ Lose(d)
    PROVE  OnlyOne(ask, answer)'
<1>0. inbox \in Seq(Datagram) /\ net \in [Datagram -> Nat] /\ net[d] > 0
  BY DEF WorldTyped, RobotAnswers, Deliver, Lose
<1>1. /\ answer \in Datagram /\ answer # ask /\ answer.kind = "connect_ack"
      /\ ask.kind \in OfConnect /\ answer.kind \in OfConnect
  BY DEF Datagram, Requests, Acks, OfConnect
<1>2. d.kind \in OfConnect => d \in {ask, answer}
  BY <1>0 DEF OnlyOne
<1>3. CASE d.kind \notin OfConnect
  <2>1. \A e \in Datagram : e.kind \in OfConnect => net'[e] = net[e]
    <3>1. CASE RobotAnswers(d)
      <4> DEFINE a == [d EXCEPT !.kind = AckOf(d.kind)]
      <4>1. a \in Datagram /\ a.kind \notin OfConnect
        BY <1>3, <3>1 DEF RobotAnswers, Datagram, Requests, Acks, AckOf, OfConnect
      <4>2. \A e \in Datagram : e \notin {d, a} => net'[e] = net[e]
        BY <1>0, <3>1 DEF RobotAnswers
      <4> QED BY <1>3, <4>1, <4>2
    <3>2. CASE Deliver(d) \/ Lose(d)
      BY <1>0, <1>3, <3>2 DEF Deliver, Lose
    <3> QED BY <3>1, <3>2
  <2>2. inbox' = inbox \/ inbox' = Append(inbox, d)
    BY DEF RobotAnswers, Deliver, Lose
  <2>3. /\ Len(inbox) <= Len(inbox')
        /\ \A i \in 1..Len(inbox) : inbox'[i] = inbox[i]
        /\ \A i \in 1..Len(inbox') : i \notin 1..Len(inbox) => inbox'[i] = d
    BY <1>0, <2>2
  <2>4. NoneWaiting => NoneWaiting'
    BY <1>3, <2>3 DEF NoneWaiting, OfConnect
  <2>5. NoneUnderWay => NoneUnderWay'
    BY <2>1 DEF NoneUnderWay
  <2>6. CASE NoneWaiting /\ net[ask] + net[answer] <= 1
    BY <1>1, <2>1, <2>4, <2>6 DEF OnlyOne
  <2>7. CASE NoneUnderWay /\ \E i \in 1..Len(inbox) :
                /\ inbox[i] = answer
                /\ \A j \in 1..Len(inbox) : j # i => inbox[j].kind # "connect_ack"
    <3>1. PICK i \in 1..Len(inbox) : /\ inbox[i] = answer
                                     /\ \A j \in 1..Len(inbox) : j # i => inbox[j].kind # "connect_ack"
      BY <2>7
    <3>2. i \in 1..Len(inbox') /\ inbox'[i] = answer
      BY <1>0, <2>2, <2>3, <3>1
    <3>3. \A j \in 1..Len(inbox') : j # i => inbox'[j].kind # "connect_ack"
      BY <1>3, <2>3, <3>1 DEF OfConnect
    <3> QED BY <2>1, <2>5, <2>7, <3>2, <3>3 DEF OnlyOne
  <2> QED BY <2>6, <2>7 DEF OnlyOne
<1>4. CASE d.kind \in OfConnect
  <2>1. NoneWaiting /\ net[ask] + net[answer] <= 1
    BY <1>0, <1>4 DEF OnlyOne, NoneUnderWay
  <2>2. net[ask] \in Nat /\ net[answer] \in Nat
    BY <1>0, <1>1
  <2>3. CASE RobotAnswers(d)
    <3>1. d = ask
      BY <1>1, <1>2, <1>4, <2>3 DEF RobotAnswers, Requests
    <3>2. net' = [net EXCEPT ![ask] = @ - 1, ![answer] = @ + 1] /\ inbox' = inbox
      BY <2>3, <3>1 DEF RobotAnswers, AckOf
    <3>3. /\ net'[ask] = net[ask] - 1 /\ net'[answer] = net[answer] + 1
          /\ \A e \in Datagram : e \notin {ask, answer} => net'[e] = net[e]
      BY <1>0, <1>1, <3>2
    <3>4. net'[ask] + net'[answer] <= 1
      BY <2>1, <2>2, <3>3
    <3> QED BY <2>1, <3>2, <3>3, <3>4 DEF OnlyOne, NoneWaiting
  <2>4. CASE Lose(d)
    <3>1. net' = [net EXCEPT ![d] = @ - 1] /\ inbox' = inbox
      BY <2>4 DEF Lose
    <3>2. d \in {ask, answer} /\ \A e \in Datagram : net'[e] = IF e = d THEN net[d] - 1 ELSE net[e]
      BY <1>0, <1>2, <1>4, <3>1
    <3>3. net'[ask] + net'[answer] <= 1
      BY <1>0, <1>1, <2>1, <2>2, <3>2
    <3> QED BY <2>1, <3>1, <3>2, <3>3 DEF OnlyOne, NoneWaiting
  <2>5. CASE Deliver(d)
    <3>1. d = answer
      BY <1>1, <1>2, <1>4, <2>5 DEF Deliver, Acks
    <3>2. net' = [net EXCEPT ![answer] = @ - 1]
      BY <2>5, <3>1 DEF Deliver
    <3>3. /\ net'[ask] = 0 /\ net'[answer] = 0
          /\ \A e \in Datagram : e \notin {ask, answer} => net'[e] = net[e]
      BY <1>0, <1>1, <2>1, <2>2, <3>1, <3>2
    <3>4. NoneUnderWay'
      BY <3>3 DEF NoneUnderWay, OnlyOne
    <3>5. CASE inbox' = inbox
      BY <2>1, <3>3, <3>5 DEF OnlyOne, NoneWaiting
    <3>6. CASE inbox' = Append(inbox, d)
      <4> DEFINE n == Len(inbox) + 1
      <4>1. n \in 1..Len(inbox') /\ inbox'[n] = answer
        BY <1>0, <3>1, <3>6
      <4>2. \A j \in 1..Len(inbox') : j # n => inbox'[j].kind # "connect_ack"
        BY <1>0, <2>1, <3>6 DEF NoneWaiting
      <4> QED BY <3>3, <3>4, <4>1, <4>2 DEF OnlyOne
    <3> QED BY <2>5, <3>5, <3>6 DEF Deliver
  <2> QED BY <2>3, <2>4, <2>5
<1> QED BY <1>3, <1>4

LEMMA IdentityNext ==
    ASSUME "late" \notin Faults, Typed, Identity, [Next]_vars
    PROVE  Identity'
<1>0. /\ app \in AppState /\ WorldTyped /\ CallFits
      /\ inbox \in Seq(Datagram) /\ net \in [Datagram -> Nat]
      /\ NoAddr \notin Robots /\ Junk \notin Robots /\ Local \notin Robots
      /\ fds \subseteq Fds /\ Fds \subseteq Nat
  BY SessionAssumption DEF Typed, TypeOK, WorldTyped
<1>1. ASSUME NEW rc, Return(rc)
      PROVE  app'.at = "idle"
  BY <1>1 DEF Return, ReturnFound
<1>2. ASSUME NEW at, Goto(at)
      PROVE  app'.at = at /\ app'.call = app.call /\ app'.name = app.name
  BY <1>0, <1>2 DEF Goto, AppState
<1>3. ASSUME NEW kind, NEW rs, kind \notin OfConnect, Emit(kind, rs)
      PROVE  \A d \in Datagram : d.kind \in OfConnect => net'[d] \in {net[d], 0}
  BY <1>3 DEF Emit
(* Outside connectRecv, a step that keeps the sockets and brings nothing. *)
<1>4. ASSUME rxFd' = -1 => txFd' = -1,
             app.at # "connectRecv",
             app'.at \notin {"connectSend", "connectRecv", "connectInfo"},
             inbox' = inbox \/ inbox' = <<>> \/ (inbox # <<>> /\ inbox' = Tail(inbox)),
             \A d \in Datagram : d.kind \in OfConnect => net'[d] \in {net[d], 0},
             info' = info \/ info'.ip \notin Robots
      PROVE  Identity'
  <2>1. NoneUnderWay' /\ NoneWaiting'
    BY <1>0, <1>4, NoneMore DEF Identity
  <2> QED BY <1>4, <2>1 DEF Identity
<1>5. CASE UNCHANGED vars
  BY <1>5 DEF vars, globals, world, Identity, NoneUnderWay, NoneWaiting, Asked, OnlyOne, Ask
<1>6. ASSUME NEW c \in Calls, Begin(c) PROVE Identity'
  <2>1. app'.at = c.op /\ app.at = "idle" /\ UNCHANGED <<rxFd, txFd, info, inbox, net>>
    BY <1>0, <1>6 DEF Begin, AppState, globals, world
  <2>2. c.op \notin {"connectSend", "connectRecv", "connectInfo"}
    BY CallFields
  <2> QED BY <1>4, <2>1, <2>2 DEF Identity
<1>7. CASE InitSockets
  <2>1. app'.at \in {"idle", "initPort"} /\ app.at = "init"
    BY <1>1, <1>2, <1>7 DEF InitSockets
  <2>2. rxFd' = -1 => txFd' = -1
    BY <1>0, <1>7, FreeFdFits DEF InitSockets, Identity
  <2>3. UNCHANGED <<net, info>> /\ (inbox' = inbox \/ inbox' = <<>>)
    BY <1>7 DEF InitSockets
  <2> QED BY <1>4, <2>1, <2>2, <2>3
<1>8. CASE Deinitialize
  <2>1. /\ app'.at = "idle" /\ app.at = "deinit" /\ txFd' = -1 /\ inbox' = <<>>
        /\ info'.ip \notin Robots
    BY <1>0, <1>1, <1>8 DEF Deinitialize
  <2>2. \A d \in Datagram : net'[d] \in {net[d], 0}
    BY <1>8 DEF Deinitialize
  <2> QED BY <1>4, <2>1, <2>2
<1>9. CASE InitPort \/ ConnectLocal \/ ConnectLocalDone \/ DisconnectLocal \/ DisconnectClear
  <2>1. /\ app'.at \in {"idle", "connectLocal"}
        /\ app.at \in {"initPort", "connect", "connectLocal", "disconnect", "disconnectClear"}
    BY <1>1, <1>2, <1>9 DEF InitPort, ConnectLocal, ConnectLocalDone, DisconnectLocal, DisconnectClear
  <2>2. UNCHANGED <<rxFd, txFd, inbox, net>>
    BY <1>9 DEF InitPort, ConnectLocal, ConnectLocalDone, DisconnectLocal, DisconnectClear, world
  <2>3. info' = [info EXCEPT !.ip = Junk] \/ info'.ip \in {NoAddr, Local}
    BY <1>9 DEF InitPort, ConnectLocal, ConnectLocalDone, DisconnectLocal, DisconnectClear
  <2>4. info'.ip \notin Robots
    BY <1>0, <2>3 DEF Typed, TypeOK
  <2> QED BY <1>4, <2>1, <2>2, <2>4 DEF Identity
<1>10. CASE DiscoverySend \/ DiscoveryOff \/ DiscoveryRecv
  <2>1. UNCHANGED <<rxFd, txFd, info>>
    BY <1>10 DEF DiscoverySend, DiscoveryOff, DiscoveryRecv, globals
  <2>2. /\ app'.at \in {"idle", "discoveryOff", "discoveryRecv"}
        /\ app.at \in {"discovery", "discoveryOff", "discoveryRecv"}
    <3>1. CASE DiscoverySend
      BY <1>1, <1>2, <3>1 DEF DiscoverySend
    <3>2. CASE DiscoveryOff
      BY <1>0, <3>2 DEF DiscoveryOff, AppState
    <3>3. CASE DiscoveryRecv
      <4>1. app.at = "discoveryRecv" /\ (app' = [app EXCEPT !.left = @ - 1] \/ app'.at = "idle")
        BY <3>3 DEF DiscoveryRecv, Return, ReturnFound
      <4> QED BY <1>0, <4>1 DEF AppState
    <3> QED BY <1>10, <3>1, <3>2, <3>3
  <2>3. inbox' = inbox \/ (inbox # <<>> /\ inbox' = Tail(inbox))
    BY <1>10 DEF DiscoverySend, DiscoveryOff, DiscoveryRecv, world
  <2>4. \A d \in Datagram : d.kind \in OfConnect => net'[d] \in {net[d], 0}
    BY <1>3, <1>10 DEF DiscoverySend, DiscoveryOff, DiscoveryRecv, world, OfConnect
  <2> QED BY <1>4, <2>1, <2>2, <2>3, <2>4 DEF Identity
<1>11. CASE DisconnectSend \/ DisconnectRecv
  <2>1. UNCHANGED <<rxFd, txFd, info>>
    BY <1>11 DEF DisconnectSend, DisconnectRecv, globals
  <2>2. /\ app'.at \in {"idle", "disconnectRecv", "disconnectClear"}
        /\ app.at \in {"disconnect", "disconnectRecv"}
    BY <1>1, <1>2, <1>11 DEF DisconnectSend, DisconnectRecv
  <2>3. inbox' = inbox \/ (inbox # <<>> /\ inbox' = Tail(inbox))
    BY <1>11 DEF DisconnectSend, DisconnectRecv
  <2>4. \A d \in Datagram : d.kind \in OfConnect => net'[d] \in {net[d], 0}
    BY <1>3, <1>11 DEF DisconnectSend, DisconnectRecv, OfConnect
  <2> QED BY <1>4, <2>1, <2>2, <2>3, <2>4 DEF Identity
<1>12. CASE ReportStatus \/ ConnectSpawn
  <2>1. app'.at = "idle" /\ app.at \in {"report", "connectSpawn"}
    BY <1>1, <1>12 DEF ReportStatus, ConnectSpawn
  <2>2. UNCHANGED <<rxFd, txFd, info, inbox, net>>
    BY <1>12 DEF ReportStatus, ConnectSpawn, globals, world
  <2> QED BY <1>4, <2>1, <2>2 DEF Identity
<1>13. CASE ConnectPort
  <2>1. /\ app.at = "connect" /\ app.call.ip # Local /\ app'.at = "connectSend" /\ app'.call = app.call
        /\ UNCHANGED <<rxFd, txFd, info, inbox, net>>
    BY <1>2, <1>13 DEF ConnectPort, globals, world
  <2>2. app.call.ip \in Robots
    BY <1>0, <2>1 DEF CallFits, OfRobot
  <2> QED BY <2>1, <2>2 DEF Identity, NoneUnderWay, NoneWaiting
<1>14. CASE ConnectSend
  <2>1. app.at = "connectSend" /\ UNCHANGED <<rxFd, txFd, info, inbox>>
    BY <1>14 DEF ConnectSend, globals
  <2>2. CASE Sendable(app.call.ip) /\ Emit("connect", {app.call.ip}) /\ Goto("connectRecv")
    <3>1. app'.at = "connectRecv" /\ app'.call = app.call /\ rxFd # -1 /\ app.call.ip \in Robots
      BY <1>2, <2>1, <2>2 DEF Identity, Sendable
    <3>2. Asked'
      BY <1>0, <2>1, <2>2, <3>1, OneAsked DEF Identity
    <3> QED BY <2>1, <3>1, <3>2 DEF Identity
  <2>3. CASE Return("SOCKET_SENDERROR") /\ UNCHANGED net
    BY <1>1, <1>4, <2>1, <2>3 DEF Identity
  <2> QED BY <1>14, <2>2, <2>3 DEF ConnectSend
<1>15. CASE ConnectRecv
  <2>1. /\ app.at = "connectRecv" /\ UNCHANGED <<rxFd, txFd, info, net>>
        /\ rxFd # -1 /\ Asked /\ app.call.ip \in Robots
    BY <1>15 DEF ConnectRecv, Identity
  <2>2. CASE RecvFails /\ Return("SOCKET_SENDERROR") /\ inbox' = inbox
    <3>1. inbox = <<>> /\ \A d \in Datagram : net[d] = 0
      BY <1>0, <2>1, <2>2 DEF RecvFails, UnderWay
    <3>2. app'.at = "idle" /\ NoneUnderWay' /\ NoneWaiting'
      BY <1>1, <2>1, <2>2, <3>1 DEF NoneUnderWay, NoneWaiting
    <3> QED BY <2>1, <3>2 DEF Identity
  <2> DEFINE ask == Ask("connect")
             answer == Ask("connect_ack")
  <2>3. CASE inbox # <<>> /\ inbox' = Tail(inbox) /\ Awaited(Head(inbox))
             /\ app' = [app EXCEPT !.at = "connectInfo", !.name = Head(inbox).robot]
    <3>1. 1 \in 1..Len(inbox) /\ inbox[1] = Head(inbox) /\ inbox[1].kind = "connect_ack"
      BY <1>0, <2>3 DEF Awaited
    <3>2. NoneUnderWay /\ inbox[1] = answer /\ \A j \in 1..Len(inbox) : j # 1 => inbox[j].kind # "connect_ack"
      BY <2>1, <3>1 DEF Asked, OnlyOne, NoneWaiting
    <3>3. \A i \in 1..Len(inbox') : i + 1 \in 1..Len(inbox) /\ i + 1 # 1 /\ inbox'[i] = inbox[i + 1]
      BY <1>0, <2>3
    <3>4. NoneUnderWay' /\ NoneWaiting'
      BY <2>1, <3>2, <3>3 DEF NoneUnderWay, NoneWaiting
    <3>5. app'.at = "connectInfo" /\ app'.call = app.call /\ app'.name = app'.call.ip
      BY <1>0, <2>3, <3>1, <3>2 DEF AppState, Ask
    <3> QED BY <2>1, <3>4, <3>5 DEF Identity
  <2>4. CASE inbox # <<>> /\ inbox' = Tail(inbox) /\ ~Awaited(Head(inbox)) /\ app' = app
    <3>1. inbox[1].kind # "connect_ack" /\ Len(inbox) \in Nat
      BY <1>0, <2>4 DEF Awaited
    <3>2. /\ \A i \in 1..Len(inbox') : i + 1 \in 1..Len(inbox) /\ inbox'[i] = inbox[i + 1]
          /\ Len(inbox') = Len(inbox) - 1
      BY <1>0, <2>4
    <3>3. NoneWaiting => NoneWaiting'
      BY <3>2 DEF NoneWaiting
    <3>4. NoneUnderWay => NoneUnderWay'
      BY <2>1 DEF NoneUnderWay
    <3>5. OnlyOne(ask, answer)'
      <4>1. ask' = ask /\ answer' = answer
        BY <2>4 DEF Ask
      <4>2. CASE NoneWaiting /\ net[ask] + net[answer] <= 1
        BY <2>1, <2>4, <3>3, <4>1, <4>2 DEF OnlyOne, Asked
      <4>3. CASE NoneUnderWay /\ \E i \in 1..Len(inbox) :
                /\ inbox[i] = answer
                /\ \A j \in 1..Len(inbox) : j # i => inbox[j].kind # "connect_ack"
        <5>1. PICK i \in 1..Len(inbox) : /\ inbox[i] = answer
                                         /\ \A j \in 1..Len(inbox) : j # i => inbox[j].kind # "connect_ack"
          BY <4>3
        <5>2. i # 1
          BY <3>1, <5>1 DEF Ask
        <5>3. i - 1 \in 1..Len(inbox') /\ inbox'[i - 1] = answer
          BY <3>1, <3>2, <5>1, <5>2
        <5>4. \A j \in 1..Len(inbox') : j # i - 1 => inbox'[j].kind # "connect_ack"
          BY <3>1, <3>2, <5>1
        <5> QED BY <2>1, <3>4, <4>1, <4>3, <5>3, <5>4 DEF OnlyOne, Asked
      <4> QED BY <2>1, <4>2, <4>3 DEF Asked, OnlyOne
    <3> QED BY <2>1, <2>4, <3>5 DEF Identity, Asked
  <2> QED BY <1>15, <2>2, <2>3, <2>4 DEF ConnectRecv
<1>16. CASE ConnectInfo
  <2>1. /\ app.at = "connectInfo" /\ app'.at = "connectSpawn"
        /\ info' = [ip |-> app.call.ip, name |-> app.name]
        /\ UNCHANGED <<rxFd, txFd, inbox, net>>
    BY <1>2, <1>16 DEF ConnectInfo, world
  <2>2. info'.name = info'.ip
    BY <2>1 DEF Identity
  <2> QED BY <2>1, <2>2 DEF Identity, NoneUnderWay, NoneWaiting
<1>17. CASE \E h \in Beats : BeatStep(h)
  <2>1. UNCHANGED <<app, rxFd, txFd, info, inbox, net>>
    BY <1>17 DEF BeatStep, BeatCheck, BeatLock, BeatSend, BeatWake, BeatExit, globals, world
  <2> QED BY <2>1 DEF Identity, NoneUnderWay, NoneWaiting, Asked, OnlyOne, Ask
<1>18. ASSUME NEW d \in Datagram, RobotAnswers(d) \/ Deliver(d) \/ Lose(d) PROVE Identity'
  <2>1. UNCHANGED <<app, rxFd, txFd, info>>
    BY <1>18 DEF RobotAnswers, Deliver, Lose, globals
  <2>2. CASE app.at # "connectRecv"
    <3>1. NoneUnderWay' /\ NoneWaiting'
      BY <1>0, <1>18, <2>2, NoneFromNet DEF Identity
    <3> QED BY <2>1, <2>2, <3>1 DEF Identity
  <2>3. CASE app.at = "connectRecv"
    <3> DEFINE ask == Ask("connect")
               answer == Ask("connect_ack")
    <3>1. /\ ask \in Datagram /\ ask.kind = "connect" /\ answer = [ask EXCEPT !.kind = "connect_ack"]
          /\ ask' = ask /\ answer' = answer /\ OnlyOne(ask, answer)
      BY <2>1, <2>3 DEF Ask, Datagram, Requests, Acks, Identity, Asked
    <3>2. OnlyOne(ask, answer)'
      <4> HIDE DEF ask, answer
      <4> QED BY <1>0, <1>18, <3>1, OneFromNet
    <3> QED BY <2>1, <2>3, <3>1, <3>2 DEF Identity, Asked
  <2> QED BY <2>2, <2>3
<1> QED
  BY <1>5, <1>6, <1>7, <1>8, <1>9, <1>10, <1>11, <1>12, <1>13, <1>14, <1>15, <1>16, <1>17, <1>18
  DEF Next, AppStep, NetStep

(* The robot the SDK says it is connected to is one robot, name and address, *)
(* for any robots and any calls, whatever is lost and whichever calls fail,  *)
(* as long as no answer comes after the receive timeout: then a second       *)
(* Connect takes the first one's answer (RobotApi.c:127, 2458-2477).         *)
THEOREM IdentityAlways ==
    ASSUME "late" \notin Faults
    PROVE  Spec => []ConnectedInfoMatches
<1>1. Init => Identity
  BY SessionAssumption DEF Init, Identity, NoneUnderWay, NoneWaiting
<1>2. Typed /\ Identity /\ [Next]_vars => Identity'
  BY IdentityNext
<1>3. Identity => ConnectedInfoMatches
  BY DEF Identity, ConnectedInfoMatches
<1> QED BY <1>1, <1>2, <1>3, TypedAlways, PTL DEF Spec

-----------------------------------------------------------------------------
(* The mutex is held by a heartbeat thread that is about to send, and while  *)
(* it is no other robot's address is stored.                                 *)
Guarded ==
    /\ ~mutex.ok => mutex.owner = Nobody
    /\ \A h \in Beats : mutex.owner = h =>
          /\ hb[h] = "send"
          /\ {hbIp[h], info.ip} \subseteq Robots => hbIp[h] = info.ip

LEMMA GuardedNext ==
    ASSUME Typed, Guarded, [Next]_vars
    PROVE  Guarded'
<1>0. /\ SharedTyped /\ ThreadsTyped
      /\ NoAddr \notin Robots /\ Junk \notin Robots /\ Local \notin Robots /\ Nobody \notin Beats
  BY SessionAssumption, TypedParts
<1>1. ASSUME UNCHANGED <<mutex, hb, hbIp>>, info' = info \/ info'.ip \notin Robots \/ CanLock
      PROVE  Guarded'
  BY <1>0, <1>1 DEF Guarded, CanLock
<1>2. CASE (\E c \in Calls : Begin(c)) \/ DiscoveryRecv \/ ConnectPort \/ ConnectSend
           \/ DisconnectSend \/ ReportStatus
  BY <1>1, <1>2 DEF Begin, DiscoveryRecv, ConnectPort, ConnectSend, DisconnectSend, ReportStatus,
     globals, threads
<1>3. CASE DiscoverySend \/ DiscoveryOff \/ ConnectRecv \/ DisconnectRecv
  BY <1>1, <1>3 DEF DiscoverySend, DiscoveryOff, ConnectRecv, DisconnectRecv, threads
<1>4. CASE InitPort \/ ConnectLocal \/ ConnectLocalDone \/ DisconnectLocal \/ DisconnectClear
  <2>1. UNCHANGED <<mutex, hb, hbIp>>
    BY <1>4 DEF InitPort, ConnectLocal, ConnectLocalDone, DisconnectLocal, DisconnectClear, threads
  <2>2. info' = [info EXCEPT !.ip = Junk] \/ info'.ip \in {NoAddr, Local}
    BY <1>4 DEF InitPort, ConnectLocal, ConnectLocalDone, DisconnectLocal, DisconnectClear
  <2>3. info'.ip \notin Robots
    BY <1>0, <2>2 DEF SharedTyped
  <2> QED BY <1>1, <2>1, <2>3
<1>5. CASE ConnectInfo
  BY <1>1, <1>5 DEF ConnectInfo, threads
<1>6. CASE InitSockets
  BY <1>0, <1>6 DEF InitSockets, Guarded
<1>7. CASE Deinitialize
  <2>1. info'.ip \notin Robots /\ UNCHANGED <<hb, hbIp>> /\ mutex'.owner = mutex.owner
    BY <1>0, <1>7 DEF Deinitialize, SharedTyped, threads
  <2>2. ~mutex'.ok => mutex'.owner = Nobody
    BY <1>0, <1>7 DEF Deinitialize, SharedTyped, Guarded
  <2> QED BY <2>1, <2>2 DEF Guarded
<1>8. CASE ConnectSpawn
  <2>1. UNCHANGED <<mutex, info>>
    BY <1>8 DEF ConnectSpawn, globals
  <2>2. \A h \in Beats : hb[h] = "send" => hb'[h] = hb[h] /\ hbIp'[h] = hbIp[h]
    BY <1>0, <1>8 DEF ConnectSpawn, ThreadsTyped, threads
  <2> QED BY <2>1, <2>2 DEF Guarded
<1>9. ASSUME NEW h \in Beats, BeatStep(h) PROVE Guarded'
  <2>1. info' = info /\ \A g \in Beats : g # h => hb'[g] = hb[g] /\ hbIp'[g] = hbIp[g]
    BY <1>0, <1>9 DEF BeatStep, BeatCheck, BeatLock, BeatSend, BeatWake, BeatExit, globals, ThreadsTyped
  <2>2. CASE BeatLock(h)
    <3>1. CASE mutex.ok
      <4>1. mutex'.owner = h /\ mutex'.ok = mutex.ok /\ hb'[h] = "send" /\ hbIp'[h] = info.ip
        BY <1>0, <2>2, <3>1 DEF BeatLock, SharedTyped, ThreadsTyped
      <4> QED BY <2>1, <3>1, <4>1 DEF Guarded
    <3>2. CASE ~mutex.ok
      <4>1. mutex' = mutex
        BY <2>2, <3>2 DEF BeatLock
      <4> QED BY <1>0, <3>2, <4>1 DEF Guarded
    <3> QED BY <3>1, <3>2
  <2>3. CASE BeatSend(h)
    <3>1. mutex'.owner = Nobody
      BY <1>0, <2>3 DEF BeatSend, SharedTyped, Guarded
    <3> QED BY <1>0, <3>1 DEF Guarded
  <2>4. CASE BeatCheck(h) \/ BeatWake(h) \/ BeatExit(h)
    <3>1. mutex' = mutex /\ hb[h] # "send"
      BY <2>4 DEF BeatCheck, BeatWake, BeatExit, globals
    <3> QED BY <2>1, <3>1 DEF Guarded
  <2> QED BY <1>9, <2>2, <2>3, <2>4 DEF BeatStep
<1>10. CASE NetStep \/ UNCHANGED vars
  BY <1>1, <1>10 DEF NetStep, RobotAnswers, Deliver, Lose, vars, globals, threads
<1> QED
  BY <1>2, <1>3, <1>4, <1>5, <1>6, <1>7, <1>8, <1>9, <1>10 DEF Next, AppStep

(* A heartbeat goes to the robot of the session, for any threads, any calls  *)
(* and whatever fails: a thread of an earlier session that still runs sends  *)
(* to the old robot only until the new one is stored (RobotApi.c:471-475,    *)
(* 2473-2477).                                                               *)
THEOREM HeartbeatsToSession == Spec => []HeartbeatToSession
<1>1. Init => Guarded
  BY SessionAssumption DEF Init, Guarded
<1>2. Typed /\ Guarded /\ [Next]_vars => Guarded'
  BY GuardedNext
<1>3. Guarded => HeartbeatToSession
  BY DEF Guarded, HeartbeatToSession
<1> QED BY <1>1, <1>2, <1>3, TypedAlways, PTL DEF Spec

-----------------------------------------------------------------------------
(* How many times a datagram is in a sequence of them: what one more at the  *)
(* end, and one less at the front, does to the number.                       *)

PlacesOf(s, d) == {i \in 1..Len(s) : s[i] = d}

LEMMA PlacesFinite ==
    ASSUME NEW S, NEW s \in Seq(S), NEW d
    PROVE  IsFiniteSet(PlacesOf(s, d)) /\ Cardinality(PlacesOf(s, d)) \in Nat
<1>1. IsFiniteSet(1..Len(s))
  BY FS_Interval
<1>2. PlacesOf(s, d) \in SUBSET (1..Len(s))
  BY DEF PlacesOf
<1>3. IsFiniteSet(PlacesOf(s, d))
  BY <1>1, <1>2, FS_Subset
<1> QED BY <1>3, FS_CardinalityType

LEMMA PlacesAppend ==
    ASSUME NEW S, NEW s \in Seq(S), NEW e \in S, NEW d
    PROVE  Cardinality(PlacesOf(Append(s, e), d))
             = IF e = d THEN Cardinality(PlacesOf(s, d)) + 1 ELSE Cardinality(PlacesOf(s, d))
<1> DEFINE n == Len(s) + 1
<1>1. Len(s) \in Nat /\ Len(Append(s, e)) = n /\ 1..n = (1..Len(s)) \cup {n} /\ n \notin 1..Len(s)
  OBVIOUS
<1>2. Append(s, e)[n] = e /\ \A i \in 1..Len(s) : Append(s, e)[i] = s[i]
  OBVIOUS
<1>3. n \notin PlacesOf(s, d)
  BY <1>1 DEF PlacesOf
<1>4. CASE e = d
  <2>1. PlacesOf(Append(s, e), d) = PlacesOf(s, d) \cup {n}
    BY <1>1, <1>2, <1>4 DEF PlacesOf
  <2> QED BY <1>3, <1>4, <2>1, PlacesFinite, FS_AddElement
<1>5. CASE e # d
  <2>1. PlacesOf(Append(s, e), d) = PlacesOf(s, d)
    BY <1>1, <1>2, <1>5 DEF PlacesOf
  <2> QED BY <1>5, <2>1
<1> QED BY <1>4, <1>5

LEMMA PlacesTail ==
    ASSUME NEW S, NEW s \in Seq(S), s # <<>>, NEW d
    PROVE  /\ Head(s) = d => /\ Cardinality(PlacesOf(s, d)) > 0
                             /\ Cardinality(PlacesOf(Tail(s), d)) = Cardinality(PlacesOf(s, d)) - 1
           /\ Head(s) # d => Cardinality(PlacesOf(Tail(s), d)) = Cardinality(PlacesOf(s, d))
<1> DEFINE P == PlacesOf(Tail(s), d)
           Q == PlacesOf(s, d) \ {1}
           f == [i \in P |-> i + 1]
<1>1. /\ Tail(s) \in Seq(S) /\ Len(s) \in Nat /\ Len(Tail(s)) = Len(s) - 1
      /\ Head(s) = s[1] /\ 1 \in 1..Len(s)
      /\ \A i \in 1..Len(Tail(s)) : Tail(s)[i] = s[i + 1]
  OBVIOUS
<1>2. f \in [P -> Q]
  BY <1>1 DEF PlacesOf
<1>3. \A a, b \in P : f[a] = f[b] => a = b
  BY <1>1 DEF PlacesOf
<1>4. \A t \in Q : \E p \in P : f[p] = t
  <2> TAKE t \in Q
  <2>1. t \in 2..Len(s) /\ s[t] = d
    BY <1>1 DEF PlacesOf
  <2>2. t - 1 \in 1..Len(Tail(s)) /\ Tail(s)[t - 1] = s[t]
    BY <1>1, <2>1
  <2>3. t - 1 \in P /\ f[t - 1] = t
    BY <2>1, <2>2 DEF PlacesOf
  <2> QED BY <2>3
<1>5. f \in Bijection(P, Q)
  BY <1>2, <1>3, <1>4, Fun_IsBij
<1>6. Cardinality(Q) = Cardinality(P)
  <2>1. ExistsBijection(P, Q)
    BY <1>5 DEF ExistsBijection
  <2>2. IsFiniteSet(P)
    BY <1>1, PlacesFinite
  <2> QED BY <2>1, <2>2, FS_Bijection
<1>7. IsFiniteSet(PlacesOf(s, d)) /\ Cardinality(PlacesOf(s, d)) \in Nat /\ Cardinality(P) \in Nat
  BY <1>1, PlacesFinite
<1>8. Cardinality(Q) = IF 1 \in PlacesOf(s, d) THEN Cardinality(PlacesOf(s, d)) - 1
                       ELSE Cardinality(PlacesOf(s, d))
  BY <1>7, FS_RemoveElement
<1>9. 1 \in PlacesOf(s, d) <=> Head(s) = d
  BY <1>1 DEF PlacesOf
<1> HIDE DEF P, Q, f
<1>10. Cardinality(P) = IF Head(s) = d THEN Cardinality(PlacesOf(s, d)) - 1
                        ELSE Cardinality(PlacesOf(s, d))
  BY <1>6, <1>8, <1>9
<1> QED BY <1>7, <1>10 DEF P

(* The inbox. *)
LEMMA WaitingChanges ==
    ASSUME WorldTyped, NEW d
    PROVE  /\ Waiting(d) \in Nat
           /\ inbox' = inbox => Waiting(d)' = Waiting(d)
           /\ inbox' = <<>> => Waiting(d)' = 0
           /\ \A e \in Datagram : inbox' = Append(inbox, e)
                 => Waiting(d)' = IF e = d THEN Waiting(d) + 1 ELSE Waiting(d)
           /\ inbox # <<>> /\ inbox' = Tail(inbox) =>
                 /\ Head(inbox) = d => Waiting(d) > 0 /\ Waiting(d)' = Waiting(d) - 1
                 /\ Head(inbox) # d => Waiting(d)' = Waiting(d)
<1>0. inbox \in Seq(Datagram)
  BY DEF WorldTyped
<1>1. Waiting(d) = Cardinality(PlacesOf(inbox, d)) /\ Waiting(d)' = Cardinality(PlacesOf(inbox', d))
  BY DEF Waiting, PlacesOf
<1>2. inbox' = <<>> => Cardinality(PlacesOf(inbox', d)) = 0
  <2> HAVE inbox' = <<>>
  <2>1. PlacesOf(inbox', d) = {}
    BY DEF PlacesOf
  <2> QED BY <2>1, FS_EmptySet
<1>3. Cardinality(PlacesOf(inbox, d)) \in Nat
  BY <1>0, PlacesFinite
<1>4. ASSUME NEW e \in Datagram, inbox' = Append(inbox, e)
      PROVE  Waiting(d)' = IF e = d THEN Waiting(d) + 1 ELSE Waiting(d)
  <2>1. Cardinality(PlacesOf(Append(inbox, e), d))
          = IF e = d THEN Cardinality(PlacesOf(inbox, d)) + 1 ELSE Cardinality(PlacesOf(inbox, d))
    BY <1>0, PlacesAppend
  <2> QED BY <1>1, <1>4, <2>1
<1>5. ASSUME inbox # <<>>, inbox' = Tail(inbox)
      PROVE  /\ Head(inbox) = d => Waiting(d) > 0 /\ Waiting(d)' = Waiting(d) - 1
             /\ Head(inbox) # d => Waiting(d)' = Waiting(d)
  <2>1. /\ Head(inbox) = d => /\ Cardinality(PlacesOf(inbox, d)) > 0
                              /\ Cardinality(PlacesOf(Tail(inbox), d)) = Cardinality(PlacesOf(inbox, d)) - 1
        /\ Head(inbox) # d => Cardinality(PlacesOf(Tail(inbox), d)) = Cardinality(PlacesOf(inbox, d))
    BY <1>0, <1>5, PlacesTail
  <2> QED BY <1>1, <1>5, <2>1
<1>6. inbox' = inbox => Waiting(d)' = Waiting(d)
  BY <1>1
<1>7. Waiting(d) \in Nat /\ (inbox' = <<>> => Waiting(d)' = 0)
  BY <1>1, <1>2, <1>3
<1> HIDE DEF Waiting
<1> QED BY <1>4, <1>5, <1>6, <1>7

LEMMA NobodyWaits ==
    ASSUME WorldTyped, NEW d, \A i \in 1..Len(inbox) : inbox[i] # d
    PROVE  Waiting(d) = 0
<1>1. {i \in 1..Len(inbox) : inbox[i] = d} = {}
  OBVIOUS
<1> QED BY <1>1, FS_EmptySet DEF Waiting

LEMMA SomebodyWaits ==
    ASSUME WorldTyped, inbox # <<>>
    PROVE  Waiting(Head(inbox)) > 0
<1>1. inbox \in Seq(Datagram)
  BY DEF WorldTyped
<1>2. Cardinality(PlacesOf(inbox, Head(inbox))) > 0
  BY <1>1, PlacesTail
<1> QED BY <1>2 DEF Waiting, PlacesOf

-----------------------------------------------------------------------------
(* What the refinement needs of the status, the address and the call.        *)
Standing ==
    /\ app.at \in {"connectSpawn", "disconnectRecv", "disconnectClear"} => app.call.ip \in Robots
    /\ app.at = "connectLocal" => app.call.ip = Local
    /\ app.at \in {"connectInfo", "connectSpawn"} => status = 1
    /\ app.at # "disconnectClear" /\ info.ip \in Robots => status = 1
    /\ app.at \in OfSearch => Searches
    /\ bcast => app.at = "discoveryOff"

Passing == {"connectInfo", "connectSpawn", "connectLocal", "disconnectRecv", "disconnectClear", "discoveryOff"}

LEMMA StandingNext ==
    ASSUME Searches => "send" \notin Faults, Typed, Identity, Standing, [Next]_vars
    PROVE  Standing'
<1>0. /\ app \in AppState /\ CallFits /\ SharedTyped
      /\ NoAddr \notin Robots /\ Junk \notin Robots /\ Local \notin Robots
  BY SessionAssumption, TypedParts DEF Typed, TypeOK
<1>1. ASSUME NEW rc, Return(rc)
      PROVE  app'.at = "idle"
  BY <1>1 DEF Return, ReturnFound
<1>2. ASSUME NEW at, Goto(at)
      PROVE  app'.at = at /\ app'.call = app.call
  BY <1>0, <1>2 DEF Goto, AppState
(* A step between two places of which the invariant says nothing. *)
<1>3. ASSUME status' = status, bcast' \in {bcast, FALSE}, info' = info \/ info'.ip \notin Robots,
             app.at \notin {"disconnectClear", "discoveryOff"},
             app'.at \notin Passing, app'.at \in OfSearch => Searches
      PROVE  Standing'
  <2>1. ~bcast'
    BY <1>3 DEF Standing
  <2>2. info'.ip \in Robots => status' = 1
    BY <1>3 DEF Standing
  <2> QED BY <1>3, <2>1, <2>2 DEF Standing, Passing
<1>4. "idle" \notin Passing \cup OfSearch
  BY DEF Passing, OfSearch
<1>5. ASSUME NEW c \in Calls, Begin(c) PROVE Standing'
  <2>1. app'.at = c.op /\ app.at = "idle" /\ UNCHANGED <<status, bcast, info>>
    BY <1>0, <1>5 DEF Begin, AppState, globals
  <2>2. c.op \notin Passing /\ (c.op \in OfSearch => Searches)
    BY CallFields DEF Passing, OfSearch, Searches
  <2> QED BY <1>3, <2>1, <2>2
<1>6. CASE InitSockets
  <2>1. app'.at \in {"idle", "initPort"} /\ app.at = "init"
    BY <1>1, <1>2, <1>6 DEF InitSockets
  <2> QED BY <1>3, <1>6, <2>1 DEF InitSockets, Passing, OfSearch
<1>7. CASE InitPort \/ Deinitialize \/ ConnectLocalDone \/ DisconnectLocal
  <2>1. app'.at = "idle" /\ app.at \in {"initPort", "deinit", "connectLocal", "disconnect"}
    BY <1>1, <1>7 DEF InitPort, Deinitialize, ConnectLocalDone, DisconnectLocal
  <2>2. status' = status /\ (bcast' = bcast \/ bcast' = FALSE)
    BY <1>7 DEF InitPort, Deinitialize, ConnectLocalDone, DisconnectLocal
  <2>3. info' \in {[ip |-> NoAddr, name |-> NoAddr], [ip |-> Local, name |-> Junk]}
    BY <1>7 DEF InitPort, Deinitialize, ConnectLocalDone, DisconnectLocal
  <2>4. info'.ip \notin Robots
    BY <1>0, <2>3
  <2> QED BY <1>3, <1>4, <2>1, <2>2, <2>4
<1>8. CASE DisconnectClear
  <2>1. app'.at = "idle" /\ app.at = "disconnectClear" /\ bcast' = bcast /\ info'.ip \notin Robots
    BY <1>0, <1>1, <1>8 DEF DisconnectClear
  <2> QED BY <1>4, <2>1 DEF Standing, Passing
<1>9. CASE ConnectSpawn \/ ReportStatus \/ ConnectPort
  <2>1. /\ app'.at \in {"idle", "connectSend"} /\ app.at \in {"connectSpawn", "report", "connect"}
        /\ UNCHANGED <<status, bcast, info>>
    BY <1>1, <1>2, <1>9 DEF ConnectSpawn, ReportStatus, ConnectPort, globals
  <2> QED BY <1>3, <2>1 DEF Passing, OfSearch
<1>10. CASE ConnectLocal
  <2>1. /\ app'.at = "connectLocal" /\ app'.call.ip = Local /\ app.at = "connect"
        /\ UNCHANGED <<status, bcast>>
    BY <1>2, <1>10 DEF ConnectLocal
  <2>2. info'.ip = Junk
    BY <1>0, <1>10 DEF ConnectLocal, SharedTyped
  <2> QED BY <1>0, <2>1, <2>2 DEF Standing, OfSearch
<1>11. CASE ConnectSend
  <2>1. /\ app'.at \in {"idle", "connectRecv"} /\ app.at = "connectSend"
        /\ UNCHANGED <<status, bcast, info>>
    BY <1>1, <1>2, <1>11 DEF ConnectSend, globals
  <2> QED BY <1>3, <2>1 DEF Passing, OfSearch
<1>12. CASE ConnectRecv
  <2>1. app.at = "connectRecv" /\ UNCHANGED <<bcast, info>>
    BY <1>12 DEF ConnectRecv
  <2>2. CASE app'.at = "connectInfo" /\ status' = 1
    BY <2>1, <2>2 DEF Standing, OfSearch
  <2>3. CASE app'.at \in {"idle", "connectRecv"} /\ status' = status
    BY <1>3, <2>1, <2>3 DEF Passing, OfSearch
  <2> QED BY <1>0, <1>1, <1>12, <2>1, <2>2, <2>3 DEF ConnectRecv, AppState
<1>13. CASE ConnectInfo
  <2>1. /\ app'.at = "connectSpawn" /\ app'.call = app.call /\ app.at = "connectInfo"
        /\ UNCHANGED <<status, bcast>>
    BY <1>2, <1>13 DEF ConnectInfo
  <2> QED BY <2>1 DEF Standing, Identity, OfSearch
<1>14. CASE DisconnectSend
  <2>1. app.at = "disconnect" /\ UNCHANGED <<status, bcast, info>> /\ app.call.ip \in Robots
    BY <1>0, <1>14 DEF DisconnectSend, globals, CallFits, OfRobot
  <2>2. app'.at = "idle" \/ (app'.at = "disconnectRecv" /\ app'.call = app.call)
    BY <1>1, <1>2, <1>14 DEF DisconnectSend
  <2> QED BY <1>4, <2>1, <2>2 DEF Standing, OfSearch, Passing
<1>15. CASE DisconnectRecv
  <2>1. app.at = "disconnectRecv" /\ UNCHANGED <<bcast, info>>
    BY <1>15 DEF DisconnectRecv
  <2>2. CASE app'.at = "disconnectClear" /\ app'.call = app.call
    BY <2>1, <2>2 DEF Standing, OfSearch
  <2>3. CASE app'.at = "idle" /\ status' = status
    BY <1>3, <1>4, <2>1, <2>3
  <2> QED BY <1>1, <1>2, <1>15, <2>2, <2>3 DEF DisconnectRecv
<1>16. CASE DiscoverySend
  <2>1. app.at = "discovery" /\ UNCHANGED <<status, info>> /\ Searches
    BY <1>16 DEF DiscoverySend, Standing, OfSearch
  <2>2. CASE app'.at = "idle" /\ bcast' \in {bcast, FALSE}
    BY <1>3, <1>4, <2>1, <2>2
  <2>3. CASE app'.at = "discoveryOff"
    BY <2>1, <2>3 DEF Standing
  <2> QED BY <1>1, <1>2, <1>16, <2>1, <2>2, <2>3 DEF DiscoverySend
<1>17. CASE DiscoveryOff
  <2>1. app.at = "discoveryOff" /\ UNCHANGED <<status, info>> /\ bcast' = FALSE /\ Searches
    BY <1>17 DEF DiscoveryOff, Standing, OfSearch
  <2>2. app'.at = "discoveryRecv"
    BY <1>0, <1>17 DEF DiscoveryOff, AppState
  <2> QED BY <2>1, <2>2 DEF Standing
<1>18. CASE DiscoveryRecv
  <2>1. app.at = "discoveryRecv" /\ UNCHANGED <<status, info, bcast>> /\ Searches
    BY <1>18 DEF DiscoveryRecv, Standing, OfSearch, globals
  <2>2. app' = [app EXCEPT !.left = @ - 1] \/ app'.at = "idle"
    BY <1>18 DEF DiscoveryRecv, Return, ReturnFound
  <2>3. app'.at \in {"idle", "discoveryRecv"}
    BY <1>0, <2>1, <2>2 DEF AppState
  <2> QED BY <1>3, <2>1, <2>3 DEF Passing
<1>19. ASSUME UNCHANGED <<app, status, info, bcast>> PROVE Standing'
  BY <1>19 DEF Standing
<1>20. CASE (\E h \in Beats : BeatStep(h)) \/ UNCHANGED vars
  BY <1>19, <1>20 DEF BeatStep, BeatCheck, BeatLock, BeatSend, BeatWake, BeatExit, globals, vars
<1>21. CASE NetStep
  BY <1>19, <1>21 DEF NetStep, RobotAnswers, Deliver, Lose, globals
<1> QED
  BY <1>5, <1>6, <1>7, <1>8, <1>9, <1>10, <1>11, <1>12, <1>13, <1>14, <1>15, <1>16, <1>17, <1>18,
     <1>20, <1>21 DEF Next, AppStep

-----------------------------------------------------------------------------
(* Without Discovery nothing else is on the way while a call waits for its   *)
(* answer, and nothing at all between two calls, also when calls fail.       *)
Receiving == {"connectRecv", "disconnectRecv"}

Orderly ==
    /\ app.at \in Receiving => rxFd # -1 /\ app.call.ip \in Robots
    /\ app.at = "connectRecv" => Exchange(Ask("connect"), Ask("connect_ack"))
    /\ app.at = "disconnectRecv" => Exchange(Ask("disconnect"), Ask("disconnect_ack"))
    /\ app.at \notin Receiving => Quiet

LEMMA OrderlyNext ==
    ASSUME "late" \notin Faults, ~Searches, Typed, Identity, Standing, Orderly, [Next]_vars
    PROVE  Orderly'
<1>0. /\ app \in AppState /\ WorldTyped /\ CallFits
      /\ inbox \in Seq(Datagram) /\ net \in [Datagram -> Nat]
  BY TypedParts DEF Typed, TypeOK, WorldTyped
<1>1. ASSUME NEW rc, Return(rc)
      PROVE  app'.at = "idle"
  BY <1>1 DEF Return, ReturnFound
<1>2. ASSUME NEW at, Goto(at)
      PROVE  app'.at = at /\ app'.call = app.call
  BY <1>0, <1>2 DEF Goto, AppState
<1>3. ASSUME Quiet, app'.at \notin Receiving, inbox' = inbox \/ inbox' = <<>>,
             \A d \in Datagram : net'[d] = net[d] \/ net'[d] = 0
      PROVE  Orderly'
  BY <1>3 DEF Orderly, Quiet, Receiving
<1>4. app.at \notin Receiving => Quiet
  BY DEF Orderly
<1>5. ASSUME NEW c \in Calls, Begin(c) PROVE Orderly'
  <2>1. app'.at = c.op /\ app.at = "idle" /\ UNCHANGED <<inbox, net>>
    BY <1>0, <1>5 DEF Begin, AppState, world
  <2>2. c.op \notin Receiving
    BY CallFields DEF Receiving
  <2> QED BY <1>3, <1>4, <2>1, <2>2 DEF Receiving
<1>6. CASE InitSockets \/ InitPort \/ Deinitialize \/ ConnectLocal \/ ConnectLocalDone \/ ConnectPort
  <2>1. /\ app'.at \in {"idle", "initPort", "connectLocal", "connectSend"}
        /\ app.at \in {"init", "initPort", "deinit", "connect", "connectLocal"}
    BY <1>1, <1>2, <1>6 DEF InitSockets, InitPort, Deinitialize, ConnectLocal, ConnectLocalDone, ConnectPort
  <2>2. /\ inbox' = inbox \/ inbox' = <<>>
        /\ \A d \in Datagram : net'[d] = net[d] \/ net'[d] = 0
    BY <1>6 DEF InitSockets, InitPort, Deinitialize, ConnectLocal, ConnectLocalDone, ConnectPort, world
  <2> QED BY <1>3, <1>4, <2>1, <2>2 DEF Receiving
<1>7. CASE ConnectInfo \/ ConnectSpawn \/ DisconnectLocal \/ DisconnectClear \/ ReportStatus
  <2>1. /\ app'.at \in {"idle", "connectSpawn"} /\ UNCHANGED <<inbox, net>>
        /\ app.at \in {"connectInfo", "connectSpawn", "disconnect", "disconnectClear", "report"}
    BY <1>1, <1>2, <1>7 DEF ConnectInfo, ConnectSpawn, DisconnectLocal, DisconnectClear, ReportStatus, world
  <2> QED BY <1>3, <1>4, <2>1 DEF Receiving
<1>8. CASE DiscoverySend \/ DiscoveryOff \/ DiscoveryRecv
  BY <1>8 DEF DiscoverySend, DiscoveryOff, DiscoveryRecv, Standing, OfSearch
<1>9. ASSUME NEW kind \in {"connect", "disconnect"}, Quiet, app.call.ip \in Robots,
             Emit(kind, {app.call.ip}), inbox' = inbox, app'.call = app.call
      PROVE  Exchange(Ask(kind), Ask(AckOf(kind)))'
  <2>1. kind \in Requests
    BY DEF Requests
  <2> QED BY <1>0, <1>9, <2>1, Asking
<1>10. CASE ConnectSend
  <2>1. app.at = "connectSend" /\ UNCHANGED <<inbox, rxFd>> /\ app.call.ip \in Robots /\ Quiet
    BY <1>4, <1>10 DEF ConnectSend, globals, Identity, Receiving
  <2>2. CASE Return("SOCKET_SENDERROR") /\ UNCHANGED net
    BY <1>1, <1>3, <2>1, <2>2 DEF Receiving
  <2>3. CASE Sendable(app.call.ip) /\ Emit("connect", {app.call.ip}) /\ Goto("connectRecv")
    <3>1. rxFd' # -1 /\ app'.at = "connectRecv" /\ app'.call = app.call
      BY <1>2, <2>1, <2>3 DEF Sendable, Identity
    <3>2. Exchange(Ask("connect"), Ask("connect_ack"))'
      BY <1>9, <2>1, <2>3, <3>1 DEF AckOf
    <3> QED BY <2>1, <3>1, <3>2 DEF Orderly, Receiving
  <2> QED BY <1>10, <2>2, <2>3 DEF ConnectSend
<1>11. CASE DisconnectSend
  <2>1. app.at = "disconnect" /\ UNCHANGED <<inbox, rxFd>> /\ app.call.ip \in Robots /\ Quiet
    BY <1>0, <1>4, <1>11 DEF DisconnectSend, globals, CallFits, OfRobot, Receiving
  <2>2. CASE Return("SOCKET_SENDERROR") /\ UNCHANGED net
    BY <1>1, <1>3, <2>1, <2>2 DEF Receiving
  <2>3. CASE Sendable(app.call.ip) /\ Emit("disconnect", {app.call.ip}) /\ Goto("disconnectRecv")
    <3>1. rxFd' # -1 /\ app'.at = "disconnectRecv" /\ app'.call = app.call
      BY <1>2, <2>1, <2>3 DEF Sendable, Identity
    <3>2. Exchange(Ask("disconnect"), Ask("disconnect_ack"))'
      BY <1>9, <2>1, <2>3, <3>1 DEF AckOf
    <3> QED BY <2>1, <3>1, <3>2 DEF Orderly, Receiving
  <2> QED BY <1>11, <2>2, <2>3 DEF DisconnectSend
(* No answer is late: a receive that fails has nothing left to come. *)
<1>12. ASSUME app.at \in Receiving, RecvFails
       PROVE  Quiet
  BY <1>0, <1>12 DEF Orderly, RecvFails, UnderWay, Quiet
<1>13. ASSUME app.at \in Receiving, inbox # <<>>
       PROVE  Tail(inbox) = <<>> /\ \A d \in Datagram : net[d] = 0
  <2>1. PICK answer : inbox = <<answer>> /\ \A d \in Datagram : net[d] = 0
    <3>1. \E kind, answer : Exchange(Ask(kind), answer)
      BY <1>13 DEF Orderly, Receiving
    <3> QED BY <1>13, <3>1 DEF Exchange
  <2> QED BY <2>1
<1>14. CASE ConnectRecv
  <2>1. app.at = "connectRecv" /\ app.at \in Receiving /\ net' = net
    BY <1>14 DEF ConnectRecv, Receiving
  <2>2. CASE RecvFails /\ Return("SOCKET_SENDERROR") /\ inbox' = inbox
    BY <1>1, <1>3, <1>12, <2>1, <2>2 DEF Receiving
  <2>3. CASE inbox # <<>> /\ inbox' = Tail(inbox) /\ Awaited(Head(inbox))
             /\ app' = [app EXCEPT !.at = "connectInfo", !.name = Head(inbox).robot]
    <3>1. app'.at = "connectInfo"
      BY <1>0, <2>3 DEF AppState
    <3> QED BY <1>13, <2>1, <2>3, <3>1 DEF Orderly, Receiving, Quiet
  <2>4. CASE inbox # <<>> /\ ~Awaited(Head(inbox))
    BY <2>1, <2>4 DEF Orderly, Exchange, Awaited, Ask
  <2> QED BY <1>14, <2>2, <2>3, <2>4 DEF ConnectRecv
<1>15. CASE DisconnectRecv
  <2>1. app.at = "disconnectRecv" /\ app.at \in Receiving /\ net' = net
    BY <1>15 DEF DisconnectRecv, Receiving
  <2>2. CASE RecvFails /\ Return("SOCKET_SENDERROR") /\ inbox' = inbox
    BY <1>1, <1>3, <1>12, <2>1, <2>2 DEF Receiving
  <2>3. CASE inbox # <<>> /\ inbox' = Tail(inbox) /\ (Goto("disconnectClear") \/ Return("FAILED"))
    <3>1. app'.at \in {"disconnectClear", "idle"}
      BY <1>1, <1>2, <2>3
    <3> QED BY <1>13, <2>1, <2>3, <3>1 DEF Orderly, Receiving, Quiet
  <2> QED BY <1>15, <2>2, <2>3 DEF DisconnectRecv
<1>16. ASSUME UNCHANGED <<app, rxFd, inbox, net>> PROVE Orderly'
  BY <1>16 DEF Orderly, Quiet, Exchange, Ask
<1>17. CASE (\E h \in Beats : BeatStep(h)) \/ UNCHANGED vars
  BY <1>16, <1>17 DEF BeatStep, BeatCheck, BeatLock, BeatSend, BeatWake, BeatExit, globals, world, vars
<1>18. ASSUME NEW d \in Datagram, RobotAnswers(d) \/ Deliver(d) \/ Lose(d) PROVE Orderly'
  <2>1. UNCHANGED <<app, rxFd>> /\ net[d] > 0
    BY <1>18 DEF RobotAnswers, Deliver, Lose, globals
  <2>2. app.at \in Receiving
    BY <1>4, <2>1 DEF Quiet
  <2>3. ASSUME NEW kind \in {"connect", "disconnect"}, Exchange(Ask(kind), Ask(AckOf(kind)))
        PROVE  Exchange(Ask(kind), Ask(AckOf(kind)))'
    <3>1. /\ Ask(kind) \in Datagram /\ Ask(kind).kind = kind
          /\ Ask(AckOf(kind)) = [Ask(kind) EXCEPT !.kind = AckOf(Ask(kind).kind)]
          /\ Ask(kind)' = Ask(kind) /\ Ask(AckOf(kind))' = Ask(AckOf(kind))
      BY <2>1, <2>2 DEF Ask, Datagram, Requests, Orderly
    <3> QED BY <1>0, <1>18, <2>3, <3>1, Exchanging
  <2>4. CASE app.at = "connectRecv"
    <3>1. Exchange(Ask("connect"), Ask("connect_ack"))'
      BY <2>3, <2>4 DEF Orderly, AckOf
    <3> QED BY <2>1, <2>2, <2>4, <3>1 DEF Orderly
  <2>5. CASE app.at = "disconnectRecv"
    <3>1. Exchange(Ask("disconnect"), Ask("disconnect_ack"))'
      BY <2>3, <2>5 DEF Orderly, AckOf
    <3> QED BY <2>1, <2>2, <2>5, <3>1 DEF Orderly
  <2> QED BY <2>2, <2>4, <2>5 DEF Receiving
<1> QED
  BY <1>5, <1>6, <1>7, <1>8, <1>10, <1>11, <1>14, <1>15, <1>17, <1>18 DEF Next, AppStep, NetStep
-----------------------------------------------------------------------------
(* The refinement.  The call and the peer of the RobotLink by where the      *)
(* application is, and how the numbers of requests and answers change.       *)
CallOf(at, ip) ==
    [op    |-> CASE at \in Connecting                                      -> "connect"
                 [] at \in Disconnecting                                   -> "disconnect"
                 [] at \in {"init", "initPort"}                            -> "init"
                 [] at \in {"discovery", "discoveryOff", "discoveryRecv"}  -> "discovery"
                 [] OTHER                                                  -> at,
     robot |-> IF at \in Connecting \cup Disconnecting THEN ip ELSE NoAddr,
     stage |-> CASE at \in Receiving                           -> "asked"
                 [] at = "connectInfo"                         -> "heard"
                 [] at \in {"connectSpawn", "disconnectClear"} -> "agreed"
                 [] OTHER                                      -> "new"]

PeerOf(at, ip) == IF at = "disconnectClear" \/ ip \in {NoAddr, Junk} THEN NoAddr ELSE ip
RetOf(at, rc)  == IF at = "idle" THEN rc ELSE "none"

LEMMA Mapped ==
    ASSUME Typed, Standing, Typed', Standing'
    PROVE  /\ doing = CallOf(app.at, app.call.ip) /\ doing' = CallOf(app'.at, app'.call.ip)
           /\ peer = PeerOf(app.at, info.ip) /\ peer' = PeerOf(app'.at, info'.ip)
           /\ ret = RetOf(app.at, app.ret) /\ ret' = RetOf(app'.at, app'.ret)
<1>1. doing = CallOf(app.at, app.call.ip) /\ doing' = CallOf(app'.at, app'.call.ip)
  BY DEF doing, CallOf, Receiving
<1>2. peer = PeerOf(app.at, info.ip) /\ peer' = PeerOf(app'.at, info'.ip)
  <2>1. app.at # "disconnectClear" /\ info.ip \in Robots => status # 0
    BY DEF Standing
  <2>2. app'.at # "disconnectClear" /\ info'.ip \in Robots => status' # 0
    BY DEF Standing
  <2> QED BY <2>1, <2>2 DEF peer, PeerOf
<1> QED BY <1>1, <1>2 DEF ret, RetOf

(* The stages of a call. *)
LEMMA Stages ==
    ASSUME NEW ip
    PROVE  /\ CallOf("idle", ip) = Link!Idle
           /\ \A at \in {"init", "initPort"} :
                 CallOf(at, ip) = [op |-> "init", robot |-> NoAddr, stage |-> "new"]
           /\ \A at \in {"deinit", "report"} :
                 CallOf(at, ip) = [op |-> at, robot |-> NoAddr, stage |-> "new"]
           /\ \A at \in OfSearch :
                 CallOf(at, ip) = [op |-> "discovery", robot |-> NoAddr, stage |-> "new"]
           /\ \A at \in {"connect", "connectSend", "connectLocal"} :
                 CallOf(at, ip) = [op |-> "connect", robot |-> ip, stage |-> "new"]
           /\ CallOf("connectRecv", ip) = [op |-> "connect", robot |-> ip, stage |-> "asked"]
           /\ CallOf("connectInfo", ip) = [op |-> "connect", robot |-> ip, stage |-> "heard"]
           /\ CallOf("connectSpawn", ip) = [op |-> "connect", robot |-> ip, stage |-> "agreed"]
           /\ CallOf("disconnect", ip) = [op |-> "disconnect", robot |-> ip, stage |-> "new"]
           /\ CallOf("disconnectRecv", ip) = [op |-> "disconnect", robot |-> ip, stage |-> "asked"]
           /\ CallOf("disconnectClear", ip) = [op |-> "disconnect", robot |-> ip, stage |-> "agreed"]
  BY DEF CallOf, Connecting, Disconnecting, Receiving, OfSearch, Link!Idle

LEMMA DeedFits ==
    /\ Link!Deed = Deed
    /\ \A d \in Deed : /\ Request(d) \in Datagram /\ Answer(d) \in Datagram
                       /\ Request(d).kind = d.op /\ Answer(d).kind = AckOf(d.op)
                       /\ Request(d).robot = d.robot /\ Answer(d).robot = d.robot
    /\ \A d, e \in Deed : /\ Request(d) # Answer(e)
                          /\ Request(d) = Request(e) => d = e
                          /\ Answer(d) = Answer(e) => d = e
<1>1. Link!Deed = Deed
  BY DEF Link!Deed, Deed
<1>2. AckOf("connect") = "connect_ack" /\ AckOf("disconnect") = "disconnect_ack"
  BY DEF AckOf
<1>3. \A d \in Deed : d = [op |-> d.op, robot |-> d.robot] /\ d.op \in {"connect", "disconnect"} /\ d.robot \in Robots
  BY DEF Deed
<1>4. \A d \in Deed : /\ Request(d) \in Datagram /\ Answer(d) \in Datagram
                      /\ Request(d).kind = d.op /\ Answer(d).kind = AckOf(d.op)
                      /\ Request(d).robot = d.robot /\ Answer(d).robot = d.robot
  BY <1>2, <1>3 DEF Request, Answer, Datagram, Requests, Acks
<1>5. \A d, e \in Deed : /\ Request(d) # Answer(e)
                         /\ Request(d) = Request(e) => d = e
                         /\ Answer(d) = Answer(e) => d = e
  BY <1>2, <1>3, <1>4
<1> QED BY <1>1, <1>4, <1>5

LEMMA CountsAre ==
    ASSUME WorldTyped, WorldTyped'
    PROVE  /\ asked \in [Deed -> Nat] /\ asked' \in [Deed -> Nat]
           /\ done \in [Deed -> Nat] /\ done' \in [Deed -> Nat]
           /\ \A d \in Deed : /\ asked[d] = net[Request(d)] /\ asked'[d] = net'[Request(d)]
                              /\ done[d] = net[Answer(d)] + Waiting(Answer(d))
                              /\ done'[d] = net'[Answer(d)] + Waiting(Answer(d))'
                              /\ net[Answer(d)] \in Nat /\ net'[Answer(d)] \in Nat
                              /\ Waiting(Answer(d)) \in Nat /\ Waiting(Answer(d))' \in Nat
<1>1. \A d \in Deed : Waiting(Answer(d)) \in Nat
  BY WaitingChanges
<1>2. \A d \in Deed : Waiting(Answer(d))' \in Nat
  <2> TAKE d \in Deed
  <2>1. inbox' \in Seq(Datagram) /\ Waiting(Answer(d))' = Cardinality(PlacesOf(inbox', Answer(d)))
    BY DEF WorldTyped, Waiting, PlacesOf
  <2>2. Cardinality(PlacesOf(inbox', Answer(d))) \in Nat
    BY <2>1, PlacesFinite
  <2> QED BY <2>1, <2>2
<1>3. \A d \in Deed : /\ net[Request(d)] \in Nat /\ net'[Request(d)] \in Nat
                      /\ net[Answer(d)] \in Nat /\ net'[Answer(d)] \in Nat
  BY DeedFits DEF WorldTyped
<1> HIDE DEF Waiting, Request, Answer
<1>4. asked \in [Deed -> Nat] /\ asked' \in [Deed -> Nat]
  BY <1>3 DEF asked
<1>5. done \in [Deed -> Nat]
  BY <1>1, <1>3 DEF done
<1>6. done' \in [Deed -> Nat]
  BY <1>2, <1>3 DEF done
<1> QED BY <1>1, <1>2, <1>3, <1>4, <1>5, <1>6 DEF asked, done

(* What leaves the network as it is, or takes from it, and takes from the    *)
(* inbox.                                                                    *)
Less == \A d \in Deed : net'[Request(d)] <= net[Request(d)] /\ net'[Answer(d)] <= net[Answer(d)]

LEMMA FewerWhen ==
    ASSUME WorldTyped, WorldTyped', Less,
           inbox' = inbox \/ inbox' = <<>> \/ (inbox # <<>> /\ inbox' = Tail(inbox))
    PROVE  Link!Fewer
<1>1. \A d \in Deed : Waiting(Answer(d))' <= Waiting(Answer(d))
  <2> TAKE d \in Deed
  <2>1. /\ Waiting(Answer(d)) \in Nat
        /\ inbox' = inbox => Waiting(Answer(d))' = Waiting(Answer(d))
        /\ inbox' = <<>> => Waiting(Answer(d))' = 0
        /\ inbox # <<>> /\ inbox' = Tail(inbox) =>
              /\ Head(inbox) = Answer(d) => Waiting(Answer(d))' = Waiting(Answer(d)) - 1
              /\ Head(inbox) # Answer(d) => Waiting(Answer(d))' = Waiting(Answer(d))
    BY WaitingChanges
  <2> QED BY <2>1
<1>2. \A d \in Deed : asked'[d] <= asked[d] /\ done'[d] <= done[d]
  <2> TAKE d \in Deed
  <2>1. Waiting(Answer(d))' <= Waiting(Answer(d))
    BY <1>1
  <2>2. net'[Request(d)] <= net[Request(d)] /\ net'[Answer(d)] <= net[Answer(d)]
    BY DEF Less
  <2>3. /\ asked[d] = net[Request(d)] /\ asked'[d] = net'[Request(d)]
        /\ done[d] = net[Answer(d)] + Waiting(Answer(d))
        /\ done'[d] = net'[Answer(d)] + Waiting(Answer(d))'
        /\ net[Answer(d)] \in Nat /\ net'[Answer(d)] \in Nat
        /\ Waiting(Answer(d)) \in Nat /\ Waiting(Answer(d))' \in Nat
    BY CountsAre
  <2> QED BY <2>1, <2>2, <2>3
<1> QED BY <1>2, CountsAre, DeedFits DEF Link!Fewer

LEMMA SettledWhen ==
    ASSUME WorldTyped, WorldTyped', NoneUnderWay', NoneWaiting'
    PROVE  Link!Settled'
<1>1. ASSUME NEW d \in Deed, d.op = "connect"
      PROVE  asked'[d] = 0 /\ done'[d] = 0
  <2>1. /\ Request(d) \in Datagram /\ Request(d).kind = "connect"
        /\ Answer(d) \in Datagram /\ Answer(d).kind = "connect_ack"
    BY <1>1, DeedFits DEF AckOf
  <2>2. net'[Request(d)] = 0 /\ net'[Answer(d)] = 0
    BY <2>1 DEF NoneUnderWay, OfConnect
  <2>3. \A i \in 1..Len(inbox') : inbox'[i] # Answer(d)
    BY <2>1 DEF NoneWaiting
  <2>4. Waiting(Answer(d))' = 0
    <3>1. PlacesOf(inbox', Answer(d)) = {}
      BY <2>3 DEF PlacesOf
    <3>2. Waiting(Answer(d))' = Cardinality(PlacesOf(inbox', Answer(d)))
      BY DEF Waiting, PlacesOf
    <3> QED BY <3>1, <3>2, FS_EmptySet
  <2> QED BY <2>2, <2>4, CountsAre
<1> QED BY <1>1, DeedFits DEF Link!Settled

(* The steps that keep the network and the inbox. *)
LEMMA CountsKept ==
    ASSUME WorldTyped, WorldTyped', UNCHANGED <<net, inbox>>
    PROVE  asked' = asked /\ done' = done /\ Link!Fewer
<1>1. asked' = asked /\ done' = done
  BY DEF asked, done, Waiting
<1>2. Less
  <2>1. \A d \in Deed : net[Request(d)] \in Nat /\ net[Answer(d)] \in Nat
    BY DeedFits DEF WorldTyped
  <2> QED BY <2>1 DEF Less
<1> QED BY <1>1, <1>2, FewerWhen
(* What is known before and after a step. *)
Known == Typed /\ Identity /\ Standing /\ (~Searches => Orderly)

LEMMA KnownParts ==
    ASSUME Known, Known'
    PROVE  /\ app \in AppState /\ CallFits /\ SharedTyped /\ WorldTyped /\ WorldTyped'
           /\ net \in [Datagram -> Nat] /\ inbox \in Seq(Datagram)
  BY DEF Known, Typed, TypeOK, SharedTyped, WorldTyped

(* A step between two places of the same stage, or within one, that keeps    *)
(* the peer.                                                                 *)
LEMMA Fading ==
    ASSUME Known, Known', doing' = doing, app.at # "idle" \/ app' = app, app'.at = "idle" => app' = app,
           info' = info, app.at # "disconnectClear" \/ app'.at = app.at, app'.at # "disconnectClear" \/ app'.at = app.at,
           linked' = linked, Link!Fewer
    PROVE  Link!Next
<1>1. ret' = ret /\ peer' = peer
  BY Mapped DEF Known, RetOf, PeerOf
<1> QED BY <1>1 DEF Link!Next, Link!Fade

(* A call that returns. *)
LEMMA Leaving ==
    ASSUME Known, Known', NEW rc, NEW ip, ReturnFound(rc, ip), linked' = linked, Link!Fewer
    PROVE  Link!Leave(rc) /\ peer' = PeerOf("idle", info'.ip)
<1>1. app'.at = "idle" /\ app'.ret = rc
  BY DEF ReturnFound
<1>2. doing' = Link!Idle /\ ret' = rc /\ peer' = PeerOf("idle", info'.ip)
  BY <1>1, Mapped, Stages DEF Known, RetOf
<1> QED BY <1>2 DEF Link!Leave

LEMMA BeginLinks ==
    ASSUME Known, Known', NEW c \in Calls, Begin(c)
    PROVE  Link!Next
<1>0. app \in AppState /\ WorldTyped /\ WorldTyped'
  BY KnownParts
<1>1. /\ app.at = "idle" /\ app'.at = c.op /\ app'.call = c /\ app'.ret = "none"
      /\ UNCHANGED <<info, inbox, net, linked>>
  BY <1>0 DEF Begin, AppState, globals, world
<1>2. /\ c.op \in {"init", "deinit", "connect", "disconnect", "report", "discovery"}
      /\ c.op # "discovery" => c.ip \in Robots \cup {Local}
  BY CallFields
<1>3. doing = Link!Idle
  BY <1>1, Mapped, Stages DEF Known
<1>4. doing' = CallOf(c.op, c.ip)
  BY <1>1, Mapped DEF Known
<1>5. doing' \in Link!NewCall
  <2>1. CASE c.op \in {"connect", "disconnect"}
    <3>1. doing' = [op |-> c.op, robot |-> c.ip, stage |-> "new"] /\ c.ip \in Robots \cup {Local}
      BY <1>2, <1>4, <2>1, Stages
    <3> QED BY <2>1, <3>1 DEF Link!NewCall
  <2>2. CASE c.op \in {"init", "deinit", "discovery", "report"}
    <3>1. doing' = [op |-> c.op, robot |-> NoAddr, stage |-> "new"]
      BY <1>4, <2>2, Stages DEF OfSearch
    <3> QED BY <2>2, <3>1 DEF Link!NewCall
  <2> QED BY <1>2, <2>1, <2>2
<1>6. ret' = "none" /\ peer' = peer
  BY <1>1, <1>2, Mapped DEF Known, RetOf, PeerOf
<1>7. asked' = asked /\ done' = done
  BY <1>0, <1>1, CountsKept
<1> QED BY <1>1, <1>3, <1>5, <1>6, <1>7 DEF Link!Next, Link!Begin

(* Initialize and Deinitialize. *)
LEMMA InitLinks ==
    ASSUME Known, Known', InitSockets \/ InitPort \/ Deinitialize
    PROVE  Link!Next
<1>0. app \in AppState /\ WorldTyped /\ WorldTyped' /\ net \in [Datagram -> Nat]
  BY KnownParts
<1>1. Link!Fewer
  <2>1. \A d \in Datagram : net'[d] <= net[d]
    BY <1>0 DEF InitSockets, InitPort, Deinitialize, world
  <2>2. Less
    BY <2>1, DeedFits DEF Less
  <2>3. inbox' = inbox \/ inbox' = <<>>
    BY DEF InitSockets, InitPort, Deinitialize, world
  <2> QED BY <1>0, <2>2, <2>3, FewerWhen
<1>2. linked' = linked
  BY DEF InitSockets, InitPort, Deinitialize, world
<1>3. CASE InitSockets
  <2>1. app.at = "init" /\ info' = info
    BY <1>3 DEF InitSockets
  <2>2. doing = [op |-> "init", robot |-> NoAddr, stage |-> "new"] /\ peer = PeerOf("idle", info.ip)
    BY <2>1, Mapped, Stages DEF Known, PeerOf
  <2>3. CASE Return("SOCKET_FAILED")
    <3>1. Link!Leave("SOCKET_FAILED") /\ peer' = PeerOf("idle", info'.ip)
      BY <1>1, <1>2, <2>3, Leaving DEF Return
    <3>2. Link!InitReturns("SOCKET_FAILED")
      BY <2>1, <2>2, <3>1 DEF Link!InitReturns
    <3> QED BY <3>2 DEF Link!Next, Link!Returns, Link!Codes
  <2>4. CASE Goto("initPort")
    <3>1. app'.at = "initPort"
      BY <1>0, <2>4 DEF Goto, AppState
    <3>2. doing' = doing
      BY <2>2, <3>1, Mapped, Stages DEF Known
    <3> QED BY <1>1, <1>2, <2>1, <3>1, <3>2, Fading
  <2> QED BY <1>3, <2>3, <2>4 DEF InitSockets
<1>4. CASE InitPort
  <2>1. app.at = "initPort" /\ info' = [ip |-> NoAddr, name |-> NoAddr] /\ Return("SUCCESS")
    BY <1>4 DEF InitPort
  <2>2. doing = [op |-> "init", robot |-> NoAddr, stage |-> "new"]
    BY <2>1, Mapped, Stages DEF Known
  <2>3. Link!Leave("SUCCESS") /\ peer' = PeerOf("idle", info'.ip)
    BY <1>1, <1>2, <2>1, Leaving DEF Return
  <2>4. Link!InitReturns("SUCCESS")
    BY <2>1, <2>2, <2>3 DEF Link!InitReturns, PeerOf
  <2> QED BY <2>4 DEF Link!Next, Link!Returns, Link!Codes
<1>5. CASE Deinitialize
  <2>1. app.at = "deinit" /\ info' = [ip |-> NoAddr, name |-> NoAddr] /\ Return("SUCCESS")
    BY <1>5 DEF Deinitialize
  <2>2. doing = [op |-> "deinit", robot |-> NoAddr, stage |-> "new"]
    BY <2>1, Mapped, Stages DEF Known
  <2>3. Link!Leave("SUCCESS") /\ peer' = PeerOf("idle", info'.ip)
    BY <1>1, <1>2, <2>1, Leaving DEF Return
  <2>4. Link!LocalReturns
    BY <2>1, <2>2, <2>3 DEF Link!LocalReturns, PeerOf
  <2> QED BY <2>4 DEF Link!Next
<1> QED BY <1>3, <1>4, <1>5

(* Discovery. *)
LEMMA DiscoveryLinks ==
    ASSUME Known, Known', DiscoverySend \/ DiscoveryOff \/ DiscoveryRecv
    PROVE  Link!Next
<1>0. app \in AppState /\ WorldTyped /\ WorldTyped' /\ net \in [Datagram -> Nat]
  BY KnownParts
<1>1. Link!Fewer
  <2>1. \A d \in Datagram : d.kind # "discovery" => net'[d] = net[d]
    BY DEF DiscoverySend, DiscoveryOff, DiscoveryRecv, world, Emit
  <2>2. \A d \in Deed : Request(d).kind # "discovery" /\ Answer(d).kind # "discovery"
    BY DeedFits DEF Deed, AckOf
  <2>3. Less
    BY <1>0, <2>1, <2>2, DeedFits DEF Less
  <2>4. inbox' = inbox \/ (inbox # <<>> /\ inbox' = Tail(inbox))
    BY DEF DiscoverySend, DiscoveryOff, DiscoveryRecv, world
  <2> QED BY <1>0, <2>3, <2>4, FewerWhen
<1>2. linked' = linked /\ info' = info /\ app.at \in OfSearch
  BY DEF DiscoverySend, DiscoveryOff, DiscoveryRecv, world, globals, OfSearch
<1>3. doing = [op |-> "discovery", robot |-> NoAddr, stage |-> "new"] /\ peer = PeerOf("idle", info.ip)
  BY <1>2, Mapped, Stages DEF Known, PeerOf, OfSearch
<1>4. ASSUME NEW rc \in Link!Codes, NEW ip, ReturnFound(rc, ip)
      PROVE  Link!Next
  <2>1. Link!Leave(rc) /\ peer' = PeerOf("idle", info'.ip)
    BY <1>1, <1>2, <1>4, Leaving
  <2>2. Link!DiscoveryReturns(rc)
    BY <1>2, <1>3, <2>1 DEF Link!DiscoveryReturns
  <2> QED BY <2>2 DEF Link!Next, Link!Returns
<1>5. ASSUME app'.at \in OfSearch
      PROVE  Link!Next
  <2>1. doing' = doing
    BY <1>3, <1>5, Mapped, Stages DEF Known
  <2> QED BY <1>1, <1>2, <1>5, <2>1, Fading DEF OfSearch
<1>6. {"SUCCESS", "FAILED", "SOCKET_FAILED", "SOCKET_SENDERROR", "SOCKET_NORESOURCE"} \subseteq Link!Codes
  BY DEF Link!Codes
<1>7. CASE DiscoverySend
  <2>1. CASE Goto("discoveryOff")
    BY <1>0, <1>5, <2>1 DEF Goto, AppState, OfSearch
  <2> QED BY <1>4, <1>6, <1>7, <2>1 DEF DiscoverySend, Return
<1>8. CASE DiscoveryOff
  BY <1>0, <1>5, <1>8 DEF DiscoveryOff, AppState, OfSearch
<1>9. CASE DiscoveryRecv
  <2>1. CASE app' = [app EXCEPT !.left = @ - 1]
    BY <1>0, <1>2, <1>5, <2>1 DEF AppState
  <2> QED BY <1>4, <1>6, <1>9, <2>1 DEF DiscoveryRecv, Return
<1> QED BY <1>7, <1>8, <1>9

(* Cardinality({Local, NoAddr, Junk}) = 3 says that they differ. *)
LEMMA LocalIsOwn == Local \notin {NoAddr, Junk}
<1> SUFFICES ASSUME Local \in {NoAddr, Junk} PROVE FALSE
    OBVIOUS
<1>1. {Local, NoAddr, Junk} = {NoAddr, Junk}
  OBVIOUS
<1>2. Cardinality({NoAddr, Junk}) <= 2
  <2>1. {NoAddr, Junk} = {NoAddr} \cup {Junk} /\ IsFiniteSet({NoAddr}) /\ Cardinality({NoAddr}) = 1
    BY FS_Singleton
  <2>2. Cardinality({NoAddr} \cup {Junk}) = IF Junk \in {NoAddr} THEN Cardinality({NoAddr})
                                            ELSE Cardinality({NoAddr}) + 1
    BY <2>1, FS_AddElement
  <2> QED BY <2>1, <2>2
<1> QED BY <1>1, <1>2, SessionAssumption

(* The report, and the calls with the local address. *)
LEMMA LocalLinks ==
    ASSUME Known, Known', ReportStatus \/ ConnectLocal \/ ConnectLocalDone \/ DisconnectLocal
    PROVE  Link!Next
<1>0. app \in AppState /\ WorldTyped /\ WorldTyped' /\ CallFits /\ SharedTyped
  BY KnownParts
<1>1. UNCHANGED <<net, inbox, linked>>
  BY DEF ReportStatus, ConnectLocal, ConnectLocalDone, DisconnectLocal, world
<1>2. asked' = asked /\ done' = done /\ Link!Fewer
  BY <1>0, <1>1, CountsKept
<1>3. CASE ReportStatus
  <2>1. app.at = "report" /\ info' = info
    BY <1>3 DEF ReportStatus, globals
  <2>2. doing = [op |-> "report", robot |-> NoAddr, stage |-> "new"] /\ peer = PeerOf("idle", info.ip)
    BY <2>1, Mapped, Stages DEF Known, PeerOf
  <2>3. ~bcast
    BY <2>1 DEF Known, Standing
  <2>4. ASSUME NEW rc \in Link!Codes, Return(rc), rc = "SUCCESS" => Sendable(info.ip)
        PROVE  Link!Next
    <3>1. Link!Leave(rc) /\ peer' = PeerOf("idle", info'.ip)
      BY <1>1, <1>2, <2>4, Leaving DEF Return
    <3>2. rc = "SUCCESS" => peer # NoAddr
      BY <2>2, <2>3, <2>4 DEF Sendable, PeerOf
    <3>3. Link!ReportReturns(rc)
      BY <2>1, <2>2, <3>1, <3>2 DEF Link!ReportReturns
    <3> QED BY <3>3 DEF Link!Next, Link!Returns
  <2>5. "SUCCESS" \in Link!Codes /\ "SOCKET_SENDERROR" \in Link!Codes
    BY DEF Link!Codes
  <2> QED BY <1>3, <2>4, <2>5 DEF ReportStatus
<1>4. CASE ConnectLocal
  <2>1. app.at = "connect" /\ app'.at = "connectLocal" /\ app'.call = app.call /\ app.call.ip = Local
    BY <1>0, <1>4 DEF ConnectLocal, Goto, AppState
  <2>2. info'.ip = Junk
    BY <1>0, <1>4 DEF ConnectLocal, SharedTyped
  <2>3. /\ doing = [op |-> "connect", robot |-> Local, stage |-> "new"] /\ doing' = doing
        /\ ret' = ret /\ peer' = NoAddr
    BY <2>1, <2>2, Mapped, Stages DEF Known, PeerOf, RetOf
  <2> QED BY <1>1, <1>2, <2>3 DEF Link!Next, Link!Forget
<1>5. CASE ConnectLocalDone
  <2>1. /\ app.at = "connectLocal" /\ app.call.ip = Local /\ info' = [ip |-> Local, name |-> Junk]
        /\ Return("SUCCESS")
    BY <1>5 DEF ConnectLocalDone, Known, Standing
  <2>2. doing = [op |-> "connect", robot |-> Local, stage |-> "new"]
    BY <2>1, Mapped, Stages DEF Known
  <2>3. Link!Leave("SUCCESS") /\ peer' = PeerOf("idle", info'.ip)
    BY <1>1, <1>2, <2>1, Leaving DEF Return
  <2>4. Local \notin {NoAddr, Junk}
    BY LocalIsOwn
  <2>5. Link!LocalReturns
    BY <2>1, <2>2, <2>3, <2>4 DEF Link!LocalReturns, PeerOf
  <2> QED BY <2>5 DEF Link!Next
<1>6. CASE DisconnectLocal
  <2>1. /\ app.at = "disconnect" /\ app.call.ip = Local /\ info' = [ip |-> NoAddr, name |-> NoAddr]
        /\ Return("SUCCESS")
    BY <1>6 DEF DisconnectLocal
  <2>2. doing = [op |-> "disconnect", robot |-> Local, stage |-> "new"]
    BY <2>1, Mapped, Stages DEF Known
  <2>3. Link!Leave("SUCCESS") /\ peer' = PeerOf("idle", info'.ip)
    BY <1>1, <1>2, <2>1, Leaving DEF Return
  <2>4. Link!LocalReturns
    BY <2>1, <2>2, <2>3 DEF Link!LocalReturns, PeerOf
  <2> QED BY <2>4 DEF Link!Next
<1> QED BY <1>3, <1>4, <1>5, <1>6
(* A request leaves: it is asked for once more, if the port is known. *)
LEMMA AskLinks ==
    ASSUME Known, Known', NEW kind \in {"connect", "disconnect"},
           doing = [op |-> kind, robot |-> app.call.ip, stage |-> "new"],
           doing' = [op |-> kind, robot |-> app.call.ip, stage |-> "asked"],
           app.call.ip \in Robots, Emit(kind, {app.call.ip}),
           ret' = ret, peer' = peer, inbox' = inbox, linked' = linked
    PROVE  Link!Next
<1> DEFINE own == [op |-> kind, robot |-> app.call.ip]
<1>0. WorldTyped /\ WorldTyped' /\ net \in [Datagram -> Nat]
  BY KnownParts
<1>1. Link!Own = own /\ own \in Deed
  BY DEF Link!Own, Deed
<1>2. \A e \in Datagram : net'[e] = IF e.kind = kind /\ e.robot \in {app.call.ip} /\ port # -1
                                    THEN net[e] + 1 ELSE net[e]
  BY DEF Emit
<1>3. \A d \in Deed : /\ Request(d).kind = kind /\ Request(d).robot \in {app.call.ip} <=> d = own
                      /\ Answer(d).kind # kind
  BY DeedFits DEF Deed, AckOf
<1>4. done' = done
  <2>1. \A d \in Deed : net'[Answer(d)] = net[Answer(d)]
    BY <1>2, <1>3, DeedFits
  <2> QED BY <2>1 DEF done, Waiting
<1>5. asked' \in {asked, [asked EXCEPT ![own] = @ + 1]}
  <2>1. \A d \in Deed : asked'[d] = IF d = own /\ port # -1 THEN asked[d] + 1 ELSE asked[d]
    <3> TAKE d \in Deed
    <3>1. asked[d] = net[Request(d)] /\ asked'[d] = net'[Request(d)] /\ Request(d) \in Datagram
      BY <1>0, CountsAre, DeedFits
    <3> QED BY <1>2, <1>3, <3>1
  <2>2. asked \in [Deed -> Nat] /\ asked' \in [Deed -> Nat]
    BY <1>0, CountsAre
  <2> QED BY <1>1, <2>1, <2>2
<1>6. Link!Ask
  BY <1>1, <1>4, <1>5, DeedFits DEF Link!Ask, Link!Reach
<1> QED BY <1>6 DEF Link!Next

(* A Connect that fails. *)
LEMMA ConnectFails ==
    ASSUME Known, Known', Return("SOCKET_SENDERROR"),
           app.at \in {"connectSend", "connectRecv"}, UNCHANGED <<info, inbox, net, linked>>
    PROVE  Link!Next
<1>0. WorldTyped /\ WorldTyped'
  BY KnownParts
<1>1. /\ doing.op = "connect" /\ doing.robot = app.call.ip /\ doing.stage # "agreed"
      /\ peer = PeerOf("idle", info.ip)
  BY Mapped, Stages DEF Known, PeerOf
<1>2. app.call.ip \in Robots
  BY DEF Known, Identity
<1>3. Link!Leave("SOCKET_SENDERROR") /\ peer' = PeerOf("idle", info'.ip)
  BY <1>0, CountsKept, Leaving DEF Return
<1>4. Link!Settled'
  <2>1. app'.at = "idle"
    BY DEF Return, ReturnFound
  <2>2. NoneUnderWay' /\ NoneWaiting'
    BY <2>1 DEF Known, Identity
  <2> QED BY <1>0, <2>2, SettledWhen
<1>5. Link!ConnectReturns("SOCKET_SENDERROR")
  BY <1>1, <1>2, <1>3, <1>4 DEF Link!ConnectReturns
<1> QED BY <1>5 DEF Link!Next, Link!Returns, Link!Codes

LEMMA ConnectLinks ==
    ASSUME Known, Known', ConnectPort \/ ConnectSend \/ ConnectRecv \/ ConnectInfo \/ ConnectSpawn
    PROVE  Link!Next
<1>0. app \in AppState /\ WorldTyped /\ WorldTyped' /\ inbox \in Seq(Datagram) /\ CallFits
  BY KnownParts
<1>1. ASSUME NEW at, Goto(at)
      PROVE  app'.at = at /\ app'.call = app.call
  BY <1>0, <1>1 DEF Goto, AppState
<1>2. CASE ConnectPort
  <2>1. /\ app.at = "connect" /\ app'.at = "connectSend" /\ app'.call = app.call
        /\ UNCHANGED <<info, inbox, net, linked>>
    BY <1>1, <1>2 DEF ConnectPort, globals, world
  <2>2. doing' = doing
    BY <2>1, Mapped, Stages DEF Known
  <2>3. Link!Fewer
    BY <1>0, <2>1, CountsKept
  <2> QED BY <2>1, <2>2, <2>3, Fading
<1>3. CASE ConnectSend
  <2>1. app.at = "connectSend" /\ UNCHANGED <<info, inbox, linked>> /\ app.call.ip \in Robots
    BY <1>3 DEF ConnectSend, globals, Known, Identity
  <2>2. CASE Return("SOCKET_SENDERROR") /\ UNCHANGED net
    BY <2>1, <2>2, ConnectFails
  <2>3. CASE Emit("connect", {app.call.ip}) /\ Goto("connectRecv")
    <3>1. app'.at = "connectRecv" /\ app'.call = app.call
      BY <1>1, <2>3
    <3>2. /\ doing = [op |-> "connect", robot |-> app.call.ip, stage |-> "new"]
          /\ doing' = [op |-> "connect", robot |-> app.call.ip, stage |-> "asked"]
          /\ ret' = ret /\ peer' = peer
      BY <2>1, <3>1, Mapped, Stages DEF Known, RetOf, PeerOf
    <3> QED BY <2>1, <2>3, <3>2, AskLinks
  <2> QED BY <1>3, <2>2, <2>3 DEF ConnectSend
<1>4. CASE ConnectRecv
  <2>1. /\ app.at = "connectRecv" /\ UNCHANGED <<info, net, linked>>
        /\ app.call.ip \in Robots /\ Asked
    BY <1>4 DEF ConnectRecv, Known, Identity
  <2>2. CASE Return("SOCKET_SENDERROR") /\ inbox' = inbox
    BY <2>1, <2>2, ConnectFails
  <2>3. CASE inbox # <<>> /\ inbox' = Tail(inbox)
    <3>1. Link!Fewer
      <4>1. Less
        BY <1>0, <2>1, DeedFits DEF Less, WorldTyped
      <4> QED BY <1>0, <2>3, <4>1, FewerWhen
    <3>2. CASE app' = app
      <4>1. doing' = doing
        BY <3>2, Mapped DEF Known
      <4> QED BY <2>1, <3>1, <3>2, <4>1, Fading
    <3>3. CASE Awaited(Head(inbox)) /\ app' = [app EXCEPT !.at = "connectInfo", !.name = Head(inbox).robot]
      <4> DEFINE own == [op |-> "connect", robot |-> app.call.ip]
      <4>1. app'.at = "connectInfo" /\ app'.call = app.call
        BY <1>0, <3>3 DEF AppState
      <4>2. /\ doing = [op |-> "connect", robot |-> app.call.ip, stage |-> "asked"]
            /\ doing' = [op |-> "connect", robot |-> app.call.ip, stage |-> "heard"]
            /\ ret' = ret /\ peer' = peer
        BY <2>1, <4>1, Mapped, Stages DEF Known, RetOf, PeerOf
      <4>3. Link!Own = own /\ own \in Deed
        BY <2>1, <4>2 DEF Link!Own, Deed
      <4>4. Head(inbox) = Answer(own)
        <5>1. 1 \in 1..Len(inbox) /\ inbox[1] = Head(inbox) /\ inbox[1].kind = "connect_ack"
          BY <1>0, <2>3, <3>3 DEF Awaited
        <5>2. inbox[1] = Ask("connect_ack")
          BY <2>1, <5>1 DEF Asked, OnlyOne, NoneWaiting
        <5> QED BY <5>1, <5>2 DEF Ask, Answer, AckOf
      <4>5. done[own] > 0
        <5>1. Waiting(Answer(own)) > 0
          BY <1>0, <2>3, <4>4, SomebodyWaits
        <5>2. /\ done[own] = net[Answer(own)] + Waiting(Answer(own))
              /\ net[Answer(own)] \in Nat /\ Waiting(Answer(own)) \in Nat
          BY <1>0, <4>3, CountsAre
        <5> QED BY <5>1, <5>2
      <4>6. Link!Settled'
        <5>1. NoneUnderWay' /\ NoneWaiting'
          BY <4>1 DEF Known, Identity
        <5> QED BY <1>0, <5>1, SettledWhen
      <4>7. Link!Hear
        BY <2>1, <3>1, <4>2, <4>3, <4>5, <4>6 DEF Link!Hear, Link!Reach
      <4> QED BY <4>7 DEF Link!Next
    <3> QED BY <1>4, <2>1, <2>3, <3>2, <3>3, ConnectFails DEF ConnectRecv
  <2> QED BY <1>4, <2>2, <2>3 DEF ConnectRecv
<1>5. CASE ConnectInfo
  <2>1. /\ app.at = "connectInfo" /\ app'.at = "connectSpawn" /\ app'.call = app.call
        /\ app.call.ip \in Robots /\ info'.ip = app.call.ip /\ UNCHANGED <<inbox, net, linked>>
    BY <1>1, <1>5 DEF ConnectInfo, world, Known, Identity
  <2>2. app.call.ip \notin {NoAddr, Junk}
    BY <2>1, SessionAssumption
  <2>3. /\ doing = [op |-> "connect", robot |-> app.call.ip, stage |-> "heard"]
        /\ doing' = [op |-> "connect", robot |-> app.call.ip, stage |-> "agreed"]
        /\ ret' = ret /\ peer' = app.call.ip
    BY <2>1, <2>2, Mapped, Stages DEF Known, RetOf, PeerOf
  <2>4. asked' = asked /\ done' = done
    BY <1>0, <2>1, CountsKept
  <2>5. Link!Join
    BY <2>1, <2>3, <2>4 DEF Link!Join, Link!Reach
  <2> QED BY <2>5 DEF Link!Next
<1>6. CASE ConnectSpawn
  <2>1. /\ app.at = "connectSpawn" /\ Return("SUCCESS") /\ app.call.ip \in Robots
        /\ UNCHANGED <<info, inbox, net, linked>>
    BY <1>6 DEF ConnectSpawn, globals, world, Known, Standing
  <2>2. /\ doing.op = "connect" /\ doing.robot = app.call.ip /\ doing.stage = "agreed"
        /\ peer = PeerOf("idle", info.ip)
    BY <2>1, Mapped, Stages DEF Known, PeerOf
  <2>3. Link!Leave("SUCCESS") /\ peer' = PeerOf("idle", info'.ip)
    BY <1>0, <2>1, CountsKept, Leaving DEF Return
  <2>4. Link!Settled'
    <3>1. app'.at = "idle"
      BY <2>1 DEF Return, ReturnFound
    <3>2. NoneUnderWay' /\ NoneWaiting'
      BY <3>1 DEF Known, Identity
    <3> QED BY <1>0, <3>2, SettledWhen
  <2>5. Link!ConnectReturns("SUCCESS")
    BY <2>1, <2>2, <2>3, <2>4 DEF Link!ConnectReturns
  <2> QED BY <2>5 DEF Link!Next, Link!Returns, Link!Codes
<1> QED BY <1>2, <1>3, <1>4, <1>5, <1>6

(* A Disconnect that returns. *)
LEMMA DisconnectLeaves ==
    ASSUME Known, Known', NEW rc \in Link!Codes, Return(rc), app.call.ip \in Robots,
           \/ app.at \in {"disconnect", "disconnectRecv"} /\ rc # "SUCCESS" /\ info' = info
           \/ app.at = "disconnectClear" /\ rc = "SUCCESS" /\ info'.ip = NoAddr,
           net' = net, inbox' = inbox \/ (inbox # <<>> /\ inbox' = Tail(inbox)), linked' = linked
    PROVE  Link!Next
<1>0. WorldTyped /\ WorldTyped'
  BY KnownParts
<1>1. /\ doing.op = "disconnect" /\ doing.robot = app.call.ip
      /\ doing.stage = "agreed" <=> rc = "SUCCESS"
      /\ peer = PeerOf("idle", info'.ip)
  BY Mapped, Stages DEF Known, PeerOf
<1>2. Link!Fewer
  <2>1. Less
    BY <1>0, DeedFits DEF Less, WorldTyped
  <2> QED BY <1>0, <2>1, FewerWhen
<1>3. Link!Leave(rc) /\ peer' = PeerOf("idle", info'.ip)
  BY <1>2, Leaving DEF Return
<1>4. Link!DisconnectReturns(rc)
  BY <1>1, <1>3 DEF Link!DisconnectReturns
<1> QED BY <1>4 DEF Link!Next, Link!Returns

LEMMA DisconnectLinks ==
    ASSUME Known, Known', DisconnectSend \/ DisconnectRecv \/ DisconnectClear
    PROVE  Link!Next
<1>0. app \in AppState /\ WorldTyped /\ WorldTyped' /\ inbox \in Seq(Datagram) /\ CallFits
  BY KnownParts
<1>1. ASSUME NEW at, Goto(at)
      PROVE  app'.at = at /\ app'.call = app.call
  BY <1>0, <1>1 DEF Goto, AppState
<1>2. {"SUCCESS", "FAILED", "SOCKET_SENDERROR"} \subseteq Link!Codes
  BY DEF Link!Codes
<1>3. CASE DisconnectSend
  <2>1. app.at = "disconnect" /\ UNCHANGED <<info, inbox, linked>> /\ app.call.ip \in Robots
    BY <1>0, <1>3 DEF DisconnectSend, globals, CallFits, OfRobot
  <2>2. CASE Return("SOCKET_SENDERROR") /\ UNCHANGED net
    BY <1>2, <2>1, <2>2, DisconnectLeaves
  <2>3. CASE Emit("disconnect", {app.call.ip}) /\ Goto("disconnectRecv")
    <3>1. app'.at = "disconnectRecv" /\ app'.call = app.call
      BY <1>1, <2>3
    <3>2. /\ doing = [op |-> "disconnect", robot |-> app.call.ip, stage |-> "new"]
          /\ doing' = [op |-> "disconnect", robot |-> app.call.ip, stage |-> "asked"]
          /\ ret' = ret /\ peer' = peer
      BY <2>1, <3>1, Mapped, Stages DEF Known, RetOf, PeerOf
    <3> QED BY <2>1, <2>3, <3>2, AskLinks
  <2> QED BY <1>3, <2>2, <2>3 DEF DisconnectSend
<1>4. CASE DisconnectRecv
  <2>1. /\ app.at = "disconnectRecv" /\ UNCHANGED <<info, net, linked>> /\ app.call.ip \in Robots
    BY <1>4 DEF DisconnectRecv, Known, Standing
  <2>2. CASE Return("SOCKET_SENDERROR") /\ inbox' = inbox
    BY <1>2, <2>1, <2>2, DisconnectLeaves
  <2>3. CASE inbox # <<>> /\ inbox' = Tail(inbox) /\ Return("FAILED")
    BY <1>2, <2>1, <2>3, DisconnectLeaves
  <2>4. CASE inbox # <<>> /\ inbox' = Tail(inbox) /\ Head(inbox).kind = "disconnect_ack"
             /\ Goto("disconnectClear")
    <3> DEFINE own == [op |-> "disconnect", robot |-> app.call.ip]
    <3>1. app'.at = "disconnectClear" /\ app'.call = app.call
      BY <1>1, <2>4
    <3>2. /\ doing = [op |-> "disconnect", robot |-> app.call.ip, stage |-> "asked"]
          /\ doing' = [op |-> "disconnect", robot |-> app.call.ip, stage |-> "agreed"]
          /\ ret' = ret /\ peer' = NoAddr
      BY <2>1, <3>1, Mapped, Stages DEF Known, RetOf, PeerOf
    <3>3. Link!Own = own
      BY <3>2 DEF Link!Own
    <3>4. Head(inbox) \in Datagram
      BY <1>0, <2>4
    <3>5. PICK gone \in Deed : /\ gone = [op |-> "disconnect", robot |-> Head(inbox).robot]
                              /\ Answer(gone) = Head(inbox) /\ gone.op = "disconnect"
      <4>1. PICK r \in Robots : Head(inbox) = [kind |-> "disconnect_ack", robot |-> r]
        BY <2>4, <3>4 DEF Datagram
      <4>2. [op |-> "disconnect", robot |-> r] \in Deed
        BY DEF Deed
      <4>3. Answer([op |-> "disconnect", robot |-> r]) = Head(inbox) /\ Head(inbox).robot = r
        BY <4>1 DEF Answer, AckOf
      <4> QED BY <4>2, <4>3
    <3>6. ~Searches => gone = own
      BY <2>1, <2>4, <3>5 DEF Known, Orderly, Exchange, Ask
    <3>7. done[gone] > 0 /\ \A d \in Deed : done'[d] = IF d = gone THEN done[d] - 1 ELSE done[d]
      <4>1. \A d \in Deed : d # gone => Answer(d) # Head(inbox)
        BY <3>5, DeedFits
      <4>2. /\ Waiting(Answer(gone)) > 0
            /\ Waiting(Answer(gone))' = Waiting(Answer(gone)) - 1
            /\ \A d \in Deed : d # gone => Waiting(Answer(d))' = Waiting(Answer(d))
        <5>1. /\ Head(inbox) = Answer(gone) => Waiting(Answer(gone)) > 0
                                               /\ Waiting(Answer(gone))' = Waiting(Answer(gone)) - 1
          BY <1>0, <2>4, WaitingChanges
        <5>2. ASSUME NEW d \in Deed, d # gone
              PROVE  Waiting(Answer(d))' = Waiting(Answer(d))
          <6>1. Head(inbox) # Answer(d) => Waiting(Answer(d))' = Waiting(Answer(d))
            BY <1>0, <2>4, WaitingChanges
          <6> QED BY <4>1, <5>2, <6>1
        <5> QED BY <3>5, <5>1, <5>2
      <4>3. \A d \in Deed : /\ done[d] = net[Answer(d)] + Waiting(Answer(d))
                            /\ done'[d] = net[Answer(d)] + Waiting(Answer(d))'
                            /\ net[Answer(d)] \in Nat /\ Waiting(Answer(d)) \in Nat
        BY <1>0, <2>1, CountsAre
      <4>4. \A d \in Deed : Waiting(Answer(d)) \in Nat /\ net[Answer(d)] \in Nat
        BY <4>3
      <4>5. done[gone] > 0 /\ done'[gone] = done[gone] - 1
        BY <3>5, <4>2, <4>3, <4>4
      <4>6. \A d \in Deed : d # gone => done'[d] = done[d]
        BY <4>2, <4>3
      <4> QED BY <4>5, <4>6
    <3>8. done' = [done EXCEPT ![gone] = @ - 1]
      BY <1>0, <3>5, <3>7, CountsAre
    <3>9. asked' = asked
      BY <2>1 DEF asked
    <3> HIDE DEF own
    <3>10. Link!Part
      <4>1. \E d \in Link!Deed : /\ d.op = "disconnect" /\ done[d] > 0
                                 /\ Searches \/ d = Link!Own
                                 /\ done' = [done EXCEPT ![d] = @ - 1]
        BY <3>3, <3>5, <3>6, <3>7, <3>8, DeedFits
      <4>2. doing.op = "disconnect" /\ doing.stage = "asked" /\ Link!Reach("agreed")
        BY <2>1, <3>1, <3>2, Mapped DEF Link!Reach, Known, RetOf
      <4> QED BY <3>2, <3>9, <4>1, <4>2 DEF Link!Part
    <3> QED BY <3>10 DEF Link!Next
  <2> QED BY <1>4, <2>2, <2>3, <2>4 DEF DisconnectRecv
<1>5. CASE DisconnectClear
  <2>1. /\ app.at = "disconnectClear" /\ Return("SUCCESS") /\ info' = [ip |-> NoAddr, name |-> NoAddr]
        /\ app.call.ip \in Robots /\ UNCHANGED <<inbox, net, linked>>
    BY <1>5 DEF DisconnectClear, world, Known, Standing
  <2> QED BY <1>2, <2>1, DisconnectLeaves
<1> QED BY <1>3, <1>4, <1>5
(* The robots and the network. *)
LEMMA AnswerLinks ==
    ASSUME "refuse" \notin Faults, Known, Known', NEW a \in Datagram, RobotAnswers(a)
    PROVE  Link!Next
<1>0. WorldTyped /\ WorldTyped' /\ net \in [Datagram -> Nat]
  BY KnownParts
<1>1. /\ net[a] > 0 /\ a.kind \in Requests /\ UNCHANGED <<app, info, inbox, status>>
      /\ net' = [net EXCEPT ![a] = @ - 1, ![[a EXCEPT !.kind = AckOf(a.kind)]] = @ + 1]
  BY DEF RobotAnswers, globals
<1>2. doing' = doing /\ peer' = peer /\ ret' = ret
  BY <1>1, Mapped DEF Known
<1>3. CASE a.kind = "discovery"
  <2>1. \A e \in Datagram : e.kind \notin {"discovery", "discovery_ack"} => net'[e] = net[e]
    <3> DEFINE b == [a EXCEPT !.kind = AckOf(a.kind)]
    <3>1. b \in Datagram /\ b.kind = "discovery_ack"
      BY <1>3 DEF Datagram, Requests, Acks, AckOf
    <3>2. \A e \in Datagram : e \notin {a, b} => net'[e] = net[e]
      BY <1>0, <1>1
    <3> QED BY <1>3, <3>1, <3>2
  <2>2. \A d \in Deed : /\ Request(d).kind \notin {"discovery", "discovery_ack"}
                        /\ Answer(d).kind \notin {"discovery", "discovery_ack"}
    BY DeedFits DEF Deed, AckOf
  <2>3. Less
    BY <1>0, <2>1, <2>2, DeedFits DEF Less
  <2>4. Link!Fewer
    BY <1>0, <1>1, <2>3, FewerWhen
  <2>5. linked' = linked
    BY <1>3 DEF RobotAnswers
  <2> QED BY <1>2, <2>4, <2>5 DEF Link!Next, Link!Fade
<1>4. CASE a.kind \in {"connect", "disconnect"}
  <2>1. PICK x \in Deed : x = [op |-> a.kind, robot |-> a.robot]
    BY <1>4 DEF Deed, Datagram
  <2>2. Request(x) = a /\ Answer(x) = [a EXCEPT !.kind = AckOf(a.kind)]
    BY <2>1 DEF Request, Answer, Datagram
  <2>3. net' = [net EXCEPT ![Request(x)] = @ - 1, ![Answer(x)] = @ + 1]
    BY <1>1, <2>2
  <2>4. \A e \in Datagram : net'[e] = IF e = Request(x) THEN net[e] - 1
                                      ELSE IF e = Answer(x) THEN net[e] + 1 ELSE net[e]
    BY <1>0, <2>3, DeedFits
  <2>5. \A d \in Deed : /\ net'[Request(d)] = IF d = x THEN net[Request(d)] - 1 ELSE net[Request(d)]
                        /\ net'[Answer(d)] = IF d = x THEN net[Answer(d)] + 1 ELSE net[Answer(d)]
    BY <2>4, DeedFits
  <2>6. \A d \in Deed : Waiting(Answer(d))' = Waiting(Answer(d))
    BY <1>1 DEF Waiting
  <2>7. asked[x] > 0
    BY <1>0, <1>1, <2>2, CountsAre
  <2>8. \A d \in Deed : asked'[d] = IF d = x THEN asked[d] - 1 ELSE asked[d]
    BY <1>0, <2>5, CountsAre
  <2>9. \A d \in Deed : done'[d] = IF d = x THEN done[d] + 1 ELSE done[d]
    <3> TAKE d \in Deed
    <3>1. /\ done[d] = net[Answer(d)] + Waiting(Answer(d))
          /\ done'[d] = net'[Answer(d)] + Waiting(Answer(d))'
          /\ net[Answer(d)] \in Nat /\ Waiting(Answer(d)) \in Nat
      BY <1>0, CountsAre
    <3> QED BY <2>5, <2>6, <3>1
  <2>10. asked' = [asked EXCEPT ![x] = @ - 1] /\ done' = [done EXCEPT ![x] = @ + 1]
    BY <1>0, <2>8, <2>9, CountsAre
  <2>11. linked' = IF x.op = "connect" THEN linked \cup {x.robot} ELSE linked \ {x.robot}
    BY <1>4, <2>1 DEF RobotAnswers
  <2>12. Link!Perform(x) /\ x \in Link!Deed
    BY <1>2, <2>7, <2>10, <2>11, DeedFits DEF Link!Perform
  <2> QED BY <2>12 DEF Link!Next
<1> QED BY <1>1, <1>3, <1>4 DEF Requests

LEMMA DeliverLinks ==
    ASSUME Known, Known', NEW a \in Datagram, Deliver(a) \/ Lose(a)
    PROVE  Link!Next
<1>0. WorldTyped /\ WorldTyped' /\ net \in [Datagram -> Nat]
  BY KnownParts
<1>1. /\ net[a] > 0 /\ UNCHANGED <<app, info, linked>>
      /\ net' = [net EXCEPT ![a] = @ - 1]
      /\ inbox' = inbox \/ (Deliver(a) /\ inbox' = Append(inbox, a))
  BY DEF Deliver, Lose, globals
<1>2. doing' = doing /\ peer' = peer /\ ret' = ret
  BY <1>1, Mapped DEF Known
<1>3. \A e \in Datagram : net'[e] = IF e = a THEN net[e] - 1 ELSE net[e]
  BY <1>0, <1>1
<1>4. Less
  BY <1>0, <1>3, DeedFits DEF Less
<1>5. CASE inbox' = inbox
  <2>1. Link!Fewer
    BY <1>0, <1>4, <1>5, FewerWhen
  <2> QED BY <1>1, <1>2, <2>1 DEF Link!Next, Link!Fade
<1>6. CASE inbox' = Append(inbox, a)
  <2>1. \A d \in Deed : asked'[d] <= asked[d] /\ done'[d] <= done[d]
    <3> TAKE d \in Deed
    <3>1. Waiting(Answer(d))' = IF a = Answer(d) THEN Waiting(Answer(d)) + 1 ELSE Waiting(Answer(d))
      BY <1>0, <1>6, WaitingChanges
    <3>2. /\ asked[d] = net[Request(d)] /\ asked'[d] = net'[Request(d)]
          /\ done[d] = net[Answer(d)] + Waiting(Answer(d))
          /\ done'[d] = net'[Answer(d)] + Waiting(Answer(d))'
          /\ net[Answer(d)] \in Nat /\ Waiting(Answer(d)) \in Nat
      BY <1>0, CountsAre
    <3>3. net'[Request(d)] <= net[Request(d)]
      BY <1>4 DEF Less
    <3>4. net'[Answer(d)] = IF a = Answer(d) THEN net[Answer(d)] - 1 ELSE net[Answer(d)]
      BY <1>3, DeedFits
    <3> QED BY <3>1, <3>2, <3>3, <3>4
  <2>2. Link!Fewer
    BY <1>0, <2>1, CountsAre, DeedFits DEF Link!Fewer
  <2> QED BY <1>1, <1>2, <2>2 DEF Link!Next, Link!Fade
<1> QED BY <1>1, <1>5, <1>6

LEMMA LinkInit ==
    ASSUME Init
    PROVE  Link!Init
<1>1. app.at = "idle" /\ app.ret = "none" /\ info.ip = NoAddr /\ inbox = <<>> /\ linked = {}
  BY DEF Init
<1>2. doing = Link!Idle
  BY <1>1 DEF doing, Connecting, Disconnecting, Link!Idle
<1>3. ret = "none" /\ peer = NoAddr
  BY <1>1 DEF ret, peer
<1>4. asked = [d \in Deed |-> 0]
  BY DeedFits DEF asked, Init
<1>5. \A d \in Deed : net[Answer(d)] = 0 /\ Waiting(Answer(d)) = 0
  <2> TAKE d \in Deed
  <2>1. {i \in 1..Len(inbox) : inbox[i] = Answer(d)} = {}
    BY <1>1
  <2> QED BY <2>1, FS_EmptySet, DeedFits DEF Waiting, Init
<1>6. done = [d \in Deed |-> 0]
  BY <1>5 DEF done
<1> QED BY <1>1, <1>2, <1>3, <1>4, <1>6, DeedFits DEF Link!Init

LEMMA LinkNext ==
    ASSUME "refuse" \notin Faults, Known, Known', [Next]_vars
    PROVE  [Link!Next]_(Link!lvars)
<1>0. WorldTyped /\ WorldTyped'
  BY KnownParts
<1>1. CASE \E c \in Calls : Begin(c)
  BY <1>1, BeginLinks
<1>2. CASE AppStep
  BY <1>2, InitLinks, DiscoveryLinks, LocalLinks, ConnectLinks, DisconnectLinks DEF AppStep
<1>3. CASE NetStep
  BY <1>3, AnswerLinks, DeliverLinks DEF NetStep
<1>4. CASE (\E h \in Beats : BeatStep(h)) \/ UNCHANGED vars
  <2>1. UNCHANGED <<app, info, inbox, net, linked>>
    BY <1>4 DEF BeatStep, BeatCheck, BeatLock, BeatSend, BeatWake, BeatExit, globals, world, vars
  <2>2. doing' = doing /\ peer' = peer /\ ret' = ret
    BY <2>1, Mapped DEF Known
  <2>3. asked' = asked /\ done' = done
    BY <1>0, <2>1, CountsKept
  <2> QED BY <2>1, <2>2, <2>3 DEF Link!lvars
<1> QED BY <1>1, <1>2, <1>3, <1>4 DEF Next

(* The calls of the session are those of a RobotLink, for any robots,        *)
(* threads and calls, whatever is lost and whichever sockets and threads     *)
(* fail, as long as no answer comes after the receive timeout and no robot   *)
(* acknowledges what it does not carry out (RobotMsg.c:2564-2572, 2651-      *)
(* 2659); and, where the application searches, as long as Discovery's send   *)
(* does not fail and leave SO_BROADCAST on, with which a report to nobody is *)
(* sent (RobotApi.c:2259-2565, 3020-3083).                                   *)
THEOREM SessionIsLink ==
    ASSUME {"late", "refuse"} \cap Faults = {}, Searches => "send" \notin Faults
    PROVE  Spec => ImplementsLink
<1>1. Init => Typed /\ Identity /\ Standing /\ Orderly
  <2> SUFFICES ASSUME Init PROVE Typed /\ Identity /\ Standing /\ Orderly
      OBVIOUS
  <2>1. Identity
    BY SessionAssumption DEF Init, Identity, NoneUnderWay, NoneWaiting
  <2>2. Standing
    BY SessionAssumption DEF Init, Standing, OfSearch
  <2>3. Orderly
    BY DEF Init, Orderly, Receiving, Quiet
  <2> QED BY <2>1, <2>2, <2>3, TypedInit
<1>0. "late" \notin Faults /\ "refuse" \notin Faults
  OBVIOUS
<1>2. Known /\ [Next]_vars => Known'
  <2> SUFFICES ASSUME Known, [Next]_vars PROVE Known'
      OBVIOUS
  <2>1. Typed' /\ Identity'
    BY <1>0, TypedNext, IdentityNext DEF Known
  <2>2. Standing'
    BY StandingNext DEF Known
  <2>3. ~Searches => Orderly'
    BY OrderlyNext DEF Known
  <2>4. Searches' = Searches
    BY DEF Searches
  <2> QED BY <2>1, <2>2, <2>3, <2>4 DEF Known
<1>3. Init => Known
  BY <1>1 DEF Known
<1>4. Init => Link!Init
  BY LinkInit
<1>5. Known /\ Known' /\ [Next]_vars => [Link!Next]_(Link!lvars)
  BY <1>0, LinkNext
<1> QED BY <1>2, <1>3, <1>4, <1>5, PTL DEF Spec, ImplementsLink, Link!Spec
=============================================================================
