----------------------------- MODULE SdkSession -----------------------------
(***************************************************************************)
(* The connection between the SDK and a robot: ubtRobotInitialize,         *)
(* ubtRobotDiscovery, ubtRobotConnect, ubtRobotDisconnect,                 *)
(* ubtReportStatusToApp and ubtRobotDeinitialize of src/src/RobotApi.c,    *)
(* the globals they share (RobotApi.c:118-132) and the heartbeat threads   *)
(* that ubtRobotConnect starts (_ubtTimerTimeout).                         *)
(*                                                                         *)
(* One application thread calls the API, one call at a time, as the        *)
(* comment at RobotApi.c:468 supposes.  Every heartbeat thread runs beside *)
(* it.  A step is what happens between two points where another thread or  *)
(* the network can matter: a wait for the mutex, a send, a receive, an     *)
(* unlocked write that a heartbeat thread can observe.                     *)
(*                                                                         *)
(* The robots and the UDP network are not in the repository; they are      *)
(* modelled from how the API uses them.                                    *)
(***************************************************************************)
EXTENDS Integers, Sequences, FiniteSets

CONSTANTS
    Robots,     \* the robots of the subnet; a robot stands for its IP and its name
    Local,      \* SDK_LOCAL_IP, "127.0.0.1"
    NoAddr,     \* the empty string (in an address or a name)
    Junk,       \* an indeterminate string: never written, or half overwritten
    Beats,      \* heartbeat threads: at most Cardinality(Beats) alive (a bound)
    Nobody,     \* nobody holds the mutex
    Fds,        \* the descriptors the process may have open (a bound, as EMFILE is)
    Calls,      \* the calls the application makes
    Faults,     \* what may go wrong around the SDK, a subset of AllFaults
    RxBuf,      \* datagrams the receive buffer of a socket holds; the kernel drops the rest
    MaxUnderWay \* the application calls only while fewer datagrams are under way (a bound)

AllFaults ==
    {"loss",       \* a datagram is lost
     "late",       \* an answer may come after the receive timeout of 3 s
     "socket",     \* socket, bind or the wlan0 ioctl fails
     "setsockopt", \* SO_RCVTIMEO cannot be set
     "send",       \* sendto fails
     "thread",     \* pthread_create fails
     "refuse"}     \* a robot may acknowledge a request and not carry it out

Call == [op : {"init", "deinit", "connect", "disconnect", "report"}, ip : Robots \cup {Local}]
          \cup [op : {"discovery"}, name : Robots \cup {NoAddr}, max : Nat]

ASSUME SessionAssumption ==
    /\ Fds \subseteq Nat /\ IsFiniteSet(Fds)
    /\ Calls \subseteq Call
    /\ Faults \subseteq AllFaults
    /\ RxBuf \in Nat \ {0} /\ MaxUnderWay \in Nat
    /\ Nobody \notin Beats
    /\ Cardinality({Local, NoAddr, Junk}) = 3
    /\ Robots \cap {Local, NoAddr, Junk} = {}

VARIABLES
    rxFd,     \* g_iRobot2SDK
    txFd,     \* g_iSDK2Robot
    port,     \* g_iSDK2RobotPort: -1 or SDK_REMOTE_SOCKET_PORT
    bcast,    \* SO_BROADCAST of txFd
    status,   \* g_iConnectingStatus
    info,     \* g_stConnectedRobotInfo
    mutex,    \* stMutex: is it initialised, and who holds it
    app,      \* the application thread: where it is in which call
    hb,       \* heartbeat thread -> where it is
    hbIp,     \* heartbeat thread -> its local acIPAddr
    fds,      \* the open descriptors
    inbox,    \* the datagrams waiting at rxFd
    net,      \* datagram -> copies under way
    linked,   \* the robots that hold themselves connected to this SDK
    failed    \* some call has not returned UBTEDU_RC_SUCCESS (history)

globals == <<rxFd, txFd, port, bcast, status, info, mutex, fds>>
threads == <<hb, hbIp>>
world   == <<inbox, net, linked>>
vars    == <<globals, app, threads, world, failed>>

-----------------------------------------------------------------------------
SDK_REMOTE_SOCKET_PORT == 20001

Addr == Robots \cup {Local, NoAddr, Junk}

Requests == {"discovery", "connect", "disconnect"}
Acks     == {"discovery_ack", "connect_ack", "disconnect_ack"}
Datagram == [kind : Requests \cup Acks, robot : Robots]

(* The answer of a robot to each request. *)
AckOf(kind) == CASE kind = "discovery"  -> "discovery_ack"
                 [] kind = "connect"    -> "connect_ack"
                 [] kind = "disconnect" -> "disconnect_ack"

NoCall == [op |-> "none"]

AppAt == {"idle", "init", "initPort", "deinit", "report",
          "discovery", "discoveryOff", "discoveryRecv",
          "connect", "connectSend", "connectRecv", "connectInfo", "connectSpawn", "connectLocal",
          "disconnect", "disconnectRecv", "disconnectClear"}
BeatAt == {"none", "check", "lock", "send", "sleep", "exit"}

(* UBTEDU_RC_T: what these calls return. *)
Returned == {"none", "SUCCESS", "FAILED", "SOCKET_FAILED", "SOCKET_SENDERROR", "SOCKET_NORESOURCE"}

AppState == [at : AppAt, call : Calls \cup {NoCall}, left : Nat, name : Addr, found : Addr, ret : Returned]

(* The function is called with every argument non-NULL, and the JSON of the  *)
(* request fits in the buffer: the early returns for those are not steps.    *)
Init ==
    /\ rxFd = -1 /\ txFd = -1 /\ port = -1 /\ bcast = FALSE
    /\ status = 0
    /\ info = [ip |-> NoAddr, name |-> NoAddr]
    /\ mutex = [ok |-> TRUE, owner |-> Nobody]     \* static storage: PTHREAD_MUTEX_INITIALIZER
    /\ app = [at |-> "idle", call |-> NoCall, left |-> 0, name |-> NoAddr, found |-> NoAddr,
              ret |-> "none"]
    /\ hb = [h \in Beats |-> "none"]
    /\ hbIp = [h \in Beats |-> NoAddr]
    /\ fds = {}
    /\ inbox = <<>>
    /\ net = [d \in Datagram |-> 0]
    /\ linked = {}
    /\ failed = FALSE

-----------------------------------------------------------------------------
(* Helpers *)

(* Locking a destroyed mutex fails with EINVAL, which no caller looks at.    *)
CanLock == mutex.ok => mutex.owner = Nobody

(* The lowest free descriptor, as the kernel gives it. *)
FreeFd == CHOOSE f \in Fds \ fds : \A g \in Fds \ fds : f <= g

(* sendto on txFd: inet_addr makes 255.255.255.255 of what is no address,    *)
(* which the kernel refuses unless SO_BROADCAST is set.                      *)
Sendable(ip) == txFd # -1 /\ (ip \in {NoAddr, Junk} => bcast)

(* A datagram of this kind leaves for the robots of rs. *)
Emit_Twice(kind, rs) ==      \* mutant: the request is sent again
    net' = [d \in Datagram |-> IF d.kind = kind /\ d.robot \in rs /\ port # -1
                               THEN net[d] + 2 ELSE net[d]]

Emit(kind, rs) ==
    net' = [d \in Datagram |-> IF d.kind = kind /\ d.robot \in rs /\ port # -1
                               THEN net[d] + 1 ELSE net[d]]

UnderWay == \E d \in Datagram : net[d] > 0

(* recvfrom on rxFd returns -1: nothing came in time, or there is no socket. *)
RecvFails_NoTimeout == rxFd = -1      \* mutant: SO_RCVTIMEO is not set

RecvFails ==
    \/ rxFd = -1
    \/ inbox = <<>> /\ (UnderWay => "late" \in Faults)

Goto(at) == app' = [app EXCEPT !.at = at]

ReturnFound(rc, ip) ==
    /\ app' = [at |-> "idle", call |-> NoCall, left |-> 0, name |-> NoAddr, found |-> ip, ret |-> rc]
    /\ failed' = (failed \/ rc # "SUCCESS")

Return(rc) == ReturnFound(rc, NoAddr)

-----------------------------------------------------------------------------
(* The application calls.  It initialises before it deinitialises and in     *)
(* turn, as every example program does.                                      *)

InTurn(c) ==
    CASE c.op = "init"    -> rxFd = -1
      [] c.op = "deinit"  -> rxFd # -1
      [] c.op = "connect" -> c.ip # Local /\ "thread" \notin Faults      \* the bound on threads
                                => \E h \in Beats : hb[h] = "none"
      [] OTHER            -> TRUE

Begin(c) ==
    /\ app.at = "idle"
    /\ InTurn(c)
    /\ Cardinality({d \in Datagram : net[d] > 0}) < MaxUnderWay
    /\ \A d \in Datagram : net[d] < 2
    /\ app' = [app EXCEPT !.at = c.op, !.call = c, !.found = NoAddr, !.ret = "none"]
    /\ UNCHANGED <<globals, threads, world, failed>>

-----------------------------------------------------------------------------
(* ubtRobotInitialize: a fresh mutex, the receiving socket, the sending      *)
(* socket, the port.  A failure in between leaves what is already there; a   *)
(* receiving socket whose timeout cannot be set is left open and forgotten   *)
(* by _udpServerInit.                                                        *)

InitSockets ==
    /\ app.at = "init"
    /\ mutex' = [ok |-> TRUE, owner |-> Nobody]
    /\ \/ /\ Fds = fds \/ "socket" \in Faults
          /\ Return("SOCKET_FAILED")
          /\ UNCHANGED <<rxFd, txFd, fds, inbox>>
       \/ /\ fds # Fds /\ "setsockopt" \in Faults
          /\ fds' = fds \cup {FreeFd}
          /\ Return("SOCKET_FAILED")
          /\ UNCHANGED <<rxFd, txFd, inbox>>
       \/ /\ fds # Fds
          /\ rxFd' = FreeFd
          /\ inbox' = <<>>
          /\ \/ /\ Fds = fds \cup {FreeFd} \/ "socket" \in Faults
                /\ fds' = fds \cup {FreeFd}
                /\ Return("SOCKET_FAILED")
                /\ UNCHANGED txFd
             \/ \E f \in Fds \ (fds \cup {FreeFd}) :
                   /\ \A g \in Fds \ (fds \cup {FreeFd}) : f <= g
                   /\ txFd' = f
                   /\ fds' = fds \cup {FreeFd, f}
                   /\ Goto("initPort")
                   /\ UNCHANGED failed
    /\ UNCHANGED <<port, bcast, status, info, threads, net, linked>>

InitPort_Swapped ==      \* mutant: the other socket's number is stored as the port
    /\ app.at = "initPort"
    /\ CanLock
    /\ port' = rxFd
    /\ info' = [ip |-> NoAddr, name |-> NoAddr]
    /\ Return("SUCCESS")
    /\ UNCHANGED <<rxFd, txFd, bcast, status, mutex, fds, threads, world>>

InitPort ==
    /\ app.at = "initPort"
    /\ CanLock
    /\ port' = SDK_REMOTE_SOCKET_PORT
    /\ info' = [ip |-> NoAddr, name |-> NoAddr]
    /\ Return("SUCCESS")
    /\ UNCHANGED <<rxFd, txFd, bcast, status, mutex, fds, threads, world>>

CloseSockets_One == fds' = fds \ {rxFd}      \* mutant: one socket stays open
CloseSockets == fds' = fds \ {rxFd, txFd}

(* ubtRobotDeinitialize.  It does not touch g_iConnectingStatus, and         *)
(* destroying a mutex that is held fails (EBUSY).  An answer still under way *)
(* goes to the old port: lost, unless the next socket draws the same one.    *)
Deinitialize ==
    /\ app.at = "deinit"
    /\ CloseSockets
    /\ rxFd' = -1 /\ txFd' = -1 /\ port' = -1 /\ bcast' = FALSE
    /\ info' = [ip |-> NoAddr, name |-> NoAddr]
    /\ mutex' = IF mutex.owner = Nobody THEN [mutex EXCEPT !.ok = FALSE] ELSE mutex
    /\ inbox' = <<>>
    /\ \/ UNCHANGED net
       \/ net' = [d \in Datagram |-> IF d.kind \in Acks THEN 0 ELSE net[d]]
    /\ Return("SUCCESS")
    /\ UNCHANGED <<status, threads, linked>>

-----------------------------------------------------------------------------
(* ubtRobotDiscovery: look up the broadcast address, send under the mutex    *)
(* with SO_BROADCAST on, switch it off under the mutex, then receive.        *)

DiscoverySend ==
    /\ app.at = "discovery"
    /\ \/ /\ fds = Fds                             \* _ubtGetLocalBcastIP: no socket
          /\ Return("SOCKET_NORESOURCE")
          /\ UNCHANGED <<bcast, fds, net>>
       \/ /\ fds # Fds /\ "socket" \in Faults        \* no wlan0: its socket stays open
          /\ fds' = fds \cup {FreeFd}
          /\ Return("SOCKET_FAILED")
          /\ UNCHANGED <<bcast, net>>
       \/ /\ fds # Fds /\ CanLock
          /\ bcast' = (txFd # -1)
          /\ \/ /\ txFd # -1
                /\ Emit("discovery", Robots)
                /\ Goto("discoveryOff")
                /\ UNCHANGED failed
             \/ /\ txFd = -1 \/ "send" \in Faults
                /\ Return("SOCKET_SENDERROR")       \* SO_BROADCAST stays on
                /\ UNCHANGED net
          /\ UNCHANGED fds
    /\ UNCHANGED <<rxFd, txFd, port, status, info, mutex, threads, inbox, linked>>

DiscoveryOff_LeftOn ==      \* mutant: SO_BROADCAST is not switched off
    /\ app.at = "discoveryOff"
    /\ CanLock
    /\ app' = [app EXCEPT !.at = "discoveryRecv", !.left = app.call.max]
    /\ UNCHANGED <<globals, threads, world, failed>>

DiscoveryOff ==
    /\ app.at = "discoveryOff"
    /\ CanLock
    /\ bcast' = FALSE
    /\ app' = [app EXCEPT !.at = "discoveryRecv", !.left = app.call.max]
    /\ UNCHANGED <<rxFd, txFd, port, status, info, mutex, fds, threads, world, failed>>

(* while (iMaxTimes--): one datagram each time round. *)
DiscoveryRecv ==
    /\ app.at = "discoveryRecv"
    /\ \/ /\ app.left = 0
          /\ Return("SUCCESS")
          /\ UNCHANGED inbox
       \/ /\ app.left > 0 /\ RecvFails
          /\ Return("SOCKET_SENDERROR")
          /\ UNCHANGED inbox
       \/ /\ app.left > 0 /\ rxFd # -1 /\ inbox # <<>>
          /\ inbox' = Tail(inbox)
          /\ \/ /\ Head(inbox).kind # "discovery_ack"
                /\ Return("FAILED")
             \/ /\ Head(inbox).kind = "discovery_ack"
                /\ Head(inbox).robot = app.call.name
                /\ ReturnFound("SUCCESS", Head(inbox).robot)
             \/ /\ Head(inbox).kind = "discovery_ack"
                /\ Head(inbox).robot # app.call.name
                /\ app' = [app EXCEPT !.left = @ - 1]
                /\ UNCHANGED failed
    /\ UNCHANGED <<globals, threads, net, linked>>

-----------------------------------------------------------------------------
(* ubtRobotConnect.  For the local address it only copies it, unlocked, and  *)
(* the robot's name from a buffer nobody wrote.  For a robot: read the port  *)
(* under the mutex, send without it, receive until a connect_ack comes, set  *)
(* the status, then the address under the mutex, and start a heartbeat.      *)

ConnectLocal ==
    /\ app.at = "connect" /\ app.call.ip = Local
    /\ info' = [info EXCEPT !.ip = Junk]
    /\ Goto("connectLocal")
    /\ UNCHANGED <<rxFd, txFd, port, bcast, status, mutex, fds, threads, world, failed>>

ConnectLocalDone ==
    /\ app.at = "connectLocal"
    /\ info' = [ip |-> Local, name |-> Junk]
    /\ Return("SUCCESS")
    /\ UNCHANGED <<rxFd, txFd, port, bcast, status, mutex, fds, threads, world>>

ConnectPort ==
    /\ app.at = "connect" /\ app.call.ip # Local
    /\ CanLock
    /\ Goto("connectSend")
    /\ UNCHANGED <<globals, threads, world, failed>>

ConnectSend ==
    /\ app.at = "connectSend"
    /\ \/ /\ Sendable(app.call.ip)
          /\ Emit("connect", {app.call.ip})
          /\ Goto("connectRecv")
          /\ UNCHANGED failed
       \/ /\ ~Sendable(app.call.ip) \/ "send" \in Faults
          /\ Return("SOCKET_SENDERROR")
          /\ UNCHANGED net
    /\ UNCHANGED <<globals, threads, inbox, linked>>

(* What the receive loop waits for.  The answer's robot is not compared with *)
(* the one asked.                                                            *)
Awaited_AnyAck(d) == d.kind \in Acks      \* mutant: the kind of the answer is not looked at
Awaited(d) == d.kind = "connect_ack"

ConnectRecv ==
    /\ app.at = "connectRecv"
    /\ \/ /\ RecvFails
          /\ Return("SOCKET_SENDERROR")
          /\ UNCHANGED <<status, inbox>>
       \/ /\ rxFd # -1 /\ inbox # <<>>
          /\ inbox' = Tail(inbox)
          /\ \/ /\ Awaited(Head(inbox))
                /\ app' = [app EXCEPT !.at = "connectInfo", !.name = Head(inbox).robot]
                /\ status' = 1
             \/ /\ ~Awaited(Head(inbox))
                /\ UNCHANGED <<app, status>>
          /\ UNCHANGED failed
    /\ UNCHANGED <<rxFd, txFd, port, bcast, info, mutex, fds, threads, net, linked>>

ConnectInfo_Unlocked ==      \* mutant: the address is stored without the mutex
    /\ app.at = "connectInfo"
    /\ info' = [ip |-> app.call.ip, name |-> app.name]
    /\ Goto("connectSpawn")
    /\ UNCHANGED <<rxFd, txFd, port, bcast, status, mutex, fds, threads, world, failed>>

ConnectInfo ==
    /\ app.at = "connectInfo"
    /\ CanLock
    /\ info' = [ip |-> app.call.ip, name |-> app.name]
    /\ Goto("connectSpawn")
    /\ UNCHANGED <<rxFd, txFd, port, bcast, status, mutex, fds, threads, world, failed>>

ConnectSpawn_IfNone ==      \* mutant: no second thread while one has not ended
    /\ app.at = "connectSpawn"
    /\ \/ \E h \in Beats :
             /\ \A g \in Beats : hb[g] = "none"
             /\ hb' = [hb EXCEPT ![h] = "check"]
             /\ hbIp' = [hbIp EXCEPT ![h] = NoAddr]
       \/ (\E g \in Beats : hb[g] # "none") /\ UNCHANGED threads
    /\ Return("SUCCESS")
    /\ UNCHANGED <<globals, world>>

(* pthread_create answers an error with a positive number, and the code      *)
(* looks for a negative one: without a thread the call succeeds all the same.*)
ConnectSpawn ==
    /\ app.at = "connectSpawn"
    /\ \/ \E h \in Beats :
             /\ hb[h] = "none"
             /\ hb' = [hb EXCEPT ![h] = "check"]
             /\ hbIp' = [hbIp EXCEPT ![h] = NoAddr]
       \/ "thread" \in Faults /\ UNCHANGED threads
    /\ Return("SUCCESS")
    /\ UNCHANGED <<globals, world>>

-----------------------------------------------------------------------------
(* ubtRobotDisconnect: for the local address it empties the stored one; for  *)
(* a robot it sends under the mutex and reads exactly one datagram.          *)

DisconnectLocal ==
    /\ app.at = "disconnect" /\ app.call.ip = Local
    /\ info' = [ip |-> NoAddr, name |-> NoAddr]
    /\ Return("SUCCESS")
    /\ UNCHANGED <<rxFd, txFd, port, bcast, status, mutex, fds, threads, world>>

DisconnectSend ==
    /\ app.at = "disconnect" /\ app.call.ip # Local
    /\ CanLock
    /\ \/ /\ Sendable(app.call.ip)
          /\ Emit("disconnect", {app.call.ip})
          /\ Goto("disconnectRecv")
          /\ UNCHANGED failed
       \/ /\ ~Sendable(app.call.ip) \/ "send" \in Faults
          /\ Return("SOCKET_SENDERROR")
          /\ UNCHANGED net
    /\ UNCHANGED <<globals, threads, inbox, linked>>

DisconnectRecv ==
    /\ app.at = "disconnectRecv"
    /\ \/ /\ RecvFails
          /\ Return("SOCKET_SENDERROR")
          /\ UNCHANGED <<status, inbox>>
       \/ /\ rxFd # -1 /\ inbox # <<>>
          /\ inbox' = Tail(inbox)
          /\ \/ /\ Head(inbox).kind = "disconnect_ack"
                /\ status' = 0
                /\ Goto("disconnectClear")
                /\ UNCHANGED failed
             \/ /\ Head(inbox).kind # "disconnect_ack"
                /\ Return("FAILED")
                /\ UNCHANGED status
    /\ UNCHANGED <<rxFd, txFd, port, bcast, info, mutex, fds, threads, net, linked>>

DisconnectClear ==
    /\ app.at = "disconnectClear"
    /\ info' = [ip |-> NoAddr, name |-> NoAddr]
    /\ Return("SUCCESS")
    /\ UNCHANGED <<rxFd, txFd, port, bcast, status, mutex, fds, threads, world>>

(* ubtReportStatusToApp: one datagram to the stored address, no answer. *)
ReportStatus ==
    /\ app.at = "report"
    /\ CanLock
    /\ \/ Sendable(info.ip) /\ Return("SUCCESS")
       \/ (~Sendable(info.ip) \/ "send" \in Faults) /\ Return("SOCKET_SENDERROR")
    /\ UNCHANGED <<globals, threads, world>>

-----------------------------------------------------------------------------
(* _ubtTimerTimeout.  The comparison with SDK_LOCAL_IP at its start looks at *)
(* a buffer that was just emptied, so it never holds and is no step.         *)

BeatCheck(h) ==
    /\ hb[h] = "check"
    /\ hb' = [hb EXCEPT ![h] = IF status = 1 THEN "lock" ELSE "exit"]
    /\ UNCHANGED <<globals, app, hbIp, world, failed>>

BeatLock(h) ==
    /\ hb[h] = "lock"
    /\ CanLock
    /\ mutex' = IF mutex.ok THEN [mutex EXCEPT !.owner = h] ELSE mutex
    /\ hbIp' = [hbIp EXCEPT ![h] = info.ip]
    /\ hb' = [hb EXCEPT ![h] = "send"]
    /\ UNCHANGED <<rxFd, txFd, port, bcast, status, info, fds, app, world, failed>>

(* The outcome of sendto is not looked at; unlocking does not look at who    *)
(* holds the mutex.                                                          *)
BeatSend(h) ==
    /\ hb[h] = "send"
    /\ mutex' = IF mutex.ok THEN [mutex EXCEPT !.owner = Nobody] ELSE mutex
    /\ hb' = [hb EXCEPT ![h] = "sleep"]
    /\ UNCHANGED <<rxFd, txFd, port, bcast, status, info, fds, app, hbIp, world, failed>>

BeatWake_NoCheck(h) ==      \* mutant: the status is looked at only once
    /\ hb[h] = "sleep"
    /\ hb' = [hb EXCEPT ![h] = "lock"]
    /\ UNCHANGED <<globals, app, hbIp, world, failed>>

BeatWake_Once(h) ==      \* mutant: an if for the while
    /\ hb[h] = "sleep"
    /\ hb' = [hb EXCEPT ![h] = "exit"]
    /\ UNCHANGED <<globals, app, hbIp, world, failed>>

BeatWake(h) ==
    /\ hb[h] = "sleep"
    /\ hb' = [hb EXCEPT ![h] = "check"]
    /\ UNCHANGED <<globals, app, hbIp, world, failed>>

BeatExit(h) ==
    /\ hb[h] = "exit"
    /\ hb' = [hb EXCEPT ![h] = "none"]
    /\ UNCHANGED <<globals, app, hbIp, world, failed>>

-----------------------------------------------------------------------------
(* The robots and the network: external.  A datagram is delivered in any     *)
(* order; what the socket receives is read in the order it came.  A robot    *)
(* that refuses says so in the status of its answer, which the decoders copy *)
(* and the calls do not look at (RobotMsg.c:2564, 2651).                     *)

RobotAnswers(d) ==
    /\ net[d] > 0 /\ d.kind \in Requests
    /\ net' = [net EXCEPT ![d] = @ - 1, ![[d EXCEPT !.kind = AckOf(d.kind)]] = @ + 1]
    /\ \/ linked' = CASE d.kind = "connect"    -> linked \cup {d.robot}
                      [] d.kind = "disconnect" -> linked \ {d.robot}
                      [] OTHER                 -> linked
       \/ "refuse" \in Faults /\ UNCHANGED linked
    /\ UNCHANGED <<globals, app, threads, inbox, failed>>

Deliver(d) ==
    /\ net[d] > 0 /\ d.kind \in Acks
    /\ net' = [net EXCEPT ![d] = @ - 1]
    /\ inbox' = IF rxFd # -1 /\ Len(inbox) < RxBuf THEN Append(inbox, d) ELSE inbox
    /\ UNCHANGED <<globals, app, threads, linked, failed>>

Lose(d) ==
    /\ "loss" \in Faults
    /\ net[d] > 0
    /\ net' = [net EXCEPT ![d] = @ - 1]
    /\ UNCHANGED <<globals, app, threads, inbox, linked, failed>>

-----------------------------------------------------------------------------
AppStep ==
    \/ InitSockets \/ InitPort \/ Deinitialize
    \/ DiscoverySend \/ DiscoveryOff \/ DiscoveryRecv
    \/ ConnectLocal \/ ConnectLocalDone
    \/ ConnectPort \/ ConnectSend \/ ConnectRecv \/ ConnectInfo \/ ConnectSpawn
    \/ DisconnectLocal \/ DisconnectSend \/ DisconnectRecv \/ DisconnectClear
    \/ ReportStatus

BeatStep(h) == BeatCheck(h) \/ BeatLock(h) \/ BeatSend(h) \/ BeatWake(h) \/ BeatExit(h)

NetStep == \E d \in Datagram : RobotAnswers(d) \/ Deliver(d) \/ Lose(d)

Next ==
    \/ \E c \in Calls : Begin(c)
    \/ AppStep
    \/ \E h \in Beats : BeatStep(h)
    \/ NetStep

Spec == Init /\ [][Next]_vars

(* A thread that can run does, and one that waits for the mutex gets it in   *)
(* the end: it is held for one sendto every 5 s.  A robot answers and a      *)
(* datagram arrives or is lost.  Nothing obliges the application to call.    *)
Fairness ==
    /\ SF_vars(AppStep)
    /\ \A h \in Beats : SF_vars(BeatStep(h))
    /\ WF_vars(NetStep)

FairSpec == Spec /\ Fairness

-----------------------------------------------------------------------------
(* Properties *)

(* The variables hold values of the C declarations (RobotApi.c:118-132) and  *)
(* of the two functions' locals.                                             *)
TypeOK ==
    /\ {rxFd, txFd} \subseteq Fds \cup {-1}
    /\ port \in {-1, SDK_REMOTE_SOCKET_PORT}
    /\ bcast \in BOOLEAN
    /\ status \in {0, 1}
    /\ info \in [ip : Addr, name : Addr]
    /\ mutex \in [ok : BOOLEAN, owner : Beats \cup {Nobody}]
    /\ app \in AppState
    /\ hb \in [Beats -> BeatAt]
    /\ hbIp \in [Beats -> Addr]
    /\ fds \subseteq Fds
    /\ inbox \in Seq(Datagram)
    /\ net \in [Datagram -> Nat]
    /\ linked \subseteq Robots
    /\ failed \in BOOLEAN

(* While the SDK holds itself connected, a heartbeat thread is alive and     *)
(* will go on: the window between a Disconnect, the old thread's end and the *)
(* next Connect never leaves a session without one (RobotApi.c:469, 2473-    *)
(* 2485, 2558).                                                              *)
HeartbeatAlive ==
    status = 1 /\ app.at \notin {"connectInfo", "connectSpawn"}
        => \E h \in Beats : hb[h] \notin {"none", "exit"}

(* As long as every call succeeded and no robot refuses what it acknowledges,*)
(* nothing is left under way or unread when a call returns, and the robot    *)
(* the SDK holds itself connected to holds itself connected too and is the   *)
(* one whose name is stored (RobotApi.c:2458-2477, 2549-2562).               *)
SuccessMeansAgreement ==
    ~failed /\ app.at = "idle"
        => /\ inbox = <<>> /\ ~UnderWay
           /\ status = 1 /\ info.ip \in Robots
                 => info.ip \in linked /\ info.name = info.ip

(* The descriptors that the globals name are open, and whatever fails in      *)
(* between, a descriptor that they do not name any more is closed: only an    *)
(* Initialize that cannot set the timeout and a Discovery without wlan0 lose  *)
(* one, each the one it has just opened, and both say that they failed        *)
(* (RobotApi.c:165-169, 501-505, 3020-3083).                                  *)
Named == {rxFd, txFd} \ {-1}
Lost  == fds \ Named

SocketsAccounted ==
    [][/\ Named' \subseteq fds'
       /\ \/ Lost' = Lost
          \/ /\ app.at \in {"init", "discovery"} /\ app'.ret = "SOCKET_FAILED"
             /\ UNCHANGED <<rxFd, txFd>>
             /\ \E f \in Fds \ fds : Lost' = Lost \cup {f}]_vars

(* The stored robot is one robot: the name came from the robot whose address *)
(* was asked (RobotApi.c:127, 2466-2476).                                    *)
ConnectedInfoMatches ==
    status = 1 /\ app.at = "idle" /\ info.ip \in Robots => info.name = info.ip

(* A heartbeat goes to the robot of the session: while a thread holds the    *)
(* mutex no other address is stored.  An Initialize after a Deinitialize may *)
(* take the mutex away from it, and is left out (RobotApi.c:471-475, 2473-   *)
(* 2477, 3026).                                                              *)
HeartbeatToSession ==
    \A h \in Beats :
        hb[h] = "send" /\ mutex.owner = h /\ {hbIp[h], info.ip} \subseteq Robots => hbIp[h] = info.ip

(* Where no answer is late and no robot refuses what it acknowledges, the    *)
(* calls are those of a RobotLink: a Connect that succeeds was accepted by   *)
(* the robot it asked, in this call, and one that fails leaves the session   *)
(* as it was and nothing to come; no two Disconnects succeed on one word of  *)
(* a robot; a report needs a peer to go to (RobotApi.c:2259-2565, 3020-3083).*)
Connecting    == {"connect", "connectSend", "connectRecv", "connectInfo", "connectSpawn", "connectLocal"}
Disconnecting == {"disconnect", "disconnectRecv", "disconnectClear"}

doing ==
    [op    |-> CASE app.at \in Connecting                                      -> "connect"
                 [] app.at \in Disconnecting                                   -> "disconnect"
                 [] app.at \in {"init", "initPort"}                            -> "init"
                 [] app.at \in {"discovery", "discoveryOff", "discoveryRecv"}  -> "discovery"
                 [] OTHER                                                      -> app.at,
     robot |-> IF app.at \in Connecting \cup Disconnecting THEN app.call.ip ELSE NoAddr,
     stage |-> CASE app.at \in {"connectRecv", "disconnectRecv"}      -> "asked"
                 [] app.at = "connectInfo"                            -> "heard"
                 [] app.at \in {"connectSpawn", "disconnectClear"}    -> "agreed"
                 [] OTHER                                             -> "new"]

peer ==
    IF \/ app.at = "disconnectClear" \/ info.ip \in {NoAddr, Junk}
       \/ info.ip \in Robots /\ status = 0
    THEN NoAddr ELSE info.ip

Deed == [op : {"connect", "disconnect"}, robot : Robots]

Waiting(d) == Cardinality({i \in 1..Len(inbox) : inbox[i] = d})
Request(d) == [kind |-> d.op, robot |-> d.robot]
Answer(d)  == [kind |-> AckOf(d.op), robot |-> d.robot]

ret   == IF app.at = "idle" THEN app.ret ELSE "none"
asked == [d \in Deed |-> net[Request(d)]]
done  == [d \in Deed |-> net[Answer(d)] + Waiting(Answer(d))]

Searches == \E c \in Calls : c.op = "discovery"

Link == INSTANCE RobotLink WITH NoPeer <- NoAddr

ImplementsLink == Link!Spec

(* No heartbeat goes to the local address (RobotApi.c:451-455). *)
BeatNotToLocal == \A h \in Beats : hb[h] = "send" => hbIp[h] # Local

(* A Discovery that hears nothing before the timeout succeeds                *)
(* (RobotApi.c:2375-2379).                                                   *)
DiscoveryTimeoutSucceeds ==
    [][app.at = "discoveryRecv" /\ app.left > 0 /\ inbox = <<>> /\ app'.at = "idle"
          => app'.ret = "SUCCESS"]_vars

(* A Discovery that succeeds has found the robot it was given the name of    *)
(* (the examples connect to what it found).                                  *)
DiscoverySuccessMeansFound ==
    [][app.at = "discoveryRecv" /\ app'.at = "idle" /\ app'.ret = "SUCCESS"
          => app'.found = app.call.name]_vars

(* Once the SDK stays disconnected every heartbeat thread ends               *)
(* (RobotApi.c:469).                                                         *)
HeartbeatsDrain == <>[](status = 0) => <>[](\A h \in Beats : hb[h] = "none")

(* Once the SDK stays connected heartbeats go on for ever                    *)
(* (RobotApi.c:469-477).                                                     *)
HeartbeatsFlow ==
    <>[](status = 1 /\ app.at # "connectSpawn") => []<>(\E h \in Beats : hb[h] = "send")

(* Every call returns: no receive loop and no wait for the mutex lasts for   *)
(* ever (RobotApi.c:2365-2392, 2458-2469).                                   *)
CallsReturn == app.at # "idle" ~> app.at = "idle"
=============================================================================
