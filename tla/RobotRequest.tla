---------------------------- MODULE RobotRequest ----------------------------
(***************************************************************************)
(* A call of the API that asks the robot something and waits for the       *)
(* answer: every function of src/src/RobotApi.c that goes through          *)
(* _ubtCommWithRobot (RobotApi.c:362-431), with the codecs of RobotMsg.    *)
(* Several application threads may call at once; each call has a socket of *)
(* its own.                                                                *)
(*                                                                         *)
(* The SDK is initialised throughout; the address of the robot comes and   *)
(* goes with ubtRobotConnect and ubtRobotDisconnect, which SdkSession      *)
(* models.  Time is left out: a receive may time out whenever it waits, so *)
(* an answer can be early, late or in a race with the timeout, whatever    *)
(* number of seconds the call asks for.                                    *)
(*                                                                         *)
(* The robot and the network are not in the repository; they are modelled  *)
(* from how the API uses them.                                             *)
(***************************************************************************)
EXTENDS RobotMsg, MotionFile, PortText

CONSTANTS
    Threads,       \* the application threads
    CallsOf(_, _), \* what a thread may call as the application's n-th call
    Ports,         \* the ports _udpServerInit draws from, 9100-9599 in the code
    SdkPort,       \* g_iRobot2SDKPort, the port of the session's own socket
    NoPort,        \* no socket
    PtrSize,       \* sizeof(char *)
    PortTexts,     \* the texts of the application that hold "port" -> the letters behind it
    Numbers,       \* the numbers of motion files, 0-49 in the code
    MaxCalls,      \* the calls the application makes (a bound)
    Faults         \* what may go wrong around the SDK, a subset of AllFaults

AllFaults == {"socket", "setsockopt", "bind", "file", "loss"}

NULL == "NULL"
Ids == 1..MaxCalls
NoCall == [fn |-> "none"]

(* The functions that ask the robot; ubtSetRobotMotion goes on as one of the  *)
(* two that move.                                                            *)
Asking ==
    {"ubtGetSWVersion", "ubtGetRobotStatus", "ubtCheckAPPStatus", "ubtDetectVoiceMsg",
     "ubtRecordMotion", "ubtGetRobotServo", "ubtSetRobotServo", "_ubtSetRobotServo",
     "ubtSetRobotVolume", "ubtReadSensorValue", "ubtReadSensorValueByAddr", "ubtSetRobotLED",
     "ubtStartRobotAction", "ubtStopRobotAction", "ubtVoiceStart", "ubtVoiceStop",
     "ubtVoiceTTS", "ubtPlayMusic", "ubtGetMusicList", "ubtEventDetect", "ubtVisionDetect",
     "ubtTakeAPhoto", "ubtTransmitCMD", "ubtSearchExtendSensor", "ubtModifyExtendSensorID"}

ASSUME RequestAssumption ==
    /\ MaxCalls \in Nat
    /\ \A t \in Threads, n \in Ids : \A c \in CallsOf(t, n) :
          c.fn \in Asking \cup {"ubtSetRobotMotion"}
    /\ IsFiniteSet(Threads) /\ IsFiniteSet(Ports)
    /\ Ports \subseteq Port /\ SdkPort \in Port \ Ports /\ NoPort \notin Ports
    /\ PtrSize \in {4, 8}
    /\ \A v \in DOMAIN PortTexts : PortTexts[v] \in Seq(Letter)
    /\ Faults \subseteq AllFaults

VARIABLES
    at,        \* thread -> where it is
    call,      \* thread -> the call it makes, or made last
    id,        \* thread -> the number of that call (history)
    buf,       \* thread -> acSocketBuffer: the request, then the answer
    port,      \* thread -> the port of its socket
    got,       \* thread -> the call whose answer it took, 0 for none (history)
    left,      \* thread -> iRepeat of ubtStartRobotAction
    ret,       \* thread -> what its last call returned
    linked,    \* g_stConnectedRobotInfo.acIPAddr is not empty
    sockets,   \* the open sockets of these calls
    bound,     \* the ports they are bound to
    files,     \* number -> the motion file
    calls,     \* the calls made so far
    sent,      \* call -> its request under way to the robot
    answer,    \* call -> the robot's answer under way, and to which port
    performed, \* the calls that the robot has carried out (history)
    gaveUp,    \* the calls that waited and left without their own answer (history)
    leaks      \* the calls that returned by a path without close (history)

thread  == <<at, call, id, buf, port, got, left, ret>>
process == <<sockets, bound, files, calls>>
world   == <<sent, answer, performed>>
history == <<gaveUp, leaks>>
vars    == <<thread, linked, process, world, history>>

Nothing == [nothing |-> TRUE]
UnderWay(m) == "nothing" \notin DOMAIN m

At == {"idle", "begin", "motion", "open", "send", "wait", "decode", "play"}

(* UBTEDU_RC_T: what these calls return. *)
Returned == {"none", "SUCCESS", "FAILED", "NORESOURCE", "NOT_FOUND", "WRONG_PARAM",
             "SOCKET_FAILED", "SOCKET_TIMEOUT", "SOCKET_DECODE_FAILED", "SOCKET_DECODE_ERROR",
             "SOCKET_SENDERROR"}

Init ==
    /\ at = [t \in Threads |-> "idle"]
    /\ call = [t \in Threads |-> NoCall]
    /\ id = [t \in Threads |-> 0]
    /\ buf = [t \in Threads |-> Nothing]
    /\ port = [t \in Threads |-> NoPort]
    /\ got = [t \in Threads |-> 0]
    /\ left = [t \in Threads |-> 0]
    /\ ret = [t \in Threads |-> "none"]
    /\ linked = FALSE
    /\ sockets = 0
    /\ bound = {}
    /\ files = [n \in Numbers |-> [by |-> 0, complete |-> FALSE]]
    /\ calls = 0
    /\ sent = [i \in Ids |-> Nothing]
    /\ answer = [i \in Ids |-> Nothing]
    /\ performed = {}
    /\ gaveUp = {}
    /\ leaks = 0

-----------------------------------------------------------------------------
(* The functions of the API up to _ubtCommWithRobot: the checks of the      *)
(* parameters, and the request that is encoded.                             *)

Asks(m)      == [rc |-> "SUCCESS", msg |-> m]
Refuses(rc)  == [rc |-> rc, msg |-> Nothing]
Checked(ok, m) == IF ok THEN Asks(m) ELSE Refuses("WRONG_PARAM")

(* A wait the caller may choose between 10 and 600 s. *)
Wait(iTimeout) == IF iTimeout \in 10..600 THEN iTimeout ELSE 30

(* The version of the SDK itself is known: the call ends before it asks.  A *)
(* servo is asked for by its number.                                        *)
VersionPara(c) == CASE c.type = "stm32" -> "stm32"
                    [] c.type = "raspi" -> "raspberry"
                    [] c.type = "servo" -> "servo" \o ToString(c.servo)
ubtGetSWVersion(c) ==
    IF c.type = "sdk" THEN Refuses("SUCCESS")
    ELSE Checked(c.type \in {"stm32", "raspi", "servo"}, Encode_SWVersion(VersionPara(c), SdkPort))

StatusType(type) == IF type \in {"play", "volume"} THEN type ELSE "battery"
ubtGetRobotStatus(c) ==
    Checked(c.type \in {"play", "volume", "voltage", "charging", "percent"},
            Encode_RobotStatus("query", StatusType(c.type),
                               IF StatusType(c.type) = "battery" THEN c.type ELSE "", SdkPort))

ubtCheckAPPStatus(c) == Asks(Encode_CheckAPPStatus(SdkPort, Wait(c.timeout), c.data))
ubtDetectVoiceMsg(c) == Checked(c.data # NULL, Encode_DetectVoiceMsg(SdkPort, c.data))
ubtRecordMotion(c)   == Asks(Encode_ReadRobotServo(SdkPort))
ubtGetRobotServo(c)  == Asks(Encode_ReadRobotServoHold(SdkPort))

ubtSetRobotServo(c) ==
    Checked(AnglesAccepted(c.angles), Encode_SetRobotServo(SdkPort, AllAngles(c.angles), c.time))
_ubtSetRobotServo(c) ==
    Checked(Len(c.angle) > 0, Encode_SetRobotServo(SdkPort, MaskedAngles(c.mask, c.angle), c.time))

ubtSetRobotVolume(c) == Asks(Encode_SetRobotVolume(SdkPort, c.volume))

(* The value's pointer is there. *)
ubtReadSensorValue(c) == Checked(c.type # NULL, Encode_ReadSensorValue(c.type, SdkPort))
ubtReadSensorValueByAddr(c) ==
    Checked(c.type # NULL, Encode_ReadSensorValueByAddr(c.type, c.addr, SdkPort))

ubtSetRobotLED(c) ==
    Checked(c.color # NULL /\ c.mode # NULL /\ c.type \in {"button", "camera", "mic"},
            Encode_SetRobotLED(SdkPort, c.type, c.color, c.mode))

ubtStartRobotAction(c) ==
    Checked(c.name # NULL, Encode_StartRobotAction(SdkPort, c.name, c.repeat))
ubtStopRobotAction(c) == Asks(Encode_StopRobotAction(SdkPort))

ubtVoiceStart(c) == Asks(Encode_VoiceStart(SdkPort))
ubtVoiceStop(c)  == Asks(Encode_VoiceStop(SdkPort))
ubtVoiceTTS(c)   == Checked(c.text # NULL, Encode_VoiceTTS(SdkPort, c.interrupted, c.text))

ubtPlayMusic(c) ==
    Checked(c.type # NULL /\ c.name # NULL, Encode_PlayMusic(c.type, SdkPort, c.name))
ubtGetMusicList(c) == Checked(c.names # NULL, Encode_GetMusic(SdkPort, c.index))

ubtEventDetect(c)  == Checked(c.type # NULL, Encode_EventDetect(c.type, SdkPort))
ubtVisionDetect(c) ==
    Checked(c.type # NULL, Encode_VisionDetect(c.type, SdkPort, Wait(c.timeout)))
ubtTakeAPhoto(c)   == Asks(Encode_TakePhotos(c.name, SdkPort))
ubtTransmitCMD(c)  == Checked(c.data # NULL, Encode_TransmitCMD(SdkPort, c.data))

ubtSearchExtendSensor(c)   == Asks(Encode_SearchSensor(SdkPort))
ubtModifyExtendSensorID(c) == Asks(Encode_ModifySensorID(SdkPort, c.type, c.id, c.new))

Begun(c) ==
    CASE c.fn = "ubtGetSWVersion"          -> ubtGetSWVersion(c)
      [] c.fn = "ubtGetRobotStatus"        -> ubtGetRobotStatus(c)
      [] c.fn = "ubtCheckAPPStatus"        -> ubtCheckAPPStatus(c)
      [] c.fn = "ubtDetectVoiceMsg"        -> ubtDetectVoiceMsg(c)
      [] c.fn = "ubtRecordMotion"          -> ubtRecordMotion(c)
      [] c.fn = "ubtGetRobotServo"         -> ubtGetRobotServo(c)
      [] c.fn = "ubtSetRobotServo"         -> ubtSetRobotServo(c)
      [] c.fn = "_ubtSetRobotServo"        -> _ubtSetRobotServo(c)
      [] c.fn = "ubtSetRobotVolume"        -> ubtSetRobotVolume(c)
      [] c.fn = "ubtReadSensorValue"       -> ubtReadSensorValue(c)
      [] c.fn = "ubtReadSensorValueByAddr" -> ubtReadSensorValueByAddr(c)
      [] c.fn = "ubtSetRobotLED"           -> ubtSetRobotLED(c)
      [] c.fn = "ubtStartRobotAction"      -> ubtStartRobotAction(c)
      [] c.fn = "ubtStopRobotAction"       -> ubtStopRobotAction(c)
      [] c.fn = "ubtVoiceStart"            -> ubtVoiceStart(c)
      [] c.fn = "ubtVoiceStop"             -> ubtVoiceStop(c)
      [] c.fn = "ubtVoiceTTS"              -> ubtVoiceTTS(c)
      [] c.fn = "ubtPlayMusic"             -> ubtPlayMusic(c)
      [] c.fn = "ubtGetMusicList"          -> ubtGetMusicList(c)
      [] c.fn = "ubtEventDetect"           -> ubtEventDetect(c)
      [] c.fn = "ubtVisionDetect"          -> ubtVisionDetect(c)
      [] c.fn = "ubtTakeAPhoto"            -> ubtTakeAPhoto(c)
      [] c.fn = "ubtTransmitCMD"           -> ubtTransmitCMD(c)
      [] c.fn = "ubtSearchExtendSensor"    -> ubtSearchExtendSensor(c)
      [] c.fn = "ubtModifyExtendSensorID"  -> ubtModifyExtendSensorID(c)

(* What each function returns for an answer; old is what the stack holds     *)
(* where Decode_VisionDetect looks for the type.                             *)
Verdict(c, m, old) ==
    CASE c.fn = "ubtGetSWVersion" -> Decode_SWVersion(m)
      [] c.fn = "ubtGetRobotStatus" -> Decode_RobotStatus(StatusType(c.type), m)
      [] c.fn = "ubtCheckAPPStatus" -> Decode_CheckAPPStatus(m)
      [] c.fn = "ubtDetectVoiceMsg" -> Decode_DetectVoiceMsg(m)
      [] c.fn \in {"ubtRecordMotion", "ubtGetRobotServo"} -> Decode_ReadRobotServo(m)
      [] c.fn \in {"ubtSetRobotServo", "_ubtSetRobotServo"} -> Decode_SetRobotServo(m)
      [] c.fn = "ubtSetRobotVolume" -> Decode_SetRobotVolume(m)
      [] c.fn \in {"ubtReadSensorValue", "ubtReadSensorValueByAddr"} -> Decode_ReadSensorValue(m, c.len)
      [] c.fn = "ubtSetRobotLED" -> Decode_SetRobotLED(m)
      [] c.fn = "ubtStartRobotAction" -> Decode_StartRobotAction(m)
      [] c.fn = "ubtStopRobotAction" -> Decode_StopRobotAction(m)
      [] c.fn = "ubtVoiceStart" -> Decode_VoiceStart(m)
      [] c.fn = "ubtVoiceStop" -> Decode_VoiceStop(m)
      [] c.fn = "ubtVoiceTTS" -> Decode_VoiceTTS(m)
      [] c.fn = "ubtPlayMusic" -> Decode_PlayMusic(m)
      [] c.fn = "ubtGetMusicList" -> Decode_GetMusic(m)
      [] c.fn = "ubtEventDetect" -> Decode_EventDetect(m)
      [] c.fn = "ubtVisionDetect" -> Decode_VisionDetect(m, old)
      [] c.fn = "ubtTakeAPhoto" -> Decode_TakePhotos(m)
      [] c.fn = "ubtTransmitCMD" -> Decode_TransmitCMD(m)
      [] c.fn = "ubtSearchExtendSensor" -> Decode_SearchSensor(m)
      [] c.fn = "ubtModifyExtendSensorID" -> Decode_ModifySensorID(m)

-----------------------------------------------------------------------------
(* A call begins. *)

(* A function returns, and its buffer is gone. *)
Idle(t, rc) ==
    /\ at' = [at EXCEPT ![t] = "idle"]
    /\ ret' = [ret EXCEPT ![t] = rc]
    /\ buf' = [buf EXCEPT ![t] = Nothing]

Call(t) ==
    \E c \in CallsOf(t, calls + 1) :
        /\ at[t] = "idle"
        /\ calls < MaxCalls
        /\ calls' = calls + 1
        /\ id' = [id EXCEPT ![t] = calls + 1]
        /\ call' = [call EXCEPT ![t] = c]
        /\ at' = [at EXCEPT ![t] = "begin"]
        /\ got' = [got EXCEPT ![t] = 0]
        /\ ret' = [ret EXCEPT ![t] = "none"]
        /\ UNCHANGED <<buf, port, left, linked, sockets, bound, files, world, history>>

(* ubtSetRobotMotion checks the type and the speed, and creates the file,   *)
(* whose number is drawn at random.  The directions are not checked yet.    *)
BeginMotion(t) ==
    /\ at[t] = "begin" /\ call[t].fn = "ubtSetRobotMotion"
    /\ UNCHANGED <<id, port, got, left, linked, sockets, bound, calls, world, history>>
    /\ \/ /\ call[t].type = NULL \/ ~ SpeedAccepted(call[t].speed)
          /\ Idle(t, "WRONG_PARAM")
          /\ UNCHANGED <<call, files>>
       \/ /\ call[t].type # NULL /\ SpeedAccepted(call[t].speed)
          /\ "file" \in Faults
          /\ Idle(t, "NORESOURCE")
          /\ UNCHANGED <<call, files>>
       \/ /\ call[t].type # NULL /\ SpeedAccepted(call[t].speed)
          /\ \E n \in Numbers :
                /\ call' = [call EXCEPT ![t] = [fn |-> @.fn, type |-> @.type, direct |-> @.direct,
                                                speed |-> @.speed, number |-> n]]
                /\ files' = [files EXCEPT ![n] = [by |-> id[t], complete |-> FALSE]]
          /\ at' = [at EXCEPT ![t] = "motion"]
          /\ UNCHANGED <<ret, buf>>

(* The frames reach the file when it is closed.  A file that another call   *)
(* has truncated in between is nobody's: it holds what both have written.   *)
Written_Buffered(file, i) == file           \* mutant: not closed before it is played

Written(file, i) ==
    IF file.by = i THEN [by |-> i, complete |-> TRUE] ELSE [by |-> 0, complete |-> FALSE]

(* The rest of ubtSetRobotMotion: the motion goes on as a call of           *)
(* ubtStartRobotAction, the head as one of _ubtSetRobotServo.               *)
WriteMotion(t) ==
    LET c == call[t]
        n == c.number
    IN  /\ at[t] = "motion"
        /\ UNCHANGED <<id, port, got, left, linked, sockets, bound, calls, world, history>>
        /\ \/ /\ c.type = "head" /\ c.direct \in DOMAIN HeadAngle
              /\ call' = [call EXCEPT ![t] = [fn |-> "_ubtSetRobotServo", mask |-> {SERVO_HEAD},
                                              angle |-> HeadAngle[c.direct], time |-> c.speed]]
              /\ at' = [at EXCEPT ![t] = "begin"]
              /\ UNCHANGED <<ret, buf, files>>
           \/ /\ Supported(c.type, c.direct)
              /\ files' = [files EXCEPT ![n] = Written(@, id[t])]
              /\ call' = [call EXCEPT ![t] = [fn |-> "ubtStartRobotAction", name |-> n, repeat |-> 1]]
              /\ at' = [at EXCEPT ![t] = "begin"]
              /\ UNCHANGED <<ret, buf>>
           \/ /\ IF c.type = "head" THEN c.direct \notin DOMAIN HeadAngle
                 ELSE ~ Supported(c.type, c.direct)
              /\ Idle(t, "WRONG_PARAM")
              /\ UNCHANGED <<call, files>>

(* Every other function checks its parameters and encodes its request. *)
Begin(t) ==
    /\ at[t] = "begin" /\ call[t].fn # "ubtSetRobotMotion"
    /\ LET begun == Begun(call[t])
       IN  \/ /\ UnderWay(begun.msg)
              /\ buf' = [buf EXCEPT ![t] = begun.msg]
              /\ at' = [at EXCEPT ![t] = "open"]
              /\ UNCHANGED ret
           \/ /\ ~ UnderWay(begun.msg)
              /\ Idle(t, begun.rc)
    /\ UNCHANGED <<call, id, port, got, left, linked, process, world, history>>

-----------------------------------------------------------------------------
(* _ubtCommWithRobot. *)

(* _udpServerInit: a socket whose receive timeout cannot be set is not      *)
(* closed.  100 draws may all meet ports that are in use, by the calls that *)
(* lost their socket among others.                                          *)
Open_Shared(t) ==                           \* mutant: SO_REUSEADDR, ports are shared
    /\ at[t] = "open"
    /\ \E p \in Ports :
          /\ port' = [port EXCEPT ![t] = p]
          /\ bound' = bound \cup {p}
    /\ sockets' = sockets + 1
    /\ at' = [at EXCEPT ![t] = "send"]
    /\ UNCHANGED <<call, id, buf, got, left, ret, linked, files, calls, world, history>>

Open(t) ==
    /\ at[t] = "open"
    /\ UNCHANGED <<call, id, got, left, linked, files, calls, world, gaveUp>>
    /\ \/ /\ \E p \in Ports \ bound :
                /\ port' = [port EXCEPT ![t] = p]
                /\ bound' = bound \cup {p}
          /\ sockets' = sockets + 1
          /\ at' = [at EXCEPT ![t] = "send"]
          /\ UNCHANGED <<ret, buf, leaks>>
       \/ /\ "setsockopt" \in Faults
          /\ sockets' = sockets + 1
          /\ leaks' = leaks + 1
          /\ Idle(t, "SOCKET_FAILED")
          /\ UNCHANGED <<port, bound>>
       \/ /\ "socket" \in Faults \/ "bind" \in Faults \/ bound # {}
          /\ Idle(t, "SOCKET_FAILED")
          /\ UNCHANGED <<port, sockets, bound, leaks>>

(* What the application gives is printed ahead of the port as the kind of an  *)
(* event, of something seen or of a piece of music, and as the kind of a      *)
(* sensor; everything else that is printed there is a word of the protocol    *)
(* without "port" in it, or a number.                                         *)
GivenAhead(m) == IF m.cmd \in {"event", "vision", "music"} THEN {"type"}
                 ELSE IF m.cmd = "query" /\ m.type = "sensor" THEN {"para"} ELSE {}
HoldsPort(m)  == \E field \in GivenAhead(m) : m[field] \in DOMAIN PortTexts

(* The printed request, from the first place of "port" on or, when that is    *)
(* the field's name, from the end of the string ahead of it.                  *)
Fronts   == {<<>>} \cup {Word \o PortTexts[v] : v \in DOMAIN PortTexts}
Front(m) == IF HoldsPort(m) THEN Word \o PortTexts[m[CHOOSE f \in GivenAhead(m) : TRUE]] ELSE <<>>

(* The ports that can be read where a printed one was to give way to another. *)
Readable ==
    [front \in Fronts |-> [old \in Ports \cup {SdkPort} |-> [p \in Ports |->
        {n \in Ports \cup {SdkPort} : Reads(SetPort(front \o PortField(Tab, old), p, PtrSize), n)}]]]

(* The request that the robot reads: broken, or with a port of its own, and   *)
(* where "port" stood ahead of it, with another text in that place.           *)
Mangled(m) == [field \in DOMAIN m |-> IF field \in GivenAhead(m) THEN "mangled" ELSE m[field]]
WithPort(m, p) ==
    LET ports == Readable[Front(m)][m.port][p]
    IN  IF ports = {} THEN Unparsable
        ELSE [(IF HoldsPort(m) THEN Mangled(m) ELSE m) EXCEPT !.port = CHOOSE n \in ports : TRUE]

(* _ubtSendUDPMsg fails without an address and without a socket; what sendto *)
(* returns is not looked at.  A call that cannot send returns with its       *)
(* socket open.                                                              *)
Send(t) ==
    /\ at[t] = "send"
    /\ UNCHANGED <<call, id, got, left, linked, process, answer, performed, gaveUp>>
    /\ \/ /\ linked
          /\ sent' = [sent EXCEPT ![id[t]] = WithPort(buf[t], port[t])]
          /\ at' = [at EXCEPT ![t] = "wait"]
          /\ UNCHANGED <<port, ret, buf, leaks>>
       \/ /\ ~ linked \/ "socket" \in Faults
          /\ port' = [port EXCEPT ![t] = NoPort]
          /\ leaks' = leaks + 1
          /\ Idle(t, "SOCKET_SENDERROR")
          /\ UNCHANGED sent

Close_Twice(t) ==                           \* mutant: closes twice
    /\ port' = [port EXCEPT ![t] = NoPort]
    /\ bound' = bound \ {port[t]}
    /\ sockets' = sockets - 2

Close_Not(t) ==                             \* mutant: does not close
    /\ port' = [port EXCEPT ![t] = NoPort]
    /\ UNCHANGED <<bound, sockets>>

Close(t) ==
    /\ port' = [port EXCEPT ![t] = NoPort]
    /\ bound' = bound \ {port[t]}
    /\ sockets' = sockets - 1

(* Whatever arrives at the port is taken for the answer. *)
Receive(t) ==
    \E i \in Ids :
        /\ at[t] = "wait"
        /\ UnderWay(answer[i]) /\ answer[i].to = port[t]
        /\ buf' = [buf EXCEPT ![t] = answer[i].msg]
        /\ got' = [got EXCEPT ![t] = i]
        /\ answer' = [answer EXCEPT ![i] = Nothing]
        /\ gaveUp' = IF i = id[t] THEN gaveUp ELSE gaveUp \cup {id[t]}
        /\ Close(t)
        /\ at' = [at EXCEPT ![t] = "decode"]
        /\ UNCHANGED <<call, id, left, ret, linked, files, calls, sent, performed, leaks>>

Timeout_Never(t) == FALSE                   \* mutant: SO_RCVTIMEO is 0, for ever

Timeout_SendError(t) ==                     \* mutant: a timeout is reported as an error to send
    /\ at[t] = "wait"
    /\ gaveUp' = gaveUp \cup {id[t]}
    /\ Close(t)
    /\ Idle(t, "SOCKET_SENDERROR")
    /\ UNCHANGED <<call, id, got, left, linked, files, calls, world, leaks>>

Timeout_Again(t) ==                         \* mutant: the request is sent again
    /\ at[t] = "wait"
    /\ at' = [at EXCEPT ![t] = "send"]
    /\ UNCHANGED <<call, id, buf, port, got, left, ret, linked, process, world, history>>

Timeout(t) ==
    /\ at[t] = "wait"
    /\ gaveUp' = gaveUp \cup {id[t]}
    /\ Close(t)
    /\ Idle(t, "SOCKET_TIMEOUT")
    /\ UNCHANGED <<call, id, got, left, linked, files, calls, world, leaks>>

-----------------------------------------------------------------------------
(* The answer. *)

Decode(t) ==
    /\ at[t] = "decode" /\ call[t].fn # "ubtStartRobotAction"
    /\ \E old \in {"face", ""} : Idle(t, Verdict(call[t], buf[t], old).rc)
    /\ UNCHANGED <<call, id, port, got, left, linked, process, world, history>>

(* ubtStartRobotAction, whatever it has decoded, sleeps: while(iRepeat--)     *)
(* sleep(iTime/1000), and a second more.  iRepeat is not negative.            *)
DecodeAction(t) ==
    /\ at[t] = "decode" /\ call[t].fn = "ubtStartRobotAction"
    /\ at' = [at EXCEPT ![t] = "play"]
    /\ ret' = [ret EXCEPT ![t] = Verdict(call[t], buf[t], "").rc]
    /\ left' = [left EXCEPT ![t] = call[t].repeat]
    /\ UNCHANGED <<call, id, buf, port, got, linked, process, world, history>>

Play(t) ==
    /\ at[t] = "play"
    /\ UNCHANGED <<call, id, port, got, linked, process, world, history>>
    /\ \/ /\ left[t] # 0
          /\ left' = [left EXCEPT ![t] = left[t] - 1]
          /\ UNCHANGED <<at, ret, buf>>
       \/ /\ left[t] = 0
          /\ Idle(t, ret[t])
          /\ UNCHANGED left

-----------------------------------------------------------------------------
(* The world: the application connects and disconnects, the robot answers,   *)
(* the network loses.                                                        *)

Link ==
    /\ linked' \in BOOLEAN
    /\ UNCHANGED <<thread, process, world, history>>

(* The result that goes with a request that was carried out. *)
Result(m) ==
    CASE m.cmd = "query" -> (CASE m.type = "version" -> [version |-> "1.0"]
                               [] m.type = "play"    -> [play |-> "idle"]
                               [] m.type = "volume"  -> [volume |-> 50]
                               [] m.type = "battery" -> [battery |-> [percent |-> 80]]
                               [] m.type = "sensor"  -> [touch |-> <<[value |-> 1]>>])
      [] m.cmd = "servo" -> [angle |-> AllUnset]
      [] m.cmd = "action" -> [total_time |-> 1500]
      [] m.cmd \in {"event", "transparent"} -> [data |-> "1"]
      [] m.cmd = "vision" -> [data |-> "1"]
      [] OTHER -> [status |-> "ok"]

(* The command of the answer to each command. *)
AckOf(cmd) == CASE cmd = "query"         -> "query_ack"
                [] cmd = "query_app"     -> "query_app_ack"
                [] cmd = "voice"         -> "voice_ack"
                [] cmd = "servo"         -> "servo_ack"
                [] cmd = "set"           -> "set_ack"
                [] cmd = "sensor_config" -> "sensor_config_ack"
                [] cmd = "action"        -> "action_ack"
                [] cmd = "music"         -> "music_ack"
                [] cmd = "takephoto"     -> "takephoto_ack"
                [] cmd = "event"         -> "event_ack"
                [] cmd = "vision"        -> "vision_ack"
                [] cmd = "transparent"   -> "transparent_ack"

Ack(m, status) ==
    IF Has(m, "type") THEN [cmd |-> AckOf(m.cmd), status |-> status, type |-> m.type]
    ELSE [cmd |-> AckOf(m.cmd), status |-> status]

(* The robot carries out a request that it can read, and says so; or it     *)
(* refuses; or its answer is no JSON.                                       *)
Robot(i) ==
    /\ UnderWay(sent[i]) /\ Parses(sent[i])
    /\ LET m == sent[i]
       IN  \/ /\ performed' = performed \cup {i}
              /\ answer' = [answer EXCEPT ![i] = [to |-> m.port, msg |-> Joined(Ack(m, "ok"), Result(m))]]
           \/ /\ UNCHANGED performed
              /\ \E reply \in {Ack(m, "failed"), Unparsable} :
                    answer' = [answer EXCEPT ![i] = [to |-> m.port, msg |-> reply]]
    /\ sent' = [sent EXCEPT ![i] = Nothing]
    /\ UNCHANGED <<thread, linked, process, history>>

(* An answer to a port that is closed is lost as well. *)
Lose(i) ==
    /\ "loss" \in Faults
    /\ \/ /\ UnderWay(sent[i])
          /\ sent' = [sent EXCEPT ![i] = Nothing]
          /\ UNCHANGED answer
       \/ /\ UnderWay(answer[i])
          /\ answer' = [answer EXCEPT ![i] = Nothing]
          /\ UNCHANGED sent
    /\ UNCHANGED <<thread, linked, process, performed, history>>

-----------------------------------------------------------------------------
Comm(t) == Open(t) \/ Send(t) \/ Receive(t) \/ Timeout(t)
Step(t) == BeginMotion(t) \/ WriteMotion(t) \/ Begin(t) \/ Comm(t)
           \/ Decode(t) \/ DecodeAction(t) \/ Play(t)

Next ==
    \/ \E t \in Threads : Call(t) \/ Step(t)
    \/ \E i \in Ids : Robot(i) \/ Lose(i)
    \/ Link

(* A thread inside a call goes on; its receive ends at the latest when it    *)
(* times out.  Nothing makes the application call or the robot answer.       *)
Spec == Init /\ [][Next]_vars /\ \A t \in Threads : WF_vars(Step(t))

-----------------------------------------------------------------------------
Holding == {t \in Threads : at[t] \in {"send", "wait"}}
Done(t) == at[t] = "idle"

(* The functions whose verdict is what the answer says. *)
Strictly == {"ubtCheckAPPStatus", "ubtDetectVoiceMsg", "ubtSetRobotVolume",
             "ubtSearchExtendSensor", "ubtModifyExtendSensorID"}

TypeOK ==
    /\ at \in [Threads -> At]
    /\ id \in [Threads -> 0..MaxCalls]
    /\ port \in [Threads -> Ports \cup {NoPort}]
    /\ got \in [Threads -> 0..MaxCalls]
    /\ ret \in [Threads -> Returned]
    /\ linked \in BOOLEAN
    /\ sockets \in Nat /\ leaks \in Nat
    /\ bound \subseteq Ports
    /\ files \in [Numbers -> [by : 0..MaxCalls, complete : BOOLEAN]]
    /\ calls \in 0..MaxCalls
    /\ performed \subseteq Ids /\ gaveUp \subseteq Ids

(* Every open socket belongs to a call that uses it, but for one for each     *)
(* call that could not set its timeout or send (RobotApi.c:167, 405); and no  *)
(* two calls that wait share a port.                                          *)
SocketsAccounted ==
    /\ sockets = Cardinality(Holding) + leaks
    /\ \A t \in Threads : port[t] \in bound <=> t \in Holding
    /\ \A t, u \in Holding : port[t] = port[u] => t = u

(* The request of a call that waits is under way as the call meant it, but    *)
(* with the very port its socket is bound to, whatever the port was that was  *)
(* encoded; or, when the application's own text holds "port", broken or       *)
(* changed, but never with the port of another call (RobotApi.c:376-396).     *)
RequestNamesItsSocket ==
    \A t \in Threads :
        at[t] = "wait" /\ UnderWay(sent[id[t]]) =>
            LET asked == Begun(call[t]).msg
                told  == sent[id[t]]
            IN  /\ ~ HoldsPort(asked) => told = [asked EXCEPT !.port = port[t]]
                /\ Parses(told) => told.port \in {port[t], SdkPort}

(* A call takes its own answer, or that of a call that waited in vain and    *)
(* whose port was drawn again (RobotApi.c:180): the answer to a call that    *)
(* still waits never goes to another one.                                    *)
OwnAnswer ==
    \A t \in Threads : got[t] \in {0, id[t]} \/ got[t] \in gaveUp

(* Where the decoder heeds the answer, SUCCESS means that the robot has       *)
(* carried out the call whose answer was taken, and FAILED after one's own    *)
(* answer means that it has not.                                              *)
VerdictHonest ==
    \A t \in Threads :
        Done(t) /\ call[t].fn \in Strictly =>
            /\ ret[t] = "SUCCESS" => got[t] \in performed
            /\ ret[t] = "FAILED" /\ got[t] = id[t] => id[t] \notin performed

(* After these codes the call may safely be made again: the robot has not     *)
(* done it and no request for it is under way.  The functions that read a     *)
(* sensor are left out: they hold the caller's length against the answer and  *)
(* return UBTEDU_RC_WRONG_PARAM when the robot has answered.                  *)
ReadsSensor == {"ubtReadSensorValue", "ubtReadSensorValueByAddr"}
RetrySafe ==
    \A t \in Threads :
        /\ Done(t) /\ call[t].fn \notin ReadsSensor
        /\ ret[t] \in {"WRONG_PARAM", "NORESOURCE", "SOCKET_FAILED", "SOCKET_SENDERROR"}
        => id[t] \notin performed /\ ~ UnderWay(sent[id[t]])

(* The motion file that a request under way names is whole, unless another    *)
(* call has drawn the same number (RobotApi.c:1278).                          *)
MotionFileComplete ==
    \A i \in Ids : \A n \in Numbers :
        /\ UnderWay(sent[i]) /\ Is(sent[i], "cmd", "action") /\ Is(sent[i], "type", "start")
        /\ sent[i].para.name = n /\ files[n].by = i
        => files[n].complete

(* The calls are a RemoteCall: whatever is lost, late or refused, the robot   *)
(* does what a call asked at most once, and never what a call was refused     *)
(* before it had sent, however long ago (_ubtCommWithRobot, RobotApi.c:362).  *)
Unsent == {"begin", "motion", "open", "send"}
Fate(i) ==
    IF i > calls THEN "new"
    ELSE IF UnderWay(sent[i]) THEN "asked"
    ELSE IF i \in performed THEN "done"
    ELSE IF \E t \in Threads : id[t] = i /\ at[t] \in Unsent THEN "begun"
    ELSE "over"

fates   == [i \in Ids |-> Fate(i)]
insides == [t \in Threads |-> IF at[t] = "idle" THEN 0 ELSE id[t]]
returns == [t \in Threads |-> IF at[t] = "idle" THEN ret[t] ELSE "none"]

Remote == INSTANCE RemoteCall
          WITH Callers <- Threads, fate <- fates, inside <- insides, ret <- returns

ImplementsRemoteCall == Remote!Spec

(* Every call returns: it waits for an answer no longer than its timeout, and *)
(* for an action as long as the repeat count says.                            *)
CallsReturn == \A t \in Threads : at[t] # "idle" ~> at[t] = "idle"
=============================================================================
