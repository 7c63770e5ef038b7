--------------------------- MODULE MCRobotRequest ---------------------------
(* An instance of RobotRequest: which calls the two application threads make. *)
EXTENDS RobotRequest

CONSTANTS t1, t2, m1, m2

Fn(name) == [fn |-> name]
Straight == [s \in Servos |-> 90]

Volume == Fn("ubtSetRobotVolume") @@ [volume |-> 30]
Action(repeat) == Fn("ubtStartRobotAction") @@ [name |-> "bow", repeat |-> repeat]
Motion(type, direct, speed) ==
    Fn("ubtSetRobotMotion") @@ [type |-> type, direct |-> direct, speed |-> speed, repeat |-> 1]

MotionCalls == {Motion("wave", "left", 3), Motion("head", "front", 3), Motion("walk", "up", 3),
             Motion("bow", "left", 7), Motion("head", "up", 3)}

(* The SDK takes any text for the kind of what is to be detected: sup-port,   *)
(* and port-rait.                                                             *)
Texts == [support |-> <<>>, portrait |-> <<114, 97, 105, 116>>]

(* Every function once, some with a parameter that is refused. *)
EveryCall ==
    {Volume, Action(0), Action(2)} \cup MotionCalls \cup
    {Fn("ubtGetSWVersion") @@ [type |-> v] : v \in {"sdk", "raspi", "other"}} \cup
    {Fn("ubtGetSWVersion") @@ [type |-> "servo", servo |-> 3]} \cup
    {Fn("ubtGetRobotStatus") @@ [type |-> s] : s \in {"play", "percent"}} \cup
    {Fn("ubtCheckAPPStatus") @@ [timeout |-> 5, data |-> "q"],
     Fn("ubtDetectVoiceMsg") @@ [data |-> "q"],
     Fn("ubtRecordMotion"), Fn("ubtGetRobotServo"),
     Fn("ubtSetRobotServo") @@ [angles |-> Straight, time |-> 20],
     Fn("ubtSetRobotServo") @@ [angles |-> [Straight EXCEPT ![3] = 181], time |-> 20],
     Fn("ubtReadSensorValue") @@ [type |-> "touch", len |-> 4],
     Fn("ubtReadSensorValueByAddr") @@ [type |-> "touch", addr |-> 16, len |-> 8],
     Fn("ubtSetRobotLED") @@ [type |-> "button", color |-> "red", mode |-> "on"],
     Fn("ubtSetRobotLED") @@ [type |-> "servo", color |-> "red", mode |-> "on"],
     Fn("ubtStopRobotAction"), Fn("ubtVoiceStart"), Fn("ubtVoiceStop"),
     Fn("ubtVoiceTTS") @@ [text |-> "hi", interrupted |-> 1],
     Fn("ubtPlayMusic") @@ [type |-> "start", name |-> NULL],
     Fn("ubtPlayMusic") @@ [type |-> "start", name |-> "song"],
     Fn("ubtGetMusicList") @@ [names |-> "list", index |-> 0],
     Fn("ubtEventDetect") @@ [type |-> "button", timeout |-> 10],
     Fn("ubtEventDetect") @@ [type |-> "support", timeout |-> 10],
     Fn("ubtVisionDetect") @@ [type |-> "face", timeout |-> 10],
     Fn("ubtVisionDetect") @@ [type |-> "portrait", timeout |-> 10],
     Fn("ubtTakeAPhoto") @@ [name |-> ""],
     Fn("ubtTransmitCMD") @@ [data |-> "q"],
     Fn("ubtSearchExtendSensor"),
     Fn("ubtModifyExtendSensorID") @@ [type |-> "touch", id |-> 16, new |-> 17]}

(* The first call of the one thread may be any; the others set the volume,    *)
(* and the second call of the other thread may move instead.                  *)
CallsOfThread(t, n) ==
    CASE t = t1 /\ n = 1 -> EveryCall
      [] t = t2 /\ n = 2 -> {Volume, Motion("wave", "left", 3)}
      [] OTHER           -> {Volume}
=============================================================================
