------------------------------ MODULE RobotMsg ------------------------------
(***************************************************************************)
(* The codecs of src/utils/RobotMsg.c for the requests of RobotApi.c and   *)
(* the answers to them.  A JSON object is a function from the names of its *)
(* fields to their values.  A field that has another JSON type than the    *)
(* decoder asks for is not in its domain, for most decoders treat it like  *)
(* a missing one; where that is not so its name is in the field "mistyped" *)
(* of the model.  A sensor's reading of another type is one without        *)
(* members.  An encoder yields the object it prints.  A decoder yields the *)
(* return code and what it writes through its pointers.                    *)
(*                                                                         *)
(* Every buffer is there and large enough and cJSON finds memory: the      *)
(* early returns for NULL and for UBTEDU_RC_NORESOURCE are left out.  The  *)
(* names of the commands and types are those of                            *)
(* src/libs/robotlogstr/robotlogstr.c.                                     *)
(***************************************************************************)
EXTENDS Integers, Sequences, TLC

(* A datagram that cJSON_Parse rejects. *)
Unparsable == [nojson |-> TRUE]
Parses(m)  == "nojson" \notin DOMAIN m

Has(m, field)    == field \in DOMAIN m
Is(m, field, v)  == Has(m, field) /\ m[field] = v
Other(m, field, v) == Has(m, field) /\ m[field] # v

(* cJSON_GetObjectItem finds the field, whatever its type. *)
Present(m, field) == Has(m, field) \/ (Has(m, "mistyped") /\ field \in m.mistyped)

(* The object that has the fields of m, and those of more that m has not. *)
Joined(m, more) ==
    [field \in DOMAIN m \cup DOMAIN more |-> IF Has(m, field) THEN m[field] ELSE more[field]]

(* The string a decoder copies from a field, "" when it is missing. *)
Str(m, field) == IF Has(m, field) THEN m[field] ELSE ""

(* What a decoder leaves behind: its return code and its output.  A pointer *)
(* nobody writes through keeps what the caller had there.                   *)
Untouched == [untouched |-> TRUE]
Yields(rc, out) == [rc |-> rc, out |-> out]
Rc(rc) == Yields(rc, Untouched)

(* Every decoder starts by parsing. *)
Decoding(m, verdict) == IF Parses(m) THEN verdict ELSE Rc("SOCKET_DECODE_FAILED")

(* The answer carries the command of the acknowledgement and the status ok. *)
AckOk(m, ack) == Is(m, "cmd", ack) /\ Is(m, "status", "ok")

(* The decoders that return what the answer says. *)
Strict_NoStatus(m, ack) ==                  \* mutant: the status is not looked at
    Decoding(m, Rc(IF Is(m, "cmd", ack) THEN "SUCCESS" ELSE "FAILED"))

Strict(m, ack) == Decoding(m, Rc(IF AckOk(m, ack) THEN "SUCCESS" ELSE "FAILED"))

(* The decoders that compute the verdict in ret and return ubtRet, which is *)
(* UBTEDU_RC_SUCCESS for every object ...                                   *)
Always(m) == Decoding(m, Rc("SUCCESS"))

(* ... or stays UBTEDU_RC_FAILED. *)
Never(m) == Decoding(m, Rc("FAILED"))

-----------------------------------------------------------------------------
(* Software version and status. *)

Encode_SWVersion(para, port) ==
    [cmd |-> "query", type |-> "version", para |-> para, port |-> port]

Decode_SWVersion(m) ==
    Decoding(m, IF Other(m, "cmd", "query_ack") THEN Rc("SOCKET_DECODE_ERROR")
                ELSE IF Is(m, "status", "ok") /\ Is(m, "type", "version") /\ Has(m, "version")
                THEN Yields("SUCCESS", m.version)
                ELSE Rc("FAILED"))

(* para is "" where the C passes NULL. *)
Encode_RobotStatus(cmd, type, para, port) ==
    IF para = "" THEN [cmd |-> cmd, type |-> type, port |-> port]
    ELSE [cmd |-> cmd, type |-> type, port |-> port, para |-> para]

(* The three fields of a battery are written to one iValue in this order, and *)
(* only the last of them makes the call succeed.                              *)
BatteryFields == <<"charging", "voltage", "percent">>

Decode_Battery(battery) ==
    LET present == SelectSeq(BatteryFields, LAMBDA f : Has(battery, f))
    IN  Yields(IF Has(battery, "percent") THEN "SUCCESS" ELSE "FAILED",
               IF present = <<>> THEN Untouched ELSE battery[present[Len(present)]])

(* A play status or a volume of another type is a success all the same, and *)
(* so is a play status of no known name.                                    *)
Decode_RobotStatus(type, m) ==
    Decoding(m, CASE Other(m, "cmd", "query_ack") \/ Other(m, "type", type) ->
                       Rc("SOCKET_DECODE_ERROR")
                  [] Is(m, "type", "play") /\ Present(m, "play") ->
                       Yields("SUCCESS",
                              IF Has(m, "play") /\ m.play \in {"playing", "pause", "end", "idle"}
                              THEN m.play ELSE Untouched)
                  [] Is(m, "type", "volume") /\ Present(m, "volume") ->
                       Yields("SUCCESS", IF Has(m, "volume") THEN m.volume ELSE Untouched)
                  [] Is(m, "type", "battery") /\ Has(m, "battery") -> Decode_Battery(m.battery)
                  [] OTHER -> Rc("FAILED"))

Encode_CheckAPPStatus(port, timeout, data) ==
    [cmd |-> "query_app", type |-> "status", port |-> port, time_out |-> timeout, data |-> data]
Decode_CheckAPPStatus(m) == Strict(m, "query_app_ack")

-----------------------------------------------------------------------------
(* Voice. *)

Encode_StopVoiceRecognition(port, data) ==
    [cmd |-> "voice", type |-> "recogntion_stop", port |-> port, data |-> data]

Encode_DetectVoiceMsg(port, data) ==
    [cmd |-> "voice", type |-> "voice_detecting", port |-> port, data |-> data]
Decode_DetectVoiceMsg(m) == Strict(m, "voice_ack")

Encode_VoiceStart(port) == [cmd |-> "voice", type |-> "recogntion_start", port |-> port]
Decode_VoiceStart(m) == Always(m)

Encode_VoiceStop(port) == [cmd |-> "voice", type |-> "recogntion_stop", port |-> port]
Decode_VoiceStop(m) == Always(m)

Encode_VoiceTTS(port, interrupted, text) ==
    [cmd |-> "voice", type |-> "tts", port |-> port, is_interrupted |-> interrupted, data |-> text]
Decode_VoiceTTS(m) == Always(m)

-----------------------------------------------------------------------------
(* Servos, volume, motion, light. *)

Encode_ReadRobotServo(port)     == [cmd |-> "servo", type |-> "read", port |-> port]
Encode_ReadRobotServoHold(port) == [cmd |-> "servo", type |-> "read_hold", port |-> port]

(* The angles are copied before the command is looked at. *)
Decode_ReadRobotServo(m) ==
    Decoding(m, Yields(IF ~ Is(m, "cmd", "servo_ack") THEN "SOCKET_DECODE_ERROR"
                       ELSE IF Has(m, "angle") THEN "SUCCESS" ELSE "FAILED",
                       IF Has(m, "angle") THEN m.angle ELSE Untouched))

Encode_SetRobotServo(port, angles, time) ==
    [cmd |-> "servo", type |-> "write", port |-> port, time |-> time, angle |-> angles]
Decode_SetRobotServo(m) == Never(m)

Encode_SetRobotVolume_Plus(port)  == [cmd |-> "set", type |-> "volume_plus", port |-> port]
Encode_SetRobotVolume_Minus(port) == [cmd |-> "set", type |-> "volume_minus", port |-> port]

Encode_SetRobotVolume(port, volume) ==
    [cmd |-> "set", type |-> "volume", port |-> port, volume |-> volume]
Decode_SetRobotVolume(m) == Strict(m, "set_ack")

Encode_SetRobotMotion(cmd, type, port, volume) ==
    [cmd |-> cmd, type |-> type, port |-> port, voice |-> volume]
Decode_SetRobotMotion(m) == Never(m)

Encode_SetRobotLED(port, type, color, mode) ==
    [cmd |-> "set", type |-> "led", port |-> port,
     para |-> [type |-> type, color |-> color, mode |-> mode]]
Decode_SetRobotLED(m) == Always(m)

-----------------------------------------------------------------------------
(* Sensors. *)

Encode_ReadSensorValue(type, port) ==
    [cmd |-> "query", type |-> "sensor", para |-> type, port |-> port]
Encode_ReadSensorValueByAddr(type, addr, port) ==
    [cmd |-> "query", type |-> "sensor", para |-> type, id |-> addr, port |-> port]

(* The decoder takes the first of these fields that the answer has, whichever *)
(* sensor was asked for.                                                      *)
SensorFields ==
    <<"gyro", "environment", "board", "ultrasonic", "infrared", "touch", "color", "pressure">>

(* The sizes of the structs of RobotApi.h that the caller's length is held against. *)
SensorSize(field) == CASE field = "gyro"        -> 96
                       [] field = "environment" -> 12
                       [] field = "color"       -> 16
                       [] OTHER                 -> 4

(* Gyro, environment and board copy the readings that are there. *)
Decode_Readings(readings) == Yields("SUCCESS", readings)

(* Ultrasonic and infrared take the least distance that is not 0, element by *)
(* element.                                                                  *)
NoDistance == 65535
Nearer_Zero(best, e) ==                     \* mutant: 0 is taken for a distance
    IF Has(e, "value") /\ best > e.value THEN e.value ELSE best

Nearer(best, e) ==
    IF Has(e, "value") /\ e.value # 0 /\ best > e.value THEN e.value ELSE best
Nearest(elements) ==
    LET best[i \in 0..Len(elements)] ==
            IF i = 0 THEN NoDistance ELSE Nearer(best[i - 1], elements[i])
    IN  best[Len(elements)]
Decode_Distance(elements) ==
    Yields(IF \E i \in DOMAIN elements : Has(elements[i], "value") THEN "SUCCESS" ELSE "FAILED",
           Nearest(elements))

(* The four colours are the bytes of a non-negative int, the lowest first. *)
Colours_Twice(v) ==                         \* mutant: blue is not shifted far enough
    [red |-> v % 256, green |-> (v \div 256) % 256,
     blue |-> (v \div 256) % 256, clear |-> (v \div 16777216) % 256]

Colours(v) == [red |-> v % 256, green |-> (v \div 256) % 256,
               blue |-> (v \div 65536) % 256, clear |-> (v \div 16777216) % 256]

(* Touch, colour and pressure take the first element. *)
Decode_First(field, elements) ==
    IF elements = <<>> THEN Rc("NOT_FOUND")
    ELSE IF ~Has(elements[1], "value") THEN Rc("FAILED")
    ELSE Yields("SUCCESS", IF field = "color" THEN Colours(elements[1].value) ELSE elements[1].value)

Decode_ReadSensorValue(m, len) ==
    LET present == SelectSeq(SensorFields, LAMBDA f : Has(m, f))
        field   == present[1]
    IN  Decoding(m, CASE present = <<>> -> Rc("FAILED")
                      [] present # <<>> /\ len # SensorSize(field) -> Rc("WRONG_PARAM")
                      [] OTHER ->
                           CASE field \in {"gyro", "environment", "board"} -> Decode_Readings(m[field])
                             [] field \in {"ultrasonic", "infrared"} -> Decode_Distance(m[field])
                             [] OTHER -> Decode_First(field, m[field]))

Encode_SearchSensor(port) == [cmd |-> "sensor_config", type |-> "search", port |-> port]
Decode_SearchSensor(m) ==
    Decoding(m, Rc(IF AckOk(m, "sensor_config_ack") /\ Is(m, "type", "search")
                   THEN "SUCCESS" ELSE "FAILED"))

Encode_ModifySensorID(port, type, id, new) ==
    [cmd |-> "sensor_config", type |-> "modify", port |-> port,
     para |-> [type |-> type, id |-> id, value |-> new]]
Decode_ModifySensorID(m) ==
    Decoding(m, Rc(IF AckOk(m, "sensor_config_ack") /\ Is(m, "type", "modify")
                   THEN "SUCCESS" ELSE "FAILED"))

-----------------------------------------------------------------------------
(* Actions, music, photos. *)

Encode_StartRobotAction(port, name, repeat) ==
    [cmd |-> "action", type |-> "start", port |-> port, para |-> [name |-> name, repeat |-> repeat]]

(* The caller's time stays 0 unless the answer names one. *)
Decode_StartRobotAction(m) ==
    Decoding(m, Yields("SUCCESS", IF Has(m, "total_time") THEN m.total_time ELSE 0))

Encode_StopRobotAction(port) == [cmd |-> "action", type |-> "stop", port |-> port]
Decode_StopRobotAction(m) == Always(m)

Encode_PlayMusic(type, port, name) ==
    [cmd |-> "music", type |-> type, port |-> port, name |-> name]
Decode_PlayMusic(m) == Always(m)

Encode_GetMusic(port, index) ==
    [cmd |-> "music", type |-> "getlist", port |-> port, index |-> index]
Decode_GetMusic(m) == Always(m)

(* name is "" where the C has NULL or an empty string. *)
Encode_TakePhotos(name, port) ==
    IF name = "" THEN [cmd |-> "takephoto", type |-> "transmit", port |-> port]
    ELSE [cmd |-> "takephoto", type |-> "transmit", port |-> port, name |-> name]
Decode_TakePhotos(m) == Always(m)

-----------------------------------------------------------------------------
(* Detections, and the commands that are passed on. *)

(* The robot's "0" means that nothing was detected. *)
Detected(m) == IF ~ Has(m, "data") THEN Rc("FAILED")
               ELSE Yields(IF m.data = "0" THEN "FAILED" ELSE "SUCCESS", m.data)

Encode_EventDetect(type, port) == [cmd |-> "event", type |-> type, port |-> port]
Decode_EventDetect(m) ==
    Decoding(m, IF AckOk(m, "event_ack") THEN Detected(m) ELSE Rc("FAILED"))

Encode_VisionDetect(type, port, timeout) ==
    [cmd |-> "vision", type |-> type, port |-> port, time_out |-> timeout]

(* old is what the stack has at the buffer for the type, which is compared *)
(* even when the answer names no type (RobotMsg.c:2170).                   *)
Decode_VisionDetect(m, old) ==
    LET type == IF Has(m, "type") THEN m.type ELSE old
    IN  Decoding(m, IF AckOk(m, "vision_ack") /\ type \in {"face", "hand"}
                    THEN Detected(m) ELSE Rc("FAILED"))

Encode_TransmitCMD(port, data) == [cmd |-> "transparent", port |-> port, data |-> data]

(* What a command that was not carried out hands over is its status. *)
Decode_TransmitCMD(m) ==
    LET told == IF AckOk(m, "transparent_ack") THEN "data" ELSE "status"
    IN  Decoding(m, Yields("SUCCESS",
                           IF Has(m, "status") /\ Has(m, told) THEN m[told] ELSE Untouched))

(* No answer is awaited, and the decoder looks at nothing. *)
Encode_ReportStatusToApp(name, status) ==
    [cmd |-> "report_blockly", name |-> name, status |-> status]
Decode_ReportStatusToApp == Rc("SUCCESS")
=============================================================================
