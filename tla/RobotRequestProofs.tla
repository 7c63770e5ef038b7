------------------------- MODULE RobotRequestProofs -------------------------
(***************************************************************************)
(* What holds of the calls that ask the robot, for every set of threads,   *)
(* ports and motion files, every choice of calls and every choice of       *)
(* faults.                                                                 *)
(***************************************************************************)
EXTENDS RobotRequest, PortTextProofs, FiniteSetTheorems, TLAPS

(* Every decoder but that of the sensors returns one of four codes. *)
Verdicts == {"SUCCESS", "FAILED", "SOCKET_DECODE_FAILED", "SOCKET_DECODE_ERROR"}

LEMMA DetectedRc ==
    ASSUME NEW m
    PROVE  Detected(m).rc \in {"SUCCESS", "FAILED"}
  BY DEF Detected, Rc, Yields

LEMMA VerdictRc ==
    ASSUME NEW c, NEW m, NEW old, c.fn \in Asking \ ReadsSensor
    PROVE  Verdict(c, m, old).rc \in Verdicts
<1> USE DEF Verdict, Decoding, Rc, Yields, Verdicts
<1>1. CASE c.fn = "ubtGetSWVersion"
  BY <1>1 DEF Decode_SWVersion
<1>2. CASE c.fn = "ubtGetRobotStatus"
  BY <1>2 DEF Decode_RobotStatus, Decode_Battery
<1>3. CASE c.fn = "ubtCheckAPPStatus"
  BY <1>3 DEF Decode_CheckAPPStatus, Strict
<1>4. CASE c.fn = "ubtDetectVoiceMsg"
  BY <1>4 DEF Decode_DetectVoiceMsg, Strict
<1>5. CASE c.fn \in {"ubtRecordMotion", "ubtGetRobotServo"}
  BY <1>5 DEF Decode_ReadRobotServo
<1>6. CASE c.fn \in {"ubtSetRobotServo", "_ubtSetRobotServo"}
  BY <1>6 DEF Decode_SetRobotServo, Never
<1>7. CASE c.fn = "ubtSetRobotVolume"
  BY <1>7 DEF Decode_SetRobotVolume, Strict
<1>8. CASE c.fn = "ubtSetRobotLED"
  BY <1>8 DEF Decode_SetRobotLED, Always
<1>9. CASE c.fn = "ubtStartRobotAction"
  BY <1>9 DEF Decode_StartRobotAction
<1>10. CASE c.fn = "ubtStopRobotAction"
  BY <1>10 DEF Decode_StopRobotAction, Always
<1>11. CASE c.fn = "ubtVoiceStart"
  BY <1>11 DEF Decode_VoiceStart, Always
<1>12. CASE c.fn = "ubtVoiceStop"
  BY <1>12 DEF Decode_VoiceStop, Always
<1>13. CASE c.fn = "ubtVoiceTTS"
  BY <1>13 DEF Decode_VoiceTTS, Always
<1>14. CASE c.fn = "ubtPlayMusic"
  BY <1>14 DEF Decode_PlayMusic, Always
<1>15. CASE c.fn = "ubtGetMusicList"
  BY <1>15 DEF Decode_GetMusic, Always
<1>16. CASE c.fn = "ubtEventDetect"
  BY <1>16, DetectedRc DEF Decode_EventDetect
<1>17. CASE c.fn = "ubtVisionDetect"
  BY <1>17, DetectedRc DEF Decode_VisionDetect
<1>18. CASE c.fn = "ubtTakeAPhoto"
  BY <1>18 DEF Decode_TakePhotos, Always
<1>19. CASE c.fn = "ubtTransmitCMD"
  BY <1>19 DEF Decode_TransmitCMD
<1>20. CASE c.fn = "ubtSearchExtendSensor"
  BY <1>20 DEF Decode_SearchSensor
<1>21. CASE c.fn = "ubtModifyExtendSensorID"
  BY <1>21 DEF Decode_ModifySensorID
<1> QED
  BY <1>1, <1>2, <1>3, <1>4, <1>5, <1>6, <1>7, <1>8, <1>9, <1>10, <1>11, <1>12, <1>13,
     <1>14, <1>15, <1>16, <1>17, <1>18, <1>19, <1>20, <1>21 DEF Asking, ReadsSensor

(* That of the sensors has two more. *)
LEMMA SensorRc ==
    ASSUME NEW m, NEW len
    PROVE  Decode_ReadSensorValue(m, len).rc \in Verdicts \cup {"NOT_FOUND", "WRONG_PARAM"}
<1> USE DEF Rc, Yields, Verdicts
<1>1. \A x : /\ Decode_Readings(x).rc \in Verdicts
             /\ Decode_Distance(x).rc \in Verdicts
             /\ \A field : Decode_First(field, x).rc \in Verdicts \cup {"NOT_FOUND"}
  BY DEF Decode_Readings, Decode_Distance, Decode_First
<1> QED
  BY <1>1 DEF Decode_ReadSensorValue, Decoding

LEMMA VerdictReturned ==
    ASSUME NEW c, NEW m, NEW old, c.fn \in Asking
    PROVE  Verdict(c, m, old).rc \in Returned
<1>1. CASE c.fn \in ReadsSensor
  BY <1>1, SensorRc DEF Verdict, ReadsSensor, Verdicts, Returned
<1>2. CASE c.fn \notin ReadsSensor
  BY <1>2, VerdictRc DEF Verdicts, Returned
<1> QED BY <1>1, <1>2

-----------------------------------------------------------------------------
(* A function that goes on has encoded a request with the port of the         *)
(* session, and only ubtStartRobotAction asks to start an action; a function  *)
(* that ends here returns one of the codes.                                   *)
StartsAction(m) == Is(m, "cmd", "action") /\ Is(m, "type", "start")
BegunFits(c) ==
    /\ Begun(c).rc \in {"SUCCESS", "WRONG_PARAM"}
    /\ UnderWay(Begun(c).msg) =>
         /\ "port" \in DOMAIN Begun(c).msg /\ Begun(c).msg.port = SdkPort
         /\ StartsAction(Begun(c).msg) => c.fn = "ubtStartRobotAction"

LEMMA BegunAsks ==
    ASSUME NEW c, c.fn \in Asking
    PROVE  BegunFits(c)
<1> USE DEF BegunFits, Begun, Asks, Refuses, Checked, Nothing, UnderWay, StartsAction, Is, Has, Returned
<1>1. CASE c.fn = "ubtGetSWVersion"
  BY <1>1 DEF ubtGetSWVersion, Encode_SWVersion
<1>2. CASE c.fn = "ubtGetRobotStatus"
  BY <1>2 DEF ubtGetRobotStatus, Encode_RobotStatus
<1>3. CASE c.fn = "ubtCheckAPPStatus"
  BY <1>3 DEF ubtCheckAPPStatus, Encode_CheckAPPStatus
<1>4. CASE c.fn = "ubtDetectVoiceMsg"
  BY <1>4 DEF ubtDetectVoiceMsg, Encode_DetectVoiceMsg
<1>5. CASE c.fn = "ubtRecordMotion"
  BY <1>5 DEF ubtRecordMotion, Encode_ReadRobotServo
<1>6. CASE c.fn = "ubtGetRobotServo"
  BY <1>6 DEF ubtGetRobotServo, Encode_ReadRobotServoHold
<1>7. CASE c.fn = "ubtSetRobotServo"
  BY <1>7 DEF ubtSetRobotServo, Encode_SetRobotServo
<1>8. CASE c.fn = "_ubtSetRobotServo"
  BY <1>8 DEF _ubtSetRobotServo, Encode_SetRobotServo
<1>9. CASE c.fn = "ubtSetRobotVolume"
  BY <1>9 DEF ubtSetRobotVolume, Encode_SetRobotVolume
<1>10. CASE c.fn = "ubtReadSensorValue"
  BY <1>10 DEF ubtReadSensorValue, Encode_ReadSensorValue
<1>11. CASE c.fn = "ubtReadSensorValueByAddr"
  BY <1>11 DEF ubtReadSensorValueByAddr, Encode_ReadSensorValueByAddr
<1>12. CASE c.fn = "ubtSetRobotLED"
  BY <1>12 DEF ubtSetRobotLED, Encode_SetRobotLED
<1>13. CASE c.fn = "ubtStartRobotAction"
  BY <1>13 DEF ubtStartRobotAction, Encode_StartRobotAction
<1>14. CASE c.fn = "ubtStopRobotAction"
  BY <1>14 DEF ubtStopRobotAction, Encode_StopRobotAction
<1>15. CASE c.fn = "ubtVoiceStart"
  BY <1>15 DEF ubtVoiceStart, Encode_VoiceStart
<1>16. CASE c.fn = "ubtVoiceStop"
  BY <1>16 DEF ubtVoiceStop, Encode_VoiceStop
<1>17. CASE c.fn = "ubtVoiceTTS"
  BY <1>17 DEF ubtVoiceTTS, Encode_VoiceTTS
<1>18. CASE c.fn = "ubtPlayMusic"
  BY <1>18 DEF ubtPlayMusic, Encode_PlayMusic
<1>19. CASE c.fn = "ubtGetMusicList"
  BY <1>19 DEF ubtGetMusicList, Encode_GetMusic
<1>20. CASE c.fn = "ubtEventDetect"
  BY <1>20 DEF ubtEventDetect, Encode_EventDetect
<1>21. CASE c.fn = "ubtVisionDetect"
  BY <1>21 DEF ubtVisionDetect, Encode_VisionDetect
<1>22. CASE c.fn = "ubtTakeAPhoto"
  BY <1>22 DEF ubtTakeAPhoto, Encode_TakePhotos
<1>23. CASE c.fn = "ubtTransmitCMD"
  BY <1>23 DEF ubtTransmitCMD, Encode_TransmitCMD
<1>24. CASE c.fn = "ubtSearchExtendSensor"
  BY <1>24 DEF ubtSearchExtendSensor, Encode_SearchSensor
<1>25. CASE c.fn = "ubtModifyExtendSensorID"
  BY <1>25 DEF ubtModifyExtendSensorID, Encode_ModifySensorID
<1> QED
  BY <1>1, <1>2, <1>3, <1>4, <1>5, <1>6, <1>7, <1>8, <1>9, <1>10, <1>11, <1>12, <1>13, 
     <1>14, <1>15, <1>16, <1>17, <1>18, <1>19, <1>20, <1>21, <1>22, <1>23, <1>24, <1>25
     DEF Asking
-----------------------------------------------------------------------------
(* What is sent: the request cannot be read, or it is the encoded one but for *)
(* its port, which is the caller's or still the session's, and for a field    *)
(* that the application gave; with pointers of four bytes and no "port" in    *)
(* what the application gave it is the encoded one with the caller's port.    *)
Kept(m, told, p) ==
    /\ DOMAIN told = DOMAIN m /\ told.port \in {p, SdkPort}
    /\ told.cmd = m.cmd \/ "cmd" \notin DOMAIN m
    /\ GivenAhead(m) = {} => told = [m EXCEPT !.port = told.port]

LEMMA FrontIsText == ASSUME NEW m PROVE Front(m) \in Fronts /\ Front(m) \in Seq(Int)
<1>1. \A v \in DOMAIN PortTexts : Word \o PortTexts[v] \in Seq(Int)
  <2> SUFFICES ASSUME NEW v \in DOMAIN PortTexts PROVE Word \o PortTexts[v] \in Seq(Int)
    OBVIOUS
  <2>1. Letter \subseteq Int
    BY DEF Letter
  <2>2. PortTexts[v] \in Seq(Int)
    BY <2>1, RequestAssumption, SeqMonotonic
  <2>3. Word \in Seq(Int)
    BY DEF Word
  <2> QED BY <2>2, <2>3, InRow
<1>2. CASE HoldsPort(m)
  <2>1. \A f, g \in GivenAhead(m) : f = g
    BY DEF GivenAhead
  <2>2. m[CHOOSE f \in GivenAhead(m) : TRUE] \in DOMAIN PortTexts
    BY <1>2, <2>1 DEF HoldsPort
  <2> QED BY <1>1, <1>2, <2>2 DEF Front, Fronts
<1>3. CASE ~ HoldsPort(m)
  BY <1>3, EmptySeq DEF Front, Fronts
<1> QED BY <1>2, <1>3

LEMMA PortGiven ==
    ASSUME NEW m, NEW p \in Ports, UnderWay(m), "port" \in DOMAIN m, m.port = SdkPort
    PROVE  /\ UnderWay(WithPort(m, p))
           /\ WithPort(m, p) = Unparsable \/ Kept(m, WithPort(m, p), p)
           /\ PtrSize = 4 /\ ~ HoldsPort(m) => WithPort(m, p) = [m EXCEPT !.port = p]
<1> DEFINE ports == Readable[Front(m)][SdkPort][p]
           text == SetPort(Front(m) \o PortField(Tab, SdkPort), p, PtrSize)
           base == IF HoldsPort(m) THEN Mangled(m) ELSE m
<1>0. p \in Port /\ SdkPort \in Port /\ Ports \subseteq Port
  BY RequestAssumption
<1>1. ports = {n \in Ports \cup {SdkPort} : Reads(text, n)}
  <2>1. PICK f \in Fronts : f = Front(m)
    BY FrontIsText
  <2>2. SdkPort \in Ports \cup {SdkPort}
    OBVIOUS
  <2>3. Readable[f][SdkPort][p] =
          {n \in Ports \cup {SdkPort} : Reads(SetPort(f \o PortField(Tab, SdkPort), p, PtrSize), n)}
    BY <2>2 DEF Readable
  <2> QED BY <2>1, <2>3
<1>2. WithPort(m, p) = IF ports = {} THEN Unparsable ELSE [base EXCEPT !.port = CHOOSE n \in ports : TRUE]
  BY DEF WithPort
<1>3. \A n \in ports : n \in {p, SdkPort}
  <2> SUFFICES ASSUME NEW n \in ports PROVE n \in {p, SdkPort}
    OBVIOUS
  <2>1. n \in Port /\ Reads(text, n)
    BY <1>0, <1>1
  <2>2. PtrSize \in {4, 8}
    BY RequestAssumption
  <2> HIDE DEF ports
  <2> QED BY <1>0, <2>1, <2>2, FrontIsText, EitherPort
<1>4. PtrSize = 4 /\ ~ HoldsPort(m) => ports = {p}
  <2> SUFFICES ASSUME PtrSize = 4, ~ HoldsPort(m) PROVE ports = {p}
    OBVIOUS
  <2>1. Front(m) = <<>>
    BY DEF Front
  <2>2. Tab \in {Blank, Tab} /\ Blank \in {Blank, Tab}
    OBVIOUS
  <2>3. <<>> \o PortField(Tab, SdkPort) = PortField(Tab, SdkPort)
    BY <1>0, <2>2, FieldText, ConcatEmptySeq
  <2>4. text = PortField(Blank, p)
    BY <1>0, <2>1, <2>3, NewPort
  <2>5. Reads(text, p) /\ \A n \in Port : Reads(text, n) => n = p
    BY <1>0, <2>2, <2>4, ReadsField
  <2> HIDE DEF text, ports
  <2> QED BY <1>0, <1>1, <2>5
<1> HIDE DEF ports, text
<1>5. CASE ports = {}
  BY <1>2, <1>4, <1>5 DEF UnderWay, Unparsable
<1>6. CASE ports # {}
  <2>1. PICK n \in ports : n = CHOOSE x \in ports : TRUE
    BY <1>6
  <2>2. WithPort(m, p) = [base EXCEPT !.port = n] /\ n \in {p, SdkPort}
    BY <1>2, <1>3, <1>6, <2>1
  <2>3. DOMAIN base = DOMAIN m
    BY DEF Mangled
  <2>4. DOMAIN WithPort(m, p) = DOMAIN m /\ WithPort(m, p).port = n
    <3> HIDE DEF base
    <3> QED BY <2>2, <2>3
  <2>5. "cmd" \in DOMAIN m => WithPort(m, p).cmd = m.cmd
    <3>1. "cmd" \notin GivenAhead(m)
      BY DEF GivenAhead
    <3>2. "cmd" \in DOMAIN m => base.cmd = m.cmd
      BY <3>1 DEF Mangled
    <3> HIDE DEF base
    <3> QED BY <2>2, <2>3, <3>2
  <2>6. ~ HoldsPort(m) => WithPort(m, p) = [m EXCEPT !.port = n]
    BY <2>2
  <2>7. GivenAhead(m) = {} => ~ HoldsPort(m)
    BY DEF HoldsPort
  <2>8. UnderWay(WithPort(m, p))
    BY <2>4 DEF UnderWay
  <2>9. Kept(m, WithPort(m, p), p)
    BY <2>2, <2>4, <2>5, <2>6, <2>7 DEF Kept
  <2> QED BY <1>4, <2>1, <2>6, <2>8, <2>9
<1> QED BY <1>5, <1>6

LEMMA StillNoAction ==
    ASSUME NEW m, NEW p \in Ports, UnderWay(m), "port" \in DOMAIN m, m.port = SdkPort,
           StartsAction(WithPort(m, p))
    PROVE  StartsAction(m)
<1>1. WithPort(m, p) # Unparsable
  BY DEF StartsAction, Is, Has, Unparsable
<1>2. Kept(m, WithPort(m, p), p)
  BY <1>1, PortGiven
<1>3. "cmd" \in DOMAIN m /\ m.cmd = "action"
  BY <1>2 DEF Kept, StartsAction, Is, Has
<1>4. GivenAhead(m) = {}
  BY <1>3 DEF GivenAhead
<1>5. PICK n : WithPort(m, p) = [m EXCEPT !.port = n]
  BY <1>2, <1>4 DEF Kept
<1> QED BY <1>5 DEF StartsAction, Is, Has

-----------------------------------------------------------------------------
(* Type correctness.  Beside TypeOK: a call past its checks is one of those   *)
(* that ask, its verdict, once there, is one of the four codes, it has a      *)
(* number, and no port but while it uses its socket.                          *)

Shaped ==
    /\ DOMAIN call = Threads /\ DOMAIN buf = Threads /\ DOMAIN left = Threads
    /\ DOMAIN sent = Ids /\ DOMAIN answer = Ids

CallFits ==
    \A t \in Threads :
        /\ at[t] = "begin" => call[t].fn \in Asking \cup {"ubtSetRobotMotion"}
        /\ at[t] \in {"open", "send", "wait", "decode"} => call[t].fn \in Asking
        /\ at[t] = "play" => ret[t] \in Verdicts
        /\ at[t] # "idle" => id[t] \in Ids
        /\ at[t] \notin {"send", "wait"} => port[t] = NoPort

Typed == TypeOK /\ Shaped /\ CallFits /\ SocketsAccounted

(* The sockets in use when a thread moves on. *)
LEMMA HoldingFinite == IsFiniteSet(Holding) /\ Cardinality(Holding) \in Nat
<1>1. IsFiniteSet(Threads) /\ Holding \in SUBSET Threads
  BY RequestAssumption DEF Holding
<1>2. IsFiniteSet(Holding)
  BY <1>1, FS_Subset
<1> QED BY <1>2, FS_CardinalityType

LEMMA HoldingSame ==
    ASSUME TypeOK, NEW t \in Threads, NEW x,
           at' = [at EXCEPT ![t] = x], x \in {"send", "wait"} <=> t \in Holding
    PROVE  Holding' = Holding
  BY DEF Holding, TypeOK

LEMMA HoldingMore ==
    ASSUME TypeOK, NEW t \in Threads, at' = [at EXCEPT ![t] = "send"], t \notin Holding
    PROVE  Holding' = Holding \cup {t} /\ Cardinality(Holding') = Cardinality(Holding) + 1
<1>1. Holding' = Holding \cup {t}
  BY DEF Holding, TypeOK
<1> QED BY <1>1, HoldingFinite, FS_AddElement

LEMMA HoldingLess ==
    ASSUME TypeOK, NEW t \in Threads, NEW x, x \notin {"send", "wait"},
           at' = [at EXCEPT ![t] = x], t \in Holding
    PROVE  /\ Holding' = Holding \ {t}
           /\ Cardinality(Holding') = Cardinality(Holding) - 1
           /\ Cardinality(Holding) >= 1
<1>1. Holding' = Holding \ {t}
  BY DEF Holding, TypeOK
<1>2. Cardinality(Holding \ {t}) = Cardinality(Holding) - 1
  BY HoldingFinite, FS_RemoveElement
<1>3. Cardinality(Holding) # 0
  BY HoldingFinite, FS_EmptySet
<1> QED BY <1>1, <1>2, <1>3, HoldingFinite

LEMMA TypedInit == Init => Typed
<1> SUFFICES ASSUME Init PROVE Typed
  OBVIOUS
<1> USE DEF Init
<1>1. TypeOK
  <2>1. files \in [Numbers -> [by : 0..MaxCalls, complete : BOOLEAN]]
    BY RequestAssumption
  <2>2. at \in [Threads -> At] /\ ret \in [Threads -> Returned]
    BY DEF At, Returned
  <2>3. id \in [Threads -> 0..MaxCalls] /\ got \in [Threads -> 0..MaxCalls] /\ calls \in 0..MaxCalls
    BY RequestAssumption
  <2>4. performed \subseteq Ids /\ gaveUp \subseteq Ids /\ bound \subseteq Ports
    BY Zenon
  <2> QED BY <2>1, <2>2, <2>3, <2>4 DEF TypeOK
<1>2. Shaped /\ CallFits
  BY DEF Shaped, CallFits
<1>3. Holding = {}
  BY DEF Holding
<1>4. SocketsAccounted
  BY <1>3, FS_EmptySet, RequestAssumption DEF SocketsAccounted
<1> QED BY <1>1, <1>2, <1>4 DEF Typed

(* A step that leaves the sockets alone. *)
LEMMA SocketsSame ==
    ASSUME SocketsAccounted, Holding' = Holding, UNCHANGED <<sockets, leaks, port, bound>>
    PROVE  SocketsAccounted'
  BY DEF SocketsAccounted

LEMMA CallTyped == ASSUME Typed, NEW t \in Threads, Call(t) PROVE Typed'
<1> USE DEF Typed
<1>0. PICK c \in CallsOf(t, calls + 1) : Call(t)!(c)
  BY DEF Call
<1>1. calls + 1 \in Ids
  BY <1>0, RequestAssumption DEF TypeOK, Ids
<1>2. TypeOK'
  <2>1. at' \in [Threads -> At] /\ ret' \in [Threads -> Returned]
    BY <1>0 DEF TypeOK, At, Returned
  <2>2. id' \in [Threads -> 0..MaxCalls] /\ got' \in [Threads -> 0..MaxCalls] /\ calls' \in 0..MaxCalls
    BY <1>0, <1>1, RequestAssumption DEF TypeOK, Ids
  <2> QED BY <1>0, <2>1, <2>2 DEF TypeOK, world, history
<1>3. Shaped' /\ CallFits'
  BY <1>0, <1>1, RequestAssumption DEF Shaped, CallFits, TypeOK, world
<1>4. Holding' = Holding
  BY <1>0, HoldingSame DEF Holding
<1>5. SocketsAccounted'
  BY <1>0, <1>4, SocketsSame DEF history
<1> QED BY <1>2, <1>3, <1>5
LEMMA BeginMotionTyped == ASSUME Typed, NEW t \in Threads, BeginMotion(t) PROVE Typed'
<1> USE DEF Typed
<1>1. at' \in [Threads -> At] /\ ret' \in [Threads -> Returned]
  BY DEF BeginMotion, Idle, TypeOK, At, Returned
<1>a. files' \in [Numbers -> [by : 0..MaxCalls, complete : BOOLEAN]]
  <2>1. CASE UNCHANGED files
    BY <2>1 DEF TypeOK
  <2>2. ASSUME NEW n \in Numbers, files' = [files EXCEPT ![n] = [by |-> id[t], complete |-> FALSE]]
        PROVE  files' \in [Numbers -> [by : 0..MaxCalls, complete : BOOLEAN]]
    <3>1. [by |-> id[t], complete |-> FALSE] \in [by : 0..MaxCalls, complete : BOOLEAN]
      BY DEF TypeOK
    <3> QED BY <2>2, <3>1 DEF TypeOK
  <2> QED BY <2>1, <2>2 DEF BeginMotion
<1>2. TypeOK'
  BY <1>1, <1>a DEF BeginMotion, TypeOK, world, history
<1>3. Shaped' /\ CallFits'
  BY DEF BeginMotion, Idle, Shaped, CallFits, TypeOK, world
<1>4. Holding' = Holding
  BY HoldingSame DEF BeginMotion, Idle, Holding
<1>5. SocketsAccounted'
  BY <1>4, SocketsSame DEF BeginMotion, history
<1> QED BY <1>2, <1>3, <1>5

LEMMA WriteMotionTyped == ASSUME Typed, NEW t \in Threads, WriteMotion(t) PROVE Typed'
<1> USE DEF Typed
<1>1. at' \in [Threads -> At] /\ ret' \in [Threads -> Returned]
  BY DEF WriteMotion, Idle, TypeOK, At, Returned
<1>2. files' \in [Numbers -> [by : 0..MaxCalls, complete : BOOLEAN]]
  <2>1. CASE UNCHANGED files
    BY <2>1 DEF TypeOK
  <2>2. CASE files' = [files EXCEPT ![call[t].number] = Written(@, id[t])]
    <3>1. \A file : Written(file, id[t]) \in [by : 0..MaxCalls, complete : BOOLEAN]
      BY RequestAssumption DEF TypeOK, Written
    <3> QED BY <2>2, <3>1 DEF TypeOK
  <2> QED BY <2>1, <2>2 DEF WriteMotion
<1>3. TypeOK'
  BY <1>1, <1>2 DEF WriteMotion, TypeOK, world, history
<1>4. Shaped' /\ CallFits'
  BY DEF WriteMotion, Idle, Shaped, CallFits, Asking, TypeOK, world
<1>5. Holding' = Holding
  BY HoldingSame DEF WriteMotion, Idle, Holding
<1>6. SocketsAccounted'
  BY <1>5, SocketsSame DEF WriteMotion, history
<1> QED BY <1>3, <1>4, <1>6

LEMMA BeginTyped == ASSUME Typed, NEW t \in Threads, Begin(t) PROVE Typed'
<1> USE DEF Typed
<1>1. call[t].fn \in Asking
  BY DEF Begin, CallFits
<1>2. Begun(call[t]).rc \in Returned
  BY <1>1, BegunAsks DEF BegunFits, Returned
<1>3. at' \in [Threads -> At] /\ ret' \in [Threads -> Returned]
  BY <1>2 DEF Begin, Idle, TypeOK, At
<1>4. TypeOK'
  BY <1>3 DEF Begin, TypeOK, process, world, history
<1>5. Shaped' /\ CallFits'
  BY <1>1 DEF Begin, Idle, Shaped, CallFits, TypeOK, world
<1>6. Holding' = Holding
  BY HoldingSame DEF Begin, Idle, Holding
<1>7. SocketsAccounted'
  BY <1>6, SocketsSame DEF Begin, process, history
<1> QED BY <1>4, <1>5, <1>7

LEMMA OpenTyped == ASSUME Typed, NEW t \in Threads, Open(t) PROVE Typed'
<1> USE DEF Typed
<1>1. at' \in [Threads -> At] /\ ret' \in [Threads -> Returned]
  BY DEF Open, Idle, TypeOK, At, Returned
<1>2. port' \in [Threads -> Ports \cup {NoPort}] /\ bound' \subseteq Ports
  BY DEF Open, TypeOK
<1>3. TypeOK'
  BY <1>1, <1>2 DEF Open, TypeOK, world
<1>4. Shaped' /\ CallFits'
  BY DEF Open, Idle, Shaped, CallFits, TypeOK, world
<1>5. t \notin Holding
  BY DEF Open, Holding
<1>6. ASSUME NEW p \in Ports \ bound, port' = [port EXCEPT ![t] = p], bound' = bound \cup {p},
             sockets' = sockets + 1, at' = [at EXCEPT ![t] = "send"], UNCHANGED leaks
      PROVE  SocketsAccounted'
  <2>1. Holding' = Holding \cup {t} /\ Cardinality(Holding') = Cardinality(Holding) + 1
    BY <1>5, <1>6, HoldingMore
  <2>2. sockets' = Cardinality(Holding') + leaks'
    BY <1>6, <2>1, HoldingFinite DEF SocketsAccounted, TypeOK
  <2>3. ASSUME NEW u \in Threads PROVE port'[u] \in bound' <=> u \in Holding'
    <3>1. CASE u = t
      BY <1>6, <2>1, <3>1 DEF TypeOK
    <3>2. CASE u # t
      <4>1. port[u] # p
        BY <3>2, RequestAssumption DEF SocketsAccounted, CallFits, TypeOK, Holding
      <4> QED BY <1>6, <2>1, <3>2, <4>1 DEF SocketsAccounted, TypeOK
    <3> QED BY <3>1, <3>2
  <2>4. \A u, v \in Holding' : port'[u] = port'[v] => u = v
    BY <1>6, <2>1 DEF SocketsAccounted, TypeOK, Holding
  <2> QED BY <2>2, <2>3, <2>4 DEF SocketsAccounted
<1>7. ASSUME at' = [at EXCEPT ![t] = "idle"], UNCHANGED <<port, bound>>,
             \/ sockets' = sockets + 1 /\ leaks' = leaks + 1
             \/ UNCHANGED <<sockets, leaks>>
      PROVE  SocketsAccounted'
  <2>1. Holding' = Holding
    BY <1>5, <1>7, HoldingSame
  <2> QED BY <1>7, <2>1, HoldingFinite DEF SocketsAccounted, TypeOK
<1>8. SocketsAccounted'
  BY <1>6, <1>7 DEF Open, Idle
<1> QED BY <1>3, <1>4, <1>8

LEMMA SendTyped == ASSUME Typed, NEW t \in Threads, Send(t) PROVE Typed'
<1> USE DEF Typed
<1>1. at' \in [Threads -> At] /\ ret' \in [Threads -> Returned]
  BY DEF Send, Idle, TypeOK, At, Returned
<1>2. port' \in [Threads -> Ports \cup {NoPort}] /\ leaks' \in Nat
  BY DEF Send, TypeOK
<1>3. TypeOK'
  BY <1>1, <1>2 DEF Send, TypeOK, process
<1>4. Shaped' /\ CallFits'
  BY DEF Send, Idle, Shaped, CallFits, TypeOK
<1>5. t \in Holding
  BY DEF Send, Holding
<1>6. ASSUME at' = [at EXCEPT ![t] = "wait"], UNCHANGED <<port, leaks>>
      PROVE  SocketsAccounted'
  <2>1. Holding' = Holding
    BY <1>5, <1>6, HoldingSame
  <2> QED BY <1>6, <2>1, SocketsSame DEF Send, process
<1>7. ASSUME at' = [at EXCEPT ![t] = "idle"], port' = [port EXCEPT ![t] = NoPort], leaks' = leaks + 1
      PROVE  SocketsAccounted'
  <2>1. /\ Holding' = Holding \ {t}
        /\ Cardinality(Holding') = Cardinality(Holding) - 1
    BY <1>5, <1>7, HoldingLess
  <2>2. sockets' = Cardinality(Holding') + leaks'
    BY <1>7, <2>1, HoldingFinite DEF SocketsAccounted, TypeOK, Send, process
  <2>3. ASSUME NEW u \in Threads PROVE port'[u] \in bound' <=> u \in Holding'
    <3>1. CASE u = t
      BY <1>7, <2>1, <3>1, RequestAssumption DEF TypeOK, Send, process
    <3>2. CASE u # t
      BY <1>7, <2>1, <3>2 DEF SocketsAccounted, TypeOK, Send, process
    <3> QED BY <3>1, <3>2
  <2>4. \A u, v \in Holding' : port'[u] = port'[v] => u = v
    BY <1>7, <2>1 DEF SocketsAccounted, TypeOK, Holding
  <2> QED BY <2>2, <2>3, <2>4 DEF SocketsAccounted
<1>8. SocketsAccounted'
  BY <1>6, <1>7 DEF Send, Idle
<1> QED BY <1>3, <1>4, <1>8

(* Receive and Timeout close the socket. *)
LEMMA CloseAccounted ==
    ASSUME TypeOK, SocketsAccounted, NEW t \in Threads, at[t] = "wait", Close(t), UNCHANGED leaks,
           NEW x, x \notin {"send", "wait"}, at' = [at EXCEPT ![t] = x]
    PROVE  SocketsAccounted' /\ sockets' \in Nat
<1>1. t \in Holding
  BY DEF Holding
<1>2. /\ Holding' = Holding \ {t}
      /\ Cardinality(Holding') = Cardinality(Holding) - 1
      /\ Cardinality(Holding) >= 1
  BY <1>1, HoldingLess
<1>3. sockets' = Cardinality(Holding') + leaks' /\ sockets' \in Nat
  BY <1>2, HoldingFinite DEF SocketsAccounted, TypeOK, Close
<1>4. \A u \in Threads : port'[u] \in bound' <=> u \in Holding'
  <2> SUFFICES ASSUME NEW u \in Threads PROVE port'[u] \in bound' <=> u \in Holding'
    OBVIOUS
  <2>1. CASE u = t
    BY <1>2, <2>1, RequestAssumption DEF TypeOK, Close
  <2>2. CASE u # t
    BY <1>1, <1>2, <2>2 DEF SocketsAccounted, TypeOK, Close
  <2> QED BY <2>1, <2>2
<1>5. \A u, v \in Holding' : port'[u] = port'[v] => u = v
  BY <1>2 DEF SocketsAccounted, TypeOK, Holding, Close
<1> QED BY <1>3, <1>4, <1>5 DEF SocketsAccounted

LEMMA ReceiveTyped == ASSUME Typed, NEW t \in Threads, Receive(t) PROVE Typed'
<1> USE DEF Typed
<1>0. PICK i \in Ids : Receive(t)!(i)
  BY DEF Receive
<1>1. SocketsAccounted' /\ sockets' \in Nat
  BY <1>0, CloseAccounted
<1>2. at' \in [Threads -> At] /\ got' \in [Threads -> 0..MaxCalls]
  BY <1>0 DEF TypeOK, At, Ids
<1>3. port' \in [Threads -> Ports \cup {NoPort}] /\ bound' \subseteq Ports
  BY <1>0 DEF TypeOK, Close
<1>4. gaveUp' \subseteq Ids
  <2>1. id[t] \in Ids
    BY <1>0 DEF CallFits
  <2> QED BY <1>0, <2>1 DEF TypeOK
<1>5. TypeOK'
  BY <1>0, <1>1, <1>2, <1>3, <1>4 DEF TypeOK
<1>6. Shaped' /\ CallFits'
  BY <1>0 DEF Close, Shaped, CallFits, TypeOK
<1> QED BY <1>1, <1>5, <1>6
LEMMA TimeoutTyped == ASSUME Typed, NEW t \in Threads, Timeout(t) PROVE Typed'
<1> USE DEF Typed
<1>1. SocketsAccounted' /\ sockets' \in Nat
  BY CloseAccounted DEF Timeout, Idle
<1>2. at' \in [Threads -> At] /\ ret' \in [Threads -> Returned]
  BY DEF Timeout, Idle, TypeOK, At, Returned
<1>3. port' \in [Threads -> Ports \cup {NoPort}] /\ bound' \subseteq Ports
  BY DEF Timeout, TypeOK, Close
<1>4. gaveUp' \subseteq Ids
  BY DEF Timeout, TypeOK, CallFits
<1>5. TypeOK'
  BY <1>1, <1>2, <1>3, <1>4 DEF Timeout, TypeOK, world
<1>6. Shaped' /\ CallFits'
  BY DEF Timeout, Close, Idle, Shaped, CallFits, TypeOK, world
<1> QED BY <1>1, <1>5, <1>6

LEMMA DecodeTyped == ASSUME Typed, NEW t \in Threads, Decode(t) PROVE Typed'
<1> USE DEF Typed
<1>1. PICK old \in {"face", ""} : Idle(t, Verdict(call[t], buf[t], old).rc)
  BY DEF Decode
<1>2. Verdict(call[t], buf[t], old).rc \in Returned
  BY VerdictReturned DEF Decode, CallFits
<1>3. at' \in [Threads -> At] /\ ret' \in [Threads -> Returned]
  BY <1>1, <1>2 DEF Idle, TypeOK, At
<1>4. TypeOK'
  BY <1>3 DEF Decode, TypeOK, process, world, history
<1>5. Shaped' /\ CallFits'
  BY <1>1 DEF Decode, Idle, Shaped, CallFits, TypeOK, world
<1>6. Holding' = Holding
  BY <1>1, HoldingSame DEF Decode, Idle, Holding
<1>7. SocketsAccounted'
  BY <1>6, SocketsSame DEF Decode, process, history
<1> QED BY <1>4, <1>5, <1>7

LEMMA DecodeActionTyped == ASSUME Typed, NEW t \in Threads, DecodeAction(t) PROVE Typed'
<1> USE DEF Typed
<1>1. Verdict(call[t], buf[t], "").rc \in Verdicts
  <2>1. call[t].fn \in Asking \ ReadsSensor
    BY DEF DecodeAction, Asking, ReadsSensor
  <2> QED BY <2>1, VerdictRc
<1>2. at' \in [Threads -> At] /\ ret' \in [Threads -> Returned]
  BY <1>1 DEF DecodeAction, TypeOK, At, Verdicts, Returned
<1>3. TypeOK'
  BY <1>2 DEF DecodeAction, TypeOK, process, world, history
<1>4. Shaped' /\ CallFits'
  BY <1>1 DEF DecodeAction, Shaped, CallFits, TypeOK, world
<1>5. Holding' = Holding
  BY HoldingSame DEF DecodeAction, Holding
<1>6. SocketsAccounted'
  BY <1>5, SocketsSame DEF DecodeAction, process, history
<1> QED BY <1>3, <1>4, <1>6

LEMMA PlayTyped == ASSUME Typed, NEW t \in Threads, Play(t) PROVE Typed'
<1> USE DEF Typed
<1>1. at' \in [Threads -> At] /\ ret' \in [Threads -> Returned]
  BY DEF Play, Idle, TypeOK, At
<1>2. TypeOK'
  BY <1>1 DEF Play, TypeOK, process, world, history
<1>3. Shaped' /\ CallFits'
  BY DEF Play, Idle, Shaped, CallFits, TypeOK, world
<1>4. Holding' = Holding
  <2>1. CASE UNCHANGED at
    BY <2>1 DEF Holding
  <2>2. CASE at' = [at EXCEPT ![t] = "idle"]
    BY <2>2, HoldingSame DEF Play, Holding
  <2> QED BY <2>1, <2>2 DEF Play, Idle
<1>5. SocketsAccounted'
  BY <1>4, SocketsSame DEF Play, process, history
<1> QED BY <1>2, <1>3, <1>5

(* The robot, the network, the connection and a stuttering step leave the     *)
(* calls alone.                                                               *)
LEMMA WorldTyped ==
    ASSUME Typed, (\E i \in Ids : Robot(i) \/ Lose(i)) \/ Link \/ UNCHANGED vars
    PROVE  Typed'
<1> USE DEF Typed
<1>1. UNCHANGED <<thread, process, history>>
  BY DEF Robot, Lose, Link, vars
<1>2. performed' \subseteq Ids /\ linked' \in BOOLEAN /\ DOMAIN sent' = Ids /\ DOMAIN answer' = Ids
  BY DEF Robot, Lose, Link, vars, world, TypeOK, Shaped
<1>3. TypeOK'
  BY <1>1, <1>2 DEF TypeOK, thread, process, history
<1>4. Shaped' /\ CallFits'
  BY <1>1, <1>2 DEF Shaped, CallFits, thread
<1>5. Holding' = Holding
  BY <1>1 DEF Holding, thread
<1>6. SocketsAccounted'
  BY <1>1, <1>5, SocketsSame DEF thread, process, history
<1> QED BY <1>3, <1>4, <1>6

LEMMA TypedNext == Typed /\ [Next]_vars => Typed'
<1> SUFFICES ASSUME Typed, [Next]_vars PROVE Typed'
  OBVIOUS
<1>1. ASSUME NEW t \in Threads, Call(t) \/ Step(t)
      PROVE  Typed'
  BY <1>1, CallTyped, BeginMotionTyped, WriteMotionTyped, BeginTyped, OpenTyped, SendTyped,
     ReceiveTyped, TimeoutTyped, DecodeTyped, DecodeActionTyped, PlayTyped DEF Step, Comm
<1>2. CASE (\E i \in Ids : Robot(i) \/ Lose(i)) \/ Link \/ UNCHANGED vars
  BY <1>2, WorldTyped
<1> QED BY <1>1, <1>2 DEF Next

LEMMA TypedAlways == Spec => []Typed
  BY TypedInit, TypedNext, PTL DEF Spec

(* The types are right.  (RobotApi.c:362-431 and its callers.)                *)
THEOREM TypeCorrect == Spec => []TypeOK
<1>1. Typed => TypeOK
  BY DEF Typed
<1> QED BY <1>1, TypedAlways, PTL

(* An open socket is that of a call that uses it, or one of those that the    *)
(* calls that could not set their timeout or send have left open; and two     *)
(* calls never wait at one port (RobotApi.c:146-207, 362-431).                *)
THEOREM SocketsCounted == Spec => []SocketsAccounted
<1>1. Typed => SocketsAccounted
  BY DEF Typed
<1> QED BY <1>1, TypedAlways, PTL
-----------------------------------------------------------------------------
(* The numbers of the calls: every thread has its own, and nothing is known   *)
(* of a number that no call has yet.                                          *)

Fresh(i) == ~ UnderWay(sent[i]) /\ ~ UnderWay(answer[i]) /\ i \notin performed

Numbering ==
    /\ \A t \in Threads : id[t] <= calls
    /\ \A t, u \in Threads : id[t] = id[u] /\ id[t] # 0 => t = u
    /\ \A i \in Ids : i > calls => Fresh(i)
    /\ \A n \in Numbers : files[n].by <= calls

LEMMA NothingIsNot == ~ UnderWay(Nothing)
  BY DEF UnderWay, Nothing

LEMMA NumberingInit == Init => Numbering
  BY NothingIsNot, RequestAssumption DEF Init, Numbering, Fresh

LEMMA NumberingNext == Typed /\ Numbering /\ [Next]_vars => Numbering'
<1> SUFFICES ASSUME Typed, Numbering, [Next]_vars PROVE Numbering'
  OBVIOUS
<1> USE DEF Typed
<1>1. ASSUME NEW t \in Threads, Call(t) PROVE Numbering'
  <2>1. calls' = calls + 1 /\ id' = [id EXCEPT ![t] = calls + 1] /\ UNCHANGED <<files, world>>
    BY <1>1 DEF Call
  <2> QED BY <2>1 DEF Numbering, Fresh, TypeOK, Ids, world
<1>2. ASSUME UNCHANGED <<id, calls>>,
             \A i \in Ids : Fresh(i) /\ i > calls => Fresh(i)',
             \A n \in Numbers : files'[n].by \in {files[n].by, 0} \cup {id[t] : t \in Threads}
      PROVE  Numbering'
  <2>1. MaxCalls \in Nat
    BY RequestAssumption
  <2> QED BY <1>2, <2>1 DEF Numbering, TypeOK
<1>3. ASSUME NEW t \in Threads, Step(t) PROVE Numbering'
  <2>1. UNCHANGED <<id, calls>>
    BY <1>3 DEF Step, Comm, BeginMotion, WriteMotion, Begin, Open, Send, Receive, Timeout,
                Decode, DecodeAction, Play, process
  <2>2. ASSUME NEW n \in Numbers
        PROVE  files'[n].by \in {files[n].by, 0} \cup {id[u] : u \in Threads}
    <3>1. CASE UNCHANGED files
      BY <3>1
    <3>2. CASE BeginMotion(t)
      BY <3>2 DEF BeginMotion, TypeOK
    <3>3. CASE WriteMotion(t)
      BY <3>3 DEF WriteMotion, Written, TypeOK
    <3> QED BY <1>3, <3>1, <3>2, <3>3 DEF Step, Comm, Begin, Open, Send, Receive, Timeout,
                                          Decode, DecodeAction, Play, process
  <2>3. ASSUME NEW i \in Ids, Fresh(i), i > calls PROVE Fresh(i)'
    <3>1. CASE UNCHANGED world
      BY <2>3, <3>1 DEF Fresh, world
    <3>2. CASE Send(t)
      <4>1. id[t] # i
        BY <2>3 DEF Numbering, TypeOK, Ids
      <4> QED BY <2>3, <3>2, <4>1 DEF Send, Fresh, Shaped
    <3>3. CASE Receive(t)
      BY <2>3, <3>3, NothingIsNot DEF Receive, Fresh, Shaped
    <3> QED BY <1>3, <3>1, <3>2, <3>3 DEF Step, Comm, BeginMotion, WriteMotion, Begin, Open, Timeout,
                                          Decode, DecodeAction, Play, world
  <2> QED BY <1>2, <2>1, <2>2, <2>3
<1>4. ASSUME NEW i \in Ids, Robot(i) \/ Lose(i) PROVE Numbering'
  <2>1. UNCHANGED <<id, calls, files>>
    BY <1>4 DEF Robot, Lose, thread, process
  <2>2. ASSUME NEW j \in Ids, Fresh(j) PROVE Fresh(j)'
    BY <1>4, <2>2, NothingIsNot DEF Robot, Lose, Fresh, Shaped
  <2> QED BY <1>2, <2>1, <2>2
<1>5. CASE Link \/ UNCHANGED vars
  <2>1. UNCHANGED <<id, calls, files, world>>
    BY <1>5 DEF Link, vars, thread, process
  <2> QED BY <2>1 DEF Numbering, Fresh, world
<1> QED BY <1>1, <1>3, <1>4, <1>5 DEF Next

LEMMA NumberingAlways == Spec => []Numbering
  BY TypedAlways, NumberingInit, NumberingNext, PTL DEF Spec
-----------------------------------------------------------------------------
(* A call that has not sent yet has left no trace in the world; what it is to *)
(* send is its request as it was encoded.                                     *)

Prepared ==
    \A t \in Threads :
        /\ at[t] \in {"begin", "motion", "open", "send"} => Fresh(id[t])
        /\ at[t] \in {"open", "send"} =>
             /\ buf[t] = Begun(call[t]).msg
             /\ UnderWay(buf[t]) /\ "port" \in DOMAIN buf[t] /\ buf[t].port = SdkPort
             /\ StartsAction(buf[t]) => call[t].fn = "ubtStartRobotAction"

(* What a step of one thread leaves alone. *)
LEMMA StepOfOne ==
    ASSUME Typed, Numbering, NEW t \in Threads, Step(t), NEW u \in Threads, u # t
    PROVE  /\ at'[u] = at[u] /\ call'[u] = call[u] /\ buf'[u] = buf[u] /\ port'[u] = port[u]
           /\ got'[u] = got[u] /\ ret'[u] = ret[u] /\ id' = id
           /\ id[u] \in Ids => id[u] # id[t] /\ sent'[id[u]] = sent[id[u]]
           /\ performed' = performed
<1>1. /\ at'[u] = at[u] /\ call'[u] = call[u] /\ buf'[u] = buf[u] /\ port'[u] = port[u]
      /\ got'[u] = got[u] /\ ret'[u] = ret[u] /\ id' = id
      /\ performed' = performed
  <2> USE DEF Idle, Close, process, world, Typed, TypeOK, Shaped
  <2>1. CASE BeginMotion(t) \/ WriteMotion(t) \/ Begin(t)
    BY <2>1 DEF BeginMotion, WriteMotion, Begin
  <2>2. CASE Open(t) \/ Send(t)
    BY <2>2 DEF Open, Send
  <2>3. CASE Receive(t) \/ Timeout(t)
    BY <2>3 DEF Receive, Timeout
  <2>4. CASE Decode(t) \/ DecodeAction(t) \/ Play(t)
    BY <2>4 DEF Decode, DecodeAction, Play
  <2> QED BY <2>1, <2>2, <2>3, <2>4 DEF Step, Comm
<1>2. ASSUME id[u] \in Ids PROVE id[u] # id[t]
  BY <1>2 DEF Numbering, Ids
<1>3. sent' = sent \/ \E m : sent' = [sent EXCEPT ![id[t]] = m]
  BY DEF Step, Comm, BeginMotion, WriteMotion, Begin, Open, Send, Receive, Timeout, Decode,
         DecodeAction, Play, world
<1> QED BY <1>1, <1>2, <1>3 DEF Typed, Shaped

(* A socket that is used is bound. *)
LEMMA SendsBound == ASSUME Typed, NEW t \in Threads, at[t] \in {"send", "wait"} PROVE port[t] \in Ports
  BY DEF Typed, TypeOK, SocketsAccounted, Holding

LEMMA PreparedInit == Init => Prepared
  BY DEF Init, Prepared

LEMMA PreparedNext == Typed /\ Numbering /\ Prepared /\ [Next]_vars => Prepared'
<1> SUFFICES ASSUME Typed, Numbering, Prepared, [Next]_vars PROVE Prepared'
  OBVIOUS
<1> USE DEF Typed
<1>1. ASSUME NEW t \in Threads, Call(t) PROVE Prepared'
  <2>1. /\ at' = [at EXCEPT ![t] = "begin"] /\ id' = [id EXCEPT ![t] = calls + 1]
        /\ calls + 1 \in Ids
        /\ UNCHANGED <<buf, world>>
    BY <1>1, RequestAssumption DEF Call, TypeOK, Ids
  <2>2. \A u \in Threads \ {t} : call'[u] = call[u]
    BY <1>1 DEF Call, Shaped
  <2>3. Fresh(calls + 1)
    BY <2>1 DEF Numbering, TypeOK, Ids
  <2> QED BY <2>1, <2>2, <2>3 DEF Prepared, Fresh, TypeOK, world
<1>2. ASSUME NEW t \in Threads, Step(t) PROVE Prepared'
  <2> SUFFICES ASSUME NEW u \in Threads
               PROVE  /\ at'[u] \in {"begin", "motion", "open", "send"} => Fresh(id[u])'
                      /\ at'[u] \in {"open", "send"} =>
                           /\ buf'[u] = Begun(call'[u]).msg
                           /\ UnderWay(buf'[u]) /\ "port" \in DOMAIN buf'[u] /\ buf'[u].port = SdkPort
                           /\ StartsAction(buf'[u]) => call'[u].fn = "ubtStartRobotAction"
    BY DEF Prepared
  <2>1. CASE u # t
    <3>1. ASSUME Fresh(id[u]), id[u] \in Ids PROVE Fresh(id[u])'
      <4>1. answer' = answer \/ \E i \in Ids : answer' = [answer EXCEPT ![i] = Nothing]
        BY <1>2 DEF Step, Comm, BeginMotion, WriteMotion, Begin, Open, Send, Receive, Timeout,
                    Decode, DecodeAction, Play, world
      <4>2. ~ UnderWay(answer'[id[u]])
        BY <3>1, <4>1, NothingIsNot DEF Fresh, Shaped
      <4> QED BY <1>2, <2>1, <3>1, <4>2, StepOfOne DEF Fresh
    <3>2. at[u] # "idle" => id[u] \in Ids
      BY DEF CallFits
    <3> QED BY <1>2, <2>1, <3>1, <3>2, StepOfOne DEF Prepared
  <2>2. CASE u = t
    <3>1. CASE BeginMotion(t)
      BY <2>2, <3>1 DEF BeginMotion, Idle, Prepared, Fresh, TypeOK, world
    <3>2. CASE WriteMotion(t)
      BY <2>2, <3>2 DEF WriteMotion, Idle, Prepared, Fresh, TypeOK, world
    <3>3. CASE Begin(t)
      <4>1. call[t].fn \in Asking
        BY <3>3 DEF Begin, CallFits
      <4>2. BegunFits(call[t])
        BY <4>1, BegunAsks
      <4> QED BY <2>2, <3>3, <4>2 DEF Begin, Idle, BegunFits, Prepared, Fresh, TypeOK, Shaped, world
    <3>4. CASE Open(t)
      BY <2>2, <3>4 DEF Open, Idle, Prepared, Fresh, TypeOK, world
    <3>5. CASE at'[t] \in {"idle", "wait", "decode", "play"}
      BY <2>2, <3>5
    <3>6. Send(t) \/ Receive(t) \/ Timeout(t) \/ Decode(t) \/ DecodeAction(t) \/ Play(t)
          => at'[t] \in {"idle", "wait", "decode", "play"}
      BY DEF Send, Receive, Timeout, Decode, DecodeAction, Play, Idle, TypeOK
    <3> QED BY <1>2, <3>1, <3>2, <3>3, <3>4, <3>5, <3>6 DEF Step, Comm
  <2> QED BY <2>1, <2>2
<1>3. ASSUME NEW i \in Ids, Robot(i) \/ Lose(i) PROVE Prepared'
  <2>1. \A j \in Ids : Fresh(j) => Fresh(j)'
    BY <1>3, NothingIsNot DEF Robot, Lose, Fresh, Shaped
  <2>2. UNCHANGED thread
    BY <1>3 DEF Robot, Lose
  <2> QED BY <2>1, <2>2 DEF Prepared, CallFits, thread
<1>4. CASE Link \/ UNCHANGED vars
  BY <1>4 DEF Link, vars, thread, world, Prepared, Fresh
<1> QED BY <1>1, <1>2, <1>3, <1>4 DEF Next

LEMMA PreparedAlways == Spec => []Prepared
  BY TypedAlways, NumberingAlways, PreparedInit, PreparedNext, PTL DEF Spec
-----------------------------------------------------------------------------
(* Retries.  A code other than "none" is that of a call with a number.        *)

Retry == RetrySafe /\ \A t \in Threads : ret[t] # "none" => id[t] \in Ids

RetryCodes == {"WRONG_PARAM", "NORESOURCE", "SOCKET_FAILED", "SOCKET_SENDERROR"}
SafeFor(t) == /\ at[t] = "idle" /\ call[t].fn \notin ReadsSensor /\ ret[t] \in RetryCodes
              => id[t] \notin performed /\ ~ UnderWay(sent[id[t]])

LEMMA RetryNext == Typed /\ Numbering /\ Prepared /\ Retry /\ [Next]_vars => Retry'
<1> SUFFICES ASSUME Typed, Numbering, Prepared, Retry, [Next]_vars PROVE Retry'
  OBVIOUS
<1> USE DEF Typed
<1>0. \A t \in Threads : SafeFor(t)
  BY DEF Retry, RetrySafe, SafeFor, Done, RetryCodes
<1>1. ASSUME NEW t \in Threads, Call(t) PROVE Retry'
  <2>1. /\ at' = [at EXCEPT ![t] = "begin"] /\ ret' = [ret EXCEPT ![t] = "none"]
        /\ \A u \in Threads \ {t} : call'[u] = call[u] /\ id'[u] = id[u]
        /\ UNCHANGED world
    BY <1>1 DEF Call, TypeOK, Shaped
  <2>2. \A u \in Threads : SafeFor(u)'
    BY <1>0, <2>1 DEF SafeFor, TypeOK, world, RetryCodes
  <2>3. \A u \in Threads : ret'[u] # "none" => id'[u] \in Ids
    BY <2>1 DEF Retry, TypeOK
  <2> QED BY <2>2, <2>3 DEF Retry, RetrySafe, SafeFor, Done, RetryCodes
<1>2. ASSUME NEW t \in Threads, Step(t) PROVE Retry'
  <2>1. id' = id /\ performed' = performed
    BY <1>2 DEF Step, Comm, BeginMotion, WriteMotion, Begin, Open, Send, Receive, Timeout, Decode,
                DecodeAction, Play, process, world
  <2>2. id[t] \in Ids
    BY <1>2 DEF Step, Comm, BeginMotion, WriteMotion, Begin, Open, Send, Receive, Timeout, Decode,
                DecodeAction, Play, CallFits
  <2>3. ASSUME NEW u \in Threads PROVE ret'[u] # "none" => id'[u] \in Ids
    BY <1>2, <2>1, <2>2, StepOfOne DEF Retry
  <2>4. ASSUME NEW u \in Threads, u # t PROVE SafeFor(u)'
    <3>1. ret[u] \in RetryCodes => id[u] \in Ids
      BY DEF Retry, RetryCodes
    <3> QED BY <1>0, <1>2, <2>4, <3>1, StepOfOne DEF SafeFor
  <2>5. SafeFor(t)'
    <3>1. CASE BeginMotion(t) \/ WriteMotion(t) \/ Begin(t) \/ Open(t)
      <4>1. Fresh(id[t]) /\ UNCHANGED world
        BY <3>1 DEF Prepared, BeginMotion, WriteMotion, Begin, Open
      <4> QED BY <2>1, <4>1 DEF Fresh, SafeFor, world
    <3>2. CASE Send(t)
      <4>1. Fresh(id[t]) /\ (UNCHANGED sent \/ at'[t] = "wait")
        BY <3>2 DEF Prepared, Send, TypeOK
      <4> QED BY <2>1, <4>1 DEF Fresh, SafeFor
    <3>3. CASE Receive(t) \/ DecodeAction(t)
      BY <3>3 DEF Receive, DecodeAction, SafeFor, TypeOK
    <3>4. CASE Timeout(t)
      BY <3>4 DEF Timeout, Idle, SafeFor, RetryCodes, TypeOK
    <3>5. CASE Decode(t)
      <4>1. PICK old \in {"face", ""} : Idle(t, Verdict(call[t], buf[t], old).rc)
        BY <3>5 DEF Decode
      <4>2. call[t].fn \notin ReadsSensor => Verdict(call[t], buf[t], old).rc \in Verdicts
        BY <3>5, VerdictRc DEF Decode, CallFits
      <4> QED BY <3>5, <4>1, <4>2 DEF Decode, Idle, SafeFor, RetryCodes, Verdicts, TypeOK
    <3>6. CASE Play(t)
      BY <3>6 DEF Play, Idle, SafeFor, CallFits, RetryCodes, Verdicts, TypeOK
    <3> QED BY <1>2, <3>1, <3>2, <3>3, <3>4, <3>5, <3>6 DEF Step, Comm
  <2> QED BY <2>3, <2>4, <2>5 DEF Retry, RetrySafe, SafeFor, Done, RetryCodes
<1>3. ASSUME NEW i \in Ids, Robot(i) \/ Lose(i) PROVE Retry'
  <2>1. UNCHANGED thread
    BY <1>3 DEF Robot, Lose
  <2>2. ASSUME NEW j \in Ids, j \notin performed, ~ UnderWay(sent[j])
        PROVE  j \notin performed' /\ ~ UnderWay(sent'[j])
    BY <1>3, <2>2, NothingIsNot DEF Robot, Lose, Shaped
  <2>3. ASSUME NEW t \in Threads PROVE SafeFor(t)'
    <3>1. ret[t] \in RetryCodes => id[t] \in Ids
      BY DEF Retry, RetryCodes
    <3> QED BY <1>0, <2>1, <2>2, <3>1 DEF SafeFor, thread
  <2> QED BY <2>1, <2>3 DEF Retry, RetrySafe, SafeFor, Done, RetryCodes, thread
<1>4. CASE Link \/ UNCHANGED vars
  BY <1>4 DEF Link, vars, thread, world, Retry, RetrySafe, Done
<1> QED BY <1>1, <1>2, <1>3, <1>4 DEF Next

(* A call that failed before it sent, or said that it could not send, has     *)
(* done nothing at the robot and never will: it may be made again             *)
(* (RobotApi.c:362-431; the codes of the encoders, sockets and sends).        *)
THEOREM RetryIsSafe == Spec => []RetrySafe
<1>1. Init => Retry
  BY DEF Init, Retry, RetrySafe
<1>2. Retry => RetrySafe
  BY DEF Retry
<1> QED BY <1>1, <1>2, TypedAlways, NumberingAlways, PreparedAlways, RetryNext, PTL DEF Spec

-----------------------------------------------------------------------------
(* The port in a request. *)

Named(t) ==
    at[t] = "wait" /\ UnderWay(sent[id[t]]) =>
        LET asked == Begun(call[t]).msg
            told  == sent[id[t]]
        IN  /\ ~ HoldsPort(asked) => told = [asked EXCEPT !.port = port[t]]
            /\ Parses(told) => told.port \in {port[t], SdkPort}

LEMMA RequestNamesNext ==
    ASSUME PtrSize = 4, Typed, Numbering, Prepared, RequestNamesItsSocket, [Next]_vars
    PROVE  RequestNamesItsSocket'
<1> USE DEF Typed
<1> SUFFICES ASSUME NEW u \in Threads PROVE Named(u)'
  BY DEF RequestNamesItsSocket, Named
<1>0. Named(u)
  BY DEF RequestNamesItsSocket, Named
<1>s. ASSUME \/ at'[u] # "wait"
             \/ /\ at'[u] = at[u] /\ id'[u] = id[u] /\ call'[u] = call[u] /\ port'[u] = port[u]
                /\ sent'[id[u]] = sent[id[u]]
      PROVE  Named(u)'
  BY <1>0, <1>s DEF Named
<1>1. ASSUME NEW t \in Threads, Call(t) PROVE Named(u)'
  <2>1. \/ at'[u] # "wait"
        \/ at'[u] = at[u] /\ id'[u] = id[u] /\ call'[u] = call[u]
    BY <1>1 DEF Call, TypeOK, Shaped
  <2>2. port' = port /\ sent' = sent
    BY <1>1 DEF Call, world
  <2> QED BY <1>s, <2>1, <2>2
<1>2. ASSUME NEW t \in Threads, Step(t) PROVE Named(u)'
  <2>1. CASE u # t
    <3>1. at'[u] = "wait" => id[u] \in Ids
      BY <1>2, <2>1, StepOfOne DEF CallFits
    <3> QED BY <1>2, <1>s, <2>1, <3>1, StepOfOne
  <2>2. CASE u = t /\ at'[t] = "wait"
    <3>1. Send(t)
      BY <1>2, <2>2 DEF Step, Comm, BeginMotion, WriteMotion, Begin, Open, Receive, Timeout, Decode,
                        DecodeAction, Play, Idle, TypeOK
    <3>2. id[t] \in Ids /\ at[t] = "send" /\ port[t] \in Ports
      BY <3>1, SendsBound DEF Send, CallFits
    <3>3. PICK m : m = buf[t]
      OBVIOUS
    <3>4. m = Begun(call[t]).msg /\ UnderWay(m) /\ "port" \in DOMAIN m /\ m.port = SdkPort
      BY <3>2, <3>3 DEF Prepared
    <3>5. /\ sent'[id[t]] = WithPort(m, port[t])
          /\ port' = port /\ id' = id /\ call' = call
      BY <2>2, <3>1, <3>2, <3>3 DEF Send, Idle, TypeOK, Shaped
    <3>6. PICK told : told = WithPort(m, port[t])
      OBVIOUS
    <3>7. /\ ~ HoldsPort(m) => told = [m EXCEPT !.port = port[t]]
          /\ Parses(told) => told.port \in {port[t], SdkPort}
      BY PtrSize = 4, <3>2, <3>4, <3>6, PortGiven DEF Kept, Parses, Unparsable
    <3> QED BY <2>2, <3>4, <3>5, <3>6, <3>7 DEF Named
  <2> QED BY <1>s, <2>1, <2>2
<1>3. ASSUME NEW i \in Ids, Robot(i) \/ Lose(i) PROVE Named(u)'
  <2>1. UNCHANGED thread
    BY <1>3 DEF Robot, Lose
  <2>2. CASE at[u] = "wait"
    <3>1. id[u] \in Ids
      BY <2>2 DEF CallFits
    <3>2. sent'[id[u]] = sent[id[u]] \/ ~ UnderWay(sent'[id[u]])
      BY <1>3, <3>1, NothingIsNot DEF Robot, Lose, Shaped
    <3> QED BY <1>0, <1>s, <2>1, <3>2 DEF Named, thread
  <2> QED BY <1>s, <2>1, <2>2 DEF thread
<1>4. CASE Link \/ UNCHANGED vars
  BY <1>4, <1>s DEF Link, vars, thread, world
<1> QED BY <1>1, <1>2, <1>3, <1>4 DEF Next

(* Where a pointer has 4 bytes, as on the robot the SDK is built for, the     *)
(* search, the offset and the loop over the old digits leave a request that   *)
(* asks for its answer at its caller's socket and is otherwise the encoded    *)
(* one, whatever the two ports; unless the application's own text holds       *)
(* "port", and then none asks for it at another caller's (RobotApi.c:376-396).*)
THEOREM RequestsNameTheirSockets == ASSUME PtrSize = 4 PROVE Spec => []RequestNamesItsSocket
<1>1. Init => RequestNamesItsSocket
  BY DEF Init, RequestNamesItsSocket
<1>2. Typed /\ Numbering /\ Prepared /\ RequestNamesItsSocket /\ [Next]_vars => RequestNamesItsSocket'
  BY PtrSize = 4, RequestNamesNext
<1> QED BY <1>1, <1>2, TypedAlways, NumberingAlways, PreparedAlways, PTL DEF Spec
-----------------------------------------------------------------------------
(* The way of an answer: a request under way, or its answer, goes to the port *)
(* of the caller that waits for it, or to none of these calls, or its call    *)
(* has given up.                                                              *)

Waits(i, p) == \E t \in Threads : at[t] = "wait" /\ id[t] = i /\ port[t] = p

Routed ==
    /\ \A i \in Ids :
        /\ ~ (UnderWay(sent[i]) /\ UnderWay(answer[i]))
        /\ UnderWay(sent[i]) /\ Parses(sent[i]) =>
             sent[i].port = SdkPort \/ i \in gaveUp \/ Waits(i, sent[i].port)
        /\ UnderWay(answer[i]) =>
             answer[i].to = SdkPort \/ i \in gaveUp \/ Waits(i, answer[i].to)
    /\ OwnAnswer

LEMMA RoutedInit == Init => Routed
  BY NothingIsNot DEF Init, Routed, OwnAnswer

(* A step that sends and receives nothing, and does not end a wait. *)
LEMMA RoutedQuiet ==
    ASSUME Routed, UNCHANGED <<sent, answer, gaveUp>>,
           \A t \in Threads : \/ at'[t] = at[t] /\ id'[t] = id[t] /\ port'[t] = port[t] /\ got'[t] = got[t]
                              \/ at[t] # "wait" /\ id'[t] = id[t] /\ got'[t] = got[t]
                              \/ at[t] # "wait" /\ got'[t] = 0
    PROVE  Routed'
<1>1. ASSUME NEW i, NEW p, Waits(i, p) PROVE Waits(i, p)'
  BY <1>1 DEF Waits
<1>2. OwnAnswer'
  BY DEF Routed, OwnAnswer
<1> QED BY <1>1, <1>2 DEF Routed

LEMMA RoutedNext == Typed /\ Numbering /\ Prepared /\ Routed /\ [Next]_vars => Routed'
<1> SUFFICES ASSUME Typed, Numbering, Prepared, Routed, [Next]_vars PROVE Routed'
  OBVIOUS
<1> USE DEF Typed
<1>1. ASSUME NEW t \in Threads, Call(t) PROVE Routed'
  <2>1. /\ at[t] = "idle" /\ got' = [got EXCEPT ![t] = 0] /\ UNCHANGED <<sent, answer, gaveUp>>
        /\ \A u \in Threads \ {t} : /\ at'[u] = at[u] /\ id'[u] = id[u]
                                    /\ port'[u] = port[u] /\ got'[u] = got[u]
    BY <1>1 DEF Call, TypeOK, world, history
  <2> QED BY <2>1, RoutedQuiet DEF TypeOK
<1>2. ASSUME NEW t \in Threads, BeginMotion(t) \/ WriteMotion(t) \/ Begin(t) \/ Open(t)
                                \/ Decode(t) \/ DecodeAction(t) \/ Play(t)
      PROVE  Routed'
  <2>1. at[t] # "wait" /\ id' = id /\ got' = got /\ UNCHANGED <<sent, answer, gaveUp>>
    BY <1>2 DEF BeginMotion, WriteMotion, Begin, Open, Decode, DecodeAction, Play, world, history
  <2>2. Step(t)
    BY <1>2 DEF Step, Comm
  <2>3. \A u \in Threads \ {t} : at'[u] = at[u] /\ port'[u] = port[u]
    BY <2>2, StepOfOne
  <2> QED BY <2>1, <2>3, RoutedQuiet
<1>3. ASSUME NEW t \in Threads, Send(t) PROVE Routed'
  <2>1. CASE UNCHANGED sent
    <3>1. at[t] # "wait" /\ UNCHANGED <<sent, answer, gaveUp, id, got>>
      BY <1>3, <2>1 DEF Send
    <3>2. \A u \in Threads \ {t} : at'[u] = at[u] /\ port'[u] = port[u]
      BY <1>3, StepOfOne DEF Step, Comm
    <3> QED BY <3>1, <3>2, RoutedQuiet
  <2>2. CASE sent' = [sent EXCEPT ![id[t]] = WithPort(buf[t], port[t])] /\ at' = [at EXCEPT ![t] = "wait"]
             /\ UNCHANGED port
    <3>1. id[t] \in Ids /\ Fresh(id[t]) /\ "port" \in DOMAIN buf[t] /\ at[t] = "send"
      BY <1>3 DEF Send, CallFits, Prepared
    <3>2. id' = id /\ got' = got /\ answer' = answer /\ gaveUp' = gaveUp
      BY <1>3 DEF Send
    <3>3. at'[t] = "wait" /\ id'[t] = id[t] /\ port'[t] = port[t]
      BY <2>2, <3>2 DEF TypeOK
    <3>4. ASSUME NEW i, NEW p, Waits(i, p) PROVE Waits(i, p)'
      BY <2>2, <3>1, <3>2, <3>4 DEF Waits, TypeOK
    <3>5. ASSUME Parses(sent'[id[t]]) PROVE sent'[id[t]].port \in {port[t], SdkPort}
      <4>1. port[t] \in Ports
        BY <3>1, SendsBound
      <4>2. PICK m : m = buf[t] /\ UnderWay(m) /\ "port" \in DOMAIN m /\ m.port = SdkPort
        BY <3>1 DEF Prepared
      <4>3. sent'[id[t]] = WithPort(m, port[t])
        BY <2>2, <3>1, <4>2 DEF Shaped
      <4> QED BY <3>5, <4>1, <4>2, <4>3, PortGiven DEF Kept, Parses, Unparsable
    <3>6. ASSUME NEW i \in Ids, i # id[t] PROVE sent'[i] = sent[i]
      BY <2>2, <3>6 DEF Shaped
    <3>7. OwnAnswer'
      BY <3>2 DEF Routed, OwnAnswer
    <3>8. ASSUME NEW i \in Ids
          PROVE  /\ ~ (UnderWay(sent'[i]) /\ UnderWay(answer'[i]))
                 /\ UnderWay(sent'[i]) /\ Parses(sent'[i]) =>
                      sent'[i].port = SdkPort \/ i \in gaveUp' \/ Waits(i, sent[i].port)'
                 /\ UnderWay(answer'[i]) =>
                      answer'[i].to = SdkPort \/ i \in gaveUp' \/ Waits(i, answer[i].to)'
      <4>1. CASE i = id[t]
        <5>1. ~ UnderWay(answer'[i])
          BY <3>1, <3>2, <4>1 DEF Fresh
        <5>2. Parses(sent'[i]) => sent'[i].port = SdkPort \/ Waits(i, sent[i].port)'
          BY <3>3, <3>5, <4>1 DEF Waits
        <5> QED BY <5>1, <5>2
      <4>2. CASE i # id[t]
        BY <3>2, <3>4, <3>6, <4>2 DEF Routed
      <4> QED BY <4>1, <4>2
    <3> QED BY <3>7, <3>8 DEF Routed
  <2> QED BY <1>3, <2>1, <2>2 DEF Send
<1>4. ASSUME NEW t \in Threads, at[t] = "wait", Receive(t) \/ Timeout(t) PROVE Routed'
  <2>1. id' = id /\ sent' = sent /\ gaveUp \subseteq gaveUp' /\ id[t] \in Ids
    BY <1>4 DEF Receive, Timeout, world, CallFits
  <2>2. ASSUME NEW i \in Ids, NEW p, Waits(i, p), i # id[t] PROVE Waits(i, p)'
    <3>1. PICK u \in Threads : at[u] = "wait" /\ id[u] = i /\ port[u] = p
      BY <2>2 DEF Waits
    <3>2. u # t
      BY <2>2, <3>1
    <3> QED BY <1>4, <2>1, <3>1, <3>2, StepOfOne DEF Step, Comm, Waits
  <2>3. CASE Timeout(t)
    <3>1. gaveUp' = gaveUp \cup {id[t]} /\ answer' = answer /\ got' = got
      BY <2>3 DEF Timeout, world
    <3>2. OwnAnswer'
      BY <2>1, <3>1 DEF Routed, OwnAnswer
    <3> QED BY <2>1, <2>2, <3>1, <3>2 DEF Routed
  <2>4. CASE Receive(t)
    <3>1. PICK i \in Ids : Receive(t)!(i)
      BY <2>4 DEF Receive
    <3>2. i # id[t] => i \in gaveUp
      <4> SUFFICES ASSUME i \notin gaveUp PROVE i = id[t]
        OBVIOUS
      <4>1. PICK u \in Threads : at[u] = "wait" /\ id[u] = i /\ port[u] = port[t]
        <5>1. port[t] # SdkPort
          BY <1>4, SendsBound, RequestAssumption
        <5> QED BY <3>1, <5>1 DEF Routed, Waits
      <4>2. u = t
        BY <1>4, <4>1 DEF SocketsAccounted, Holding
      <4> QED BY <4>1, <4>2
    <3>3. answer' = [answer EXCEPT ![i] = Nothing] /\ got' = [got EXCEPT ![t] = i]
      BY <3>1
    <3>4. OwnAnswer'
      BY <2>1, <3>2, <3>3 DEF Routed, OwnAnswer, TypeOK
    <3>5. ASSUME NEW j \in Ids
          PROVE  /\ ~ (UnderWay(sent'[j]) /\ UnderWay(answer'[j]))
                 /\ UnderWay(sent'[j]) /\ Parses(sent'[j]) =>
                      sent'[j].port = SdkPort \/ j \in gaveUp' \/ Waits(j, sent[j].port)'
                 /\ UnderWay(answer'[j]) =>
                      answer'[j].to = SdkPort \/ j \in gaveUp' \/ Waits(j, answer[j].to)'
      <4>1. (answer'[j] = answer[j] /\ j # i) \/ ~ UnderWay(answer'[j])
        BY <3>3, NothingIsNot DEF Shaped
      <4>2. CASE j # id[t]
        BY <2>1, <2>2, <4>1, <4>2 DEF Routed
      <4>3. CASE j = id[t] /\ j # i
        BY <2>1, <3>1, <4>1, <4>3 DEF Routed
      <4>4. CASE j = id[t] /\ j = i
        BY <2>1, <3>1, <4>1, <4>4 DEF Routed
      <4> QED BY <4>2, <4>3, <4>4
    <3> QED BY <3>4, <3>5 DEF Routed
  <2> QED BY <1>4, <2>3, <2>4
<1>5. ASSUME NEW i \in Ids, Robot(i) \/ Lose(i) PROVE Routed'
  <2>1. UNCHANGED <<thread, gaveUp>>
    BY <1>5 DEF Robot, Lose, history
  <2>2. \A j, p : Waits(j, p)' <=> Waits(j, p)
    BY <2>1 DEF Waits, thread
  <2>3. OwnAnswer'
    BY <2>1 DEF Routed, OwnAnswer, thread
  <2>4. \A j \in Ids \ {i} : sent'[j] = sent[j] /\ answer'[j] = answer[j]
    BY <1>5 DEF Robot, Lose, Shaped
  <2>5. CASE Lose(i)
    BY <2>1, <2>2, <2>3, <2>4, <2>5, NothingIsNot DEF Lose, Routed, Shaped
  <2>6. CASE Robot(i)
    <3>1. UnderWay(sent[i]) /\ Parses(sent[i]) /\ ~ UnderWay(sent'[i])
      BY <2>6, NothingIsNot DEF Robot, Shaped
    <3>2. answer'[i].to = sent[i].port
      BY <2>6 DEF Robot, Shaped
    <3> QED BY <2>1, <2>2, <2>3, <2>4, <3>1, <3>2 DEF Routed
  <2> QED BY <1>5, <2>5, <2>6
<1>6. CASE Link \/ UNCHANGED vars
  <2>1. UNCHANGED <<thread, world, history>>
    BY <1>6 DEF Link, vars
  <2> QED BY <2>1, RoutedQuiet DEF thread, world, history
<1>7. \A t \in Threads : Receive(t) \/ Timeout(t) => at[t] = "wait"
  BY DEF Receive, Timeout
<1> QED BY <1>1, <1>2, <1>3, <1>4, <1>5, <1>6, <1>7 DEF Next, Step, Comm

(* A call that takes another's answer takes that of a call that gave up: no   *)
(* answer is taken from a call that waits for it (RobotApi.c:146-207,         *)
(* 408-431).                                                                  *)
THEOREM AnswersAreOwn == Spec => []OwnAnswer
<1>1. Routed => OwnAnswer
  BY DEF Routed
<1> QED BY <1>1, TypedAlways, NumberingAlways, PreparedAlways, RoutedInit, RoutedNext, PTL DEF Spec
-----------------------------------------------------------------------------
(* Motion files: what a call writes is whole before it asks for it.           *)

Whole(i) == \A n \in Numbers : files[n].by = i => files[n].complete

FilesKept ==
    /\ \A t \in Threads :
        /\ at[t] = "begin" /\ call[t].fn = "ubtSetRobotMotion" => \A n \in Numbers : files[n].by # id[t]
        /\ at[t] = "motion" => \A n \in Numbers : files[n].by = id[t] => n = call[t].number
        /\ at[t] \in {"begin", "open", "send"} /\ call[t].fn = "ubtStartRobotAction" => Whole(id[t])
    /\ \A i \in Ids : UnderWay(sent[i]) /\ StartsAction(sent[i]) => Whole(i)

LEMMA FilesInit == Init => FilesKept
  BY NothingIsNot DEF Init, FilesKept

(* A step that leaves the files alone, and sends nothing. *)
LEMMA FilesSame ==
    ASSUME FilesKept, UNCHANGED files, \A i \in Ids : sent'[i] = sent[i] \/ ~ UnderWay(sent'[i]),
           \A t \in Threads : \/ at'[t] = at[t] /\ id'[t] = id[t] /\ call'[t] = call[t]
                              \/ at'[t] \notin {"begin", "motion", "open", "send"}
                              \/ /\ at[t] \in {"begin", "open", "send"} /\ at'[t] \in {"open", "send"}
                                 /\ id'[t] = id[t] /\ call'[t] = call[t]
    PROVE  FilesKept'
<1>1. \A i : Whole(i)' <=> Whole(i)
  BY DEF Whole
<1> QED BY <1>1 DEF FilesKept

LEMMA FilesNext == Typed /\ Numbering /\ Prepared /\ FilesKept /\ [Next]_vars => FilesKept'
<1> SUFFICES ASSUME Typed, Numbering, Prepared, FilesKept, [Next]_vars PROVE FilesKept'
  OBVIOUS
<1> USE DEF Typed
<1>1. ASSUME NEW t \in Threads, Call(t) PROVE FilesKept'
  <2>1. /\ at' = [at EXCEPT ![t] = "begin"] /\ id' = [id EXCEPT ![t] = calls + 1]
        /\ UNCHANGED <<files, sent>>
        /\ \A u \in Threads \ {t} : call'[u] = call[u]
    BY <1>1 DEF Call, Shaped, world
  <2>2. \A n \in Numbers : files[n].by # calls + 1
    BY DEF Numbering, TypeOK
  <2>3. \A i : Whole(i)' <=> Whole(i)
    BY <2>1, <2>2 DEF Whole
  <2>4. ASSUME NEW u \in Threads
        PROVE  /\ at'[u] = "begin" /\ call'[u].fn = "ubtSetRobotMotion" => \A n \in Numbers : files'[n].by # id'[u]
               /\ at'[u] = "motion" => \A n \in Numbers : files'[n].by = id'[u] => n = call'[u].number
               /\ at'[u] \in {"begin", "open", "send"} /\ call'[u].fn = "ubtStartRobotAction" => Whole(id[u])'
    <3>1. CASE u = t
      <4>1. at'[u] = "begin" /\ id'[u] = calls + 1
        BY <2>1, <3>1 DEF TypeOK
      <4>2. Whole(id[u])'
        BY <2>1, <2>2, <4>1 DEF Whole
      <4> QED BY <2>1, <2>2, <4>1, <4>2
    <3>2. CASE u # t
      BY <2>1, <2>3, <3>2 DEF FilesKept, TypeOK
    <3> QED BY <3>1, <3>2
  <2> QED BY <2>1, <2>3, <2>4 DEF FilesKept
<1>2. ASSUME NEW t \in Threads, BeginMotion(t) PROVE FilesKept'
  <2>1. /\ at[t] = "begin" /\ call[t].fn = "ubtSetRobotMotion" /\ id[t] \in Ids /\ Fresh(id[t])
        /\ id' = id /\ sent' = sent
    BY <1>2 DEF BeginMotion, CallFits, Prepared, world
  <2>2. \A u \in Threads \ {t} : at'[u] = at[u] /\ call'[u] = call[u] /\ id[u] # id[t]
    <3>1. ASSUME NEW u \in Threads \ {t} PROVE id[u] # id[t]
      BY <2>1, <3>1 DEF Numbering, Ids
    <3> QED BY <1>2, <3>1, StepOfOne DEF Step
  <2>3. CASE UNCHANGED files /\ at'[t] = "idle"
    BY <2>1, <2>2, <2>3, FilesSame
  <2>4. ASSUME NEW n \in Numbers, files' = [files EXCEPT ![n] = [by |-> id[t], complete |-> FALSE]],
               at'[t] = "motion", call'[t].number = n
        PROVE  FilesKept'
    <3>1. \A m \in Numbers : files'[m].by = (IF m = n THEN id[t] ELSE files[m].by)
                             /\ (m # n => files'[m] = files[m])
      BY <2>4 DEF TypeOK
    <3>2. ASSUME NEW i, i # id[t] PROVE Whole(i) => Whole(i)'
      BY <3>1, <3>2 DEF Whole
    <3>3. \A i \in Ids : UnderWay(sent'[i]) /\ StartsAction(sent'[i]) => Whole(i)'
      BY <2>1, <3>2 DEF FilesKept, Fresh
    <3>4. ASSUME NEW u \in Threads
          PROVE  /\ at'[u] = "begin" /\ call'[u].fn = "ubtSetRobotMotion" => \A m \in Numbers : files'[m].by # id'[u]
                 /\ at'[u] = "motion" => \A m \in Numbers : files'[m].by = id'[u] => m = call'[u].number
                 /\ at'[u] \in {"begin", "open", "send"} /\ call'[u].fn = "ubtStartRobotAction" => Whole(id[u])'
      <4>1. CASE u = t
        BY <2>1, <2>4, <3>1, <4>1 DEF FilesKept
      <4>2. CASE u # t
        <5>1. at'[u] = at[u] /\ call'[u] = call[u] /\ id[u] # id[t] /\ id'[u] = id[u]
          BY <2>1, <2>2, <4>2
        <5>2. Whole(id[u]) => Whole(id[u])'
          BY <3>1, <5>1 DEF Whole
        <5> QED BY <3>1, <5>1, <5>2 DEF FilesKept
      <4> QED BY <4>1, <4>2
    <3> QED BY <3>3, <3>4 DEF FilesKept
  <2>5. \/ UNCHANGED files /\ at'[t] = "idle"
        \/ \E n \in Numbers : /\ files' = [files EXCEPT ![n] = [by |-> id[t], complete |-> FALSE]]
                              /\ at'[t] = "motion" /\ call'[t].number = n
    BY <1>2 DEF BeginMotion, Idle, TypeOK, Shaped
  <2> QED BY <2>3, <2>4, <2>5
<1>3. ASSUME NEW t \in Threads, WriteMotion(t) PROVE FilesKept'
  <2>1. at[t] = "motion" /\ id[t] \in Ids /\ id' = id /\ sent' = sent
    BY <1>3 DEF WriteMotion, CallFits, world
  <2>2. \A u \in Threads \ {t} : at'[u] = at[u] /\ call'[u] = call[u]
    BY <1>3, StepOfOne DEF Step
  <2>3. CASE UNCHANGED files /\ \/ at'[t] = "idle"
                                \/ at'[t] = "begin" /\ call'[t].fn = "_ubtSetRobotServo"
    <3>1. \A u \in Threads : Whole(id[u])' <=> Whole(id[u])
      BY <2>1, <2>3 DEF Whole
    <3>2. \A i : Whole(i)' <=> Whole(i)
      BY <2>3 DEF Whole
    <3> QED BY <2>1, <2>2, <2>3, <3>1, <3>2 DEF FilesKept
  <2>4. CASE files' = [files EXCEPT ![call[t].number] = Written(@, id[t])]
             /\ at'[t] = "begin" /\ call'[t].fn = "ubtStartRobotAction"
    <3>1. ASSUME NEW m \in Numbers
          PROVE  /\ m # call[t].number => files'[m] = files[m]
                 /\ m = call[t].number => files'[m].complete \/ files'[m].by = 0
                 /\ files'[m].by \in {files[m].by, 0}
      BY <2>4 DEF Written, TypeOK
    <3>2. ASSUME NEW i \in Ids, Whole(i) PROVE Whole(i)'
      BY <3>1, <3>2 DEF Whole, Ids
    <3>3. Whole(id[t])'
      BY <2>1, <3>1 DEF FilesKept, Whole, Ids
    <3>4. ASSUME NEW u \in Threads
          PROVE  /\ at'[u] = "begin" /\ call'[u].fn = "ubtSetRobotMotion" => \A m \in Numbers : files'[m].by # id'[u]
                 /\ at'[u] = "motion" => \A m \in Numbers : files'[m].by = id'[u] => m = call'[u].number
                 /\ at'[u] \in {"begin", "open", "send"} /\ call'[u].fn = "ubtStartRobotAction" => Whole(id[u])'
      <4>1. CASE u = t
        BY <2>4, <3>3, <4>1
      <4>2. CASE u # t
        <5>1. at'[u] = at[u] /\ call'[u] = call[u] /\ id'[u] = id[u] /\ (at[u] # "idle" => id[u] \in Ids)
          BY <2>1, <2>2, <4>2 DEF CallFits
        <5>2. at[u] # "idle" /\ Whole(id[u]) => Whole(id[u])'
          BY <2>1, <3>1, <5>1 DEF Whole, Ids
        <5> QED BY <3>1, <5>1, <5>2 DEF FilesKept, Ids
      <4> QED BY <4>1, <4>2
    <3>5. \A i \in Ids : UnderWay(sent'[i]) /\ StartsAction(sent'[i]) => Whole(i)'
      BY <2>1, <3>2 DEF FilesKept
    <3> QED BY <3>4, <3>5 DEF FilesKept
  <2>5. \/ UNCHANGED files /\ \/ at'[t] = "idle"
                              \/ at'[t] = "begin" /\ call'[t].fn = "_ubtSetRobotServo"
        \/ /\ files' = [files EXCEPT ![call[t].number] = Written(@, id[t])]
           /\ at'[t] = "begin" /\ call'[t].fn = "ubtStartRobotAction"
    BY <1>3 DEF WriteMotion, Idle, TypeOK, Shaped
  <2> QED BY <2>3, <2>4, <2>5
<1>4. ASSUME NEW t \in Threads, Begin(t) \/ Open(t) \/ Receive(t) \/ Timeout(t) \/ Decode(t)
                                \/ DecodeAction(t) \/ Play(t)
      PROVE  FilesKept'
  <2>1. files' = files /\ id' = id /\ sent' = sent /\ call' = call
    BY <1>4 DEF Begin, Open, Receive, Timeout, Decode, DecodeAction, Play, process, world
  <2>2. \A u \in Threads \ {t} : at'[u] = at[u]
    BY <1>4, StepOfOne DEF Step, Comm
  <2>3. \/ at'[t] = at[t]
        \/ at'[t] \notin {"begin", "motion", "open", "send"}
        \/ at[t] \in {"begin", "open", "send"} /\ at'[t] \in {"open", "send"}
    BY <1>4 DEF Begin, Open, Receive, Timeout, Decode, DecodeAction, Play, Idle, TypeOK
  <2> QED BY <2>1, <2>2, <2>3, FilesSame
<1>5. ASSUME NEW t \in Threads, Send(t) PROVE FilesKept'
  <2>1. files' = files /\ id' = id /\ call' = call /\ at[t] = "send" /\ id[t] \in Ids
    BY <1>5 DEF Send, process, CallFits
  <2>2. at'[t] \in {"wait", "idle"} /\ \A u \in Threads \ {t} : at'[u] = at[u]
    BY <1>5 DEF Send, Idle, TypeOK
  <2>3. \A i : Whole(i)' <=> Whole(i)
    BY <2>1 DEF Whole
  <2>4. \A u \in Threads : Whole(id[u])' <=> Whole(id[u])
    BY <2>1 DEF Whole
  <2>6. port[t] \in Ports
    BY <2>1, SendsBound
  <2>5. ASSUME NEW i \in Ids, UnderWay(sent'[i]), StartsAction(sent'[i]) PROVE Whole(i)
    <3>1. CASE sent'[i] = sent[i]
      BY <2>5, <3>1 DEF FilesKept
    <3>2. CASE i = id[t] /\ sent'[i] = WithPort(buf[t], port[t])
      <4>1. StartsAction(buf[t])
        BY <2>1, <2>5, <2>6, <3>2, StillNoAction DEF Prepared
      <4>2. call[t].fn = "ubtStartRobotAction"
        BY <2>1, <4>1 DEF Prepared
      <4> QED BY <2>1, <3>2, <4>2 DEF FilesKept
    <3> QED BY <1>5, <3>1, <3>2 DEF Send, Shaped
  <2> QED BY <2>1, <2>2, <2>3, <2>4, <2>5 DEF FilesKept
<1>6. ASSUME NEW i \in Ids, Robot(i) \/ Lose(i) PROVE FilesKept'
  <2>1. UNCHANGED <<thread, files>>
    BY <1>6 DEF Robot, Lose, process
  <2>2. \A j \in Ids : sent'[j] = sent[j] \/ ~ UnderWay(sent'[j])
    BY <1>6, NothingIsNot DEF Robot, Lose, Shaped
  <2> QED BY <2>1, <2>2, FilesSame DEF thread
<1>7. CASE Link \/ UNCHANGED vars
  <2>1. UNCHANGED <<thread, files, sent>>
    BY <1>7 DEF Link, vars, process, world
  <2> QED BY <2>1, FilesSame DEF thread
<1> QED BY <1>1, <1>2, <1>3, <1>4, <1>5, <1>6, <1>7 DEF Next, Step, Comm

(* A request to play a motion goes out when its file is whole, unless another *)
(* call has drawn the same number (RobotApi.c:1253-1647).                     *)
THEOREM MotionFilesComplete == Spec => []MotionFileComplete
<1>1. FilesKept => MotionFileComplete
  BY DEF FilesKept, MotionFileComplete, StartsAction, Whole
<1> QED BY <1>1, TypedAlways, NumberingAlways, PreparedAlways, FilesInit, FilesNext, PTL DEF Spec
=============================================================================
