------------------------ MODULE RobotRequestPromises ------------------------
(***************************************************************************)
(* What a call promises its caller, for every set of threads, ports and    *)
(* calls and every choice of faults: what it reports is what the robot     *)
(* did, and the robot does what it asked at most once.                     *)
(***************************************************************************)
EXTENDS RobotRequestProofs

(* What the functions of Strictly ask, and the answer their decoder takes    *)
(* for a success.                                                            *)
Request(fn) ==
    CASE fn = "ubtCheckAPPStatus"       -> [cmd |-> "query_app", type |-> "status"]
      [] fn = "ubtDetectVoiceMsg"       -> [cmd |-> "voice", type |-> "voice_detecting"]
      [] fn = "ubtSetRobotVolume"       -> [cmd |-> "set", type |-> "volume"]
      [] fn = "ubtSearchExtendSensor"   -> [cmd |-> "sensor_config", type |-> "search"]
      [] fn = "ubtModifyExtendSensorID" -> [cmd |-> "sensor_config", type |-> "modify"]

Asked(c, m) == Is(m, "cmd", Request(c.fn).cmd) /\ Is(m, "type", Request(c.fn).type)

Granted(c, m) ==
    /\ Parses(m) /\ Is(m, "status", "ok")
    /\ Is(m, "cmd", AckOf(Request(c.fn).cmd)) /\ Is(m, "type", Request(c.fn).type)

LEMMA StrictlyAsks ==
    ASSUME NEW c, c.fn \in Strictly
    PROVE  /\ UnderWay(Begun(c).msg) => Asked(c, Begun(c).msg)
           /\ ~ UnderWay(Begun(c).msg) => Begun(c).rc \notin {"SUCCESS", "FAILED"}
<1> USE DEF Begun, Asks, Refuses, Checked, Nothing, UnderWay, Asked, Request, Is, Has
<1>1. CASE c.fn = "ubtCheckAPPStatus"
  BY <1>1 DEF ubtCheckAPPStatus, Encode_CheckAPPStatus
<1>2. CASE c.fn = "ubtDetectVoiceMsg"
  BY <1>2 DEF ubtDetectVoiceMsg, Encode_DetectVoiceMsg
<1>3. CASE c.fn = "ubtSetRobotVolume"
  BY <1>3 DEF ubtSetRobotVolume, Encode_SetRobotVolume
<1>4. CASE c.fn = "ubtSearchExtendSensor"
  BY <1>4 DEF ubtSearchExtendSensor, Encode_SearchSensor
<1>5. CASE c.fn = "ubtModifyExtendSensorID"
  BY <1>5 DEF ubtModifyExtendSensorID, Encode_ModifySensorID
<1> QED BY <1>1, <1>2, <1>3, <1>4, <1>5 DEF Strictly

LEMMA StrictVerdict ==
    ASSUME NEW c, c.fn \in Strictly, NEW m, NEW old
    PROVE  /\ Verdict(c, m, old).rc = "SUCCESS" => Is(m, "status", "ok")
           /\ Granted(c, m) => Verdict(c, m, old).rc = "SUCCESS"
<1> USE DEF Verdict, Decoding, Rc, Yields, AckOk, Granted, Request, AckOf, Parses
<1>1. CASE c.fn = "ubtCheckAPPStatus"
  BY <1>1 DEF Decode_CheckAPPStatus, Strict
<1>2. CASE c.fn = "ubtDetectVoiceMsg"
  BY <1>2 DEF Decode_DetectVoiceMsg, Strict
<1>3. CASE c.fn = "ubtSetRobotVolume"
  BY <1>3 DEF Decode_SetRobotVolume, Strict
<1>4. CASE c.fn = "ubtSearchExtendSensor"
  BY <1>4 DEF Decode_SearchSensor
<1>5. CASE c.fn = "ubtModifyExtendSensorID"
  BY <1>5 DEF Decode_ModifySensorID
<1> QED BY <1>1, <1>2, <1>3, <1>4, <1>5 DEF Strictly

(* The robot's answers: only that of a request it carried out says ok, and   *)
(* for a strict call that one is granted.                                    *)
LEMMA Replies ==
    ASSUME NEW m
    PROVE  /\ ~ Is(Ack(m, "failed"), "status", "ok") /\ ~ Is(Unparsable, "status", "ok")
           /\ \A c : c.fn \in Strictly /\ Asked(c, m) => Granted(c, Joined(Ack(m, "ok"), Result(m)))
<1>1. ~ Is(Ack(m, "failed"), "status", "ok") /\ ~ Is(Unparsable, "status", "ok")
  BY DEF Ack, Unparsable, Is, Has
<1>2. ASSUME NEW c, c.fn \in Strictly, Asked(c, m)
      PROVE  Granted(c, Joined(Ack(m, "ok"), Result(m)))
  <2> DEFINE r == Request(c.fn)
             a == [cmd |-> AckOf(m.cmd), status |-> "ok", type |-> m.type]
  <2>1. m.cmd = r.cmd /\ m.type = r.type /\ Ack(m, "ok") = a
    BY <1>2 DEF Asked, Is, Has, Ack
  <2>2. r.cmd \in {"query_app", "voice", "set", "sensor_config"}
    BY <1>2 DEF Request, Strictly
  <2>3. Result(m) = [status |-> "ok"]
    BY <2>1, <2>2 DEF Result
  <2>4. Joined(a, [status |-> "ok"]) = a
    BY DEF Joined, Has
  <2>5. Granted(c, a)
    BY <2>1 DEF Granted, Is, Has, Parses
  <2> QED BY <2>1, <2>3, <2>4, <2>5
<1> QED BY <1>1, <1>2

-----------------------------------------------------------------------------
(* The invariant.  A request under way has not been carried out; an answer   *)
(* that says ok, under way or taken, is that of a call that was; a strict    *)
(* call's own answer is granted if it was carried out; and a call that took  *)
(* its own answer has no request under way that could still be.              *)

Early == {"begin", "motion", "open", "send", "wait"}

Own(t) ==
    /\ at[t] \in {"open", "send"} => Asked(call[t], buf[t])
    /\ at[t] = "wait" =>
         /\ UnderWay(sent[id[t]]) /\ Parses(sent[id[t]]) => Asked(call[t], sent[id[t]])
         /\ UnderWay(answer[id[t]]) /\ id[t] \in performed => Granted(call[t], answer[id[t]].msg)
    /\ at[t] = "decode" /\ got[t] = id[t] /\ id[t] \in performed => Granted(call[t], buf[t])
    /\ at[t] = "idle" =>
         /\ ret[t] = "SUCCESS" => got[t] \in performed
         /\ ret[t] = "FAILED" /\ got[t] = id[t] => id[t] \notin performed
    /\ at[t] # "play"

Taken(t) ==
    /\ at[t] \in Early => got[t] = 0
    /\ at[t] \notin Early /\ got[t] = id[t] /\ id[t] \in Ids => ~ UnderWay(sent[id[t]])
    /\ at[t] = "decode" /\ Is(buf[t], "status", "ok") => got[t] \in performed

Said(i) ==
    /\ UnderWay(sent[i]) => i \notin performed
    /\ UnderWay(answer[i]) /\ Is(answer[i].msg, "status", "ok") => i \in performed

Told ==
    /\ \A i \in Ids : Said(i)
    /\ \A t \in Threads : Taken(t) /\ (call[t].fn \in Strictly => Own(t))

LEMMA ToldInit == Init => Told
  BY NothingIsNot DEF Init, Told, Said, Taken, Own, Early, NoCall, Strictly, Ids

(* What a thread's step does to the world, and to the other threads. *)
LEMMA StepOutside ==
    ASSUME NEW t \in Threads, Step(t), Typed, NEW i \in Ids
    PROVE  /\ answer'[i] = answer[i] \/ ~ UnderWay(answer'[i])
           /\ sent'[i] = sent[i] \/ Send(t)
<1>1. answer' = answer \/ \E j \in Ids : answer' = [answer EXCEPT ![j] = Nothing]
  BY DEF Step, Comm, BeginMotion, WriteMotion, Begin, Open, Send, Receive, Timeout, Decode,
         DecodeAction, Play, world
<1>2. sent' = sent \/ Send(t)
  BY DEF Step, Comm, BeginMotion, WriteMotion, Begin, Open, Receive, Timeout, Decode,
         DecodeAction, Play, world
<1> QED BY <1>1, <1>2, NothingIsNot DEF Typed, Shaped

LEMMA OthersTold ==
    ASSUME Typed, Numbering, Told, NEW t \in Threads, Step(t), NEW u \in Threads, u # t
    PROVE  Taken(u)' /\ (call'[u].fn \in Strictly => Own(u)')
<1>1. /\ at'[u] = at[u] /\ call'[u] = call[u] /\ buf'[u] = buf[u]
      /\ got'[u] = got[u] /\ ret'[u] = ret[u] /\ id'[u] = id[u]
      /\ id[u] \in Ids => sent'[id[u]] = sent[id[u]]
      /\ performed' = performed
  BY StepOfOne
<1>2. id[u] \in Ids => answer'[id[u]] = answer[id[u]] \/ ~ UnderWay(answer'[id[u]])
  BY StepOutside
<1>3. at[u] # "idle" => id[u] \in Ids
  BY DEF Typed, CallFits
<1> QED BY <1>1, <1>2, <1>3 DEF Told, Taken, Own

(* A step of a thread that leaves the world alone. *)
LEMMA QuietTold ==
    ASSUME Typed, Numbering, Told, NEW t \in Threads, Step(t), UNCHANGED world,
           Taken(t)' /\ (call'[t].fn \in Strictly => Own(t)')
    PROVE  Told'
<1>1. \A i \in Ids : Said(i)'
  BY DEF Told, Said, world
<1>2. \A u \in Threads : Taken(u)' /\ (call'[u].fn \in Strictly => Own(u)')
  BY OthersTold
<1> QED BY <1>1, <1>2 DEF Told

LEMMA CallTold == ASSUME Typed, Told, NEW t \in Threads, Call(t) PROVE Told'
<1>1. /\ at' = [at EXCEPT ![t] = "begin"] /\ got' = [got EXCEPT ![t] = 0]
      /\ UNCHANGED <<buf, sent, answer, performed>>
      /\ \A u \in Threads \ {t} : call'[u] = call[u] /\ ret'[u] = ret[u] /\ id'[u] = id[u]
  BY DEF Call, world, Typed, TypeOK, Shaped
<1>2. Taken(t)' /\ Own(t)'
  BY <1>1 DEF Taken, Own, Early, Typed, TypeOK
<1>3. ASSUME NEW u \in Threads \ {t} PROVE Taken(u)' /\ (call'[u].fn \in Strictly => Own(u)')
  BY <1>1, <1>3 DEF Told, Taken, Own, Typed, TypeOK
<1>4. \A i \in Ids : Said(i)'
  BY <1>1 DEF Told, Said
<1> QED BY <1>2, <1>3, <1>4 DEF Told

(* Up to its request. *)
LEMMA BeginTold ==
    ASSUME Typed, Numbering, Told, NEW t \in Threads, BeginMotion(t) \/ WriteMotion(t) \/ Begin(t)
    PROVE  Told'
<1>1. Step(t) /\ UNCHANGED world
  BY DEF Step, BeginMotion, WriteMotion, Begin
<1>2. id' = id /\ got' = got /\ at[t] \in {"begin", "motion"} /\ got[t] = 0 /\ id[t] \in Ids
  BY DEF BeginMotion, WriteMotion, Begin, Told, Taken, Early, Typed, CallFits
<1>3. Taken(t)'
  <2>1. at'[t] \in {"idle", "begin", "motion", "open"}
    BY DEF BeginMotion, WriteMotion, Begin, Idle, Typed, TypeOK
  <2>2. got'[t] = 0 /\ id'[t] # 0
    BY <1>2 DEF Ids
  <2> QED BY <2>1, <2>2 DEF Taken
<1>4. CASE BeginMotion(t) \/ WriteMotion(t)
  <2>1. /\ at'[t] \in {"idle", "begin", "motion"}
        /\ at'[t] = "idle" => ret'[t] \in {"WRONG_PARAM", "NORESOURCE"}
    BY <1>4 DEF BeginMotion, WriteMotion, Idle, Typed, TypeOK
  <2> QED BY <1>1, <1>3, <2>1, QuietTold DEF Own
<1>5. CASE Begin(t)
  <2>1. call' = call
    BY <1>5 DEF Begin
  <2>2. ASSUME call[t].fn \in Strictly PROVE Own(t)'
    <3>1. CASE UnderWay(Begun(call[t]).msg)
      <4>1. at'[t] = "open" /\ buf'[t] = Begun(call[t]).msg
        BY <1>5, <3>1 DEF Begin, Typed, TypeOK, Shaped
      <4> QED BY <2>1, <2>2, <3>1, <4>1, StrictlyAsks DEF Own
    <3>2. CASE ~ UnderWay(Begun(call[t]).msg)
      <4>1. at'[t] = "idle" /\ ret'[t] = Begun(call[t]).rc
        BY <1>5, <3>2 DEF Begin, Idle, Typed, TypeOK
      <4> QED BY <2>2, <3>2, <4>1, StrictlyAsks DEF Own
    <3> QED BY <3>1, <3>2
  <2> QED BY <1>1, <1>3, <2>1, <2>2, QuietTold
<1> QED BY <1>4, <1>5

LEMMA OpenTold == ASSUME Typed, Numbering, Told, NEW t \in Threads, Open(t) PROVE Told'
<1>1. Step(t) /\ UNCHANGED <<world, call, id, got>> /\ at[t] = "open" /\ got[t] = 0 /\ id[t] # 0
  BY DEF Step, Comm, Open, Told, Taken, Early, Typed, CallFits, Ids
<1>2. \/ at'[t] = "send" /\ buf'[t] = buf[t]
      \/ at'[t] = "idle" /\ ret'[t] = "SOCKET_FAILED"
  BY DEF Open, Idle, Typed, TypeOK
<1>3. Taken(t)' /\ (call'[t].fn \in Strictly => Own(t)')
  BY <1>1, <1>2 DEF Told, Taken, Own
<1> QED BY <1>1, <1>3, QuietTold

(* The strict functions ask for nothing that the application may have spelt:  *)
(* what is sent still asks it.                                                *)
LEMMA StillAsked ==
    ASSUME NEW c, NEW m, NEW p \in Ports, c.fn \in Strictly, Asked(c, m),
           UnderWay(m), "port" \in DOMAIN m, m.port = SdkPort, Parses(WithPort(m, p))
    PROVE  Asked(c, WithPort(m, p))
<1>1. GivenAhead(m) = {}
  BY DEF Strictly, Asked, Request, GivenAhead, Is, Has
<1>2. Kept(m, WithPort(m, p), p)
  BY PortGiven DEF Parses, Unparsable
<1>3. PICK n : WithPort(m, p) = [m EXCEPT !.port = n]
  BY <1>1, <1>2 DEF Kept
<1> QED BY <1>3 DEF Asked, Is, Has

LEMMA SendTold == ASSUME Typed, Numbering, Prepared, Told, NEW t \in Threads, Send(t) PROVE Told'
<1>1. /\ Step(t) /\ UNCHANGED <<call, id, got, answer, performed>> /\ at[t] = "send"
      /\ got[t] = 0 /\ id[t] \in Ids /\ id[t] # 0
      /\ Fresh(id[t]) /\ UnderWay(buf[t]) /\ "port" \in DOMAIN buf[t] /\ buf[t].port = SdkPort
  BY DEF Step, Comm, Send, Told, Taken, Early, Typed, CallFits, Ids, Prepared
<1>2. \A i \in Ids : i # id[t] => sent'[i] = sent[i]
  BY <1>1 DEF Send, Typed, Shaped
<1>3. \A i \in Ids : Said(i)'
  BY <1>1, <1>2 DEF Told, Said, Fresh
<1>4. Taken(t)'
  <2>1. at'[t] \in {"wait", "idle"}
    BY DEF Send, Idle, Typed, TypeOK
  <2> QED BY <1>1, <2>1 DEF Taken
<1>5. ASSUME call[t].fn \in Strictly PROVE Own(t)'
  <2>1. CASE at'[t] = "idle" /\ ret'[t] = "SOCKET_SENDERROR"
    BY <2>1 DEF Own
  <2>2. CASE at'[t] = "wait" /\ sent'[id[t]] = WithPort(buf[t], port[t])
    <3>1. Asked(call[t], buf[t])
      BY <1>1, <1>5 DEF Told, Own
    <3>2. Parses(sent'[id[t]]) => Asked(call[t], sent'[id[t]])
      BY <1>1, <1>5, <2>2, <3>1, SendsBound, StillAsked
    <3>3. id[t] \notin performed
      BY <1>1 DEF Fresh
    <3> QED BY <1>1, <2>2, <3>2, <3>3 DEF Own
  <2> QED BY <1>1, <2>1, <2>2 DEF Send, Idle, Typed, TypeOK, Shaped
<1>6. \A u \in Threads \ {t} : Taken(u)' /\ (call'[u].fn \in Strictly => Own(u)')
  BY <1>1, OthersTold
<1> QED BY <1>1, <1>3, <1>4, <1>5, <1>6 DEF Told

LEMMA ReceiveTold == ASSUME Typed, Numbering, Routed, Told, NEW t \in Threads, Receive(t) PROVE Told'
<1>0. PICK i \in Ids : Receive(t)!(i)
  BY DEF Receive
<1>1. /\ Step(t) /\ UNCHANGED <<call, id, sent, performed>> /\ at[t] = "wait"
      /\ at'[t] = "decode" /\ got'[t] = i /\ buf'[t] = answer[i].msg
      /\ UnderWay(answer[i])
  BY <1>0 DEF Step, Comm, Typed, TypeOK, Shaped, Receive
<1>2. ~ UnderWay(sent[i])
  BY <1>1 DEF Routed
<1>3. \A j \in Ids : Said(j)'
  BY <1>1, StepOutside DEF Told, Said
<1>4. Taken(t)'
  BY <1>1, <1>2 DEF Told, Said, Taken, Early
<1>5. ASSUME call[t].fn \in Strictly PROVE Own(t)'
  BY <1>1, <1>5 DEF Told, Own
<1>6. \A u \in Threads \ {t} : Taken(u)' /\ (call'[u].fn \in Strictly => Own(u)')
  BY <1>1, OthersTold
<1> QED BY <1>1, <1>3, <1>4, <1>5, <1>6 DEF Told

LEMMA TimeoutTold == ASSUME Typed, Numbering, Told, NEW t \in Threads, Timeout(t) PROVE Told'
<1>1. /\ Step(t) /\ UNCHANGED <<world, id, got>> /\ at[t] = "wait" /\ got[t] = 0 /\ id[t] # 0
      /\ at'[t] = "idle" /\ ret'[t] = "SOCKET_TIMEOUT"
  BY DEF Step, Comm, Timeout, Idle, Told, Taken, Early, Typed, TypeOK, CallFits, Ids
<1>2. Taken(t)' /\ Own(t)'
  BY <1>1 DEF Taken, Own
<1> QED BY <1>1, <1>2, QuietTold

(* The verdict. *)
LEMMA DecodeTold == ASSUME Typed, Numbering, Told, NEW t \in Threads, Decode(t) PROVE Told'
<1>1. PICK old \in {"face", ""} : Idle(t, Verdict(call[t], buf[t], old).rc)
  BY DEF Decode
<1>2. /\ Step(t) /\ UNCHANGED <<call, id, got, sent, answer, performed, world>> /\ at[t] = "decode"
      /\ at'[t] = "idle" /\ ret'[t] = Verdict(call[t], buf[t], old).rc
  BY <1>1 DEF Step, Decode, Idle, world, Typed, TypeOK
<1>3. Taken(t)'
  BY <1>2 DEF Told, Taken, Early
<1>4. ASSUME call[t].fn \in Strictly PROVE Own(t)'
  <2>1. ret'[t] = "SUCCESS" => got[t] \in performed
    BY <1>2, <1>4, StrictVerdict DEF Told, Taken
  <2>2. got[t] = id[t] /\ id[t] \in performed => ret'[t] = "SUCCESS"
    BY <1>2, <1>4, StrictVerdict DEF Told, Own
  <2> QED BY <1>2, <2>1, <2>2 DEF Own
<1> QED BY <1>2, <1>3, <1>4, QuietTold

LEMMA PlayTold == ASSUME Typed, Numbering, Told, NEW t \in Threads, DecodeAction(t) \/ Play(t) PROVE Told'
<1>1. /\ Step(t) /\ UNCHANGED <<call, id, got, sent, answer, performed, world>>
      /\ at[t] \in {"decode", "play"} /\ at'[t] \in {"play", "idle"}
  BY DEF Step, DecodeAction, Play, Idle, world, Typed, TypeOK
<1>2. Taken(t)'
  BY <1>1 DEF Told, Taken, Early
<1>3. call[t].fn \notin Strictly
  BY DEF DecodeAction, Play, Strictly, Told, Own
<1> QED BY <1>1, <1>2, <1>3, QuietTold
(* The robot, the network and the link. *)
LEMMA WorldTold ==
    ASSUME Typed, Numbering, Told, NEW i \in Ids, Robot(i) \/ Lose(i)
    PROVE  Told'
<1>1. UNCHANGED thread /\ performed \subseteq performed' /\ performed' \subseteq performed \cup {i}
  BY DEF Robot, Lose
<1>2. \A j \in Ids \ {i} : sent'[j] = sent[j] /\ answer'[j] = answer[j]
  BY DEF Robot, Lose, Typed, Shaped
<1>3. Said(i)' /\ (UnderWay(sent'[i]) => sent'[i] = sent[i] /\ UNCHANGED performed)
  BY NothingIsNot, Replies DEF Told, Said, Robot, Lose, Typed, Shaped
<1>4. i \in performed' /\ i \notin performed => UnderWay(sent[i]) /\ Parses(sent[i]) /\ ~ UnderWay(sent'[i])
  BY NothingIsNot DEF Robot, Lose, Typed, Shaped
<1>5. \A j \in Ids : Said(j)'
  BY <1>1, <1>2, <1>3 DEF Told, Said
<1>6. ASSUME NEW t \in Threads PROVE Taken(t)'
  BY <1>1, <1>2, <1>3 DEF Told, Taken, thread
<1>7. ASSUME NEW t \in Threads, call[t].fn \in Strictly PROVE Own(t)'
  <2>1. Own(t) /\ Taken(t)
    BY <1>7 DEF Told
  <2>2. CASE at[t] = "wait" /\ id[t] = i
    <3>1. UnderWay(answer'[i]) /\ i \in performed' => Granted(call[t], answer'[i].msg)
      <4>1. CASE Robot(i)
        <5>1. UnderWay(sent[i]) /\ Parses(sent[i]) /\ i \notin performed
          BY <4>1 DEF Told, Said, Robot
        <5>2. Granted(call[t], Joined(Ack(sent[i], "ok"), Result(sent[i])))
          BY <1>7, <2>1, <2>2, <5>1, Replies DEF Own
        <5>3. CASE answer'[i].msg = Joined(Ack(sent[i], "ok"), Result(sent[i]))
          BY <5>2, <5>3
        <5>4. CASE performed' = performed
          BY <5>1, <5>4
        <5> QED BY <4>1, <5>3, <5>4 DEF Robot, Typed, Shaped
      <4>2. CASE Lose(i)
        <5>1. performed' = performed /\ (answer'[i] = answer[i] \/ answer'[i] = Nothing)
          BY <4>2 DEF Lose, Typed, Shaped
        <5> QED BY <2>1, <2>2, <5>1, NothingIsNot DEF Own
      <4> QED BY <4>1, <4>2
    <3> QED BY <1>1, <1>3, <2>1, <2>2, <3>1 DEF Own, thread
  <2>3. CASE ~ (at[t] = "wait" /\ id[t] = i)
    <3>1. at[t] \in {"wait", "decode"} => id[t] \in Ids
      BY DEF Typed, CallFits
    <3> QED BY <1>1, <1>2, <1>4, <2>1, <2>3, <3>1 DEF Own, Taken, thread, Early
  <2> QED BY <2>2, <2>3
<1> QED BY <1>1, <1>5, <1>6, <1>7 DEF Told, thread

LEMMA ToldNext == Typed /\ Numbering /\ Prepared /\ Routed /\ Told /\ [Next]_vars => Told'
<1> SUFFICES ASSUME Typed, Numbering, Prepared, Routed, Told, [Next]_vars PROVE Told'
  OBVIOUS
<1>1. ASSUME NEW t \in Threads, Call(t) PROVE Told'
  BY <1>1, CallTold
<1>2. ASSUME NEW t \in Threads, Step(t) PROVE Told'
  BY <1>2, BeginTold, OpenTold, SendTold, ReceiveTold, TimeoutTold, DecodeTold, PlayTold DEF Step, Comm
<1>3. ASSUME NEW i \in Ids, Robot(i) \/ Lose(i) PROVE Told'
  BY <1>3, WorldTold
<1>4. CASE UNCHANGED <<thread, world>>
  BY <1>4 DEF Told, Said, Taken, Own, thread, world
<1> QED BY <1>1, <1>2, <1>3, <1>4 DEF Next, Link, vars

(* Where the decoder heeds the answer (Decode_CheckAPPStatus and the others   *)
(* of Strictly, RobotMsg.c), SUCCESS means that the robot has carried out     *)
(* the call whose answer was taken, and FAILED after one's own answer that it *)
(* has not: whatever is lost, late, or sent to a port that another call has   *)
(* drawn again (_ubtCommWithRobot, RobotApi.c:362-431).                       *)
THEOREM VerdictsHonest == Spec => []VerdictHonest
<1>1. Told => VerdictHonest
  BY DEF Told, Own, VerdictHonest, Done
<1> QED BY <1>1, TypedAlways, NumberingAlways, PreparedAlways, RoutedInit, RoutedNext,
           ToldInit, ToldNext, PTL DEF Spec

-----------------------------------------------------------------------------
(* The calls as a RemoteCall. *)

(* What a thread's step does to the other calls: nothing. *)
LEMMA FateOfOthers ==
    ASSUME Typed, Numbering, NEW t \in Threads, Step(t)
    PROVE  /\ calls' = calls /\ id' = id /\ performed' = performed
           /\ \A i \in Ids : i # id[t] => Fate(i)' = Fate(i)
           /\ \A u \in Threads : u # t => at'[u] = at[u] /\ ret'[u] = ret[u]
<1>1. calls' = calls /\ id' = id /\ performed' = performed
  BY DEF Step, Comm, BeginMotion, WriteMotion, Begin, Open, Send, Receive, Timeout, Decode,
         DecodeAction, Play, process, world
<1>2. \A u \in Threads : u # t => at'[u] = at[u] /\ ret'[u] = ret[u]
  BY StepOfOne
<1>3. sent' = sent \/ \E m : sent' = [sent EXCEPT ![id[t]] = m]
  BY DEF Step, Comm, BeginMotion, WriteMotion, Begin, Open, Send, Receive, Timeout, Decode,
         DecodeAction, Play, world
<1>4. ASSUME NEW i \in Ids, i # id[t] PROVE Fate(i)' = Fate(i)
  <2>1. sent'[i] = sent[i]
    BY <1>3, <1>4 DEF Typed, Shaped
  <2>2. (\E u \in Threads : id[u] = i /\ at[u] \in Unsent)'
          <=> \E u \in Threads : id[u] = i /\ at[u] \in Unsent
    BY <1>1, <1>2, <1>4
  <2> QED BY <1>1, <2>1, <2>2 DEF Fate
<1> QED BY <1>1, <1>2, <1>4

(* How far the call of a thread that is in one has come. *)
LEMMA FateOfOwn ==
    ASSUME Typed, Numbering, Prepared, NEW t \in Threads, at[t] # "idle"
    PROVE  /\ id[t] \in Ids /\ id[t] # 0 /\ insides[t] = id[t] /\ returns[t] = "none"
           /\ at[t] \in Unsent => Fate(id[t]) = "begun"
           /\ at[t] \notin Unsent => Fate(id[t]) \in {"asked", "done", "over"}
<1>1. id[t] \in Ids /\ id[t] # 0 /\ ~ (id[t] > calls)
  BY DEF Typed, TypeOK, CallFits, Numbering, Ids
<1>2. at[t] \in Unsent => Fresh(id[t])
  BY DEF Prepared, Unsent
<1>3. at[t] \notin Unsent => ~ \E u \in Threads : id[u] = id[t] /\ at[u] \in Unsent
  BY <1>1 DEF Numbering
<1> QED BY <1>1, <1>2, <1>3 DEF Fate, Fresh, insides, returns

(* A step that takes the thread from one place to another, in its call: only  *)
(* what becomes of the call is seen.                                          *)
LEMMA GoesOn ==
    ASSUME Typed, Numbering, Prepared, NEW t \in Threads, Step(t),
           at[t] # "idle", at'[t] # "idle"
    PROVE  /\ fates' = [fates EXCEPT ![id[t]] = Fate(id[t])']
           /\ UNCHANGED <<insides, returns>>
<1>1. fates' = [fates EXCEPT ![id[t]] = Fate(id[t])']
  BY FateOfOthers, FateOfOwn DEF fates
<1>2. UNCHANGED <<insides, returns>>
  BY FateOfOthers DEF insides, returns
<1> QED BY <1>1, <1>2

(* A step that ends the call. *)
LEMMA Leaves ==
    ASSUME Typed, Numbering, Prepared, NEW t \in Threads, Step(t),
           at[t] # "idle", at'[t] = "idle", NEW codes, ret'[t] \in codes
    PROVE  /\ fates' = [fates EXCEPT ![id[t]] = Fate(id[t])']
           /\ Remote!Leave(t, codes)
<1>1. fates' = [fates EXCEPT ![id[t]] = Fate(id[t])']
  BY FateOfOthers, FateOfOwn DEF fates
<1>2. insides' = [insides EXCEPT ![t] = 0] /\ returns' = [returns EXCEPT ![t] = ret'[t]]
  BY FateOfOthers DEF insides, returns
<1>3. insides[t] # 0
  BY FateOfOwn
<1> QED BY <1>1, <1>2, <1>3 DEF Remote!Leave

LEMMA BeforeAsking ==
    ASSUME Typed, Numbering, Prepared, NEW t \in Threads,
           BeginMotion(t) \/ WriteMotion(t) \/ Begin(t) \/ Open(t)
    PROVE  UNCHANGED Remote!rvars \/ Remote!Refuse(t)
<1>1. /\ Step(t) /\ UNCHANGED world
      /\ at[t] \in Unsent /\ at[t] # "idle" /\ at'[t] \in Unsent \cup {"idle"}
  BY DEF Step, Comm, BeginMotion, WriteMotion, Begin, Open, Idle, Unsent, Typed, TypeOK
<1>2. Fresh(id[t]) /\ Fate(id[t]) = "begun" /\ id[t] \in Ids
  BY <1>1, FateOfOwn DEF Prepared, Unsent
<1>3. ~ (id[t] > calls) /\ ~ UnderWay(sent[id[t]]) /\ id[t] \notin performed
  BY <1>2 DEF Fresh, Fate
<1>4. CASE at'[t] \in Unsent
  <2>1. Fate(id[t])' = "begun"
    BY <1>1, <1>3, <1>4, FateOfOthers DEF Fate, world
  <2>2. at'[t] # "idle"
    BY <1>4 DEF Unsent
  <2>3. fates' = fates
    BY <1>1, <1>2, <2>1, <2>2, GoesOn DEF fates
  <2> QED BY <1>1, <2>2, <2>3, GoesOn DEF Remote!rvars
<1>5. CASE at'[t] = "idle"
  <2>1. ret'[t] \in Remote!Refusals
    <3>1. CASE BeginMotion(t) \/ WriteMotion(t) \/ Open(t)
      BY <1>5, <3>1 DEF BeginMotion, WriteMotion, Open, Idle, Typed, TypeOK, Remote!Refusals
    <3>2. CASE Begin(t)
      <4>1. Begun(call[t]).rc \in {"SUCCESS", "WRONG_PARAM"}
        BY <3>2, BegunAsks DEF Begin, Typed, CallFits, BegunFits
      <4> QED BY <1>5, <3>2, <4>1 DEF Begin, Idle, Typed, TypeOK, Remote!Refusals
    <3> QED BY <3>1, <3>2
  <2>2. ~ \E u \in Threads : id[u] = id[t] /\ at'[u] \in Unsent
    BY <1>2, <1>5, FateOfOthers, <1>1 DEF Numbering, Unsent, Ids
  <2>3. Fate(id[t])' = "over"
    BY <1>1, <1>3, <2>2, FateOfOthers DEF Fate, world
  <2>4. Remote!Leave(t, Remote!Refusals) /\ fates' = [fates EXCEPT ![id[t]] = "over"]
    BY <1>1, <1>5, <2>1, <2>3, Leaves
  <2>5. fates[id[t]] = "begun" /\ insides[t] = id[t]
    BY <1>1, <1>2, FateOfOwn DEF fates
  <2> QED BY <2>4, <2>5 DEF Remote!Refuse, Remote!Turns
<1> QED BY <1>1, <1>4, <1>5

LEMMA AskingSeen ==
    ASSUME Typed, Numbering, Prepared, NEW t \in Threads, Send(t)
    PROVE  Remote!Ask(t) \/ Remote!Refuse(t)
<1>1. /\ Step(t) /\ UNCHANGED performed /\ at[t] = "send"
      /\ UnderWay(buf[t]) /\ "port" \in DOMAIN buf[t] /\ buf[t].port = SdkPort
  BY DEF Step, Comm, Send, Prepared
<1>2. Fresh(id[t]) /\ Fate(id[t]) = "begun" /\ id[t] \in Ids /\ insides[t] = id[t] /\ id[t] # 0
  BY <1>1, FateOfOwn DEF Prepared, Unsent
<1>3. ~ (id[t] > calls) /\ ~ UnderWay(sent[id[t]]) /\ id[t] \notin performed /\ fates[id[t]] = "begun"
  BY <1>2 DEF Fresh, Fate, fates
<1>4. CASE at'[t] = "wait" /\ sent'[id[t]] = WithPort(buf[t], port[t])
  <2>1. UnderWay(sent'[id[t]])
    BY <1>1, <1>4, SendsBound, PortGiven
  <2>2. Fate(id[t])' = "asked"
    BY <1>1, <1>3, <2>1, FateOfOthers DEF Fate
  <2>3. fates' = [fates EXCEPT ![id[t]] = "asked"] /\ UNCHANGED <<insides, returns>>
    BY <1>1, <1>4, <2>2, GoesOn
  <2> QED BY <1>2, <1>3, <2>3 DEF Remote!Ask, Remote!Turns
<1>5. CASE at'[t] = "idle" /\ ret'[t] = "SOCKET_SENDERROR" /\ UNCHANGED sent
  <2>1. ~ \E u \in Threads : id[u] = id[t] /\ at'[u] \in Unsent
    BY <1>1, <1>2, <1>5, FateOfOthers DEF Numbering, Unsent
  <2>2. Fate(id[t])' = "over"
    BY <1>1, <1>3, <1>5, <2>1, FateOfOthers DEF Fate
  <2>3. Remote!Leave(t, Remote!Refusals) /\ fates' = [fates EXCEPT ![id[t]] = "over"]
    BY <1>1, <1>5, <2>2, Leaves DEF Remote!Refusals
  <2> QED BY <1>2, <1>3, <2>3 DEF Remote!Refuse, Remote!Turns
<1> QED BY <1>1, <1>2, <1>4, <1>5 DEF Send, Idle, Typed, TypeOK, Shaped

(* Once it has asked a call changes nothing any more for the robot. *)
LEMMA AfterAsking ==
    ASSUME Typed, Numbering, Prepared, NEW t \in Threads,
           Receive(t) \/ Timeout(t) \/ Decode(t) \/ DecodeAction(t) \/ Play(t)
    PROVE  UNCHANGED Remote!rvars \/ Remote!Return(t)
<1>1. /\ Step(t) /\ UNCHANGED <<sent, performed>>
      /\ at[t] \notin Unsent /\ at[t] # "idle" /\ at'[t] \notin Unsent
  BY DEF Step, Comm, Receive, Timeout, Decode, DecodeAction, Play, Idle, Unsent, world, Typed, TypeOK
<1>2. Fate(id[t]) \in {"asked", "done", "over"} /\ id[t] \in Ids /\ insides[t] = id[t]
  BY <1>1, FateOfOwn
<1>3. Fate(id[t])' = Fate(id[t])
  <2>1. \A u \in Threads : at'[u] \in Unsent <=> at[u] \in Unsent
    BY <1>1, FateOfOthers
  <2> QED BY <1>1, <2>1, FateOfOthers DEF Fate
<1>4. CASE at'[t] # "idle"
  <2>1. fates' = fates
    BY <1>1, <1>2, <1>3, <1>4, GoesOn DEF fates
  <2> QED BY <1>1, <1>4, <2>1, GoesOn DEF Remote!rvars
<1>5. CASE at'[t] = "idle"
  <2>1. ret'[t] \in Remote!Answers
    <3> USE DEF Remote!Answers, Verdicts
    <3>1. CASE Receive(t) \/ DecodeAction(t)
      BY <1>5, <3>1 DEF Receive, DecodeAction, Typed, TypeOK
    <3>2. CASE Timeout(t)
      BY <3>2 DEF Timeout, Idle, Typed, TypeOK
    <3>3. CASE Decode(t)
      <4>1. PICK old \in {"face", ""} : Idle(t, Verdict(call[t], buf[t], old).rc)
        BY <3>3 DEF Decode
      <4>2. call[t].fn \in Asking
        BY <3>3 DEF Decode, Typed, CallFits
      <4>3. Verdict(call[t], buf[t], old).rc \in Verdicts \cup {"NOT_FOUND", "WRONG_PARAM"}
        <5>1. CASE call[t].fn \in ReadsSensor
          BY <5>1, SensorRc DEF Verdict, ReadsSensor
        <5>2. CASE call[t].fn \notin ReadsSensor
          BY <4>2, <5>2, VerdictRc
        <5> QED BY <5>1, <5>2
      <4> QED BY <4>1, <4>3 DEF Idle, Typed, TypeOK
    <3>4. CASE Play(t)
      BY <1>5, <3>4 DEF Play, Idle, Typed, TypeOK, CallFits
    <3> QED BY <3>1, <3>2, <3>3, <3>4
  <2>2. Remote!Leave(t, Remote!Answers)
    BY <1>1, <1>5, <2>1, Leaves
  <2>3. fates' = fates /\ fates[id[t]] = Fate(id[t])
    BY <1>1, <1>2, <1>3, <1>5, <2>1, Leaves DEF fates
  <2> QED BY <1>2, <2>2, <2>3 DEF Remote!Return
<1> QED BY <1>4, <1>5

LEMMA CallSeen == ASSUME Typed, Numbering, NEW t \in Threads, Call(t) PROVE Remote!Begin(t)
<1>0. PICK new \in Ids : new = calls + 1
  BY RequestAssumption DEF Call, Typed, TypeOK, Ids
<1>1. /\ at[t] = "idle" /\ calls' = new /\ UNCHANGED <<sent, performed>>
      /\ at' = [at EXCEPT ![t] = "begin"] /\ id' = [id EXCEPT ![t] = new]
      /\ ret' = [ret EXCEPT ![t] = "none"]
  BY <1>0 DEF Call, world
<1>2. Fresh(new) /\ new > calls /\ new # 0 /\ new \in Nat /\ calls \in Nat
  BY <1>0, RequestAssumption DEF Numbering, Typed, TypeOK, Ids
<1>3. at'[t] = "begin" /\ id'[t] = new /\ \A u \in Threads \ {t} : at'[u] = at[u] /\ id'[u] = id[u]
  BY <1>1 DEF Typed, TypeOK
<1>4. Fate(new) = "new" /\ Fate(new)' = "begun"
  <2>1. ~ (new > new)
    BY <1>2
  <2> QED BY <1>1, <1>2, <1>3, <2>1 DEF Fate, Fresh, Unsent
<1>5. ASSUME NEW i \in Ids, i # new PROVE Fate(i)' = Fate(i)
  <2>1. i > new <=> i > calls
    BY <1>0, <1>2, <1>5, RequestAssumption DEF Ids
  <2>2. (\E u \in Threads : id[u] = i /\ at[u] \in Unsent)'
          <=> \E u \in Threads : id[u] = i /\ at[u] \in Unsent
    BY <1>1, <1>3, <1>5 DEF Unsent
  <2> QED BY <1>1, <2>1, <2>2 DEF Fate
<1>6. fates[new] = "new" /\ fates' = [fates EXCEPT ![new] = "begun"]
  BY <1>1, <1>4, <1>5 DEF fates
<1>7. insides[t] = 0 /\ insides' = [insides EXCEPT ![t] = new] /\ returns' = [returns EXCEPT ![t] = "none"]
  BY <1>1, <1>3 DEF insides, returns, Typed, TypeOK
<1> QED BY <1>1, <1>6, <1>7 DEF Remote!Begin, Remote!Turns

LEMMA WorldSeen ==
    ASSUME Typed, Numbering, Prepared, NEW i \in Ids, Robot(i) \/ Lose(i)
    PROVE  UNCHANGED Remote!rvars \/ Remote!Perform(i) \/ Remote!Drop(i)
<1>1. UNCHANGED <<at, id, ret, calls>>
  BY DEF Robot, Lose, thread, process
<1>2. UNCHANGED <<insides, returns>>
  BY <1>1 DEF insides, returns
<1>3. CASE UNCHANGED <<sent, performed>>
  BY <1>1, <1>2, <1>3 DEF Remote!rvars, fates, Fate
<1>4. CASE UnderWay(sent[i]) /\ sent' = [sent EXCEPT ![i] = Nothing] /\ performed' \in {performed, performed \cup {i}}
  <2>1. ~ (i > calls) /\ ~ \E u \in Threads : id[u] = i /\ at[u] \in Unsent
    BY <1>4 DEF Numbering, Prepared, Fresh, Unsent
  <2>2. fates[i] = "asked"
    BY <1>4, <2>1 DEF fates, Fate
  <2>3. Fate(i)' = IF i \in performed' THEN "done" ELSE "over"
    BY <1>1, <1>4, <2>1, NothingIsNot DEF Fate, Typed, Shaped
  <2>4. \A j \in Ids : j # i => Fate(j)' = Fate(j)
    BY <1>1, <1>4 DEF Fate, Typed, Shaped
  <2>5. fates' = [fates EXCEPT ![i] = "done"] \/ fates' = [fates EXCEPT ![i] = "over"]
    BY <2>3, <2>4 DEF fates
  <2> QED BY <1>2, <2>2, <2>5 DEF Remote!Perform, Remote!Drop, Remote!Turns
<1> QED BY <1>3, <1>4 DEF Robot, Lose

LEMMA RemoteStep ==
    Typed /\ Numbering /\ Prepared /\ [Next]_vars => [Remote!Next]_(Remote!rvars)
<1> SUFFICES ASSUME Typed, Numbering, Prepared, [Next]_vars PROVE [Remote!Next]_(Remote!rvars)
  OBVIOUS
<1>1. ASSUME NEW t \in Threads, Call(t) PROVE Remote!Next
  BY <1>1, CallSeen DEF Remote!Next
<1>2. ASSUME NEW t \in Threads, Step(t) PROVE [Remote!Next]_(Remote!rvars)
  BY <1>2, BeforeAsking, AskingSeen, AfterAsking DEF Step, Comm, Remote!Next
<1>3. ASSUME NEW i \in Ids, Robot(i) \/ Lose(i) PROVE [Remote!Next]_(Remote!rvars)
  BY <1>3, WorldSeen DEF Remote!Next
<1>4. CASE Link \/ UNCHANGED vars
  BY <1>4 DEF Link, vars, thread, process, world, Remote!rvars, fates, Fate, insides, returns
<1> QED BY <1>1, <1>2, <1>3, <1>4 DEF Next

(* Whatever is lost, late or refused, and however many threads call: the      *)
(* robot does what a call asked at most once, and a call that returned        *)
(* without having asked is never done, then or later (_ubtCommWithRobot,      *)
(* RobotApi.c:362-431, and the functions that call it).                       *)
THEOREM CallsAreRemoteCalls == Spec => ImplementsRemoteCall
<1>1. Init => Remote!Init
  <2> SUFFICES ASSUME Init PROVE Remote!Init
    OBVIOUS
  <2>1. \A i \in Ids : i > calls
    BY RequestAssumption DEF Init, Ids
  <2>2. fates = [i \in Ids |-> "new"]
    BY <2>1 DEF fates, Fate
  <2>3. insides = [t \in Threads |-> 0] /\ returns = [t \in Threads |-> "none"]
    BY DEF Init, insides, returns
  <2> QED BY <2>2, <2>3 DEF Remote!Init
<1> QED BY <1>1, RemoteStep, TypedAlways, NumberingAlways, PreparedAlways, PTL
        DEF Spec, ImplementsRemoteCall, Remote!Spec
=============================================================================
