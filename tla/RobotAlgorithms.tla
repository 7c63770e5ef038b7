--------------------------- MODULE RobotAlgorithms ---------------------------
(***************************************************************************)
(* The computations of the SDK that keep no state, tried on bounded        *)
(* inputs: the angle strings and motion files of MotionFile, the messages  *)
(* of SwarmMsg, the sensor values of RobotMsg.  A behaviour tries one      *)
(* input after another; each invariant holds what the code computes for    *)
(* the input against a definition that does not go by the code.            *)
(***************************************************************************)
EXTENDS SwarmMsg, MotionFile

CONSTANTS
    Speeds,     \* iSpeed of a motion
    Repeats,    \* iRepeat of a motion
    Sensors,    \* how many sensors an answer lists
    Distances,  \* the values a distance sensor reports
    Readings,   \* the values a colour sensor reports
    Numbers     \* the numbers in swarm messages

(* The largest int. *)
INT_MAX == 2147483647

ASSUME AlgorithmsAssumption ==
    /\ Speeds \subseteq 1..6 /\ Repeats \subseteq Nat
    /\ Sensors \subseteq Nat /\ Distances \subseteq Nat
    /\ Readings \subseteq Nat /\ \A v \in Readings : v <= INT_MAX

VARIABLE trial

Nothing == [of |-> "nothing"]
Init == trial = Nothing

-----------------------------------------------------------------------------
(* One servo takes any angle, the others one of two. *)
TryServo ==
    \E id \in Servos, angle \in -1..181, rest \in {0, 90} :
        trial' = [of |-> "servo", angles |-> [s \in Servos |-> IF s = id THEN angle ELSE rest]]

TryHead == \E direct \in DOMAIN HeadAngle : trial' = [of |-> "head", direct |-> direct]

TryMotion ==
    \E type \in MotionTypes, direct \in Directions, speed \in Speeds, repeat \in Repeats :
        /\ Supported(type, direct)
        /\ trial' = [of |-> "motion", type |-> type, direct |-> direct,
                     file |-> File(type, direct, speed, repeat)]

(* Elements with a value and elements without. *)
TryDistance ==
    \E n \in Sensors : \E e \in [1..n -> [value : Distances] \cup {[id |-> 1]}] :
        trial' = [of |-> "distance", elements |-> e]

TryColour == \E v \in Readings : trial' = [of |-> "colour", value |-> v]

TrySwarm ==
    \E seq, id, x, y, z, order, status \in Numbers :
        trial' = [of |-> "swarm", seq |-> seq, id |-> id, status |-> status,
                  at |-> [x |-> x, y |-> y, z |-> z, order |-> order]]

Try == TryServo \/ TryHead \/ TryMotion \/ TryDistance \/ TryColour \/ TrySwarm
Again == trial' = Nothing

Next == IF trial = Nothing THEN Try ELSE Again
Spec == Init /\ [][Next]_trial

-----------------------------------------------------------------------------
(* The angles that are read are those that were set; a servo that was left   *)
(* alone reads 255.  The head turns to 40, 90 or 120 degrees and nothing     *)
(* else moves.                                                               *)
HeadDegrees == [left |-> 40, right |-> 120, front |-> 90]
ServoRoundTrip ==
    /\ trial.of = "servo" /\ AnglesAccepted(trial.angles) =>
            AnglesRead(AllAngles(trial.angles)) =
                [s \in Servos |-> IF trial.angles[s] = 0 THEN NoAngle ELSE trial.angles[s]]
    /\ trial.of = "head" =>
         AnglesRead(MaskedAngles({SERVO_HEAD}, HeadAngle[trial.direct])) =
            [s \in Servos |-> IF s = SERVO_HEAD THEN HeadDegrees[trial.direct] ELSE NoAngle]

(* What the motion on trial writes between the first 33 bytes and the last. *)
TriedFrames == SubSeq(trial.file, 2, Len(trial.file) - 1)
Word(f, i)  == f[i] + 256 * f[i + 1]

(* The frames are numbered from 1 to their total, the first one alone says   *)
(* start, the last one alone says end, and every checksum is the sum of the  *)
(* bytes before it but the two that lead.                                    *)
FileWellFormed ==
    trial.of = "motion" =>
        LET frames == TriedFrames
            n == Len(frames)
        IN  \A i \in 1..n :
                LET f == frames[i]
                IN  /\ f \in [0..32 -> Byte]
                    /\ Word(f, 6) = i /\ Word(f, 4) = n
                    /\ f[3] = (IF i = 1 THEN 1 ELSE IF i = n THEN 3 ELSE 2)
                    /\ f[31] = Total(f, 2, 30) % 256

(* Every frame names an angle from 0 to 180 for each servo the motion moves, *)
(* and none for another: no row of the tables is too short or too long.      *)
FramePlayable ==
    trial.of = "motion" =>
        LET move == Motions(trial.type)[trial.direct]
            frames == TriedFrames
        IN  /\ \A i \in DOMAIN move.rows : Len(move.rows[i]) = 2 * Cardinality(move.mask)
            /\ \A i \in DOMAIN frames : \A s \in 1..20 :
                  IF s \in move.mask THEN InRange(frames[i][7 + s])
                  ELSE frames[i][7 + s] = NoAngle

(* The time that closes the file is the time of its frames, which a slower   *)
(* turn lengthens.                                                           *)
FileTime ==
    trial.of = "motion" =>
        LET last  == trial.file[Len(trial.file)]
            times == [i \in 1..Len(TriedFrames) |-> TriedFrames[i][28]]
        IN  Word(last, 29) + 65536 * Word(last, 31) = 20 * Total(times, 1, Len(TriedFrames))

(* The distance is the least that a sensor measured, where 0 is no           *)
(* measurement, and 65535 when there is none below.                          *)
NearestDistance ==
    trial.of = "distance" =>
        LET e == trial.elements
            measured == {e[i].value : i \in {j \in DOMAIN e : Has(e[j], "value")}} \ {0}
            got == Decode_Distance(e).out
        IN  got \in measured \cup {NoDistance} /\ \A d \in measured \cup {NoDistance} : got <= d

(* No colour is lost. *)
ColoursRecompose ==
    trial.of = "colour" =>
        LET c == Colours(trial.value)
        IN  /\ {c.red, c.green, c.blue, c.clear} \subseteq Byte
            /\ c.red + 256 * (c.green + 256 * (c.blue + 256 * c.clear)) = trial.value

(* Every swarm message, as its encoder makes it or, where the code has none,  *)
(* as another program would.                                                  *)
RobotList == <<[id |-> trial.id, mac |-> "m"], [mac |-> "n"]>>
SwarmMessages ==
    LET t == trial
    IN  [init         |-> Swarm("a", "init", [sequence |-> t.seq, timezone |-> t.id, gyroffset |-> t.status]),
         alloc_id     |-> Swarm("a", "alloc_id", [sequence |-> t.seq, robotlist |-> RobotList]),
         action_start |-> Swarm("a", "action_start",
                              [sequence |-> t.seq, repeat |-> 1, delaytime |-> t.id, actionname |-> "bow"]),
         action_cancel |-> Swarm("a", "action_cancel", [sequence |-> t.seq]),
         action_end   |-> Encode_SwarmActionEnd("a", 1, t.seq, t.id),
         goto_xyz     |-> Encode_SwarmGotoXYZ("a", 1, t.seq, t.id, t.at),
         reach_xyz    |-> Encode_SwarmReachXYZ("a", 1, t.seq, t.id),
         query_xyz    |-> Encode_SwarmQueryXYZ("a", 1, t.seq, t.id),
         init_ack     |-> Encode_SwarmInitAck("a", 1, t.seq, "m"),
         alloc_id_ack |-> Encode_SwarmAllocIDAck("a", 1, t.seq, "m"),
         action_start_ack  |-> Encode_SwarmActionStartAck("a", 1, t.seq),
         action_cancel_ack |-> Encode_SwarmActionCancelAck("a", 1, t.seq),
         action_end_ack    |-> Encode_SwarmActionEndAck("a", 1, t.seq, t.id),
         goto_xyz_ack      |-> Encode_SwarmActionGotoXYZAck("a", 1, t.seq, t.id),
         reach_xyz_ack     |-> Encode_SwarmReachXYZAck("a", 1, t.seq, t.id),
         query_xyz_ack     |-> Encode_SwarmQueryXYZAck("a", 1, t.seq, t.id, t.at, t.status)]

(* What each decoder makes of a message.  The decoders of action_end_ack and *)
(* query_xyz_ack are left out: the types they ask for are those of other     *)
(* messages (RobotMsg.c:3233, 3922).  The others that are missing accept     *)
(* nothing at all.                                                           *)
SwarmDecoded(m) ==
    [init          |-> Decode_SwarmInit(m),
     alloc_id      |-> Decode_SwarmAllocID(m),
     action_start  |-> Decode_SwarmActionStart(m),
     action_cancel |-> Decode_SwarmActionCancel(m),
     action_end    |-> Decode_SwarmActionEnd(m),
     goto_xyz      |-> Decode_SwarmGotoXYZ(m),
     reach_xyz     |-> Decode_SwarmReachXYZ(m),
     reach_xyz_ack |-> Decode_SwarmReachXYZAck(m),
     query_xyz     |-> Decode_SwarmQueryXYZ(m)]

(* What each message says. *)
Numbered == [sequence |-> trial.seq, id |-> trial.id]
SwarmSaid ==
    [alloc_id      |-> [sequence |-> trial.seq, count |-> 2, robots |-> RobotList],
     action_end    |-> Numbered,
     goto_xyz      |-> Joined(Numbered, trial.at),
     reach_xyz     |-> Numbered,
     reach_xyz_ack |-> Numbered,
     query_xyz     |-> Numbered]

(* What one side of a swarm encodes, the other side decodes, field by field. *)
SwarmRoundTrip ==
    trial.of = "swarm" =>
        \A type \in DOMAIN SwarmSaid :
            SwarmDecoded(SwarmMessages[type])[type] = Yields("SUCCESS", SwarmSaid[type])

(* No decoder takes one kind of message for another. *)
SwarmKindsApart ==
    trial.of = "swarm" =>
        \A sort \in DOMAIN SwarmMessages :
            LET decoded == SwarmDecoded(SwarmMessages[sort])
            IN  \A type \in DOMAIN decoded : decoded[type].rc = "SUCCESS" <=> sort = type
=============================================================================
