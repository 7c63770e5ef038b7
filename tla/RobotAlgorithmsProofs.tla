------------------------ MODULE RobotAlgorithmsProofs ------------------------
(***************************************************************************)
(* What the computations of the SDK yield for every input.                 *)
(***************************************************************************)
EXTENDS RobotAlgorithms, RecursionFacts, FiniteSetTheorems, TLAPS

(* A digit that was printed is read again. *)
LEMMA DigitRoundTrip ==
    ASSUME NEW d \in 0..15
    PROVE  HexChar(d) \in 48..102 /\ _ubtTranslat(HexChar(d)) = d
<1>1. CASE d < 10
  BY <1>1 DEF HexChar, _ubtTranslat
<1>2. CASE d >= 10
  BY <1>2 DEF HexChar, _ubtTranslat
<1> QED BY <1>1, <1>2

(* A number is made up of its lowest byte and the rest; the divisors of the   *)
(* second, third and fourth byte are divisions by 256 one after another.      *)
LEMMA LowByte ==
    ASSUME NEW v \in Nat
    PROVE  /\ v \div 256 \in Nat /\ v % 256 \in 0..255
           /\ v = (v % 256) + 256 * (v \div 256)
  BY SMT

LEMMA HighBytes ==
    ASSUME NEW v \in Nat
    PROVE  /\ v \div 65536 = (v \div 256) \div 256
           /\ v \div 16777216 = (v \div 65536) \div 256
  BY SMT

LEMMA FourBytes ==
    ASSUME NEW v \in Nat, v <= INT_MAX
    PROVE  /\ {v % 256, (v \div 256) % 256, (v \div 65536) % 256, (v \div 16777216) % 256} \subseteq 0..255
           /\ v = (v % 256) + 256 * ((v \div 256) % 256)
                 + 65536 * (((v \div 65536) % 256) + 256 * ((v \div 16777216) % 256))
<1> DEFINE a == v \div 256
           b == a \div 256
           c == b \div 256
<1>1. v < 2147483648
  <2>1. INT_MAX = 2147483647
    BY SMT DEF INT_MAX
  <2> QED BY <2>1, SMT
<1>2. a \in Nat /\ b \in Nat /\ c \in Nat
  BY LowByte, SMT
<1>3. v \div 65536 = b /\ v \div 16777216 = c
  BY <1>1, HighBytes, SMT
<1>4. /\ v = (v % 256) + 256 * a /\ a = (a % 256) + 256 * b /\ b = (b % 256) + 256 * c
      /\ v % 256 \in 0..255 /\ a % 256 \in 0..255 /\ b % 256 \in 0..255
  BY <1>1, <1>2, LowByte, SMT
<1> HIDE DEF a, b, c
<1>5. c < 256
  BY <1>1, <1>2, <1>4, SMT
<1>6. c % 256 = c
  BY <1>2, <1>5, SMT
<1>7. v = (v % 256) + 256 * (a % 256) + 65536 * ((b % 256) + 256 * c)
  BY <1>1, <1>2, <1>4, SMT
<1>8. v \div 256 = a
  BY SMT DEF a
<1> QED BY <1>2, <1>3, <1>4, <1>5, <1>6, <1>7, <1>8, SMT

AngleString == [1..(2 * MAX_SERVO_NUM) -> 0..127]

(* Any angle from 1 to 180 that is put in an angle string is what is read     *)
(* from it, and no other servo's angle changes (RobotApi.c:521-556, 623-643). *)
ReadBack(chars, id, angle) ==
    /\ _ubtSetServoAngle(chars, angle, id) \in AngleString
    /\ _ubt_getAngle(_ubtSetServoAngle(chars, angle, id), id) = angle
    /\ \A other \in Servos \ {id} :
          _ubt_getAngle(_ubtSetServoAngle(chars, angle, id), other) = _ubt_getAngle(chars, other)

LEMMA AngleRoundTrip ==
    ASSUME NEW chars \in AngleString, NEW id \in Servos, NEW angle \in 1..180
    PROVE  ReadBack(chars, id, angle)
<1> DEFINE new == _ubtSetServoAngle(chars, angle, id)
<1>1. /\ angle \div 16 \in 0..15 /\ angle % 16 \in 0..15
      /\ (angle \div 16) * 16 + (angle % 16) = angle
  OBVIOUS
<1>2. new = [chars EXCEPT ![2 * id - 1] = HexChar(angle \div 16), ![2 * id] = HexChar(angle % 16)]
  BY DEF _ubtSetServoAngle, InRange
<1>3. /\ id \in 1..17 /\ 2 * id \in 1..34 /\ 2 * id - 1 \in 1..34 /\ 2 * id - 1 # 2 * id
      /\ chars \in [1..34 -> 0..127]
  <2>1. id \in 1..17
    BY DEF Servos, MAX_SERVO_NUM
  <2>2. chars \in [1..34 -> 0..127]
    BY DEF AngleString, MAX_SERVO_NUM
  <2> HIDE DEF new
  <2> QED BY <2>1, <2>2
<1> HIDE DEF new
<1>4. new \in [1..34 -> 0..127]
  <2>1. HexChar(angle \div 16) \in 0..127 /\ HexChar(angle % 16) \in 0..127
    BY <1>1, DigitRoundTrip
  <2> QED BY <1>2, <1>3, <2>1
<1>5. Len(new) = 34 /\ Len(chars) = 34
  BY <1>3, <1>4
<1>6. new[2 * id - 1] = HexChar(angle \div 16) /\ new[2 * id] = HexChar(angle % 16)
  BY <1>2, <1>3
<1>7. _ubt_getAngle(new, id) = angle
  <2>1. ~ (Len(new) = 0 \/ Len(new) < 2 * id)
    BY <1>3, <1>5
  <2>2. _ubtTranslat(new[2 * id - 1]) = angle \div 16 /\ _ubtTranslat(new[2 * id]) = angle % 16
    BY <1>1, <1>6, DigitRoundTrip
  <2> QED BY <1>1, <2>1, <2>2 DEF _ubt_getAngle
<1>8. ASSUME NEW other \in Servos \ {id}
      PROVE  _ubt_getAngle(new, other) = _ubt_getAngle(chars, other)
  <2>1. /\ 2 * other \in 1..34 /\ 2 * other - 1 \in 1..34
        /\ 2 * other \notin {2 * id - 1, 2 * id} /\ 2 * other - 1 \notin {2 * id - 1, 2 * id}
    BY <1>3 DEF Servos, MAX_SERVO_NUM
  <2>2. new[2 * other] = chars[2 * other] /\ new[2 * other - 1] = chars[2 * other - 1]
    BY <1>2, <1>3, <2>1
  <2> QED BY <1>5, <2>2 DEF _ubt_getAngle
<1>9. new \in AngleString
  <2>1. AngleString = [1..34 -> 0..127]
    BY DEF AngleString, MAX_SERVO_NUM
  <2> QED BY <1>4, <2>1, Zenon
<1> QED BY <1>7, <1>8, <1>9, Zenon DEF new, ReadBack

(* Up to 65535 frames, each frame of a motion has its number and the total,   *)
(* the first alone says start, the last alone says end unless it is the first *)
(* (RobotApi.c:656-706).                                                      *)
LEMMA FramesNumbered ==
    ASSUME NEW row, NEW mask, NEW speed, NEW total \in Nat \ {0}, total < 65536, NEW seq \in 1..total
    PROVE  LET f == _ubt_CreateMotionFrame(row, mask, seq, total, speed)
           IN  /\ Word(f, 6) = seq /\ Word(f, 4) = total
               /\ f[3] = 1 <=> seq = 1
               /\ f[3] = 3 <=> seq = total /\ seq # 1
<1> DEFINE f == _ubt_CreateMotionFrame(row, mask, seq, total, speed)
<1>1. /\ f[3] = FrameStatus(seq, total)
      /\ f[4] = total % 256 /\ f[5] = (total \div 256) % 256
      /\ f[6] = seq % 256 /\ f[7] = (seq \div 256) % 256
  BY SMT DEF _ubt_CreateMotionFrame, FrameBody
<1>2. Word(f, 6) = f[6] + 256 * f[7] /\ Word(f, 4) = f[4] + 256 * f[5]
  BY SMT DEF Word
<1>3. \A w \in Nat : w < 65536 => (w % 256) + 256 * ((w \div 256) % 256) = w
  BY SMT
<1>4. Word(f, 6) = seq /\ Word(f, 4) = total
  BY <1>1, <1>2, <1>3, SMT
<1>5. (f[3] = 1 <=> seq = 1) /\ (f[3] = 3 <=> seq = total /\ seq # 1)
  BY <1>1, SMT DEF FrameStatus
<1> QED BY <1>4, <1>5, SMT

(* The last frame of a file holds the time of the motion, up to the largest   *)
(* int (RobotApi.c:1632-1640).                                                *)
LEMMA TrailerHoldsTime ==
    ASSUME NEW frames \in Nat, NEW speed \in Nat, frames * speed * 20 <= INT_MAX
    PROVE  Word(Trailer(frames, speed), 29) + 65536 * Word(Trailer(frames, speed), 31)
             = frames * speed * 20
<1> DEFINE time == frames * speed * 20
           last == Trailer(frames, speed)
<1>1. /\ last[29] = time % 256 /\ last[30] = (time \div 256) % 256
      /\ last[31] = (time \div 65536) % 256 /\ last[32] = (time \div 16777216) % 256
  BY SMT DEF Trailer, Zeros
<1>2. Word(last, 29) = last[29] + 256 * last[30] /\ Word(last, 31) = last[31] + 256 * last[32]
  BY SMT DEF Word
<1> HIDE DEF time, last
<1>3. time \in Nat /\ time <= INT_MAX
  BY SMT DEF time
<1>4. /\ {time % 256, (time \div 256) % 256, (time \div 65536) % 256,
          (time \div 16777216) % 256} \subseteq 0..255
      /\ time = (time % 256) + 256 * ((time \div 256) % 256)
                + 65536 * (((time \div 65536) % 256) + 256 * ((time \div 16777216) % 256))
  BY <1>3, FourBytes, SMT
<1>5. Word(last, 29) + 65536 * Word(last, 31) = time
  BY <1>1, <1>2, <1>4, SMT
<1> QED BY <1>5, SMT DEF time, last

-----------------------------------------------------------------------------
(* What is on trial is an input of its kind. *)
SwarmTried ==
    \E x, y, z, order \in Numbers : trial.at = [x |-> x, y |-> y, z |-> z, order |-> order]
DistanceTried ==
    \E n \in Sensors : trial.elements \in [1..n -> [value : Distances] \cup {[id |-> 1]}]
MotionTried ==
    \E type \in MotionTypes, direct \in Directions, speed \in Speeds, repeat \in Repeats :
        /\ Supported(type, direct)
        /\ trial.type = type /\ trial.direct = direct
        /\ trial.file = File(type, direct, speed, repeat)
Tried ==
    /\ trial.of = "colour" => trial.value \in Readings
    /\ trial.of = "servo" => trial.angles \in [Servos -> Int]
    /\ trial.of = "head" => trial.direct \in DOMAIN HeadAngle
    /\ trial.of = "distance" => DistanceTried
    /\ trial.of = "motion" => MotionTried
    /\ trial.of = "swarm" => SwarmTried

LEMMA TriedAlways == Spec => []Tried
<1>1. Init => Tried
  BY SMT DEF Init, Tried, Nothing
<1>2. Tried /\ [Next]_trial => Tried'
  <2> SUFFICES ASSUME Tried, [Next]_trial PROVE Tried'
    OBVIOUS
  <2>1. CASE TryColour
    BY <2>1 DEF TryColour, Tried
  <2>2. CASE TryServo
    <3>1. PICK id \in Servos, angle \in -1..181, rest \in {0, 90} :
             trial' = [of |-> "servo", angles |-> [s \in Servos |-> IF s = id THEN angle ELSE rest]]
      BY <2>2, Zenon DEF TryServo
    <3> DEFINE angles == [s \in Servos |-> IF s = id THEN angle ELSE rest]
    <3>2. angles \in [Servos -> Int]
      OBVIOUS
    <3> HIDE DEF angles
    <3>3. trial' = [of |-> "servo", angles |-> angles]
      BY <3>1 DEF angles
    <3> QED BY <3>2, <3>3 DEF Tried
  <2>3. CASE TryHead
    BY <2>3, SMT DEF TryHead, Tried
  <2>4. CASE TryMotion
    <3>1. PICK type \in MotionTypes, direct \in Directions, speed \in Speeds, repeat \in Repeats :
             /\ Supported(type, direct)
             /\ trial' = [of |-> "motion", type |-> type, direct |-> direct,
                          file |-> File(type, direct, speed, repeat)]
      BY <2>4, Zenon DEF TryMotion
    <3>2. /\ trial'.of = "motion" /\ trial'.type = type /\ trial'.direct = direct
          /\ trial'.file = File(type, direct, speed, repeat)
      BY <3>1
    <3>3. MotionTried'
      BY <3>1, <3>2 DEF MotionTried
    <3> QED BY <3>2, <3>3 DEF Tried
  <2>5. CASE TryDistance
    <3>1. PICK n \in Sensors : \E e \in [1..n -> [value : Distances] \cup {[id |-> 1]}] :
             trial' = [of |-> "distance", elements |-> e]
      BY <2>5, Zenon DEF TryDistance
    <3>2. trial'.of = "distance" /\ trial'.elements \in [1..n -> [value : Distances] \cup {[id |-> 1]}]
      BY <3>1
    <3>3. DistanceTried'
      BY <3>2 DEF DistanceTried
    <3> QED BY <3>2, <3>3 DEF Tried
  <2>6. CASE TrySwarm
    <3>1. PICK seq, id, x, y, z, order, status \in Numbers :
             trial' = [of |-> "swarm", seq |-> seq, id |-> id, status |-> status,
                       at |-> [x |-> x, y |-> y, z |-> z, order |-> order]]
      BY <2>6, Zenon DEF TrySwarm
    <3>2. trial'.of = "swarm" /\ trial'.at = [x |-> x, y |-> y, z |-> z, order |-> order]
      BY <3>1
    <3>3. SwarmTried'
      BY <3>2 DEF SwarmTried
    <3> QED BY <3>2, <3>3 DEF Tried
  <2>7. CASE Again
    <3>1. trial'.of = "nothing"
      BY <2>7 DEF Again, Nothing
    <3> QED BY <3>1 DEF Tried
  <2>8. CASE UNCHANGED trial
    <3>1. /\ SwarmTried => SwarmTried'
          /\ DistanceTried => DistanceTried'
          /\ MotionTried => MotionTried'
      BY <2>8 DEF SwarmTried, DistanceTried, MotionTried
    <3> QED BY <2>8, <3>1 DEF Tried
  <2> QED BY <2>1, <2>2, <2>3, <2>4, <2>5, <2>6, <2>7, <2>8 DEF Next, Try
<1> QED BY <1>1, <1>2, PTL DEF Spec

LEMMA ColourBytes ==
    ASSUME NEW v \in Nat, v <= INT_MAX
    PROVE  LET c == Colours(v)
           IN  /\ {c.red, c.green, c.blue, c.clear} \subseteq Byte
               /\ c.red + 256 * (c.green + 256 * (c.blue + 256 * c.clear)) = v
<1> DEFINE r == v % 256
           g == (v \div 256) % 256
           b == (v \div 65536) % 256
           k == (v \div 16777216) % 256
<1>1. {r, g, b, k} \subseteq 0..255 /\ v = r + 256 * g + 65536 * (b + 256 * k)
  BY FourBytes, SMT
<1>2. Colours(v) = [red |-> r, green |-> g, blue |-> b, clear |-> k]
  BY SMT DEF Colours
<1> HIDE DEF r, g, b, k
<1>3. v = r + 256 * (g + 256 * (b + 256 * k))
  <2>1. r \in Int /\ g \in Int /\ b \in Int /\ k \in Int
    BY <1>1, SMT
  <2>2. v = r + 256 * g + 65536 * (b + 256 * k)
    BY <1>1
  <2> QED BY <2>1, <2>2, SMT
<1>4. {r, g, b, k} \subseteq Byte
  BY <1>1 DEF Byte
<1> QED BY <1>2, <1>3, <1>4, SMT

(* Whatever int that is not negative the robot reports for a colour, its four *)
(* bytes make it up again (RobotMsg.c:1191-1266).                             *)
THEOREM ColoursKeepEverything == Spec => []ColoursRecompose
<1>1. \A v \in Readings : v \in Nat /\ v <= INT_MAX
  BY AlgorithmsAssumption, SMT
<1>2. Tried => ColoursRecompose
  <2> SUFFICES ASSUME Tried, trial.of = "colour"
               PROVE  LET c == Colours(trial.value)
                      IN  /\ {c.red, c.green, c.blue, c.clear} \subseteq Byte
                          /\ c.red + 256 * (c.green + 256 * (c.blue + 256 * c.clear)) = trial.value
    BY DEF ColoursRecompose
  <2>1. trial.value \in Nat /\ trial.value <= INT_MAX
    BY <1>1 DEF Tried
  <2> QED BY <2>1, ColourBytes
<1> QED BY <1>2, TriedAlways, PTL

-----------------------------------------------------------------------------
(* Angle strings. *)

(* Where a servo's two digits are. *)
LEMMA ServoPlaces ==
    ASSUME NEW s \in Servos
    PROVE  /\ s \in 1..17 /\ 2 * s - 1 \in 1..34 /\ 2 * s \in 1..34 /\ 2 * s - 1 # 2 * s
           /\ ((2 * s - 1) + 1) \div 2 = s /\ (2 * s + 1) \div 2 = s
  BY SMT DEF Servos, MAX_SERVO_NUM

LEMMA AngleWritten ==
    ASSUME NEW angles \in [Servos -> Int], NEW s \in Servos, InRange(angles[s])
    PROVE  _ubt_getAngle(AllAngles(angles), s) = IF angles[s] = 0 THEN NoAngle ELSE angles[s]
<1> DEFINE chars == AllAngles(angles)
           one == _ubtSetServoAngle(AllUnset, angles[s], s)
<1>1. /\ Len(chars) = 34 /\ chars[2 * s - 1] = one[2 * s - 1] /\ chars[2 * s] = one[2 * s]
  BY ServoPlaces DEF AllAngles, MAX_SERVO_NUM
<1>2. AllUnset \in AngleString /\ AllUnset[2 * s - 1] = 70 /\ AllUnset[2 * s] = 70
  BY ServoPlaces DEF AllUnset, AngleString, MAX_SERVO_NUM
<1>3. ~ (34 = 0 \/ 34 < 2 * s)
  BY ServoPlaces
<1>4. CASE angles[s] = 0
  <2>1. one = AllUnset
    BY <1>4 DEF _ubtSetServoAngle
  <2>2. _ubtTranslat(70) * 16 + _ubtTranslat(70) = 255
    BY DEF _ubtTranslat
  <2> HIDE DEF chars
  <2>3. _ubt_getAngle(chars, s) = NoAngle
    BY <1>1, <1>2, <1>3, <2>1, <2>2 DEF _ubt_getAngle, NoAngle
  <2> QED BY <1>4, <2>3 DEF chars
<1>5. CASE angles[s] # 0
  <2>1. angles[s] \in 1..180
    BY <1>5, SMT DEF InRange
  <2>2. one \in AngleString /\ _ubt_getAngle(one, s) = angles[s]
    <3>1. ReadBack(AllUnset, s, angles[s])
      BY <1>2, <2>1, AngleRoundTrip
    <3> QED BY <3>1, Zenon DEF ReadBack
  <2> HIDE DEF chars, one
  <2>3. Len(one) = 34
    BY <2>2 DEF AngleString, MAX_SERVO_NUM
  <2>4. _ubt_getAngle(chars, s) = _ubt_getAngle(one, s)
    BY <1>1, <2>3 DEF _ubt_getAngle
  <2> QED BY <1>5, <2>2, <2>4 DEF chars
<1> QED BY <1>4, <1>5

LEMMA HeadTurned ==
    ASSUME NEW direct \in DOMAIN HeadAngle, NEW s \in Servos
    PROVE  _ubt_getAngle(MaskedAngles({SERVO_HEAD}, HeadAngle[direct]), s)
             = IF s = SERVO_HEAD THEN HeadDegrees[direct] ELSE NoAngle
<1> DEFINE pair == HeadAngle[direct]
           chars == MaskedAngles({SERVO_HEAD}, pair)
<1>1. Len(chars) = 34 /\ ~ (34 = 0 \/ 34 < 2 * s)
  BY ServoPlaces DEF MaskedAngles, MAX_SERVO_NUM
<1>2. CASE s # SERVO_HEAD
  <2>1. chars[2 * s - 1] = 70 /\ chars[2 * s] = 70
    BY <1>2, ServoPlaces DEF MaskedAngles, MAX_SERVO_NUM
  <2>2. _ubtTranslat(70) * 16 + _ubtTranslat(70) = 255
    BY DEF _ubtTranslat
  <2> HIDE DEF chars
  <2>3. _ubt_getAngle(chars, s) = NoAngle
    BY <1>1, <2>1, <2>2 DEF _ubt_getAngle, NoAngle
  <2> QED BY <1>2, <2>3 DEF chars
<1>3. CASE s = SERVO_HEAD
  <2>1. Cardinality({t \in {17} : t < 17}) = 0
    <3>1. {t \in {17} : t < 17} = {}
      OBVIOUS
    <3> QED BY <3>1, FS_EmptySet
  <2>2. chars[33] = pair[1] /\ chars[34] = pair[2]
    <3>1. chars[33] = pair[2 * Cardinality({t \in {17} : t < 17}) + 2 - (33 % 2)]
      BY DEF MaskedAngles, MAX_SERVO_NUM, SERVO_HEAD
    <3>2. chars[34] = pair[2 * Cardinality({t \in {17} : t < 17}) + 2 - (34 % 2)]
      BY DEF MaskedAngles, MAX_SERVO_NUM, SERVO_HEAD
    <3> QED BY <2>1, <3>1, <3>2
  <2>3. _ubtTranslat(pair[1]) * 16 + _ubtTranslat(pair[2]) = HeadDegrees[direct]
    BY DEF HeadAngle, HeadDegrees, _ubtTranslat
  <2> HIDE DEF chars, pair
  <2>4. _ubt_getAngle(chars, s) = HeadDegrees[direct]
    BY <1>1, <1>3, <2>2, <2>3 DEF _ubt_getAngle, SERVO_HEAD
  <2> QED BY <1>3, <2>4 DEF chars, pair
<1> QED BY <1>2, <1>3

(* Whatever angles the caller gives for the 17 servos, those that are read    *)
(* from the string are those that were set, and a head that turns moves       *)
(* nothing else (ubtSetRobotServo, ubtGetRobotServo and _ubtSetRobotServo,    *)
(* RobotApi.c:521-706 and 1009-1079).                                         *)
THEOREM AnglesComeBack == Spec => []ServoRoundTrip
<1>1. Tried => ServoRoundTrip
  <2> SUFFICES ASSUME Tried PROVE ServoRoundTrip
    OBVIOUS
  <2>1. ASSUME trial.of = "servo", AnglesAccepted(trial.angles)
        PROVE  AnglesRead(AllAngles(trial.angles)) =
                 [s \in Servos |-> IF trial.angles[s] = 0 THEN NoAngle ELSE trial.angles[s]]
    BY <2>1, AngleWritten DEF Tried, AnglesAccepted, AnglesRead
  <2>2. ASSUME trial.of = "head"
        PROVE  AnglesRead(MaskedAngles({SERVO_HEAD}, HeadAngle[trial.direct])) =
                 [s \in Servos |-> IF s = SERVO_HEAD THEN HeadDegrees[trial.direct] ELSE NoAngle]
    BY <2>2, HeadTurned DEF Tried, AnglesRead
  <2> QED BY <2>1, <2>2 DEF ServoRoundTrip
<1> QED BY <1>1, TriedAlways, PTL

-----------------------------------------------------------------------------
(* Swarm messages.  A decoder accepts the messages of its type and copies     *)
(* the fields that are there.                                                 *)
LEMMA SwarmDecoding ==
    ASSUME NEW account, NEW sort, NEW fields, "nojson" \notin DOMAIN fields, NEW type, NEW wanted
    PROVE  Decode_Swarm(Swarm(account, sort, fields), type, wanted) =
             IF sort = type THEN Yields("SUCCESS", Copied(Swarm(account, sort, fields), wanted))
             ELSE Rc("FAILED")
  BY DEF Decode_Swarm, Swarm, Joined, Has, Other, Decoding, Parses

(* A message of the given sort. *)
SortOf(m, sort) == \E account, fields : "nojson" \notin DOMAIN fields /\ m = Swarm(account, sort, fields)

LEMMA DecodedApart ==
    ASSUME NEW m, NEW sort, SortOf(m, sort), NEW type \in DOMAIN SwarmDecoded(m)
    PROVE  SwarmDecoded(m)[type].rc = "SUCCESS" <=> sort = type
<1>1. \A t, wanted : Decode_Swarm(m, t, wanted).rc = "SUCCESS" <=> sort = t
  BY SwarmDecoding DEF SortOf, Yields, Rc
<1>2. type \in {"init", "alloc_id", "action_start", "action_cancel", "action_end", "goto_xyz",
                "reach_xyz", "reach_xyz_ack", "query_xyz"}
  BY DEF SwarmDecoded
<1>3. CASE type = "alloc_id"
  BY <1>1, <1>3 DEF SwarmDecoded, Decode_SwarmAllocID, Yields
<1>4. CASE type # "alloc_id"
  BY <1>1, <1>2, <1>4 DEF SwarmDecoded, Decode_SwarmInit, Decode_SwarmActionStart,
       Decode_SwarmActionCancel, Decode_SwarmActionEnd, Decode_SwarmGotoXYZ,
       Decode_SwarmReachXYZ, Decode_SwarmReachXYZAck, Decode_SwarmQueryXYZ
<1> QED BY <1>3, <1>4

LEMMA SwarmSorts == \A sort \in DOMAIN SwarmMessages : SortOf(SwarmMessages[sort], sort)
<1> SUFFICES ASSUME NEW sort \in DOMAIN SwarmMessages PROVE SortOf(SwarmMessages[sort], sort)
  OBVIOUS
<1> USE DEF SwarmMessages, SortOf
<1>1. CASE sort \in {"init", "alloc_id", "action_start", "action_cancel"}
  BY <1>1
<1>2. CASE sort \in {"init_ack", "alloc_id_ack", "action_start_ack", "action_cancel_ack"}
  BY <1>2 DEF Encode_SwarmInitAck, Encode_SwarmAllocIDAck, Encode_SwarmActionStartAck,
              Encode_SwarmActionCancelAck
<1>3. CASE sort \in {"action_end", "action_end_ack", "goto_xyz", "goto_xyz_ack"}
  BY <1>3 DEF Encode_SwarmActionEnd, Encode_SwarmActionEndAck, Encode_SwarmGotoXYZ,
              Encode_SwarmActionGotoXYZAck
<1>4. CASE sort \in {"reach_xyz", "reach_xyz_ack", "query_xyz", "query_xyz_ack"}
  BY <1>4 DEF Encode_SwarmReachXYZ, Encode_SwarmReachXYZAck, Encode_SwarmQueryXYZ,
              Encode_SwarmQueryXYZAck
<1> QED BY <1>1, <1>2, <1>3, <1>4

(* Whatever the numbers in it, a swarm message is accepted by the decoder of  *)
(* its own type and by no other, of the nine decoders that accept anything of *)
(* their type at all (RobotMsg.c:2666-3997).                                  *)
THEOREM SwarmSortsTold == Spec => []SwarmKindsApart
<1>1. SwarmKindsApart
  BY SwarmSorts, DecodedApart DEF SwarmKindsApart
<1> QED BY <1>1, PTL

LEMMA NumberedCopied ==
    ASSUME NEW fields, {"sequence", "id"} \subseteq DOMAIN fields, NEW sort,
           fields["sequence"] = trial.seq, fields["id"] = trial.id
    PROVE  Copied(Swarm("a", sort, fields), {"sequence", "id"}) = Numbered
<1> DEFINE m == Swarm("a", sort, fields)
<1>1. {"sequence", "id"} \cap DOMAIN m = {"sequence", "id"}
  BY DEF Swarm, Joined
<1>2. m["sequence"] = trial.seq /\ m["id"] = trial.id
  BY DEF Swarm, Joined, Has
<1>3. Copied(m, {"sequence", "id"}) = [f \in {"sequence", "id"} |-> m[f]]
  BY <1>1 DEF Copied
<1> HIDE DEF m
<1>4. [f \in {"sequence", "id"} |-> m[f]] = [sequence |-> m["sequence"], id |-> m["id"]]
  OBVIOUS
<1>5. Copied(m, {"sequence", "id"}) = Numbered
  BY <1>2, <1>3, <1>4 DEF Numbered
<1> QED BY <1>5 DEF m

LEMMA AllocDecoding ==
    ASSUME NEW m, NEW list, m.robotlist = list,
           NEW out, Decode_Swarm(m, "alloc_id", {"sequence"}) = Yields("SUCCESS", out)
    PROVE  Decode_SwarmAllocID(m) = Yields("SUCCESS", Joined(out,
               [count |-> Len(list), robots |-> [i \in DOMAIN list |-> Copied(list[i], {"id", "mac"})]]))
<1> DEFINE got == Decode_Swarm(m, "alloc_id", {"sequence"})
           robots == [i \in DOMAIN list |-> Copied(list[i], {"id", "mac"})]
<1>1. got.rc = "SUCCESS" /\ got.out = out
  BY DEF Yields
<1>2. [i \in DOMAIN m.robotlist |-> Copied(m.robotlist[i], {"id", "mac"})] = robots
  OBVIOUS
<1>3. Decode_SwarmAllocID(m) =
         IF got.rc # "SUCCESS" THEN got
         ELSE Yields("SUCCESS", Joined(got.out, [count |-> Len(m.robotlist), robots |->
                [i \in DOMAIN m.robotlist |-> Copied(m.robotlist[i], {"id", "mac"})]]))
  BY Zenon DEF Decode_SwarmAllocID
<1> HIDE DEF got, robots
<1>4. Decode_SwarmAllocID(m) = Yields("SUCCESS", Joined(out, [count |-> Len(list), robots |-> robots]))
  BY <1>1, <1>2, <1>3
<1> QED BY <1>4 DEF robots

LEMMA SwarmReadBack ==
    ASSUME trial.of = "swarm", Tried, NEW type \in DOMAIN SwarmSaid
    PROVE  SwarmDecoded(SwarmMessages[type])[type] = Yields("SUCCESS", SwarmSaid[type])
<1>1. CASE type = "action_end"
  <2>1. SwarmMessages[type] =
          Swarm("a", type, [port |-> 1, sequence |-> trial.seq, id |-> trial.id])
    BY <1>1 DEF SwarmMessages, Encode_SwarmActionEnd
  <2>2. SwarmDecoded(SwarmMessages[type])[type] =
          Decode_Swarm(SwarmMessages[type], type, {"sequence", "id"})
    BY <1>1 DEF SwarmDecoded, Decode_SwarmActionEnd
  <2> QED BY <1>1, <2>1, <2>2, SwarmDecoding, NumberedCopied DEF SwarmSaid
<1>2. CASE type \in {"reach_xyz", "reach_xyz_ack", "query_xyz"}
  <2>1. SwarmMessages[type] =
          Swarm("a", type, [port |-> 1, id |-> trial.id, sequence |-> trial.seq])
    BY <1>2 DEF SwarmMessages, Encode_SwarmReachXYZ, Encode_SwarmReachXYZAck, Encode_SwarmQueryXYZ
  <2>2. SwarmDecoded(SwarmMessages[type])[type] =
          Decode_Swarm(SwarmMessages[type], type, {"sequence", "id"})
    BY <1>2 DEF SwarmDecoded, Decode_SwarmReachXYZ, Decode_SwarmReachXYZAck, Decode_SwarmQueryXYZ
  <2>3. SwarmSaid[type] = Numbered
    BY <1>2 DEF SwarmSaid
  <2> QED BY <2>1, <2>2, <2>3, SwarmDecoding, NumberedCopied
<1>3. CASE type = "goto_xyz"
  <2> DEFINE fields == [id |-> trial.id, x |-> trial.at.x, y |-> trial.at.y, z |-> trial.at.z,
                        order |-> trial.at.order, sequence |-> trial.seq]
             wanted == {"sequence", "id"} \cup Position
  <2>1. SwarmMessages[type] = Swarm("a", type, fields)
    BY <1>3 DEF SwarmMessages, Encode_SwarmGotoXYZ
  <2>2. SwarmDecoded(SwarmMessages[type])[type] = Decode_Swarm(SwarmMessages[type], type, wanted)
    BY <1>3 DEF SwarmDecoded, Decode_SwarmGotoXYZ
  <2>3. trial.at = [x |-> trial.at.x, y |-> trial.at.y, z |-> trial.at.z, order |-> trial.at.order]
    BY DEF Tried, SwarmTried
  <2>4. Copied(Swarm("a", type, fields), wanted) = SwarmSaid[type]
    BY <1>3, <2>3 DEF SwarmSaid, Copied, Swarm, Joined, Has, Numbered, Position
  <2> QED BY <2>1, <2>2, <2>4, SwarmDecoding
<1>4. CASE type = "alloc_id"
  <2> DEFINE fields == [sequence |-> trial.seq, robotlist |-> RobotList]
             m == Swarm("a", "alloc_id", fields)
             ids == {"id", "mac"}
  <2>1. SwarmMessages[type] = m
    BY <1>4 DEF SwarmMessages
  <2>2. Decode_Swarm(m, "alloc_id", {"sequence"}) = Yields("SUCCESS", [sequence |-> trial.seq])
    <3>1. Copied(m, {"sequence"}) = [sequence |-> trial.seq]
      BY DEF Copied, Swarm, Joined, Has
    <3> QED BY <3>1, SwarmDecoding
  <2>3. m.robotlist = RobotList
    BY DEF Swarm, Joined, Has
  <2>4. /\ DOMAIN RobotList = {1, 2} /\ Len(RobotList) = 2
        /\ Copied(RobotList[1], ids) = RobotList[1] /\ Copied(RobotList[2], ids) = RobotList[2]
    BY DEF RobotList, Copied
  <2>5. [i \in DOMAIN RobotList |-> Copied(RobotList[i], ids)] = RobotList
    BY <2>4 DEF RobotList
  <2>6. Joined([sequence |-> trial.seq], [count |-> 2, robots |-> RobotList]) = SwarmSaid.alloc_id
    BY DEF SwarmSaid, Joined, Has
  <2> HIDE DEF m
  <2>7. Decode_SwarmAllocID(m) = Yields("SUCCESS", SwarmSaid.alloc_id)
    <3> DEFINE robots == [i \in DOMAIN RobotList |-> Copied(RobotList[i], {"id", "mac"})]
    <3>1. robots = RobotList
      BY <2>5
    <3> HIDE DEF robots
    <3>2. Decode_SwarmAllocID(m) = Yields("SUCCESS",
             Joined([sequence |-> trial.seq], [count |-> Len(RobotList), robots |-> robots]))
      BY <2>2, <2>3, AllocDecoding DEF robots
    <3> QED BY <2>4, <2>6, <3>1, <3>2
  <2> QED BY <1>4, <2>1, <2>7 DEF SwarmDecoded, m
<1>5. type \in {"alloc_id", "action_end", "goto_xyz", "reach_xyz", "reach_xyz_ack", "query_xyz"}
  BY DEF SwarmSaid
<1> QED BY <1>1, <1>2, <1>3, <1>4, <1>5

(* Whatever numbers one side of a swarm puts in a message, the other side     *)
(* reads from it, field by field (RobotMsg.c:2666-3997).                      *)
THEOREM SwarmNumbersKept == Spec => []SwarmRoundTrip
<1>1. Tried => SwarmRoundTrip
  BY SwarmReadBack DEF SwarmRoundTrip
<1> QED BY <1>1, TriedAlways, PTL

-----------------------------------------------------------------------------
(* Loops. *)

LEMMA NearestLoop ==
    ASSUME NEW n \in Nat, NEW e, DOMAIN e = 1..n, Len(e) = n,
           \A i \in 1..n : Has(e[i], "value") => e[i].value \in Nat
    PROVE  \E best : /\ best = [i \in 0..n |-> IF i = 0 THEN NoDistance
                                               ELSE Nearer(best[i - 1], e[i])]
                     /\ Nearest(e) = best[n]
<1> DEFINE next == [p \in Nat \X Nat |-> IF p[1] \in 1..n THEN Nearer(p[2], e[p[1]]) ELSE p[2]]
<1>1. next \in [Nat \X Nat -> Nat]
  BY DEF Nearer
<1>2. NoDistance \in Nat
  BY DEF NoDistance
<1>3. PICK g : Looped(g, Nat, NoDistance, next, n)
  <2> HIDE DEF next
  <2> QED BY <1>1, <1>2, LoopExists
<1>4. g \in [0..n -> Nat]
  BY <1>3 DEF Looped
<1>5. \A i \in 0..n : g[i] = IF i = 0 THEN NoDistance ELSE Nearer(g[i - 1], e[i])
  <2> SUFFICES ASSUME NEW i \in 0..n
               PROVE  g[i] = IF i = 0 THEN NoDistance ELSE Nearer(g[i - 1], e[i])
    OBVIOUS
  <2>1. g[i] = IF i = 0 THEN NoDistance ELSE next[i, g[i - 1]]
    BY <1>3 DEF Looped
  <2>2. ASSUME i # 0 PROVE next[i, g[i - 1]] = Nearer(g[i - 1], e[i])
    <3>1. i \in 1..n /\ i - 1 \in 0..n /\ i \in Nat
      BY <2>2
    <3>2. g[i - 1] \in Nat
      BY <1>4, <3>1
    <3> QED BY <3>1, <3>2
  <2> HIDE DEF next
  <2> QED BY <2>1, <2>2
<1>6. g = [i \in 0..n |-> IF i = 0 THEN NoDistance ELSE Nearer(g[i - 1], e[i])]
  <2> HIDE DEF next
  <2> QED BY <1>4, <1>5
<1> DEFINE best == CHOOSE b : b = [i \in 0..n |-> IF i = 0 THEN NoDistance
                                                  ELSE Nearer(b[i - 1], e[i])]
<1>7. best = [i \in 0..n |-> IF i = 0 THEN NoDistance ELSE Nearer(best[i - 1], e[i])]
  <2> HIDE DEF next
  <2> QED BY <1>6
<1>8. Nearest(e) = best[n]
  BY DEF Nearest
<1> HIDE DEF best, next
<1> QED BY <1>7, <1>8

(* The least of the first k values that are not 0, or NoDistance. *)
Measures(e, i) == Has(e[i], "value") /\ e[i].value # 0
LeastOf(b, e, k) ==
    /\ b \in Nat /\ b <= NoDistance
    /\ b = NoDistance \/ \E i \in 1..k : Measures(e, i) /\ e[i].value = b
    /\ \A i \in 1..k : Measures(e, i) => b <= e[i].value

LEMMA NearestLeast ==
    ASSUME NEW n \in Nat, NEW e, DOMAIN e = 1..n, Len(e) = n,
           \A i \in 1..n : Has(e[i], "value") => e[i].value \in Nat
    PROVE  LeastOf(Nearest(e), e, n)
<1>1. PICK best : /\ best = [i \in 0..n |-> IF i = 0 THEN NoDistance
                                            ELSE Nearer(best[i - 1], e[i])]
                  /\ Nearest(e) = best[n]
  BY NearestLoop
<1> DEFINE S == {k \in Nat : k <= n => LeastOf(best[k], e, k)}
<1>2. best[0] = NoDistance /\ \A k \in 1..n : best[k] = Nearer(best[k - 1], e[k])
  BY <1>1
<1>3. 0 \in S
  <2>1. LeastOf(best[0], e, 0)
    BY <1>2 DEF LeastOf, NoDistance
  <2> QED BY <2>1
<1>4. ASSUME NEW k \in S PROVE k + 1 \in S
  <2>1. k \in Nat /\ (k <= n => LeastOf(best[k], e, k))
    OBVIOUS
  <2> HIDE DEF S
  <2>2. ASSUME k + 1 <= n PROVE LeastOf(best[k + 1], e, k + 1)
    <3>1. k + 1 \in 1..n /\ (k + 1) - 1 = k /\ k <= n
      BY <2>1, <2>2
    <3>2. best[k + 1] = Nearer(best[k], e[k + 1])
      BY <1>2, <3>1
    <3>3. LeastOf(best[k], e, k) /\ (Has(e[k + 1], "value") => e[k + 1].value \in Nat)
      BY <2>1, <3>1
    <3>4. \A i \in 1..k+1 : i \in 1..k \/ i = k + 1
      BY <2>1
    <3>5. \A i \in 1..k : i \in 1..k+1
      BY <2>1
    <3>6. k + 1 \in 1..k+1
      BY <2>1
    <3> DEFINE v == e[k + 1].value
    <3>7. CASE Measures(e, k + 1) /\ best[k] > v
      <4>1. best[k + 1] = v
        BY <3>2, <3>7 DEF Nearer, Measures
      <4>2. v \in Nat /\ best[k] \in Nat /\ v < best[k] /\ best[k] <= NoDistance
        BY <3>3, <3>7 DEF LeastOf, Measures
      <4>3. \A i \in 1..k+1 : Measures(e, i) => v <= e[i].value
        <5> SUFFICES ASSUME NEW i \in 1..k+1, Measures(e, i) PROVE v <= e[i].value
          OBVIOUS
        <5>1. CASE i = k + 1
          BY <4>2, <5>1
        <5>2. CASE i \in 1..k
          <6>1. best[k] <= e[i].value
            BY <3>3, <5>2 DEF LeastOf
          <6>2. i \in 1..n /\ e[i].value \in Nat
            BY <3>1, <5>2 DEF Measures
          <6> QED BY <4>2, <6>1, <6>2
        <5> QED BY <3>4, <5>1, <5>2
      <4>4. v <= NoDistance
        BY <4>2 DEF NoDistance
      <4> QED BY <3>6, <3>7, <4>1, <4>2, <4>3, <4>4 DEF LeastOf
    <3>8. CASE ~ (Measures(e, k + 1) /\ best[k] > v)
      <4>1. best[k + 1] = best[k]
        BY <3>2, <3>8 DEF Nearer, Measures
      <4> QED BY <3>3, <3>4, <3>5, <3>6, <3>8, <4>1 DEF LeastOf, Measures
    <3> QED BY <3>7, <3>8
  <2> QED BY <2>1, <2>2 DEF S
<1>5. S = Nat
  <2>1. S \in SUBSET Nat
    OBVIOUS
  <2> HIDE DEF S
  <2> QED BY <1>3, <1>4, <2>1, EveryNat
<1>6. LeastOf(best[n], e, n)
  <2>1. n \in S
    BY <1>5
  <2> QED BY <2>1
<1> QED BY <1>1, <1>6

(* However many sensors an answer lists, with a value or without, the         *)
(* distance is the least that is not 0 (RobotMsg.c:1141-1190).                *)
THEOREM NearestAlways == Spec => []NearestDistance
<1>1. Tried => NearestDistance
  <2> SUFFICES ASSUME Tried, trial.of = "distance" PROVE NearestDistance
    BY DEF NearestDistance
  <2> DEFINE e == trial.elements
             measured == {e[i].value : i \in {j \in DOMAIN e : Has(e[j], "value")}} \ {0}
  <2>1. PICK n \in Sensors : e \in [1..n -> [value : Distances] \cup {[id |-> 1]}]
    BY DEF Tried, DistanceTried
  <2>2. n \in Nat /\ DOMAIN e = 1..n /\ Len(e) = n
    BY <2>1, AlgorithmsAssumption
  <2>3. \A i \in 1..n : Has(e[i], "value") => e[i].value \in Nat
    <3>1. \A x \in [value : Distances] : x.value \in Nat
      BY AlgorithmsAssumption
    <3>2. ~ Has([id |-> 1], "value")
      BY DEF Has
    <3>3. \A i \in 1..n : e[i] \in [value : Distances] \/ e[i] = [id |-> 1]
      BY <2>1
    <3> QED BY <3>1, <3>2, <3>3
  <2> HIDE DEF e
  <2>4. LeastOf(Nearest(e), e, n)
    BY <2>2, <2>3, NearestLeast
  <2>5. \A d : d \in measured <=> \E i \in 1..n : Measures(e, i) /\ e[i].value = d
    BY <2>2 DEF Measures
  <2> HIDE DEF measured
  <2>6. Nearest(e) \in measured \cup {NoDistance}
    BY <2>4, <2>5 DEF LeastOf
  <2>7. \A d \in measured \cup {NoDistance} : Nearest(e) <= d
    BY <2>4, <2>5 DEF LeastOf
  <2>8. Decode_Distance(e).out = Nearest(e)
    BY DEF Decode_Distance, Yields
  <2> QED BY <2>6, <2>7, <2>8 DEF NearestDistance, e, measured
<1> QED BY <1>1, TriedAlways, PTL

-----------------------------------------------------------------------------
(* Motion files. *)

(* sum is the sum that the loop has at each place. *)
Sums(sum, f, from, to) ==
    /\ sum = [i \in 0..to |-> IF i < from THEN 0 ELSE sum[i - 1] + f[i]]
    /\ Total(f, from, to) = sum[to]

LEMMA TotalLoop ==
    ASSUME NEW from \in Nat, from > 0, NEW to \in Nat, NEW f, \A i \in from..to : f[i] \in Int
    PROVE  \E sum : Sums(sum, f, from, to)
<1> DEFINE next == [p \in Nat \X Int |-> IF p[1] \in from..to THEN p[2] + f[p[1]] ELSE 0]
<1>1. next \in [Nat \X Int -> Int]
  OBVIOUS
<1>2. PICK g : Looped(g, Int, 0, next, to)
  <2> HIDE DEF next
  <2>1. 0 \in Int
    OBVIOUS
  <2> QED BY <1>1, <2>1, LoopExists
<1>3. g \in [0..to -> Int]
  BY <1>2 DEF Looped
<1>4. \A i \in 0..to : g[i] = IF i < from THEN 0 ELSE g[i - 1] + f[i]
  <2> SUFFICES ASSUME NEW i \in 0..to
               PROVE  g[i] = IF i < from THEN 0 ELSE g[i - 1] + f[i]
    OBVIOUS
  <2>1. g[i] = IF i = 0 THEN 0 ELSE next[i, g[i - 1]]
    BY <1>2 DEF Looped
  <2>2. ASSUME i # 0
        PROVE  next[i, g[i - 1]] = IF i < from THEN 0 ELSE g[i - 1] + f[i]
    <3>1. i - 1 \in 0..to /\ i \in Nat /\ (i < from <=> i \notin from..to)
      BY <2>2
    <3>2. g[i - 1] \in Int
      BY <1>3, <3>1
    <3> QED BY <3>1, <3>2
  <2> HIDE DEF next
  <2> QED BY <2>1, <2>2
<1>5. g = [i \in 0..to |-> IF i < from THEN 0 ELSE g[i - 1] + f[i]]
  <2> HIDE DEF next
  <2> QED BY <1>3, <1>4
<1> DEFINE sum == CHOOSE s : s = [i \in 0..to |-> IF i < from THEN 0 ELSE s[i - 1] + f[i]]
<1>6. sum = [i \in 0..to |-> IF i < from THEN 0 ELSE sum[i - 1] + f[i]]
  <2> HIDE DEF next
  <2> QED BY <1>5
<1>7. Total(f, from, to) = sum[to]
  BY DEF Total
<1> HIDE DEF sum, next
<1>8. Sums(sum, f, from, to)
  BY <1>6, <1>7 DEF Sums
<1> QED BY <1>8

LEMMA TotalIsInt ==
    ASSUME NEW f, \A i \in 2..30 : f[i] \in Int
    PROVE  Total(f, 2, 30) \in Int
<1>1. PICK from \in Nat, to \in Nat : from = 2 /\ to = 30
  OBVIOUS
<1>2. PICK s : Sums(s, f, from, to)
  <2>1. from > 0 /\ \A i \in from..to : f[i] \in Int
    BY <1>1
  <2> QED BY <2>1, TotalLoop
<1>3. s[0] = 0 /\ s[1] = 0 /\ \A i \in 2..30 : s[i] = s[i - 1] + f[i]
  BY <1>1, <1>2 DEF Sums
<1> DEFINE S == {k \in Nat : k <= 29 => s[k + 1] \in Int}
<1>4. 0 \in S
  BY <1>3
<1>5. ASSUME NEW k \in S PROVE k + 1 \in S
  <2>1. k \in Nat /\ (k <= 29 => s[k + 1] \in Int)
    OBVIOUS
  <2> HIDE DEF S
  <2>2. ASSUME k + 1 <= 29 PROVE s[(k + 1) + 1] \in Int
    <3>1. (k + 1) + 1 \in 2..30 /\ ((k + 1) + 1) - 1 = k + 1 /\ k <= 29
      BY <2>1, <2>2
    <3> QED BY <1>3, <2>1, <3>1
  <2> QED BY <2>1, <2>2 DEF S
<1>6. S = Nat
  <2>1. S \in SUBSET Nat
    OBVIOUS
  <2> HIDE DEF S
  <2> QED BY <1>4, <1>5, <2>1, EveryNat
<1>7. 29 \in S
  BY <1>6
<1>8. s[30] \in Int
  BY <1>7
<1> QED BY <1>1, <1>2, <1>8 DEF Sums

(* Sums of numbers that differ by multiples of 256 do too. *)
Alike(a, b) == a \in Int /\ b \in Int /\ \E j \in Int : a = b + 256 * j

LEMMA AlikeAdds ==
    ASSUME NEW a, NEW b, NEW c, NEW d, Alike(a, b), Alike(c, d)
    PROVE  Alike(a + c, b + d)
<1>1. PICK i \in Int : a = b + 256 * i
  BY DEF Alike
<1>2. PICK j \in Int : c = d + 256 * j
  BY DEF Alike
<1>3. b \in Int /\ d \in Int /\ i + j \in Int
  BY DEF Alike
<1>4. a + c = (b + d) + 256 * (i + j)
  BY <1>1, <1>2, <1>3
<1>5. a + c \in Int /\ b + d \in Int
  BY DEF Alike
<1>6. \E k \in Int : a + c = (b + d) + 256 * k
  BY <1>3, <1>4, Zenon
<1> QED BY <1>5, <1>6, Zenon DEF Alike

LEMMA AlikeTotals ==
    ASSUME NEW from \in Nat, from > 0, NEW to \in Nat, from <= to, NEW f, NEW g,
           \A i \in from..to : Alike(f[i], g[i])
    PROVE  Total(f, from, to) % 256 = Total(g, from, to) % 256
<1>0. \A i \in from..to : f[i] \in Int /\ g[i] \in Int
  BY DEF Alike
<1>1. PICK sf : Sums(sf, f, from, to)
  BY <1>0, TotalLoop
<1>2. PICK sg : Sums(sg, g, from, to)
  BY <1>0, TotalLoop
<1>3. \A i \in 0..to : /\ sf[i] = IF i < from THEN 0 ELSE sf[i - 1] + f[i]
                       /\ sg[i] = IF i < from THEN 0 ELSE sg[i - 1] + g[i]
  BY <1>1, <1>2 DEF Sums
<1> DEFINE S == {k \in Nat : k <= to => Alike(sf[k], sg[k])}
<1>4. 0 \in S
  <2>1. Alike(0, 0)
    BY 0 = 0 + 256 * 0 DEF Alike
  <2>2. sf[0] = 0 /\ sg[0] = 0
    BY <1>3
  <2> QED BY <2>1, <2>2
<1>5. ASSUME NEW k \in S PROVE k + 1 \in S
  <2>1. k \in Nat /\ (k <= to => Alike(sf[k], sg[k]))
    OBVIOUS
  <2> HIDE DEF S
  <2>2. ASSUME k + 1 <= to PROVE Alike(sf[k + 1], sg[k + 1])
    <3>1. k + 1 \in 0..to /\ (k + 1) - 1 = k /\ k <= to
      BY <2>1, <2>2
    <3>2. CASE k + 1 < from
      <4>1. sf[k + 1] = 0 /\ sg[k + 1] = 0
        BY <1>3, <3>1, <3>2
      <4> QED BY <4>1, 0 = 0 + 256 * 0 DEF Alike
    <3>3. CASE ~ (k + 1 < from)
      <4>1. sf[k + 1] = sf[k] + f[k + 1] /\ sg[k + 1] = sg[k] + g[k + 1]
        BY <1>3, <3>1, <3>3
      <4>2. k + 1 \in from..to
        BY <2>1, <2>2, <3>3
      <4> QED BY <2>1, <3>1, <4>1, <4>2, AlikeAdds
    <3> QED BY <3>2, <3>3
  <2> QED BY <2>1, <2>2 DEF S
<1>6. S = Nat
  <2>1. S \in SUBSET Nat
    OBVIOUS
  <2> HIDE DEF S
  <2> QED BY <1>4, <1>5, <2>1, EveryNat
<1>7. Alike(sf[to], sg[to])
  <2>1. to \in S
    BY <1>6
  <2> QED BY <2>1
<1>8. \A a, b : Alike(a, b) => a % 256 = b % 256
  BY DEF Alike
<1> QED BY <1>1, <1>2, <1>7, <1>8 DEF Sums

LEMMA CharAlike == \A b \in Byte : Alike(Char(b), b)
<1> SUFFICES ASSUME NEW b \in Byte PROVE Alike(Char(b), b)
    OBVIOUS
<1>1. b \in Int /\ Char(b) \in Int
  BY DEF Byte, Char
<1>2. Char(b) = b + 256 * (-1) \/ Char(b) = b + 256 * 0
  BY DEF Byte, Char
<1>3. -1 \in Int /\ 0 \in Int
  OBVIOUS
<1> QED BY <1>1, <1>2, <1>3, Zenon DEF Alike

LEMMA TotalFromOne ==
    ASSUME NEW n \in Nat, NEW f, \A i \in 1..n : f[i] \in Int
    PROVE  \E sum : /\ sum[0] = 0 /\ \A k \in 1..n : sum[k] = sum[k - 1] + f[k]
                    /\ Total(f, 1, n) = sum[n]
<1>1. PICK from \in Nat : from = 1
  OBVIOUS
<1>2. PICK sum : Sums(sum, f, from, n)
  <2>1. from > 0 /\ \A i \in from..n : f[i] \in Int
    BY <1>1
  <2> QED BY <2>1, TotalLoop
<1> QED BY <1>1, <1>2 DEF Sums

(* n times the same. *)
LEMMA TotalSame ==
    ASSUME NEW n \in Nat, NEW c \in Nat, NEW f, \A i \in 1..n : f[i] = c
    PROVE  Total(f, 1, n) = n * c
<1>1. PICK sum : /\ sum[0] = 0 /\ \A k \in 1..n : sum[k] = sum[k - 1] + f[k]
                 /\ Total(f, 1, n) = sum[n]
  BY TotalFromOne
<1>2. sum[0] = 0 /\ \A k \in 1..n : sum[k] = sum[k - 1] + c
  BY <1>1
<1> DEFINE S == {k \in Nat : k <= n => sum[k] = k * c}
<1>3. 0 \in S
  BY <1>2
<1>4. ASSUME NEW k \in S PROVE k + 1 \in S
  <2>1. k \in Nat /\ (k <= n => sum[k] = k * c)
    OBVIOUS
  <2> HIDE DEF S
  <2>2. ASSUME k + 1 <= n PROVE sum[k + 1] = (k + 1) * c
    <3>1. k + 1 \in 1..n /\ (k + 1) - 1 = k /\ k <= n
      BY <2>1, <2>2
    <3>2. sum[k + 1] = sum[k] + c
      BY <1>2, <3>1
    <3>3. (k + 1) * c = k * c + c
      BY <2>1
    <3> QED BY <2>1, <3>1, <3>2, <3>3
  <2> QED BY <2>1, <2>2 DEF S
<1>5. S = Nat
  <2>1. S \in SUBSET Nat
    OBVIOUS
  <2> HIDE DEF S
  <2> QED BY <1>3, <1>4, <2>1, EveryNat
<1>6. n \in S
  BY <1>5
<1> QED BY <1>1, <1>6

-----------------------------------------------------------------------------
LEMMA ServoByteIsByte ==
    ASSUME NEW row, NEW mask, NEW servo
    PROVE  ServoByte(row, mask, servo) \in Byte
<1>1. ASSUME NEW i PROVE HexByte(row, i) \in Byte
  <2>1. \A j : Digits(row, j) \subseteq 0..15
    BY DEF Digits
  <2>2. \A j : Digits(row, j) # {} => (CHOOSE d \in Digits(row, j) : TRUE) \in 0..15
    BY <2>1
  <2> DEFINE high == CHOOSE d \in Digits(row, i) : TRUE
             low == CHOOSE d \in Digits(row, i + 1) : TRUE
  <2>3. CASE Digits(row, i) = {}
    BY <2>3 DEF HexByte, Byte
  <2>4. CASE Digits(row, i) # {} /\ Digits(row, i + 1) = {}
    <3>1. HexByte(row, i) = high
      BY <2>4 DEF HexByte
    <3>2. high \in 0..15
      BY <2>2, <2>4
    <3> HIDE DEF high
    <3> QED BY <3>1, <3>2 DEF Byte
  <2>5. CASE Digits(row, i) # {} /\ Digits(row, i + 1) # {}
    <3>1. HexByte(row, i) = 16 * high + low
      BY <2>5 DEF HexByte
    <3>2. high \in 0..15 /\ low \in 0..15
      BY <2>2, <2>5
    <3> HIDE DEF high, low
    <3> QED BY <3>1, <3>2 DEF Byte
  <2> QED BY <2>3, <2>4, <2>5
<1>2. 255 \in Byte
  BY DEF Byte
<1> QED BY <1>1, <1>2 DEF ServoByte

(* A frame is 33 bytes; its checksum is that of its other bytes. *)
LEMMA FrameFits ==
    ASSUME NEW row, NEW mask, NEW speed \in Byte, NEW total \in Nat, NEW seq \in Nat
    PROVE  LET f == _ubt_CreateMotionFrame(row, mask, seq, total, speed)
           IN  /\ f \in [0..32 -> Byte]
               /\ f[3] = FrameStatus(seq, total) /\ f[28] = speed
               /\ f[31] = Total(f, 2, 30) % 256
<1> DEFINE body == FrameBody(row, mask, seq, total, speed)
           chars == [i \in 2..30 |-> Char(body[i])]
           sum == Total(chars, 2, 30)
           f == [body EXCEPT ![31] = sum % 256]
<1>1. /\ DOMAIN body = 0..32 /\ body = [i \in 0..32 |-> body[i]]
      /\ body[0] = 251 /\ body[1] = 191 /\ body[2] = 1 /\ body[3] = FrameStatus(seq, total)
      /\ body[4] = total % 256 /\ body[5] = (total \div 256) % 256
      /\ body[6] = seq % 256 /\ body[7] = (seq \div 256) % 256
      /\ \A i \in 8..27 : body[i] = ServoByte(row, mask, i - 7)
      /\ body[28] = speed /\ body[29] = 0 /\ body[30] = speed /\ body[31] = 0 /\ body[32] = 237
  BY DEF FrameBody
<1>2. \A i \in 0..32 : body[i] \in Byte
  <2>1. \A i \in 8..27 : body[i] \in Byte
    BY <1>1, ServoByteIsByte
  <2>2. FrameStatus(seq, total) \in Byte
    BY DEF FrameStatus, Byte
  <2>3. \A w \in Nat : w % 256 \in Byte /\ (w \div 256) % 256 \in Byte
    BY DEF Byte
  <2>4. {0, 1, 191, 237, 251} \subseteq Byte
    BY DEF Byte
  <2>5. \A i \in 0..32 : i \in {0, 1, 2, 3, 4, 5, 6, 7, 28, 29, 30, 31, 32} \cup 8..27
    OBVIOUS
  <2> HIDE DEF body
  <2> QED BY <1>1, <2>1, <2>2, <2>3, <2>4, <2>5
<1> HIDE DEF body
<1>3. f[31] = sum % 256 /\ \A i \in 0..32 : i # 31 => f[i] = body[i]
  BY <1>1
<1>4. \A i \in 2..30 : Alike(chars[i], f[i])
  <2> SUFFICES ASSUME NEW i \in 2..30 PROVE Alike(chars[i], f[i])
    OBVIOUS
  <2>1. f[i] \in Byte /\ chars[i] = Char(f[i])
    BY <1>2, <1>3
  <2> HIDE DEF f, chars
  <2> QED BY <2>1, CharAlike
<1>5. sum % 256 = Total(f, 2, 30) % 256
  <2> HIDE DEF f, chars
  <2>1. PICK from \in Nat, to \in Nat : from = 2 /\ to = 30
    OBVIOUS
  <2>2. from > 0 /\ from <= to /\ \A i \in from..to : Alike(chars[i], f[i])
    BY <1>4, <2>1
  <2>3. Total(chars, from, to) % 256 = Total(f, from, to) % 256
    BY <2>2, AlikeTotals
  <2> QED BY <2>1, <2>3, Zenon
<1>6. sum % 256 \in Byte
  <2>1. \A i \in 2..30 : chars[i] \in Int
    <3> HIDE DEF f, chars
    <3> QED BY <1>4 DEF Alike
  <2> HIDE DEF f, chars
  <2>2. sum \in Int
    BY <2>1, TotalIsInt
  <2> HIDE DEF sum
  <2> QED BY <2>2 DEF Byte
<1>7. \A i \in 0..32 : f[i] \in Byte
  BY <1>2, <1>3, <1>6
<1>8. f = [i \in 0..32 |-> f[i]]
  BY <1>1
<1>9. _ubt_CreateMotionFrame(row, mask, seq, total, speed) = f
  BY DEF _ubt_CreateMotionFrame, body
<1> HIDE DEF f, sum
<1>10. f \in [0..32 -> Byte]
  BY <1>7, <1>8
<1>11. f[3] = FrameStatus(seq, total) /\ f[28] = speed
  BY <1>1, <1>3
<1> QED BY <1>3, <1>5, <1>9, <1>10, <1>11

(* The files.  A motion of the tables has from 1 to 6 rows. *)
LEMMA RowsOfMotion ==
    ASSUME NEW type \in MotionTypes, NEW direct, Supported(type, direct)
    PROVE  Len(Motions(type)[direct].rows) \in 1..6
<1> USE DEF Supported, Motions, Moves
<1>1. CASE type = "crouch"
  BY <1>1 DEF Crouch
<1>2. CASE type = "bow"
  BY <1>2 DEF Bow
<1>3. CASE type = "raise"
  BY <1>3 DEF Raise
<1>4. CASE type = "stretch"
  BY <1>4 DEF Stretch
<1>5. CASE type = "come_on"
  BY <1>5 DEF ComeOn
<1>6. CASE type = "wave"
  BY <1>6 DEF Wave
<1>7. CASE type = "bend"
  BY <1>7 DEF Bend
<1>8. CASE type = "walk"
  BY <1>8 DEF Walk
<1>9. CASE type = "turn_around"
  BY <1>9 DEF TurnAround
<1> QED BY <1>1, <1>2, <1>3, <1>4, <1>5, <1>6, <1>7, <1>8, <1>9 DEF MotionTypes

(* The numbers of a motion: rows, frames, and the run time of a frame. *)
LEMMA MotionNumbers ==
    ASSUME NEW type \in MotionTypes, NEW direct, Supported(type, direct),
           NEW speed \in Speeds, NEW repeat \in Nat, 7800 * repeat <= INT_MAX
    PROVE  LET rows == Len(Motions(type)[direct].rows)
               time == RunTime(type, speed)
           IN  /\ rows \in 1..6 /\ repeat * rows \in Nat /\ repeat * rows <= 6 * repeat
               /\ time \in Nat /\ time <= 65
               /\ repeat * rows * time * 20 <= INT_MAX
<1> DEFINE rows == Len(Motions(type)[direct].rows)
           time == RunTime(type, speed)
<1>1. rows \in 1..6
  BY RowsOfMotion
<1>2. time \in 10..65
  <2>1. speed \in {1, 2, 3, 4, 5, 6}
    BY AlgorithmsAssumption
  <2>2. 60 \div speed \in 10..60
    BY <2>1
  <2>3. RunTime(type, speed) \in {60 \div speed, (60 \div speed) + 5, (60 \div speed) + 0}
    BY DEF RunTime, SERVO_MAX_LOW_SPEED
  <2> HIDE DEF rows
  <2> QED BY <2>2, <2>3
<1> HIDE DEF rows, time
<1>3. repeat * rows \in Nat /\ repeat * rows <= 6 * repeat
  <2>1. rows \in {1, 2, 3, 4, 5, 6}
    BY <1>1
  <2> QED BY <2>1
<1>4. \A a \in Nat, b \in 0..65 : a * b \in Nat /\ a * b <= 65 * a
  <2> SUFFICES ASSUME NEW a \in Nat, NEW b \in 0..65 PROVE a * b \in Nat /\ a * b <= 65 * a
    OBVIOUS
  <2> QED OBVIOUS
<1>5. repeat * rows * time \in Nat /\ repeat * rows * time <= 65 * (repeat * rows)
  BY <1>2, <1>3, <1>4
<1>6. repeat * rows * time * 20 <= INT_MAX
  <2>1. INT_MAX \in Int
    BY DEF INT_MAX
  <2> QED BY <1>3, <1>5, <2>1
<1>7. time \in Nat /\ time <= 65
  BY <1>2
<1> QED BY <1>1, <1>3, <1>6, <1>7 DEF rows, time

(* A sequence between a first and a last piece. *)
Between(file, frames, n, last) ==
    Len(file) = n + 2 /\ file[n + 2] = last /\ SubSeq(file, 2, n + 1) = frames

LEMMA Middle ==
    ASSUME NEW V, NEW first \in V, NEW last \in V, NEW n \in Nat, NEW frames \in [1..n -> V]
    PROVE  Between(<<first>> \o frames \o <<last>>, frames, n, last)
<1> DEFINE file == <<first>> \o frames \o <<last>>
<1>1. frames \in Seq(V) /\ Len(frames) = n
  OBVIOUS
<1>2. <<first>> \o frames \in Seq(V) /\ Len(<<first>> \o frames) = n + 1
  BY <1>1
<1>3. \A i \in 1..n : (<<first>> \o frames)[i + 1] = frames[i]
  BY <1>1
<1>4. file \in Seq(V) /\ Len(file) = n + 2 /\ file[n + 2] = last
  BY <1>2
<1>5. \A i \in 1..n : file[i + 1] = frames[i]
  BY <1>1, <1>2, <1>3
<1> HIDE DEF file
<1>6. SubSeq(file, 2, n + 1) = [i \in 1..n |-> file[i + 1]]
  BY <1>4
<1>7. SubSeq(file, 2, n + 1) = [i \in 1..n |-> frames[i]]
  BY <1>5, <1>6
<1> QED BY <1>4, <1>7 DEF file, Between

(* What a motion writes: its frames, each made from a row of the tables, and  *)
(* the frame with the time.                                                   *)
PiecesOf(n, time) ==
    /\ \E repeat \in Repeats : n <= 6 * repeat
    /\ time <= 65 /\ n * time * 20 <= INT_MAX
    /\ trial.file[Len(trial.file)] = Trailer(n, time)
    /\ Len(TriedFrames) = n
    /\ \A i \in 1..n : \E row, mask :
          TriedFrames[i] = _ubt_CreateMotionFrame(row, mask, i, n, time)

LEMMA FilePieces ==
    ASSUME trial.of = "motion", MotionTried, \A repeat \in Repeats : 7800 * repeat <= INT_MAX
    PROVE  \E n, time \in Nat : PiecesOf(n, time)
<1>1. PICK type \in MotionTypes, direct \in Directions, speed \in Speeds, repeat \in Repeats :
        Supported(type, direct) /\ trial.file = File(type, direct, speed, repeat)
  BY DEF MotionTried
<1> DEFINE move == Motions(type)[direct]
           time == RunTime(type, speed)
           n == repeat * Len(move.rows)
           frames == MotionFrames(move, time, repeat)
<1>2. repeat \in Nat /\ 7800 * repeat <= INT_MAX
  BY AlgorithmsAssumption
<1>3. /\ n \in Nat /\ n <= 6 * repeat /\ time \in Nat /\ time <= 65 /\ n * time * 20 <= INT_MAX
  <2>1. /\ type \in MotionTypes /\ Supported(type, direct) /\ speed \in Speeds
        /\ repeat \in Nat /\ 7800 * repeat <= INT_MAX
    BY <1>1, <1>2
  <2>2. time \in Nat /\ time <= 65
    BY <2>1, MotionNumbers
  <2>3. n \in Nat /\ n <= 6 * repeat
    BY <2>1, MotionNumbers
  <2>4. n * time * 20 <= INT_MAX
    BY <2>1, MotionNumbers
  <2> QED BY <2>2, <2>3, <2>4
<1>4. trial.file = <<Zeros>> \o frames \o <<Trailer(n, time)>>
  BY <1>1 DEF File
<1>5. frames = [i \in 1..n |-> _ubt_CreateMotionFrame(move.rows[((i - 1) % Len(move.rows)) + 1],
                                                      move.mask, i, n, time)]
  BY DEF MotionFrames
<1> HIDE DEF move, time, n, frames
<1> DEFINE V == {Zeros, Trailer(n, time)} \cup {frames[i] : i \in 1..n}
<1>6. Zeros \in V /\ Trailer(n, time) \in V /\ frames \in [1..n -> V]
  BY <1>5
<1> HIDE DEF V
<1>7. /\ Len(trial.file) = n + 2 /\ trial.file[n + 2] = Trailer(n, time)
      /\ SubSeq(trial.file, 2, n + 1) = frames
  <2>1. Between(<<Zeros>> \o frames \o <<Trailer(n, time)>>, frames, n, Trailer(n, time))
    BY <1>3, <1>6, Middle
  <2>2. Between(trial.file, frames, n, Trailer(n, time))
    BY <1>4, <2>1
  <2> QED BY <2>2 DEF Between
<1>8. TriedFrames = frames /\ Len(frames) = n
  <2>1. Len(trial.file) - 1 = n + 1
    BY <1>3, <1>7
  <2>2. Len(frames) = n
    BY <1>3, <1>6
  <2> QED BY <1>7, <2>1, <2>2 DEF TriedFrames
<1>9. \A i \in 1..n : \E row, mask : frames[i] = _ubt_CreateMotionFrame(row, mask, i, n, time)
  BY <1>5
<1>10. trial.file[Len(trial.file)] = Trailer(n, time) /\ Len(TriedFrames) = n
  BY <1>7, <1>8
<1>11. \A i \in 1..n : \E row, mask :
          TriedFrames[i] = _ubt_CreateMotionFrame(row, mask, i, n, time)
  BY <1>8, <1>9
<1>12. PiecesOf(n, time)
  BY <1>1, <1>3, <1>10, <1>11 DEF PiecesOf
<1> QED BY <1>3, <1>12

(* Whatever the motion, its speed and the number of its repetitions, as long  *)
(* as two bytes can count its frames, the file is numbered, marked and summed *)
(* as its format says (_ubt_CreateMotionFrame, RobotApi.c:656-706).           *)
THEOREM FilesWellFormed ==
    ASSUME \A repeat \in Repeats : 6 * repeat < 65536
    PROVE  Spec => []FileWellFormed
<1>1. Tried => FileWellFormed
  <2> SUFFICES ASSUME Tried, trial.of = "motion" PROVE FileWellFormed
    BY DEF FileWellFormed
  <2>0. PICK n, time \in Nat : PiecesOf(n, time)
    <3>1. \A repeat \in Repeats : 7800 * repeat <= INT_MAX
      BY AlgorithmsAssumption DEF INT_MAX
    <3> QED BY <3>1, FilePieces DEF Tried
  <2>1. /\ n < 65536 /\ time <= 65
        /\ trial.file[Len(trial.file)] = Trailer(n, time)
        /\ Len(TriedFrames) = n
        /\ \A i \in 1..n : \E row, mask :
              TriedFrames[i] = _ubt_CreateMotionFrame(row, mask, i, n, time)
    BY <2>0, AlgorithmsAssumption DEF PiecesOf
  <2>2. ASSUME NEW i \in 1..n
        PROVE  LET f == TriedFrames[i]
               IN  /\ f \in [0..32 -> Byte]
                   /\ Word(f, 6) = i /\ Word(f, 4) = n
                   /\ f[3] = (IF i = 1 THEN 1 ELSE IF i = n THEN 3 ELSE 2)
                   /\ f[31] = Total(f, 2, 30) % 256
    <3>1. PICK row, mask : TriedFrames[i] = _ubt_CreateMotionFrame(row, mask, i, n, time)
      BY <2>1
    <3>2. time \in Byte /\ n \in Nat \ {0} /\ i \in Nat
      BY <2>1 DEF Byte
    <3>3. Word(TriedFrames[i], 6) = i /\ Word(TriedFrames[i], 4) = n
      BY <2>1, <3>1, <3>2, FramesNumbered
    <3>4. /\ TriedFrames[i] \in [0..32 -> Byte] /\ TriedFrames[i][3] = FrameStatus(i, n)
          /\ TriedFrames[i][31] = Total(TriedFrames[i], 2, 30) % 256
      BY <3>1, <3>2, FrameFits
    <3>5. FrameStatus(i, n) = IF i = 1 THEN 1 ELSE IF i = n THEN 3 ELSE 2
      BY <3>2 DEF FrameStatus
    <3> QED BY <3>3, <3>4, <3>5
  <2>3. \A i \in 1..Len(TriedFrames) :
           LET f == TriedFrames[i]
           IN  /\ f \in [0..32 -> Byte]
               /\ Word(f, 6) = i /\ Word(f, 4) = Len(TriedFrames)
               /\ f[3] = (IF i = 1 THEN 1 ELSE IF i = Len(TriedFrames) THEN 3 ELSE 2)
               /\ f[31] = Total(f, 2, 30) % 256
    BY <2>1, <2>2
  <2> QED BY <2>3 DEF FileWellFormed
<1> QED BY <1>1, TriedAlways, PTL

(* The time a motion file ends with is that of its frames together, for every *)
(* motion and speed, and every number of repetitions with which the int that  *)
(* it is computed in does not overflow: at 6 frames a repetition, 65 units a  *)
(* frame and 20 ms a unit, 7800 ms a repetition cannot be exceeded            *)
(* (ubtSetRobotMotion, RobotApi.c:1274, 1634-1640).                           *)
THEOREM FilesTimed ==
    ASSUME \A repeat \in Repeats : 7800 * repeat <= INT_MAX
    PROVE  Spec => []FileTime
<1>1. Tried => FileTime
  <2> SUFFICES ASSUME Tried, trial.of = "motion" PROVE FileTime
    BY DEF FileTime
  <2>0. PICK n, time \in Nat : PiecesOf(n, time)
    BY FilePieces DEF Tried
  <2>1. /\ time <= 65 /\ n * time * 20 <= INT_MAX
        /\ trial.file[Len(trial.file)] = Trailer(n, time)
        /\ Len(TriedFrames) = n
        /\ \A i \in 1..n : \E row, mask :
              TriedFrames[i] = _ubt_CreateMotionFrame(row, mask, i, n, time)
    BY <2>0 DEF PiecesOf
  <2> DEFINE last == trial.file[Len(trial.file)]
             times == [i \in 1..Len(TriedFrames) |-> TriedFrames[i][28]]
  <2>2. \A i \in 1..n : TriedFrames[i][28] = time
    <3> SUFFICES ASSUME NEW i \in 1..n PROVE TriedFrames[i][28] = time
      OBVIOUS
    <3>1. PICK row, mask : TriedFrames[i] = _ubt_CreateMotionFrame(row, mask, i, n, time)
      BY <2>1
    <3>2. time \in Byte /\ i \in Nat
      BY <2>1 DEF Byte
    <3> QED BY <3>1, <3>2, FrameFits
  <2>3. time \in Nat /\ n \in Nat
    OBVIOUS
  <2>4. Word(last, 29) + 65536 * Word(last, 31) = n * time * 20
    BY <2>1, <2>3, TrailerHoldsTime
  <2>5. \A i \in 1..n : times[i] = time
    BY <2>1, <2>2
  <2> HIDE DEF last, times
  <2>6. Total(times, 1, n) = n * time
    BY <2>3, <2>5, TotalSame
  <2>7. n * time * 20 = 20 * (n * time)
    BY <2>3
  <2> QED BY <2>1, <2>4, <2>6, <2>7 DEF FileTime, last, times
<1> QED BY <1>1, TriedAlways, PTL
=============================================================================
