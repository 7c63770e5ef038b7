----------------------------- MODULE MotionFile -----------------------------
(***************************************************************************)
(* The servo angles of src/src/RobotApi.c and the motion files (.hts) that *)
(* ubtSetRobotMotion writes.                                               *)
(*                                                                         *)
(* The angle string of a servo message is a sequence of ASCII codes, two   *)
(* hexadecimal digits for each of the 17 servos.  A motion file is a       *)
(* sequence of frames, a frame a function from 0..32 to bytes.             *)
(***************************************************************************)
EXTENDS Integers, Sequences, FiniteSets

MAX_SERVO_NUM == 17
Servos == 1..MAX_SERVO_NUM
SERVO_HEAD == 17
SERVO_MAX_LOW_SPEED == 60

Byte == 0..255

(* What _ubt_getAngle yields when the string does not reach the servo. *)
NoAngle == 255

-----------------------------------------------------------------------------
(* Angle strings. *)

(* An unset angle is "FF". *)
AllUnset == [i \in 1..(2 * MAX_SERVO_NUM) |-> 70]

(* One digit of "%02x", which prints in lower case. *)
HexChar(d) == IF d < 10 THEN 48 + d ELSE 87 + d

_ubtTranslat_Upper(c) ==                    \* mutant: lower case is not translated
    IF c \in 48..57 THEN c - 48 ELSE IF c \in 65..70 THEN c - 55 ELSE -1

_ubtTranslat(c) == IF c \in 48..57 THEN c - 48
                   ELSE IF c \in 97..102 THEN c - 87
                   ELSE IF c \in 65..70 THEN c - 55
                   ELSE -1

_ubt_getAngle(chars, id) ==
    IF Len(chars) = 0 \/ Len(chars) < 2 * id THEN NoAngle
    ELSE _ubtTranslat(chars[2 * id - 1]) * 16 + _ubtTranslat(chars[2 * id])

(* 0 leaves the servo alone. *)
InRange(angle) == angle \in 0..180

_ubtSetServoAngle(chars, angle, id) ==
    IF ~ InRange(angle) \/ angle = 0 THEN chars
    ELSE [chars EXCEPT ![2 * id - 1] = HexChar(angle \div 16), ![2 * id] = HexChar(angle % 16)]

(* The string of ubtSetRobotServo; an angle out of range ends the call.  No *)
(* two servos share a digit, so that the order of the loop is of no matter. *)
AnglesAccepted(angles) == \A id \in Servos : InRange(angles[id])
AllAngles(angles) ==
    [i \in 1..(2 * MAX_SERVO_NUM) |->
        LET id == (i + 1) \div 2 IN _ubtSetServoAngle(AllUnset, angles[id], id)[i]]

(* What ubtGetRobotServo makes of the answer's string. *)
AnglesRead(chars) == [s \in Servos |-> _ubt_getAngle(chars, s)]

(* _ubtSetRobotServo fills the servos of the mask, in their order, with the *)
(* pairs of the given string.                                               *)
MaskedAngles(mask, chars) ==
    [i \in 1..(2 * MAX_SERVO_NUM) |->
        LET servo == (i + 1) \div 2
            place == Cardinality({s \in mask : s < servo})
        IN  IF servo \in mask THEN chars[2 * place + 2 - (i % 2)] ELSE 70]

(* The head turns at once, without a file: "28", "78" and "5A". *)
HeadAngle == [left |-> <<50, 56>>, right |-> <<55, 56>>, front |-> <<53, 65>>]

-----------------------------------------------------------------------------
(* Frames. *)

(* strtol of the two characters that start at place i of a string: it reads *)
(* digits as far as there are any.                                          *)
IsDigit(d, c) == \/ SubSeq("0123456789abcdef", d + 1, d + 1) = c
                 \/ SubSeq("0123456789ABCDEF", d + 1, d + 1) = c
Digits(s, i) == {d \in 0..15 : IsDigit(d, SubSeq(s, i, i))}
HexByte(s, i) ==
    IF Digits(s, i) = {} THEN 0
    ELSE LET high == CHOOSE d \in Digits(s, i) : TRUE
         IN  IF Digits(s, i + 1) = {} THEN high
             ELSE 16 * high + CHOOSE d \in Digits(s, i + 1) : TRUE

ServoByte_Fixed(row, mask, servo) ==        \* mutant: the offset is that of the servo
    IF servo \in mask /\ 2 * servo <= Len(row) THEN HexByte(row, 2 * servo - 1) ELSE 255

(* The 20 bytes for servos, of which there are 17: each servo of the mask   *)
(* takes the next two characters, 0xFF when the string has run out.         *)
ServoByte(row, mask, servo) ==
    LET offset == 2 * Cardinality({s \in mask : s < servo})
    IN  IF servo \in mask /\ offset + 2 <= Len(row) THEN HexByte(row, offset + 1) ELSE 255

FrameStatus_Late(seq, total) ==             \* mutant: no end frame
    IF seq = 1 THEN 1 ELSE IF total >= seq THEN 2 ELSE 3

FrameStatus(seq, total) == IF seq = 1 THEN 1 ELSE IF total > seq THEN 2 ELSE 3

(* A byte where char is signed; with unsigned char the sum has the same low *)
(* byte.                                                                    *)
Char(b) == IF b > 127 THEN b - 256 ELSE b

(* The sum of f from one place to another, as a loop adds it up. *)
Total(f, from, to) ==
    LET sum[i \in 0..to] == IF i < from THEN 0 ELSE sum[i - 1] + f[i]
    IN  sum[to]

Zeros == [i \in 0..32 |-> 0]

(* The bytes 0, 1, 2, 28, 29, 30 and 32 are the caller's. *)
FrameBody(row, mask, seq, total, speed) ==
    [i \in 0..32 |-> CASE i = 0 -> 251
                       [] i = 1 -> 191
                       [] i = 2 -> 1
                       [] i = 3 -> FrameStatus(seq, total)
                       [] i = 4 -> total % 256
                       [] i = 5 -> (total \div 256) % 256
                       [] i = 6 -> seq % 256
                       [] i = 7 -> (seq \div 256) % 256
                       [] i \in 8..27 -> ServoByte(row, mask, i - 7)
                       [] i \in {28, 30} -> speed
                       [] i \in {29, 31} -> 0
                       [] i = 32 -> 237]

_ubt_CreateMotionFrame(row, mask, seq, total, speed) ==
    LET body == FrameBody(row, mask, seq, total, speed)
    IN  [body EXCEPT ![31] = Total([i \in 2..30 |-> Char(body[i])], 2, 30) % 256]

-----------------------------------------------------------------------------
(* The motions: for each direction the servos and, one row a frame, their  *)
(* angles.  Crouch and bow look at no direction.  The space in the name of *)
(* a type is written _.                                                    *)

SERVO_RANG_INDEX(min, max) == {s \in Servos : min <= s /\ s <= max}
LeftArm  == SERVO_RANG_INDEX(4, 6)
RightArm == SERVO_RANG_INDEX(1, 3)
Arms     == SERVO_RANG_INDEX(1, 6)
Legs     == SERVO_RANG_INDEX(7, 16)

Moves(mask, rows) == [mask |-> mask, rows |-> rows]

Crouch == Moves(Legs, <<"5A3A4A6E595A78684559", "5E2E00A5555C86B40E5A", "5A3A4A6E595A78684559">>)

Raise ==
    [left  |-> Moves(LeftArm,  <<"5b5a5a", "5bad5a", "5b5a5a">>),
     right |-> Moves(RightArm, <<"5b5a5a", "5b075a", "5b5a5a">>),
     both  |-> Moves(Arms, <<"5b5a5a5a5859", "5b075a5aaf5e", "5b5a5a5a5859">>)]

Stretch ==
    [left  |-> Moves(LeftArm,  <<"59585a", "b30059", "59585a">>),
     right |-> Moves(RightArm, <<"5b5a5a", "00b45a", "5b5a5a">>),
     both  |-> Moves(Arms, <<"595a5a5a5959", "00b45ab30059", "595a5a5a5959">>)]

ComeOn ==
    [left  |-> Moves(LeftArm,  <<"59585a", "ae0016", "ae005c", "ad000a", "ad005e", "59585a">>),
     right |-> Moves(RightArm, <<"585a5a", "00b4ae", "00b45e", "00b4a8", "00b45c", "585a5a">>),
     both  |-> Moves(Arms, <<"585a5a59585a", "00b4aeae0016", "00b45eae005c",
                             "00b4a8ad000a", "00b45cad005e", "585a5a59585a">>)]

Wave ==
    [left  |-> Moves(LeftArm,  <<"595859", "591e59", "59825a", "591d59", "59865a", "595859">>),
     right |-> Moves(RightArm, <<"585a5a", "58985a", "58315a", "588f5a", "58335a", "585a5a">>),
     both  |-> Moves(Arms, <<"585a5a595859", "58985a591e59", "58315a59825a",
                             "588f5a591d59", "58335a59865a", "585a5a595859">>)]

Bend ==
    [left  |-> Moves(SERVO_RANG_INDEX(12, 16), <<"597769445a", "6788973661", "597769445a">>),
     right |-> Moves(SERVO_RANG_INDEX(7, 11),  <<"5a3a4a6e59", "5830317252", "5a3a4a6e59">>)]

Walk ==
    [front |-> Moves(Legs, <<"602724815565a3904650", "4932159c664f9a9d3460", "49160c8962508c8f3367",
                             "4c11207464528c8f3364", "601d247a51667c8e224a", "602724814e699aac264f">>),
     back  |-> Moves(Legs, <<"602a1d8d50649a973b4d", "602a1d8d506683b10f55", "612a1d8d5066779a164e",
                             "4e1b1d7a67528e962d66", "4f230c9861528e962d66", "4c371c9967528e962d66">>),
     left  |-> Moves(Legs, <<"5a271b8c595c8e9b2855", "42271b8e67598e9b2855">>),
     right |-> Moves(Legs, <<"5a271d875e5a8b972b5d", "5c271d875c708b972b51">>)]

TurnAround ==
    [left  |-> Moves(Legs, <<"4f10306068636e8e1453", "5a281d895e5c8a972a5a">>),
     right |-> Moves(Legs, <<"54532e9f6369a08a554d", "5b281d875a5a89972a5a">>)]

Bow == Moves(SERVO_RANG_INDEX(1, 16),
             <<"595a5b59585b5a3a4a6e595977674459", "59b45b59005b5a179e3159589d19845b",
               "59b45b59005a5a179e3259589d18825a", "59b45b59005a5c679e485a5b49186b5a",
               "595a5b59585b5a3a4a6e595977674459">>)

(* Every type with a file and every direction it takes. *)
Directions == {"left", "right", "both", "front", "back"}
Motions(type) == CASE type = "crouch"      -> [d \in Directions |-> Crouch]
                   [] type = "raise"       -> Raise
                   [] type = "stretch"     -> Stretch
                   [] type = "come_on"     -> ComeOn
                   [] type = "wave"        -> Wave
                   [] type = "bend"        -> Bend
                   [] type = "walk"        -> Walk
                   [] type = "turn_around" -> TurnAround
                   [] type = "bow"         -> [d \in Directions |-> Bow]
MotionTypes ==
    {"crouch", "raise", "stretch", "come_on", "wave", "bend", "walk", "turn_around", "bow"}

-----------------------------------------------------------------------------
(* The file of ubtSetRobotMotion. *)

SpeedAccepted(iSpeed) == iSpeed \in 1..6

(* The run time of a frame, in units of 20 ms. *)
RunTime(type, iSpeed) ==
    SERVO_MAX_LOW_SPEED \div iSpeed + (IF type = "turn_around" THEN 5 ELSE 0)

(* Repetition by repetition, the frames numbered from 1. *)
MotionFrames(move, speed, iRepeat) ==
    LET iLoop == Len(move.rows)
        iTotalFrame == iRepeat * iLoop
    IN  [n \in 1..iTotalFrame |->
            _ubt_CreateMotionFrame(move.rows[((n - 1) % iLoop) + 1], move.mask, n, iTotalFrame, speed)]

(* The last 33 bytes hold the time in ms, low byte first. *)
Trailer_Short(iTotalFrame, speed) ==        \* mutant: only two bytes of the time
    LET iTotalTime == iTotalFrame * speed * 20
    IN  [Zeros EXCEPT ![29] = iTotalTime % 256, ![30] = (iTotalTime \div 256) % 256]

Trailer(iTotalFrame, speed) ==
    LET iTotalTime == iTotalFrame * speed * 20
    IN  [Zeros EXCEPT ![29] = iTotalTime % 256,
                      ![30] = (iTotalTime \div 256) % 256,
                      ![31] = (iTotalTime \div 65536) % 256,
                      ![32] = (iTotalTime \div 16777216) % 256]

(* The file that the call sends.  A repeat of 0 or less has no frames. *)
Supported(type, direct) == type \in MotionTypes /\ direct \in DOMAIN Motions(type)
File(type, direct, iSpeed, iRepeat) ==
    LET speed == RunTime(type, iSpeed)
        move  == Motions(type)[direct]
    IN  <<Zeros>> \o MotionFrames(move, speed, iRepeat)
                  \o <<Trailer(iRepeat * Len(move.rows), speed)>>
=============================================================================
