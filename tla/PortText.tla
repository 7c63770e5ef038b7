------------------------------ MODULE PortText ------------------------------
(***************************************************************************)
(* The rewriting of a printed request in _ubtCommWithRobot                 *)
(* (RobotApi.c:375-396): the port that the encoder printed is replaced, in *)
(* the text, by that of the call's own socket.  A text is the sequence of  *)
(* its characters, as ASCII codes.  Only the part around the port counts:  *)
(* what stands behind it is copied as it is.                               *)
(***************************************************************************)
EXTENDS Integers, Sequences

Tab     == 9
Newline == 10
Blank   == 32
Quote   == 34
Comma   == 44
Colon   == 58
Brace   == 123
Digit   == 48..57
Letter  == 97..122

(* pcStr_Msg_Port, "port". *)
Word == <<112, 111, 114, 116>>

(* A port as %d prints it: every port of the SDK has four digits. *)
Port == 1000..9999
Decimal(n) == <<48 + n \div 1000, 48 + ((n \div 100) % 10), 48 + ((n \div 10) % 10), 48 + (n % 10)>>

(* The field as cJSON prints it, from the quote on that ends the string ahead *)
(* of it: there is a gap between the colon and the number, a tab.             *)
PortField(gap, n) ==
    <<Quote, Comma, Newline, Tab, Quote>> \o Word \o <<Quote, Colon, gap>> \o Decimal(n) \o <<Comma>>

FieldLen == 17

(* Where the word stands in a text: strstr finds the first place. *)
Places(text) == {i \in 1..Len(text) - 3 : SubSeq(text, i, i + 3) = Word}
First(places) == CHOOSE i \in places : \A j \in places : i <= j

(* The loop over pStr: behind position i, the first that is no digit. *)
SkipDigits_Not(text, i) == i + 1            \* mutant: the old digits stay

SkipDigits(text, i) ==
    First({j \in i + 1..Len(text) + 1 : j <= Len(text) => text[j] \notin Digit})

(* sizeof(pcStr_Msg_Port) is the size of a pointer.  The character that many  *)
(* places and two more behind the start of the word gives way to a blank and  *)
(* the port, and the digits behind it are dropped.                            *)
SetPort(text, new, size) ==
    IF Places(text) = {}
    THEN <<Brace, Blank, Quote>> \o Word \o <<Quote, Colon>> \o Decimal(new)
         \o <<Comma, Blank>> \o Tail(text)
    ELSE LET pStr == First(Places(text)) + size + 2
         IN  SubSeq(text, 1, pStr - 1) \o <<Blank>> \o Decimal(new)
             \o SubSeq(text, SkipDigits(text, pStr), Len(text))

(* What the robot reads: n is the port, when the text ends in that field and  *)
(* the string ahead of it is not broken.                                      *)
Reads(text, n) ==
    LET front == Len(text) - FieldLen
    IN  /\ front >= 0
        /\ \E gap \in {Blank, Tab} : SubSeq(text, front + 1, Len(text)) = PortField(gap, n)
        /\ \A i \in 1..front : text[i] # Quote
=============================================================================
