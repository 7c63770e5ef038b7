---------------------------- MODULE PortTextProofs ----------------------------
(***************************************************************************)
(* What the rewriting of the port does to the text of a request, whatever  *)
(* stands ahead of the port and whatever the two ports are.                *)
(***************************************************************************)
EXTENDS PortText, RecursionFacts, SequenceTheorems, TLAPS

(* A port and its digits. *)
LEMMA Division ==
    ASSUME NEW n \in Nat
    PROVE  /\ n \div 10 \in Nat /\ n % 10 \in 0..9 /\ n = 10 * (n \div 10) + (n % 10)
           /\ (n \div 10) \div 10 = n \div 100
           /\ n < 10000 => n \div 1000 \in 0..9 /\ (n \div 100) \div 10 = n \div 1000
<1>1. n \div 10 \in Nat /\ n % 10 \in 0..9
  OBVIOUS
<1>2. n = 10 * (n \div 10) + (n % 10)
  OBVIOUS
<1>3. (n \div 10) \div 10 = n \div 100
  OBVIOUS
<1>4. n < 10000 => n \div 1000 \in 0..9
  OBVIOUS
<1>5. (n \div 100) \div 10 = n \div 1000
  OBVIOUS
<1> QED BY <1>1, <1>2, <1>3, <1>4, <1>5

LEMMA DigitsOf ==
    ASSUME NEW n \in Port
    PROVE  /\ Decimal(n) \in Seq(Int) /\ Len(Decimal(n)) = 4
           /\ \A i \in 1..4 : Decimal(n)[i] \in Digit
           /\ n = 1000 * (Decimal(n)[1] - 48) + 100 * (Decimal(n)[2] - 48)
                  + 10 * (Decimal(n)[3] - 48) + (Decimal(n)[4] - 48)
<1>1. n \in Nat /\ n < 10000
  BY DEF Port
<1>2. PICK k \in Nat : k = n \div 10
  BY <1>1, Division
<1>3. PICK h \in Nat : h = n \div 100 /\ h = k \div 10
  BY <1>1, <1>2, Division
<1>4. PICK a \in 0..9 : a = n \div 1000 /\ a = h \div 10
  BY <1>1, <1>3, Division
<1>5. PICK b \in 0..9 : b = h % 10 /\ h = 10 * (h \div 10) + b
  BY Division
<1>6. PICK c \in 0..9 : c = k % 10 /\ k = 10 * (k \div 10) + c
  BY Division
<1>7. PICK d \in 0..9 : d = n % 10 /\ n = 10 * (n \div 10) + d
  BY <1>1, Division
<1>8. Decimal(n) = <<48 + a, 48 + b, 48 + c, 48 + d>>
  BY <1>2, <1>3, <1>4, <1>5, <1>6, <1>7 DEF Decimal
<1>9. h = 10 * a + b /\ k = 10 * h + c /\ n = 10 * k + d
  BY <1>2, <1>3, <1>4, <1>5, <1>6, <1>7
<1>10. n = 1000 * a + 100 * b + 10 * c + d
  <2>1. k = 100 * a + 10 * b + c
    BY <1>9
  <2> QED BY <1>9, <2>1
<1>11. /\ 48 + a \in Digit /\ 48 + b \in Digit /\ 48 + c \in Digit /\ 48 + d \in Digit
       /\ 48 + a \in Int /\ 48 + b \in Int /\ 48 + c \in Int /\ 48 + d \in Int
  BY DEF Digit
<1>12. /\ Decimal(n)[1] = 48 + a /\ Decimal(n)[2] = 48 + b /\ Decimal(n)[3] = 48 + c /\ Decimal(n)[4] = 48 + d
  BY <1>8
<1>13. <<48 + a, 48 + b, 48 + c, 48 + d>> \in Seq(Int) /\ Len(<<48 + a, 48 + b, 48 + c, 48 + d>>) = 4
  BY <1>11
<1>14. \A i \in 1..4 : i = 1 \/ i = 2 \/ i = 3 \/ i = 4
  OBVIOUS
<1>15. \A i \in 1..4 : Decimal(n)[i] \in Digit
  BY <1>11, <1>12, <1>14
<1>16. /\ (48 + a) - 48 = a /\ (48 + b) - 48 = b /\ (48 + c) - 48 = c /\ (48 + d) - 48 = d
  OBVIOUS
<1> QED BY <1>8, <1>10, <1>12, <1>13, <1>15, <1>16

LEMMA SameDigits ==
    ASSUME NEW n \in Port, NEW m \in Port, \A i \in 1..4 : Decimal(n)[i] = Decimal(m)[i]
    PROVE  n = m
<1>1. /\ Decimal(n)[1] = Decimal(m)[1] /\ Decimal(n)[2] = Decimal(m)[2]
      /\ Decimal(n)[3] = Decimal(m)[3] /\ Decimal(n)[4] = Decimal(m)[4]
  OBVIOUS
<1> QED BY <1>1, DigitsOf

(* Two texts in a row. *)
LEMMA InRow ==
    ASSUME NEW s \in Seq(Int), NEW t \in Seq(Int)
    PROVE  /\ s \o t \in Seq(Int) /\ Len(s \o t) = Len(s) + Len(t) /\ Len(s) \in Nat /\ Len(t) \in Nat
           /\ \A i \in 1..Len(s) : (s \o t)[i] = s[i]
           /\ \A i \in 1..Len(t) : (s \o t)[Len(s) + i] = t[i]
<1>1. s \o t \in Seq(Int) /\ Len(s \o t) = Len(s) + Len(t) /\ Len(s) \in Nat /\ Len(t) \in Nat
  BY ConcatProperties, LenProperties
<1>2. ASSUME NEW i \in 1..Len(s) PROVE (s \o t)[i] = s[i]
  BY <1>1, ConcatProperties
<1>3. ASSUME NEW i \in 1..Len(t) PROVE (s \o t)[Len(s) + i] = t[i]
  <2>1. Len(s) + i \in 1..Len(s) + Len(t) /\ ~ (Len(s) + i <= Len(s)) /\ (Len(s) + i) - Len(s) = i
    BY <1>1
  <2> QED BY <2>1, ConcatProperties
<1> QED BY <1>1, <1>2, <1>3

(* The field, character by character. *)
Frame == <<34, 44, 10, 9, 34, 112, 111, 114, 116, 34, 58>>
LEMMA FieldText ==
    ASSUME NEW gap \in {Blank, Tab}, NEW n \in Port
    PROVE  /\ PortField(gap, n) \in Seq(Int) /\ Len(PortField(gap, n)) = FieldLen
           /\ \A i \in 1..11 : PortField(gap, n)[i] = Frame[i]
           /\ PortField(gap, n)[12] = gap
           /\ \A i \in 1..4 : PortField(gap, n)[12 + i] = Decimal(n)[i]
           /\ PortField(gap, n)[17] = Comma
<1> DEFINE s1 == <<34, 44, 10, 9, 34>>
           s2 == <<112, 111, 114, 116>>
           s3 == <<34, 58, gap>>
           s4 == Decimal(n)
           s5 == <<44>>
           t2 == s1 \o s2
           t3 == t2 \o s3
           t4 == t3 \o s4
           t5 == t4 \o s5
<1>0. PortField(gap, n) = t5
  BY DEF PortField, Quote, Comma, Newline, Tab, Colon, Word
<1>1. /\ s1 \in Seq(Int) /\ s2 \in Seq(Int) /\ s3 \in Seq(Int) /\ s5 \in Seq(Int)
      /\ Len(s1) = 5 /\ Len(s2) = 4 /\ Len(s3) = 3 /\ Len(s5) = 1
  BY DEF Tab, Blank
<1>2. s4 \in Seq(Int) /\ Len(s4) = 4
  BY DigitsOf
<1>3. /\ s1[1] = 34 /\ s1[2] = 44 /\ s1[3] = 10 /\ s1[4] = 9 /\ s1[5] = 34
      /\ s2[1] = 112 /\ s2[2] = 111 /\ s2[3] = 114 /\ s2[4] = 116
      /\ s3[1] = 34 /\ s3[2] = 58 /\ s3[3] = gap /\ s5[1] = 44
  OBVIOUS
<1> HIDE DEF s1, s2, s3, s4, s5
<1>4. t2 \in Seq(Int) /\ Len(t2) = 9 /\ (\A i \in 1..5 : t2[i] = s1[i]) /\ \A i \in 1..4 : t2[5 + i] = s2[i]
  <2>1. /\ t2 \in Seq(Int) /\ Len(t2) = Len(s1) + Len(s2) /\ (\A i \in 1..Len(s1) : t2[i] = s1[i])
        /\ \A i \in 1..Len(s2) : t2[Len(s1) + i] = s2[i]
    BY <1>1, InRow
  <2> HIDE DEF t2
  <2> QED BY <1>1, <2>1
<1> HIDE DEF t2
<1>5. t3 \in Seq(Int) /\ Len(t3) = 12 /\ (\A i \in 1..9 : t3[i] = t2[i]) /\ \A i \in 1..3 : t3[9 + i] = s3[i]
  <2>1. /\ t3 \in Seq(Int) /\ Len(t3) = Len(t2) + Len(s3) /\ (\A i \in 1..Len(t2) : t3[i] = t2[i])
        /\ \A i \in 1..Len(s3) : t3[Len(t2) + i] = s3[i]
    BY <1>1, <1>4, InRow, ZenonT(30)
  <2> HIDE DEF t3
  <2> QED BY <1>1, <1>4, <2>1
<1> HIDE DEF t3
<1>6. t4 \in Seq(Int) /\ Len(t4) = 16 /\ (\A i \in 1..12 : t4[i] = t3[i]) /\ \A i \in 1..4 : t4[12 + i] = s4[i]
  <2>1. /\ t4 \in Seq(Int) /\ Len(t4) = Len(t3) + Len(s4) /\ (\A i \in 1..Len(t3) : t4[i] = t3[i])
        /\ \A i \in 1..Len(s4) : t4[Len(t3) + i] = s4[i]
    BY <1>2, <1>5, InRow, ZenonT(30)
  <2> HIDE DEF t4
  <2> QED BY <1>2, <1>5, <2>1
<1> HIDE DEF t4
<1>7. t5 \in Seq(Int) /\ Len(t5) = 17 /\ (\A i \in 1..16 : t5[i] = t4[i]) /\ t5[16 + 1] = s5[1]
  <2>1. /\ t5 \in Seq(Int) /\ Len(t5) = Len(t4) + Len(s5) /\ (\A i \in 1..Len(t4) : t5[i] = t4[i])
        /\ \A i \in 1..Len(s5) : t5[Len(t4) + i] = s5[i]
    <3>1. t4 \in Seq(Int) /\ s5 \in Seq(Int)
      BY <1>1, <1>6
    <3> QED BY <3>1, InRow
  <2> HIDE DEF t5
  <2> QED BY <1>1, <1>6, <2>1
<1> HIDE DEF t5
<1>8. ASSUME NEW i \in 1..11 PROVE t5[i] = Frame[i]
  <2>1. t5[i] = t3[i]
    BY <1>6, <1>7, SMTT(30)
  <2>2. CASE i \in 1..5
    <3>1. t5[i] = s1[i]
      BY <1>4, <1>5, <2>1, <2>2
    <3>2. i = 1 \/ i = 2 \/ i = 3 \/ i = 4 \/ i = 5
      BY <2>2
    <3> QED BY <1>3, <3>1, <3>2 DEF Frame
  <2>3. CASE i \in 6..9
    <3>1. i - 5 \in 1..4 /\ 5 + (i - 5) = i
      BY <2>3
    <3>2. t5[i] = s2[i - 5]
      BY <1>4, <1>5, <2>1, <2>3, <3>1
    <3>3. i = 6 \/ i = 7 \/ i = 8 \/ i = 9
      BY <2>3
    <3> QED BY <1>3, <3>2, <3>3 DEF Frame
  <2>4. CASE i \in 10..11
    <3>1. i - 9 \in 1..3 /\ 9 + (i - 9) = i
      BY <2>4
    <3>2. t5[i] = s3[i - 9]
      BY <1>5, <2>1, <3>1
    <3>3. i = 10 \/ i = 11
      BY <2>4
    <3> QED BY <1>3, <3>2, <3>3 DEF Frame
  <2> QED BY <2>2, <2>3, <2>4
<1>9. t5[12] = gap
  <2>1. t3[9 + 3] = s3[3]
    BY <1>5
  <2>2. t5[12] = t3[12]
    BY <1>6, <1>7
  <2> QED BY <1>3, <2>1, <2>2
<1>10. \A i \in 1..4 : t5[12 + i] = Decimal(n)[i]
  BY <1>6, <1>7, SMTT(30) DEF s4
<1>11. t5[17] = Comma
  BY <1>3, <1>7 DEF Comma
<1> QED BY <1>0, <1>7, <1>8, <1>9, <1>10, <1>11 DEF FieldLen

(* The text that ends in the field. *)
Printed(front, gap, n) == front \o PortField(gap, n)
EndsInField(text, k, gap, n) ==
    /\ text \in Seq(Int) /\ Len(text) = k + 17
    /\ \A i \in 1..11 : text[k + i] = Frame[i]
    /\ text[k + 12] = gap
    /\ \A i \in 1..4 : text[k + 12 + i] = Decimal(n)[i]
    /\ text[k + 17] = Comma

LEMMA TextEnds ==
    ASSUME NEW front \in Seq(Int), NEW gap \in {Blank, Tab}, NEW n \in Port
    PROVE  EndsInField(Printed(front, gap, n), Len(front), gap, n)
<1> DEFINE text == Printed(front, gap, n)
<1>p. text = front \o PortField(gap, n)
  BY DEF Printed
<1> HIDE DEF text
<1>0. PICK field : field = PortField(gap, n)
  OBVIOUS
<1>1. /\ field \in Seq(Int) /\ Len(field) = 17
      /\ \A i \in 1..11 : field[i] = Frame[i]
      /\ field[12] = gap /\ field[17] = Comma
      /\ \A i \in 1..4 : field[12 + i] = Decimal(n)[i]
  BY <1>0, FieldText DEF FieldLen
<1>2. /\ text \in Seq(Int) /\ Len(text) = Len(front) + Len(field) /\ Len(front) \in Nat
      /\ \A i \in 1..Len(field) : text[Len(front) + i] = field[i]
  BY <1>0, <1>1, <1>p, InRow
<1>3. \A i \in 1..17 : text[Len(front) + i] = field[i]
  BY <1>1, <1>2
<1>4. ASSUME NEW i \in 1..4 PROVE text[Len(front) + 12 + i] = Decimal(n)[i]
  <2>1. 12 + i \in 1..17 /\ Len(front) + (12 + i) = Len(front) + 12 + i
    BY <1>2
  <2> QED BY <1>1, <1>3, <2>1
<1>5. /\ \A i \in 1..11 : text[Len(front) + i] = Frame[i]
      /\ text[Len(front) + 12] = gap /\ text[Len(front) + 17] = Comma
  <2>1. 1..11 \subseteq 1..17 /\ 12 \in 1..17 /\ 17 \in 1..17
    OBVIOUS
  <2> QED BY <1>1, <1>3, <2>1
<1>6. Len(text) = Len(front) + 17
  BY <1>1, <1>2
<1> QED BY <1>2, <1>4, <1>5, <1>6 DEF EndsInField, text

(* Whoever reads a port, reads it there. *)
LEMMA ReadsEnd ==
    ASSUME NEW text \in Seq(Int), NEW n \in Port, Reads(text, n)
    PROVE  Len(text) \in Nat /\ Len(text) >= 17 /\ \A i \in 1..4 : text[Len(text) - 5 + i] = Decimal(n)[i]
<1>1. Len(text) \in Nat
  BY LenProperties
<1>2. PICK k \in Nat : Len(text) = k + 17
  <2>1. Len(text) - 17 \in Nat /\ Len(text) = (Len(text) - 17) + 17
    BY <1>1 DEF Reads, FieldLen
  <2> QED BY <2>1
<1>3. PICK gap \in {Blank, Tab} : SubSeq(text, k + 1, Len(text)) = PortField(gap, n)
  <2>1. Len(text) - 17 = k
    BY <1>2
  <2> QED BY <2>1 DEF Reads, FieldLen
<1>4. \A i \in k + 1..Len(text) : text[i] \in Int
  BY <1>1, <1>2, ElementOfSeq
<1>5. \A i \in 1..Len(text) - (k + 1) + 1 : SubSeq(text, k + 1, Len(text))[i] = text[k + 1 + i - 1]
  BY <1>1, <1>2, <1>4, SubSeqProperties
<1>6. ASSUME NEW i \in 1..4 PROVE text[Len(text) - 5 + i] = Decimal(n)[i]
  <2>1. /\ 12 + i \in 1..Len(text) - (k + 1) + 1
        /\ k + 1 + (12 + i) - 1 = Len(text) - 5 + i
    BY <1>2
  <2>2. PortField(gap, n)[12 + i] = text[Len(text) - 5 + i]
    BY <1>3, <1>5, <2>1
  <2> QED BY <2>2, FieldText
<1> QED BY <1>1, <1>2, <1>6

LEMMA FirstOf ==
    ASSUME NEW places \in SUBSET Nat, places # {}
    PROVE  First(places) \in places /\ \A j \in places : First(places) <= j
  BY LeastNat DEF First

(* What SetPort writes ahead of the rest of the text. *)
Renewed(text, q, p) == SubSeq(text, 1, q - 1) \o <<Blank>> \o Decimal(p)
EndsRenewed(head, text, q, p) ==
    /\ head \in Seq(Int) /\ Len(head) = q + 4
    /\ \A i \in 1..q - 1 : head[i] = text[i]
    /\ head[q] = Blank
    /\ \A i \in 1..4 : head[q + i] = Decimal(p)[i]

LEMMA Ahead ==
    ASSUME NEW text \in Seq(Int), NEW q \in 1..Len(text), NEW p \in Port
    PROVE  EndsRenewed(Renewed(text, q, p), text, q, p)
<1>1. Len(text) \in Nat /\ \A i \in 1..q - 1 : text[i] \in Int
  BY LenProperties, ElementOfSeq
<1>2. q \in Nat \ {0} /\ q - 1 \in Int /\ 1 \in Int
  BY <1>1
<1>3. PICK a : a = SubSeq(text, 1, q - 1)
  OBVIOUS
<1>4. a \in Seq(Int) /\ Len(a) = q - 1 /\ \A i \in 1..q - 1 : a[i] = text[i]
  <2>1. /\ a \in Seq(Int) /\ Len(a) = IF 1 <= q - 1 THEN q - 1 - 1 + 1 ELSE 0
        /\ \A i \in 1..q - 1 - 1 + 1 : a[i] = text[1 + i - 1]
    BY <1>1, <1>2, <1>3, SubSeqProperties
  <2> QED BY <1>2, <2>1
<1>5. PICK z : z = <<Blank>>
  OBVIOUS
<1>6. z \in Seq(Int) /\ Len(z) = 1 /\ z[1] = Blank
  BY <1>5 DEF Blank
<1>7. PICK b : b = a \o z
  OBVIOUS
<1>8. b \in Seq(Int) /\ Len(b) = q /\ (\A i \in 1..q - 1 : b[i] = text[i]) /\ b[q] = Blank
  <2>1. /\ b \in Seq(Int) /\ Len(b) = Len(a) + Len(z) /\ (\A i \in 1..Len(a) : b[i] = a[i])
        /\ \A i \in 1..Len(z) : b[Len(a) + i] = z[i]
    BY <1>4, <1>6, <1>7, InRow, ZenonT(30)
  <2>2. b[(q - 1) + 1] = z[1]
    BY <1>4, <1>6, <2>1
  <2>3. (q - 1) + 1 = q
    BY <1>2
  <2> QED BY <1>4, <1>6, <2>1, <2>2, <2>3
<1>9. PICK d : d = Decimal(p) /\ d \in Seq(Int) /\ Len(d) = 4
  BY DigitsOf
<1>10. PICK head : head = b \o d
  OBVIOUS
<1>11. /\ head \in Seq(Int) /\ Len(head) = Len(b) + Len(d) /\ (\A i \in 1..Len(b) : head[i] = b[i])
       /\ \A i \in 1..Len(d) : head[Len(b) + i] = d[i]
  <2>1. \A s \in Seq(Int), t \in Seq(Int) :
          /\ s \o t \in Seq(Int) /\ Len(s \o t) = Len(s) + Len(t) /\ (\A i \in 1..Len(s) : (s \o t)[i] = s[i])
          /\ \A i \in 1..Len(t) : (s \o t)[Len(s) + i] = t[i]
    BY InRow
  <2>2. b \in Seq(Int) /\ d \in Seq(Int)
    BY <1>8, <1>9
  <2> QED BY <1>10, <2>1, <2>2
<1>12. /\ Len(head) = q + 4 /\ (\A i \in 1..q - 1 : head[i] = text[i]) /\ head[q] = Blank
       /\ \A i \in 1..4 : head[q + i] = d[i]
  BY <1>2, <1>8, <1>9, <1>11
<1>13. head = Renewed(text, q, p)
  BY <1>3, <1>5, <1>7, <1>9, <1>10 DEF Renewed
<1>14. EndsRenewed(head, text, q, p)
  BY <1>9, <1>11, <1>12 DEF EndsRenewed
<1> QED BY <1>13, <1>14

(* The name of the field is one of the places of the word. *)
LEMMA WordThere ==
    ASSUME NEW text, NEW k \in Nat, NEW gap, NEW n, EndsInField(text, k, gap, n)
    PROVE  k + 6 \in Places(text)
<1>0. text \in Seq(Int) /\ Len(text) = k + 17 /\ \A i \in 1..11 : text[k + i] = Frame[i]
  BY DEF EndsInField
<1>1. \A i \in k + 6..k + 9 : text[i] \in Int
  BY <1>0, ElementOfSeq
<1>2. PICK w : w = SubSeq(text, k + 6, k + 6 + 3)
  OBVIOUS
<1>3. k + 6 \in Int /\ k + 9 \in Int /\ k + 6 + 3 = k + 9
  OBVIOUS
<1>4. /\ w \in Seq(Int) /\ Len(w) = IF k + 6 <= k + 9 THEN k + 9 - (k + 6) + 1 ELSE 0
      /\ \A i \in 1..k + 9 - (k + 6) + 1 : w[i] = text[k + 6 + i - 1]
  BY <1>1, <1>2, <1>3, SubSeqProperties
<1>5. Len(w) = 4 /\ \A i \in 1..4 : w[i] = Frame[5 + i]
  <2>1. Len(w) = 4 /\ \A i \in 1..4 : w[i] = text[k + 6 + i - 1]
    BY <1>4
  <2>2. ASSUME NEW i \in 1..4 PROVE text[k + 6 + i - 1] = Frame[5 + i]
    <3>1. 5 + i \in 1..11 /\ k + 6 + i - 1 = k + (5 + i)
      OBVIOUS
    <3> QED BY <1>0, <3>1
  <2> QED BY <2>1, <2>2
<1>6. Word \in Seq(Int) /\ Len(Word) = 4 /\ \A i \in 1..4 : Word[i] = Frame[5 + i]
  <2>1. \A i \in 1..4 : i = 1 \/ i = 2 \/ i = 3 \/ i = 4
    OBVIOUS
  <2>2. Word[1] = Frame[6] /\ Word[2] = Frame[7] /\ Word[3] = Frame[8] /\ Word[4] = Frame[9]
    BY DEF Word, Frame
  <2>3. Word \in Seq(Int) /\ Len(Word) = 4
    BY DEF Word
  <2> QED BY <2>1, <2>2, <2>3
<1>7. w = Word
  <2>1. Len(w) = Len(Word) /\ \A i \in 1..Len(w) : w[i] = Word[i]
    BY <1>5, <1>6
  <2> QED BY <1>4, <1>6, <2>1, SeqEqual
<1>8. k + 6 \in 1..Len(text) - 3
  BY <1>0
<1> QED BY <1>2, <1>7, <1>8 DEF Places

(* Where a printed port gives way to another, the one or the other can be     *)
(* read, whatever stands ahead of it.                                         *)
LEMMA EitherPort ==
    ASSUME NEW front \in Seq(Int), NEW old \in Port, NEW p \in Port, NEW n \in Port,
           NEW size \in {4, 8}, Reads(SetPort(front \o PortField(Tab, old), p, size), n)
    PROVE  n \in {p, old}
<1>1. PICK text : text = Printed(front, Tab, old)
  OBVIOUS
<1>2. PICK k \in Nat : k = Len(front)
  BY LenProperties
<1>3. /\ text \in Seq(Int) /\ Len(text) = k + 17
      /\ \A i \in 1..11 : text[k + i] = Frame[i]
      /\ \A i \in 1..4 : text[k + 12 + i] = Decimal(old)[i]
      /\ text[k + 17] = Comma
  BY <1>1, <1>2, TextEnds, ZenonT(30) DEF EndsInField
<1>l. Len(text) = k + 17 /\ Len(text) \in Nat
  BY <1>2, <1>3
<1>4. k + 6 \in Places(text)
  <2>1. EndsInField(text, k, Tab, old)
    BY <1>1, <1>2, TextEnds
  <2> QED BY <2>1, WordThere
<1>5. PICK f \in 1..k + 6 : f = First(Places(text))
  <2>1. Places(text) \in SUBSET Nat /\ Places(text) \subseteq 1..Len(text) - 3
    <3>1. Places(text) \subseteq 1..Len(text) - 3
      BY DEF Places
    <3>2. 1..Len(text) - 3 \subseteq Nat
      BY <1>l
    <3> QED BY <3>1, <3>2
  <2>2. First(Places(text)) \in Places(text) /\ First(Places(text)) <= k + 6
    BY <1>4, <2>1, FirstOf
  <2>3. First(Places(text)) \in 1..k + 6
    BY <1>3, <2>1, <2>2
  <2> QED BY <2>3
<1>6. PICK q \in 1..k + 16 : q = f + size + 2
  <2>1. f + size + 2 \in 1..k + 16
    OBVIOUS
  <2> QED BY <2>1
<1>7. q \in 1..Len(text) /\ q + 1 \in Nat /\ Len(text) \in Nat /\ q <= k + 16
  BY <1>3
<1> DEFINE Ends == {j \in q + 1..Len(text) + 1 : j <= Len(text) => text[j] \notin Digit}
<1>8. PICK e \in q + 1..k + 17 : e = SkipDigits(text, q) /\ e \in Ends
  <2>1. k + 17 \in Ends
    <3>1. k + 17 \in q + 1..Len(text) + 1
      BY <1>3, <1>6, <1>7
    <3>2. text[k + 17] \notin Digit
      BY <1>3 DEF Comma, Digit
    <3> QED BY <3>1, <3>2
  <2>2. Ends \in SUBSET Nat /\ SkipDigits(text, q) = First(Ends)
    BY <1>7 DEF SkipDigits
  <2>3. First(Ends) \in Ends /\ First(Ends) <= k + 17
    BY <2>1, <2>2, FirstOf
  <2>4. First(Ends) \in q + 1..k + 17
    BY <1>3, <1>6, <1>7, <2>3
  <2> QED BY <2>2, <2>3, <2>4
<1>9. text[e] \notin Digit
  BY <1>3, <1>8
<1> HIDE DEF Ends
<1>10. e = k + 17 \/ e <= k + 12
  <2>1. ASSUME e # k + 17, ~ (e <= k + 12) PROVE FALSE
    <3>1. PICK i \in 1..4 : e = k + 12 + i
      <4>1. e - (k + 12) \in 1..4 /\ e = k + 12 + (e - (k + 12))
        BY <1>6, <1>8, <2>1, SMTT(30)
      <4> QED BY <4>1
    <3>2. text[e] = Decimal(old)[i]
      BY <1>3, <3>1
    <3>3. Decimal(old)[i] \in Digit
      BY DigitsOf, ZenonT(30)
    <3> QED BY <1>9, <3>2, <3>3
  <2> QED BY <2>1
<1>r. e \in Nat /\ q \in Nat /\ k \in Nat /\ q + 1 <= e /\ e <= k + 17
  BY <1>2, <1>6, <1>8
<1>11. PICK head : head = Renewed(text, q, p) /\ EndsRenewed(head, text, q, p)
  BY <1>3, <1>7, Ahead
<1>h. /\ head \in Seq(Int) /\ Len(head) = q + 4
      /\ \A i \in 1..4 : head[q + i] = Decimal(p)[i]
  BY <1>11 DEF EndsRenewed
<1>12. PICK rest : rest = SubSeq(text, e, Len(text))
  OBVIOUS
<1>13. /\ rest \in Seq(Int) /\ Len(rest) = k + 18 - e
       /\ \A i \in 1..k + 18 - e : rest[i] = text[e + i - 1]
  <2>1. e \in Int /\ Len(text) \in Int /\ \A i \in e..Len(text) : text[i] \in Int
    BY <1>3, <1>7, <1>8, ElementOfSeq
  <2>2. /\ rest \in Seq(Int) /\ Len(rest) = IF e <= Len(text) THEN Len(text) - e + 1 ELSE 0
        /\ \A i \in 1..Len(text) - e + 1 : rest[i] = text[e + i - 1]
    BY <1>12, <2>1, SubSeqProperties
  <2>3. e <= Len(text) /\ Len(text) - e + 1 = k + 18 - e
    BY <1>3, <1>8
  <2> QED BY <2>2, <2>3
<1>14. PICK new : new = head \o rest
  OBVIOUS
<1>15. /\ new \in Seq(Int) /\ Len(new) = q + 4 + (k + 18 - e)
       /\ \A i \in 1..q + 4 : new[i] = head[i]
       /\ \A i \in 1..k + 18 - e : new[q + 4 + i] = rest[i]
  <2>1. /\ new \in Seq(Int) /\ Len(new) = Len(head) + Len(rest) /\ (\A i \in 1..Len(head) : new[i] = head[i])
        /\ \A i \in 1..Len(rest) : new[Len(head) + i] = rest[i]
    BY <1>h, <1>13, <1>14, InRow, ZenonT(30)
  <2> QED BY <1>h, <1>13, <2>1
<1>16. new = SetPort(text, p, size)
  <2>1. Places(text) # {}
    BY <1>4
  <2> QED BY <1>5, <1>6, <1>8, <1>11, <1>12, <1>14, <2>1 DEF SetPort, Renewed
<1>17. \A i \in 1..4 : new[Len(new) - 5 + i] = Decimal(n)[i]
  BY <1>1, <1>15, <1>16, ReadsEnd DEF Printed
<1>18. CASE e = k + 17
  <2>1. ASSUME NEW i \in 1..4 PROVE Decimal(n)[i] = Decimal(p)[i]
    <3>1. Len(new) - 5 + i = q + i /\ q + i \in 1..q + 4
      BY <1>15, <1>18
    <3>2. new[q + i] = head[q + i]
      BY <1>15, <3>1
    <3> QED BY <1>h, <1>17, <3>1, <3>2
  <2> QED BY <2>1, SameDigits
<1>19. CASE e <= k + 12
  <2>1. ASSUME NEW i \in 1..4 PROVE Decimal(n)[i] = Decimal(old)[i]
    <3>1. PICK j \in 1..k + 18 - e : j = (k + 18 - e) - 5 + i
      <4>1. (k + 18 - e) - 5 + i \in 1..k + 18 - e
        BY <1>r, <1>19
      <4> QED BY <4>1
    <3>0. Len(new) = q + 4 + (k + 18 - e)
      BY <1>15
    <3>2. Len(new) - 5 + i = q + 4 + j /\ e + j - 1 = k + 12 + i
      BY <1>r, <3>0, <3>1
    <3>3. new[q + 4 + j] = text[k + 12 + i]
      BY <1>13, <1>15, <3>1, <3>2
    <3> QED BY <1>3, <1>17, <3>2, <3>3
  <2> QED BY <2>1, SameDigits
<1> QED BY <1>10, <1>18, <1>19

(* With pointers of four bytes, and nothing ahead of the field, the new port  *)
(* takes the place of the old one.                                            *)
LEMMA NewPort ==
    ASSUME NEW old \in Port, NEW p \in Port
    PROVE  SetPort(PortField(Tab, old), p, 4) = PortField(Blank, p)
<1>1. PICK text : text = PortField(Tab, old)
  OBVIOUS
<1>2. /\ text \in Seq(Int) /\ Len(text) = 17
      /\ \A i \in 1..11 : text[i] = Frame[i]
      /\ text[12] = Tab
      /\ \A i \in 1..4 : text[12 + i] = Decimal(old)[i]
      /\ text[17] = Comma
  <2>1. Tab \in {Blank, Tab}
    OBVIOUS
  <2> QED BY <1>1, <2>1, FieldText DEF FieldLen
<1>d. \A i \in 1..4 : Decimal(old)[i] \in Digit
  BY DigitsOf, ZenonT(30)
<1>l. Len(text) = 17 /\ \A i \in 1..17 : text[i] \in Int
  BY <1>2, ElementOfSeq
<1>3. First(Places(text)) = 6 /\ 6 \in Places(text)
  <2>1. 6 \in Places(text)
    <3>1. PICK k \in Nat : k = 0
      OBVIOUS
    <3>2. EndsInField(text, k, Tab, old)
      <4>1. Len(text) = k + 17 /\ k + 12 = 12 /\ k + 17 = 17
        BY <1>2, <3>1
      <4>2. \A i \in 1..11 : k + i = i
        BY <3>1
      <4> QED BY <1>2, <4>1, <4>2 DEF EndsInField
    <3>3. k + 6 = 6
      BY <3>1
    <3> QED BY <3>2, <3>3, WordThere
  <2>2. Places(text) \subseteq 1..Len(text) - 3
    BY DEF Places
  <2>3. 1..Len(text) - 3 = 1..14
    BY <1>2
  <2>4. Places(text) \in SUBSET Nat
    BY <2>2, <2>3
  <2>5. ASSUME NEW i \in Places(text), i < 6 PROVE FALSE
    <3>1. i \in 1..5
      BY <2>2, <2>3, <2>5
    <3>2. \A j \in i..i + 3 : text[j] \in Int
      <4>1. i..i + 3 \subseteq 1..17
        BY <3>1
      <4> QED BY <1>l, <4>1
    <3>3. SubSeq(text, i, i + 3)[1] = text[i]
      <4>1. i \in Int /\ i + 3 \in Int /\ 1 \in 1..i + 3 - i + 1 /\ i + 1 - 1 = i
        BY <3>1
      <4>2. SubSeq(text, i, i + 3)[1] = text[i + 1 - 1]
        BY <3>2, <4>1, SubSeqProperties
      <4> QED BY <4>1, <4>2
    <3>4. SubSeq(text, i, i + 3) = Word
      BY DEF Places
    <3>5. Word[1] = 112
      BY DEF Word
    <3>6. i = 1 \/ i = 2 \/ i = 3 \/ i = 4 \/ i = 5
      BY <3>1
    <3>7. Frame[1] = 34 /\ Frame[2] = 44 /\ Frame[3] = 10 /\ Frame[4] = 9 /\ Frame[5] = 34
      BY DEF Frame
    <3>8. text[i] = Frame[i]
      BY <1>2, <3>1
    <3>9. text[i] = 112
      BY <3>3, <3>4, <3>5
    <3>10. Frame[i] \in {34, 44, 10, 9}
      BY <3>6, <3>7
    <3> QED BY <3>8, <3>9, <3>10
  <2>6. First(Places(text)) \in Places(text) /\ First(Places(text)) <= 6
    BY <2>1, <2>4, FirstOf
  <2>7. First(Places(text)) \in Nat
    BY <2>4, <2>6
  <2> QED BY <2>1, <2>5, <2>6, <2>7
<1>4. SkipDigits(text, 12) = 17
  <2> DEFINE Ends == {j \in 12 + 1..Len(text) + 1 : j <= Len(text) => text[j] \notin Digit}
  <2>1. 17 \in Ends
    <3>1. 17 \in 12 + 1..Len(text) + 1
      BY <1>l
    <3>2. text[17] \notin Digit
      BY <1>2 DEF Comma, Digit
    <3> QED BY <3>1, <3>2
  <2>2. Ends \subseteq 13..18
    BY <1>2
  <2>3. Ends \in SUBSET Nat /\ SkipDigits(text, 12) = First(Ends)
    BY <2>2 DEF SkipDigits
  <2>4. ASSUME NEW j \in Ends, j < 17 PROVE FALSE
    <3>1. PICK i \in 1..4 : j = 12 + i
      <4>1. j - 12 \in 1..4 /\ j = 12 + (j - 12)
        BY <2>2, <2>4
      <4> QED BY <4>1
    <3>2. text[j] = Decimal(old)[i]
      BY <1>2, <3>1
    <3>3. Decimal(old)[i] \in Digit
      BY <1>d
    <3>4. j <= Len(text)
      BY <1>2, <2>2, <2>4
    <3> QED BY <3>2, <3>3, <3>4
  <2> HIDE DEF Ends
  <2>5. First(Ends) \in Ends /\ First(Ends) <= 17
    BY <2>1, <2>3, FirstOf
  <2>6. First(Ends) \in Nat
    BY <2>3, <2>5
  <2> QED BY <2>3, <2>4, <2>5, <2>6
<1>5. PICK head : head = Renewed(text, 12, p) /\ EndsRenewed(head, text, 12, p)
  <2>1. 12 \in 1..Len(text)
    BY <1>2
  <2> QED BY <1>2, <2>1, Ahead
<1>6. /\ head \in Seq(Int) /\ Len(head) = 16
      /\ \A i \in 1..11 : head[i] = text[i]
      /\ head[12] = Blank
      /\ \A i \in 1..4 : head[12 + i] = Decimal(p)[i]
  <2>1. 12 - 1 = 11 /\ 12 + 4 = 16
    OBVIOUS
  <2> QED BY <1>5, <2>1 DEF EndsRenewed
<1>7. PICK rest : rest = SubSeq(text, 17, Len(text))
  OBVIOUS
<1>8. rest \in Seq(Int) /\ Len(rest) = 1 /\ rest[1] = Comma
  <2>1. \A i \in 17..17 : text[i] \in Int
    BY <1>l
  <2>2. rest = SubSeq(text, 17, 17) /\ 17 \in Int
    BY <1>2, <1>7
  <2>3. /\ rest \in Seq(Int) /\ Len(rest) = IF 17 <= 17 THEN 17 - 17 + 1 ELSE 0
        /\ \A i \in 1..17 - 17 + 1 : rest[i] = text[17 + i - 1]
    BY <2>1, <2>2, SubSeqProperties
  <2>4. Len(rest) = 1 /\ rest[1] = text[17]
    <3>1. 1 \in 1..17 - 17 + 1 /\ 17 + 1 - 1 = 17
      OBVIOUS
    <3> QED BY <2>3, <3>1
  <2> QED BY <1>2, <2>3, <2>4
<1>9. PICK new : new = head \o rest
  OBVIOUS
<1>10. new = SetPort(text, p, 4)
  <2>1. Places(text) # {}
    BY <1>3
  <2>2. 6 + 4 + 2 = 12
    OBVIOUS
  <2> QED BY <1>3, <1>4, <1>5, <1>7, <1>9, <2>1, <2>2 DEF SetPort, Renewed
<1>11. /\ new \in Seq(Int) /\ Len(new) = 17 /\ (\A i \in 1..16 : new[i] = head[i])
       /\ new[17] = Comma
  <2>1. /\ new \in Seq(Int) /\ Len(new) = Len(head) + Len(rest) /\ (\A i \in 1..Len(head) : new[i] = head[i])
        /\ \A i \in 1..Len(rest) : new[Len(head) + i] = rest[i]
    BY <1>6, <1>8, <1>9, InRow, ZenonT(30)
  <2>2. new[16 + 1] = rest[1]
    BY <1>6, <1>8, <2>1
  <2> QED BY <1>6, <1>8, <2>1, <2>2
<1>12. PICK field : field = PortField(Blank, p)
  OBVIOUS
<1>13. /\ field \in Seq(Int) /\ Len(field) = 17
       /\ \A i \in 1..11 : field[i] = Frame[i]
       /\ field[12] = Blank
       /\ \A i \in 1..4 : field[12 + i] = Decimal(p)[i]
       /\ field[17] = Comma
  <2>1. Blank \in {Blank, Tab}
    OBVIOUS
  <2> QED BY <1>12, <2>1, FieldText DEF FieldLen
<1>14. ASSUME NEW i \in 1..17 PROVE new[i] = field[i]
  <2>1. CASE i \in 1..11
    <3>1. i \in 1..16
      BY <2>1
    <3> QED BY <1>2, <1>6, <1>11, <1>13, <2>1, <3>1, SMTT(30)
  <2>2. CASE i = 12
    <3>1. 12 \in 1..16
      OBVIOUS
    <3> QED BY <1>6, <1>11, <1>13, <2>2, <3>1
  <2>3. CASE i \in 13..16
    <3>1. PICK j \in 1..4 : i = 12 + j
      <4>1. i - 12 \in 1..4 /\ i = 12 + (i - 12)
        BY <2>3
      <4> QED BY <4>1
    <3>2. i \in 1..16
      BY <2>3
    <3>3. new[12 + j] = head[12 + j]
      BY <1>11, <3>1, <3>2
    <3> QED BY <1>6, <1>13, <3>1, <3>3
  <2>4. CASE i = 17
    BY <1>11, <1>13, <2>4
  <2> QED BY <2>1, <2>2, <2>3, <2>4
<1>15. new = field
  <2>1. Len(new) = Len(field) /\ \A i \in 1..Len(new) : new[i] = field[i]
    BY <1>11, <1>13, <1>14
  <2> QED BY <1>11, <1>13, <2>1, SeqEqual
<1> QED BY <1>1, <1>10, <1>12, <1>15

(* Of a field one reads its port. *)
LEMMA ReadsField ==
    ASSUME NEW gap \in {Blank, Tab}, NEW p \in Port
    PROVE  Reads(PortField(gap, p), p) /\ \A n \in Port : Reads(PortField(gap, p), n) => n = p
<1>1. PICK text : text = PortField(gap, p)
  OBVIOUS
<1>2. /\ text \in Seq(Int) /\ Len(text) = 17
      /\ \A i \in 1..4 : text[12 + i] = Decimal(p)[i]
  BY <1>1, FieldText DEF FieldLen
<1>3. Reads(text, p)
  <2>1. Len(text) - 17 = 0 /\ 1..0 = {} /\ 0 + 1 = 1 /\ 0 >= 0
    BY <1>2
  <2>2. SubSeq(text, 1, Len(text)) = PortField(gap, p)
    BY <1>1, <1>2, SubSeqFull
  <2> QED BY <2>1, <2>2 DEF Reads, FieldLen
<1>4. ASSUME NEW n \in Port, Reads(text, n) PROVE n = p
  <2>1. \A i \in 1..4 : text[Len(text) - 5 + i] = Decimal(n)[i]
    BY <1>2, <1>4, ReadsEnd
  <2>2. ASSUME NEW i \in 1..4 PROVE Decimal(n)[i] = Decimal(p)[i]
    <3>1. Len(text) - 5 + i = 12 + i
      BY <1>2
    <3> QED BY <1>2, <2>1, <3>1
  <2> QED BY <2>2, SameDigits
<1> QED BY <1>1, <1>3, <1>4
===============================================================================
