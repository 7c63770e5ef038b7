------------------------- MODULE RobotMsgQueueProofs -------------------------
(***************************************************************************)
(* What holds of the message queue for every set of threads, every         *)
(* capacity, every message size and every set of calls; and that it is a   *)
(* BoundedFifo.                                                            *)
(***************************************************************************)
EXTENDS RobotMsgQueue, FiniteSetTheorems, SequenceTheorems, TLAPS

(* uiHead %= uiBufSize and uiTail %= uiBufSize stay inside the ring. *)
LEMMA InRing ==
    ASSUME NEW s \in 0..MaxSize-1
    PROVE  After(s) \in 0..MaxSize-1
  BY QueueAssumption DEF After

(* memcpy into a slot and out of one gives a message. *)
LEMMA Copies ==
    ASSUME NEW slot \in Message, NEW n
    PROVE  /\ \A msg \in Msgs : Overwrite(slot, msg, n) \in Message
           /\ FirstCells(slot, n) \in Message
           /\ Empty \in Message
  BY DEF Message, Overwrite, FirstCells, Empty, Cell

(* A call a thread may make has the fields of its operation. *)
LEMMA JobFields ==
    ASSUME NEW t \in Threads, NEW j \in Duties[t]
    PROVE  /\ j \in Jobs
           /\ j.op \in {"send", "receive", "peek", "count", "limit"}
           /\ j.op = "send" => j \in Sends
           /\ j.op = "receive" => j \in Receives
           /\ j.op = "peek" => j \in Peeks
<1>1. j \in Jobs
  BY DEF Jobs
<1>2. j \in Sends \cup Receives \cup Peeks \cup Counts \cup Limits
  BY QueueAssumption
<1>3. /\ j \in Sends => j.op = "send"
      /\ j \in Receives => j.op = "receive"
      /\ j \in Peeks => j.op = "peek"
      /\ j \in Counts => j.op = "count"
      /\ j \in Limits => j.op = "limit"
  BY DEF Sends, Receives, Peeks, Counts, Limits
<1> QED BY <1>1, <1>2, <1>3

(* A call under way has the fields of the operation it is in. *)
JobFits ==
    \A t \in Threads :
        /\ pc[t] \in {"send"} \cup Filling \cup {"sendPost"} => job[t] \in Sends
        /\ pc[t] \in {"receive"} \cup Emptying \cup {"receivePost"} => job[t] \in Receives
        /\ pc[t] \in {"peek", "peekRead"} => job[t] \in Peeks

Typed == TypeOK /\ JobFits

-----------------------------------------------------------------------------
(* Type correctness.  TypeOK needs JobFits: what a sender copies into a slot *)
(* is a message because the job it reads it from is a Send.                  *)

LEMMA TypedInit == Init => Typed
<1> SUFFICES ASSUME Init PROVE Typed
    OBVIOUS
<1>1. TypeOK
  BY QueueAssumption DEF Init, Cleared, Semaphores, TypeOK, Message, Empty, Cell, PC
<1>2. JobFits
  BY DEF Init, JobFits, Filling, Emptying
<1> QED BY <1>1, <1>2 DEF Typed

LEMMA TypedNext == Typed /\ [Next]_vars => Typed'
<1> SUFFICES ASSUME Typed, [Next]_vars PROVE Typed'
    OBVIOUS
<1> USE QueueAssumption
<1> USE DEF Typed, TypeOK, JobFits, Goto, Return, ring, caller
<1>0. CASE UNCHANGED vars
  BY <1>0 DEF vars
<1>1. ASSUME NEW t \in Threads, NEW j \in Duties[t], Call(t, j) PROVE Typed'
  <2>1. /\ j \in Jobs /\ j.op \in {"send", "receive", "peek", "count", "limit"}
        /\ j.op = "send" => j \in Sends
        /\ j.op = "receive" => j \in Receives
        /\ j.op = "peek" => j \in Peeks
    BY JobFields
  <2>2. Empty \in Message
    BY Copies
  <2>3. TypeOK'
    BY <1>1, <2>1, <2>2 DEF Call, PC
  <2>4. JobFits'
    BY <1>1, <2>1 DEF Call, Filling, Emptying
  <2> QED BY <2>3, <2>4
<1>2. ASSUME NEW t \in Threads, TakeMutex(t) PROVE Typed'
  <2> USE DEF PC, Filling, Emptying
  <2>1. CASE SendLock(t)
    BY <2>1 DEF SendLock
  <2>2. CASE ReceiveLock(t)
    BY <2>2 DEF ReceiveLock
  <2>3. CASE PeekLock(t)
    BY <2>3 DEF PeekLock
  <2>4. CASE CountLock(t)
    BY <2>4 DEF CountLock
  <2>5. CASE LimitLock(t)
    BY <2>5 DEF LimitLock
  <2> QED BY <1>2, <2>1, <2>2, <2>3, <2>4, <2>5 DEF TakeMutex
<1>3. ASSUME NEW t \in Threads, Proceed(t) PROVE Typed'
  <2> USE DEF PC, Filling, Emptying
  <2>1. CASE RejectWait(t)
    BY <2>1 DEF RejectWait
  <2>2. CASE SendWait(t)
    BY <2>2 DEF SendWait
  <2>3. CASE SendRefused(t)
    BY <2>3 DEF SendRefused
  <2>4. CASE SendCopy(t)
    <3>1. slots[tail] \in Message /\ job[t].msg \in Msgs
      BY <2>4 DEF SendCopy, Sends
    <3>2. Overwrite(slots[tail], job[t].msg, job[t].size) \in Message
      BY <3>1, Copies
    <3>3. slots' \in [0..MaxSize-1 -> Message]
      BY <2>4, <3>2 DEF SendCopy
    <3> QED BY <2>4, <3>3 DEF SendCopy
  <2>5. CASE SendAdvance(t)
    <3>1. tail' \in 0..MaxSize-1
      BY <2>5, InRing DEF SendAdvance
    <3> QED BY <2>5, <3>1 DEF SendAdvance
  <2>6. CASE SendPost(t)
    BY <2>6 DEF SendPost
  <2>7. CASE ReceiveWait(t)
    BY <2>7 DEF ReceiveWait
  <2>8. CASE ReceiveRefused(t)
    BY <2>8 DEF ReceiveRefused
  <2>9. CASE ReceiveCopy(t)
    <3>1. FirstCells(slots[head], job[t].size) \in Message
      BY Copies
    <3> QED BY <2>9, <3>1 DEF ReceiveCopy
  <2>10. CASE ReceiveAdvance(t)
    <3>1. head' \in 0..MaxSize-1
      BY <2>10, InRing DEF ReceiveAdvance
    <3> QED BY <2>10, <3>1 DEF ReceiveAdvance
  <2>11. CASE ReceivePost(t)
    BY <2>11 DEF ReceivePost
  <2>12. CASE PeekNothing(t)
    BY <2>12 DEF PeekNothing
  <2>13. CASE PeekRead(t)
    <3>1. Slot(job[t].offset) \in 0..MaxSize-1
      <4>1. job[t].offset \in Nat
        BY <2>13 DEF PeekRead, Peeks
      <4> QED BY <4>1 DEF Slot
    <3>2. FirstCells(slots[Slot(job[t].offset)], job[t].size) \in Message
      BY <3>1, Copies
    <3> QED BY <2>13, <3>2 DEF PeekRead
  <2>14. CASE CountRead(t)
    BY <2>14 DEF CountRead
  <2>15. CASE LimitRead(t)
    BY <2>15 DEF LimitRead
  <2>16. CASE ReadDone(t)
    BY <2>16 DEF ReadDone
  <2> QED
    BY <1>3, <2>1, <2>2, <2>3, <2>4, <2>5, <2>6, <2>7, <2>8, <2>9, <2>10, <2>11,
       <2>12, <2>13, <2>14, <2>15, <2>16 DEF Proceed
<1>4. CASE Recreate
  <2>1. Empty \in Message
    BY Copies
  <2>2. TypeOK'
    BY <1>4, <2>1 DEF Recreate, Cleared
  <2>3. JobFits'
    BY <1>4 DEF Recreate
  <2> QED BY <2>2, <2>3
<1> QED
  BY <1>0, <1>1, <1>2, <1>3, <1>4 DEF Next

(* Every field of ROBOT_MSGQ_t and every local of a caller keeps its type:   *)
(* the offsets stay inside pcBuf, what is copied is a message                *)
(* (RobotMsgQueue.h:38-55, RobotMsgQueue.c:54-151).                          *)
THEOREM TypeCorrect == Spec => []TypeOK
<1>1. Typed => TypeOK
  BY DEF Typed
<1> QED
  BY TypedInit, TypedNext, <1>1, PTL DEF Spec
-----------------------------------------------------------------------------
(* The tokens of the semaphores.  When one thread moves, the number of       *)
(* threads in a set of places changes by at most that thread.                *)

Held(places) == Cardinality(At(places))

LEMMA HeldFinite ==
    ASSUME NEW P
    PROVE  /\ IsFiniteSet(At(P))
           /\ Held(P) \in Nat
           /\ \A t \in Threads : pc[t] \in P => Held(P) > 0
<1>1. At(P) \in SUBSET Threads
  BY DEF At
<1>2. IsFiniteSet(At(P)) /\ Held(P) \in Nat
  BY <1>1, QueueAssumption, FS_Subset, FS_CardinalityType DEF Held
<1>3. ASSUME NEW t \in Threads, pc[t] \in P PROVE Held(P) > 0
  <2>1. At(P) # {}
    BY <1>3 DEF At
  <2> QED BY <1>2, <2>1, FS_EmptySet DEF Held
<1> QED BY <1>2, <1>3

LEMMA HeldMoves ==
    ASSUME NEW P, NEW t \in Threads, NEW at, pc \in [Threads -> PC], Goto(t, at)
    PROVE  Held(P)' = (IF at \in P THEN 1 ELSE 0) + Held(P) - (IF pc[t] \in P THEN 1 ELSE 0)
<1>1. Held(P) \in Nat /\ IsFiniteSet(At(P))
  BY HeldFinite
<1>2. CASE at \in P
  <2>1. At(P)' = At(P) \cup {t}
    BY <1>2 DEF At, Goto
  <2>2. Cardinality(At(P)') = IF t \in At(P) THEN Held(P) ELSE Held(P) + 1
    BY <1>1, <2>1, FS_AddElement DEF Held
  <2> QED BY <1>1, <1>2, <2>2 DEF Held, At
<1>3. CASE at \notin P
  <2>1. At(P)' = At(P) \ {t}
    BY <1>3 DEF At, Goto
  <2>2. Cardinality(At(P)') = IF t \in At(P) THEN Held(P) - 1 ELSE Held(P)
    BY <1>1, <2>1, FS_RemoveElement DEF Held
  <2> QED BY <1>1, <1>3, <2>2 DEF Held, At
<1> QED BY <1>2, <1>3

(* The four counts of TokensAccounted after a move. *)
LEMMA TokensMove ==
    ASSUME NEW t \in Threads, NEW at, pc \in [Threads -> PC], Goto(t, at)
    PROVE  /\ Held({"sendPost"})' = (IF at = "sendPost" THEN 1 ELSE 0) + Held({"sendPost"})
                                       - (IF pc[t] = "sendPost" THEN 1 ELSE 0)
           /\ Held({"receivePost"})' = (IF at = "receivePost" THEN 1 ELSE 0) + Held({"receivePost"})
                                       - (IF pc[t] = "receivePost" THEN 1 ELSE 0)
           /\ Held(Filling)' = (IF at \in Filling THEN 1 ELSE 0) + Held(Filling)
                                       - (IF pc[t] \in Filling THEN 1 ELSE 0)
           /\ Held(Emptying)' = (IF at \in Emptying THEN 1 ELSE 0) + Held(Emptying)
                                       - (IF pc[t] \in Emptying THEN 1 ELSE 0)
           /\ Held({"sendPost"}) \in Nat /\ Held({"receivePost"}) \in Nat
           /\ Held(Filling) \in Nat /\ Held(Emptying) \in Nat
<1>1. ASSUME NEW P
      PROVE  /\ Held(P)' = (IF at \in P THEN 1 ELSE 0) + Held(P) - (IF pc[t] \in P THEN 1 ELSE 0)
             /\ Held(P) \in Nat
  BY HeldMoves, HeldFinite
<1>2. /\ at \in {"sendPost"} <=> at = "sendPost"
      /\ pc[t] \in {"sendPost"} <=> pc[t] = "sendPost"
      /\ at \in {"receivePost"} <=> at = "receivePost"
      /\ pc[t] \in {"receivePost"} <=> pc[t] = "receivePost"
  OBVIOUS
<1>3. /\ Held({"sendPost"})' = (IF at \in {"sendPost"} THEN 1 ELSE 0) + Held({"sendPost"})
                                  - (IF pc[t] \in {"sendPost"} THEN 1 ELSE 0)
      /\ Held({"sendPost"}) \in Nat
  BY <1>1
<1>4. /\ Held({"receivePost"})' = (IF at \in {"receivePost"} THEN 1 ELSE 0) + Held({"receivePost"})
                                  - (IF pc[t] \in {"receivePost"} THEN 1 ELSE 0)
      /\ Held({"receivePost"}) \in Nat
  BY <1>1
<1>5. /\ Held(Filling)' = (IF at \in Filling THEN 1 ELSE 0) + Held(Filling)
                                  - (IF pc[t] \in Filling THEN 1 ELSE 0)
      /\ Held(Filling) \in Nat
  BY <1>1
<1>6. /\ Held(Emptying)' = (IF at \in Emptying THEN 1 ELSE 0) + Held(Emptying)
                                  - (IF pc[t] \in Emptying THEN 1 ELSE 0)
      /\ Held(Emptying) \in Nat
  BY <1>1
<1> QED BY <1>2, <1>3, <1>4, <1>5, <1>6

(* The inductive invariant: the tokens are accounted for, in typed states. *)
Tokens ==
    /\ num = rx + Held({"sendPost"}) + Held(Emptying)
    /\ MaxSize = num + tx + Held({"receivePost"}) + Held(Filling)

IInv == Typed /\ Tokens

LEMMA TokensInit == Init => Tokens
<1> SUFFICES ASSUME Init PROVE Tokens
    OBVIOUS
<1>1. ASSUME NEW P, "idle" \notin P PROVE Held(P) = 0
  <2>1. At(P) = {}
    BY <1>1 DEF At, Init
  <2> QED BY <2>1, FS_EmptySet DEF Held
<1>2. "idle" \notin {"sendPost"} /\ "idle" \notin {"receivePost"}
      /\ "idle" \notin Filling /\ "idle" \notin Emptying
  BY DEF Filling, Emptying
<1>3. /\ Held({"sendPost"}) = 0 /\ Held({"receivePost"}) = 0
      /\ Held(Filling) = 0 /\ Held(Emptying) = 0
  BY <1>1, <1>2
<1> QED BY <1>3, QueueAssumption DEF Tokens, Init, Semaphores

LEMMA TokensNext == IInv /\ [Next]_vars => Tokens'
<1> SUFFICES ASSUME IInv, [Next]_vars PROVE Tokens'
    OBVIOUS
<1> USE QueueAssumption
<1>00. pc \in [Threads -> PC] /\ tx \in Nat /\ rx \in Nat /\ num \in Int
  BY DEF IInv, Typed, TypeOK
<1>0. CASE UNCHANGED vars
  <2>1. ASSUME NEW P PROVE Held(P)' = Held(P)
    BY <1>0 DEF vars, Held, At
  <2>2. /\ Held({"sendPost"})' = Held({"sendPost"}) /\ Held({"receivePost"})' = Held({"receivePost"})
        /\ Held(Filling)' = Held(Filling) /\ Held(Emptying)' = Held(Emptying)
    BY <2>1
  <2> QED BY <1>0, <2>2 DEF vars, ring, IInv, Tokens
<1>1. ASSUME NEW t \in Threads, NEW j \in Duties[t], Call(t, j) PROVE Tokens'
  <2>1. Goto(t, j.op) /\ pc[t] = "idle" /\ UNCHANGED <<tx, rx, num>>
    BY <1>1 DEF Call, ring
  <2>2. j.op \notin {"sendPost", "receivePost"} /\ j.op \notin Filling /\ j.op \notin Emptying
    BY JobFields DEF Filling, Emptying
  <2> QED BY <1>00, <2>1, <2>2, TokensMove DEF IInv, Tokens, Filling, Emptying
<1>2. ASSUME NEW t \in Threads, TakeMutex(t) PROVE Tokens'
  <2>1. /\ UNCHANGED <<tx, rx, num>>
        /\ \/ pc[t] = "sendLock" /\ Goto(t, "sendCopy")
           \/ pc[t] = "receiveLock" /\ Goto(t, "receiveCopy")
           \/ pc[t] = "peek" /\ Goto(t, "peekRead")
           \/ pc[t] = "count" /\ Goto(t, "countRead")
           \/ pc[t] = "limit" /\ Goto(t, "limitRead")
    BY <1>2 DEF TakeMutex, SendLock, ReceiveLock, PeekLock, CountLock, LimitLock, ring
  <2> QED BY <1>00, <2>1, TokensMove DEF IInv, Tokens, Filling, Emptying
<1>3. ASSUME NEW t \in Threads, Proceed(t) PROVE Tokens'
  <2> USE <1>00, TokensMove DEF IInv, Tokens, Filling, Emptying, Return, ring
  <2>1. CASE RejectWait(t)
    BY <2>1 DEF RejectWait
  <2>2. CASE SendWait(t)
    BY <2>2 DEF SendWait
  <2>3. CASE SendRefused(t)
    BY <2>3 DEF SendRefused
  <2>4. CASE SendCopy(t)
    BY <2>4 DEF SendCopy
  <2>5. CASE SendAdvance(t)
    BY <2>5 DEF SendAdvance
  <2>6. CASE SendPost(t)
    BY <2>6 DEF SendPost
  <2>7. CASE ReceiveWait(t)
    BY <2>7 DEF ReceiveWait
  <2>8. CASE ReceiveRefused(t)
    BY <2>8 DEF ReceiveRefused
  <2>9. CASE ReceiveCopy(t)
    BY <2>9 DEF ReceiveCopy
  <2>10. CASE ReceiveAdvance(t)
    BY <2>10 DEF ReceiveAdvance
  <2>11. CASE ReceivePost(t)
    BY <2>11 DEF ReceivePost
  <2>12. CASE PeekNothing(t)
    BY <2>12 DEF PeekNothing
  <2>13. CASE PeekRead(t)
    BY <2>13 DEF PeekRead
  <2>14. CASE CountRead(t)
    BY <2>14 DEF CountRead
  <2>15. CASE LimitRead(t)
    BY <2>15 DEF LimitRead
  <2>16. CASE ReadDone(t)
    BY <2>16 DEF ReadDone
  <2> QED
    BY <1>3, <2>1, <2>2, <2>3, <2>4, <2>5, <2>6, <2>7, <2>8, <2>9, <2>10, <2>11,
       <2>12, <2>13, <2>14, <2>15, <2>16 DEF Proceed
<1>4. CASE Recreate
  <2>1. /\ tx' = MaxSize /\ rx' = 0 /\ num' = 0
        /\ pc' = pc /\ \A t \in Threads : pc[t] = "idle"
    BY <1>4 DEF Recreate
  <2>2. ASSUME NEW P, "idle" \notin P PROVE Held(P)' = 0
    <3>1. At(P)' = {}
      BY <2>1, <2>2 DEF At
    <3> QED BY <3>1, FS_EmptySet DEF Held
  <2>3. "idle" \notin {"sendPost"} /\ "idle" \notin {"receivePost"}
        /\ "idle" \notin Filling /\ "idle" \notin Emptying
    BY DEF Filling, Emptying
  <2>4. /\ Held({"sendPost"})' = 0 /\ Held({"receivePost"})' = 0
        /\ Held(Filling)' = 0 /\ Held(Emptying)' = 0
    BY <2>2, <2>3
  <2> QED BY <2>1, <2>4 DEF Tokens
<1> QED
  BY <1>0, <1>1, <1>2, <1>3, <1>4 DEF Next

LEMMA IInvAlways == Spec => []IInv
<1>1. Init => IInv
  BY TypedInit, TokensInit DEF IInv
<1>2. IInv /\ [Next]_vars => IInv'
  BY TypedNext, TokensNext DEF IInv
<1> QED BY <1>1, <1>2, PTL DEF Spec

(* Every message is counted once, by rx_sema or by the thread that has taken *)
(* or is to post its token, and every free slot once, by tx_sema or by such  *)
(* a thread (RobotMsgQueue.c:47-48, 96-115, 130-149).                        *)
THEOREM TokensAlways == Spec => []TokensAccounted
<1>1. IInv => TokensAccounted
  BY DEF IInv, Tokens, TokensAccounted, Held
<1> QED BY IInvAlways, <1>1, PTL

(* What a thread counts on once it is through its semaphore. *)
LEMMA RoomAndMessages == IInv => NoOverrun
<1> SUFFICES ASSUME IInv PROVE NoOverrun
  OBVIOUS
<1>1. /\ Held({"sendPost"}) \in Nat /\ Held({"receivePost"}) \in Nat
      /\ Held(Filling) \in Nat /\ Held(Emptying) \in Nat
  BY HeldFinite
<1>2. \A t \in Threads : /\ pc[t] \in Filling => Held(Filling) > 0
                         /\ pc[t] \in Emptying => Held(Emptying) > 0
  BY HeldFinite
<1>3. /\ tx \in Nat /\ rx \in Nat /\ num \in Int /\ MaxSize \in Nat
      /\ num = rx + Held({"sendPost"}) + Held(Emptying)
      /\ MaxSize = num + tx + Held({"receivePost"}) + Held(Filling)
  BY QueueAssumption DEF IInv, Typed, TypeOK, Tokens
<1>4. num >= Held(Emptying) /\ MaxSize - num >= Held(Filling)
  BY <1>1, <1>3
<1>5. num \in 0..MaxSize
  BY <1>1, <1>3, <1>4
<1>6. ASSUME NEW t \in Threads
      PROVE  (pc[t] \in Filling => num < MaxSize) /\ (pc[t] \in Emptying => num > 0)
  BY <1>1, <1>2, <1>3, <1>4
<1> QED BY <1>5, <1>6 DEF NoOverrun

(* No sender finds the ring full and no receiver finds it empty once they    *)
(* are through their semaphore, for any number of threads                    *)
(* (RobotMsgQueue.c:107-112, 141-146).                                       *)
THEOREM NeverOverrun == Spec => []NoOverrun
<1> QED BY IInvAlways, RoomAndMessages, PTL

-----------------------------------------------------------------------------
(* The ring.  Offsets go round at most once, so a slot is a sum or a sum     *)
(* less MaxSize.                                                             *)

LEMMA Round ==
    ASSUME NEW m \in Nat \ {0}, NEW a \in Nat, a < 2 * m
    PROVE  a % m = IF a < m THEN a ELSE a - m
  OBVIOUS

LEMMA SlotRound ==
    ASSUME TypeOK, NEW k \in 0..MaxSize
    PROVE  /\ Slot(k) = IF head + k < MaxSize THEN head + k ELSE head + k - MaxSize
           /\ Slot(k) \in 0..MaxSize-1
<1>1. /\ MaxSize \in Nat \ {0} /\ head \in 0..MaxSize-1
      /\ head + k \in Nat /\ head + k < 2 * MaxSize
  BY QueueAssumption DEF TypeOK
<1>2. \A a \in Nat : a < 2 * MaxSize => a % MaxSize = IF a < MaxSize THEN a ELSE a - MaxSize
  BY <1>1, Round
<1>3. Slot(k) = IF head + k < MaxSize THEN head + k ELSE head + k - MaxSize
  BY <1>1, <1>2 DEF Slot
<1> QED BY <1>1, <1>3

(* The slot behind the messages is none of theirs while there is room. *)
LEMMA SlotsApart ==
    ASSUME TypeOK, NEW j \in 0..MaxSize, NEW k \in 0..MaxSize, j < k, k - j < MaxSize
    PROVE  Slot(j) # Slot(k)
<1>1. MaxSize \in Nat \ {0} /\ head \in 0..MaxSize-1
  BY QueueAssumption DEF TypeOK
<1>2. /\ Slot(j) = IF head + j < MaxSize THEN head + j ELSE head + j - MaxSize
      /\ Slot(k) = IF head + k < MaxSize THEN head + k ELSE head + k - MaxSize
  BY SlotRound
<1> QED BY <1>1, <1>2

-----------------------------------------------------------------------------
(* The invariant.  One thread at a time is between lock and unlock; uiTail   *)
(* is the slot behind the last message; a receiver has copied the first      *)
(* message and a sender has filled the slot at uiTail; a call is in the      *)
(* places of its operation.                                                  *)

Critical == {"sendCopy", "sendAdvance", "receiveCopy", "receiveAdvance",
             "peekRead", "countRead", "limitRead", "readDone"}

Exclusive == \A t \in Threads : pc[t] \in Critical => mutex = t

Ring == tail = Slot(num)

Filled(t) == \A k \in 1..MsgSize : k <= job[t].size => slots[tail][k] = job[t].msg
Fetched(t) == out[t] = FirstCells(slots[head], job[t].size)

Copied ==
    \A t \in Threads :
        /\ pc[t] = "sendAdvance" => Filled(t)
        /\ pc[t] \in {"receive", "receiveLock", "receiveCopy"} => out[t] = Empty
        /\ pc[t] = "receiveAdvance" => Fetched(t)

Placed ==
    \A t \in Threads :
        /\ pc[t] \in {"count", "countRead"} => job[t].op = "count"
        /\ pc[t] \in {"limit", "limitRead"} => job[t].op = "limit"

RInv == IInv /\ Exclusive /\ Ring /\ Copied /\ Placed

LEMMA RInvInit == Init => RInv
<1> SUFFICES ASSUME Init PROVE RInv
    OBVIOUS
<1>1. IInv
  BY TypedInit, TokensInit DEF IInv
<1>2. Exclusive /\ Copied /\ Placed
  BY DEF Init, Exclusive, Copied, Placed, Critical
<1>3. Slot(0) = 0
  BY <1>1, SlotRound, QueueAssumption DEF Init, IInv, Typed
<1> QED BY <1>1, <1>2, <1>3 DEF RInv, Ring, Init

LEMMA ExclusiveNext == TypeOK /\ Exclusive /\ [Next]_vars => Exclusive'
<1> SUFFICES ASSUME TypeOK, Exclusive, [Next]_vars PROVE Exclusive'
    OBVIOUS
<1> USE DEF Exclusive, Critical, Goto, Return
<1>0. pc \in [Threads -> PC] /\ \A t \in Threads : t # Nobody
  BY QueueAssumption DEF TypeOK
<1>1. CASE UNCHANGED vars
  BY <1>1 DEF vars
<1>2. ASSUME NEW t \in Threads, NEW j \in Duties[t], Call(t, j) PROVE Exclusive'
  <2>1. j.op \in {"send", "receive", "peek", "count", "limit"}
    BY JobFields
  <2> QED BY <1>0, <1>2, <2>1 DEF Call
<1>3. ASSUME NEW t \in Threads, TakeMutex(t) PROVE Exclusive'
  BY <1>0, <1>3 DEF TakeMutex, SendLock, ReceiveLock, PeekLock, CountLock, LimitLock
<1>4. ASSUME NEW t \in Threads, Proceed(t) PROVE Exclusive'
  <2> USE <1>0
  <2>1. CASE RejectWait(t) \/ SendRefused(t) \/ ReceiveRefused(t)
    BY <2>1 DEF RejectWait, SendRefused, ReceiveRefused
  <2>2. CASE SendWait(t) \/ ReceiveWait(t)
    BY <2>2 DEF SendWait, ReceiveWait
  <2>3. CASE SendCopy(t) \/ ReceiveCopy(t) \/ PeekRead(t) \/ CountRead(t) \/ LimitRead(t)
    BY <2>3 DEF SendCopy, ReceiveCopy, PeekRead, CountRead, LimitRead
  <2>4. CASE SendAdvance(t) \/ ReceiveAdvance(t) \/ PeekNothing(t) \/ ReadDone(t)
    BY <2>4 DEF SendAdvance, ReceiveAdvance, PeekNothing, ReadDone
  <2>5. CASE SendPost(t) \/ ReceivePost(t)
    BY <2>5 DEF SendPost, ReceivePost
  <2> QED BY <1>4, <2>1, <2>2, <2>3, <2>4, <2>5 DEF Proceed
<1>5. CASE Recreate
  BY <1>5 DEF Recreate
<1> QED BY <1>1, <1>2, <1>3, <1>4, <1>5 DEF Next

(* uiTail moves with uiMsgNum; when uiHead moves, uiMsgNum makes up for it. *)
LEMMA RingNext == TypeOK /\ NoOverrun /\ Ring /\ [Next]_vars => Ring'
<1> SUFFICES ASSUME TypeOK, NoOverrun, Ring, [Next]_vars PROVE Ring'
    OBVIOUS
<1>0. /\ MaxSize \in Nat \ {0} /\ head \in 0..MaxSize-1 /\ tail \in 0..MaxSize-1
      /\ num \in 0..MaxSize
  BY QueueAssumption DEF TypeOK, NoOverrun
<1>1. ASSUME UNCHANGED <<head, tail, num>> PROVE Ring'
  BY <1>1 DEF Ring, Slot
<1>2. \A a \in Nat : a < 2 * MaxSize => a % MaxSize = IF a < MaxSize THEN a ELSE a - MaxSize
  BY <1>0, Round
<1>3. tail = IF head + num < MaxSize THEN head + num ELSE head + num - MaxSize
  BY <1>0, SlotRound DEF Ring
<1>4. ASSUME NEW t \in Threads, SendAdvance(t) PROVE Ring'
  <2>1. num < MaxSize
    BY <1>4 DEF NoOverrun, SendAdvance, Filling
  <2>2. tail' = (tail + 1) % MaxSize /\ Slot(num)' = (head + (num + 1)) % MaxSize
    BY <1>4 DEF SendAdvance, After, Slot
  <2>3. tail' = IF tail + 1 < MaxSize THEN tail + 1 ELSE tail + 1 - MaxSize
    BY <1>0, <1>2, <2>2
  <2>4. Slot(num)' = IF head + (num + 1) < MaxSize THEN head + (num + 1) ELSE head + (num + 1) - MaxSize
    BY <1>0, <1>2, <2>1, <2>2
  <2> QED BY <1>0, <1>3, <2>1, <2>3, <2>4 DEF Ring
<1>5. ASSUME NEW t \in Threads, ReceiveAdvance(t) PROVE Ring'
  <2>1. num > 0
    BY <1>5 DEF NoOverrun, ReceiveAdvance, Emptying
  <2>2. /\ head' = (head + 1) % MaxSize /\ tail' = tail /\ num' = num - 1
        /\ Slot(num)' = (head' + (num - 1)) % MaxSize
    BY <1>5 DEF ReceiveAdvance, After, Slot
  <2>3. head' = IF head + 1 < MaxSize THEN head + 1 ELSE head + 1 - MaxSize
    BY <1>0, <1>2, <2>2
  <2> DEFINE a == head' + (num - 1)
  <2>4. a \in Nat /\ a < 2 * MaxSize
    BY <1>0, <2>1, <2>3
  <2>5. a % MaxSize = IF a < MaxSize THEN a ELSE a - MaxSize
    <3> HIDE DEF a
    <3> QED BY <1>2, <2>4
  <2>6. Slot(num)' = IF a < MaxSize THEN a ELSE a - MaxSize
    BY <2>2, <2>5
  <2> QED BY <1>0, <1>3, <2>1, <2>2, <2>3, <2>6 DEF Ring
<1>6. CASE Recreate
  <2>1. tail' = 0 /\ Slot(num)' = 0 % MaxSize
    BY <1>6 DEF Recreate, Slot
  <2> QED BY <1>0, <1>2, <2>1 DEF Ring
<1>7. CASE UNCHANGED vars
  BY <1>1, <1>7 DEF vars, ring
<1>8. ASSUME NEW t \in Threads, NEW j \in Duties[t], Call(t, j) PROVE Ring'
  BY <1>1, <1>8 DEF Call, ring
<1>9. ASSUME NEW t \in Threads, TakeMutex(t) PROVE Ring'
  BY <1>1, <1>9 DEF TakeMutex, SendLock, ReceiveLock, PeekLock, CountLock, LimitLock, ring
<1>10. ASSUME NEW t \in Threads, Proceed(t) PROVE Ring'
  BY <1>1, <1>4, <1>5, <1>10
     DEF Proceed, ring, RejectWait, SendWait, SendRefused, SendCopy, SendPost, ReceiveWait, ReceiveRefused,
         ReceiveCopy, ReceivePost, PeekNothing, PeekRead, CountRead, LimitRead, ReadDone
<1> QED BY <1>6, <1>7, <1>8, <1>9, <1>10 DEF Next

(* Only the holder of the mutex touches the ring, so what a thread has copied *)
(* stays true until it lets go.                                               *)
LEMMA CopiedNext == TypeOK /\ Exclusive /\ Copied /\ [Next]_vars => Copied'
<1> SUFFICES ASSUME TypeOK, Exclusive, Copied, [Next]_vars PROVE Copied'
    OBVIOUS
<1> USE DEF Copied, Goto, Return
<1>0. /\ pc \in [Threads -> PC] /\ out \in [Threads -> Message]
      /\ job \in [Threads -> Jobs \cup {NoJob}]
      /\ slots \in [0..MaxSize-1 -> Message] /\ tail \in 0..MaxSize-1
  BY DEF TypeOK
<1>1. ASSUME NEW t \in Threads,
             \A u \in Threads \ {t} : pc'[u] = pc[u] /\ out'[u] = out[u] /\ job'[u] = job[u],
             UNCHANGED <<head, tail, slots>>,
             pc'[t] \notin {"sendAdvance", "receive", "receiveLock", "receiveCopy", "receiveAdvance"}
      PROVE  Copied'
  BY <1>1 DEF Filled, Fetched
<1>2. CASE UNCHANGED vars
  BY <1>2 DEF vars, ring, caller, Filled, Fetched
<1>3. ASSUME NEW t \in Threads, NEW j \in Duties[t], Call(t, j) PROVE Copied'
  <2>1. j.op \in {"send", "receive", "peek", "count", "limit"}
    BY JobFields
  <2> QED BY <1>0, <1>3, <2>1 DEF Call, ring, Filled, Fetched
<1>4. ASSUME NEW t \in Threads, TakeMutex(t) PROVE Copied'
  <2> USE <1>0 DEF ring, caller, Filled, Fetched
  <2>1. CASE SendLock(t)
    BY <2>1 DEF SendLock
  <2>2. CASE ReceiveLock(t)
    BY <2>2 DEF ReceiveLock
  <2>3. CASE PeekLock(t)
    BY <2>3 DEF PeekLock
  <2>4. CASE CountLock(t)
    BY <2>4 DEF CountLock
  <2>5. CASE LimitLock(t)
    BY <2>5 DEF LimitLock
  <2> QED BY <1>4, <2>1, <2>2, <2>3, <2>4, <2>5 DEF TakeMutex
<1>5. ASSUME NEW t \in Threads, Proceed(t) PROVE Copied'
  <2> USE <1>0
  <2>1. CASE RejectWait(t) \/ SendRefused(t) \/ ReceiveRefused(t)
    BY <1>1, <2>1 DEF RejectWait, SendRefused, ReceiveRefused, ring
  <2>2. CASE SendWait(t) \/ ReceiveWait(t)
    <3> USE DEF ring, caller, Filled, Fetched
    <3>1. CASE SendWait(t)
      BY <3>1 DEF SendWait
    <3>2. CASE ReceiveWait(t)
      BY <3>2 DEF ReceiveWait
    <3> QED BY <2>2, <3>1, <3>2
  <2>3. CASE SendCopy(t)
    <3>1. /\ pc[t] = "sendCopy" /\ pc' = [pc EXCEPT ![t] = "sendAdvance"]
          /\ slots' = [slots EXCEPT ![tail] = Overwrite(@, job[t].msg, job[t].size)]
          /\ UNCHANGED <<head, tail, job, out>>
      BY <2>3 DEF SendCopy, caller
    <3>2. \A u \in Threads \ {t} : pc[u] \notin Critical
      BY <3>1 DEF Exclusive, Critical
    <3>3. Filled(t)'
      BY <3>1 DEF Filled, Overwrite
    <3> QED BY <3>1, <3>2, <3>3 DEF Critical
  <2>4. CASE SendAdvance(t) \/ ReceiveAdvance(t)
    <3>1. /\ pc[t] \in Critical /\ UNCHANGED <<slots, job, out>>
          /\ pc' = [pc EXCEPT ![t] = "sendPost"] \/ pc' = [pc EXCEPT ![t] = "receivePost"]
      BY <2>4 DEF SendAdvance, ReceiveAdvance, caller, Critical
    <3>2. \A u \in Threads \ {t} : pc[u] \notin Critical
      BY <3>1 DEF Exclusive
    <3> QED BY <3>1, <3>2 DEF Critical
  <2>5. CASE ReceiveCopy(t)
    BY <2>5 DEF ReceiveCopy, ring, Filled, Fetched
  <2>6. CASE SendPost(t) \/ ReceivePost(t) \/ PeekNothing(t) \/ ReadDone(t)
    BY <1>1, <2>6 DEF SendPost, ReceivePost, PeekNothing, ReadDone, ring
  <2>7. CASE PeekRead(t) \/ CountRead(t) \/ LimitRead(t)
    BY <1>1, <2>7 DEF PeekRead, CountRead, LimitRead, ring
  <2> QED BY <1>5, <2>1, <2>2, <2>3, <2>4, <2>5, <2>6, <2>7 DEF Proceed
<1>6. CASE Recreate
  BY <1>6 DEF Recreate, caller
<1> QED BY <1>2, <1>3, <1>4, <1>5, <1>6 DEF Next

LEMMA PlacedNext == TypeOK /\ Placed /\ [Next]_vars => Placed'
<1> SUFFICES ASSUME TypeOK, Placed, [Next]_vars PROVE Placed'
    OBVIOUS
<1> USE DEF Placed, Goto, Return
<1>0. pc \in [Threads -> PC] /\ job \in [Threads -> Jobs \cup {NoJob}]
  BY DEF TypeOK
<1>1. CASE UNCHANGED vars
  BY <1>1 DEF vars, caller
<1>2. ASSUME NEW t \in Threads, NEW j \in Duties[t], Call(t, j) PROVE Placed'
  BY <1>0, <1>2, JobFields DEF Call
<1>3. ASSUME NEW t \in Threads, TakeMutex(t) PROVE Placed'
  <2>1. /\ job' = job
        /\ \/ pc[t] = "sendLock" /\ pc' = [pc EXCEPT ![t] = "sendCopy"]
           \/ pc[t] = "receiveLock" /\ pc' = [pc EXCEPT ![t] = "receiveCopy"]
           \/ pc[t] = "peek" /\ pc' = [pc EXCEPT ![t] = "peekRead"]
           \/ pc[t] = "count" /\ pc' = [pc EXCEPT ![t] = "countRead"]
           \/ pc[t] = "limit" /\ pc' = [pc EXCEPT ![t] = "limitRead"]
    BY <1>3 DEF TakeMutex, SendLock, ReceiveLock, PeekLock, CountLock, LimitLock, caller
  <2> QED BY <1>0, <2>1
<1>4. ASSUME NEW t \in Threads, Proceed(t) PROVE Placed'
  <2>1. /\ job' = job
        /\ \E at : at \notin {"count", "countRead", "limit", "limitRead"} /\ pc' = [pc EXCEPT ![t] = at]
    <3>1. CASE RejectWait(t) \/ SendWait(t) \/ SendRefused(t) \/ SendCopy(t) \/ SendAdvance(t) \/ SendPost(t)
      BY <3>1 DEF RejectWait, SendWait, SendRefused, SendCopy, SendAdvance, SendPost, caller
    <3>2. CASE ReceiveWait(t) \/ ReceiveRefused(t) \/ ReceiveCopy(t) \/ ReceiveAdvance(t) \/ ReceivePost(t)
      BY <3>2 DEF ReceiveWait, ReceiveRefused, ReceiveCopy, ReceiveAdvance, ReceivePost, caller
    <3>3. CASE PeekNothing(t) \/ PeekRead(t) \/ CountRead(t) \/ LimitRead(t) \/ ReadDone(t)
      BY <3>3 DEF PeekNothing, PeekRead, CountRead, LimitRead, ReadDone, caller
    <3> QED BY <1>4, <3>1, <3>2, <3>3 DEF Proceed
  <2> QED BY <1>0, <2>1
<1>5. CASE Recreate
  BY <1>5 DEF Recreate, caller
<1> QED BY <1>1, <1>2, <1>3, <1>4, <1>5 DEF Next

LEMMA RInvAlways == Spec => []RInv
<1>1. RInv /\ [Next]_vars => RInv'
  <2> SUFFICES ASSUME RInv, [Next]_vars PROVE RInv'
      OBVIOUS
  <2>1. TypeOK /\ NoOverrun
    BY RoomAndMessages DEF RInv, IInv, Typed
  <2>2. IInv'
    BY TypedNext, TokensNext DEF RInv, IInv
  <2> QED BY <2>1, <2>2, ExclusiveNext, RingNext, CopiedNext, PlacedNext DEF RInv
<1> QED BY RInvInit, <1>1, PTL DEF Spec

-----------------------------------------------------------------------------
(* How a step moves what BoundedFifo sees.                                   *)

LEMMA MoveSeen ==
    ASSUME TypeOK, NEW t \in Threads, NEW at, pc' = [pc EXCEPT ![t] = at],
           \A u \in Threads \ {t} : out'[u] = out[u]
    PROVE  /\ phases' = [phases EXCEPT ![t] = Phase(at)]
           /\ buffers' = [buffers EXCEPT ![t] = IF at = "receiveAdvance" THEN Empty ELSE out'[t]]
  BY DEF TypeOK, phases, buffers

LEMMA MessagesStay ==
    ASSUME UNCHANGED <<head, num, slots>>
    PROVE  messages' = messages
  BY DEF messages, Slot

LEMMA MessagesSeq ==
    ASSUME TypeOK, NoOverrun
    PROVE  /\ messages \in Seq(Message) /\ Len(messages) = num
           /\ \A i \in 1..num : messages[i] = slots[Slot(i - 1)] /\ messages[i] \in Message
           /\ num > 0 => Head(messages) = slots[head]
<1>0. /\ num \in 0..MaxSize /\ slots \in [0..MaxSize-1 -> Message]
      /\ MaxSize \in Nat \ {0} /\ head \in 0..MaxSize-1
  BY QueueAssumption DEF TypeOK, NoOverrun
<1>1. \A i \in 1..num : Slot(i - 1) \in 0..MaxSize-1
  BY <1>0, SlotRound
<1>2. \A i \in 1..num : messages[i] = slots[Slot(i - 1)] /\ messages[i] \in Message
  BY <1>0, <1>1 DEF messages
<1>3. messages \in Seq(Message) /\ Len(messages) = num
  <2>1. messages \in [1..num -> Message] /\ num \in Nat
    BY <1>0, <1>2 DEF messages
  <2> QED BY <2>1
<1>4. Slot(0) = head
  BY <1>0, SlotRound
<1>5. num > 0 => Head(messages) = slots[head]
  BY <1>0, <1>2, <1>3, <1>4
<1> QED BY <1>2, <1>3, <1>5

(* A step that moves nobody to another phase is none of BoundedFifo's. *)
LEMMA Stutter ==
    ASSUME TypeOK, NEW t \in Threads, NEW at, pc' = [pc EXCEPT ![t] = at],
           Phase(at) = Phase(pc[t]),
           (IF at = "receiveAdvance" THEN Empty ELSE out'[t]) = buffers[t],
           \A u \in Threads \ {t} : out'[u] = out[u],
           messages' = messages, UNCHANGED <<job, count, ret>>
    PROVE  UNCHANGED Fifo!fvars
<1>1. phases' = phases
  BY MoveSeen DEF phases
<1>2. buffers' = buffers
  <2>1. buffers' = [buffers EXCEPT ![t] = IF at = "receiveAdvance" THEN Empty ELSE out'[t]]
    BY MoveSeen
  <2>2. buffers' = [buffers EXCEPT ![t] = buffers[t]]
    BY <2>1
  <2> QED BY <2>2 DEF buffers
<1> QED BY <1>1, <1>2 DEF Fifo!fvars

LEMMA CallSeen == ASSUME TypeOK, NEW t \in Threads, NEW j \in Duties[t], Call(t, j) PROVE Fifo!Call(t, j)
<1>1. j.op \in {"send", "receive", "peek", "count", "limit"}
  BY JobFields
<1>2. /\ pc[t] = "idle" /\ pc' = [pc EXCEPT ![t] = j.op]
      /\ out' = [out EXCEPT ![t] = Empty] /\ out'[t] = Empty
      /\ \A u \in Threads \ {t} : out'[u] = out[u]
  BY DEF Call, Goto, TypeOK
<1>3. phases' = [phases EXCEPT ![t] = "called"] /\ phases[t] = "idle"
  <2>1. phases' = [phases EXCEPT ![t] = Phase(j.op)]
    BY <1>2, MoveSeen
  <2> QED BY <1>1, <1>2, <2>1 DEF Phase, phases
<1>4. buffers' = [buffers EXCEPT ![t] = Empty]
  <2>1. buffers' = [buffers EXCEPT ![t] = IF j.op = "receiveAdvance" THEN Empty ELSE out'[t]]
    BY <1>2, MoveSeen
  <2> QED BY <1>1, <1>2, <2>1
<1>5. messages' = messages
  BY MessagesStay DEF Call, ring
<1> QED BY <1>3, <1>4, <1>5 DEF Call, Fifo!Call, Fifo!Empty, Empty

(* A call ends: with success when it has taken effect. *)
LEMMA ReturnSeen ==
    ASSUME TypeOK, NEW t \in Threads, NEW rc, Return(t, rc), UNCHANGED <<job, out, count>>,
           pc[t] # "receiveAdvance", messages' = messages
    PROVE  /\ Fifo!Return(t, rc)
           /\ phases[t] = Phase(pc[t])
<1>1. pc' = [pc EXCEPT ![t] = "idle"] /\ ret' = [ret EXCEPT ![t] = rc]
  BY DEF Return, Goto
<1>2. phases' = [phases EXCEPT ![t] = "idle"]
  <2>1. phases' = [phases EXCEPT ![t] = Phase("idle")]
    BY <1>1, MoveSeen
  <2> QED BY <2>1 DEF Phase
<1>3. buffers' = buffers
  <2>1. buffers' = [buffers EXCEPT ![t] = IF "idle" = "receiveAdvance" THEN Empty ELSE out'[t]]
    BY <1>1, MoveSeen
  <2>2. buffers[t] = out'[t]
    BY DEF buffers
  <2> QED BY <2>1, <2>2 DEF buffers
<1> QED BY <1>1, <1>2, <1>3 DEF Fifo!Return, phases

LEMMA SucceedSeen ==
    ASSUME TypeOK, NEW t \in Threads, SendPost(t) \/ ReceivePost(t) \/ ReadDone(t)
    PROVE  Fifo!Succeed(t)
<1>1. /\ Return(t, "SUCCESS") /\ UNCHANGED <<job, out, count, head, num, slots>>
      /\ pc[t] \in {"sendPost", "receivePost", "readDone"}
  BY DEF SendPost, ReceivePost, ReadDone, ring
<1>2. messages' = messages
  BY <1>1, MessagesStay
<1>3. Fifo!Return(t, "SUCCESS") /\ phases[t] = Phase(pc[t])
  BY <1>1, <1>2, ReturnSeen
<1> QED BY <1>1, <1>3 DEF Fifo!Succeed, Phase

LEMMA RejectSeen ==
    ASSUME RInv, NEW t \in Threads, RejectWait(t)
    PROVE  Fifo!Reject(t)
<1>1. TypeOK /\ JobFits
  BY DEF RInv, IInv, Typed
<1>2. /\ Return(t, "WRONG_PARAM") /\ UNCHANGED <<job, out, count, head, num, slots>>
      /\ pc[t] \in {"send", "receive"} /\ job[t].wait \notin {"forever", "nowait"}
  BY DEF RejectWait, ring
<1>3. messages' = messages
  BY <1>2, MessagesStay
<1>4. Fifo!Return(t, "WRONG_PARAM") /\ phases[t] = Phase(pc[t])
  BY <1>1, <1>2, <1>3, ReturnSeen
<1>5. job[t].op \in {"send", "receive"}
  BY <1>1, <1>2 DEF JobFits, Sends, Receives
<1> QED BY <1>2, <1>4, <1>5 DEF Fifo!Reject, Phase

(* A semaphore is at 0 only if the queue is full or empty or some other      *)
(* thread has the token.                                                     *)
LEMMA RefuseSeen ==
    ASSUME RInv, NEW t \in Threads, SendRefused(t) \/ ReceiveRefused(t) \/ PeekNothing(t)
    PROVE  Fifo!Refuse(t)
<1>1. TypeOK /\ JobFits /\ Tokens /\ NoOverrun
  BY RoomAndMessages DEF RInv, IInv, Typed
<1>2. /\ Return(t, "FAILED") /\ UNCHANGED <<job, out, count, head, num, slots>>
      /\ pc[t] \in {"send", "receive", "peekRead"}
  BY DEF SendRefused, ReceiveRefused, PeekNothing, ring
<1>3. messages' = messages
  BY <1>2, MessagesStay
<1>4. Fifo!Return(t, "FAILED") /\ phases[t] = "called"
  <2>1. Fifo!Return(t, "FAILED") /\ phases[t] = Phase(pc[t])
    BY <1>1, <1>2, <1>3, ReturnSeen
  <2> QED BY <1>2, <2>1 DEF Phase
<1>5. Len(messages) = num
  BY <1>1, MessagesSeq
<1>6. ASSUME NEW P, Held(P) # 0, pc[t] \notin P, "idle" \notin P PROVE Fifo!Busy(t)
  <2>1. PICK u \in Threads : pc[u] \in P
    BY <1>6, FS_EmptySet DEF Held, At
  <2>2. u # t /\ phases[u] # "idle"
    BY <1>6, <2>1 DEF phases, Phase
  <2> QED BY <2>2 DEF Fifo!Busy
<1>7. /\ Held({"sendPost"}) \in Nat /\ Held({"receivePost"}) \in Nat
      /\ Held(Filling) \in Nat /\ Held(Emptying) \in Nat
      /\ num \in Int /\ MaxSize \in Nat
      /\ num = rx + Held({"sendPost"}) + Held(Emptying)
      /\ MaxSize = num + tx + Held({"receivePost"}) + Held(Filling)
  BY <1>1, HeldFinite, QueueAssumption DEF Tokens, TypeOK
<1>8. Fifo!MayRefuse(t)
  <2>1. CASE SendRefused(t)
    <3>1. pc[t] = "send" /\ job[t].wait = "nowait" /\ tx = 0 /\ job[t].op = "send"
      BY <1>1, <2>1 DEF SendRefused, JobFits, Sends
    <3>2. CASE num = MaxSize
      BY <1>5, <3>1, <3>2 DEF Fifo!MayRefuse
    <3>3. CASE num # MaxSize
      <4>1. Held({"receivePost"}) # 0 \/ Held(Filling) # 0
        BY <1>7, <3>1, <3>3
      <4>2. Fifo!Busy(t)
        BY <1>6, <3>1, <4>1 DEF Filling
      <4> QED BY <3>1, <4>2 DEF Fifo!MayRefuse
    <3> QED BY <3>2, <3>3
  <2>2. CASE ReceiveRefused(t)
    <3>1. pc[t] = "receive" /\ job[t].wait = "nowait" /\ rx = 0 /\ job[t].op = "receive"
      BY <1>1, <2>2 DEF ReceiveRefused, JobFits, Receives
    <3>2. CASE num = 0
      BY <1>5, <3>1, <3>2 DEF Fifo!MayRefuse
    <3>3. CASE num # 0
      <4>1. Held({"sendPost"}) # 0 \/ Held(Emptying) # 0
        BY <1>7, <3>1, <3>3
      <4>2. Fifo!Busy(t)
        BY <1>6, <3>1, <4>1 DEF Emptying
      <4> QED BY <3>1, <4>2 DEF Fifo!MayRefuse
    <3> QED BY <3>2, <3>3
  <2>3. CASE PeekNothing(t)
    <3>1. job[t] \in Peeks /\ ~ Reaches(job[t].offset)
      BY <1>1, <2>3 DEF PeekNothing, JobFits
    <3>2. job[t].op = "peek" /\ num <= job[t].offset
      BY <1>1, <3>1 DEF Peeks, Reaches, NoOverrun
    <3> QED BY <1>5, <3>2 DEF Fifo!MayRefuse
  <2> QED BY <2>1, <2>2, <2>3
<1> QED BY <1>4, <1>8 DEF Fifo!Refuse

(* A step between the first and the effect of a call is not seen. *)
LEMMA UnseenSteps ==
    ASSUME RInv, NEW t \in Threads,
           TakeMutex(t) \/ SendWait(t) \/ SendCopy(t) \/ ReceiveWait(t) \/ ReceiveCopy(t)
    PROVE  UNCHANGED Fifo!fvars
<1>1. TypeOK /\ NoOverrun /\ Ring /\ Copied
  BY RoomAndMessages DEF RInv, IInv, Typed
<1>2. CASE TakeMutex(t) \/ SendWait(t) \/ ReceiveWait(t)
  <2>1. /\ UNCHANGED <<head, num, slots, job, out, count, ret>>
        /\ \/ pc[t] = "sendLock" /\ Goto(t, "sendCopy")
           \/ pc[t] = "receiveLock" /\ Goto(t, "receiveCopy")
           \/ pc[t] = "peek" /\ Goto(t, "peekRead")
           \/ pc[t] = "count" /\ Goto(t, "countRead")
           \/ pc[t] = "limit" /\ Goto(t, "limitRead")
           \/ pc[t] = "send" /\ Goto(t, "sendLock")
           \/ pc[t] = "receive" /\ Goto(t, "receiveLock")
    BY <1>2 DEF TakeMutex, SendLock, ReceiveLock, PeekLock, CountLock, LimitLock, SendWait, ReceiveWait,
                ring, caller
  <2>2. PICK at : /\ pc' = [pc EXCEPT ![t] = at] /\ Phase(at) = Phase(pc[t])
                  /\ at # "receiveAdvance" /\ pc[t] # "receiveAdvance"
    BY <2>1 DEF Goto, Phase
  <2>3. messages' = messages
    BY <2>1, MessagesStay
  <2>4. (IF at = "receiveAdvance" THEN Empty ELSE out'[t]) = buffers[t]
    BY <2>1, <2>2 DEF buffers
  <2> QED BY <1>1, <2>1, <2>2, <2>3, <2>4, Stutter
<1>3. CASE SendCopy(t)
  <2>1. /\ pc[t] = "sendCopy" /\ pc' = [pc EXCEPT ![t] = "sendAdvance"]
        /\ slots' = [slots EXCEPT ![tail] = Overwrite(@, job[t].msg, job[t].size)]
        /\ UNCHANGED <<head, num, job, out, count, ret>>
    BY <1>3 DEF SendCopy, Goto, caller
  <2>2. num < MaxSize /\ num \in Nat /\ MaxSize \in Nat
    BY <1>1, <2>1, QueueAssumption DEF NoOverrun, Filling
  <2>3. \A i \in 1..num : Slot(i - 1) # tail /\ Slot(i - 1)' = Slot(i - 1) /\ Slot(i - 1) \in 0..MaxSize-1
    <3>1. ASSUME NEW i \in 1..num
          PROVE  i - 1 \in 0..MaxSize /\ num \in 0..MaxSize /\ i - 1 < num /\ num - (i - 1) < MaxSize + 1
      BY <2>2
    <3>2. ASSUME NEW i \in 1..num PROVE Slot(i - 1) # Slot(num)
      <4>1. num - (i - 1) < MaxSize
        BY <2>2
      <4> QED BY <1>1, <3>1, <4>1, SlotsApart
    <3>3. ASSUME NEW i \in 1..num PROVE Slot(i - 1) \in 0..MaxSize-1
      BY <1>1, <3>1, SlotRound
    <3> QED BY <1>1, <2>1, <3>2, <3>3 DEF Ring, Slot
  <2>4. messages' = messages
    BY <1>1, <2>1, <2>3 DEF messages, TypeOK
  <2>5. (IF "sendAdvance" = "receiveAdvance" THEN Empty ELSE out'[t]) = buffers[t]
    BY <2>1 DEF buffers
  <2>6. Phase("sendAdvance") = Phase(pc[t])
    BY <2>1 DEF Phase
  <2> QED BY <1>1, <2>1, <2>4, <2>5, <2>6, Stutter
<1>4. CASE ReceiveCopy(t)
  <2>1. /\ pc[t] = "receiveCopy" /\ pc' = [pc EXCEPT ![t] = "receiveAdvance"]
        /\ out' = [out EXCEPT ![t] = FirstCells(slots[head], job[t].size)]
        /\ UNCHANGED <<head, num, slots, job, count, ret>>
    BY <1>4 DEF ReceiveCopy, Goto, ring
  <2>2. Empty = buffers[t]
    BY <1>1, <2>1 DEF buffers, Copied
  <2>3. messages' = messages
    BY <2>1, MessagesStay
  <2>4. Phase("receiveAdvance") = Phase(pc[t])
    BY <2>1 DEF Phase
  <2>5. \A u \in Threads \ {t} : out'[u] = out[u]
    BY <1>1, <2>1 DEF TypeOK
  <2> QED BY <1>1, <2>1, <2>2, <2>3, <2>4, <2>5, Stutter
<1> QED BY <1>2, <1>3, <1>4

(* The update of uiTail puts the filled slot behind the messages. *)
LEMMA PutSeen == ASSUME RInv, NEW t \in Threads, SendAdvance(t) PROVE Fifo!Put(t)
<1>1. TypeOK /\ JobFits /\ NoOverrun /\ Ring /\ Copied
  BY RoomAndMessages DEF RInv, IInv, Typed
<1>2. /\ pc[t] = "sendAdvance" /\ pc' = [pc EXCEPT ![t] = "sendPost"]
      /\ num' = num + 1 /\ UNCHANGED <<head, slots, job, out, count, ret>>
  BY DEF SendAdvance, Goto, caller
<1>3. num < MaxSize /\ num \in Nat /\ Len(messages) = num /\ messages \in Seq(Message)
  BY <1>1, <1>2, MessagesSeq DEF NoOverrun, Filling
<1>4. job[t].op = "send"
  BY <1>1, <1>2 DEF JobFits, Sends, Filling
<1>5. phases' = [phases EXCEPT ![t] = "done"] /\ phases[t] = "called"
  <2>1. phases' = [phases EXCEPT ![t] = Phase("sendPost")]
    BY <1>1, <1>2, MoveSeen
  <2> QED BY <1>2, <2>1 DEF Phase, phases
<1>6. buffers' = buffers
  <2>1. buffers' = [buffers EXCEPT ![t] = IF "sendPost" = "receiveAdvance" THEN Empty ELSE out'[t]]
    BY <1>1, <1>2, MoveSeen
  <2>2. buffers[t] = out'[t]
    BY <1>2 DEF buffers
  <2> QED BY <2>1, <2>2 DEF buffers
<1>7. slots[tail] \in Message /\ \A k \in 1..MsgSize : k <= job[t].size => slots[tail][k] = job[t].msg
  BY <1>1, <1>2 DEF TypeOK, Copied, Filled
<1>8. messages' = Append(messages, slots[tail])
  <2>1. messages' = [i \in 1..(num + 1) |-> slots[Slot(i - 1)]]
    BY <1>2 DEF messages, Slot
  <2>2. Append(messages, slots[tail]) \in Seq(Message) /\ Len(Append(messages, slots[tail])) = num + 1
    BY <1>3, <1>7
  <2>3. \A i \in 1..(num + 1) : Append(messages, slots[tail])[i] = slots[Slot(i - 1)]
    <3>1. ASSUME NEW i \in 1..num PROVE Append(messages, slots[tail])[i] = slots[Slot(i - 1)]
      BY <1>3, <1>7 DEF messages
    <3>2. Append(messages, slots[tail])[num + 1] = slots[Slot(num)]
      BY <1>1, <1>3, <1>7 DEF Ring
    <3> QED BY <1>3, <3>1, <3>2
  <2> QED BY <1>3, <2>1, <2>2, <2>3
<1>9. Fifo!Effect(t, "send")
  BY <1>2, <1>4, <1>5 DEF Fifo!Effect
<1>10. slots[tail] \in Fifo!Message
  BY <1>7 DEF Fifo!Message, Fifo!Cell, Message, Cell
<1> QED BY <1>2, <1>3, <1>6, <1>7, <1>8, <1>9, <1>10 DEF Fifo!Put

(* The update of uiHead takes the first message away. *)
LEMMA TakeSeen == ASSUME RInv, NEW t \in Threads, ReceiveAdvance(t) PROVE Fifo!Take(t)
<1>1. TypeOK /\ JobFits /\ NoOverrun /\ Copied
  BY RoomAndMessages DEF RInv, IInv, Typed
<1>2. /\ pc[t] = "receiveAdvance" /\ pc' = [pc EXCEPT ![t] = "receivePost"]
      /\ head' = After(head) /\ num' = num - 1 /\ UNCHANGED <<slots, job, out, count, ret>>
  BY DEF ReceiveAdvance, Goto, caller
<1>3. /\ num \in 0..MaxSize /\ num > 0 /\ MaxSize \in Nat \ {0} /\ head \in 0..MaxSize-1
      /\ Len(messages) = num /\ messages \in Seq(Message) /\ Head(messages) = slots[head]
  BY <1>1, <1>2, MessagesSeq, QueueAssumption DEF NoOverrun, Emptying, TypeOK
<1>4. job[t].op = "receive"
  BY <1>1, <1>2 DEF JobFits, Receives, Emptying
<1>5. phases' = [phases EXCEPT ![t] = "done"] /\ phases[t] = "called"
  <2>1. phases' = [phases EXCEPT ![t] = Phase("receivePost")]
    BY <1>1, <1>2, MoveSeen
  <2> QED BY <1>2, <2>1 DEF Phase, phases
<1>6. buffers' = [buffers EXCEPT ![t] = Fifo!FirstCells(Head(messages), job[t].size)]
  <2>1. buffers' = [buffers EXCEPT ![t] = IF "receivePost" = "receiveAdvance" THEN Empty ELSE out'[t]]
    BY <1>1, <1>2, MoveSeen
  <2>2. out'[t] = Fifo!FirstCells(Head(messages), job[t].size)
    BY <1>1, <1>2, <1>3 DEF Copied, Fetched, FirstCells, Fifo!FirstCells
  <2> QED BY <2>1, <2>2
<1>7. messages' = Tail(messages)
  <2>1. \A i \in 1..(num - 1) : Slot(i - 1)' = Slot(i)
    <3>1. head' = IF head + 1 < MaxSize THEN head + 1 ELSE head + 1 - MaxSize
      <4>1. \A a \in Nat : a < 2 * MaxSize => a % MaxSize = IF a < MaxSize THEN a ELSE a - MaxSize
        BY <1>3, Round
      <4>2. head' = (head + 1) % MaxSize /\ MaxSize \in Nat \ {0} /\ head \in 0..MaxSize-1
        BY <1>2, <1>3 DEF After
      <4> QED BY <4>1, <4>2
    <3>2. ASSUME NEW i \in 1..(num - 1) PROVE Slot(i - 1)' = Slot(i)
      <4> DEFINE a == head' + (i - 1)
      <4>1. a \in Nat /\ a < 2 * MaxSize
        BY <1>3, <3>1
      <4>2. a % MaxSize = IF a < MaxSize THEN a ELSE a - MaxSize
        <5> HIDE DEF a
        <5> QED BY <1>3, <4>1, Round
      <4>3. Slot(i) = IF head + i < MaxSize THEN head + i ELSE head + i - MaxSize
        <5>1. i \in 0..MaxSize
          BY <1>1, <1>3
        <5> HIDE DEF a
        <5> QED BY <1>1, <5>1, SlotRound
      <4>4. Slot(i - 1)' = a % MaxSize
        BY DEF Slot
      <4>5. MaxSize \in Nat \ {0} /\ head \in 0..MaxSize-1 /\ i \in Nat \ {0}
        BY <1>3
      <4>6. Slot(i - 1)' = IF a < MaxSize THEN a ELSE a - MaxSize
        BY <4>2, <4>4, Zenon
      <4> QED BY <1>3, <3>1, <4>3, <4>5, <4>6
    <3> QED BY <3>2
  <2>2. messages' = [i \in 1..(num - 1) |-> slots[Slot(i)]]
    BY <1>2, <2>1 DEF messages
  <2>3. /\ Tail(messages) \in Seq(Message) /\ Len(Tail(messages)) = num - 1
        /\ \A i \in 1..(num - 1) : Tail(messages)[i] = messages[i + 1]
    BY <1>3
  <2>4. \A i \in 1..(num - 1) : messages[i + 1] = slots[Slot(i)]
    BY <1>3 DEF messages
  <2>5. Tail(messages) = [i \in 1..(num - 1) |-> slots[Slot(i)]]
    <3>1. Tail(messages) \in [1..Len(Tail(messages)) -> Message]
      BY <2>3, LenProperties
    <3> QED BY <2>3, <2>4, <3>1
  <2> QED BY <2>2, <2>5
<1>8. Fifo!Effect(t, "receive")
  BY <1>2, <1>4, <1>5 DEF Fifo!Effect
<1> QED BY <1>2, <1>3, <1>6, <1>7, <1>8 DEF Fifo!Take

(* Peek, GetNumMsgs and LimitGet take effect where they read. *)
LEMMA ReadSeen ==
    ASSUME RInv, NEW t \in Threads, PeekRead(t) \/ CountRead(t) \/ LimitRead(t)
    PROVE  Fifo!Look(t) \/ Fifo!Count(t) \/ Fifo!Limit(t)
<1>1. TypeOK /\ JobFits /\ NoOverrun /\ Placed
  BY RoomAndMessages DEF RInv, IInv, Typed
<1>2. /\ pc[t] \in {"peekRead", "countRead", "limitRead"} /\ pc' = [pc EXCEPT ![t] = "readDone"]
      /\ UNCHANGED <<head, num, slots, job, ret>>
      /\ \A u \in Threads \ {t} : out'[u] = out[u]
  BY <1>1 DEF PeekRead, CountRead, LimitRead, Goto, ring, TypeOK
<1>3. phases' = [phases EXCEPT ![t] = "done"] /\ phases[t] = "called"
  <2>1. phases' = [phases EXCEPT ![t] = Phase("readDone")]
    BY <1>1, <1>2, MoveSeen
  <2> QED BY <1>2, <2>1 DEF Phase, phases
<1>4. messages' = messages
  BY <1>2, MessagesStay
<1>5. /\ Len(messages) = num /\ num \in Nat
      /\ \A i \in 1..num : messages[i] = slots[Slot(i - 1)]
  BY <1>1, MessagesSeq DEF NoOverrun
<1>6. buffers' = [buffers EXCEPT ![t] = out'[t]]
  <2>1. buffers' = [buffers EXCEPT ![t] = IF "readDone" = "receiveAdvance" THEN Empty ELSE out'[t]]
    BY <1>1, <1>2, MoveSeen
  <2> QED BY <2>1
<1>7. ASSUME out' = out PROVE buffers' = buffers
  <2>1. buffers[t] = out'[t]
    BY <1>2, <1>7 DEF buffers
  <2> QED BY <1>6, <2>1 DEF buffers
<1>8. CASE PeekRead(t)
  <2>1. /\ pc[t] = "peekRead" /\ Reaches(job[t].offset) /\ UNCHANGED count
        /\ out'[t] = FirstCells(slots[Slot(job[t].offset)], job[t].size)
    BY <1>1, <1>8 DEF PeekRead, TypeOK
  <2>2. job[t].op = "peek" /\ job[t].offset \in Nat
    BY <1>1, <2>1 DEF JobFits, Peeks
  <2>3. job[t].offset < num /\ messages[job[t].offset + 1] = slots[Slot(job[t].offset)]
    BY <1>5, <2>1, <2>2 DEF Reaches
  <2>4. buffers' = [buffers EXCEPT ![t] = Fifo!FirstCells(messages[job[t].offset + 1], job[t].size)]
    BY <1>6, <2>1, <2>3 DEF FirstCells, Fifo!FirstCells
  <2> QED BY <1>2, <1>3, <1>4, <1>5, <2>1, <2>2, <2>3, <2>4 DEF Fifo!Look, Fifo!Effect
<1>9. CASE CountRead(t)
  BY <1>1, <1>2, <1>3, <1>4, <1>5, <1>7, <1>9 DEF CountRead, Placed, Fifo!Count, Fifo!Effect
<1>10. CASE LimitRead(t)
  BY <1>1, <1>2, <1>3, <1>4, <1>5, <1>7, <1>10 DEF LimitRead, Placed, Fifo!Limit, Fifo!Effect
<1> QED BY <1>8, <1>9, <1>10

LEMMA RenewSeen == ASSUME TypeOK, Recreate PROVE Fifo!Renew
<1>1. /\ UNCHANGED <<pc, job, out, count, ret>> /\ num' = 0
      /\ \A t \in Threads : pc[t] = "idle"
  BY DEF Recreate, caller
<1>2. \A t \in Threads : phases[t] = "idle"
  BY <1>1 DEF phases, Phase
<1>3. messages' = <<>>
  BY <1>1 DEF messages
<1>4. phases' = phases /\ buffers' = buffers
  BY <1>1 DEF phases, buffers
<1> QED BY <1>1, <1>2, <1>3, <1>4 DEF Fifo!Renew

(* Every step is one of BoundedFifo's or is not seen. *)
LEMMA StepSeen == RInv /\ [Next]_vars => [Fifo!Next]_(Fifo!fvars)
<1> SUFFICES ASSUME RInv, [Next]_vars PROVE [Fifo!Next]_(Fifo!fvars)
    OBVIOUS
<1>0. TypeOK
  BY DEF RInv, IInv, Typed
<1>1. CASE UNCHANGED vars
  <2>1. UNCHANGED <<head, num, slots, pc, job, out, count, ret>>
    BY <1>1 DEF vars, ring, caller
  <2>2. messages' = messages /\ phases' = phases /\ buffers' = buffers
    BY <2>1, MessagesStay DEF phases, buffers
  <2> QED BY <2>1, <2>2 DEF Fifo!fvars
<1>2. ASSUME NEW t \in Threads, NEW j \in Duties[t], Call(t, j) PROVE Fifo!Next
  <2>1. j \in Jobs
    BY JobFields
  <2> QED BY <1>0, <1>2, <2>1, CallSeen DEF Fifo!Next
<1>3. ASSUME NEW t \in Threads, TakeMutex(t) PROVE UNCHANGED Fifo!fvars
  BY <1>3, UnseenSteps
<1>4. ASSUME NEW t \in Threads, Proceed(t) PROVE [Fifo!Next]_(Fifo!fvars)
  <2>1. CASE SendWait(t) \/ SendCopy(t) \/ ReceiveWait(t) \/ ReceiveCopy(t)
    BY <2>1, UnseenSteps
  <2>2. CASE RejectWait(t)
    BY <2>2, RejectSeen DEF Fifo!Next
  <2>3. CASE SendRefused(t) \/ ReceiveRefused(t) \/ PeekNothing(t)
    BY <2>3, RefuseSeen DEF Fifo!Next
  <2>4. CASE SendAdvance(t)
    BY <2>4, PutSeen DEF Fifo!Next
  <2>5. CASE ReceiveAdvance(t)
    BY <2>5, TakeSeen DEF Fifo!Next
  <2>6. CASE PeekRead(t) \/ CountRead(t) \/ LimitRead(t)
    BY <2>6, ReadSeen DEF Fifo!Next
  <2>7. CASE SendPost(t) \/ ReceivePost(t) \/ ReadDone(t)
    BY <1>0, <2>7, SucceedSeen DEF Fifo!Next
  <2> QED BY <1>4, <2>1, <2>2, <2>3, <2>4, <2>5, <2>6, <2>7 DEF Proceed
<1>5. CASE Recreate
  BY <1>0, <1>5, RenewSeen DEF Fifo!Next
<1> QED BY <1>1, <1>2, <1>3, <1>4, <1>5 DEF Next

(* The ring with its semaphores and its mutex is a bounded FIFO queue: every *)
(* call takes effect once, at one instant, messages leave in the order in    *)
(* which they came, and a call that does not wait is refused only when the   *)
(* queue is full or empty or another call is in progress                     *)
(* (RobotMsgQueue.c:27-185).                                                 *)
THEOREM QueueIsFifo == Spec => ImplementsFifo
<1>1. Init => Fifo!Init
  <2> SUFFICES ASSUME Init PROVE Fifo!Init
      OBVIOUS
  <2>1. phases = [t \in Threads |-> "idle"]
    BY DEF Init, phases, Phase
  <2>2. messages = <<>>
    BY DEF Init, messages
  <2>3. buffers = [t \in Threads |-> Fifo!Empty]
    BY DEF Init, buffers, Empty, Fifo!Empty
  <2> QED BY <2>1, <2>2, <2>3 DEF Init, NoJob, Fifo!Init
<1> QED BY RInvAlways, StepSeen, <1>1, PTL DEF Spec, ImplementsFifo, Fifo!Spec

(* One thread at a time is between lock and unlock (RobotMsgQueue.c:58-60,   *)
(* 71-80, 107-113, 141-147, 180-182).                                        *)
THEOREM MutualExclusion ==
    Spec => [](\A t, u \in Threads : pc[t] \in Critical /\ pc[u] \in Critical => t = u)
<1>1. RInv => \A t, u \in Threads : pc[t] \in Critical /\ pc[u] \in Critical => t = u
  BY DEF RInv, Exclusive
<1> QED BY RInvAlways, <1>1, PTL
=============================================================================
