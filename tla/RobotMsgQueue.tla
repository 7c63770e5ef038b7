---------------------------- MODULE RobotMsgQueue ----------------------------
(***************************************************************************)
(* The message queue of src/utils/RobotMsgQueue.c: a ring of slots under a *)
(* mutex, a semaphore that counts free slots and one that counts messages. *)
(* Each thread is inside at most one call; a step is what a thread does    *)
(* between two points where another thread can get in: taking a semaphore  *)
(* or the mutex, the copy, the update of the indices, posting a semaphore. *)
(*                                                                         *)
(* Offsets count slots, not bytes: uiHead and uiTail are always multiples  *)
(* of uiMsgSize, and uiBufSize is uiMsgSize * uiMaxSize.  A message is     *)
(* MsgSize cells, so that a copy of fewer cells than a slot holds shows.   *)
(***************************************************************************)
EXTENDS Integers, Sequences, FiniteSets

CONSTANTS
    Threads,   \* the threads that use the queue
    Nobody,    \* nobody holds the mutex
    MaxSize,   \* uiMaxSize, iQueueSize
    MsgSize,   \* uiMsgSize, iMessageSize
    Msgs,      \* what a sender writes in a cell
    Blank,     \* zeroed memory
    Duties     \* thread -> the calls it makes

Sends    == [op : {"send"}, msg : Msgs, size : Nat, wait : {"forever", "nowait", "other"}]
Receives == [op : {"receive"}, size : Nat, wait : {"forever", "nowait", "other"}]
Peeks    == [op : {"peek"}, size : Nat, offset : Nat]
Counts   == [op : {"count"}]
Limits   == [op : {"limit"}]
NoJob    == [op |-> "none"]

ASSUME QueueAssumption ==
    /\ IsFiniteSet(Threads) /\ Nobody \notin Threads
    /\ MaxSize \in Nat \ {0} /\ MsgSize \in Nat \ {0}
    /\ Duties \in [Threads -> SUBSET (Sends \cup Receives \cup Peeks \cup Counts \cup Limits)]

VARIABLES
    tx, rx,       \* the values of tx_sema and rx_sema
    mutex,        \* who holds the mutex
    head, tail,   \* uiHead, uiTail, in slots
    num,          \* uiMsgNum
    slots,        \* pcBuf
    pc, job,      \* thread -> where it is, in which call
    out, count,   \* thread -> the buffer and the number its call fills
    ret           \* thread -> what its last call returned

ring   == <<head, tail, num, slots>>
caller == <<job, out, count, ret>>
vars   == <<tx, rx, mutex, ring, pc, caller>>

-----------------------------------------------------------------------------
Cell    == Msgs \cup {Blank}
Message == [1..MsgSize -> Cell]
Empty   == [k \in 1..MsgSize |-> Blank]

Jobs == UNION {Duties[t] : t \in Threads}

(* memcpy of min(n, MsgSize) cells: into a slot, and out of one. *)
Overwrite(slot, msg, n) == [k \in 1..MsgSize |-> IF k <= n THEN msg ELSE slot[k]]
FirstCells(slot, n)     == [k \in 1..MsgSize |-> IF k <= n THEN slot[k] ELSE Blank]

(* The slot of the message k places behind the first, and the slot behind s. *)
Slot(k) == (head + k) % MaxSize

After_NoWrap(s) == s + 1      \* mutant: the offset is not taken modulo uiBufSize
After(s) == (s + 1) % MaxSize

(* RobotMessageQueueCreate: sem_init of both semaphores. *)
Semaphores_OneMore == tx = MaxSize + 1 /\ rx = 0      \* mutant: room for one too many
Semaphores == tx = MaxSize /\ rx = 0

(* RobotMessageQueueCreate: pcBuf is zeroed. *)
Cleared == [s \in 0..MaxSize-1 |-> Empty]

Init ==
    /\ Semaphores
    /\ mutex = Nobody
    /\ head = 0 /\ tail = 0 /\ num = 0
    /\ slots = Cleared
    /\ pc = [t \in Threads |-> "idle"]
    /\ job = [t \in Threads |-> NoJob]
    /\ out = [t \in Threads |-> Empty]
    /\ count = [t \in Threads |-> 0]
    /\ ret = [t \in Threads |-> "none"]

Goto(t, at) == pc' = [pc EXCEPT ![t] = at]

Return(t, rc) ==
    /\ Goto(t, "idle")
    /\ ret' = [ret EXCEPT ![t] = rc]

(* A thread calls the queue.  *)
Call(t, j) ==
    /\ pc[t] = "idle"
    /\ Goto(t, j.op)
    /\ job' = [job EXCEPT ![t] = j]
    /\ out' = [out EXCEPT ![t] = Empty]
    /\ count' = [count EXCEPT ![t] = 0]
    /\ ret' = [ret EXCEPT ![t] = "none"]
    /\ UNCHANGED <<tx, rx, mutex, ring>>

(* A wait that is neither WAIT_FOREVER nor NO_WAIT. *)
RejectWait(t) ==
    /\ pc[t] \in {"send", "receive"}
    /\ job[t].wait \notin {"forever", "nowait"}
    /\ Return(t, "WRONG_PARAM")
    /\ UNCHANGED <<tx, rx, mutex, ring, job, out, count>>

(* sem_wait or sem_trywait; a sem_wait that a signal interrupts starts over  *)
(* and is no step.                                                           *)
SendWait(t) ==
    /\ pc[t] = "send" /\ job[t].wait \in {"forever", "nowait"}
    /\ tx > 0
    /\ tx' = tx - 1
    /\ Goto(t, "sendLock")
    /\ UNCHANGED <<rx, mutex, ring, caller>>

SendRefused(t) ==
    /\ pc[t] = "send" /\ job[t].wait = "nowait"
    /\ tx = 0
    /\ Return(t, "FAILED")
    /\ UNCHANGED <<tx, rx, mutex, ring, job, out, count>>

SendLock_NoMutex(t) ==      \* mutant: the copy is not under the mutex
    /\ pc[t] = "sendLock"
    /\ Goto(t, "sendCopy")
    /\ UNCHANGED <<tx, rx, mutex, ring, caller>>

SendLock(t) ==
    /\ pc[t] = "sendLock" /\ mutex = Nobody
    /\ mutex' = t
    /\ Goto(t, "sendCopy")
    /\ UNCHANGED <<tx, rx, ring, caller>>

SendCopy(t) ==
    /\ pc[t] = "sendCopy"
    /\ slots' = [slots EXCEPT ![tail] = Overwrite(@, job[t].msg, job[t].size)]
    /\ Goto(t, "sendAdvance")
    /\ UNCHANGED <<tx, rx, mutex, head, tail, num, caller>>

SendAdvance_NoUnlock(t) ==      \* mutant: the mutex stays locked
    /\ pc[t] = "sendAdvance"
    /\ tail' = After(tail)
    /\ num' = num + 1
    /\ Goto(t, "sendPost")
    /\ UNCHANGED <<tx, rx, mutex, head, slots, caller>>

(* uiTail moves on, uiMsgNum grows, the mutex is released. *)
SendAdvance(t) ==
    /\ pc[t] = "sendAdvance"
    /\ tail' = After(tail)
    /\ num' = num + 1
    /\ mutex' = Nobody
    /\ Goto(t, "sendPost")
    /\ UNCHANGED <<tx, rx, head, slots, caller>>

SendPost_Lost(t) ==      \* mutant: no sem_post
    /\ pc[t] = "sendPost"
    /\ Return(t, "SUCCESS")
    /\ UNCHANGED <<tx, rx, mutex, ring, job, out, count>>

SendPost(t) ==
    /\ pc[t] = "sendPost"
    /\ rx' = rx + 1
    /\ Return(t, "SUCCESS")
    /\ UNCHANGED <<tx, mutex, ring, job, out, count>>

-----------------------------------------------------------------------------
ReceiveWait(t) ==
    /\ pc[t] = "receive" /\ job[t].wait \in {"forever", "nowait"}
    /\ rx > 0
    /\ rx' = rx - 1
    /\ Goto(t, "receiveLock")
    /\ UNCHANGED <<tx, mutex, ring, caller>>

ReceiveRefused(t) ==
    /\ pc[t] = "receive" /\ job[t].wait = "nowait"
    /\ rx = 0
    /\ Return(t, "FAILED")
    /\ UNCHANGED <<tx, rx, mutex, ring, job, out, count>>

ReceiveLock(t) ==
    /\ pc[t] = "receiveLock" /\ mutex = Nobody
    /\ mutex' = t
    /\ Goto(t, "receiveCopy")
    /\ UNCHANGED <<tx, rx, ring, caller>>

ReceiveCopy(t) ==
    /\ pc[t] = "receiveCopy"
    /\ out' = [out EXCEPT ![t] = FirstCells(slots[head], job[t].size)]
    /\ Goto(t, "receiveAdvance")
    /\ UNCHANGED <<tx, rx, mutex, ring, job, count, ret>>

(* uiHead moves on, uiMsgNum shrinks, the mutex is released. *)
ReceiveAdvance(t) ==
    /\ pc[t] = "receiveAdvance"
    /\ head' = After(head)
    /\ num' = num - 1
    /\ mutex' = Nobody
    /\ Goto(t, "receivePost")
    /\ UNCHANGED <<tx, rx, tail, slots, caller>>

ReceivePost(t) ==
    /\ pc[t] = "receivePost"
    /\ tx' = tx + 1
    /\ Return(t, "SUCCESS")
    /\ UNCHANGED <<rx, mutex, ring, job, out, count>>

-----------------------------------------------------------------------------
PeekLock(t) ==
    /\ pc[t] = "peek" /\ mutex = Nobody
    /\ mutex' = t
    /\ Goto(t, "peekRead")
    /\ UNCHANGED <<tx, rx, ring, caller>>

Reaches(offset) == num > 0 /\ num - 1 >= offset

PeekNothing(t) ==
    /\ pc[t] = "peekRead"
    /\ ~Reaches(job[t].offset)
    /\ mutex' = Nobody
    /\ Return(t, "FAILED")
    /\ UNCHANGED <<tx, rx, ring, job, out, count>>

PeekRead(t) ==
    /\ pc[t] = "peekRead"
    /\ Reaches(job[t].offset)
    /\ out' = [out EXCEPT ![t] = FirstCells(slots[Slot(job[t].offset)], job[t].size)]
    /\ Goto(t, "readDone")
    /\ UNCHANGED <<tx, rx, mutex, ring, job, count, ret>>

CountLock(t) ==
    /\ pc[t] = "count" /\ mutex = Nobody
    /\ mutex' = t
    /\ Goto(t, "countRead")
    /\ UNCHANGED <<tx, rx, ring, caller>>

CountRead(t) ==
    /\ pc[t] = "countRead"
    /\ count' = [count EXCEPT ![t] = num]
    /\ Goto(t, "readDone")
    /\ UNCHANGED <<tx, rx, mutex, ring, job, out, ret>>

LimitLock(t) ==
    /\ pc[t] = "limit" /\ mutex = Nobody
    /\ mutex' = t
    /\ Goto(t, "limitRead")
    /\ UNCHANGED <<tx, rx, ring, caller>>

LimitRead(t) ==
    /\ pc[t] = "limitRead"
    /\ count' = [count EXCEPT ![t] = MaxSize]
    /\ Goto(t, "readDone")
    /\ UNCHANGED <<tx, rx, mutex, ring, job, out, ret>>

ReadDone(t) ==
    /\ pc[t] = "readDone"
    /\ mutex' = Nobody
    /\ Return(t, "SUCCESS")
    /\ UNCHANGED <<tx, rx, ring, job, out, count>>

-----------------------------------------------------------------------------
(* RobotMessageQueueDelete, and the Create of the next queue.  Delete looks  *)
(* for nobody: with a thread inside it frees what the thread uses, and       *)
(* nothing can be said of what comes then.                                   *)
Recreate ==
    /\ \A t \in Threads : pc[t] = "idle"
    /\ tx' = MaxSize /\ rx' = 0
    /\ mutex' = Nobody
    /\ head' = 0 /\ tail' = 0 /\ num' = 0
    /\ slots' = Cleared
    /\ UNCHANGED <<pc, caller>>

-----------------------------------------------------------------------------
TakeMutex(t) == SendLock(t) \/ ReceiveLock(t) \/ PeekLock(t) \/ CountLock(t) \/ LimitLock(t)

Proceed(t) ==
    \/ RejectWait(t)
    \/ SendWait(t) \/ SendRefused(t) \/ SendCopy(t) \/ SendAdvance(t) \/ SendPost(t)
    \/ ReceiveWait(t) \/ ReceiveRefused(t) \/ ReceiveCopy(t) \/ ReceiveAdvance(t) \/ ReceivePost(t)
    \/ PeekNothing(t) \/ PeekRead(t) \/ CountRead(t) \/ LimitRead(t) \/ ReadDone(t)

Next ==
    \/ \E t \in Threads : (\E j \in Duties[t] : Call(t, j)) \/ TakeMutex(t) \/ Proceed(t)
    \/ Recreate

Spec == Init /\ [][Next]_vars

(* A thread that can run does; one that waits for the mutex gets it in the   *)
(* end, as the critical sections are short.  Nothing is assumed of a waiter  *)
(* on a semaphore against others that keep taking it, nor of new calls.      *)
Fairness == \A t \in Threads : WF_vars(Proceed(t)) /\ SF_vars(TakeMutex(t))

FairSpec == Spec /\ Fairness

-----------------------------------------------------------------------------
(* Properties *)

PC == {"idle", "send", "sendLock", "sendCopy", "sendAdvance", "sendPost",
       "receive", "receiveLock", "receiveCopy", "receiveAdvance", "receivePost",
       "peek", "peekRead", "count", "countRead", "limit", "limitRead", "readDone"}

(* The fields of ROBOT_MSGQ_t (RobotMsgQueue.h:38-55) and the callers' locals. *)
TypeOK ==
    /\ tx \in Nat /\ rx \in Nat
    /\ mutex \in Threads \cup {Nobody}
    /\ head \in 0..MaxSize-1 /\ tail \in 0..MaxSize-1
    /\ num \in Int
    /\ slots \in [0..MaxSize-1 -> Message]
    /\ pc \in [Threads -> PC]
    /\ job \in [Threads -> Jobs \cup {NoJob}]
    /\ out \in [Threads -> Message]
    /\ count \in [Threads -> Int]
    /\ ret \in [Threads -> {"none", "SUCCESS", "FAILED", "WRONG_PARAM"}]

(* Where the count of every semaphore is: a message is counted by rx_sema,   *)
(* or by the receiver that has come for it, or by the sender that has still  *)
(* to post it; a slot without one is counted by tx_sema, or by the sender    *)
(* that will fill it, or by the receiver that has still to post it           *)
(* (RobotMsgQueue.c:47-48, 96-115, 130-149).                                 *)
At(places) == {t \in Threads : pc[t] \in places}

Filling  == {"sendLock", "sendCopy", "sendAdvance"}
Emptying == {"receiveLock", "receiveCopy", "receiveAdvance"}

TokensAccounted ==
    /\ num = rx + Cardinality(At({"sendPost"})) + Cardinality(At(Emptying))
    /\ MaxSize = num + tx + Cardinality(At({"receivePost"})) + Cardinality(At(Filling))

(* No sender writes over a message nobody has read, and no receiver reads a  *)
(* slot without one: whoever has come through its semaphore finds what the   *)
(* semaphore counts, however many others are between theirs and the mutex    *)
(* (RobotMsgQueue.c:107-112, 141-146).                                       *)
NoOverrun ==
    /\ num \in 0..MaxSize
    /\ \A t \in Threads :
          /\ pc[t] \in Filling  => num < MaxSize
          /\ pc[t] \in Emptying => num > 0

(* The queue is a BoundedFifo.  A call takes effect where it changes or      *)
(* reads uiMsgNum under the mutex; what a receiver has copied is its own     *)
(* only from the update of uiHead on.                                        *)
Phase(place) == CASE place = "idle"                                -> "idle"
                  [] place \in {"sendPost", "receivePost", "readDone"} -> "done"
                  [] OTHER                                           -> "called"

phases   == [t \in Threads |-> Phase(pc[t])]
messages == [i \in 1..num |-> slots[Slot(i - 1)]]
buffers  == [t \in Threads |-> IF pc[t] = "receiveAdvance" THEN Empty ELSE out[t]]

Fifo == INSTANCE BoundedFifo WITH phase <- phases, fifo <- messages, out <- buffers

ImplementsFifo == Fifo!Spec

(* No wake-up is lost: when a thread waits in Receive and there is a         *)
(* message, some receiver gets one; and so for senders and room              *)
(* (RobotMsgQueue.c:96-98, 115, 130-133, 149).                               *)
Waits(t, op) == pc[t] = op /\ job[t].wait = "forever"

NoLostWakeup ==
    /\ (\E t \in Threads : Waits(t, "receive")) /\ num > 0
          ~> \E t \in Threads : pc[t] = "receivePost"
    /\ (\E t \in Threads : Waits(t, "send")) /\ num < MaxSize
          ~> \E t \in Threads : pc[t] = "sendPost"

(* Only a wait for a semaphore can last: a call that is past it, or has none *)
(* to pass, returns (RobotMsgQueue.c:54-151).                                *)
PassedCallsReturn ==
    \A t \in Threads :
        pc[t] \notin {"idle", "send", "receive"} ~> pc[t] = "idle"

=============================================================================
