---------------------------- MODULE BoundedFifo ----------------------------
(***************************************************************************)
(* What the message queue of src/utils/RobotMsgQueue.c promises: a bounded *)
(* FIFO queue of messages that many threads use at once.  A call takes     *)
(* effect at one instant between its start and its return, at most once,   *)
(* and exactly once if it returns UBTEDU_RC_SUCCESS.                       *)
(*                                                                         *)
(* A message is MsgSize cells.  A sender that passes fewer leaves the rest *)
(* of its message unspecified, and a receiver gets as many cells of the    *)
(* message as it asks for.  A call that does not want to wait may be       *)
(* refused when the queue is full or empty, or when another call is in     *)
(* progress.                                                               *)
(***************************************************************************)
EXTENDS Integers, Sequences

CONSTANTS
    Threads,   \* the callers
    MaxSize,   \* messages the queue holds
    MsgSize,   \* cells of a message
    Msgs,      \* what a sender writes in a cell
    Blank,     \* a cell nobody wrote
    Jobs       \* the calls: see RobotMsgQueue

VARIABLES
    phase,   \* thread -> "idle", "called" (no effect yet) or "done" (has taken effect)
    job,     \* thread -> its call
    fifo,    \* the messages, oldest first
    out,     \* thread -> the buffer the call fills
    count,   \* thread -> the number the call reports
    ret      \* thread -> what its last call returned

fvars == <<phase, job, fifo, out, count, ret>>

Cell    == Msgs \cup {Blank}
Message == [1..MsgSize -> Cell]
Empty   == [k \in 1..MsgSize |-> Blank]

(* The first n cells of m: what memcpy copies to a buffer. *)
FirstCells(m, n) == [k \in 1..MsgSize |-> IF k <= n THEN m[k] ELSE Blank]

Init ==
    /\ phase = [t \in Threads |-> "idle"]
    /\ job = [t \in Threads |-> [op |-> "none"]]
    /\ fifo = <<>>
    /\ out = [t \in Threads |-> Empty]
    /\ count = [t \in Threads |-> 0]
    /\ ret = [t \in Threads |-> "none"]

Call(t, j) ==
    /\ phase[t] = "idle"
    /\ phase' = [phase EXCEPT ![t] = "called"]
    /\ job' = [job EXCEPT ![t] = j]
    /\ out' = [out EXCEPT ![t] = Empty]
    /\ count' = [count EXCEPT ![t] = 0]
    /\ ret' = [ret EXCEPT ![t] = "none"]
    /\ UNCHANGED fifo

Effect(t, op) ==
    /\ phase[t] = "called" /\ job[t].op = op
    /\ phase' = [phase EXCEPT ![t] = "done"]
    /\ UNCHANGED <<job, ret>>

Put(t) ==
    /\ Effect(t, "send")
    /\ Len(fifo) < MaxSize
    /\ \E m \in Message :
          /\ \A k \in 1..MsgSize : k <= job[t].size => m[k] = job[t].msg
          /\ fifo' = Append(fifo, m)
    /\ UNCHANGED <<out, count>>

Take(t) ==
    /\ Effect(t, "receive")
    /\ fifo # <<>>
    /\ fifo' = Tail(fifo)
    /\ out' = [out EXCEPT ![t] = FirstCells(Head(fifo), job[t].size)]
    /\ UNCHANGED count

Look(t) ==
    /\ Effect(t, "peek")
    /\ job[t].offset < Len(fifo)
    /\ out' = [out EXCEPT ![t] = FirstCells(fifo[job[t].offset + 1], job[t].size)]
    /\ UNCHANGED <<fifo, count>>

Count(t) ==
    /\ Effect(t, "count")
    /\ count' = [count EXCEPT ![t] = Len(fifo)]
    /\ UNCHANGED <<fifo, out>>

Limit(t) ==
    /\ Effect(t, "limit")
    /\ count' = [count EXCEPT ![t] = MaxSize]
    /\ UNCHANGED <<fifo, out>>

(* While nobody uses it the queue may be replaced by a new, empty one. *)
Renew ==
    /\ \A t \in Threads : phase[t] = "idle"
    /\ fifo' = <<>>
    /\ UNCHANGED <<phase, job, out, count, ret>>

Return(t, rc) ==
    /\ phase' = [phase EXCEPT ![t] = "idle"]
    /\ ret' = [ret EXCEPT ![t] = rc]
    /\ UNCHANGED <<job, fifo, out, count>>

Succeed(t) == phase[t] = "done" /\ Return(t, "SUCCESS")

Busy(t) == \E u \in Threads \ {t} : phase[u] # "idle"

MayRefuse(t) ==
    \/ job[t].op = "send"    /\ job[t].wait = "nowait" /\ (Len(fifo) = MaxSize \/ Busy(t))
    \/ job[t].op = "receive" /\ job[t].wait = "nowait" /\ (Len(fifo) = 0 \/ Busy(t))
    \/ job[t].op = "peek"    /\ Len(fifo) <= job[t].offset

Refuse(t) == phase[t] = "called" /\ MayRefuse(t) /\ Return(t, "FAILED")

Reject(t) ==
    /\ phase[t] = "called"
    /\ job[t].op \in {"send", "receive"} /\ job[t].wait \notin {"forever", "nowait"}
    /\ Return(t, "WRONG_PARAM")

Next ==
    \/ \E t \in Threads :
          \/ \E j \in Jobs : Call(t, j)
          \/ Put(t) \/ Take(t) \/ Look(t) \/ Count(t) \/ Limit(t)
          \/ Succeed(t) \/ Refuse(t) \/ Reject(t)
    \/ Renew

Spec == Init /\ [][Next]_fvars
=============================================================================
