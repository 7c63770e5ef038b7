-------------------------- MODULE MCRobotMsgQueue --------------------------
(* Instances of RobotMsgQueue: who calls what in each run. *)
EXTENDS RobotMsgQueue, TLC

CONSTANTS s1, s2, c1, c2, m1, m2

Send(msgs, sizes, waits) == [op : {"send"}, msg : msgs, size : sizes, wait : waits]
Receive(sizes, waits)    == [op : {"receive"}, size : sizes, wait : waits]
Peek(sizes, offsets)     == [op : {"peek"}, size : sizes, offset : offsets]

(* A sender of short messages, a thread that sends and looks, a receiver;    *)
(* the sizes are below, at and above MsgSize.                                *)
Exchange == [t \in Threads |->
    CASE t = s1 -> Send({m1}, {1}, {"forever", "nowait"})
      [] t = s2 -> Send({m2}, {3}, {"forever"}) \cup Peek({3}, {0, 1}) \cup Counts \cup Limits
      [] t = c1 -> Receive({2}, {"forever", "nowait", "other"})]

(* Only waiting calls: two senders against two receivers. *)
Blocking == [t \in Threads |->
    CASE t \in {s1, s2} -> Send({m1}, {2}, {"forever"})
      [] t \in {c1, c2} -> Receive({2}, {"forever"})]
=============================================================================
