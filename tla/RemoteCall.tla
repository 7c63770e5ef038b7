----------------------------- MODULE RemoteCall -----------------------------
(***************************************************************************)
(* What the calls of src/src/RobotApi.c that ask the robot promise: the    *)
(* robot does what a call asks at most once, and what a call was refused   *)
(* it never does, then or later.  A call that has asked may leave before   *)
(* the robot has done anything, when its wait ends; what it asked may then *)
(* still be done.                                                          *)
(***************************************************************************)
CONSTANTS
    Callers,  \* the threads of the application
    Ids       \* the calls, a set of numbers without 0

VARIABLES
    fate,     \* call -> "new", "begun", "asked", "done" (by the robot) or "over" (never will be)
    inside,   \* thread -> the call it is in, 0 for none
    ret       \* thread -> what its last call returned

rvars == <<fate, inside, ret>>

(* What a call returns without having asked, and after it has. *)
Refusals == {"SUCCESS", "WRONG_PARAM", "NORESOURCE", "SOCKET_FAILED", "SOCKET_SENDERROR"}
Answers  == {"SUCCESS", "FAILED", "NOT_FOUND", "WRONG_PARAM", "SOCKET_TIMEOUT",
             "SOCKET_DECODE_FAILED", "SOCKET_DECODE_ERROR"}

Init ==
    /\ fate = [i \in Ids |-> "new"]
    /\ inside = [t \in Callers |-> 0]
    /\ ret = [t \in Callers |-> "none"]

Turns(i, from, to) == fate[i] = from /\ fate' = [fate EXCEPT ![i] = to]

Begin(t) ==
    /\ inside[t] = 0
    /\ \E i \in Ids :
          /\ Turns(i, "new", "begun")
          /\ inside' = [inside EXCEPT ![t] = i]
    /\ ret' = [ret EXCEPT ![t] = "none"]

Ask(t) == inside[t] # 0 /\ Turns(inside[t], "begun", "asked") /\ UNCHANGED <<inside, ret>>

Leave(t, codes) ==
    /\ inside[t] # 0
    /\ inside' = [inside EXCEPT ![t] = 0]
    /\ \E rc \in codes : ret' = [ret EXCEPT ![t] = rc]

Refuse(t) == Leave(t, Refusals) /\ Turns(inside[t], "begun", "over")

Return(t) == Leave(t, Answers) /\ fate[inside[t]] \in {"asked", "done", "over"} /\ UNCHANGED fate

(* The robot does it; or it refuses, or the network loses the request. *)
Perform(i) == Turns(i, "asked", "done") /\ UNCHANGED <<inside, ret>>
Drop(i)    == Turns(i, "asked", "over") /\ UNCHANGED <<inside, ret>>

Next ==
    \/ \E t \in Callers : Begin(t) \/ Ask(t) \/ Refuse(t) \/ Return(t)
    \/ \E i \in Ids : Perform(i) \/ Drop(i)

Spec == Init /\ [][Next]_rvars
=============================================================================
