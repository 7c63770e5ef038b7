------------------------------ MODULE RobotLink ------------------------------
(***************************************************************************)
(* What the session calls of src/src/RobotApi.c promise an application     *)
(* that makes one call at a time, where no answer comes after its timeout. *)
(*                                                                         *)
(* A Connect asks its robot once.  If it succeeds, that robot has accepted *)
(* in this very call and is the peer; if it fails, the peer is the one     *)
(* before.  Either way the matter is settled: no robot connects later.     *)
(*                                                                         *)
(* A Disconnect asks once, but may leave before its robot has done it,     *)
(* with the peer as it was.  If it succeeds there is no peer any more, and *)
(* some robot has disconnected that no earlier success speaks for; its own *)
(* robot, unless the application also searches.                            *)
(*                                                                         *)
(* A report succeeds only if there is a peer to send it to.                *)
(***************************************************************************)
EXTENDS Naturals

CONSTANTS
    Robots,   \* the robots
    Local,    \* the address the SDK is used with on the robot itself
    NoPeer,   \* neither
    Searches  \* does the application call Discovery?

VARIABLES
    doing,    \* the call the application waits for, and how far it is
    ret,      \* what the last call returned
    peer,     \* whom the SDK holds itself connected with
    linked,   \* the robots that hold themselves connected
    asked,    \* deed -> how often it is asked for and not yet done
    done      \* deed -> how often it is done and no call has been told yet

lvars == <<doing, ret, peer, linked, asked, done>>

Deed == [op : {"connect", "disconnect"}, robot : Robots]

Idle    == [op |-> "idle", robot |-> NoPeer, stage |-> "new"]
NewCall == [op : {"connect", "disconnect"}, robot : Robots \cup {Local}, stage : {"new"}]
              \cup [op : {"init", "deinit", "discovery", "report"}, robot : {NoPeer}, stage : {"new"}]

Codes == {"SUCCESS", "FAILED", "SOCKET_FAILED", "SOCKET_SENDERROR", "SOCKET_NORESOURCE"}

Init ==
    /\ doing = Idle /\ ret = "none" /\ peer = NoPeer
    /\ linked = {}
    /\ asked = [d \in Deed |-> 0]
    /\ done = [d \in Deed |-> 0]

Own == [op |-> doing.op, robot |-> doing.robot]

Reach(stage) == doing' = [doing EXCEPT !.stage = stage] /\ UNCHANGED <<ret, linked>>

(* The network may lose any of what is under way. *)
Fewer ==
    /\ {asked', done'} \subseteq [Deed -> Nat]
    /\ \A d \in Deed : asked'[d] <= asked[d] /\ done'[d] <= done[d]

(* Nobody is asked to connect, and nobody has without being heard. *)
Settled == \A d \in Deed : d.op = "connect" => asked[d] = 0 /\ done[d] = 0

-----------------------------------------------------------------------------
Begin ==
    /\ doing = Idle
    /\ doing' \in NewCall
    /\ ret' = "none"
    /\ UNCHANGED <<peer, linked, asked, done>>

Ask ==
    /\ doing.stage = "new" /\ Own \in Deed
    /\ Reach("asked")
    /\ asked' \in {asked, [asked EXCEPT ![Own] = @ + 1]}
    /\ UNCHANGED <<peer, done>>

(* A robot does what it was asked. *)
Perform(d) ==
    /\ asked[d] > 0
    /\ asked' = [asked EXCEPT ![d] = @ - 1]
    /\ done' = [done EXCEPT ![d] = @ + 1]
    /\ linked' = IF d.op = "connect" THEN linked \cup {d.robot} ELSE linked \ {d.robot}
    /\ UNCHANGED <<doing, ret, peer>>

Fade == Fewer /\ UNCHANGED <<doing, ret, peer, linked>>

(* Connect: its robot's acceptance is heard, then the robot is the peer. *)
Hear ==
    /\ doing.op = "connect" /\ doing.stage = "asked"
    /\ done[Own] > 0
    /\ Reach("heard")
    /\ Fewer /\ Settled'
    /\ UNCHANGED peer

Join ==
    /\ doing.stage = "heard"
    /\ Reach("agreed")
    /\ peer' = doing.robot
    /\ UNCHANGED <<asked, done>>

(* Disconnect: it hears that a robot has disconnected. *)
Part ==
    /\ doing.op = "disconnect" /\ doing.stage = "asked"
    /\ \E d \in Deed :
          /\ d.op = "disconnect" /\ done[d] > 0
          /\ Searches \/ d = Own
          /\ done' = [done EXCEPT ![d] = @ - 1]
    /\ Reach("agreed")
    /\ peer' = NoPeer
    /\ UNCHANGED asked

(* Connect to the local address: for a moment there is no peer. *)
Forget ==
    /\ doing.op = "connect" /\ doing.robot = Local
    /\ peer' = NoPeer
    /\ UNCHANGED <<doing, ret, linked, asked, done>>

-----------------------------------------------------------------------------
Leave(rc) == doing' = Idle /\ ret' = rc /\ Fewer /\ UNCHANGED linked

InitReturns(rc) ==
    doing.op = "init" /\ Leave(rc) /\ peer' = IF rc = "SUCCESS" THEN NoPeer ELSE peer

DiscoveryReturns(rc) == doing.op = "discovery" /\ Leave(rc) /\ UNCHANGED peer

ReportReturns(rc) ==
    doing.op = "report" /\ Leave(rc) /\ (rc = "SUCCESS" => peer # NoPeer) /\ UNCHANGED peer

ConnectReturns(rc) ==
    /\ doing.op = "connect" /\ doing.robot \in Robots
    /\ rc = "SUCCESS" <=> doing.stage = "agreed"
    /\ Leave(rc) /\ Settled'
    /\ UNCHANGED peer

DisconnectReturns(rc) ==
    /\ doing.op = "disconnect" /\ doing.robot \in Robots
    /\ rc = "SUCCESS" <=> doing.stage = "agreed"
    /\ Leave(rc)
    /\ UNCHANGED peer

(* The calls that ask nobody and always succeed. *)
LocalReturns ==
    /\ Leave("SUCCESS")
    /\ \/ doing.op = "connect" /\ doing.robot = Local /\ peer' = Local
       \/ doing.op = "disconnect" /\ doing.robot = Local /\ peer' = NoPeer
       \/ doing.op = "deinit" /\ peer' = NoPeer

Returns(rc) ==
    \/ InitReturns(rc) \/ DiscoveryReturns(rc) \/ ReportReturns(rc)
    \/ ConnectReturns(rc) \/ DisconnectReturns(rc)

Next ==
    \/ Begin \/ Ask \/ Fade \/ Hear \/ Join \/ Part \/ Forget \/ LocalReturns
    \/ \E d \in Deed : Perform(d)
    \/ \E rc \in Codes : Returns(rc)

Spec == Init /\ [][Next]_lvars
=============================================================================
