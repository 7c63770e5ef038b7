------------------------------ MODULE SwarmMsg ------------------------------
(***************************************************************************)
(* The codecs of src/utils/RobotMsg.c for the messages by which robots of  *)
(* a swarm and the agent that leads them talk (RobotMsg.c:2666-3997).      *)
(* Nothing in RobotApi.c calls them: they serve other programs, as         *)
(* encoders on one side and decoders on the other.                         *)
(*                                                                         *)
(* A message is a function from field names to values, as in RobotMsg.     *)
(***************************************************************************)
EXTENDS RobotMsg

(* What an encoder yields that the code leaves empty: no message, and FAILED. *)
NotWritten == Rc("FAILED")

Swarm(account, type, fields) ==
    Joined([cmd |-> "swarm", account |-> account, type |-> type], fields)

(* The numbers and strings a decoder copies, for the fields that are there. *)
Copied(m, fields) == [f \in fields \cap DOMAIN m |-> m[f]]

(* Every decoder refuses another command or type, if one is given, and      *)
(* succeeds with whatever fields there are.                                 *)
Decode_Swarm(m, type, fields) ==
    Decoding(m, IF Other(m, "cmd", "swarm") \/ Other(m, "type", type)
                THEN Rc("FAILED")
                ELSE Yields("SUCCESS", Copied(m, fields)))

Position == {"x", "y", "z", "order"}

-----------------------------------------------------------------------------
Encode_SwarmInit == NotWritten
Decode_SwarmInit(m) == Decode_Swarm(m, "init", {"sequence", "timezone", "gyroffset"})

Encode_SwarmInitAck(account, port, seq, mac) ==
    Swarm(account, "init_ack", [port |-> port, sequence |-> seq, mac |-> mac])
Decode_SwarmInitAck(m) == Rc("FAILED")

Encode_SwarmAllocID == NotWritten

(* The identifiers and addresses of the robots in the list, in its order; *)
(* a robot list is there.                                                 *)
Decode_SwarmAllocID(m) ==
    LET got == Decode_Swarm(m, "alloc_id", {"sequence"})
    IN  IF got.rc # "SUCCESS" THEN got
        ELSE Yields("SUCCESS", Joined(got.out,
                 [count |-> Len(m.robotlist),
                  robots |-> [i \in DOMAIN m.robotlist |-> Copied(m.robotlist[i], {"id", "mac"})]]))

Encode_SwarmAllocIDAck(account, port, seq, mac) ==
    Swarm(account, "alloc_id_ack", [port |-> port, sequence |-> seq, mac |-> mac])
Decode_SwarmAllocIDAck(m) == Rc("FAILED")

-----------------------------------------------------------------------------
Encode_SwarmActionStart == NotWritten
Decode_SwarmActionStart(m) ==
    Decode_Swarm(m, "action_start", {"sequence", "repeat", "delaytime", "actionname"})

Encode_SwarmActionStartAck(account, port, seq) ==
    Swarm(account, "action_start_ack", [port |-> port, sequence |-> seq])
Decode_SwarmActionStartAck(m) == Rc("FAILED")

Encode_SwarmActionEnd(account, port, seq, id) ==
    Swarm(account, "action_end", [port |-> port, sequence |-> seq, id |-> id])
Decode_SwarmActionEnd(m) == Decode_Swarm(m, "action_end", {"sequence", "id"})

Encode_SwarmActionEndAck(account, port, seq, id) ==
    Swarm(account, "action_end_ack", [port |-> port, sequence |-> seq, id |-> id])

(* The type that is asked for is not that of the acknowledgement (3233). *)
Decode_SwarmActionEndAck(m) == Decode_Swarm(m, "action_end", {"sequence", "id"})

Encode_SwarmActionCancel == NotWritten
Decode_SwarmActionCancel(m) == Decode_Swarm(m, "action_cancel", {"sequence"})

Encode_SwarmActionCancelAck(account, port, seq) ==
    Swarm(account, "action_cancel_ack", [port |-> port, sequence |-> seq])
Decode_SwarmActionCancelAck(m) == Rc("FAILED")

-----------------------------------------------------------------------------
Encode_SwarmGotoXYZ_Swapped(account, port, seq, id, to) ==   \* mutant: y is sent for z
    Swarm(account, "goto_xyz",
        [id |-> id, x |-> to.x, y |-> to.y, z |-> to.y, order |-> to.order, sequence |-> seq])

Encode_SwarmGotoXYZ(account, port, seq, id, to) ==
    Swarm(account, "goto_xyz",
        [id |-> id, x |-> to.x, y |-> to.y, z |-> to.z, order |-> to.order, sequence |-> seq])
Decode_SwarmGotoXYZ(m) == Decode_Swarm(m, "goto_xyz", {"sequence", "id"} \cup Position)

Encode_SwarmActionGotoXYZAck(account, port, seq, id) ==
    Swarm(account, "goto_xyz_ack", [port |-> port, id |-> id, sequence |-> seq])
Decode_SwarmActionGotoXYZAck(m) == Rc("FAILED")

Encode_SwarmReachXYZ(account, port, seq, id) ==
    Swarm(account, "reach_xyz", [port |-> port, id |-> id, sequence |-> seq])
Decode_SwarmReachXYZ_Goto(m) ==             \* mutant: asks for the type of another message
    Decode_Swarm(m, "goto_xyz", {"sequence", "id"})
Decode_SwarmReachXYZ(m) == Decode_Swarm(m, "reach_xyz", {"sequence", "id"})

Encode_SwarmReachXYZAck(account, port, seq, id) ==
    Swarm(account, "reach_xyz_ack", [port |-> port, id |-> id, sequence |-> seq])
Decode_SwarmReachXYZAck(m) == Decode_Swarm(m, "reach_xyz_ack", {"sequence", "id"})

Encode_SwarmQueryXYZ(account, port, seq, id) ==
    Swarm(account, "query_xyz", [port |-> port, id |-> id, sequence |-> seq])
Decode_SwarmQueryXYZ(m) == Decode_Swarm(m, "query_xyz", {"sequence", "id"})

Encode_SwarmQueryXYZAck(account, port, seq, id, at, status) ==
    Swarm(account, "query_xyz_ack",
        [id |-> id, x |-> at.x, y |-> at.y, z |-> at.z, order |-> at.order,
         status |-> status, sequence |-> seq])

(* The type that is asked for is that of another acknowledgement (3922). *)
Decode_SwarmQueryXYZAck(m) ==
    Decode_Swarm(m, "reach_xyz_ack", {"sequence", "id", "status"} \cup Position)
=============================================================================
