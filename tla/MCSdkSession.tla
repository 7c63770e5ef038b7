---------------------------- MODULE MCSdkSession ----------------------------
(* Instances of SdkSession: what the application calls in each run. *)
EXTENDS SdkSession, TLC

CONSTANTS r1, r2

To(op, ips) == [op : {op}, ip : ips]
Find(names, most) == [op : {"discovery"}, name : names, max : 1..most]

(* The session calls, local and remote, and the life cycle. *)
LifeCalls == To("init", {Local}) \cup To("deinit", {Local}) \cup To("report", {Local})
                \cup To("connect", Robots \cup {Local}) \cup To("disconnect", Robots \cup {Local})

(* The life cycle around calls to robots. *)
RemoteCalls == To("init", {Local}) \cup To("deinit", {Local})
                  \cup To("connect", Robots) \cup To("disconnect", Robots)

(* A program that initialises once, then connects and disconnects. *)
PlainCalls == To("init", {Local}) \cup To("connect", Robots) \cup To("disconnect", Robots)

(* Searches between these calls, and reports. *)
SearchCalls == RemoteCalls \cup To("report", {Local}) \cup Find({r1}, 2)

(* Robots are alike and heartbeat threads are alike, where no call names one. *)
Alike == Permutations(Robots) \cup Permutations(Beats)
=============================================================================
