-------------------------- MODULE MCFollowupQueue --------------------------
(* Constants of the runs of FollowupQueue: messages of two threads and one   *)
(* redelivered message; the settings of /queue.                              *)
EXTENDS FollowupQueue

CONSTANTS m1, m2, m3, thread1

MsgsThree == {m1, m2, m3}
OneRoute == [m \in MsgsThree |-> thread1]
MixedRouting == [m \in MsgsThree |-> IF m = m3 THEN Unkeyed ELSE thread1]
OwnIds == [m \in MsgsThree |-> m]
Redelivered == [m \in MsgsThree |-> IF m = m2 THEN m1 ELSE m]

Set(mode, cap, drop) == [mode |-> mode, cap |-> cap, drop |-> drop]

AnySettings == {Set("collect", 2, "summarize"), Set("followup", 1, "old")}
OneAtATime == {Set("followup", 1, "summarize")}
=============================================================================
