----------------------------- MODULE LaneService -----------------------------
(***************************************************************************)
(* What the command queue promises its callers, without slots, limits,      *)
(* generations or restarts: each lane serves its calls in the order they    *)
(* were accepted, each at most once; nothing but a clear of the whole lane  *)
(* takes a call out unserved; and no call waits for ever.  CommandQueue     *)
(* implements this specification.                                           *)
(***************************************************************************)
EXTENDS Integers, Sequences

CONSTANTS
  Lanes,     (* lane names                                                 *)
  Tasks,     (* calls, each made at most once                              *)
  LaneOf     (* the lane each call names                                   *)

VARIABLES
  waiting,   (* the calls of each lane that wait to be served              *)
  status     (* where the promise of each call stands                      *)

serviceVars == <<waiting, status>>

Init ==
  /\ waiting = [l \in Lanes |-> <<>>]
  /\ status = [t \in Tasks |-> "unused"]

-----------------------------------------------------------------------------

First(s, n) == {s[i] : i \in 1..n}

(* Some calls at the heads of the lanes in S are served: the first n[l] of   *)
(* each.  ws and sts are what waits and stands before that.                  *)
Serve(S, ws, sts) ==
  \E n \in [Lanes -> {0} \cup UNION {0..Len(ws[l]) : l \in S}] :
    /\ \A l \in Lanes : n[l] <= (IF l \in S THEN Len(ws[l]) ELSE 0)
    /\ waiting' = [l \in Lanes |-> SubSeq(ws[l], n[l] + 1, Len(ws[l]))]
    /\ status' = [t \in Tasks |-> IF t \in UNION {First(ws[l], n[l]) : l \in Lanes}
                                  THEN "running" ELSE sts[t]]

Refuse(t) ==
  /\ status[t] = "unused"
  /\ status' = [status EXCEPT ![t] = "refused"]
  /\ UNCHANGED waiting

Accept(t) ==
  /\ status[t] = "unused"
  /\ Serve({LaneOf[t]}, [waiting EXCEPT ![LaneOf[t]] = Append(@, t)],
           [status EXCEPT ![t] = "queued"])

Settle(t) ==
  /\ status[t] = "running"
  /\ Serve({LaneOf[t]}, waiting, [status EXCEPT ![t] = "settled"])

Clear(l) ==
  /\ waiting' = [waiting EXCEPT ![l] = <<>>]
  /\ status' = [t \in Tasks |-> IF t \in First(waiting[l], Len(waiting[l]))
                                THEN "cleared" ELSE status[t]]

(* A change of limits or a restart lets more calls begin. *)
ServeMore == Serve(Lanes, waiting, status)

Next ==
  \/ \E t \in Tasks : Refuse(t) \/ Accept(t) \/ Settle(t)
  \/ \E l \in Lanes : Clear(l)
  \/ ServeMore

SafeSpec == Init /\ [][Next]_serviceVars

NobodyWaitsForEver == \A t \in Tasks : status[t] = "queued" ~> status[t] # "queued"

Spec == SafeSpec /\ NobodyWaitsForEver
=============================================================================
