---------------------------- MODULE CommandQueue ----------------------------
(***************************************************************************)
(* The lane-aware command queue of the gateway process,                     *)
(* src/src/process/command-queue.ts: enqueueCommandInLane, the pump, task   *)
(* completion, setCommandLaneConcurrency, clearCommandLane,                 *)
(* markGatewayDraining, resetAllLanes and waitForActiveTasks, called in any *)
(* order.                                                                   *)
(*                                                                          *)
(* A task is one call of enqueueCommandInLane and its promise.  A running   *)
(* task settles at any later time; a task interrupted by an in-process      *)
(* restart (resetAllLanes) may still settle after it.  Lanes exist from the *)
(* start with the values getLaneState gives them.  Timestamps, the onWait   *)
(* callback and logging are left out: no control depends on them.           *)
(***************************************************************************)
EXTENDS LaneOps

CONSTANTS
  Lanes,        (* lane names                                              *)
  Tasks,        (* calls of enqueueCommandInLane, each made at most once   *)
  LaneOf,       (* the lane each call names                                *)
  Concurrency   (* arguments given to setCommandLaneConcurrency            *)

ASSUME TasksAssumption == IsFiniteSet(Tasks)
ASSUME LaneOfAssumption == LaneOf \in [Tasks -> Lanes]
ASSUME ConcurrencyAssumption == Concurrency \subseteq Int

VARIABLES
  status,          (* where the promise of each task stands                 *)
  startedIn,       (* taskGeneration: the lane's generation at the start    *)
  calls,           (* history: how many calls were accepted                 *)
  ticket,          (* history: the place of each accepted call, 0 before    *)
  wait             (* one call of waitForActiveTasks, made at any moment    *)

vars == <<lanes, gatewayDraining, status, startedIn, calls, ticket, wait>>

Settled == {"settled", "cleared", "refused"}
Statuses == {"unused", "queued", "running"} \cup Settled

Init ==
  /\ lanes = [l \in Lanes |-> NewLane]
  /\ gatewayDraining = FALSE
  /\ status = [t \in Tasks |-> "unused"]
  /\ startedIn = [t \in Tasks |-> 0]
  /\ calls = 0
  /\ ticket = [t \in Tasks |-> 0]
  /\ wait = [phase |-> "idle", ids |-> {}]

-----------------------------------------------------------------------------

(* The lanes of D, already updated to ls, are pumped; sts are the statuses  *)
(* the call itself has set.  Other lanes take their value in ls.            *)
PumpLanes(D, ls, sts) ==
  LET started == UNION {PumpStarted(ls[l]) : l \in D}
  IN /\ lanes' = [l \in Lanes |-> IF l \in D THEN Pump(ls[l]) ELSE ls[l]]
     /\ status' = [t \in Tasks |-> IF t \in started THEN "running" ELSE sts[t]]
     /\ startedIn' = [t \in Tasks |->
          IF t \in started THEN ls[LaneOf[t]].generation ELSE startedIn[t]]

(* enqueueCommandInLane while the gateway drains: GatewayDrainingError. *)
Refuse(t) ==
  /\ status[t] = "unused"
  /\ gatewayDraining
  /\ status' = [status EXCEPT ![t] = "refused"]
  /\ UNCHANGED <<lanes, gatewayDraining, startedIn, calls, ticket, wait>>

(* enqueueCommandInLane otherwise: push the entry and drain its lane. *)
Enqueue(t) ==
  /\ status[t] = "unused"
  /\ ~gatewayDraining
  /\ PumpLanes({LaneOf[t]},
               [lanes EXCEPT ![LaneOf[t]] = Push(@, t)],
               [status EXCEPT ![t] = "queued"])
  /\ calls' = calls + 1
  /\ ticket' = [ticket EXCEPT ![t] = calls + 1]
  /\ UNCHANGED <<gatewayDraining, wait>>

(* Faulty variant: only the success branch pumps the lane. *)
FinishPumpsOnSuccess(t, outcome) ==
  /\ outcome \in {"resolved", "rejected"}
  /\ status[t] = "running"
  /\ LET l == LaneOf[t]
         settled == [status EXCEPT ![t] = "settled"]
     IN IF Completes(lanes[l], t, startedIn[t])
        THEN PumpLanes(IF outcome = "resolved" THEN {l} ELSE {},
                       [lanes EXCEPT ![l] = Complete(@, t)], settled)
        ELSE PumpLanes({}, lanes, settled)
  /\ UNCHANGED <<gatewayDraining, calls, ticket, wait>>

(* The continuation after `await entry.task()': a task of the current       *)
(* generation frees its slot and pumps its lane, an older one does neither; *)
(* both settle the caller's promise.  The code has one branch for each      *)
(* outcome and the two do the same.                                         *)
Finish(t, outcome) ==
  /\ outcome \in {"resolved", "rejected"}
  /\ status[t] = "running"
  /\ LET l == LaneOf[t]
         settled == [status EXCEPT ![t] = "settled"]
     IN IF Completes(lanes[l], t, startedIn[t])
        THEN PumpLanes({l}, [lanes EXCEPT ![l] = Complete(@, t)], settled)
        ELSE PumpLanes({}, lanes, settled)
  /\ UNCHANGED <<gatewayDraining, calls, ticket, wait>>

(* setCommandLaneConcurrency *)
SetLaneConcurrency(l, n) ==
  /\ PumpLanes({l}, [lanes EXCEPT ![l] = SetMax(@, n)], status)
  /\ UNCHANGED <<gatewayDraining, calls, ticket, wait>>

(* clearCommandLane: queued entries are rejected, running ones are kept. *)
ClearLane(l) ==
  /\ lanes' = [lanes EXCEPT ![l] = Emptied(@)]
  /\ status' = [t \in Tasks |->
       IF t \in Entries(lanes[l]) THEN "cleared" ELSE status[t]]
  /\ UNCHANGED <<gatewayDraining, startedIn, calls, ticket, wait>>

MarkGatewayDraining ==
  /\ gatewayDraining' = TRUE
  /\ UNCHANGED <<lanes, status, startedIn, calls, ticket, wait>>

(* resetAllLanes: every lane is reset first, then those with queued entries *)
(* are drained.                                                             *)
ResetAllLanes ==
  /\ \A l \in Lanes : lanes[l].generation < MaxResets
  /\ LET reset == [l \in Lanes |-> ResetLane(lanes[l])]
     IN PumpLanes({l \in Lanes : reset[l].queue # <<>>}, reset, status)
  /\ gatewayDraining' = FALSE
  /\ UNCHANGED <<calls, ticket, wait>>

-----------------------------------------------------------------------------

ActiveIds == UNION {lanes[l].active : l \in Lanes}

(* waitForActiveTasks: what is active now is waited for, nothing later is. *)
StartWait ==
  /\ wait.phase = "idle"
  /\ wait' = [phase |-> IF ActiveIds = {} THEN "drained" ELSE "waiting",
              ids   |-> ActiveIds]
  /\ UNCHANGED <<lanes, gatewayDraining, status, startedIn, calls, ticket>>

(* Faulty variant: one captured task being over is taken for all of them. *)
WaitAnyDrained ==
  /\ wait.phase = "waiting"
  /\ wait.ids \ ActiveIds # {}
  /\ wait' = [wait EXCEPT !.phase = "drained"]
  /\ UNCHANGED <<lanes, gatewayDraining, status, startedIn, calls, ticket>>

(* One poll: none of the captured ids is active any more. *)
WaitDrained ==
  /\ wait.phase = "waiting"
  /\ wait.ids \cap ActiveIds = {}
  /\ wait' = [wait EXCEPT !.phase = "drained"]
  /\ UNCHANGED <<lanes, gatewayDraining, status, startedIn, calls, ticket>>

(* One poll after the deadline with a captured id still active. *)
WaitTimeout ==
  /\ wait.phase = "waiting"
  /\ wait.ids \cap ActiveIds # {}
  /\ wait' = [wait EXCEPT !.phase = "timedOut"]
  /\ UNCHANGED <<lanes, gatewayDraining, status, startedIn, calls, ticket>>

Next ==
  \/ \E t \in Tasks : Refuse(t)
  \/ \E t \in Tasks : Enqueue(t)
  \/ \E t \in Tasks, outcome \in {"resolved", "rejected"} : Finish(t, outcome)
  \/ \E l \in Lanes, n \in Concurrency : SetLaneConcurrency(l, n)
  \/ \E l \in Lanes : ClearLane(l)
  \/ MarkGatewayDraining
  \/ ResetAllLanes
  \/ StartWait
  \/ WaitDrained
  \/ WaitTimeout

Spec == Init /\ [][Next]_vars

(* Every task settles: agent turns and commands carry their own timeouts.   *)
(* Nothing else is assumed to happen.                                       *)
Fairness == \A t \in Tasks : WF_vars(\E outcome \in {"resolved", "rejected"} : Finish(t, outcome))

FairSpec == Spec /\ Fairness

-----------------------------------------------------------------------------
(* Properties *)

(* The variables of the model hold values of their types; in particular the *)
(* limit of a lane stays at least 1 whatever setCommandLaneConcurrency is    *)
(* given.                                                                    *)
TypeOK ==
  /\ lanes \in [Lanes -> LaneType(Tasks)]
  /\ gatewayDraining \in BOOLEAN
  /\ status \in [Tasks -> Statuses]
  /\ startedIn \in [Tasks -> Nat]
  /\ calls \in Nat
  /\ ticket \in [Tasks -> Nat]
  /\ wait \in [phase : {"idle", "waiting", "drained", "timedOut"}, ids : SUBSET Tasks]

(* The entries of a lane's queue are exactly the calls for that lane whose   *)
(* promise is still pending and which have not started, each of them once:   *)
(* no call is lost and none is run twice, across clears and restarts.        *)
Accounted ==
  /\ \A l \in Lanes : EachOnce(lanes[l])
  /\ \A l \in Lanes :
       Entries(lanes[l]) = {t \in Tasks : status[t] = "queued" /\ LaneOf[t] = l}

(* The active ids of a lane are exactly its running tasks of the current     *)
(* generation: a completion of a task interrupted by resetAllLanes neither   *)
(* frees a slot of the restarted lane nor keeps one.                         *)
ActiveIsCurrent ==
  \A l \in Lanes :
    lanes[l].active = {t \in Tasks : /\ status[t] = "running"
                                     /\ LaneOf[t] = l
                                     /\ startedIn[t] = lanes[l].generation}

(* No lost wakeup: a lane with a queued entry has no free slot, so some      *)
(* completion will pump it.  (The comment of resetAllLanes: a later enqueue, *)
(* which would pump the lane, "may never come".)                             *)
NoIdleBacklog ==
  \A l \in Lanes : Saturated(lanes[l])

(* A lane starts its calls in the order they were accepted: every call that  *)
(* has started was accepted before every call that still waits in its lane.  *)
LaneFifo ==
  \A t, u \in Tasks :
    /\ LaneOf[t] = LaneOf[u]
    /\ status[u] = "queued"
    /\ status[t] \in {"running", "settled"}
    => ticket[t] < ticket[u]

(* waitForActiveTasks answers `drained' only when every task that was active *)
(* at the call has settled or was given up by a restart since.               *)
DrainedIsTrue ==
  wait.phase = "drained" =>
    \A t \in wait.ids :
      status[t] \in Settled \/ startedIn[t] < lanes[LaneOf[t]].generation

(* A step that starts a task leaves its lane within the lane's limit, even   *)
(* after the limit was lowered under running tasks.                          *)
StartsWithinLimit ==
  [][\A l \in Lanes :
       (\E t \in Tasks : LaneOf[t] = l /\ status[t] # "running" /\ status'[t] = "running")
       => Cardinality(lanes'[l].active) <= lanes'[l].maxConcurrent]_vars

(* The queue implements the service its callers rely on: calls of a lane are *)
(* served in the order they were accepted, whatever slots, limits, clears    *)
(* and restarts do, and every accepted call is served or cleared.            *)
Service == INSTANCE LaneService WITH waiting <- [l \in Lanes |-> lanes[l].queue]

ImplementsService == Service!Spec
=============================================================================
