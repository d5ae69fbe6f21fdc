------------------------------- MODULE LaneOps -------------------------------
(***************************************************************************)
(* The command lanes of src/src/process/command-queue.ts and the synchronous *)
(* operations on one of them.  Every operation of that file runs to  *)
(* completion between two turns of the event loop, so each is a function    *)
(* from lane to lane; CommandQueue and EmbeddedRuns build actions of them.  *)
(*                                                                          *)
(* Abstractions: an entry stands for the call that queued it and for the    *)
(* task id it gets when it starts (an entry starts at most once).  The      *)
(* `draining' flag is set and cleared inside one synchronous pump; nested   *)
(* calls made while it is set only push entries that the surrounding loop   *)
(* then takes, so between two steps it is always false and is left out.     *)
(***************************************************************************)
EXTENDS Integers, Sequences, FiniteSets

CONSTANT MaxResets  (* bound on resetAllLanes calls; bounds the model *)

ASSUME MaxResetsAssumption == MaxResets \in Nat

VARIABLES
  lanes,            (* the map of lane states                               *)
  gatewayDraining   (* set from markGatewayDraining to resetAllLanes        *)

(* getLaneState: the lane a name has before anything used it. *)
NewLane == [queue |-> <<>>, active |-> {}, maxConcurrent |-> 1, generation |-> 0]

Entries(lane) == {lane.queue[i] : i \in 1..Len(lane.queue)}

(* Faulty variant: the comparison with the limit is off by one. *)
PumpCountPastLimit(lane) ==
  LET free == lane.maxConcurrent + 1 - Cardinality(lane.active)
  IN IF free <= 0 THEN 0
     ELSE IF free < Len(lane.queue) THEN free ELSE Len(lane.queue)

(* The lanes over a set T of entries. *)
LaneType(T) == [queue : Seq(T), active : SUBSET T,
                maxConcurrent : Nat \ {0}, generation : Nat]

(* No entry is queued twice, and none is both queued and active. *)
EachOnce(lane) ==
  /\ \A i, j \in 1..Len(lane.queue) : lane.queue[i] = lane.queue[j] => i = j
  /\ Entries(lane) \cap lane.active = {}

(* A lane with a backlog has no free slot. *)
Saturated(lane) ==
  lane.queue # <<>> => Cardinality(lane.active) >= lane.maxConcurrent

(* The number of entries the while loop of pump() starts: it stops when no  *)
(* slot is free or nothing is queued.                                       *)
PumpCount(lane) ==
  LET free == lane.maxConcurrent - Cardinality(lane.active)
  IN IF free <= 0 THEN 0
     ELSE IF free < Len(lane.queue) THEN free ELSE Len(lane.queue)

PumpStarted(lane) == {lane.queue[i] : i \in 1..PumpCount(lane)}

(* drainLane/pump: start queued entries, oldest first, while slots are free. *)
Pump(lane) ==
  [lane EXCEPT !.queue  = SubSeq(@, PumpCount(lane) + 1, Len(@)),
               !.active = @ \cup PumpStarted(lane)]

(* Faulty variant: the newest entry goes first. *)
PushFront(lane, e) == [lane EXCEPT !.queue = <<e>> \o @]

(* enqueueCommandInLane, the push. *)
Push(lane, e) == [lane EXCEPT !.queue = Append(@, e)]

(* completeTask: a completion of an earlier generation changes nothing. *)
Completes(lane, e, generation) == generation = lane.generation
Complete(lane, e) == [lane EXCEPT !.active = @ \ {e}]

(* setCommandLaneConcurrency, the clamped assignment. *)
SetMax(lane, n) == [lane EXCEPT !.maxConcurrent = IF n < 1 THEN 1 ELSE n]

(* clearCommandLane, the splice. *)
Emptied(lane) == [lane EXCEPT !.queue = <<>>]

(* Faulty variants: the active ids are kept; the queued entries are dropped. *)
ResetKeepsActive(lane) == [lane EXCEPT !.generation = @ + 1]
ResetDropsQueue(lane) ==
  [lane EXCEPT !.generation = @ + 1, !.active = {}, !.queue = <<>>]

(* resetAllLanes, first pass over one lane. *)
ResetLane(lane) == [lane EXCEPT !.generation = @ + 1, !.active = {}]

=============================================================================
