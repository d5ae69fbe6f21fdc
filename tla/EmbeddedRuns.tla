---------------------------- MODULE EmbeddedRuns ----------------------------
(***************************************************************************)
(* Agent runs over the command lanes.  runEmbeddedPiAgent (and, in the same *)
(* shape, compactEmbeddedPiSession) queues a run in the lane of its session *)
(* and, from inside that task, in a lane shared by all sessions:            *)
(*     enqueueSession(() => enqueueGlobal(async () => ...))                 *)
(* so a run holds its session's slot while it waits for a shared one.       *)
(*                                                                          *)
(* Nested calls happen in the synchronous prefix of a task, hence inside    *)
(* the pump that starts it: one action covers the whole chain.  The chain   *)
(* is computed on a record, the `world', with one function for each call of *)
(* the code.  The promise of a nested task settles in a later turn of the   *)
(* event loop than its cause, which is an action of its own (OuterSettles). *)
(***************************************************************************)
EXTENDS LaneOps, SequencesExt

CONSTANTS
  Runs,         (* calls of runEmbeddedPiAgent, each made at most once     *)
  Sessions,     (* names of session lanes (session:<key>)                  *)
  Globals,      (* names of the shared lanes: main, cron, subagent, ...    *)
  SessionOf,    (* resolveSessionLane of each run                          *)
  GlobalOf,     (* resolveGlobalLane of each run                           *)
  Limits        (* limits a configuration gives to the shared lanes        *)

ASSUME LanesAssumption == Sessions \cap Globals = {}
ASSUME RunsAssumption ==
  /\ IsFiniteSet(Runs)
  /\ SessionOf \in [Runs -> Sessions]
  /\ GlobalOf \in [Runs -> Globals]
ASSUME LimitsAssumption == Limits \subseteq Int

VARIABLES
  phase,            (* where each run stands                                *)
  outerGen,         (* generation of the session lane at the run's start    *)
  innerGen          (* generation of the shared lane at the inner start     *)

runVars == <<lanes, gatewayDraining, phase, outerGen, innerGen>>

AllLanes == Sessions \cup Globals

(* A run waits in its session lane, then (its outer task active) in the      *)
(* shared lane, executes, and settles from the inside out.                   *)
Phases == {"unused", "sessionQueued", "globalQueued", "executing",
           "innerSettled", "innerRefused", "settled", "failed", "cleared", "refused"}

Ended == {"settled", "failed", "cleared", "refused"}

World == [lanes |-> lanes, draining |-> gatewayDraining, phase |-> phase,
          outerGen |-> outerGen, innerGen |-> innerGen]

Becomes(w) ==
  /\ lanes' = w.lanes
  /\ gatewayDraining' = w.draining
  /\ phase' = w.phase
  /\ outerGen' = w.outerGen
  /\ innerGen' = w.innerGen

InitRuns ==
  /\ lanes = [l \in AllLanes |-> NewLane]
  /\ gatewayDraining = FALSE
  /\ phase = [r \in Runs |-> "unused"]
  /\ outerGen = [r \in Runs |-> 0]
  /\ innerGen = [r \in Runs |-> 0]

-----------------------------------------------------------------------------
(* Functions from world to world. *)

(* drainLane of a shared lane: the started runs execute. *)
PumpGlobal(w, g) ==
  LET started == PumpStarted(w.lanes[g])
  IN [w EXCEPT
       !.lanes[g] = Pump(@),
       !.phase = [r \in Runs |-> IF r \in started THEN "executing" ELSE @[r]],
       !.innerGen = [r \in Runs |-> IF r \in started THEN w.lanes[g].generation ELSE @[r]]]

(* The body of an outer task: enqueueCommandInLane of the shared lane, which *)
(* refuses while the gateway drains.                                         *)
EnqueueGlobal(w, r) ==
  LET g == GlobalOf[r]
  IN IF w.draining
     THEN [w EXCEPT !.phase[r] = "innerRefused"]
     ELSE PumpGlobal([w EXCEPT !.lanes[g] = Push(@, r), !.phase[r] = "globalQueued"], g)

(* drainLane of a session lane.  Its limit is always 1: at most one outer    *)
(* task starts, and its body runs at once.                                   *)
PumpSession(w, s) ==
  LET r == Head(w.lanes[s].queue)
  IN IF PumpStarted(w.lanes[s]) = {} THEN w
     ELSE EnqueueGlobal([w EXCEPT !.lanes[s] = Pump(@),
                                  !.outerGen[r] = w.lanes[s].generation], r)

-----------------------------------------------------------------------------

(* runEmbeddedPiAgent: refused while draining, else queued in its session.   *)
Submit(r) ==
  /\ phase[r] = "unused"
  /\ IF gatewayDraining
     THEN Becomes([World EXCEPT !.phase[r] = "refused"])
     ELSE Becomes(PumpSession([World EXCEPT !.lanes[SessionOf[r]] = Push(@, r),
                                            !.phase[r] = "sessionQueued"],
                              SessionOf[r]))

(* The agent turn ends, well or not: the shared slot is freed and its lane   *)
(* pumped, unless a restart came in between.                                 *)
InnerSettles(r) ==
  LET g == GlobalOf[r]
      over == [World EXCEPT !.phase[r] = "innerSettled"]
  IN /\ phase[r] = "executing"
     /\ Becomes(IF Completes(lanes[g], r, innerGen[r])
                THEN PumpGlobal([over EXCEPT !.lanes[g] = Complete(@, r)], g)
                ELSE over)

(* The continuation of the outer task: the session's slot is freed and its   *)
(* lane pumped, unless a restart came in between.                            *)
OuterSettles(r) ==
  LET s == SessionOf[r]
      over == [World EXCEPT !.phase[r] =
                 IF @ = "innerSettled" THEN "settled" ELSE "failed"]
  IN /\ phase[r] \in {"innerSettled", "innerRefused"}
     /\ Becomes(IF Completes(lanes[s], r, outerGen[r])
                THEN PumpSession([over EXCEPT !.lanes[s] = Complete(@, r)], s)
                ELSE over)

(* Faulty variant: clearing a session also frees its slot. *)
ClearSessionAndSlot(s) ==
  Becomes([World EXCEPT
    !.lanes[s] = [Emptied(@) EXCEPT !.active = {}],
    !.phase = [r \in Runs |-> IF r \in Entries(lanes[s]) THEN "cleared" ELSE @[r]]])

(* clearCommandLane of a session: the abort command and the interrupt mode.  *)
ClearSession(s) ==
  Becomes([World EXCEPT
    !.lanes[s] = Emptied(@),
    !.phase = [r \in Runs |-> IF r \in Entries(lanes[s]) THEN "cleared" ELSE @[r]]])

(* setCommandLaneConcurrency of a shared lane: start-up and config reload.   *)
SetGlobalLimit(g, n) ==
  Becomes(PumpGlobal([World EXCEPT !.lanes[g] = SetMax(@, n)], g))

MarkDraining == Becomes([World EXCEPT !.draining = TRUE])

(* Faulty variant: the preserved entries wait for a later call. *)
ResetWithoutDrain ==
  Becomes([World EXCEPT !.lanes = [l \in AllLanes |-> ResetLane(lanes[l])],
                        !.draining = FALSE])

(* The runs W join the shared lanes, those of one lane in some order.        *)
Joining(W, g) == SetToSeqs({r \in W : GlobalOf[r] = g})
Joinings(W) ==
  {joined \in [Globals -> UNION {Joining(W, g) : g \in Globals}] :
     \A g \in Globals : joined[g] \in Joining(W, g)}

(* resetAllLanes: all lanes are reset first, then those with queued entries  *)
(* are drained one after the other in the order of first use.  A session     *)
(* lane starts its first run, which enters its shared lane at once, behind   *)
(* the entries that were preserved there; it makes no difference whether     *)
(* that lane was drained before, since nothing ends meanwhile.               *)
ResetRunLanes ==
  LET woken == UNION {PumpStarted(ResetLane(lanes[s])) : s \in Sessions}
  IN \E joined \in Joinings(woken) :
    LET reset == [l \in AllLanes |->
          IF l \in Globals THEN [ResetLane(lanes[l]) EXCEPT !.queue = @ \o joined[l]]
          ELSE ResetLane(lanes[l])]
        started == UNION {PumpStarted(reset[g]) : g \in Globals}
    IN /\ lanes' = [l \in AllLanes |-> Pump(reset[l])]
       /\ gatewayDraining' = FALSE
       /\ phase' = [r \in Runs |->
            IF r \in started THEN "executing"
            ELSE IF r \in woken THEN "globalQueued" ELSE phase[r]]
       /\ outerGen' = [r \in Runs |->
            IF r \in woken THEN reset[SessionOf[r]].generation ELSE outerGen[r]]
       /\ innerGen' = [r \in Runs |->
            IF r \in started THEN reset[GlobalOf[r]].generation ELSE innerGen[r]]

RunNext ==
  \/ \E r \in Runs : Submit(r)
  \/ \E r \in Runs : InnerSettles(r)
  \/ \E r \in Runs : OuterSettles(r)
  \/ \E s \in Sessions : ClearSession(s)
  \/ \E g \in Globals, n \in Limits : SetGlobalLimit(g, n)

(* The bound MaxResets: one more restart fits into the model. *)
MayRestart == \A l \in AllLanes : lanes[l].generation < MaxResets

-----------------------------------------------------------------------------
(* Properties *)

(* The variables hold values of their types. *)
Types ==
  /\ lanes \in [AllLanes -> LaneType(Runs)]
  /\ gatewayDraining \in BOOLEAN
  /\ phase \in [Runs -> Phases]
  /\ outerGen \in [Runs -> Nat]
  /\ innerGen \in [Runs -> Nat]

(* The variables hold values of their types, and each run is queued or       *)
(* active exactly in the lanes its phase calls for: a run that ended, was    *)
(* refused or was interrupted by a restart occupies no slot, one that waits  *)
(* is found by the pump of its lane, and a lane with a backlog on either     *)
(* level has no slot free.                                                   *)
RunsTypeOK ==
  /\ Types
  /\ \A l \in AllLanes : Saturated(lanes[l])
  /\ \A r \in Runs :
       LET s == lanes[SessionOf[r]]
           g == lanes[GlobalOf[r]]
       IN /\ r \in Entries(s) <=> phase[r] = "sessionQueued"
          /\ r \in Entries(g) <=> phase[r] = "globalQueued"
          /\ r \in s.active <=>
               /\ phase[r] \in {"globalQueued", "executing", "innerSettled", "innerRefused"}
               /\ outerGen[r] = s.generation
          /\ r \in g.active <=> phase[r] = "executing" /\ innerGen[r] = g.generation

(* Two turns of one session execute together only if a restart came between  *)
(* the starts of their outer tasks.                                          *)
OverlapOnlyAcrossRestart ==
  \A r, q \in Runs :
    /\ r # q
    /\ SessionOf[r] = SessionOf[q]
    /\ phase[r] = "executing"
    /\ phase[q] = "executing"
    => outerGen[r] # outerGen[q]
=============================================================================
