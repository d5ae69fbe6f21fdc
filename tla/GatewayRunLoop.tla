--------------------------- MODULE GatewayRunLoop ---------------------------
(***************************************************************************)
(* The gateway's run loop, src/src/cli/gateway-cli/run-loop.ts, over the    *)
(* agent runs of the process: signals, the drain window, closing the        *)
(* server, the respawn or its in-process fallback, and the reset of the     *)
(* command lanes in the next iteration of the loop.                         *)
(*                                                                          *)
(* SIGUSR1 stands for an authorized restart signal (infra/restart.ts        *)
(* decides that); SIGTERM and SIGINT are one signal.  Closing the server    *)
(* may take arbitrarily long or fail, a failure is caught and counts as     *)
(* closed.  Closing does not stop agent runs: no part of server-close.ts    *)
(* aborts one.                                                              *)
(***************************************************************************)
EXTENDS EmbeddedRuns

CONSTANT
  UsesLock   (* acquireGatewayLock gives a lock, and not null: unless        *)
             (* OPENCLAW_ALLOW_MULTI_GATEWAY is set                          *)

ASSUME UsesLockAssumption == UsesLock \in BOOLEAN

VARIABLES
  loop,      (* "starting": params.start() runs; "awaiting": the loop waits  *)
             (* on restartResolver's promise; "exited": the process is gone  *)
  server,    (* TRUE while `server' refers to a started server               *)
  shutdown,  (* request()'s progress; "idle" when shuttingDown is false      *)
  action,    (* the action of the latest request                             *)
  waitIds,   (* the ids waitForActiveTasks captured                          *)
  drained,   (* whether the latest restart found its active tasks over       *)
  lock,      (* whether this process holds the gateway lock                  *)
  hadLock,   (* of handleRestartAfterServerClose: what it released           *)
  timer      (* whether forceExitTimer is armed                              *)

loopVars == <<loop, server, shutdown, action, waitIds, drained, lock, hadLock,
              timer>>
gatewayVars == <<runVars, loopVars>>

GatewayInit ==
  /\ InitRuns
  /\ loop = "starting"
  /\ server = FALSE
  /\ shutdown = "idle"
  /\ action = "none"
  /\ waitIds = {}
  /\ drained = FALSE
  /\ lock = UsesLock
  /\ hadLock = FALSE
  /\ timer = FALSE

Alive == loop # "exited"

ActiveTaskIds == UNION {{<<l, r>> : r \in lanes[l].active} : l \in AllLanes}

-----------------------------------------------------------------------------

(* `server = await params.start()', then the promise of the iteration. *)
StartCompletes ==
  /\ loop = "starting"
  /\ loop' = "awaiting"
  /\ server' = TRUE
  /\ UNCHANGED <<runVars, shutdown, action, waitIds, drained, lock, hadLock, timer>>

(* start() throws: the loop's finally releases the lock and the command ends. *)
StartFails ==
  /\ loop = "starting"
  /\ loop' = "exited"
  /\ lock' = FALSE
  /\ UNCHANGED <<runVars, server, shutdown, action, waitIds, drained, hadLock, timer>>

(* `await server?.close()': without a server the await is over in the same   *)
(* turn, and the finally block clears the timer.                             *)
BeginClose ==
  /\ shutdown' = IF server THEN "closing" ELSE "closed"
  /\ timer' = server

(* request("restart"): refuse new work and wait for what is active. *)
RequestRestart ==
  /\ Alive
  /\ shutdown = "idle"
  /\ MayRestart
  /\ MarkDraining
  /\ action' = "restart"
  /\ waitIds' = ActiveTaskIds
  /\ drained' = (ActiveTaskIds = {})
  /\ IF ActiveTaskIds = {}
     THEN BeginClose
     ELSE shutdown' = "draining" /\ timer' = TRUE
  /\ UNCHANGED <<loop, server, lock, hadLock>>

RequestStop ==
  /\ Alive
  /\ shutdown = "idle"
  /\ action' = "stop"
  /\ BeginClose
  /\ UNCHANGED <<runVars, loop, server, waitIds, drained, lock, hadLock>>

(* Faulty variant: one captured id being over is taken for all of them. *)
DrainCompletesEarly ==
  /\ Alive
  /\ shutdown = "draining"
  /\ waitIds \ ActiveTaskIds # {}
  /\ drained' = TRUE
  /\ BeginClose
  /\ UNCHANGED <<runVars, loop, server, action, waitIds, lock, hadLock>>

(* waitForActiveTasks resolves: the captured ids are over, or the time is.   *)
DrainCompletes ==
  /\ Alive
  /\ shutdown = "draining"
  /\ waitIds \cap ActiveTaskIds = {}
  /\ drained' = TRUE
  /\ BeginClose
  /\ UNCHANGED <<runVars, loop, server, action, waitIds, lock, hadLock>>

DrainTimesOut ==
  /\ Alive
  /\ shutdown = "draining"
  /\ waitIds \cap ActiveTaskIds # {}
  /\ BeginClose
  /\ UNCHANGED <<runVars, loop, server, action, waitIds, drained, lock, hadLock>>

(* The server has closed, or failed to: the finally block. *)
CloseCompletes ==
  /\ Alive
  /\ shutdown = "closing"
  /\ shutdown' = "closed"
  /\ server' = FALSE
  /\ timer' = FALSE
  /\ UNCHANGED <<runVars, loop, action, waitIds, drained, lock, hadLock>>

(* releaseLockIfHeld, the first step after the close. *)
ReleaseLock ==
  /\ Alive
  /\ shutdown = "closed"
  /\ lock' = FALSE
  /\ hadLock' = lock
  /\ shutdown' = "released"
  /\ UNCHANGED <<runVars, loop, server, action, waitIds, drained, timer>>

(* A stop exits.  A restart exits when a new process was spawned, a          *)
(* supervisor is to start one, or the lock cannot be taken back.             *)
Exit ==
  /\ Alive
  /\ shutdown = "released"
  /\ loop' = "exited"
  /\ UNCHANGED <<runVars, server, shutdown, action, waitIds, drained, lock, hadLock, timer>>

(* Faulty variant: the loop is woken without taking the lock back. *)
RestartUnlocked ==
  /\ Alive
  /\ shutdown = "released"
  /\ action = "restart"
  /\ hadLock' = FALSE
  /\ shutdown' = "idle"
  /\ IF loop = "awaiting"
     THEN ResetRunLanes /\ loop' = "starting"
     ELSE UNCHANGED <<runVars, loop>>
  /\ UNCHANGED <<server, action, waitIds, drained, lock, timer>>

(* The in-process restart: take back the lock that was released, if it was   *)
(* held (hadLock ends with the handler), then wake the loop, which           *)
(* resets the lanes (onIteration) and calls start() in the same turn.  While *)
(* an earlier start() is still running there is nothing to wake: the         *)
(* resolver is unset, or that of an iteration that is over.                  *)
RestartInProcess ==
  /\ Alive
  /\ shutdown = "released"
  /\ action = "restart"
  /\ lock' = hadLock
  /\ hadLock' = FALSE
  /\ shutdown' = "idle"
  /\ IF loop = "awaiting"
     THEN ResetRunLanes /\ loop' = "starting"
     ELSE UNCHANGED <<runVars, loop>>
  /\ UNCHANGED <<server, action, waitIds, drained, timer>>

(* forceExitTimer *)
ForceExit ==
  /\ Alive
  /\ timer
  /\ loop' = "exited"
  /\ UNCHANGED <<runVars, server, shutdown, action, waitIds, drained, lock, hadLock, timer>>

(* The runs go on while the process lives. *)
RunsStep == Alive /\ RunNext /\ UNCHANGED loopVars

GatewayNext ==
  \/ RunsStep
  \/ StartCompletes
  \/ StartFails
  \/ RequestRestart
  \/ RequestStop
  \/ DrainCompletes
  \/ DrainTimesOut
  \/ CloseCompletes
  \/ ReleaseLock
  \/ Exit
  \/ RestartInProcess
  \/ ForceExit

GatewaySpec == GatewayInit /\ [][GatewayNext]_gatewayVars

(* Some turn ends, or the promise of an ended one settles.  Each run does so *)
(* once, so fairness of all of them together is enough.                      *)
RunEnds == Alive /\ UNCHANGED loopVars /\ \E r \in Runs : InnerSettles(r) \/ OuterSettles(r)

(* Timers fire and continuations run: the 30 s wait, the forced exit, the    *)
(* steps after the close and the loop's own continuation; turns end while    *)
(* the process lives.  Neither start() nor close() is assumed to end.        *)
GatewayFairness ==
  /\ WF_gatewayVars(DrainCompletes \/ DrainTimesOut)
  /\ WF_gatewayVars(ForceExit)
  /\ WF_gatewayVars(ReleaseLock)
  /\ WF_gatewayVars(Exit \/ RestartInProcess)
  /\ WF_gatewayVars(RunEnds)

GatewayFairSpec == GatewaySpec /\ GatewayFairness

-----------------------------------------------------------------------------
(* Properties *)

(* The runs are in their lanes (RunsTypeOK), and the variables of the loop   *)
(* hold values of their types; the forced exit is armed exactly while a      *)
(* request waits for something that may hang, so it never kills a gateway    *)
(* that has restarted; a started server that is not being shut down is       *)
(* covered by the gateway lock, also after a failed respawn gave it away     *)
(* (where the process uses one).                                             *)
GatewayTypeOK ==
  /\ RunsTypeOK
  /\ loop \in {"starting", "awaiting", "exited"}
  /\ server \in BOOLEAN
  /\ shutdown \in {"idle", "draining", "closing", "closed", "released"}
  /\ action \in {"none", "restart", "stop"}
  /\ waitIds \subseteq AllLanes \X Runs
  /\ drained \in BOOLEAN
  /\ {lock, hadLock} \subseteq BOOLEAN
  /\ timer = (shutdown \in {"draining", "closing"})
  /\ Alive /\ server /\ shutdown = "idle" => lock = UsesLock

Closing ==
  /\ action = "restart"
  /\ drained
  /\ shutdown \in {"closing", "closed", "released"}

(* When the drain found its tasks over, no turn that took its session's slot *)
(* in this lifecycle executes while the server closes: what may still start  *)
(* during the drain had its outer task active at the signal, and everything  *)
(* else is refused.  Turns abandoned or preserved by an earlier in-process   *)
(* restart are excepted: nobody waits for them.                              *)
QuietAfterDrain ==
  Closing => \A r \in Runs :
    phase[r] = "executing" => outerGen[r] < lanes[SessionOf[r]].generation

(* Even when closing the server or a start() hangs, a stop ends in an exit,  *)
(* and a restart in an exit or with shuttingDown reset, that of a serving    *)
(* gateway with a new iteration.                                             *)
ShutdownEnds ==
  /\ shutdown # "idle" ~> loop = "exited" \/ (action = "restart" /\ shutdown = "idle")
  /\ (shutdown # "idle" /\ (action = "stop" \/ loop = "awaiting"))
       ~> (loop = "exited" \/ (action = "restart" /\ loop = "starting"))

Pending == {r \in Runs : phase[r] \notin Ended \cup {"unused"}}

(* Submitted runs end or die with the process, and there are finitely many:  *)
(* a run that holds its session's slot while it waits for a shared one is    *)
(* never waited for by the holder of that one, and no restart strands one.   *)
RunsEnd == (Pending # {}) ~> (Pending = {} \/ ~Alive)

(* Nothing hangs for good on a lane, on the drain or on the close: every     *)
(* shutdown and every submitted run comes to its end.                        *)
Progress == ShutdownEnds /\ RunsEnd

(* command-queue.ts:26, of gatewayDraining: "Set while gateway is draining   *)
(* for restart; new enqueues are rejected."  So it is set only from a        *)
(* restart request to the reset in the iteration that the request causes.    *)
DrainingOnlyForRestart == Alive /\ gatewayDraining => shutdown # "idle"
=============================================================================
