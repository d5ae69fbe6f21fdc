------------------------ MODULE RestartCoordination ------------------------
(***************************************************************************)
(* Restarts of the gateway: the scheduled and deferred restarts of           *)
(* src/src/infra/restart.ts, those of configuration changes in               *)
(* gateway/server-reload-handlers.ts, the acceptance of the signal in        *)
(* cli/gateway-cli/run-loop.ts, and what all of them wait for.               *)
(*                                                                          *)
(* The signal is emitted within the process and handled in the same turn:    *)
(* the authorization and the cycle token that emitGatewayRestart hands out   *)
(* are used up when it returns, so they are not state here.  What the loop   *)
(* does from request("restart") on is GatewayRunLoop's; here the gateway is  *)
(* shutting down until the loop starts it anew, or is not woken, or the      *)
(* process is gone.                                                          *)
(*                                                                          *)
(* Time is counted in ticks.  A check in between two ticks may come at any   *)
(* moment, and a timer may be late.                                          *)
(***************************************************************************)
EXTENDS ReplyDispatcher

CONSTANTS
  Delays,        (* delayMs of scheduled restarts *)
  Cooldown,      (* RESTART_COOLDOWN_MS *)
  MaxWait,       (* DEFAULT_DEFERRAL_MAX_WAIT_MS *)
  MaxRequests    (* bound: requests and signals *)

ASSUME RestartAssumption ==
  /\ Delays \subseteq Nat /\ Cooldown \in Nat /\ MaxWait \in Nat /\ MaxRequests \in Nat

VARIABLES
  gateway,   (* "up"; "shutting" while shuttingDown; "gone" *)
  loop,      (* "starting": params.start() runs; "awaiting": the loop waits
                on restartResolver's promise *)
  work,      (* whether queue entries or embedded runs are active *)
  timer,     (* pendingRestartTimer: ticks until it is due, or NoTimer *)
  cool,      (* what is left of the cooldown since lastRestartEmittedAt *)
  polls,     (* deferrals: ticks waited, and whether the reload handlers of
                the running server are to be told; or Off *)
  restartPending,  (* of the reload handlers of the running server *)
  requests,  (* the bound's counter *)
  owed,      (* history: "yes" while no start has followed some request;
                "missed" when its signal came to nothing *)
  fresh,     (* history: a request has followed the last emission *)
  cause      (* history: what began the latest shutdown *)

restartVars == <<gateway, loop, work, timer, cool, polls, restartPending,
                 requests, owed, fresh, cause>>
vars == <<dispatcherVars, restartVars>>

NoTimer == -1
Off == [waited |-> -1, reload |-> FALSE]

(* Each deferral stems from a request of its own. *)
Deferrals == 1..MaxRequests

Init ==
  /\ InitDispatchers
  /\ gateway = "up"
  /\ loop = "starting"
  /\ work = FALSE
  /\ timer = NoTimer
  /\ cool = 0
  /\ polls = [i \in Deferrals |-> Off]
  /\ restartPending = FALSE
  /\ requests = 0
  /\ owed = "no"
  /\ fresh = FALSE
  /\ cause = "none"

Alive == gateway # "gone"

(* The preRestartCheck, and getActiveCounts of the reload handlers. *)
Busy == work \/ PendingReplies

-----------------------------------------------------------------------------

(* Faulty variant: a scheduled restart outlives another one. *)
EmitKeepsTimer(why) ==
  /\ timer' = timer
  /\ cool' = Cooldown
  /\ fresh' = FALSE
  /\ IF gateway = "up" THEN gateway' = "shutting" /\ cause' = why ELSE UNCHANGED <<gateway, cause>>

(* emitGatewayRestart, and the loop's handler, which ignores the signal      *)
(* while it is shutting down.                                                *)
Emit(why) ==
  /\ timer' = NoTimer
  /\ cool' = Cooldown
  /\ fresh' = FALSE
  /\ IF gateway = "up" THEN gateway' = "shutting" /\ cause' = why ELSE UNCHANGED <<gateway, cause>>

Defer(reload) ==
  \E i \in Deferrals :
    /\ polls[i] = Off
    /\ \A k \in 1..i-1 : polls[k] # Off
    /\ polls' = [polls EXCEPT ![i] = [waited |-> 0, reload |-> reload]]

Asked ==
  /\ Alive
  /\ requests < MaxRequests
  /\ requests' = requests + 1
  /\ owed' = "yes"

(* Faulty variant: an earlier request is taken to its own delay only. *)
SchedulePulling(delay) ==
  /\ Asked
  /\ fresh' = TRUE
  /\ timer' = IF timer # NoTimer THEN (IF timer <= delay THEN timer ELSE delay) ELSE delay + cool
  /\ UNCHANGED <<dispatcherVars, gateway, loop, work, cool, polls, restartPending, cause>>

(* scheduleGatewaySigusr1Restart: the earlier of two scheduled restarts. *)
Schedule(delay) ==
  /\ Asked
  /\ fresh' = TRUE
  /\ timer' = IF timer # NoTimer /\ timer <= delay + cool THEN timer ELSE delay + cool
  /\ UNCHANGED <<dispatcherVars, gateway, loop, work, cool, polls, restartPending, cause>>

(* Its timer: emit, or wait until nothing is pending. *)
TimerFires ==
  /\ Alive
  /\ timer = 0
  /\ IF Busy
     THEN /\ Defer(FALSE)
          /\ timer' = NoTimer
          /\ UNCHANGED <<gateway, cool, fresh, cause>>
     ELSE Emit("idle") /\ UNCHANGED polls
  /\ UNCHANGED <<dispatcherVars, loop, work, restartPending, requests, owed>>

(* requestGatewayRestart of a configuration change. *)
ConfigChanges ==
  /\ Asked
  /\ IF Busy
     THEN /\ IF restartPending THEN UNCHANGED polls ELSE Defer(TRUE)
          /\ restartPending' = TRUE
          /\ fresh' = TRUE
          /\ UNCHANGED <<gateway, timer, cool, cause>>
     ELSE Emit("idle") /\ UNCHANGED <<polls, restartPending>>
  /\ UNCHANGED <<dispatcherVars, loop, work>>

(* Faulty variant: the wait has no limit. *)
PollWaitsForIdle(i) ==
  /\ Alive
  /\ polls[i] # Off
  /\ ~Busy
  /\ polls' = [polls EXCEPT ![i] = Off]
  /\ restartPending' = (restartPending /\ ~polls[i].reload)
  /\ Emit("idle")
  /\ UNCHANGED <<dispatcherVars, loop, work, requests, owed>>

(* A check of deferGatewayRestartUntilIdle ends the wait. *)
PollEnds(i) ==
  /\ Alive
  /\ polls[i] # Off
  /\ ~Busy \/ polls[i].waited = MaxWait
  /\ polls' = [polls EXCEPT ![i] = Off]
  /\ restartPending' = (restartPending /\ ~polls[i].reload)
  /\ Emit(IF Busy THEN "timeout" ELSE "idle")
  /\ UNCHANGED <<dispatcherVars, loop, work, requests, owed>>

(* A SIGUSR1 from outside, when the policy allows it. *)
ExternalSignal ==
  /\ gateway = "up"
  /\ requests < MaxRequests
  /\ requests' = requests + 1
  /\ gateway' = "shutting"
  /\ cause' = "external"
  /\ UNCHANGED <<dispatcherVars, loop, work, timer, cool, polls, restartPending, owed, fresh>>

(* params.start() has returned: the loop waits to be woken.                  *)
StartCompletes ==
  /\ Alive
  /\ loop = "starting"
  /\ loop' = "awaiting"
  /\ UNCHANGED <<dispatcherVars, gateway, work, timer, cool, polls, restartPending,
                 requests, owed, fresh, cause>>

(* The restart in process: a new server with reload handlers of its own.     *)
(* Timers and deferrals of the process go on.                                *)
Starts ==
  /\ gateway = "shutting" /\ loop = "awaiting"
  /\ gateway' = "up" /\ loop' = "starting"
  /\ owed' = "no"
  /\ restartPending' = FALSE
  /\ polls' = [i \in Deferrals |-> [polls[i] EXCEPT !.reload = FALSE]]
  /\ UNCHANGED <<dispatcherVars, work, timer, cool, requests, fresh, cause>>

(* The restart in process while start() still runs: nobody waits on          *)
(* restartResolver's promise, and the start goes on as if nothing had been   *)
(* asked.  A request that still has a timer or a deferral is not lost.       *)
Misses ==
  /\ gateway = "shutting" /\ loop = "starting"
  /\ gateway' = "up"
  /\ owed' = IF owed = "yes" /\ timer = NoTimer /\ \A i \in Deferrals : polls[i] = Off
              THEN "missed" ELSE owed
  /\ UNCHANGED <<dispatcherVars, loop, work, timer, cool, polls, restartPending, requests,
                 fresh, cause>>

(* The process ends, after a restart with a new process or for other reasons. *)
Exits ==
  /\ Alive
  /\ gateway' = "gone"
  /\ owed' = "no"
  /\ UNCHANGED <<dispatcherVars, loop, work, timer, cool, polls, restartPending, requests,
                 fresh, cause>>

WorkChanges ==
  /\ Alive
  /\ work' = ~work
  /\ UNCHANGED <<dispatcherVars, gateway, loop, timer, cool, polls, restartPending, requests,
                 owed, fresh, cause>>

Less(n) == IF n > 0 THEN n - 1 ELSE n

Waited(p) == IF p # Off /\ p.waited < MaxWait THEN [p EXCEPT !.waited = @ + 1] ELSE p

ClockTicks ==
  /\ Alive
  /\ timer' = Less(timer)
  /\ cool' = Less(cool)
  /\ polls' = [i \in Deferrals |-> Waited(polls[i])]
  /\ <<timer, cool, polls>>' # <<timer, cool, polls>>
  /\ UNCHANGED <<dispatcherVars, gateway, loop, work, restartPending, requests, owed, fresh, cause>>

DispatcherStep == Alive /\ DispatcherNext /\ UNCHANGED restartVars

Next ==
  \/ \E delay \in Delays : Schedule(delay)
  \/ TimerFires
  \/ ConfigChanges
  \/ \E i \in Deferrals : PollEnds(i)
  \/ ExternalSignal
  \/ StartCompletes
  \/ Starts
  \/ Misses
  \/ Exits
  \/ WorkChanges
  \/ ClockTicks
  \/ DispatcherStep

Spec == Init /\ [][Next]_vars

(* Timers fire, a shutdown ends, in whatever way the loop then is in         *)
(* (GatewayRunLoop!ShutdownEnds), and replies settle, as do microtasks.      *)
(* Neither turns nor start() need end.                                       *)
Fairness ==
  /\ WF_vars(ClockTicks)
  /\ WF_vars(TimerFires)
  /\ WF_vars(\E i \in Deferrals : PollEnds(i))
  /\ WF_vars(gateway = "shutting" /\ (Starts \/ Misses \/ Exits))
  /\ \A d \in Dispatchers :
       /\ WF_vars(Alive /\ Settle(d) /\ UNCHANGED restartVars)
       /\ WF_vars(Alive /\ ClearReservation(d) /\ UNCHANGED restartVars)

FairSpec == Spec /\ Fairness

-----------------------------------------------------------------------------
(* Properties *)

(* The variables hold values of their types, those of the dispatchers with   *)
(* the relation of their counters to their chains.  restartPending is set    *)
(* only while a deferral waits that will reset it; otherwise no change of    *)
(* the configuration could restart a busy gateway.                           *)
TypeOK ==
  /\ DispatchersOK
  /\ gateway \in {"up", "shutting", "gone"}
  /\ loop \in {"starting", "awaiting"} /\ owed \in {"no", "yes", "missed"}
  /\ {work, restartPending, fresh} \subseteq BOOLEAN
  /\ timer \in Nat \cup {NoTimer}
  /\ cool \in 0..Cooldown
  /\ \A i \in Deferrals :
       polls[i] = Off \/ (polls[i].waited \in 0..MaxWait /\ polls[i].reload \in BOOLEAN)
  /\ requests \in 0..MaxRequests
  /\ cause \in {"none", "idle", "timeout", "external"}
  /\ Alive => (restartPending <=> \E i \in Deferrals : polls[i].reload)

(* A scheduled restart is not due before the cooldown of the last emitted    *)
(* one is over, whatever is emitted and scheduled in between.  (A deferral   *)
(* knows no cooldown.)                                                       *)
TimerAfterCooldown == timer # NoTimer => timer >= cool

(* A restart that was not forced by the time limit or from outside begins    *)
(* only when each turn has ended and its replies, those it enqueued up to    *)
(* then, are delivered.                                                      *)
NoReplyCutOff ==
  [][gateway = "up" /\ gateway' = "shutting" /\ cause' = "idle"
       => ~work /\ \A d \in Dispatchers : ~Unfinished(d)]_vars

(* Restarts need requests of their own: after one was emitted another is     *)
(* only if a request came since, or a deferral was already waiting.          *)
OneRestartPerRequest ==
  [][gateway = "up" /\ gateway' = "shutting" /\ cause' # "external" /\ ~fresh
       => requests' > requests \/ \E i \in Deferrals : polls[i] # Off /\ polls'[i] = Off]_vars

(* Every request is followed by a start of the gateway, or its end, also if  *)
(* turns and other work never end; unless its signal was emitted, alone or   *)
(* with those of all other requests that wait, while an earlier start() was  *)
(* running (DrainingOnlyForRestart of GatewayRunLoop is about that case).    *)
RequestHonoured == owed = "yes" ~> owed \in {"no", "missed"}
=============================================================================
