--------------------------- MODULE HeartbeatWake ---------------------------
(***************************************************************************)
(* Requests for a heartbeat, src/src/infra/heartbeat-wake.ts: requests of a  *)
(* target coalesce in a map, one timer fires a batch, the registered handler *)
(* is called for one target after the other, and what it could not do is     *)
(* queued again behind a cooldown.  A new handler (an in-process restart)    *)
(* resets the module's timer and flags while a batch of the old one may      *)
(* still be running.                                                        *)
(*                                                                          *)
(* Delays are counted in ticks of the clock.  A reason is its priority.  The *)
(* order of the targets in a batch is left open.                             *)
(***************************************************************************)
EXTENDS Integers, FiniteSets

CONSTANTS
  Targets,       (* keys of pendingWakes *)
  Priorities,    (* of reasons: interval, default, action *)
  Delays,        (* coalesceMs of requests *)
  Retry,         (* DEFAULT_RETRY_MS *)
  Coalesce,      (* DEFAULT_COALESCE_MS *)
  MaxHandlers,   (* bound: handlers registered *)
  MaxRequests    (* bound: requests *)

ASSUME WakeAssumption ==
  /\ Priorities \subseteq Nat \ {0} /\ Delays \subseteq Nat
  /\ Retry \in Nat /\ Coalesce \in Nat
  /\ MaxHandlers \in Nat /\ MaxRequests \in Nat

VARIABLES
  handler,     (* the registered handler, a registration's number, or 0 *)
  generation,  (* registrations so far *)
  pending,     (* pendingWakes: the priority of a target's reason, or 0 *)
  scheduled,
  running,
  timer,       (* the timer, with the delay and kind its callback captured *)
  batches,     (* per handler and number: the batch its calls work through *)
  requests,    (* the bound's counter *)
  owed,        (* history: a target's request that no call has begun for *)
  cool,        (* history: what is left of a cooldown that was armed *)
  reset        (* history: an old handler's batch ended beside a newer one *)

vars == <<handler, generation, pending, scheduled, running, timer, batches,
          requests, owed, cool, reset>>

NoTimer == [left |-> -1, delay |-> 0, kind |-> "none"]

None == [t \in Targets |-> 0]

Larger(a, b) == IF a >= b THEN a ELSE b

(* Faulty variant: any timer that is due later is replaced. *)
ScheduleOverRetry(tm, delay, kind) ==
  IF tm # NoTimer /\ tm.left <= delay THEN tm
  ELSE [left |-> delay, delay |-> delay, kind |-> kind]

(* schedule(): a retry's cooldown stays, otherwise the earlier timer does.   *)
Schedule(tm, delay, kind) ==
  IF tm # NoTimer /\ (tm.kind = "retry" \/ tm.left <= delay) THEN tm
  ELSE [left |-> delay, delay |-> delay, kind |-> kind]

(* queuePendingWakeReason for some targets: the higher priority stays.       *)
Queue(p, more) == [t \in Targets |-> Larger(p[t], more[t])]

Only(t, priority) == [None EXCEPT ![t] = priority]

Init ==
  /\ handler = 0
  /\ generation = 0
  /\ pending = None
  /\ scheduled = FALSE
  /\ running = FALSE
  /\ timer = NoTimer
  /\ batches = {}
  /\ requests = 0
  /\ owed = None
  /\ cool = 0
  /\ reset = FALSE

-----------------------------------------------------------------------------

(* requestHeartbeatNow *)
Request(t, priority, delay) ==
  /\ requests < MaxRequests
  /\ requests' = requests + 1
  /\ owed' = Queue(owed, Only(t, priority))
  /\ pending' = Queue(pending, Only(t, priority))
  /\ timer' = Schedule(timer, delay, "normal")
  /\ UNCHANGED <<handler, generation, scheduled, running, batches, cool, reset>>

(* Numbers of a handler's batches; more than one only after a reset.         *)
Numbers == 1..MaxHandlers

(* The batch's call for one of its targets begins. *)
Calling(b, t) ==
  [b EXCEPT !.calling = t, !.todo = @ \ {t}]

(* Faulty variant: a batch under way does not hold up another. *)
MayFireUnchecked == timer.left = 0 /\ handler # 0

MayFire == timer.left = 0 /\ handler # 0 /\ ~running

(* The timer's callback starts a batch of all pending targets. *)
FireBatch ==
  \E n \in Numbers, t \in Targets :
    /\ MayFire
    /\ pending[t] # 0
    /\ \A b \in batches : b.handler = handler => b.number # n
    /\ \A k \in 1..n-1 : \E b \in batches : b.handler = handler /\ b.number = k
    /\ batches' = batches \cup
         {Calling([handler |-> handler, number |-> n, wakes |-> pending, calling |-> t,
                   todo |-> {u \in Targets : pending[u] # 0}, delay |-> timer.delay], t)}
    /\ owed' = [owed EXCEPT ![t] = 0]
    /\ pending' = None
    /\ running' = TRUE
    /\ scheduled' = FALSE
    /\ timer' = NoTimer
    /\ UNCHANGED <<handler, generation, requests, cool, reset>>

(* The callback finds no handler, or nothing pending. *)
FireIdle ==
  /\ timer.left = 0
  /\ handler = 0 \/ (~running /\ pending = None)
  /\ timer' = NoTimer
  /\ scheduled' = FALSE
  /\ UNCHANGED <<handler, generation, pending, running, batches, requests, owed, cool, reset>>

(* The callback meets a running batch and arms itself again. *)
FireBusy ==
  /\ timer.left = 0
  /\ handler # 0 /\ running
  /\ scheduled' = TRUE
  /\ timer' = Schedule(NoTimer, timer.delay, timer.kind)
  /\ UNCHANGED <<handler, generation, pending, running, batches, requests, owed, cool, reset>>

(* The callback's finally block, after what the batch queued again. *)
Finish(b, timer1) ==
  /\ batches' = batches \ {b}
  /\ running' = FALSE
  /\ timer' = IF pending' # None \/ scheduled THEN Schedule(timer1, b.delay, "normal") ELSE timer1
  /\ reset' = (reset \/ (b.handler # handler /\ \E x \in batches : x.handler = handler))

(* A retry that becomes the timer, also in place of a later normal one.      *)
Cooldown(timer1) == cool' = IF timer1 # timer THEN Retry ELSE cool

(* The rest of the batch, or its end.  `again' is what its call queued.      *)
Proceed(b, again, timer1) ==
  /\ pending' = Queue(pending, again)
  /\ Cooldown(timer1)
  /\ \/ \E t \in b.todo :
          /\ batches' = (batches \ {b}) \cup {Calling(b, t)}
          /\ owed' = [Queue(owed, again) EXCEPT ![t] = IF owed[t] <= b.wakes[t] THEN 0 ELSE owed[t]]
          /\ timer' = timer1
          /\ UNCHANGED <<running, reset>>
     \/ /\ b.todo = {}
        /\ owed' = Queue(owed, again)
        /\ Finish(b, timer1)
  /\ UNCHANGED <<handler, generation, scheduled, requests>>

(* The call is over: the heartbeat ran, was not wanted, or failed. *)
CallDone(b) == Proceed(b, None, timer)

(* "requests-in-flight": the target is tried again after the cooldown. *)
CallBusy(b) ==
  Proceed(b, Only(b.calling, b.wakes[b.calling]), Schedule(timer, Retry, "retry"))

(* Faulty variant: only the target whose call threw is queued again. *)
CallThrowsAlone(b) ==
  LET timer1 == Schedule(timer, Retry, "retry")
  IN /\ pending' = Queue(pending, Only(b.calling, b.wakes[b.calling]))
     /\ Cooldown(timer1)
     /\ owed' = Queue(owed, Only(b.calling, b.wakes[b.calling]))
     /\ Finish(b, timer1)
     /\ UNCHANGED <<handler, generation, scheduled, requests>>

(* The handler throws: the whole batch is queued again, with what was done.  *)
CallThrows(b) ==
  LET timer1 == Schedule(timer, Retry, "retry")
  IN /\ pending' = Queue(pending, b.wakes)
     /\ Cooldown(timer1)
     /\ owed' = Queue(owed, Only(b.calling, b.wakes[b.calling]))
     /\ Finish(b, timer1)
     /\ UNCHANGED <<handler, generation, scheduled, requests>>

(* Faulty variant: the running flag of the old lifecycle stays. *)
SetHandlerKeepingFlags ==
  /\ generation < MaxHandlers
  /\ generation' = generation + 1
  /\ handler' = generation + 1
  /\ timer' = IF pending # None THEN Schedule(NoTimer, Coalesce, "normal") ELSE NoTimer
  /\ cool' = 0
  /\ UNCHANGED <<pending, scheduled, running, batches, requests, owed, reset>>

(* setHeartbeatWakeHandler(next): timer, cooldown and flags start afresh. *)
SetHandler ==
  /\ generation < MaxHandlers
  /\ generation' = generation + 1
  /\ handler' = generation + 1
  /\ running' = FALSE
  /\ scheduled' = FALSE
  /\ timer' = IF pending # None THEN Schedule(NoTimer, Coalesce, "normal") ELSE NoTimer
  /\ cool' = 0
  /\ UNCHANGED <<pending, batches, requests, owed, reset>>

(* The disposer of the latest registration; earlier ones do nothing. *)
Dispose ==
  /\ handler # 0
  /\ handler' = 0
  /\ UNCHANGED <<generation, pending, scheduled, running, timer, batches, requests, owed, cool, reset>>

ClockTicks ==
  /\ timer.left > 0
  /\ timer' = [timer EXCEPT !.left = @ - 1]
  /\ cool' = IF cool > 0 THEN cool - 1 ELSE 0
  /\ UNCHANGED <<handler, generation, pending, scheduled, running, batches, requests, owed, reset>>

CallEnds == \E b \in batches : CallDone(b) \/ CallBusy(b) \/ CallThrows(b)

Next ==
  \/ \E t \in Targets, p \in Priorities, d \in Delays : Request(t, p, d)
  \/ FireBatch
  \/ FireIdle
  \/ FireBusy
  \/ CallEnds
  \/ SetHandler
  \/ Dispose
  \/ ClockTicks

Spec == Init /\ [][Next]_vars

(* Timers fire and calls of the registered handler end; calls of a replaced  *)
(* one, which a restart interrupted, may not.                                *)
Fairness ==
  /\ WF_vars(ClockTicks)
  /\ WF_vars(FireBatch \/ FireIdle \/ FireBusy)
  /\ WF_vars(\E b \in batches : b.handler = handler /\ (CallDone(b) \/ CallBusy(b) \/ CallThrows(b)))

FairSpec == Spec /\ Fairness

-----------------------------------------------------------------------------
(* Properties *)

(* The variables hold values of their types; the running flag is never left  *)
(* set without a batch.  Calls of one handler never overlap, unless a batch  *)
(* of an older handler ended beside its batch and reset the flag.            *)
TypeOK ==
  /\ handler \in {0, generation}
  /\ generation \in 0..MaxHandlers
  /\ \A t \in Targets : {pending[t], owed[t]} \subseteq {0} \cup Priorities
  /\ scheduled \in BOOLEAN
  /\ running => batches # {}
  /\ timer # NoTimer => timer.left \in 0..Larger(Retry, timer.delay)
  /\ \A b \in batches : b.todo \subseteq Targets \ {b.calling}
  /\ \A b, c \in batches : b.handler = c.handler /\ b # c => reset

(* A request that no call has begun for is pending, or in a batch under way, *)
(* with its own reason or one of higher priority, although batches are       *)
(* interrupted by errors and requests coalesce with what is queued again.    *)
NoWakeLost ==
  \A t \in Targets : owed[t] # 0 =>
    \/ pending[t] >= owed[t]
    \/ \E b \in batches : t \in b.todo /\ b.wakes[t] >= owed[t]

(* No request and no end of a batch shortens the cooldown of a retry that    *)
(* became the timer.                                                         *)
CooldownKept == [][~running /\ running' => cool = 0]_vars

(* While a handler stays registered, a pending target is taken into a batch. *)
WakeTaken ==
  \A t \in Targets : (pending[t] # 0 /\ handler # 0) ~> (pending[t] = 0 \/ handler = 0)
=============================================================================
