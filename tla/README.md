# Formal model of the lcx-s-agent gateway

The repository is a fork of OpenClaw: a gateway process that connects messaging
channels to language-model agents.  Its hard part is not a protocol between
machines but one Node.js process (and the command-line processes beside it) in
which many asynchronous activities share maps, promises, timers and files:
agent turns queue behind each other, messages arrive during a turn, the gateway
restarts inside its own process, deliveries survive crashes.  This directory
specifies those parts in TLA+, checks them with TLC and proves their safety
properties with TLAPS.

Paths of the form `src/...` below are relative to the repository's root; the
`map` of `PROJECT.json` names the lines each definition stands for.

Contents: 1 the system; 2 the modules; 3 the runs; 4 findings; 5 fairness;
6 proofs; 7 what is not modelled; 8 plan; 9 running the tools.

## 1 The system

### 1.1 Components, their state and operations

| component | state it keeps | operations | what is hard | what makes it correct |
|---|---|---|---|---|
| command lanes (`src/process/command-queue.ts`) | per lane: queue, active task ids, limit, generation; `gatewayDraining` | enqueue, pump, completion, set limit, clear, mark draining, reset, wait for active | completions of tasks from before a reset; limits changed under running tasks | no call lost or run twice; FIFO; limit kept; no idle backlog; a drain that reports success is one |
| agent runs over the lanes (`src/agents/pi-embedded-runner/run.ts`, `lanes.ts`) | where each run is: session lane, shared lane, executing | submit, nested enqueue, settle inside-out, clear, change limits | hold-and-wait: a run keeps its session's slot while it waits for a shared one | every run ends; freed slots are passed on at both levels; one run per session |
| gateway run loop (`src/cli/gateway-cli/run-loop.ts`) | server, lock, pending shutdown, forced-exit timer | signals, drain, close, release lock, respawn, in-process restart | a hanging close; signals at any time, also during start-up; old turns after a restart | a serving gateway holds the lock; a completed drain is quiet; restarts and stops end |
| followup queue (`src/auto-reply/reply/queue/`) | per session key: items, mode, cap and drop policy, summary of dropped ones, draining flag; cached run callback | enqueue, drop, drain one by one or collected, clear, retry | a drain loop holds its queue object over awaits while the map changes | nothing lost or run twice; one drain; never idle with work; the drain advances |
| delivery queue (`src/infra/outbound/delivery-queue.ts`) | one file per undelivered message, `failed/` | write ahead, send, acknowledge, fail, recover with backoff, give up | crashes between file operations; recovery beside live calls | what was accepted is on disk, failed, delivered or aborted; recovery ends |
| session write lock (`src/agents/session-write-lock.ts`) | lock file; per process `HELD_LOCKS` with counts | acquire, share, reclaim, release, watchdog, exit handlers, sweep | check-then-act on a file over several processes; removal by path | an undisturbed lock keeps its file to the last release; no leak; counts match holders; a lock is given up |
| cron service (`src/cron/service/`) | job store on disk and in memory, running markers, timer | start, stop, tick, manual run, edit | jobs run outside the store's lock; two services on one store | executions of a job exclude each other; edits are not undone; no past-due run is skipped; due jobs run |
| heartbeat wakes (`src/infra/heartbeat-wake.ts`) | pending wakes by target, timer, running flag, handler generation | request, fire, retry, replace handler | a replaced handler's batch ends late | no wake lost, none starved; a retry's cooldown kept |
| exec approvals (`src/gateway/exec-approval-manager.ts`) | pending entries with promise and timer | register, resolve, expire, wait, consume | answer, timeout and grace period race | a one-time approval is consumed once; nothing left of a request ends another of its id; everyone is answered |
| restart coordination (`src/infra/restart.ts`, `src/auto-reply/reply/reply-dispatcher.ts`) | scheduled restart, cooldown, deferrals; per dispatcher its counter and chain of replies | schedule, pull earlier, defer, poll, emit; create, enqueue, settle, complete | schedules, deferrals and external signals meet; replies enqueued after completion | no reply cut off by a restart that was not forced; one restart per request; every request honoured |
| subagent registry (`src/agents/subagent-registry.ts`) | runs, announce retries, cleanup flags, file | register, complete, announce, retry, restore, sweep | completion heard from two sides; crash between announce and record | each completion announced, cleaned up once |
| gateway lock, session store, auth profiles, process supervisor, config reload, node registry | see `PROJECT.json` | | | |

The rest of the repository (channels, command line, tools, memory, media,
browser, finance and learning workflows, clients) is input and output, data
transformation or user interaction; `PROJECT.json` lists it with reasons.

### 1.2 Interactions

- A message of a channel reaches the reply agent.  If the session has an active
  turn it goes to the **followup queue**, else it becomes a run.
- A run enters its **session lane** and from inside that task the **shared lane**
  of its kind, both in the **command lanes**; in its slot it takes the **session
  write lock** for the transcript.
- Replies go to the **delivery queue**'s write-ahead entry and then to the
  channel; a new gateway start sends what is left.
- The **run loop** marks the lanes as draining, waits for the active tasks,
  closes the server and, in an in-process restart, resets the lanes: their
  generations increase and completions of older tasks are ignored.
- A reply dispatcher registers itself before its first reply and reserves its place
  until it is complete; **restart coordination** counts lanes, runs and dispatchers and
  puts a restart off while any of them is busy, up to a time limit.  The signal it
  emits is the one the run loop takes.
- **Cron** and finished commands request **heartbeat wakes**; a heartbeat is skipped
  while the main lane is busy and comes back as a retry.
- A run that wants to execute a command on a node asks for an **approval** over a
  gateway method and waits for its decision.
- The lanes, the followup queues, the dispatchers and the heartbeat state are
  module-level variables: they survive an in-process restart, a crash loses them.

JavaScript runs to completion between awaits, so in every module an action is a
synchronous segment of code, and all interleavings are those at awaits, timers,
promise continuations, file operations and processes.

## 2 The modules

Each module states the code it models at its head.  "Faulty variant" operators
beside a definition are what a plausible bug would turn it into; they are in no
next-state relation, and `PROJECT.json` pairs each with a property it breaks.

**LaneOps** - one lane as a record `[queue, active, maxConcurrent, generation]`
and its operations as operators: `Push`, `SetMax` (clamped as in
`setCommandLaneConcurrency`), the pump, `ResetLane` and the predicates `Saturated`, `EachOnce`
that both lane modules share, with the two variables of the file, `lanes` and
`gatewayDraining`.  The pump's loop is a closed form: as many entries
as there are free slots.  It is a module of its own because it is proved about.

**CommandQueue** - all lanes of a process and the calls made to them.
A task is a call of `enqueueCommandInLane`; `status` follows its promise.  Actions:
`Enqueue` (accepted or refused while draining), `Finish` (either way, also of a task of an
older generation), `SetLaneConcurrency`, `ClearLane`, `MarkGatewayDraining`, `ResetAllLanes`,
`StartWait`, `WaitDrained`, `WaitTimeout`.  `ticket` and `startedIn` are history: the order of
acceptance, and the generation a task was started in (which the code keeps in the closure
of the pump).

**LaneService** - the abstract specification: what a caller of the queue relies on,
without slots, limits, generations or active sets.  A lane is a sequence of waiting
calls; calls are accepted at its end or refused, served from its head, cleared all at once, and settle.
If the running ones settle, every waiting call is served or cleared.  CommandQueue
implements it under the mapping `waiting[l] = lanes[l].queue` (`ImplementsService`).

**EmbeddedRuns** - nested queueing.  A nested enqueue happens in the
synchronous prefix of the outer task, that is inside the pump; the chain is
computed on a record of the state (`World`), one function per call of the code.  The inner and the
outer promise settle in different turns of the event loop: `InnerSettles`, then
`OuterSettles`.

**GatewayRunLoop** - extends EmbeddedRuns by the run loop.  `shutdown` goes
idle, draining, closing, closed, released; `loop` starting, awaiting, exited; `lock` is the gateway lock, where
`acquireGatewayLock` gives one (`UsesLock`), and `hadLock` what the restart has to get back.  It
composes the two by letting every step of the runs happen beside the loop's
own, and uses the runs' own actions where the loop marks, resets or abandons the lanes.
Its definitions are named `Gateway...` where CommandQueue has one of the same kind, so that
one module can prove theorems about both.

**FollowupQueue** - the queues of one session key.  Queue objects have
identities since the code removes and recreates them under loops that still hold
the old one; a drain loop is cut at its awaits (debounce, collect check, run).  The loop's
synchronous part, deduplication by message id, the drop policies and the cross-channel
check are modelled; texts are not.

**DeliveryQueue** - the entry of a delivery (present, readable, retry count,
attempted), its call and the recoveries of each gateway start.  Boot may happen with
calls of the same process under way (in-process restart) or after a crash.  Every file operation
may fail as well as succeed, and the callers swallow or log that as the code does.  `failDelivery` is read, write and rename over three steps;
its temporary file (`tmp`) is one per entry and process, so two writers that overlap may garble it, and one may find its
file renamed away by the other.  `accepted`, `sent` and `aborted` are input of the properties; `handled` and `faulty` are history: the deliveries a call or
recovery was done with, and those of which a failed file operation was swallowed while the entry was there.  Beyond the types, `TypeOK`
relates a recovery at work to the entry it loaded and calls to the process that runs.

**SessionWriteLock** - one session file, several processes.  The lock file is
named by its creator; `written` and `old` qualify it, `held`, `count` and `entry` are `HELD_LOCKS`.
`mishaps` counts deaths, signals, evictions, expiries, sweeps of an existing
file, and failing stats and removals, so that "undisturbed" is `mishaps = 0`.  A stat that fails with anything but ENOENT lets
`shouldReclaimContendedLockFile` answer "reclaim", as the code's catch does; a removal that fails leaves the file, whose creator `unremoved` then holds.

**CronService** - one store (`disk`) and the services of successive gateway
starts, each with its copy in memory (`mem`), its phase and its tick.  What runs under the store's lock is
one action; executions (`execs`) are queued, run and apply their results outside
it, for a tick, the start-up catch-up or a manual run.  A failed write, a crash,
a removal or change of a job and the replacement of a service are disturbances; `handover` and `excused` remember
those after which the code itself no longer separates two executions.

**HeartbeatWake** - `pending` is the map of wakes, `timer` carries the delay and kind
its callback captured, `batches` are the calls under way, each with the handler that was registered
when it began.  `owed`, `cool` and `reset` are history.

**ReplyDispatcher** and **RestartCoordination** - the dispatchers with their counter
`pending`, their chain of deliveries and the reservation that the microtask or
the last delivery clears; and above them schedule, cooldown, deferrals with their
polls, external signals and the run loop's answer to the signal, seen from outside: the gateway shuts
down, then starts again or ends - or, when its signal met a start-up (`loop = "starting"`), the wake-up finds nobody to wake and the
server that was starting goes on (`Misses`).  RestartCoordination extends ReplyDispatcher and lets
its steps happen while the gateway lives.

**ExecApproval** - requests with ids that may be used again, the entry under its
id with promise, timer and grace period, consumption, waits, and the handler of the request
that forwards it and expires it when there is nobody to ask.

**MC modules** give the constants of the runs.  **CommandQueueProofs**,
**FollowupQueueProofs**, **DeliveryQueueProofs**, **SessionWriteLockProofs**, **CronServiceProofs**,
**RestartProofs**, **ExecApprovalProofs** and **HeartbeatWakeProofs** hold
the theorems, each about the component it is named for, the first also about the agent runs
and the run loop, which rest on the same lemmas about one lane.

## 3 The runs

Every passing run explores all states of its instance.

| run | instance | shows |
|---|---|---|
| CommandQueue | 3 tasks of one lane, a second lane, limits 0 and 2, one reset; 54 000 states | `Accounted`: every call is accounted for; `ActiveIsCurrent`: active ids are tasks of the current generation; `NoIdleBacklog`; `DrainedIsTrue`; `StartsWithinLimit`; `ImplementsService`: the queue implements LaneService, its liveness included |
| GatewayRunLoop | 3 runs, 2 sessions, one shared lane, limits 0 and 2, one restart; 127 000 states | `GatewayTypeOK`: runs are where their phase says, a lane with a backlog is full, the lock covers serving, the forced exit is armed only while something may hang; `OverlapOnlyAcrossRestart`; `QuietAfterDrain`; `Progress`: shutdowns and runs end although close may hang |
| FollowupQueue | 3 messages, one redelivered, with and without routing metadata, collect (cap 2, summarize) and followup (cap 1, drop old), one clear, one failing run; 3 300 states | `TypeOK`: loops overlap only after a clear; `DeliveredOnce` and `NothingLostWithinCap`; `QueuedIsDelivered` |
| DeliveryQueue | 1 delivery of 2 payloads, 2 gateway starts, 2 retries, with and without `bestEffort`, any file operation failing; 157 000 states | `TypeOK`: a recovery works on what it loaded and has retries left; `NothingLost`: on disk until sent, failed or aborted; `LeftoverIsTimed`: what a call or recovery was done with is gone or under backoff, unless a file failure was swallowed; `RecoveryEnds` |
| SessionWriteLock | 2 callers in the gateway, 1 in another process, 2 attempts each, one mishap; 279 000 states | `TypeOK`: counts match holders; `FileKeptUntilLastRelease`; `NoLeakedLock`; `LockIsGivenUp` |
| CronService | a recurring and a one-shot job, one manual run, 2 services, 2 disturbances, clock to 2; 51 000 states | `TypeOK`: no marker is left behind; `NoOverlap`; `EditsStick`; `NoSilentSkip`; `DueJobRuns` |
| HeartbeatWake | 2 targets, 2 priorities, 3 delays, a cooldown of 2, 2 handlers, 3 requests; 325 000 states | `TypeOK`: batches of a handler do not overlap, but for a leftover of the old one; `NoWakeLost`; `CooldownKept`; `WakeTaken` |
| RestartCoordination | 1 dispatcher of 2 replies, 3 requests, a cooldown of 2, polls up to 1; 261 000 states | `TypeOK`: `restartPending` is never left set; `TimerAfterCooldown`; `NoReplyCutOff`; `OneRestartPerRequest`; `RequestHonoured`: a request leads to a restart or an end, unless its signal met a start-up |
| ExecApproval | 2 requests of one id, 1 of another, 1 wait, time limit 3, grace 1; 114 000 states | `TypeOK`: entries stay reachable through their grace period; `ConsumedOnce`; `NoForeignExpiry`; `AllAnswered` |
| the violation runs | as small as the case allows | section 4 |

Why the bounds are enough.  *Lanes*: lanes share only the draining flag, so the tasks are put in one; three let two of them
change places behind a third, and a second reset only repeats
the first with other numbers (generations are compared for equality).  The proofs cover all sizes.  *Run loop*: two runs of one
session and one of another over a shared lane cover hold-and-wait on either level, and one
restart lets a late completion meet lanes of a later generation.  A second restart adds turns that were preserved twice, which
takes three sessions to tell apart from the others; those instances were explored for safety alone (four runs, three sessions, two restarts; 3.3 million states)
and are covered by the proofs, as are all sizes.
*Followup*: three messages fill a cap of one or two and leave one to arrive
during the drain.  *Delivery*: entries do not interact, two payloads distinguish "some" from "all",
and two starts give two recoveries beside the call, which is every pair of writers of one entry; failures of file
operations are not bounded.  *Lock*: sharing needs two callers of a
process and exclusion one of another; two attempts let a caller lose a race and come back.
One mishap suffices for the leak properties; the exclusion property is about none, and the proofs are about any number.
*Cron*: jobs interact through the store and the one worker, so two of different kinds suffice; two
services are an old one beside its successor; a clock of three instants has one before, at and after
the stuck limit of 1.  *Heartbeat*: a batch needs a target that is called and one that waits for it;
three requests reach the map before, during and after a batch; a delay of 3 is a timer that the cooldown of 2
preempts; two handlers are an old and a new one.  *Restart*: dispatchers are summed up by a predicate on each, and three requests
are one that is waiting, one that coalesces and one that follows.  *Approvals*: an id used twice and one
beside it; the request's time limit outlasts the grace period of its predecessor.

Bounds and their names: `MaxResets`, `MaxClears`, `MaxFailures`, `MaxBoots`, `MaxRetries` (a constant of
the code, made small), `MaxTries` (attempts before a timeout), `MaxMishaps`, `MaxServices`, `MaxNow`, `MaxDisturbances`,
`MaxHandlers`, `MaxRequests`, `MaxReplies`; times of the code made small: `StuckAfter`, `Retry`, `Coalesce`, `Cooldown`, `MaxWait`, `Timeout`, `Grace`.
Deadlock checking is off where the system may stop: an exited process, calls that have all
been made, a clock at its bound.

## 4 Findings

Each is a run that TLC refutes, with the sentence of the repository it contradicts.

1. **A queued message is shifted away unrun** (`FollowupQueue_lost`).  Outside collect mode the summary of dropped messages is run
   through the helper that shifts the head item afterwards: the head leaves the queue although the turn carried only the summary.
2. **The gateway drains for good** (`GatewayRunLoop_draining`).  A restart signal accepted during start-up marks the
   lanes as draining and wakes nobody.
3. **A job skipped at the end of start-up** (`CronService_skip`).  The catch-up takes care not to advance what became due
   while it ran, but `start()` then recomputes all next runs, which advances exactly that.

Met while modelling, and kept out of the runs by a precondition or an exception that
the property states:

- Without process start times (`getProcessStartTime` is Linux only) a lock file of the own pid without
  an entry in `HELD_LOCKS` is taken for an orphan, but a lock is in that state while it is created
  and while it is released; a second caller of the process can remove it.  The lock's run has `StarttimeKnown = TRUE`.
- Recovery passes `bestEffort` without the `onError` through which the caller learns of failures: payloads
  fail silently and the entry is acknowledged.  `NothingLost` is about deliveries whose failures come to notice.
- Any `AbortError`, also one of the channel's own operations and not of the caller's signal, acknowledges the entry (`deliver.ts:497`).
- What `ackDelivery` and `failDelivery` throw is swallowed (`deliver.ts:489-502`, and logged in the recovery): an entry that could not be removed or rewritten
  stays as it was, without an attempt on record, and the next start sends it again at once.  `LeftoverIsTimed` excepts it (`faulty`).
- `failDelivery` writes to a temporary path that the entry and the pid name alone (`delivery-queue.ts:135-140`).  A call and a recovery of one process, or two recoveries, may
  overlap in it; the entry can then be garbled, and `loadPendingDeliveries` skips it from then on.
- `shouldReclaimContendedLockFile` takes a lock file without a payload for stale when its stat fails with another code than ENOENT
  (`session-write-lock.ts:366-369`), so a lock that is being created can be removed; `FileKeptUntilLastRelease` speaks of locks without such a failure.
- A removal of the lock file that fails at release is dropped (`session-write-lock.ts:155-160`): the entry is gone from `HELD_LOCKS`, the file
  stays until it is reclaimed.  `NoLeakedLock` excepts it (`unremoved`).
- When messages were dropped and no item is left, a drain loop of the followup queue schedules itself again
  without end; the liveness property is about queued messages.
- After a drain timeout an in-process restart forgets the running turn and starts the next one of its
  session (`OverlapOnlyAcrossRestart` names the case).
- A turn that an in-process restart preserved in the shared queue lost its session's slot to the reset.  The next drain does not capture
  it, but the pump starts it when a captured turn ends; the drain then reports all active tasks over (`run-loop.ts:125`) and the server is closed
  under that turn.  It takes two restarts and three sessions.  `QuietAfterDrain` excepts it: it speaks of turns that took their session's slot in this lifecycle.
- A deferral that was waiting while another path restarted the gateway restarts it again (`OneRestartPerRequest`
  names it), and knows no cooldown.
- A batch of a replaced heartbeat handler resets the running flag of the new one's batch (`TypeOK` of HeartbeatWake).
- Two processes that reclaim a *stale* session lock at the same moment can both end with it; the startup sweep has no age check
  for a lock file without payload.  Deliveries are sent at least once, so duplicates after a failure are expected.

## 5 Fairness

Assumed only where the code arranges for it.
- A started task, turn or followup run settles: agent turns carry timeouts (`CommandQueue`, `GatewayRunLoop`, `FollowupQueue`).
- Promise continuations run (`OuterSettles`, the loop's own steps, a drain loop's steps, the answers of `ExecApproval`).
- Armed timers fire: the drain timeout and the forced exit (`GatewayRunLoop`), the retry delay of a contender (`SessionWriteLock`), the
  heartbeat timer, the restart timer and the deferral's poll, the time limit and grace period of an approval.  Where delays are
  counted (but in CronService), the clock ticks.
- File operations end, well or not (`DeliveryQueue`, `SessionWriteLock`), and a holder of a lock releases it, as every caller does in a `finally`.
- Cron sections get the store's lock, due timers fire, and the executor runs what is queued: executions have a timeout.  That time passes
  is not needed: `DueJobRuns` is about jobs that are due.
- Calls of the *registered* heartbeat handler end; those of a replaced one, interrupted by a restart, may hang.
- Deliveries of a dispatcher settle while the process lives.  A shutdown that the run loop began comes to a start, an exit, or, when its signal met a
  start-up, to a wake-up that nobody waits for: `WF(shutting /\ (Starts \/ Misses \/ Exits))` in RestartCoordination.  That it does
  is `ShutdownEnds`, a part of `Progress` of GatewayRunLoop, where close and start may hang: every shutdown ends in an exit or a restart with `shuttingDown` reset, and
  one of a serving gateway in an exit or a new iteration.  Whether a shutdown ends as `Starts` or as `Misses` is the loop's place, not a choice of
  fairness, and nothing makes `StartCompletes` happen: a gateway may start for ever.  So `RequestHonoured` promises a restart only to a request whose signal met no
  start-up; what becomes of the others is finding 2.  Turns and other work may never end: `RequestHonoured` holds through the deferral's limit.

Not assumed: that anybody submits work, asks or decides, that `start()` or `close()` of the server ends, that crashes stop or happen,
that a message arrives, that the watchdog is on time, that a wait for an approval is made.  All fairness is weak.

## 6 Proofs

Proved for every value of the constants, under the assumptions that the modules name
(finite set of tasks, ranges of limits and times, functions of the expected types):

| module | theorem | statement |
|---|---|---|
| CommandQueueProofs | `Invariance`, `TypeCorrect` | `[]IndInv`, `[]TypeOK` |
| | `NothingLost` | `[]Accounted`: queue entries are the pending calls, each once |
| | `NoSlotLeaks` | `[]ActiveIsCurrent`: active ids are the running tasks of the current generation |
| | `NoLostWakeup` | `[]NoIdleBacklog`: a lane with a backlog has no free slot |
| | `DrainAnswersTrue` | `[]DrainedIsTrue`: `waitForActiveTasks` says drained only when it is so |
| | `LimitRespected` | `StartsWithinLimit`: no start takes a lane past its limit |
| | `FirstInFirstStarted` | `[]LaneFifo`: a lane starts its calls in the order of acceptance |
| | `ImplementsSafety` | CommandQueue implements the safety half of LaneService |
| | `GatewayInvariance`, `GatewayTypeCorrect` | GatewayRunLoop: `[]LoopInv`, `[]GatewayTypeOK` |
| | `OverlapsOnlyAcrossRestart` | `[]OverlapOnlyAcrossRestart`: turns of a session overlap only across a restart |
| | `QuietWhenDrained` | `[]QuietAfterDrain`: a drain that succeeded leaves no turn of this lifecycle |
| FollowupQueueProofs | `TypeCorrect`, `RunOnce`, `NoneLost` | `[]TypeOK`, `[]DeliveredOnce`, `[]NothingLostWithinCap` |
| DeliveryQueueProofs | `TypeCorrect`, `DeliveryKept`, `LeftoverTimed` | `[]TypeOK`, `[]NothingLost`, `[]LeftoverIsTimed`, whatever file operations fail |
| SessionWriteLockProofs | `TypeCorrect`, `NothingLeaks` | `[]TypeOK`, `[]NoLeakedLock` |
| | `FileKept` | `[]FileKeptUntilLastRelease`, where process start times can be read |
| CronServiceProofs | `TypeCorrect`, `RunsExcludeEachOther` | `[]TypeOK`, `[]NoOverlap` |
| | `EditsStay`, `NoneSkipped` | `EditsStick`, `NoSilentSkip` |
| RestartProofs | `TypeCorrect`, `CooldownRespected` | `[]TypeOK`, `[]TimerAfterCooldown` |
| | `RepliesDelivered`, `NoSecondRestart` | `NoReplyCutOff`, `OneRestartPerRequest` |
| ExecApprovalProofs | `TypeCorrect`, `UsedOnce`, `ExpiryIsOwn` | `[]TypeOK`, `[]ConsumedOnce`, `NoForeignExpiry` |
| HeartbeatWakeProofs | `TypeCorrect`, `WakeKept`, `CooldownRespected` | `[]TypeOK`, `[]NoWakeLost`, `CooldownKept` |

**Lanes.**  None of the three safety invariants is inductive alone.  That a completion frees a slot of the right lane needs
the active ids to be the running tasks of the *current* generation, and that the pump
runs each entry once needs the queue to hold pending calls once each; both need the types.  `IndInv`
is their conjunction with `NoIdleBacklog` and the fact that no task was started in a
generation its lane has not reached (else a reset could make an old task look current).
The module's first part states what the operators of one lane do: the pump moves a prefix of the queue into
the active set, keeps entries distinct and leaves the lane saturated; a
clamped limit is at least one.  The step proof has one case per action and cites those lemmas.

The order proofs rest on one lemma, `StepIsPump`: every step hands some lanes and statuses to `PumpLanes`, having changed
them only a little (a queue is unchanged, emptied or one new call longer; a status moves forward; no generation goes back).
What the pump does to that is `PumpLanesEffect`.  `DrainedIsTrue` is strengthened by "only begun tasks are waited for": a begun
task never starts again, so its start generation is fixed and only a reset can leave it behind.  `LaneFifo` is strengthened by
"queues are in ticket order and no ticket exceeds the number of calls": the pump takes a prefix, so what it leaves is later.
`StartsWithinLimit` follows from the count of the pump in the state the action handed over.

**The refinement.**  `PumpServes` shows that a pump of some lanes is a `Serve` of the abstract lanes: each loses
a prefix, and exactly its calls begin.  A step of the queue is then an acceptance, refusal, settlement or clear
followed by that, and the rest (limits of lanes without a backlog, waits, the draining flag) leaves the mapped variables alone.

**Runs and run loop.**  A step of the runs is a composition of functions of the world, up to three pumps deep, so the
invariant is one of worlds.  `Placed` says of a world that a lane's queue and active set are the runs that their phases and start generations put there, that session
lanes have the limit 1, that no start lies in a future generation, and that of one session at most one run with
a given outer generation has begun and not ended.  Between a push, a freed slot or a new limit and the pump that follows, one lane may have
a backlog beside a free slot; `SaturatedBut` names it, and the lemmas `PumpGlobalKeeps` and `PumpSessionKeeps` take `Placed` and
`SaturatedBut` to `Placed` and `AllSaturated`.  What precedes the pump changes one lane and some phases (`OneLane`).  The reset is proved directly
(`ResetKeeps`): every generation grows by one, so no earlier start is current, the runs that the session lanes wake are new to
the shared lanes, one per session (`AloneStarts`), and whatever the order in which they join, the sequence has each once
(`SetToSeqsFacts`, by counting).

`OverlapOnlyAcrossRestart` is then a part of `Placed`.  For `QuietAfterDrain` the runs must not undo the drain: every step of theirs is `Tame`, that
is, while the lanes refuse work no run becomes busy and no generation changes, because a run that gets its session's slot is refused by the shared lane.
`DrainHolds` follows the request through its phases: a busy run of this lifecycle is active in its session's lane, so its id is captured at the signal
and stays captured; when the captured ids have left the lanes no such run is left, and none appears until the reset.  It fails for a turn whose outer task is of an
earlier generation (section 4).  `LoopInv` is the conjunction with the types of the loop's variables and the strengthening that
a lock, where one is used, is held until it was released after the close, not only while a server runs, and that `hadLock` remembers it until it is back; TLC checked it before it was proved, over instances with up to two restarts.

**Followups.**  `DeliveredOnce` is about a message and the runs it was in, `NothingLostWithinCap` about a message and one queue; neither
says what a drain loop may find when it comes back from an `await`.  `IndInv` does: each loop drains a queue object of its
own, before the first clear that of the key (`LoopsOK`); an item is in one place of one queue, with its
fate open (`ItemsOK`); before anything was dropped or cleared every queued message is in the key's queue (`KeptOK`); and the batch of a running turn was
in no completed one and is in no other, its items standing where the end of the run removes them (`RunsOK`).  The last is
where the code is delicate: a run removes the first items of the queue as it stands *after* the turn; that
the cap may drop from its front meanwhile is why `NothingLostWithinCap` ends with the first drop.  Enqueueing is the composition of small
functions of the world (creating the object, applying the drop policy, appending, starting a loop), each with
a lemma of its own that it keeps `Safe`.  That a loop is idle when one has to start follows from a count: there are as many loops as
messages, and a running loop has an object to itself, created by a message.

**Deliveries.**  `NothingLost` speaks of the disk, but what removes an entry is a call or recovery acting on
what it believes.  `IndInv` therefore says of every step of each of them what it knows: one that is about to acknowledge has sent
every payload before, or nobody hears of its failures, or it was aborted; a loaded entry, and one about to be written back,
fits its delivery; a recovery works on an entry it has loaded.  Crashes and a second recovery
keep this since nothing in it depends on who else is working, and a failing operation since it leaves the disk alone.
`LeftoverIsTimed` needs more, because a rename may bring back an entry that an acknowledgement removed: `TimedInv` says that whatever lies in the temporary file of an entry
is garbled or has its attempt on record, so that nothing a rename brings is untimed.

**Session lock.**  An entry of `HELD_LOCKS` counts its holders (`EntryCounted`) only together with where its creator and the processes of
its holders are: a caller that publishes an entry must not find holders of it, nor one of another process.  `NoLeakedLock` is strengthened by
the process of the removal, since one by another process would be forgotten when that process dies.
`FileKeptUntilLastRelease` needs two more facts while nothing went wrong: no caller has reason to call the file stale (`NothingStale`),
and the file is that of the only process with an entry (`OneOwner`).  "Nothing went wrong" includes the stat of a contended file: where it fails, the code
reclaims.  It is proved under `StarttimeKnown`: without start times (other systems than Linux)
`shouldReclaimContendedLockFile` takes a file of the own process that has no entry *yet* for an orphan, which the constant lets TLC show.

**Cron.**  What excludes two executions of a job is the marker `runningAtMs` in the store and in every copy of it that the serving process works on
(`MarkersBlock`): each execution owns the marker its job carries, and no other execution has that job.  It is inductive only together with
who executes at all: a service that was not started, or was replaced without a handover, has no executions and no timer (`OneService`), and a tick or catch-up
has a batch exactly while it waits for it (`Batches`).  For the two action properties the copy in memory has to agree with the
store but for maintenance (`CopyCurrent`), as long as no write failed; then one lemma, `StepFaithful`, goes through the sections under the store's lock: each leaves the
disk with no job or enabling that was not there, and moves a due time only for an execution or an edit.

**Restarts.**  A dispatcher's counter is its undelivered replies plus the reservation, and the registry holds it as long as that is
not zero (`DispatchersOK`): a poll that finds nothing pending has found every turn over and every reply from before its end delivered.  A scheduled restart was asked for after
the last emission (`TimerOK`), because emissions cancel the timer; one deferral at most tells the handlers of the running
server (`ReloadsOK`), which is why resetting it never resets another's flag.

**Approvals.**  The map and the entries agree both ways (`MapSound`, `MapComplete`): a timer's lookup by id finds its own entry
because an entry stays under its id as long as it is open or in its grace period, and registration refuses an id in use.  `ConsumedOnce`
needs that the decision a consumer erases is that of the promise (`Agree`).

**Heartbeats.**  A wake that is owed is in the map or in the remainder of a batch; that the merge keeps the higher priority
makes re-queued ones at least as urgent.  An armed cooldown is never longer than what is left of a *retry* timer, whether that was set anew or preempted a later one, and `Schedule`
keeps those.  Without a reset by an old batch, the running flag is set while the handler has a batch.

Every safety invariant and action property of the runs is stated by a theorem.  Only model-checked: all liveness (`Progress`, `QueuedIsDelivered`,
`RecoveryEnds`, `LockIsGivenUp`, `DueJobRuns`, `WakeTaken`, `RequestHonoured`, `AllAnswered`) and the liveness half of
the refinement, since the prover has no rules for fairness and `ENABLED`.
No module uses recursive operators or folds: loops of the code are closed forms, so that all modules stay open to proofs.  `resetAllLanes` of the
runs is one (`ResetRunLanes`): after the reset every lane is pumped once, a shared lane after the first runs of the session lanes were appended to it,
in any order.  TLC found the same reachable states for it as for a fold over the lanes, on two instances.

## 7 Not modelled

- *Inside modelled parts*: times other than those counted (they are "may happen at any time"), log and warning texts, `onWait`
  callbacks, error classes beyond resolved or rejected, summaries' wording, legacy file formats,
  symlinks, temporary files of atomic renames (but for those of `failDelivery`, which are shared); what a cron job executes, its schedule expressions and failure
  alerts; reasons of heartbeats beyond their priority; parameters and forwarding targets of approvals.
- *Restart coordination* is modelled in part: restarts through a service manager (`triggerOpenClawRestart`), hot
  reloads and processes without the run loop are left out.  GatewayRunLoop takes an authorised signal as given, and
  RestartCoordination abstracts the loop's answer to it to a start, an end, or a missed wake-up (that one of them comes is `ShutdownEnds` of GatewayRunLoop).
- *The gateway lock's file protocol*: a flag in GatewayRunLoop, absent where the environment allows several gateways (`UsesLock`).
- *The turn itself*: model calls, tools, compaction.
- Components listed as not modelled in `PROJECT.json`, each with its reason: planned, or input/output without a protocol of its own.
  By far the larger part of the repository is of the latter kind (channels, tools, workflows of the operator
  and of research, clients), so the mapped lines are a small share of all lines.

## 8 Plan

Done: command lanes (model, abstract service, runs, proofs), runs over lanes with the run loop (with proofs), followup queue (with proofs), delivery queue (with proofs),
session write lock (with proofs), cron service (with proofs), heartbeat wakes (with proofs), restart coordination and reply dispatchers (with proofs), approvals (with proofs).

Next modules, in this order:
1. **SubagentRegistry** - completion heard from events and from waiting, announce retries, deferred cleanup, restore after a crash; properties: each
   completion is announced, cleaned up once, and survives a crash between the two.
2. **GatewayLock** - exclusive create and owner probes; then GatewayRunLoop with it in place of the flag.
3. **SessionStore** over SessionWriteLock; then AuthProfiles, ProcessSupervisor, ConfigReload, NodeRegistry.

Abstract specifications worth stating: at-least-once delivery with a failed set (implemented by DeliveryQueue for strict deliveries);
a lock with reclaim (implemented by SessionWriteLock while undisturbed).

## 9 Running the tools

    tlasany CommandQueue.tla
    tlc -workers 2 -config CommandQueue.cfg MCCommandQueue
    tlapm CommandQueueProofs.tla

Every configuration is run with the MC module of its name (up to the first underscore).  The longest run takes about two minutes.  The proof
modules are those whose names end in `Proofs`; each takes seconds to a few minutes from nothing.
