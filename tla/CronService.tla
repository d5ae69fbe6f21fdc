---------------------------- MODULE CronService ----------------------------
(***************************************************************************)
(* The scheduler of cron jobs, src/src/cron/service: timer.ts (ticks, the   *)
(* start-up catch-up, the application of results), ops.ts (start, stop, add, *)
(* update, remove, list, run), jobs.ts (the next run of a job), store.ts and *)
(* locked.ts.                                                               *)
(*                                                                          *)
(* Services of one process share the store file and a lock per store path:  *)
(* sections under the lock are serial, so each one is one action.  Jobs run  *)
(* outside the lock.  A service trusts its copy of the store in memory,      *)
(* except in the sections that reload it from disk.                          *)
(*                                                                          *)
(* A configuration reload, and a restart in process, stop the service and    *)
(* start a new one on the same store; stop() only cancels the timer.         *)
(*                                                                          *)
(* The clock is `now' in units of a recurring job's period; a timer may fire *)
(* at any moment once armed (its delay is between 2 s and 60 s, so it wakes  *)
(* also while nothing is due).  Schedules always compute.  The order of the  *)
(* jobs in a batch is left open.                                             *)
(***************************************************************************)
EXTENDS Integers, FiniteSets

CONSTANTS
  Jobs,            (* ids of jobs *)
  OneShot,         (* those with an `at' schedule; the others recur *)
  DeleteAfterRun,  (* one-shot jobs to be deleted once they ran *)
  Initial,         (* jobs in the store at first *)
  AtTime,          (* the time of the one-shot jobs *)
  StuckAfter,      (* STUCK_RUN_MS *)
  Concurrency,     (* maxConcurrentRuns *)
  Manuals,         (* requests of a manual run *)
  MaxServices,     (* bound: services started *)
  MaxNow,          (* bound: the clock *)
  MaxDisturbances  (* bound: services replaced, requests, failed writes; a
                      replacement of a busy service counts twice *)

ASSUME CronAssumption ==
  /\ OneShot \subseteq Jobs /\ DeleteAfterRun \subseteq OneShot
  /\ Initial \subseteq Jobs
  /\ AtTime \in Nat /\ StuckAfter \in Nat /\ Concurrency \in Nat \ {0}
  /\ MaxServices \in Nat \ {0} /\ MaxNow \in Nat
  /\ MaxDisturbances \in Nat
  /\ Manuals \cap {"tick", "startup"} = {}

Services == 1..MaxServices

VARIABLES
  now,       (* the clock *)
  disk,      (* the store file: a function from the ids of its jobs *)
  mem,       (* state.store of each service *)
  cur,       (* the service that requests go to *)
  phase,     (* how far start() of each service is; "off" when not started *)
  skip,      (* startupInterruptedJobIds of each service *)
  tick,      (* onTimer of each service; running is tick # "idle" *)
  timer,     (* whether state.timer of each service is set *)
  execs,     (* executions in flight, results included until applied *)
  born,      (* ids ever used: ids are fresh *)
  runs, edits,       (* manual runs requested; adds, updates and removals *)
  failures,          (* writes that failed *)
  handover,  (* history: a service was started beside a busy predecessor *)
  excused    (* history: jobs disabled, or overdue, during an execution *)

vars == <<now, disk, mem, cur, phase, skip, tick, timer, execs, born, runs,
          edits, failures, handover, excused>>

NoTime == -1

(* How an execution ends; "retry" is a transient error of a one-shot job     *)
(* within its attempts.  For a recurring job only that it ended matters.     *)
Outcomes == {"ok", "skipped", "error", "retry"}
OutcomesOf(j) == IF j \in OneShot THEN Outcomes ELSE {"ok"}

-----------------------------------------------------------------------------
(* Jobs of a store *)

(* computeJobNextRunAtMs: the next period of a recurring job, or the time of *)
(* a one-shot job, which stays due until it has succeeded.                   *)
NextRun(j, r) ==
  IF ~r.enabled \/ (j \in OneShot /\ r.last = "ok") THEN NoTime
  ELSE IF j \in OneShot THEN AtTime ELSE now + 1

NewJob(j) ==
  LET r == [enabled |-> TRUE, next |-> NoTime, marker |-> NoTime,
            last |-> "none", ranAt |-> NoTime]
  IN [r EXCEPT !.next = NextRun(j, r)]

Due(r) == r.enabled /\ r.next # NoTime /\ r.next <= now

(* isRunnableJob *)
Runnable(r) == Due(r) /\ r.marker = NoTime

(* isRunnableJob at start-up: a one-shot job that ran once runs again only   *)
(* as the retry of a transient error.                                        *)
Missed(j, r) ==
  /\ Runnable(r)
  /\ j \in OneShot /\ r.last # "none" => r.last = "error" /\ r.next > r.ranAt

(* normalizeJobTickState *)
Normalized(r) ==
  IF ~r.enabled THEN [r EXCEPT !.next = NoTime, !.marker = NoTime]
  ELSE IF r.marker # NoTime /\ now - r.marker > StuckAfter
       THEN [r EXCEPT !.marker = NoTime]
       ELSE r

(* recomputeNextRuns: also what is past due is computed anew. *)
Recomputed(st) ==
  [j \in DOMAIN st |->
     LET r == Normalized(st[j])
     IN IF r.next = NoTime \/ r.next <= now
        THEN [r EXCEPT !.next = NextRun(j, r)] ELSE r]

(* Faulty variant: maintenance computes the past-due runs anew, too. *)
MaintainedSkipping(st) == Recomputed(st)

(* recomputeNextRunsForMaintenance: only what is missing is computed. *)
Maintained(st) ==
  [j \in DOMAIN st |->
     LET r == Normalized(st[j])
     IN IF r.next = NoTime THEN [r EXCEPT !.next = NextRun(j, r)] ELSE r]

(* applyJobResult: a recurring job waits for a later period, a one-shot job  *)
(* is disabled unless it is to be retried.                                   *)
Finished(j, r, e) ==
  LET done == [r EXCEPT !.marker = NoTime,
                        !.last = IF j \notin OneShot THEN r.last
                                 ELSE IF e.st = "retry" THEN "error" ELSE e.st,
                        !.ranAt = IF j \in OneShot THEN e.since ELSE r.ranAt]
  IN IF j \in OneShot
     THEN IF e.st = "retry" THEN [done EXCEPT !.next = now + 1]
          ELSE [done EXCEPT !.enabled = FALSE, !.next = NoTime]
     ELSE [done EXCEPT !.next = IF r.enabled THEN now + 1 ELSE NoTime]

Deletes(e) == e.job \in DeleteAfterRun /\ e.st = "ok"

(* applyOutcomeToStoredJob for each result; that of a removed job is lost. *)
Applied(st, results) ==
  [j \in DOMAIN st \ {e.job : e \in {x \in results : Deletes(x)}} |->
     IF \E e \in results : e.job = j
     THEN Finished(j, st[j], CHOOSE e \in results : e.job = j)
     ELSE st[j]]

Marked(st, js) ==
  [j \in DOMAIN st |-> IF j \in js THEN [st[j] EXCEPT !.marker = now] ELSE st[j]]

(* nextWakeAtMs: whether armTimer finds something to wake for. *)
HasWake(st) == \E j \in DOMAIN st : st[j].enabled /\ st[j].next # NoTime

-----------------------------------------------------------------------------
(* Executions and sections *)

Batch(s, by) == {e \in execs : e.svc = s /\ e.by = by}

InFlight(j) == {e \in execs : e.job = j}

Started(s, by, js, st) ==
  {[svc |-> s, by |-> by, job |-> j, st |-> st, since |-> now] : j \in js}

(* persist: the copy in memory goes to disk, or the write fails and the      *)
(* section throws.                                                           *)
Persist(s, st, ok) ==
  /\ mem' = [mem EXCEPT ![s] = st]
  /\ IF ok THEN disk' = st /\ UNCHANGED failures
     ELSE failures' = failures + 1 /\ UNCHANGED disk

(* armTimer, of a section that was persisted. *)
Arm(s, st, ok) == timer' = IF ok THEN [timer EXCEPT ![s] = HasWake(st)] ELSE timer

(* History: jobs whose running marker is bound to go, because they were      *)
(* disabled or are overdue while an execution is in flight.                  *)
Watch ==
  excused' = excused \cup
    {j \in Jobs :
       /\ InFlight(j)' # {}
       /\ \/ \E e \in InFlight(j)' : now' - e.since > StuckAfter
          \/ j \in DOMAIN disk' /\ ~disk'[j].enabled
          \/ j \in DOMAIN mem'[cur] /\ ~mem'[cur][j].enabled}

Init ==
  /\ now = 0
  /\ disk = [j \in Initial |-> NewJob(j)]
  /\ mem = [s \in Services |-> <<>>]
  /\ cur = 1
  /\ phase = [s \in Services |-> IF s = 1 THEN "load" ELSE "off"]
  /\ skip = [s \in Services |-> {}]
  /\ tick = [s \in Services |-> "idle"]
  /\ timer = [s \in Services |-> FALSE]
  /\ execs = {}
  /\ born = Initial
  /\ runs = 0
  /\ edits = 0
  /\ failures = 0
  /\ handover = FALSE
  /\ excused = {}


-----------------------------------------------------------------------------
(* start() of a service *)

bounds == <<cur, born, runs, edits, handover>>

(* Faulty variant: the markers of a crashed process are kept. *)
StartLoadsKeepingMarkers(s, ok) ==
  /\ phase[s] = "load"
  /\ skip' = [skip EXCEPT ![s] = {j \in DOMAIN disk : disk[j].marker # NoTime}]
  /\ Persist(s, disk, ok)
  /\ phase' = [phase EXCEPT ![s] = IF ok THEN "missed" ELSE "on"]
  /\ UNCHANGED <<now, tick, timer, execs, bounds>>

(* The first section: every marker counts as left over by a crash.  A write  *)
(* that fails ends start(), with no timer set.                               *)
StartLoads(s, ok) ==
  /\ phase[s] = "load"
  /\ skip' = [skip EXCEPT ![s] = {j \in DOMAIN disk : disk[j].marker # NoTime}]
  /\ Persist(s, [j \in DOMAIN disk |-> [disk[j] EXCEPT !.marker = NoTime]], ok)
  /\ phase' = [phase EXCEPT ![s] = IF ok THEN "missed" ELSE "on"]
  /\ UNCHANGED <<now, tick, timer, execs, bounds>>

(* runMissedJobs, from the copy in memory: mark and execute what was missed. *)
CatchUpBegins(s, ok) ==
  LET js == {j \in DOMAIN mem[s] \ skip[s] : Missed(j, mem[s][j])}
  IN /\ phase[s] = "missed"
     /\ js # {}
     /\ Persist(s, Marked(mem[s], js), ok)
     /\ phase' = [phase EXCEPT ![s] = IF ok THEN "catchup" ELSE "on"]
     /\ execs' = execs \cup (IF ok THEN Started(s, "startup", js, "waiting") ELSE {})
     /\ skip' = [skip EXCEPT ![s] = {}]
     /\ UNCHANGED <<now, tick, timer, bounds>>

NothingMissed(s) ==
  /\ phase[s] = "missed"
  /\ {j \in DOMAIN mem[s] \ skip[s] : Missed(j, mem[s][j])} = {}
  /\ phase' = [phase EXCEPT ![s] = "finish"]
  /\ skip' = [skip EXCEPT ![s] = {}]
  /\ UNCHANGED <<now, disk, mem, tick, timer, execs, failures, bounds>>

CatchUpApplies(s, ok) ==
  LET results == Batch(s, "startup")
  IN /\ phase[s] = "catchup"
     /\ \A e \in results : e.st \in Outcomes
     /\ Persist(s, Maintained(Applied(disk, results)), ok)
     /\ phase' = [phase EXCEPT ![s] = IF ok THEN "caughtup" ELSE "on"]
     /\ execs' = execs \ results
     /\ UNCHANGED <<now, skip, tick, timer, bounds>>

(* The last section of start() computes past-due runs anew. *)
StartFinishes(s, ok) ==
  LET st == Recomputed(disk)
  IN /\ phase[s] \in {"finish", "caughtup"}
     /\ Persist(s, st, ok)
     /\ Arm(s, st, ok)
     /\ phase' = [phase EXCEPT ![s] = "on"]
     /\ UNCHANGED <<now, skip, tick, execs, bounds>>

(* stop(), and start() of a new service on the same store. *)
Replace ==
  /\ cur < MaxServices
  /\ timer' = [timer EXCEPT ![cur] = FALSE]
  /\ cur' = cur + 1
  /\ phase' = [phase EXCEPT ![cur + 1] = "load"]
  /\ handover' = (handover \/ execs # {} \/ tick[cur] # "idle" \/ phase[cur] # "on")
  /\ UNCHANGED <<now, disk, mem, skip, tick, execs, born, runs, edits, failures>>

(* The process ends and another one starts a service on the store. *)
Crash ==
  /\ cur < MaxServices
  /\ cur' = cur + 1
  /\ phase' = [s \in Services |-> IF s = cur + 1 THEN "load" ELSE "off"]
  /\ tick' = [s \in Services |-> "idle"]
  /\ timer' = [s \in Services |-> FALSE]
  /\ execs' = {}
  /\ mem' = [s \in Services |-> <<>>]
  /\ skip' = [s \in Services |-> {}]
  /\ handover' = FALSE
  /\ UNCHANGED <<now, disk, born, runs, edits, failures>>

-----------------------------------------------------------------------------
(* onTimer.  A timer that fires while a tick runs only arms the next check.  *)

TimerFires(s) ==
  /\ timer[s]
  /\ tick[s] = "idle"
  /\ tick' = [tick EXCEPT ![s] = "begin"]
  /\ UNCHANGED <<now, disk, mem, phase, skip, timer, execs, failures, bounds>>

(* The due jobs are marked on disk before any of them executes. *)
TickBegins(s, ok) ==
  LET js == {j \in DOMAIN disk : Runnable(disk[j])}
  IN /\ tick[s] = "begin"
     /\ js # {}
     /\ Persist(s, Marked(disk, js), ok)
     /\ tick' = [tick EXCEPT ![s] = IF ok THEN "jobs" ELSE "end"]
     /\ execs' = execs \cup (IF ok THEN Started(s, "tick", js, "waiting") ELSE {})
     /\ UNCHANGED <<now, phase, skip, timer, bounds>>

(* Nothing is due; the result of maintenance is written if it is a change.   *)
TickIdles(s, ok) ==
  /\ tick[s] = "begin"
  /\ {j \in DOMAIN disk : Runnable(disk[j])} = {}
  /\ ok \/ Maintained(disk) # disk
  /\ Persist(s, Maintained(disk), ok)
  /\ tick' = [tick EXCEPT ![s] = "end"]
  /\ UNCHANGED <<now, phase, skip, timer, execs, bounds>>

(* All jobs of the batch are over: reload, apply, maintain and write. *)
TickApplies(s, ok) ==
  LET results == Batch(s, "tick")
  IN /\ tick[s] = "jobs"
     /\ \A e \in results : e.st \in Outcomes
     /\ Persist(s, Maintained(Applied(disk, results)), ok)
     /\ tick' = [tick EXCEPT ![s] = "end"]
     /\ execs' = execs \ results
     /\ UNCHANGED <<now, phase, skip, timer, bounds>>

(* Faulty variant: the tick ends without arming the timer. *)
TickEndsUnarmed(s) ==
  /\ tick[s] = "end"
  /\ tick' = [tick EXCEPT ![s] = "idle"]
  /\ timer' = [timer EXCEPT ![s] = FALSE]
  /\ UNCHANGED <<now, disk, mem, phase, skip, execs, failures, bounds>>

(* The finally block: after the sweep of old sessions the timer is armed,    *)
(* also that of a service that was stopped meanwhile.                        *)
TickEnds(s) ==
  /\ tick[s] = "end"
  /\ tick' = [tick EXCEPT ![s] = "idle"]
  /\ timer' = [timer EXCEPT ![s] = HasWake(mem[s])]
  /\ UNCHANGED <<now, disk, mem, phase, skip, execs, failures, bounds>>

(* executeJobCoreWithTimeout: workers take jobs of the batch, start-up does  *)
(* one at a time, a manual run is alone.  A timeout is an error.             *)
JobStarts(e) ==
  /\ e.st = "waiting"
  /\ Cardinality({x \in Batch(e.svc, e.by) : x.st = "running"})
       < (IF e.by = "tick" THEN Concurrency ELSE 1)
  /\ execs' = (execs \ {e}) \cup {[e EXCEPT !.st = "running"]}
  /\ UNCHANGED <<now, disk, mem, phase, skip, tick, timer, failures, bounds>>

JobEnds(e, outcome) ==
  /\ e.st = "running"
  /\ execs' = (execs \ {e}) \cup {[e EXCEPT !.st = outcome]}
  /\ UNCHANGED <<now, disk, mem, phase, skip, tick, timer, failures, bounds>>

-----------------------------------------------------------------------------
(* Requests *)

Serving == phase[cur] \notin {"off", "load"}

request == <<now, cur, phase, skip, tick, handover>>

(* Faulty variant: a manual run does not look at the marker. *)
RunBeginsUnchecked(m, j, force, ok) ==
  LET st == Maintained(mem[cur])
  IN /\ Serving
     /\ \A e \in execs : e.by # m
     /\ runs' = runs + 1
     /\ j \in DOMAIN st
     /\ force \/ Due(st[j])
     /\ Persist(cur, Marked(st, {j}), ok)
     /\ execs' = execs \cup (IF ok THEN Started(cur, m, {j}, "running") ELSE {})
     /\ UNCHANGED <<request, timer, born, edits>>

(* run(): under the lock the marker is checked and set. *)
RunBegins(m, j, force, ok) ==
  LET st == Maintained(mem[cur])
  IN /\ Serving
     /\ \A e \in execs : e.by # m
     /\ runs' = runs + 1
     /\ j \in DOMAIN st
     /\ st[j].marker = NoTime
     /\ force \/ Due(st[j])
     /\ Persist(cur, Marked(st, {j}), ok)
     /\ execs' = execs \cup (IF ok THEN Started(cur, m, {j}, "running") ELSE {})
     /\ UNCHANGED <<request, timer, born, edits>>

(* A run that is refused leaves its maintenance in memory only. *)
RunRefused ==
  LET st == Maintained(mem[cur])
  IN /\ Serving
     /\ runs' = runs + 1
     /\ \E j \in Jobs : j \in DOMAIN st => st[j].marker # NoTime \/ ~Due(st[j])
     /\ mem' = [mem EXCEPT ![cur] = st]
     /\ UNCHANGED <<request, disk, timer, execs, born, edits, failures>>

(* Faulty variant: the job as it was when the run began is written back. *)
RunEndsOverwriting(e, ok) ==
  LET s == e.svc
      st == Maintained([j \in DOMAIN disk |-> IF j = e.job
              THEN Finished(j, [disk[j] EXCEPT !.enabled = TRUE], e) ELSE disk[j]])
  IN /\ e.by \in Manuals
     /\ e.st \in Outcomes
     /\ execs' = execs \ {e}
     /\ Persist(s, st, ok) /\ Arm(s, st, ok)
     /\ UNCHANGED <<request, born, runs, edits>>

(* The end of run(): the result is applied to the copy in memory, which is   *)
(* then replaced by the one on disk, but for this job's state.               *)
RunEnds(e, ok) ==
  LET s == e.svc
      own == Applied(mem[s], {e})
      st == Maintained([j \in IF e.job \in DOMAIN own THEN DOMAIN disk ELSE DOMAIN disk \ {e.job} |->
                          IF j = e.job THEN own[j] ELSE disk[j]])
  IN /\ e.by \in Manuals
     /\ e.st \in Outcomes
     /\ execs' = execs \ {e}
     /\ IF e.job \in DOMAIN mem[s]
        THEN Persist(s, st, ok) /\ Arm(s, st, ok)
        ELSE ok /\ UNCHANGED <<disk, mem, timer, failures>>
     /\ UNCHANGED <<request, born, runs, edits>>

Edit ==
  /\ Serving
  /\ edits' = edits + 1
  /\ UNCHANGED <<request, runs, execs>>

(* add(): the next runs of all jobs are computed, past-due ones anew. *)
Add(j, ok) ==
  LET st == Recomputed([i \in DOMAIN mem[cur] \cup {j} |->
                          IF i = j THEN NewJob(j) ELSE mem[cur][i]])
  IN /\ j \notin born
     /\ born' = born \cup {j}
     /\ Edit
     /\ Persist(cur, st, ok)
     /\ Arm(cur, st, ok)

(* update() with a patch of `enabled' or of the schedule. *)
Update(j, enabled, ok) ==
  LET r == [mem[cur][j] EXCEPT !.enabled = enabled]
      changed == IF enabled THEN [r EXCEPT !.next = NextRun(j, r)]
                 ELSE [r EXCEPT !.next = NoTime, !.marker = NoTime]
      st == [mem[cur] EXCEPT ![j] = changed]
  IN /\ j \in DOMAIN mem[cur]
     /\ Edit
     /\ Persist(cur, st, ok)
     /\ Arm(cur, st, ok)
     /\ UNCHANGED born

Remove(j, ok) ==
  LET st == [i \in DOMAIN mem[cur] \ {j} |-> mem[cur][i]]
  IN /\ j \in DOMAIN mem[cur]
     /\ Edit
     /\ Persist(cur, st, ok)
     /\ Arm(cur, st, ok)
     /\ UNCHANGED born

(* status() and list(): maintenance, written if it changes the copy. *)
Read(ok) ==
  LET st == Maintained(mem[cur])
  IN /\ Serving
     /\ st # mem[cur]
     /\ Persist(cur, st, ok)
     /\ UNCHANGED <<request, timer, execs, born, runs, edits>>

-----------------------------------------------------------------------------

ClockTicks ==
  /\ now < MaxNow
  /\ now' = now + 1
  /\ UNCHANGED <<disk, mem, phase, skip, tick, timer, execs, failures, bounds>>

Section(s, ok) ==
  \/ StartLoads(s, ok)
  \/ CatchUpBegins(s, ok)
  \/ CatchUpApplies(s, ok)
  \/ StartFinishes(s, ok)
  \/ TickBegins(s, ok)
  \/ TickIdles(s, ok)
  \/ TickApplies(s, ok)

Step ==
  \/ \E s \in Services, ok \in BOOLEAN : Section(s, ok)
  \/ \E s \in Services : NothingMissed(s) \/ TimerFires(s) \/ TickEnds(s)
  \/ \E e \in execs : JobStarts(e)
  \/ \E e \in execs : \E o \in OutcomesOf(e.job) : JobEnds(e, o)
  \/ \E m \in Manuals, j \in Jobs, force, ok \in BOOLEAN : RunBegins(m, j, force, ok)
  \/ RunRefused
  \/ \E e \in execs, ok \in BOOLEAN : RunEnds(e, ok)
  \/ \E j \in Jobs, ok \in BOOLEAN : Add(j, ok) \/ Remove(j, ok)
  \/ \E j \in Jobs, enabled, ok \in BOOLEAN : Update(j, enabled, ok)
  \/ \E ok \in BOOLEAN : Read(ok)
  \/ Replace
  \/ Crash
  \/ ClockTicks

Next ==
  /\ Step
  /\ Watch
  /\ runs' + edits' + failures' + cur' + (IF handover' THEN 1 ELSE 0) <= MaxDisturbances + 1

Spec == Init /\ [][Next]_vars

Scheduler(s) ==
  \/ Section(s, TRUE)
  \/ NothingMissed(s)
  \/ TimerFires(s)
  \/ TickEnds(s)

Executor(s) ==
  \E e \in execs :
    /\ e.svc = s
    /\ JobStarts(e) \/ (\E o \in OutcomesOf(e.job) : JobEnds(e, o)) \/ RunEnds(e, TRUE)

(* Timers fire, sections get the lock, and executions end, at the latest by  *)
(* their timeout (ten minutes, an hour for agent turns).                     *)
Fairness ==
  \A s \in Services : WF_vars(Scheduler(s) /\ Watch) /\ WF_vars(Executor(s) /\ Watch)

FairSpec == Spec /\ Fairness

-----------------------------------------------------------------------------
(* Properties *)

(* The store and the state of the services have their types; a tick or a     *)
(* catch-up that executes has executions, and only then.  Unless a write     *)
(* failed, a marker on disk belongs to an execution whose result is still to *)
(* come: no job is left blocked by a marker.                                 *)
TypeOK ==
  /\ now \in 0..MaxNow
  /\ \A st \in {disk} \cup {mem[s] : s \in Services} :
       \A j \in DOMAIN st :
         /\ j \in born
         /\ st[j].enabled \in BOOLEAN
         /\ st[j].next \in {NoTime, AtTime} \cup 1..MaxNow + 1
         /\ st[j].marker \in NoTime..now
  /\ cur \in Services
  /\ \A s \in Services :
       /\ phase[s] \in {"off", "load", "missed", "catchup", "caughtup",
                       "finish", "on"}
       /\ tick[s] \in {"idle", "begin", "jobs", "end"}
       /\ (tick[s] = "jobs") = (Batch(s, "tick") # {})
       /\ (phase[s] = "catchup") = (Batch(s, "startup") # {})
  /\ failures = 0 /\ ~handover /\ Serving =>
       \A j \in DOMAIN disk : disk[j].marker # NoTime => InFlight(j) # {}

Executing(j) == {e \in InFlight(j) : e.st = "running"}

(* A job executes twice at once only if it was disabled or overdue while it  *)
(* executed, or if a service was started beside a busy predecessor: ticks,   *)
(* the catch-up and manual runs exclude each other by the marker.            *)
NoOverlap ==
  \A j \in Jobs :
    Cardinality(Executing(j)) > 1 => handover \/ j \in excused

(* What a user disabled or removed stays so, whatever executions, ticks and  *)
(* manual runs end later.                                                    *)
EditsStick ==
  [][failures' = 0 /\ ~handover' /\ edits' = edits =>
       /\ DOMAIN disk' \subseteq DOMAIN disk
       /\ \A j \in DOMAIN disk' : disk'[j].enabled => disk[j].enabled]_vars

(* A past-due run is not put off without an execution, except by a change of *)
(* the job, by the addition of another one, and at the end of start().  A    *)
(* write that failed, or an older service, may write stale memory later.     *)
NoSilentSkip ==
  [][failures' = 0 /\ ~handover' => \A j \in DOMAIN disk \cap DOMAIN disk' :
       Due(disk[j]) /\ disk'[j].next > disk[j].next =>
         \/ edits' # edits
         \/ \E s \in Services : phase[s] \in {"finish", "caughtup"} /\ phase'[s] = "on"
         \/ \E e \in execs \ execs' : e.job = j]_vars

Owed(j) ==
  /\ failures = 0 /\ ~handover
  /\ j \in DOMAIN disk /\ Due(disk[j])
  /\ InFlight(j) = {}

(* A past-due job gets executed, or is put off, disabled or removed: neither *)
(* a busy tick nor a leftover marker nor an early return of a tick stops the *)
(* scheduler.                                                                *)
DueJobRuns == \A j \in Jobs : Owed(j) ~> ~Owed(j)

(* The comment on runMissedJobs (timer.ts:828): what became due while the    *)
(* start-up catch-up was running is to execute on a future tick instead of   *)
(* being silently advanced.                                                  *)
CatchUpPreservesDue ==
  [][\A s \in Services : phase[s] = "caughtup" /\ phase'[s] = "on" =>
       \A j \in DOMAIN disk \cap DOMAIN disk' :
         Due(disk[j]) => disk'[j].next <= disk[j].next]_vars
=============================================================================
