--------------------------- MODULE FollowupQueue ---------------------------
(***************************************************************************)
(* The followup queue of one session key: messages that arrive while a turn *)
(* of the session is active are queued and run after it, one by one or      *)
(* collected into one turn.                                                 *)
(*                                                                          *)
(* FOLLOWUP_QUEUES maps the key to a queue object.  A drain loop holds the  *)
(* object it began with across its awaits, while clearSessionQueues and the *)
(* end of another loop remove the key, and the next message creates a new   *)
(* object under it: objects have an identity here, and loops name theirs.   *)
(* A loop is cut at its awaits: the debounce, the collect check, the run.   *)
(***************************************************************************)
EXTENDS Integers, FiniteSets, SequencesExt

CONSTANTS
  Msgs,         (* inbound messages                                        *)
  RouteOf,      (* resolveCrossChannelKey: a route, Unkeyed or Cross       *)
  IdOf,         (* provider's message id: a redelivery has the same        *)
  Settings,     (* queue settings in force when a message is enqueued      *)
  MaxClears,    (* bound on clearSessionQueues                             *)
  MaxFailures,  (* bound on followup runs that throw                       *)
  Unkeyed,      (* a message without routing metadata                      *)
  Cross         (* routing metadata that names no deliverable target       *)

ASSUME MsgsAssumption == IsFiniteSet(Msgs) /\ Msgs # {}
ASSUME SettingsAssumption ==
  Settings \subseteq [mode : {"followup", "collect"}, cap : Nat \ {0},
                      drop : {"old", "new", "summarize"}]
ASSUME BoundsAssumption == MaxClears \in Nat /\ MaxFailures \in Nat

(* A queue object is created by an enqueue: there are no more than messages. *)
Objs == 1 .. Cardinality(Msgs)
Loops == Objs
None == 0

VARIABLES
  queue,     (* the queue objects                                          *)
  current,   (* FOLLOWUP_QUEUES.get(key): an object or None                *)
  created,   (* number of objects created                                  *)
  callback,  (* FOLLOWUP_RUN_CALLBACKS.has(key)                            *)
  loop,      (* the drain loops                                            *)
  fate,      (* what has become of each message                            *)
  clears, failures

vars == <<queue, current, created, callback, loop, fate, clears, failures>>

Fates == {"new", "turn", "answered", "routed", "duplicate", "refused", "queued",
          "dropped", "summarized", "told", "late", "delivered", "cleared"}

FreshQueue(s) == [items |-> <<>>, draining |-> FALSE, mode |-> s.mode, cap |-> s.cap,
                  drop |-> s.drop, dropped |-> {}, lastRun |-> FALSE]

IdleLoop == [pc |-> "idle", obj |-> None, force |-> FALSE, kind |-> "item",
             batch |-> <<>>, told |-> {}]

Init ==
  /\ queue = [o \in Objs |-> FreshQueue([mode |-> "collect", cap |-> 20, drop |-> "summarize"])]
  /\ current = None
  /\ created = 0
  /\ callback = FALSE
  /\ loop = [i \in Loops |-> IdleLoop]
  /\ fate = [m \in Msgs |-> "new"]
  /\ clears = 0
  /\ failures = 0

-----------------------------------------------------------------------------
(* Functions from world to world. *)

World == [queue |-> queue, current |-> current, created |-> created,
          callback |-> callback, loop |-> loop, fate |-> fate]

Becomes(w) ==
  /\ queue' = w.queue
  /\ current' = w.current
  /\ created' = w.created
  /\ callback' = w.callback
  /\ loop' = w.loop
  /\ fate' = w.fate

SetFate(w, S, f) == [w EXCEPT !.fate = [m \in Msgs |-> IF m \in S THEN f ELSE @[m]]]

(* The messages of a batch have been run; "late" are those dropped meanwhile. *)
Answered(w, batch) ==
  [w EXCEPT !.fate = [m \in Msgs |-> IF m \notin Range(batch) THEN @[m]
                                     ELSE IF @[m] \in {"dropped", "summarized"} THEN "late"
                                     ELSE "delivered"]]

HasWork(q) == q.items # <<>> \/ q.dropped # {}

(* Faulty variant: a queue that is being drained is drained again. *)
BeginQueueDrainTwice(w, i) ==
  LET o == w.current
  IN IF o = None THEN w
     ELSE [w EXCEPT !.queue[o].draining = TRUE, !.callback = TRUE,
                    !.loop[i] = [IdleLoop EXCEPT !.pc = "debounce", !.obj = o]]

(* scheduleFollowupDrain: the loop begins unless the key has no queue or its *)
(* queue is being drained.  With nothing to do it ends at once.              *)
Schedule(w, i) ==
  LET o == w.current
  IN CASE o = None -> w
       [] o # None /\ w.queue[o].draining -> w
       [] o # None /\ ~w.queue[o].draining /\ HasWork(w.queue[o]) ->
            [w EXCEPT !.queue[o].draining = TRUE, !.callback = TRUE,
                      !.loop[i] = [IdleLoop EXCEPT !.pc = "debounce", !.obj = o]]
       [] OTHER -> [w EXCEPT !.current = None, !.callback = TRUE]

(* The variable a new loop is given: some loop that does not run. *)
FreeLoop == CHOOSE i \in Loops : loop[i].pc = "idle"

(* kickFollowupDrainIfIdle *)
Kick(w) == IF w.callback THEN Schedule(w, FreeLoop) ELSE w

(* Faulty variant: a loop that ends does not look for what is left. *)
FinallyWithoutRestart(w, i) ==
  [w EXCEPT !.queue[w.loop[i].obj].draining = FALSE, !.loop[i] = IdleLoop]

(* Faulty variant: the key is deleted whatever is left in the queue. *)
FinallyForgets(w, i) ==
  [w EXCEPT !.queue[w.loop[i].obj].draining = FALSE, !.loop[i] = IdleLoop, !.current = None]

(* The end of a loop, after a break or an error: the key is deleted when the *)
(* loop's own queue is empty, whatever queue the key has by then.            *)
Finally(w, i) ==
  LET o == w.loop[i].obj
      ended == [w EXCEPT !.queue[o].draining = FALSE, !.loop[i] = IdleLoop]
  IN IF HasWork(w.queue[o]) THEN Schedule(ended, i) ELSE [ended EXCEPT !.current = None]

(* The condition of the while loop. *)
Again(w, i) ==
  IF HasWork(w.queue[w.loop[i].obj]) THEN [w EXCEPT !.loop[i].pc = "debounce"] ELSE Finally(w, i)

-----------------------------------------------------------------------------

(* A message finds no active run: it gets a turn of its own.  Whether a run  *)
(* is active is known only once it has registered, so this may happen while  *)
(* another turn is on its way.                                               *)
ArriveRuns(m) ==
  /\ fate[m] = "new"
  /\ fate' = [fate EXCEPT ![m] = "turn"]
  /\ UNCHANGED <<queue, current, created, callback, loop, clears, failures>>

Busy == (\E m \in Msgs : fate[m] = "turn") \/ (\E i \in Loops : loop[i].pc = "running")

(* A message finds a run active: it is to be queued, after further awaits.   *)
ArriveQueues(m) ==
  /\ fate[m] = "new"
  /\ Busy
  /\ fate' = [fate EXCEPT ![m] = "routed"]
  /\ UNCHANGED <<queue, current, created, callback, loop, clears, failures>>

(* finalizeWithFollowup: a turn ends and its runner drains the queue.        *)
TurnEnds(m) ==
  /\ fate[m] = "turn"
  /\ Becomes(Schedule(SetFate(World, {m}, "answered"), FreeLoop))
  /\ UNCHANGED <<clears, failures>>

(* getFollowupQueue: the settings of the latest message replace the queue's. *)
GetQueue(w, s) ==
  IF w.current # None
  THEN [w EXCEPT !.queue[w.current].mode = s.mode, !.queue[w.current].cap = s.cap,
                 !.queue[w.current].drop = s.drop]
  ELSE [w EXCEPT !.created = @ + 1, !.current = w.created + 1,
                 !.queue[w.created + 1] = FreshQueue(s)]

(* isRunAlreadyQueued, in the mode message-id *)
AlreadyQueued(m, q) ==
  \E k \in Range(q.items) : IdOf[k] = IdOf[m] /\ RouteOf[k] = RouteOf[m]

(* applyQueueDropPolicy on a queue that accepts the message: the oldest      *)
(* items go, and are counted for a summary if the policy says so.            *)
DropCount(q) == IF Len(q.items) < q.cap THEN 0 ELSE Len(q.items) - q.cap + 1

ApplyDropPolicy(w, o) ==
  LET q == w.queue[o]
      gone == Range(SubSeq(q.items, 1, DropCount(q)))
      kept == [w EXCEPT !.queue[o].items = SubSeq(q.items, DropCount(q) + 1, Len(q.items))]
  IN IF q.drop = "summarize"
     THEN SetFate([kept EXCEPT !.queue[o].dropped = @ \cup gone], gone, "summarized")
     ELSE SetFate(kept, gone, "dropped")

PushItem(w, o, m) == SetFate([w EXCEPT !.queue[o].items = Append(@, m)], {m}, "queued")

(* enqueueFollowupRun *)
Enqueue(m, s) ==
  LET w == GetQueue(World, s)
      o == w.current
      u == [w EXCEPT !.queue[o].lastRun = TRUE]
      pushed == PushItem(ApplyDropPolicy(u, o), o, m)
  IN /\ fate[m] = "routed"
     /\ IF AlreadyQueued(m, w.queue[o]) THEN Becomes(SetFate(w, {m}, "duplicate"))
        ELSE IF DropCount(w.queue[o]) > 0 /\ s.drop = "new" THEN Becomes(SetFate(u, {m}, "refused"))
        ELSE Becomes(IF pushed.queue[o].draining THEN pushed ELSE Kick(pushed))
     /\ UNCHANGED <<clears, failures>>

(* clearSessionQueues: the object is emptied and forgotten, the callback too. *)
Clear ==
  /\ clears < MaxClears
  /\ clears' = clears + 1
  /\ LET q == queue[current]
     IN IF current = None THEN Becomes([World EXCEPT !.callback = FALSE])
        ELSE Becomes(SetFate([World EXCEPT !.callback = FALSE, !.current = None,
                                           !.queue[current].items = <<>>,
                                           !.queue[current].dropped = {},
                                           !.queue[current].lastRun = FALSE],
                             Range(q.items) \cup q.dropped, "cleared"))
  /\ UNCHANGED failures

-----------------------------------------------------------------------------
(* The steps of a drain loop. *)

(* hasCrossChannelItems *)
MixedRoutes(items) ==
  LET routes == {RouteOf[m] : m \in Range(items)}
  IN Cross \in routes \/ Cardinality(routes) > 1

(* previewQueueSummaryPrompt: the dropped messages a summary speaks of. *)
Summary(q) == IF q.drop = "summarize" THEN q.dropped ELSE {}

Run(w, i, kind, batch, told) ==
  [w EXCEPT !.loop[i].pc = "running", !.loop[i].kind = kind,
            !.loop[i].batch = batch, !.loop[i].told = told]

(* drainNextQueueItem: the head is run; without one the loop is left.        *)
RunHead(w, i, kind, told) ==
  LET items == w.queue[w.loop[i].obj].items
  IN IF items = <<>> THEN [w EXCEPT !.loop[i].pc = "leaving"]
     ELSE Run(w, i, kind, <<Head(items)>>, told)

(* The debounce is over: what to run is decided.  A collect batch of one     *)
(* route passes drainCollectQueueStep, which is awaited, before it is taken. *)
Wake(i) ==
  LET q == queue[loop[i].obj]
      mixed == MixedRoutes(q.items)
      forced == [World EXCEPT !.loop[i].force = @ \/ mixed]
  IN /\ loop[i].pc = "debounce"
     /\ IF q.mode = "collect"
        THEN Becomes(IF forced.loop[i].force THEN RunHead(forced, i, "item", {})
                     ELSE [forced EXCEPT !.loop[i].pc = "checked"])
        ELSE Becomes(IF Summary(q) = {} THEN RunHead(World, i, "item", {})
                     ELSE IF q.lastRun THEN RunHead(World, i, "summary", Summary(q))
                     ELSE [World EXCEPT !.loop[i].pc = "leaving"])
     /\ UNCHANGED <<clears, failures>>

(* The batch is taken: every item the queue has by now.                      *)
Collect(i) ==
  LET q == queue[loop[i].obj]
  IN /\ loop[i].pc = "checked"
     /\ Becomes(IF q.items # <<>> \/ q.lastRun THEN Run(World, i, "collect", q.items, Summary(q))
                ELSE Finally(World, i))
     /\ UNCHANGED <<clears, failures>>

Leave(i) ==
  /\ loop[i].pc = "leaving"
  /\ Becomes(Finally(World, i))
  /\ UNCHANGED <<clears, failures>>

(* Faulty variant: the items are removed only when the loop ends. *)
RunSucceedsUnshifted(i) ==
  LET l == loop[i]
      q == queue[l.obj]
      told == IF l.kind = "summary" THEN World ELSE Answered(World, l.batch)
  IN /\ l.pc = "running"
     /\ Becomes(IF Len(q.items) > 1 THEN [told EXCEPT !.loop[i].pc = "debounce"]
                ELSE Again([told EXCEPT !.queue[l.obj].items = <<>>], i))
     /\ UNCHANGED <<clears, failures>>

(* The run ends well: as many items as it took are removed from the front of *)
(* the queue, and the summary state is cleared if the run carried a summary. *)
(* A summary run takes the head of the queue but does not carry its prompt.  *)
RunSucceeds(i) ==
  LET l == loop[i]
      q == queue[l.obj]
      left == SubSeq(q.items, Len(l.batch) + 1, Len(q.items))
      answered == IF l.kind = "summary" THEN World ELSE Answered(World, l.batch)
      told == SetFate(answered, l.told, "told")
  IN /\ l.pc = "running"
     /\ Becomes(Again([told EXCEPT !.queue[l.obj].items = left,
                                   !.queue[l.obj].dropped = IF l.told = {} THEN @ ELSE {}], i))
     /\ UNCHANGED <<clears, failures>>

(* The run throws: the items stay and the loop ends. *)
RunFails(i) ==
  /\ loop[i].pc = "running"
  /\ failures < MaxFailures
  /\ failures' = failures + 1
  /\ Becomes(Finally(World, i))
  /\ UNCHANGED clears

-----------------------------------------------------------------------------
LoopStep(i) == Wake(i) \/ Collect(i) \/ Leave(i) \/ RunSucceeds(i)

Next ==
  \/ \E m \in Msgs : ArriveRuns(m) \/ ArriveQueues(m) \/ TurnEnds(m)
  \/ \E m \in Msgs, s \in Settings : Enqueue(m, s)
  \/ Clear
  \/ \E i \in Loops : LoopStep(i) \/ RunFails(i)

Spec == Init /\ [][Next]_vars

(* Turns and runs end, promises resume, a message on its way is enqueued. *)
Fairness ==
  /\ \A m \in Msgs : WF_vars(TurnEnds(m)) /\ WF_vars(\E s \in Settings : Enqueue(m, s))
  /\ \A i \in Loops : WF_vars(LoopStep(i))

FairSpec == Spec /\ Fairness

-----------------------------------------------------------------------------
(* The values the variables take: queue objects, loops and fates.  A loop's  *)
(* queue is marked as drained, which keeps the followup runs of a session    *)
(* apart: two loops exist only where the queue of one was cleared away.      *)
TypeOK ==
  /\ queue \in [Objs -> [items : Seq(Msgs), draining : BOOLEAN, mode : {"followup", "collect"},
                         cap : Nat, drop : {"old", "new", "summarize"}, dropped : SUBSET Msgs,
                         lastRun : BOOLEAN]]
  /\ current \in Objs \cup {None} /\ created \in 0 .. Cardinality(Msgs) /\ callback \in BOOLEAN
  /\ loop \in [Loops -> [pc : {"idle", "debounce", "checked", "leaving", "running"},
                         obj : Objs \cup {None}, force : BOOLEAN,
                         kind : {"item", "collect", "summary"},
                         batch : Seq(Msgs), told : SUBSET Msgs]]
  /\ fate \in [Msgs -> Fates] /\ clears \in 0 .. MaxClears /\ failures \in 0 .. MaxFailures
  /\ \A i \in Loops : loop[i].pc # "idle" => queue[loop[i].obj].draining
  /\ clears = 0 => Cardinality({i \in Loops : loop[i].pc # "idle"}) <= 1

(* A message that a completed turn carried is not run again, whatever was    *)
(* dropped, cleared or retried while the turn was under way.                 *)
DeliveredOnce ==
  \A i \in Loops : loop[i].pc = "running" /\ loop[i].kind # "summary" =>
    \A m \in Range(loop[i].batch) : fate[m] \notin {"delivered", "late"}

(* A queue lives while the key leads to it or a loop drains it. *)
Live(o) == o = current \/ \E i \in Loops : loop[i].pc # "idle" /\ loop[i].obj = o

(* docs/concepts/queue.md:30: a queued message waits for the next turn.  It  *)
(* leaves the queue only by a turn that carries it, by the drop policy or by *)
(* a clear; it never just disappears.                                        *)
NothingLost ==
  \A m \in Msgs : fate[m] = "queued" => \E o \in Objs : Live(o) /\ m \in Range(queue[o].items)

(* The same while the cap has dropped nothing and nothing was cleared.       *)
Overflowed == \E m \in Msgs : fate[m] \in {"dropped", "summarized", "told", "late"}

NothingLostWithinCap == ~Overflowed /\ clears = 0 => NothingLost

(* A message in a queue that is being drained is delivered, in whichever     *)
(* mode, if turns end and not all of them fail.                              *)
QueuedIsDelivered ==
  \A m \in Msgs, o \in Objs :
    m \in Range(queue[o].items) /\ queue[o].draining
      ~> fate[m] = "delivered" \/ Overflowed \/ clears > 0
=============================================================================
