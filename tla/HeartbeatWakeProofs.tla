------------------------ MODULE HeartbeatWakeProofs ------------------------
(* Wakes and cooldowns for all sets of targets and priorities, all delays,   *)
(* any number of handlers that replace each other and any number of requests *)
(* and batches.                                                              *)
EXTENDS HeartbeatWake, TLAPS

Wakes == [Targets -> {0} \cup Priorities]

Armed == [left : Nat, delay : Nat, kind : {"normal", "retry"}]

BatchType ==
  [handler : 1..MaxHandlers, number : Numbers, wakes : Wakes, calling : Targets,
   todo : SUBSET Targets, delay : Nat]

TimerOK(tm) == tm = NoTimer \/ (tm \in Armed /\ tm.left <= tm.delay)

(* A cooldown that is not over is that of a retry timer. *)
CoolOK(tm, c) == c > 0 => tm \in Armed /\ tm.kind = "retry" /\ c <= tm.left

Types ==
  /\ handler \in {0, generation}
  /\ generation \in 0..MaxHandlers
  /\ pending \in Wakes /\ owed \in Wakes
  /\ scheduled \in BOOLEAN /\ running \in BOOLEAN /\ reset \in BOOLEAN
  /\ batches \subseteq BatchType
  /\ TimerOK(timer)
  /\ cool \in Nat /\ CoolOK(timer, cool)

(* Without a reset by an older batch, the flag says that the handler's only  *)
(* batch is under way.                                                       *)
BatchesOK ==
  /\ running => batches # {}
  /\ \A b \in batches : b.handler <= generation /\ b.todo \subseteq Targets \ {b.calling}
  /\ \A b, c \in batches : b.handler = c.handler /\ b # c => reset
  /\ ~reset /\ (\E b \in batches : b.handler = handler) => running

IndInv == Types /\ BatchesOK /\ NoWakeLost

-----------------------------------------------------------------------------

LEMMA ScheduleFacts ==
  ASSUME NEW tm, TimerOK(tm), NEW delay \in Nat, NEW kind \in {"normal", "retry"}
  PROVE  /\ Schedule(tm, delay, kind) \in Armed
         /\ TimerOK(Schedule(tm, delay, kind))
         /\ tm # NoTimer /\ tm.kind = "retry" => Schedule(tm, delay, kind) = tm
         /\ tm = NoTimer => Schedule(tm, delay, kind) = [left |-> delay, delay |-> delay, kind |-> kind]
BY DEF Schedule, TimerOK, Armed, NoTimer

LEMMA WakesAreNumbers ==
  ASSUME NEW p \in Wakes, NEW t \in Targets
  PROVE  p[t] \in Nat /\ p[t] \in {0} \cup Priorities
<1>1. p[t] \in {0} \cup Priorities
  BY DEF Wakes
<1>2. \A x \in Priorities : x \in Nat
  BY WakeAssumption
<1> QED
  BY <1>1, <1>2

LEMMA QueueFacts ==
  ASSUME NEW p \in Wakes, NEW more \in Wakes
  PROVE  /\ Queue(p, more) \in Wakes
         /\ \A t \in Targets : /\ Queue(p, more)[t] \in {p[t], more[t]}
                               /\ Queue(p, more)[t] >= p[t] /\ Queue(p, more)[t] >= more[t]
<1>1. ASSUME NEW t \in Targets
      PROVE  /\ Larger(p[t], more[t]) \in {p[t], more[t]}
             /\ Larger(p[t], more[t]) >= p[t] /\ Larger(p[t], more[t]) >= more[t]
             /\ Larger(p[t], more[t]) \in {0} \cup Priorities
  <2>1. p[t] \in Nat /\ more[t] \in Nat /\ {p[t], more[t]} \subseteq {0} \cup Priorities
    BY WakesAreNumbers
  <2> QED
    BY <2>1 DEF Larger
<1> QED
  BY <1>1 DEF Queue, Wakes

LEMMA OnlyFacts ==
  ASSUME NEW t \in Targets, NEW p \in {0} \cup Priorities
  PROVE  None \in Wakes /\ Only(t, p) \in Wakes
BY DEF None, Only, Wakes

(* A cooldown outlasts everything that is scheduled beside it. *)
LEMMA CoolStays ==
  ASSUME NEW tm, TimerOK(tm), NEW c \in Nat, CoolOK(tm, c),
         NEW delay \in Nat, NEW kind \in {"normal", "retry"}
  PROVE  CoolOK(Schedule(tm, delay, kind), c)
<1>1. c > 0 => tm # NoTimer /\ tm.kind = "retry"
  BY DEF CoolOK, Armed, NoTimer
<1> QED
  BY <1>1, ScheduleFacts DEF CoolOK

(* The timer of a call's end, and the cooldown it arms. *)
LEMMA CallTimer ==
  ASSUME Types, NEW timer1, timer1 \in {timer, Schedule(timer, Retry, "retry")}, Cooldown(timer1)
  PROVE  TimerOK(timer1) /\ cool' \in Nat /\ CoolOK(timer1, cool')
<1>1. TimerOK(timer) /\ cool \in Nat /\ CoolOK(timer, cool) /\ Retry \in Nat
  BY WakeAssumption DEF Types
<1>2. TimerOK(timer1) /\ CoolOK(timer1, cool)
  BY <1>1, ScheduleFacts, CoolStays
<1>3. CASE timer1 # timer
  <2>1. timer1 = [left |-> Retry, delay |-> Retry, kind |-> "retry"] /\ cool' = Retry
    BY <1>3 DEF Schedule, Cooldown
  <2> QED
    BY <1>1, <1>2, <2>1 DEF CoolOK, Armed
<1>4. CASE timer1 = timer
  BY <1>1, <1>2, <1>4 DEF Cooldown
<1> QED
  BY <1>3, <1>4

LEMMA InitIndInv == Init => IndInv
<1> SUFFICES ASSUME Init PROVE IndInv
  OBVIOUS
<1>1. None \in Wakes
  BY DEF None, Wakes
<1>2. Types
  <2>1. /\ pending \in Wakes /\ owed \in Wakes
        /\ generation \in 0..MaxHandlers
    BY <1>1, WakeAssumption DEF Init
  <2>2. TimerOK(timer) /\ cool \in Nat /\ CoolOK(timer, cool)
    BY DEF Init, TimerOK, CoolOK
  <2> QED
    BY <2>1, <2>2 DEF Init, Types
<1>3. BatchesOK /\ NoWakeLost
  BY DEF Init, BatchesOK, NoWakeLost, None
<1> QED
  BY <1>2, <1>3 DEF IndInv

(* The end of a batch. *)
LEMMA FinishKeeps ==
  ASSUME IndInv, NEW b \in batches, NEW timer1, TimerOK(timer1), cool' \in Nat,
         CoolOK(timer1, cool'), Finish(b, timer1), pending' \in Wakes, owed' \in Wakes,
         UNCHANGED <<handler, generation, scheduled, requests>>,
         \A t \in Targets : owed'[t] # 0 =>
            \/ pending'[t] >= owed'[t]
            \/ \E c \in batches \ {b} : t \in c.todo /\ c.wakes[t] >= owed'[t]
  PROVE  IndInv'
<1>1. /\ batches' = batches \ {b} /\ running' = FALSE
      /\ timer' \in {timer1, Schedule(timer1, b.delay, "normal")}
      /\ reset' = (reset \/ (b.handler # handler /\ \E x \in batches : x.handler = handler))
  BY DEF Finish
<1>2. Types /\ BatchesOK /\ b.delay \in Nat
  BY DEF IndInv, Types, BatchType
<1>3. TimerOK(timer') /\ CoolOK(timer', cool')
  BY <1>1, <1>2, ScheduleFacts, CoolStays
<1>4. Types'
  BY <1>1, <1>2, <1>3 DEF Types
<1>5. BatchesOK'
  BY <1>1, <1>2 DEF BatchesOK, Types
<1>6. NoWakeLost'
  BY <1>1 DEF NoWakeLost
<1> QED
  BY <1>4, <1>5, <1>6 DEF IndInv

(* A call ends, and the batch goes on or ends. *)
LEMMA ProceedKeeps ==
  ASSUME IndInv, NEW b \in batches, NEW again \in Wakes, NEW timer1,
         timer1 \in {timer, Schedule(timer, Retry, "retry")}, Proceed(b, again, timer1)
  PROVE  IndInv'
<1>1. Types /\ BatchesOK /\ NoWakeLost /\ b \in BatchType
  BY DEF IndInv, Types
<1>2. /\ pending' = Queue(pending, again) /\ Cooldown(timer1)
      /\ UNCHANGED <<handler, generation, scheduled, requests>>
  BY DEF Proceed
<1>3. TimerOK(timer1) /\ cool' \in Nat /\ CoolOK(timer1, cool')
  BY <1>1, <1>2, CallTimer
<1>4. /\ pending \in Wakes /\ owed \in Wakes
      /\ \A t \in Targets : {pending[t], owed[t], again[t], b.wakes[t]} \subseteq Nat
  <2>1. pending \in Wakes /\ owed \in Wakes /\ b.wakes \in Wakes
    BY <1>1 DEF Types, BatchType
  <2> QED
    BY <2>1, WakesAreNumbers
<1> DEFINE queued == Queue(owed, again)
<1>5. /\ pending' \in Wakes /\ queued \in Wakes
      /\ \A t \in Targets : /\ pending'[t] \in Nat /\ queued[t] \in Nat
                            /\ pending'[t] >= pending[t] /\ pending'[t] >= again[t]
                            /\ queued[t] \in {owed[t], again[t]}
  BY <1>2, <1>4, QueueFacts, WakeAssumption DEF Wakes
<1> HIDE DEF queued
<1>6. \A t \in Targets : queued[t] # 0 =>
        pending'[t] >= queued[t] \/ \E c \in batches : t \in c.todo /\ c.wakes[t] >= queued[t]
  <2> SUFFICES ASSUME NEW t \in Targets, queued[t] # 0
               PROVE  \/ pending'[t] >= queued[t]
                      \/ \E c \in batches : t \in c.todo /\ c.wakes[t] >= queued[t]
    OBVIOUS
  <2>1. CASE queued[t] = again[t]
    BY <1>4, <1>5, <2>1
  <2>2. CASE queued[t] = owed[t]
    BY <1>1, <1>4, <1>5, <2>2 DEF NoWakeLost
  <2> QED
    BY <1>5, <2>1, <2>2
<1>7. ASSUME NEW t \in b.todo,
             batches' = (batches \ {b}) \cup {Calling(b, t)},
             owed' = [queued EXCEPT ![t] = IF owed[t] <= b.wakes[t] THEN 0 ELSE owed[t]],
             timer' = timer1, UNCHANGED <<running, reset>>
      PROVE  IndInv'
  <2> DEFINE c == Calling(b, t)
  <2>1. t \in Targets
    BY <1>1, <1>7 DEF BatchType
  <2>2. /\ c \in BatchType /\ c.handler = b.handler /\ c.wakes = b.wakes
        /\ c.calling = t /\ c.todo = b.todo \ {t}
    <3> DEFINE a == [b EXCEPT !.calling = t]
    <3>1. a \in BatchType /\ a.handler = b.handler /\ a.wakes = b.wakes /\ a.calling = t /\ a.todo = b.todo
      BY <1>1, <2>1 DEF BatchType
    <3>2. c = [a EXCEPT !.todo = @ \ {t}]
      BY DEF Calling
    <3> HIDE DEF a, c
    <3> QED
      BY <3>1, <3>2 DEF BatchType
  <2> HIDE DEF c
  <2>3. batches' = (batches \ {b}) \cup {c}
    BY <1>7 DEF c
  <2>4. owed' \in Wakes /\ \A u \in Targets \ {t} : owed'[u] = queued[u]
    BY <1>4, <1>5, <1>7, <2>1 DEF Wakes
  <2>5. owed'[t] = IF owed[t] <= b.wakes[t] THEN 0 ELSE owed[t]
    BY <1>5, <1>7, <2>1 DEF Wakes
  <2>6. Types'
    BY <1>1, <1>2, <1>3, <1>5, <1>7, <2>2, <2>3, <2>4 DEF Types
  <2>7. BatchesOK'
    <3>1. \A x \in batches' : x.handler <= generation /\ x.todo \subseteq Targets \ {x.calling}
      BY <1>1, <2>2, <2>3 DEF BatchesOK
    <3>2. \A x, y \in batches' : x.handler = y.handler /\ x # y => reset
      BY <1>1, <2>2, <2>3 DEF BatchesOK
    <3>3. (\E x \in batches' : x.handler = handler) => \E x \in batches : x.handler = handler
      BY <2>2, <2>3
    <3> QED
      BY <1>1, <1>2, <1>7, <2>3, <3>1, <3>2, <3>3 DEF BatchesOK
  <2>8. NoWakeLost'
    <3> SUFFICES ASSUME NEW u \in Targets, owed'[u] # 0
                 PROVE  \/ pending'[u] >= owed'[u]
                        \/ \E x \in batches' : u \in x.todo /\ x.wakes[u] >= owed'[u]
      BY DEF NoWakeLost
    <3>1. CASE u = t
      <4>1. owed'[t] = owed[t] /\ owed[t] # 0 /\ ~(b.wakes[t] >= owed[t])
        BY <1>4, <2>1, <2>5, <3>1
      <4>2. pending[t] >= owed[t] \/ \E x \in batches : t \in x.todo /\ x.wakes[t] >= owed[t]
        BY <1>1, <2>1, <4>1 DEF NoWakeLost
      <4>3. CASE pending[t] >= owed[t]
        BY <1>4, <1>5, <2>1, <3>1, <4>1, <4>3
      <4>4. CASE \E x \in batches : t \in x.todo /\ x.wakes[t] >= owed[t]
        BY <2>3, <3>1, <4>1, <4>4
      <4> QED
        BY <4>2, <4>3, <4>4
    <3>2. CASE u # t
      <4>1. owed'[u] = queued[u]
        BY <2>4, <3>2
      <4>2. ASSUME NEW x \in batches, u \in x.todo, x.wakes[u] >= queued[u]
            PROVE  \E y \in batches' : u \in y.todo /\ y.wakes[u] >= queued[u]
        BY <2>2, <2>3, <3>2, <4>2
      <4> QED
        BY <1>6, <4>1, <4>2
    <3> QED
      BY <3>1, <3>2
  <2> QED
    BY <2>6, <2>7, <2>8 DEF IndInv
<1>8. ASSUME b.todo = {}, owed' = queued, Finish(b, timer1)
      PROVE  IndInv'
  <2>1. \A t \in Targets : owed'[t] # 0 =>
            \/ pending'[t] >= owed'[t]
            \/ \E c \in batches \ {b} : t \in c.todo /\ c.wakes[t] >= owed'[t]
    BY <1>6, <1>8
  <2> QED
    BY <1>2, <1>3, <1>5, <1>8, <2>1, FinishKeeps
<1> QED
  BY <1>7, <1>8 DEF Proceed, queued

(* The handler throws: what it called for and what was left are queued again. *)
LEMMA ThrowKeeps ==
  ASSUME IndInv, NEW b \in batches, CallThrows(b)
  PROVE  IndInv'
<1> DEFINE timer1 == Schedule(timer, Retry, "retry")
           again == Only(b.calling, b.wakes[b.calling])
<1>1. /\ pending' = Queue(pending, b.wakes) /\ Cooldown(timer1)
      /\ owed' = Queue(owed, again) /\ Finish(b, timer1)
      /\ UNCHANGED <<handler, generation, scheduled, requests>>
  BY DEF CallThrows
<1>2. Types /\ NoWakeLost /\ b \in BatchType
  BY DEF IndInv, Types
<1>3. /\ pending \in Wakes /\ owed \in Wakes /\ b.wakes \in Wakes
      /\ b.calling \in Targets /\ b.wakes[b.calling] \in {0} \cup Priorities
  BY <1>2, WakesAreNumbers DEF Types, BatchType
<1>4. again \in Wakes /\ \A t \in Targets : again[t] = IF t = b.calling THEN b.wakes[t] ELSE 0
  BY <1>3, OnlyFacts DEF Only, None
<1> HIDE DEF again
<1>5. /\ pending' \in Wakes /\ owed' \in Wakes
      /\ \A t \in Targets : /\ pending'[t] >= pending[t] /\ pending'[t] >= b.wakes[t]
                            /\ owed'[t] \in {owed[t], again[t]}
  BY <1>1, <1>3, <1>4, QueueFacts
<1>6. \A t \in Targets : /\ pending'[t] \in Nat /\ pending[t] \in Nat /\ owed[t] \in Nat
                         /\ b.wakes[t] \in Nat
  BY <1>3, <1>5, WakesAreNumbers
<1>7. ASSUME NEW t \in Targets, owed'[t] # 0
      PROVE  \/ pending'[t] >= owed'[t]
             \/ \E c \in batches \ {b} : t \in c.todo /\ c.wakes[t] >= owed'[t]
  <2>1. CASE owed'[t] = again[t]
    BY <1>4, <1>5, <1>6, <1>7, <2>1
  <2>2. CASE owed'[t] = owed[t]
    <3>1. pending[t] >= owed[t] \/ \E c \in batches : t \in c.todo /\ c.wakes[t] >= owed[t]
      BY <1>2, <1>7, <2>2 DEF NoWakeLost
    <3>2. b.wakes[t] >= owed[t] => pending'[t] >= owed[t]
      BY <1>5, <1>6
    <3>3. pending[t] >= owed[t] => pending'[t] >= owed[t]
      BY <1>5, <1>6
    <3> QED
      BY <2>2, <3>1, <3>2, <3>3
  <2> QED
    BY <1>5, <2>1, <2>2
<1>8. TimerOK(timer1) /\ cool' \in Nat /\ CoolOK(timer1, cool')
  BY <1>1, <1>2, CallTimer
<1> QED
  BY <1>1, <1>5, <1>7, <1>8, FinishKeeps

(* The timer starts a batch of everything that is pending. *)
LEMMA FireKeeps == IndInv /\ FireBatch => IndInv'
<1> SUFFICES ASSUME IndInv, FireBatch PROVE IndInv'
  OBVIOUS
<1>1. PICK n \in Numbers, t \in Targets :
        /\ MayFire
        /\ pending[t] # 0
        /\ batches' = batches \cup
             {Calling([handler |-> handler, number |-> n, wakes |-> pending, calling |-> t,
                       todo |-> {u \in Targets : pending[u] # 0}, delay |-> timer.delay], t)}
        /\ owed' = [owed EXCEPT ![t] = 0]
        /\ pending' = None /\ running' = TRUE /\ scheduled' = FALSE /\ timer' = NoTimer
        /\ UNCHANGED <<handler, generation, requests, cool, reset>>
  BY DEF FireBatch
<1>2. Types /\ BatchesOK /\ NoWakeLost
  BY DEF IndInv
<1>3. /\ timer \in Armed /\ timer.left = 0 /\ timer.delay \in Nat
      /\ handler # 0 /\ handler = generation /\ ~running
      /\ handler \in 1..MaxHandlers
  BY <1>1, <1>2, WakeAssumption DEF Types, MayFire, TimerOK, NoTimer, Armed
<1>4. cool = 0
  BY <1>2, <1>3 DEF Types, CoolOK
<1> DEFINE a == [handler |-> handler, number |-> n, wakes |-> pending, calling |-> t,
                 todo |-> {u \in Targets : pending[u] # 0}, delay |-> timer.delay]
           b == Calling(a, t)
<1>5. /\ b \in BatchType /\ b.handler = handler /\ b.wakes = pending /\ b.calling = t
      /\ b.todo = {u \in Targets : pending[u] # 0} \ {t}
  <2>1. /\ a \in BatchType /\ a.handler = handler /\ a.wakes = pending
        /\ a.todo = {u \in Targets : pending[u] # 0}
    BY <1>2, <1>3 DEF Types, BatchType
  <2> DEFINE a1 == [a EXCEPT !.calling = t]
  <2> HIDE DEF a
  <2>2. /\ a1 \in BatchType /\ a1.handler = handler /\ a1.wakes = pending /\ a1.calling = t
        /\ a1.todo = {u \in Targets : pending[u] # 0}
    BY <2>1 DEF BatchType
  <2>3. b = [a1 EXCEPT !.todo = @ \ {t}]
    BY DEF Calling
  <2> HIDE DEF a1, b
  <2> QED
    BY <2>2, <2>3 DEF BatchType
<1>6. batches' = batches \cup {b}
  BY <1>1
<1> HIDE DEF a, b
<1>7. None \in Wakes /\ owed' \in Wakes
  BY <1>1, <1>2 DEF None, Wakes, Types
<1>8. Types'
  <2>1. /\ handler' \in {0, generation'} /\ generation' \in 0..MaxHandlers
        /\ scheduled' \in BOOLEAN /\ running' \in BOOLEAN /\ reset' \in BOOLEAN
    BY <1>1, <1>2 DEF Types
  <2>2. pending' \in Wakes /\ owed' \in Wakes
    BY <1>1, <1>7
  <2>3. batches' \subseteq BatchType
    BY <1>2, <1>5, <1>6 DEF Types
  <2>4. TimerOK(timer') /\ cool' \in Nat /\ CoolOK(timer', cool')
    BY <1>1, <1>4 DEF TimerOK, CoolOK
  <2> QED
    BY <2>1, <2>2, <2>3, <2>4 DEF Types
<1>9. BatchesOK'
  <2>1. ~reset => ~\E c \in batches : c.handler = handler
    BY <1>2, <1>3 DEF BatchesOK
  <2>2. handler <= generation /\ b.todo \subseteq Targets \ {b.calling}
    BY <1>2, <1>3, <1>5 DEF Types
  <2> QED
    BY <1>1, <1>2, <1>5, <1>6, <2>1, <2>2 DEF BatchesOK
<1>10. NoWakeLost'
  <2> SUFFICES ASSUME NEW u \in Targets, owed'[u] # 0
               PROVE  \E c \in batches' : u \in c.todo /\ c.wakes[u] >= owed'[u]
    BY DEF NoWakeLost
  <2>1. u # t /\ owed'[u] = owed[u]
    BY <1>1, <1>2 DEF Types, Wakes
  <2>2. CASE pending[u] >= owed[u]
    <3>1. pending[u] \in Nat /\ owed[u] \in Nat
      BY <1>2, WakesAreNumbers DEF Types
    <3> QED
      BY <1>5, <1>6, <2>1, <2>2, <3>1
  <2>3. CASE \E c \in batches : u \in c.todo /\ c.wakes[u] >= owed[u]
    BY <1>6, <2>1, <2>3
  <2> QED
    BY <1>2, <2>1, <2>2, <2>3 DEF NoWakeLost
<1> QED
  BY <1>8, <1>9, <1>10 DEF IndInv

LEMMA StepIndInv == IndInv /\ [Next]_vars => IndInv'
<1> SUFFICES ASSUME IndInv, [Next]_vars PROVE IndInv'
  OBVIOUS
<1>0. Types /\ BatchesOK /\ NoWakeLost
  BY DEF IndInv
<1>1. ASSUME NEW t \in Targets, NEW p \in Priorities, NEW d \in Delays, Request(t, p, d)
      PROVE  IndInv'
  <2> DEFINE asked == Only(t, p)
  <2>1. /\ owed' = Queue(owed, asked) /\ pending' = Queue(pending, asked)
        /\ timer' = Schedule(timer, d, "normal")
        /\ UNCHANGED <<handler, generation, scheduled, running, batches, cool, reset>>
    BY <1>1 DEF Request
  <2>2. asked \in Wakes
    BY OnlyFacts
  <2> HIDE DEF asked
  <2>3. /\ pending' \in Wakes /\ owed' \in Wakes
        /\ \A u \in Targets : /\ pending'[u] >= pending[u] /\ pending'[u] >= asked[u]
                              /\ owed'[u] \in {owed[u], asked[u]}
    BY <1>0, <2>1, <2>2, QueueFacts DEF Types
  <2>4. \A u \in Targets : pending[u] \in Nat /\ owed[u] \in Nat /\ pending'[u] \in Nat /\ asked[u] \in Nat
    BY <1>0, <2>2, <2>3, WakesAreNumbers DEF Types
  <2>5. TimerOK(timer') /\ CoolOK(timer', cool)
    BY <1>0, <2>1, ScheduleFacts, CoolStays, WakeAssumption DEF Types
  <2>6. Types' /\ BatchesOK'
    BY <1>0, <2>1, <2>3, <2>5 DEF Types, BatchesOK
  <2>7. NoWakeLost'
    <3> SUFFICES ASSUME NEW u \in Targets, owed'[u] # 0
                 PROVE  \/ pending'[u] >= owed'[u]
                        \/ \E c \in batches : u \in c.todo /\ c.wakes[u] >= owed'[u]
      BY <2>1 DEF NoWakeLost
    <3>1. CASE owed'[u] = owed[u]
      BY <1>0, <2>3, <2>4, <3>1 DEF NoWakeLost
    <3>2. CASE owed'[u] = asked[u]
      BY <2>3, <3>2
    <3> QED
      BY <2>3, <3>1, <3>2
  <2> QED
    BY <2>6, <2>7 DEF IndInv
<1>2. ASSUME FireBatch PROVE IndInv'
  BY <1>2, FireKeeps
<1>3. ASSUME FireIdle \/ FireBusy PROVE IndInv'
  <2>1. /\ timer.left = 0
        /\ UNCHANGED <<handler, generation, pending, running, batches, owed, cool, reset>>
        /\ scheduled' \in BOOLEAN
        /\ timer' = NoTimer \/ timer' = Schedule(NoTimer, timer.delay, timer.kind)
    BY <1>3 DEF FireIdle, FireBusy
  <2>2. timer \in Armed /\ timer.delay \in Nat /\ timer.kind \in {"normal", "retry"}
    BY <1>0, <2>1 DEF Types, TimerOK, NoTimer, Armed
  <2>3. cool = 0
    BY <1>0, <2>1 DEF Types, CoolOK
  <2>4. TimerOK(NoTimer) /\ TimerOK(timer') /\ CoolOK(timer', cool)
    BY <2>1, <2>2, <2>3, ScheduleFacts DEF TimerOK, CoolOK
  <2>5. Types' /\ BatchesOK' /\ NoWakeLost'
    BY <1>0, <2>1, <2>4 DEF Types, BatchesOK, NoWakeLost
  <2> QED
    BY <2>5 DEF IndInv
<1>4. ASSUME NEW b \in batches, CallDone(b) \/ CallBusy(b) \/ CallThrows(b) PROVE IndInv'
  <2>1. CASE CallDone(b)
    <3>1. None \in Wakes
      BY DEF None, Wakes
    <3> QED
      BY <2>1, <3>1, ProceedKeeps DEF CallDone
  <2>2. CASE CallBusy(b)
    <3>1. b \in BatchType
      BY <1>0 DEF Types
    <3>2. b.calling \in Targets /\ b.wakes[b.calling] \in {0} \cup Priorities
      BY <3>1 DEF BatchType, Wakes
    <3>3. Only(b.calling, b.wakes[b.calling]) \in Wakes
      BY <3>2, OnlyFacts
    <3> QED
      BY <2>2, <3>3, ProceedKeeps DEF CallBusy
  <2>3. CASE CallThrows(b)
    BY <2>3, ThrowKeeps
  <2> QED
    BY <1>4, <2>1, <2>2, <2>3
<1>5. ASSUME SetHandler PROVE IndInv'
  <2>1. /\ generation < MaxHandlers /\ generation' = generation + 1 /\ handler' = generation + 1
        /\ running' = FALSE /\ scheduled' = FALSE /\ cool' = 0
        /\ timer' \in {NoTimer, Schedule(NoTimer, Coalesce, "normal")}
        /\ UNCHANGED <<pending, batches, owed, reset>>
    BY <1>5 DEF SetHandler
  <2>2. TimerOK(NoTimer) /\ TimerOK(timer') /\ CoolOK(timer', 0)
    BY <2>1, ScheduleFacts, WakeAssumption DEF TimerOK, CoolOK
  <2>3. Types'
    <3>1. generation \in Nat /\ generation' \in 0..MaxHandlers /\ handler' = generation'
      BY <1>0, <2>1, WakeAssumption DEF Types
    <3>2. /\ pending' \in Wakes /\ owed' \in Wakes /\ batches' \subseteq BatchType
          /\ scheduled' \in BOOLEAN /\ running' \in BOOLEAN /\ reset' \in BOOLEAN
      BY <1>0, <2>1 DEF Types
    <3>3. TimerOK(timer') /\ cool' \in Nat /\ CoolOK(timer', cool')
      BY <2>1, <2>2
    <3> QED
      BY <3>1, <3>2, <3>3 DEF Types
  <2>4. \A b \in batches : b.handler \in Nat /\ b.handler <= generation
    BY <1>0 DEF Types, BatchesOK, BatchType
  <2>5. generation \in Nat
    BY <1>0 DEF Types
  <2>6. BatchesOK'
    BY <1>0, <2>1, <2>4, <2>5 DEF BatchesOK
  <2>7. NoWakeLost'
    BY <1>0, <2>1 DEF NoWakeLost
  <2> QED
    BY <2>3, <2>6, <2>7 DEF IndInv
<1>6. ASSUME Dispose PROVE IndInv'
  <2>1. /\ handler' = 0
        /\ UNCHANGED <<generation, pending, scheduled, running, timer, batches, owed, cool, reset>>
    BY <1>6 DEF Dispose
  <2>2. \A b \in batches : b.handler # 0
    BY <1>0 DEF Types, BatchType
  <2>3. Types' /\ BatchesOK' /\ NoWakeLost'
    BY <1>0, <2>1, <2>2 DEF Types, BatchesOK, NoWakeLost
  <2> QED
    BY <2>3 DEF IndInv
<1>7. ASSUME ClockTicks PROVE IndInv'
  <2>1. /\ timer.left > 0 /\ timer' = [timer EXCEPT !.left = @ - 1]
        /\ cool' = IF cool > 0 THEN cool - 1 ELSE 0
        /\ UNCHANGED <<handler, generation, pending, scheduled, running, batches, owed, reset>>
    BY <1>7 DEF ClockTicks
  <2>2. timer \in Armed /\ timer.left <= timer.delay
    BY <1>0, <2>1 DEF Types, TimerOK, NoTimer
  <2>3. /\ timer' \in Armed /\ timer'.left = timer.left - 1 /\ timer'.delay = timer.delay
        /\ timer'.kind = timer.kind
    BY <2>1, <2>2 DEF Armed
  <2>4. TimerOK(timer')
    BY <2>2, <2>3 DEF TimerOK, Armed
  <2>5. cool' \in Nat /\ CoolOK(timer', cool')
    BY <1>0, <2>1, <2>2, <2>3 DEF Types, CoolOK, Armed
  <2>6. Types' /\ BatchesOK' /\ NoWakeLost'
    BY <1>0, <2>1, <2>4, <2>5 DEF Types, BatchesOK, NoWakeLost
  <2> QED
    BY <2>6 DEF IndInv
<1>8. ASSUME UNCHANGED vars PROVE IndInv'
  BY <1>8 DEF vars, IndInv, Types, BatchesOK, NoWakeLost
<1> QED
  BY <1>1, <1>2, <1>3, <1>4, <1>5, <1>6, <1>7, <1>8 DEF Next, CallEnds

(* The argument of the theorems below. *)
THEOREM Invariance == Spec => []IndInv
  BY InitIndInv, StepIndInv, PTL DEF Spec

-----------------------------------------------------------------------------

(* The variables hold values of their types, and the calls of one handler    *)
(* overlap only after the end of an older one's batch reset the flag.        *)
THEOREM TypeCorrect == Spec => []TypeOK
<1>1. IndInv => TypeOK
  <2> SUFFICES ASSUME IndInv PROVE TypeOK
    OBVIOUS
  <2>1. \A t \in Targets : {pending[t], owed[t]} \subseteq {0} \cup Priorities
    BY WakesAreNumbers DEF IndInv, Types
  <2>2. timer # NoTimer => timer.left \in 0..Larger(Retry, timer.delay)
    BY WakeAssumption DEF IndInv, Types, TimerOK, Armed, Larger
  <2> QED
    BY <2>1, <2>2 DEF IndInv, Types, BatchesOK, TypeOK
<1> QED
  BY <1>1, Invariance, PTL

(* Errors, busy answers, new handlers and coalescing lose no request.        *)
THEOREM WakeKept == Spec => []NoWakeLost
<1>1. IndInv => NoWakeLost
  BY DEF IndInv
<1> QED
  BY <1>1, Invariance, PTL

(* No batch starts while a cooldown runs. *)
THEOREM CooldownRespected == Spec => CooldownKept
<1>1. IndInv /\ [Next]_vars => [~running /\ running' => cool = 0]_vars
  <2> SUFFICES ASSUME IndInv, Next, ~running, running' PROVE cool = 0
    OBVIOUS
  <2>1. FireBatch
    BY DEF Next, Request, FireIdle, FireBusy, CallEnds, CallDone, CallBusy, CallThrows, Proceed,
           Finish, SetHandler, Dispose, ClockTicks
  <2>2. timer.left = 0
    BY <2>1 DEF FireBatch, MayFire
  <2> QED
    BY <2>2 DEF IndInv, Types, CoolOK
<1> QED
  BY <1>1, Invariance, PTL DEF Spec, CooldownKept
=============================================================================
