--------------------------- MODULE RestartProofs ---------------------------
(* The safety of restarts for all sets of dispatchers, all delays, cooldowns *)
(* and waiting times, and any number of requests and replies.                *)
EXTENDS RestartCoordination, TLAPS

DispatcherTypes ==
  /\ pending \in [Dispatchers -> Int]
  /\ {accepted, chain, promised} \subseteq [Dispatchers -> Int]

(* DispatchersOK with the domains of the counters. *)
DispatcherInv == DispatcherTypes /\ DispatchersOK

RestartTypes ==
  /\ gateway \in {"up", "shutting", "gone"}
  /\ work \in BOOLEAN /\ restartPending \in BOOLEAN
  /\ loop \in {"starting", "awaiting"}
  /\ owed \in {"no", "yes", "missed"} /\ fresh \in BOOLEAN
  /\ timer \in Nat \cup {NoTimer}
  /\ cool \in 0..Cooldown
  /\ polls \in [Deferrals -> {Off} \cup [waited : 0..MaxWait, reload : BOOLEAN]]
  /\ requests \in 0..MaxRequests
  /\ cause \in {"none", "idle", "timeout", "external"}

(* One deferral at most has the handlers of the running server to tell, and  *)
(* they know of it.                                                          *)
ReloadsOK ==
  /\ restartPending <=> \E i \in Deferrals : polls[i].reload
  /\ \A i, k \in Deferrals : polls[i].reload /\ polls[k].reload => i = k

(* The scheduled restart is one that was asked for after the last emission,  *)
(* and it waits for the cooldown of that one.                                *)
TimerOK == timer # NoTimer => fresh /\ timer >= cool

IndInv == DispatcherInv /\ RestartTypes /\ ReloadsOK /\ TimerOK

-----------------------------------------------------------------------------

LEMMA InitIndInv == Init => IndInv
<1> SUFFICES ASSUME Init PROVE IndInv
  OBVIOUS
<1> USE DEF Init, InitDispatchers
<1>1. DispatcherInv
  BY DispatcherAssumption DEF DispatcherInv, DispatcherTypes, DispatchersOK, Unfinished
<1>2. RestartTypes
  <2>1. /\ timer \in Nat \cup {NoTimer}
        /\ polls \in [Deferrals -> {Off} \cup [waited : 0..MaxWait, reload : BOOLEAN]]
    OBVIOUS
  <2>2. cool \in 0..Cooldown /\ requests \in 0..MaxRequests
    BY RestartAssumption
  <2> QED
    BY <2>1, <2>2 DEF RestartTypes
<1>3. ReloadsOK /\ TimerOK
  BY DEF ReloadsOK, TimerOK, Off
<1> QED
  BY <1>1, <1>2, <1>3 DEF IndInv

(* A reply, the end of a turn and the release of its reservation keep the    *)
(* counter of a registered dispatcher one above its chain.                   *)
LEMMA DispatcherKeeps == DispatcherInv /\ DispatcherNext => DispatcherInv'
<1> SUFFICES ASSUME DispatcherInv, NEW d \in Dispatchers,
                    Create(d) \/ Enqueue(d) \/ Settle(d) \/ MarkComplete(d) \/ ClearReservation(d)
             PROVE  DispatcherInv'
  BY DEF DispatcherNext
<1> DEFINE Fine(e) ==
             /\ pending[e] \in Int
             /\ accepted[e] \in 0..MaxReplies
             /\ chain[e] \in 0..accepted[e]
             /\ promised[e] \in 0..chain[e]
             /\ e \notin created => pending[e] = 0 /\ accepted[e] = 0
             /\ e \in registered => pending[e] = chain[e] + 1
             /\ Unfinished(e) => e \in registered
             /\ e \in registered \cap completed => chain[e] > 0 \/ e \in clearing
           Sets == registered \cup completed \subseteq created /\ clearing \subseteq completed
<1>1. DispatcherTypes /\ Sets /\ \A e \in Dispatchers : Fine(e)
  BY DEF DispatcherInv, DispatchersOK
<1>2. SUFFICES DispatcherTypes' /\ Sets' /\ \A e \in Dispatchers : Fine(e)'
  BY DEF DispatcherInv, DispatchersOK
<1>3. CASE Create(d)
  <2>1. DispatcherTypes' /\ Sets'
    BY <1>1, <1>3 DEF Create, DispatcherTypes
  <2>2. ASSUME NEW e \in Dispatchers PROVE Fine(e)'
    <3>1. CASE e = d
      BY <1>1, <1>3, <3>1 DEF Create, DispatcherTypes, Unfinished
    <3>2. CASE e # d
      BY <1>1, <1>3, <3>2 DEF Create, DispatcherTypes, Unfinished
    <3> QED
      BY <3>1, <3>2
  <2> QED
    BY <2>1, <2>2
<1>4. CASE Enqueue(d)
  <2>1. DispatcherTypes' /\ Sets'
    BY <1>1, <1>4 DEF Enqueue, DispatcherTypes
  <2>2. ASSUME NEW e \in Dispatchers PROVE Fine(e)'
    <3>1. CASE e = d
      <4>1. /\ d \in created /\ accepted[d] < MaxReplies
            /\ accepted'[d] = accepted[d] + 1 /\ pending'[d] = pending[d] + 1
            /\ chain'[d] = chain[d] + 1
            /\ promised'[d] = IF d \in completed THEN promised[d] ELSE promised[d] + 1
            /\ UNCHANGED <<created, registered, completed, clearing>>
        BY <1>1, <1>4 DEF Enqueue, DispatcherTypes
      <4>2. Fine(d)
        BY <1>1
      <4> QED
        BY <3>1, <4>1, <4>2, DispatcherAssumption DEF Unfinished
    <3>2. CASE e # d
      BY <1>1, <1>4, <3>2 DEF Enqueue, DispatcherTypes, Unfinished
    <3> QED
      BY <3>1, <3>2
  <2> QED
    BY <2>1, <2>2
<1>5. CASE Settle(d)
  <2> DEFINE n == IF pending[d] = 2 /\ d \in completed THEN 0 ELSE pending[d] - 1
  <2>1. /\ chain[d] > 0
        /\ chain' = [chain EXCEPT ![d] = @ - 1]
        /\ promised' = [promised EXCEPT ![d] = IF @ > 0 THEN @ - 1 ELSE 0]
        /\ pending' = [pending EXCEPT ![d] = n]
        /\ registered' = IF n = 0 THEN registered \ {d} ELSE registered
        /\ UNCHANGED <<created, completed, clearing, accepted>>
    BY <1>5 DEF Settle, Count
  <2>2. DispatcherTypes' /\ Sets'
    BY <1>1, <2>1 DEF DispatcherTypes
  <2>3. ASSUME NEW e \in Dispatchers PROVE Fine(e)'
    <3>1. CASE e = d
      <4>1. /\ chain'[d] = chain[d] - 1
            /\ promised'[d] = IF promised[d] > 0 THEN promised[d] - 1 ELSE 0
            /\ pending'[d] = n
        BY <1>1, <2>1 DEF DispatcherTypes
      <4>2. Fine(d)
        BY <1>1
      <4> QED
        BY <2>1, <3>1, <4>1, <4>2, DispatcherAssumption DEF Unfinished
    <3>2. CASE e # d
      BY <1>1, <2>1, <3>2 DEF DispatcherTypes, Unfinished
    <3> QED
      BY <3>1, <3>2
  <2> QED
    BY <2>2, <2>3
<1>6. CASE MarkComplete(d)
  BY <1>1, <1>6 DEF MarkComplete, DispatcherTypes, Unfinished
<1>7. CASE ClearReservation(d)
  <2>1. /\ d \in clearing /\ clearing' = clearing \ {d}
        /\ UNCHANGED <<created, completed, chain, accepted, promised>>
        /\ \/ /\ pending[d] = 1 /\ pending' = [pending EXCEPT ![d] = 0]
              /\ registered' = registered \ {d}
           \/ pending[d] # 1 /\ UNCHANGED <<pending, registered>>
    BY <1>7 DEF ClearReservation, Count
  <2>2. DispatcherTypes' /\ Sets'
    BY <1>1, <2>1 DEF DispatcherTypes
  <2>3. ASSUME NEW e \in Dispatchers PROVE Fine(e)'
    <3>1. CASE e = d
      <4>1. pending'[d] = IF pending[d] = 1 THEN 0 ELSE pending[d]
        BY <1>1, <2>1 DEF DispatcherTypes
      <4>2. Fine(d)
        BY <1>1
      <4> QED
        BY <1>1, <2>1, <3>1, <4>1, <4>2, DispatcherAssumption DEF Unfinished
    <3>2. CASE e # d
      BY <1>1, <2>1, <3>2 DEF DispatcherTypes, Unfinished
    <3> QED
      BY <3>1, <3>2
  <2> QED
    BY <2>2, <2>3
<1> QED
  BY <1>3, <1>4, <1>5, <1>6, <1>7

(* The dispatchers' invariant over a step that leaves them alone. *)
LEMMA DispatchersUnchanged ==
  DispatcherInv /\ UNCHANGED dispatcherVars => DispatcherInv'
BY DEF DispatcherInv, DispatcherTypes, DispatchersOK, Unfinished, dispatcherVars

(* What an emission leaves. *)
LEMMA EmitFacts ==
  ASSUME RestartTypes, NEW why \in {"idle", "timeout"}, Emit(why)
  PROVE  /\ timer' = NoTimer /\ cool' \in 0..Cooldown /\ fresh' = FALSE
         /\ gateway' \in {"up", "shutting", "gone"}
         /\ cause' \in {"none", "idle", "timeout", "external"}
BY RestartAssumption DEF Emit, RestartTypes

(* A new deferral takes a slot that told nobody anything. *)
LEMMA DeferFacts ==
  ASSUME RestartTypes, NEW reload \in BOOLEAN, Defer(reload)
  PROVE  /\ polls' \in [Deferrals -> {Off} \cup [waited : 0..MaxWait, reload : BOOLEAN]]
         /\ \E i \in Deferrals :
              /\ polls'[i].reload = reload /\ ~polls[i].reload
              /\ \A k \in Deferrals \ {i} : polls'[k] = polls[k]
<1>1. PICK i \in Deferrals :
        /\ polls[i] = Off
        /\ polls' = [polls EXCEPT ![i] = [waited |-> 0, reload |-> reload]]
  BY DEF Defer
<1>2. [waited |-> 0, reload |-> reload] \in [waited : 0..MaxWait, reload : BOOLEAN]
  BY RestartAssumption
<1> QED
  BY <1>1, <1>2 DEF RestartTypes, Off

(* The end of a deferral's wait, as every way to end it does it. *)
LEMMA PollFacts ==
  ASSUME RestartTypes, ReloadsOK, NEW i \in Deferrals,
         polls' = [polls EXCEPT ![i] = Off],
         restartPending' = (restartPending /\ ~polls[i].reload)
  PROVE  /\ polls' \in [Deferrals -> {Off} \cup [waited : 0..MaxWait, reload : BOOLEAN]]
         /\ restartPending' \in BOOLEAN
         /\ ReloadsOK'
<1>1. /\ polls' \in [Deferrals -> {Off} \cup [waited : 0..MaxWait, reload : BOOLEAN]]
      /\ restartPending' \in BOOLEAN
  BY DEF RestartTypes
<1>2. ~polls'[i].reload /\ \A k \in Deferrals \ {i} : polls'[k] = polls[k]
  BY DEF RestartTypes, Off
<1> QED
  BY <1>1, <1>2 DEF ReloadsOK

LEMMA StepIndInv == IndInv /\ [Next]_vars => IndInv'
<1> SUFFICES ASSUME IndInv, [Next]_vars PROVE IndInv'
  OBVIOUS
<1>0. DispatcherInv /\ RestartTypes /\ ReloadsOK /\ TimerOK
  BY DEF IndInv
<1>1. ASSUME NEW delay \in Delays, Schedule(delay) PROVE IndInv'
  <2>1. /\ requests < MaxRequests /\ requests' = requests + 1
        /\ owed' = "yes" /\ fresh' = TRUE
        /\ timer' = IF timer # NoTimer /\ timer <= delay + cool THEN timer ELSE delay + cool
        /\ UNCHANGED <<dispatcherVars, gateway, loop, work, cool, polls, restartPending, cause>>
    BY <1>1 DEF Schedule, Asked
  <2>2. /\ timer' \in Nat /\ timer' >= cool
    BY <1>0, <2>1, RestartAssumption DEF RestartTypes, TimerOK
  <2>3. RestartTypes'
    BY <1>0, <2>1, <2>2, RestartAssumption DEF RestartTypes
  <2>4. ReloadsOK' /\ TimerOK'
    BY <1>0, <2>1, <2>2 DEF ReloadsOK, TimerOK
  <2> QED
    BY <1>0, <2>1, <2>3, <2>4, DispatchersUnchanged DEF IndInv
<1>2. ASSUME TimerFires PROVE IndInv'
  <2>1. UNCHANGED <<dispatcherVars, loop, work, restartPending, requests, owed>>
    BY <1>2 DEF TimerFires
  <2>2. CASE Busy
    <3>1. Defer(FALSE) /\ timer' = NoTimer /\ UNCHANGED <<gateway, cool, fresh, cause>>
      BY <1>2, <2>2 DEF TimerFires
    <3>2. RestartTypes'
      BY <1>0, <2>1, <3>1, DeferFacts DEF RestartTypes
    <3>3. ReloadsOK'
      BY <1>0, <2>1, <3>1, DeferFacts DEF ReloadsOK
    <3> QED
      BY <1>0, <2>1, <3>1, <3>2, <3>3, DispatchersUnchanged DEF IndInv, TimerOK
  <2>3. CASE ~Busy
    <3>1. Emit("idle") /\ UNCHANGED polls
      BY <1>2, <2>3 DEF TimerFires
    <3>2. RestartTypes' /\ TimerOK'
      BY <1>0, <2>1, <3>1, EmitFacts DEF RestartTypes, TimerOK
    <3>3. ReloadsOK'
      BY <1>0, <2>1, <3>1 DEF ReloadsOK
    <3> QED
      BY <1>0, <2>1, <3>2, <3>3, DispatchersUnchanged DEF IndInv
  <2> QED
    BY <2>2, <2>3
<1>3. ASSUME ConfigChanges PROVE IndInv'
  <2>1. /\ requests < MaxRequests /\ requests' = requests + 1 /\ owed' = "yes"
        /\ UNCHANGED <<dispatcherVars, loop, work>>
        /\ requests' \in 0..MaxRequests
    BY <1>0, <1>3, RestartAssumption DEF ConfigChanges, Asked, RestartTypes
  <2>2. CASE Busy
    <3>1. /\ IF restartPending THEN UNCHANGED polls ELSE Defer(TRUE)
          /\ restartPending' = TRUE /\ fresh' = TRUE
          /\ UNCHANGED <<gateway, timer, cool, cause>>
      BY <1>3, <2>2 DEF ConfigChanges
    <3>2. RestartTypes'
      BY <1>0, <2>1, <3>1, DeferFacts DEF RestartTypes
    <3>3. ReloadsOK'
      <4>1. CASE restartPending
        BY <1>0, <3>1, <4>1 DEF ReloadsOK
      <4>2. CASE ~restartPending
        <5>1. Defer(TRUE) /\ \A i \in Deferrals : ~polls[i].reload
          BY <1>0, <3>1, <4>2 DEF ReloadsOK
        <5>2. PICK i \in Deferrals : /\ polls'[i].reload = TRUE
                                     /\ \A k \in Deferrals \ {i} : polls'[k] = polls[k]
          BY <1>0, <5>1, DeferFacts
        <5> QED
          BY <3>1, <5>1, <5>2 DEF ReloadsOK
      <4> QED
        BY <4>1, <4>2
    <3>4. TimerOK'
      BY <1>0, <3>1 DEF TimerOK
    <3> QED
      BY <1>0, <2>1, <3>2, <3>3, <3>4, DispatchersUnchanged DEF IndInv
  <2>3. CASE ~Busy
    <3>1. Emit("idle") /\ UNCHANGED <<polls, restartPending>>
      BY <1>3, <2>3 DEF ConfigChanges
    <3>2. RestartTypes' /\ TimerOK'
      BY <1>0, <2>1, <3>1, EmitFacts DEF RestartTypes, TimerOK
    <3>3. ReloadsOK'
      BY <1>0, <3>1 DEF ReloadsOK
    <3> QED
      BY <1>0, <2>1, <3>2, <3>3, DispatchersUnchanged DEF IndInv
  <2> QED
    BY <2>2, <2>3
<1>4. ASSUME NEW i \in Deferrals, PollEnds(i) PROVE IndInv'
  <2>1. /\ polls' = [polls EXCEPT ![i] = Off]
        /\ restartPending' = (restartPending /\ ~polls[i].reload)
        /\ Emit("idle") \/ Emit("timeout")
        /\ UNCHANGED <<dispatcherVars, loop, work, requests, owed>>
    BY <1>4 DEF PollEnds
  <2>2. /\ polls' \in [Deferrals -> {Off} \cup [waited : 0..MaxWait, reload : BOOLEAN]]
        /\ restartPending' \in BOOLEAN
        /\ ReloadsOK'
    BY <1>0, <2>1, PollFacts
  <2>3. /\ timer' = NoTimer /\ cool' \in 0..Cooldown /\ fresh' = FALSE
        /\ gateway' \in {"up", "shutting", "gone"}
        /\ cause' \in {"none", "idle", "timeout", "external"}
    BY <1>0, <2>1, EmitFacts
  <2>4. RestartTypes' /\ TimerOK'
    BY <1>0, <2>1, <2>2, <2>3 DEF RestartTypes, TimerOK
  <2> QED
    BY <1>0, <2>1, <2>2, <2>4, DispatchersUnchanged DEF IndInv
<1>5. ASSUME ExternalSignal PROVE IndInv'
  <2>1. RestartTypes'
    BY <1>0, <1>5, RestartAssumption DEF ExternalSignal, RestartTypes
  <2>2. DispatcherInv' /\ ReloadsOK' /\ TimerOK'
    BY <1>0, <1>5, DispatchersUnchanged DEF ExternalSignal, ReloadsOK, TimerOK
  <2> QED
    BY <2>1, <2>2 DEF IndInv
<1>6. ASSUME Starts PROVE IndInv'
  <2>1. /\ polls' = [i \in Deferrals |-> [polls[i] EXCEPT !.reload = FALSE]]
        /\ gateway' = "up" /\ loop' = "starting" /\ owed' = "no" /\ restartPending' = FALSE
        /\ UNCHANGED <<dispatcherVars, work, timer, cool, requests, fresh, cause>>
    BY <1>6 DEF Starts
  <2>2. ASSUME NEW i \in Deferrals
        PROVE  /\ polls'[i] \in {Off} \cup [waited : 0..MaxWait, reload : BOOLEAN]
               /\ ~polls'[i].reload
    <3>1. polls'[i] = [polls[i] EXCEPT !.reload = FALSE]
      BY <2>1
    <3>2. CASE polls[i] = Off
      <4>1. Off \in [waited : Int, reload : BOOLEAN] /\ ~Off.reload
        BY DEF Off
      <4>2. [Off EXCEPT !.reload = FALSE] = Off
        BY <4>1
      <4> QED
        BY <3>1, <3>2, <4>1, <4>2
    <3>3. CASE polls[i] \in [waited : 0..MaxWait, reload : BOOLEAN]
      BY <3>1, <3>3
    <3> QED
      BY <1>0, <3>2, <3>3 DEF RestartTypes
  <2>3. polls' \in [Deferrals -> {Off} \cup [waited : 0..MaxWait, reload : BOOLEAN]]
    BY <2>1, <2>2
  <2>4. RestartTypes' /\ ReloadsOK' /\ TimerOK'
    BY <1>0, <2>1, <2>2, <2>3 DEF RestartTypes, ReloadsOK, TimerOK
  <2> QED
    BY <1>0, <2>1, <2>4, DispatchersUnchanged DEF IndInv
<1>7. ASSUME StartCompletes \/ Misses \/ Exits \/ WorkChanges \/ UNCHANGED vars PROVE IndInv'
  <2>1. RestartTypes'
    BY <1>0, <1>7 DEF StartCompletes, Misses, Exits, WorkChanges, vars, restartVars, RestartTypes
  <2>2. UNCHANGED <<dispatcherVars, timer, cool, polls, restartPending, fresh>>
    BY <1>7 DEF StartCompletes, Misses, Exits, WorkChanges, vars, restartVars
  <2> QED
    BY <1>0, <2>1, <2>2, DispatchersUnchanged DEF IndInv, ReloadsOK, TimerOK
<1>8. ASSUME ClockTicks PROVE IndInv'
  <2>1. /\ timer' = Less(timer) /\ cool' = Less(cool)
        /\ polls' = [i \in Deferrals |-> Waited(polls[i])]
        /\ UNCHANGED <<dispatcherVars, gateway, loop, work, restartPending, requests, owed,
                       fresh, cause>>
    BY <1>8 DEF ClockTicks
  <2>2. /\ timer' \in Nat \cup {NoTimer} /\ cool' \in 0..Cooldown /\ TimerOK'
    BY <1>0, <2>1, RestartAssumption DEF RestartTypes, TimerOK, Less, NoTimer
  <2>3. ASSUME NEW i \in Deferrals
        PROVE  /\ polls'[i] \in {Off} \cup [waited : 0..MaxWait, reload : BOOLEAN]
               /\ polls'[i].reload = polls[i].reload
    <3>1. polls'[i] = Waited(polls[i])
      BY <2>1
    <3>2. CASE polls[i] = Off
      BY <3>1, <3>2 DEF Waited
    <3>3. CASE polls[i] # Off
      <4>1. polls[i] \in [waited : 0..MaxWait, reload : BOOLEAN]
        BY <1>0, <3>3 DEF RestartTypes
      <4> QED
        BY <3>1, <3>3, <4>1, RestartAssumption DEF Waited
    <3> QED
      BY <3>2, <3>3
  <2>4. polls' \in [Deferrals -> {Off} \cup [waited : 0..MaxWait, reload : BOOLEAN]]
    BY <2>1, <2>3
  <2>5. RestartTypes' /\ ReloadsOK'
    BY <1>0, <2>1, <2>2, <2>3, <2>4 DEF RestartTypes, ReloadsOK
  <2> QED
    BY <1>0, <2>1, <2>2, <2>5, DispatchersUnchanged DEF IndInv
<1>9. ASSUME DispatcherStep PROVE IndInv'
  <2>1. DispatcherInv' /\ UNCHANGED restartVars
    BY <1>0, <1>9, DispatcherKeeps DEF DispatcherStep
  <2> QED
    BY <1>0, <2>1 DEF IndInv, restartVars, RestartTypes, ReloadsOK, TimerOK
<1> QED
  BY <1>1, <1>2, <1>3, <1>4, <1>5, <1>6, <1>7, <1>8, <1>9 DEF Next

(* The argument of the theorems below. *)
THEOREM Invariance == Spec => []IndInv
  BY InitIndInv, StepIndInv, PTL DEF Spec

-----------------------------------------------------------------------------

(* The variables hold values of their types, a registered dispatcher counts  *)
(* its replies and its reservation, and the reload handlers think a restart  *)
(* pending just when a deferral is.                                          *)
THEOREM TypeCorrect == Spec => []TypeOK
<1>1. IndInv => TypeOK
  <2> SUFFICES ASSUME IndInv PROVE TypeOK
    OBVIOUS
  <2>1. DispatchersOK
    BY DEF IndInv, DispatcherInv
  <2>2. \A i \in Deferrals :
          polls[i] = Off \/ (polls[i].waited \in 0..MaxWait /\ polls[i].reload \in BOOLEAN)
    BY DEF IndInv, RestartTypes
  <2>3. {work, restartPending, fresh} \subseteq BOOLEAN
    BY DEF IndInv, RestartTypes
  <2> QED
    BY <2>1, <2>2, <2>3 DEF IndInv, RestartTypes, ReloadsOK, TypeOK
<1> QED
  BY <1>1, Invariance, PTL

(* No mixture of scheduled, deferred and emitted restarts makes a scheduled  *)
(* one due within the cooldown of the last.                                  *)
THEOREM CooldownRespected == Spec => []TimerAfterCooldown
<1>1. IndInv => TimerAfterCooldown
  BY DEF IndInv, TimerOK, TimerAfterCooldown
<1> QED
  BY <1>1, Invariance, PTL

(* A restart of an idle gateway finds every turn ended and every reply       *)
(* delivered that its turn had enqueued.                                     *)
THEOREM RepliesDelivered == Spec => NoReplyCutOff
<1>1. IndInv /\ [Next]_vars
        => [gateway = "up" /\ gateway' = "shutting" /\ cause' = "idle"
              => ~work /\ \A d \in Dispatchers : ~Unfinished(d)]_vars
  <2> SUFFICES ASSUME IndInv, Next, gateway = "up", gateway' = "shutting", cause' = "idle"
               PROVE  ~work /\ \A d \in Dispatchers : ~Unfinished(d)
    OBVIOUS
  <2>1. SUFFICES ~Busy
    <3>1. \A d \in Dispatchers : d \in registered => pending[d] # 0
      BY DEF IndInv, DispatcherInv, DispatchersOK
    <3> QED
      BY <2>1, <3>1 DEF Busy, PendingReplies, IndInv, DispatcherInv, DispatchersOK
  <2>2. CASE TimerFires \/ ConfigChanges
    BY <2>2 DEF TimerFires, ConfigChanges
  <2>3. CASE \E i \in Deferrals : PollEnds(i)
    BY <2>3 DEF PollEnds, Emit
  <2>4. CASE \E delay \in Delays : Schedule(delay)
    BY <2>4 DEF Schedule
  <2>5. CASE ExternalSignal \/ StartCompletes \/ Starts \/ Misses \/ Exits
    BY <2>5 DEF ExternalSignal, StartCompletes, Starts, Misses, Exits
  <2>6. CASE WorkChanges \/ ClockTicks \/ DispatcherStep
    BY <2>6 DEF WorkChanges, ClockTicks, DispatcherStep, restartVars
  <2> QED
    BY <2>2, <2>3, <2>4, <2>5, <2>6 DEF Next
<1> QED
  BY <1>1, Invariance, PTL DEF Spec, NoReplyCutOff

(* An emitted restart uses up the scheduled one, so that a request leads to  *)
(* one restart.                                                              *)
THEOREM NoSecondRestart == Spec => OneRestartPerRequest
<1>1. IndInv /\ [Next]_vars
        => [gateway = "up" /\ gateway' = "shutting" /\ cause' # "external" /\ ~fresh
              => requests' > requests
                 \/ \E i \in Deferrals : polls[i] # Off /\ polls'[i] = Off]_vars
  <2> SUFFICES ASSUME IndInv, Next, gateway = "up", gateway' = "shutting",
                      cause' # "external", ~fresh
               PROVE  \/ requests' > requests
                      \/ \E i \in Deferrals : polls[i] # Off /\ polls'[i] = Off
    OBVIOUS
  <2>1. ~TimerFires
    BY DEF IndInv, TimerOK, TimerFires, NoTimer
  <2>2. CASE ConfigChanges
    BY <2>2, RestartAssumption DEF ConfigChanges, Asked, IndInv, RestartTypes
  <2>3. CASE \E i \in Deferrals : PollEnds(i)
    BY <2>3 DEF PollEnds, IndInv, RestartTypes
  <2>4. CASE \E delay \in Delays : Schedule(delay)
    BY <2>4 DEF Schedule
  <2>5. CASE ExternalSignal \/ StartCompletes \/ Starts \/ Misses \/ Exits
    BY <2>5 DEF ExternalSignal, StartCompletes, Starts, Misses, Exits
  <2>6. CASE WorkChanges \/ ClockTicks \/ DispatcherStep
    BY <2>6 DEF WorkChanges, ClockTicks, DispatcherStep, restartVars
  <2> QED
    BY <2>1, <2>2, <2>3, <2>4, <2>5, <2>6 DEF Next
<1> QED
  BY <1>1, Invariance, PTL DEF Spec, OneRestartPerRequest
=============================================================================
