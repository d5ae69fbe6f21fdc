------------------------- MODULE CommandQueueProofs -------------------------
(* Theorems about CommandQueue for any lanes, calls, limits and number of    *)
(* restarts, and about GatewayRunLoop for any runs, sessions, shared lanes,  *)
(* limits and number of restarts.  The first part is about one lane and the  *)
(* operations of command-queue.ts on it, for every finite set of entries:    *)
(* the lemmas that both rest on.                                             *)
EXTENDS CommandQueue, GatewayRunLoop, FiniteSetTheorems, FunctionTheorems, SequenceTheorems, TLAPS

(* The lane getLaneState creates is well-formed and idle. *)
LEMMA NewLaneFacts ==
  ASSUME NEW T
  PROVE  /\ NewLane \in LaneType(T)
         /\ Entries(NewLane) = {}
         /\ EachOnce(NewLane)
         /\ Saturated(NewLane)
BY DEF NewLane, LaneType, Entries, EachOnce, Saturated

(* The pump of drainLane starts some prefix of the queue: nothing when no    *)
(* slot is free, and else enough to fill the slots or to empty the queue.    *)
LEMMA PumpCountFacts ==
  ASSUME NEW T, IsFiniteSet(T), NEW lane \in LaneType(T)
  PROVE  /\ IsFiniteSet(lane.active)
         /\ Cardinality(lane.active) \in Nat
         /\ lane.maxConcurrent \in Nat
         /\ Len(lane.queue) \in Nat
         /\ PumpCount(lane) \in 0..Len(lane.queue)
         /\ \/ PumpCount(lane) = 0 /\ Cardinality(lane.active) >= lane.maxConcurrent
            \/ Cardinality(lane.active) + PumpCount(lane) = lane.maxConcurrent
            \/ /\ PumpCount(lane) = Len(lane.queue)
               /\ Cardinality(lane.active) + PumpCount(lane) <= lane.maxConcurrent
<1>1. /\ lane.active \in SUBSET T
      /\ lane.maxConcurrent \in Nat \ {0}
      /\ lane.queue \in Seq(T)
  BY DEF LaneType
<1>2. IsFiniteSet(lane.active) /\ Cardinality(lane.active) \in Nat
  BY <1>1, FS_Subset, FS_CardinalityType
<1>3. Len(lane.queue) \in Nat
  BY <1>1
<1> QED
  BY <1>1, <1>2, <1>3 DEF PumpCount

(* What the pump leaves of the queue. *)
LEMMA PumpQueue ==
  ASSUME NEW T, IsFiniteSet(T), NEW lane \in LaneType(T)
  PROVE  /\ Pump(lane).queue \in Seq(T)
         /\ Len(Pump(lane).queue) = Len(lane.queue) - PumpCount(lane)
         /\ \A i \in 1..Len(Pump(lane).queue) :
              /\ i + PumpCount(lane) \in 1..Len(lane.queue)
              /\ Pump(lane).queue[i] = lane.queue[i + PumpCount(lane)]
<1> DEFINE n == PumpCount(lane)
           q == lane.queue
           r == Pump(lane).queue
<1>1. q \in Seq(T) /\ Len(q) \in Nat
  BY DEF LaneType
<1>2. r = SubSeq(q, n + 1, Len(q))
  BY DEF LaneType, Pump
<1>3. n \in 0..Len(q)
  BY PumpCountFacts
<1> HIDE DEF n, q, r
<1>4. n + 1 \in Int /\ Len(q) \in Int /\ \A i \in (n + 1)..Len(q) : q[i] \in T
  BY <1>1, <1>3
<1>5. /\ r \in Seq(T)
      /\ Len(r) = IF n + 1 <= Len(q) THEN Len(q) - (n + 1) + 1 ELSE 0
      /\ \A i \in 1..(Len(q) - (n + 1) + 1) : r[i] = q[(n + 1) + i - 1]
  BY <1>2, <1>4, SubSeqProperties
<1>6. Len(r) = Len(q) - n
  BY <1>1, <1>3, <1>5
<1>7. ASSUME NEW i \in 1..Len(r)
      PROVE  i + n \in 1..Len(q) /\ r[i] = q[i + n]
  <2>1. i \in 1..(Len(q) - (n + 1) + 1) /\ (n + 1) + i - 1 = i + n
    BY <1>1, <1>3, <1>6
  <2>2. i + n \in 1..Len(q)
    BY <1>1, <1>3, <1>6
  <2> QED
    BY <1>5, <2>1, <2>2
<1> QED
  BY <1>5, <1>6, <1>7 DEF n, q, r

(* The pump keeps a lane's type, limit and generation, and moves exactly the *)
(* entries it starts from the queue to the active set.                       *)
LEMMA PumpMoves ==
  ASSUME NEW T, IsFiniteSet(T), NEW lane \in LaneType(T), EachOnce(lane)
  PROVE  /\ Pump(lane) \in LaneType(T)
         /\ Pump(lane).generation = lane.generation
         /\ Pump(lane).maxConcurrent = lane.maxConcurrent
         /\ PumpStarted(lane) \subseteq Entries(lane)
         /\ Entries(Pump(lane)) = Entries(lane) \ PumpStarted(lane)
         /\ Pump(lane).active = lane.active \cup PumpStarted(lane)
         /\ EachOnce(Pump(lane))
<1> DEFINE n == PumpCount(lane)
           q == lane.queue
           r == Pump(lane).queue
<1>1. q \in Seq(T) /\ lane.active \in SUBSET T /\ lane.generation \in Nat
      /\ lane.maxConcurrent \in Nat \ {0}
  BY DEF LaneType
<1>2. n \in 0..Len(q) /\ Len(q) \in Nat
  BY PumpCountFacts
<1>3. /\ r \in Seq(T)
      /\ Len(r) = Len(q) - n
      /\ \A i \in 1..Len(r) : i + n \in 1..Len(q) /\ r[i] = q[i + n]
  BY PumpQueue
<1>4. PumpStarted(lane) = {q[i] : i \in 1..n}
  BY DEF PumpStarted
<1>5. /\ Pump(lane).active = lane.active \cup PumpStarted(lane)
      /\ Pump(lane).generation = lane.generation
      /\ Pump(lane).maxConcurrent = lane.maxConcurrent
  <2>1. ASSUME NEW Q, NEW A
        PROVE  LET p == [lane EXCEPT !.queue = Q, !.active = A]
               IN  /\ p.active = A
                   /\ p.generation = lane.generation
                   /\ p.maxConcurrent = lane.maxConcurrent
    BY DEF LaneType
  <2> QED
    BY <2>1 DEF Pump
<1>6. \A i, j \in 1..Len(q) : q[i] = q[j] => i = j
  BY DEF EachOnce
<1> HIDE DEF n, q, r
<1>7. PumpStarted(lane) \subseteq Entries(lane)
  BY <1>2, <1>4 DEF Entries, q
<1>8. PumpStarted(lane) \subseteq T
  BY <1>1, <1>2, <1>4
<1>9. Entries(Pump(lane)) = Entries(lane) \ PumpStarted(lane)
  <2>1. Entries(Pump(lane)) = {r[i] : i \in 1..Len(r)}
    BY DEF Entries, r
  <2>2. Entries(lane) = {q[i] : i \in 1..Len(q)}
    BY DEF Entries, q
  <2>3. ASSUME NEW i \in 1..Len(r)
        PROVE  r[i] \in Entries(lane) \ PumpStarted(lane)
    <3>1. i + n \in 1..Len(q) /\ r[i] = q[i + n]
      BY <1>3
    <3>2. \A j \in 1..n : q[j] # q[i + n]
      BY <1>2, <1>3, <1>6, <3>1
    <3> QED
      BY <1>4, <2>2, <3>1, <3>2
  <2>4. ASSUME NEW k \in 1..Len(q), q[k] \notin PumpStarted(lane)
        PROVE  \E i \in 1..Len(r) : r[i] = q[k]
    <3>1. k \notin 1..n
      BY <1>4, <2>4
    <3>2. k - n \in 1..Len(r) /\ (k - n) + n = k
      BY <1>2, <1>3, <3>1
    <3> QED
      BY <1>3, <3>2
  <2> QED
    BY <2>1, <2>2, <2>3, <2>4
<1>10. EachOnce(Pump(lane))
  <2>1. ASSUME NEW i \in 1..Len(r), NEW j \in 1..Len(r), r[i] = r[j]
        PROVE  i = j
    BY <1>2, <1>3, <1>6, <2>1
  <2>2. Entries(Pump(lane)) \cap Pump(lane).active = {}
    BY <1>5, <1>9 DEF EachOnce
  <2> QED
    BY <2>1, <2>2 DEF EachOnce, r
<1>11. Pump(lane) \in LaneType(T)
  <2>1. ASSUME NEW Q \in Seq(T), NEW A \in SUBSET T
        PROVE  [lane EXCEPT !.queue = Q, !.active = A] \in LaneType(T)
    BY DEF LaneType
  <2> QED
    BY <1>1, <1>3, <1>8, <2>1 DEF Pump, r
<1> QED
  BY <1>5, <1>7, <1>9, <1>10, <1>11

(* The pump starts as many entries as it counts. *)
LEMMA PumpCardinality ==
  ASSUME NEW T, IsFiniteSet(T), NEW lane \in LaneType(T), EachOnce(lane)
  PROVE  Cardinality(Pump(lane).active) = Cardinality(lane.active) + PumpCount(lane)
<1> DEFINE n == PumpCount(lane)
           S == PumpStarted(lane)
           f == [i \in 1..n |-> lane.queue[i]]
<1>1. n \in 0..Len(lane.queue) /\ Len(lane.queue) \in Nat
      /\ IsFiniteSet(lane.active) /\ Cardinality(lane.active) \in Nat
  BY PumpCountFacts
<1>2. f \in Bijection(1..n, S)
  <2>1. \A i, j \in 1..n : lane.queue[i] = lane.queue[j] => i = j
    BY <1>1 DEF EachOnce
  <2>2. f \in [1..n -> S] /\ \A x \in S : \E i \in 1..n : f[i] = x
    BY DEF PumpStarted
  <2>3. \A i, j \in 1..n : f[i] = f[j] => i = j
    BY <2>1
  <2> HIDE DEF n, S, f
  <2> QED
    BY <2>2, <2>3, Fun_IsBij
<1>3. IsFiniteSet(1..n) /\ Cardinality(1..n) = n
  BY <1>1, FS_Interval
<1>4. IsFiniteSet(S) /\ Cardinality(S) = n
  <2>1. ExistsBijection(1..n, S)
    BY <1>2 DEF ExistsBijection
  <2> QED
    BY <1>3, <2>1, FS_Bijection
<1>5. S \cap lane.active = {}
  BY PumpMoves DEF EachOnce
<1>6. Cardinality(S \cap lane.active) = 0
  BY <1>5, FS_EmptySet
<1>7. Cardinality(lane.active \cup S) = Cardinality(lane.active) + n - Cardinality(S \cap lane.active)
  <2>1. lane.active \cap S = S \cap lane.active
    OBVIOUS
  <2> QED
    BY <2>1, <1>1, <1>4, FS_Union
<1>8. Pump(lane).active = lane.active \cup S
  BY PumpMoves
<1> QED
  BY <1>1, <1>5, <1>6, <1>7, <1>8

(* The while condition of pump(): it leaves no backlog beside a free slot,   *)
(* and it never starts an entry past the limit.                              *)
LEMMA PumpSaturates ==
  ASSUME NEW T, IsFiniteSet(T), NEW lane \in LaneType(T), EachOnce(lane)
  PROVE  /\ Saturated(Pump(lane))
         /\ PumpStarted(lane) # {} =>
              Cardinality(Pump(lane).active) <= lane.maxConcurrent
<1> DEFINE n == PumpCount(lane)
<1>1. /\ n \in 0..Len(lane.queue) /\ Len(lane.queue) \in Nat
      /\ Cardinality(lane.active) \in Nat /\ lane.maxConcurrent \in Nat
      /\ \/ n = 0 /\ Cardinality(lane.active) >= lane.maxConcurrent
         \/ Cardinality(lane.active) + n = lane.maxConcurrent
         \/ n = Len(lane.queue) /\ Cardinality(lane.active) + n <= lane.maxConcurrent
  BY PumpCountFacts
<1>2. Cardinality(Pump(lane).active) = Cardinality(lane.active) + n
  BY PumpCardinality
<1>3. Pump(lane).queue \in Seq(T) /\ Len(Pump(lane).queue) = Len(lane.queue) - n
  BY PumpQueue
<1>4. Pump(lane).maxConcurrent = lane.maxConcurrent
  BY PumpMoves
<1>5. n = Len(lane.queue) => Pump(lane).queue = <<>>
  BY <1>1, <1>3
<1>6. n = 0 => PumpStarted(lane) = {}
  BY DEF PumpStarted
<1> HIDE DEF n
<1> QED
  BY <1>1, <1>2, <1>4, <1>5, <1>6 DEF Saturated

-----------------------------------------------------------------------------
(* No task started in a generation its lane has not reached. *)
Generations == \A t \in Tasks : startedIn[t] <= lanes[LaneOf[t]].generation

(* The inductive invariant.  NoIdleBacklog alone is not inductive: that a    *)
(* pump fills the free slots needs each queued entry to be queued once and   *)
(* not to be active already, which follows from what the statuses say.       *)
IndInv == TypeOK /\ Accounted /\ ActiveIsCurrent /\ NoIdleBacklog /\ Generations

(* Accounted, ActiveIsCurrent and Generations of given values. *)
Matches(ls, sts, st) ==
  /\ \A l \in Lanes : EachOnce(ls[l])
  /\ \A l \in Lanes :
       Entries(ls[l]) = {t \in Tasks : sts[t] = "queued" /\ LaneOf[t] = l}
  /\ \A l \in Lanes :
       ls[l].active = {t \in Tasks : /\ sts[t] = "running"
                                     /\ LaneOf[t] = l
                                     /\ st[t] = ls[l].generation}
  /\ \A t \in Tasks : st[t] <= ls[LaneOf[t]].generation

(* Draining any lanes, after whatever the surrounding call changed, gives    *)
(* the invariant back, when the other lanes are already saturated.           *)
LEMMA PumpLanesKeeps ==
  ASSUME NEW D \in SUBSET Lanes,
         NEW ls \in [Lanes -> LaneType(Tasks)],
         NEW sts \in [Tasks -> Statuses],
         startedIn \in [Tasks -> Nat],
         Matches(ls, sts, startedIn),
         \A l \in Lanes \ D : Saturated(ls[l]),
         PumpLanes(D, ls, sts)
  PROVE  /\ lanes' \in [Lanes -> LaneType(Tasks)]
         /\ status' \in [Tasks -> Statuses]
         /\ startedIn' \in [Tasks -> Nat]
         /\ (Accounted /\ ActiveIsCurrent /\ NoIdleBacklog /\ Generations)'
<1> DEFINE started == UNION {PumpStarted(ls[l]) : l \in D}
<1>1. /\ lanes' = [l \in Lanes |-> IF l \in D THEN Pump(ls[l]) ELSE ls[l]]
      /\ status' = [t \in Tasks |-> IF t \in started THEN "running" ELSE sts[t]]
      /\ startedIn' = [t \in Tasks |->
           IF t \in started THEN ls[LaneOf[t]].generation ELSE startedIn[t]]
  BY DEF PumpLanes
<1>2. \A l \in Lanes : ls[l] \in LaneType(Tasks) /\ EachOnce(ls[l])
  BY DEF Matches
<1>3. \A l \in Lanes : ls[l].generation \in Nat
  BY <1>2 DEF LaneType
<1>4. ASSUME NEW l \in Lanes
      PROVE  /\ Pump(ls[l]) \in LaneType(Tasks)
             /\ Pump(ls[l]).generation = ls[l].generation
             /\ PumpStarted(ls[l]) \subseteq Entries(ls[l])
             /\ Entries(Pump(ls[l])) = Entries(ls[l]) \ PumpStarted(ls[l])
             /\ Pump(ls[l]).active = ls[l].active \cup PumpStarted(ls[l])
             /\ EachOnce(Pump(ls[l]))
             /\ Saturated(Pump(ls[l]))
  BY <1>2, TasksAssumption, PumpMoves, PumpSaturates
<1>5. \A l \in Lanes : \A t \in Entries(ls[l]) :
        t \in Tasks /\ sts[t] = "queued" /\ LaneOf[t] = l
  BY DEF Matches
<1>6. started \subseteq Tasks
  BY <1>4, <1>5
<1>7. \A l \in D : \A t \in Tasks : LaneOf[t] = l =>
        (t \in started <=> t \in PumpStarted(ls[l]))
  BY <1>4, <1>5
<1>8. \A t \in started : LaneOf[t] \in D /\ sts[t] = "queued"
  BY <1>4, <1>5
<1> HIDE DEF started
<1>9. \A l \in Lanes : lanes'[l] = IF l \in D THEN Pump(ls[l]) ELSE ls[l]
  BY <1>1
<1>10. \A l \in Lanes : lanes'[l].generation = ls[l].generation
  BY <1>4, <1>9
<1>11. \A t \in Tasks : LaneOf[t] \in Lanes
  BY LaneOfAssumption
<1>12. /\ lanes' \in [Lanes -> LaneType(Tasks)]
       /\ status' \in [Tasks -> Statuses]
       /\ startedIn' \in [Tasks -> Nat]
  BY <1>1, <1>2, <1>3, <1>4, <1>11 DEF Statuses
<1>13. Accounted'
  <2>1. \A l \in Lanes : EachOnce(lanes'[l])
    BY <1>2, <1>4, <1>9
  <2>2. ASSUME NEW l \in Lanes
        PROVE  Entries(lanes'[l]) = {t \in Tasks : status'[t] = "queued" /\ LaneOf[t] = l}
    <3>1. CASE l \in D
      BY <1>1, <1>4, <1>7, <1>9, <3>1 DEF Matches
    <3>2. CASE l \notin D
      BY <1>1, <1>8, <1>9, <3>2 DEF Matches
    <3> QED
      BY <3>1, <3>2
  <2> QED
    BY <2>1, <2>2 DEF Accounted
<1>14. ActiveIsCurrent'
  <2>1. ASSUME NEW l \in Lanes
        PROVE  lanes'[l].active = {t \in Tasks : /\ status'[t] = "running"
                                                 /\ LaneOf[t] = l
                                                 /\ startedIn'[t] = lanes'[l].generation}
    <3>1. ls[l].active = {t \in Tasks : /\ sts[t] = "running"
                                        /\ LaneOf[t] = l
                                        /\ startedIn[t] = ls[l].generation}
      BY DEF Matches
    <3>2. CASE l \in D
      <4>1. lanes'[l].active = ls[l].active \cup PumpStarted(ls[l])
        BY <1>4, <1>9, <3>2
      <4>2. PumpStarted(ls[l]) = {t \in Tasks : t \in started /\ LaneOf[t] = l}
        BY <1>4, <1>5, <1>7, <3>2
      <4> QED
        BY <1>1, <1>8, <1>10, <3>1, <4>1, <4>2
    <3>3. CASE l \notin D
      BY <1>1, <1>8, <1>9, <3>1, <3>3
    <3> QED
      BY <3>2, <3>3
  <2> QED
    BY <2>1 DEF ActiveIsCurrent
<1>15. NoIdleBacklog'
  BY <1>4, <1>9 DEF NoIdleBacklog
<1>16. Generations'
  BY <1>1, <1>3, <1>10, <1>11 DEF Generations, Matches
<1> QED
  BY <1>12, <1>13, <1>14, <1>15, <1>16

(* What IndInv says of the lanes, the statuses and the start generations. *)
LEMMA IndInvMatches ==
  ASSUME IndInv
  PROVE  Matches(lanes, status, startedIn)
BY DEF IndInv, Accounted, ActiveIsCurrent, Generations, Matches

LEMMA InitInd == ASSUME Init PROVE IndInv
<1>1. \A l \in Lanes : lanes[l] = NewLane
  BY DEF Init
<1>2. /\ NewLane \in LaneType(Tasks)
      /\ Entries(NewLane) = {} /\ EachOnce(NewLane) /\ Saturated(NewLane)
      /\ NewLane.active = {} /\ NewLane.generation = 0
  BY NewLaneFacts DEF NewLane
<1>3. TypeOK
  BY <1>2 DEF Init, TypeOK, Statuses
<1>4. \A t \in Tasks : status[t] = "unused" /\ startedIn[t] = 0 /\ LaneOf[t] \in Lanes
  BY LaneOfAssumption DEF Init
<1>5. Accounted /\ ActiveIsCurrent /\ NoIdleBacklog /\ Generations
  BY <1>1, <1>2, <1>4 DEF Accounted, ActiveIsCurrent, NoIdleBacklog, Generations
<1> QED
  BY <1>3, <1>5 DEF IndInv

(* Facts of the operations on one lane that run before the pump. *)
LEMMA PushFacts ==
  ASSUME NEW T, NEW lane \in LaneType(T), EachOnce(lane),
         NEW t \in T, t \notin Entries(lane), t \notin lane.active
  PROVE  /\ Push(lane, t) \in LaneType(T)
         /\ Entries(Push(lane, t)) = Entries(lane) \cup {t}
         /\ EachOnce(Push(lane, t))
         /\ Push(lane, t).active = lane.active
         /\ Push(lane, t).generation = lane.generation
         /\ Push(lane, t).maxConcurrent = lane.maxConcurrent
<1> DEFINE q == lane.queue
           r == Push(lane, t).queue
<1>1. q \in Seq(T) /\ Len(q) \in Nat
  BY DEF LaneType
<1>2. /\ r = Append(q, t)
      /\ Push(lane, t).active = lane.active
      /\ Push(lane, t).generation = lane.generation
      /\ Push(lane, t).maxConcurrent = lane.maxConcurrent
      /\ Push(lane, t) \in LaneType(T)
  <2>1. Append(q, t) \in Seq(T)
    BY <1>1
  <2>2. ASSUME NEW Q
        PROVE  LET p == [lane EXCEPT !.queue = Q]
               IN  /\ Q \in Seq(T) => p \in LaneType(T)
                   /\ p.queue = Q
                   /\ p.active = lane.active
                   /\ p.generation = lane.generation
                   /\ p.maxConcurrent = lane.maxConcurrent
    BY DEF LaneType
  <2> QED
    BY <2>1, <2>2 DEF Push
<1>3. /\ Len(r) = Len(q) + 1
      /\ \A i \in 1..Len(q) : r[i] = q[i]
      /\ r[Len(q) + 1] = t
  BY <1>1, <1>2
<1>4. Entries(lane) = {q[i] : i \in 1..Len(q)}
  BY DEF Entries
<1>5. Entries(Push(lane, t)) = {r[i] : i \in 1..Len(r)}
  BY DEF Entries
<1> HIDE DEF q, r
<1>6. Entries(Push(lane, t)) = Entries(lane) \cup {t}
  <2>1. \A i \in 1..Len(r) : i \in 1..Len(q) \/ i = Len(q) + 1
    BY <1>1, <1>3
  <2>2. 1..Len(q) \subseteq 1..Len(r) /\ Len(q) + 1 \in 1..Len(r)
    BY <1>1, <1>3
  <2> QED
    BY <1>3, <1>4, <1>5, <2>1, <2>2
<1>7. \A i, j \in 1..Len(q) : q[i] = q[j] => i = j
  BY DEF EachOnce, q
<1>8. \A i \in 1..Len(q) : q[i] # t
  BY <1>4
<1>9. ASSUME NEW i \in 1..Len(r), NEW j \in 1..Len(r), r[i] = r[j]
      PROVE  i = j
  BY <1>1, <1>3, <1>7, <1>8, <1>9
<1>10. EachOnce(Push(lane, t))
  BY <1>2, <1>6, <1>9 DEF EachOnce, r
<1> QED
  BY <1>2, <1>6, <1>10

LEMMA CompleteFacts ==
  ASSUME NEW T, NEW lane \in LaneType(T), EachOnce(lane), NEW t \in T
  PROVE  /\ Complete(lane, t) \in LaneType(T)
         /\ Entries(Complete(lane, t)) = Entries(lane)
         /\ EachOnce(Complete(lane, t))
         /\ Complete(lane, t).active = lane.active \ {t}
         /\ Complete(lane, t).generation = lane.generation
         /\ Complete(lane, t).maxConcurrent = lane.maxConcurrent
<1>1. /\ Complete(lane, t) \in LaneType(T)
      /\ Complete(lane, t).queue = lane.queue
      /\ Complete(lane, t).active = lane.active \ {t}
      /\ Complete(lane, t).generation = lane.generation
      /\ Complete(lane, t).maxConcurrent = lane.maxConcurrent
  BY DEF Complete, LaneType
<1> QED
  BY <1>1 DEF Entries, EachOnce

LEMMA SetMaxFacts ==
  ASSUME NEW T, NEW lane \in LaneType(T), EachOnce(lane), NEW n \in Int
  PROVE  /\ SetMax(lane, n) \in LaneType(T)
         /\ Entries(SetMax(lane, n)) = Entries(lane)
         /\ EachOnce(SetMax(lane, n))
         /\ SetMax(lane, n).active = lane.active
         /\ SetMax(lane, n).generation = lane.generation
<1>1. /\ SetMax(lane, n) \in LaneType(T)
      /\ SetMax(lane, n).queue = lane.queue
      /\ SetMax(lane, n).active = lane.active
      /\ SetMax(lane, n).generation = lane.generation
  BY DEF SetMax, LaneType
<1> QED
  BY <1>1 DEF Entries, EachOnce

LEMMA EmptiedFacts ==
  ASSUME NEW T, NEW lane \in LaneType(T)
  PROVE  /\ Emptied(lane) \in LaneType(T)
         /\ Entries(Emptied(lane)) = {}
         /\ EachOnce(Emptied(lane))
         /\ Saturated(Emptied(lane))
         /\ Emptied(lane).active = lane.active
         /\ Emptied(lane).generation = lane.generation
         /\ Emptied(lane).maxConcurrent = lane.maxConcurrent
<1>1. /\ Emptied(lane) \in LaneType(T)
      /\ Emptied(lane).queue = <<>>
      /\ Emptied(lane).active = lane.active
      /\ Emptied(lane).generation = lane.generation
      /\ Emptied(lane).maxConcurrent = lane.maxConcurrent
  <2>1. <<>> \in Seq(T)
    OBVIOUS
  <2>2. ASSUME NEW Q
        PROVE  LET p == [lane EXCEPT !.queue = Q]
               IN  /\ Q \in Seq(T) => p \in LaneType(T)
                   /\ p.queue = Q
                   /\ p.active = lane.active
                   /\ p.generation = lane.generation
                   /\ p.maxConcurrent = lane.maxConcurrent
    BY DEF LaneType
  <2> QED
    BY <2>1, <2>2 DEF Emptied
<1> QED
  BY <1>1 DEF Entries, EachOnce, Saturated

LEMMA ResetFacts ==
  ASSUME NEW T, NEW lane \in LaneType(T), EachOnce(lane)
  PROVE  /\ ResetLane(lane) \in LaneType(T)
         /\ Entries(ResetLane(lane)) = Entries(lane)
         /\ EachOnce(ResetLane(lane))
         /\ ResetLane(lane).queue = <<>> => Saturated(ResetLane(lane))
         /\ ResetLane(lane).active = {}
         /\ ResetLane(lane).generation = lane.generation + 1
         /\ ResetLane(lane).maxConcurrent = lane.maxConcurrent
         /\ ResetLane(lane).queue = lane.queue
<1>1. /\ ResetLane(lane) \in LaneType(T)
      /\ ResetLane(lane).queue = lane.queue
      /\ ResetLane(lane).active = {}
      /\ ResetLane(lane).generation = lane.generation + 1
      /\ ResetLane(lane).maxConcurrent = lane.maxConcurrent
  <2>1. lane.generation + 1 \in Nat /\ {} \in SUBSET T
    BY DEF LaneType
  <2>2. ASSUME NEW A, NEW g
        PROVE  LET p == [lane EXCEPT !.generation = g, !.active = A]
               IN  /\ g \in Nat /\ A \in SUBSET T => p \in LaneType(T)
                   /\ p.queue = lane.queue
                   /\ p.active = A
                   /\ p.generation = g
                   /\ p.maxConcurrent = lane.maxConcurrent
    BY DEF LaneType
  <2> QED
    BY <2>1, <2>2 DEF ResetLane
<1> QED
  BY <1>1 DEF Entries, EachOnce, Saturated

(* Every step preserves the inductive invariant, one case for each action.   *)
LEMMA StepInd == ASSUME IndInv, [Next]_vars PROVE IndInv'
<1> USE DEF IndInv
<1>1. /\ lanes \in [Lanes -> LaneType(Tasks)]
      /\ status \in [Tasks -> Statuses]
      /\ startedIn \in [Tasks -> Nat]
      /\ calls \in Nat
      /\ ticket \in [Tasks -> Nat]
      /\ gatewayDraining \in BOOLEAN
      /\ wait \in [phase : {"idle", "waiting", "drained", "timedOut"}, ids : SUBSET Tasks]
  BY DEF TypeOK
<1>2. Matches(lanes, status, startedIn)
  BY IndInvMatches
<1>3. \A t \in Tasks : LaneOf[t] \in Lanes
  BY LaneOfAssumption
<1>4. \A l \in Lanes : /\ lanes[l] \in LaneType(Tasks)
                       /\ EachOnce(lanes[l])
                       /\ Saturated(lanes[l])
                       /\ lanes[l].generation \in Nat
  BY <1>1 DEF Accounted, NoIdleBacklog, LaneType
<1>5. ASSUME NEW t \in Tasks, Refuse(t)
      PROVE  IndInv'
  <2>1. /\ status' = [status EXCEPT ![t] = "refused"]
        /\ UNCHANGED <<lanes, gatewayDraining, startedIn, calls, ticket, wait>>
        /\ status[t] = "unused"
    BY <1>5 DEF Refuse
  <2>2. TypeOK'
    BY <1>1, <2>1 DEF TypeOK, Statuses, Settled
  <2>3. Accounted' /\ ActiveIsCurrent'
    BY <1>1, <2>1 DEF Accounted, ActiveIsCurrent
  <2>4. NoIdleBacklog' /\ Generations'
    BY <2>1 DEF NoIdleBacklog, Generations
  <2> QED
    BY <2>2, <2>3, <2>4
<1>6. ASSUME NEW t \in Tasks, Enqueue(t)
      PROVE  IndInv'
  <2> DEFINE l == LaneOf[t]
             ls == [lanes EXCEPT ![l] = Push(@, t)]
             sts == [status EXCEPT ![t] = "queued"]
  <2>1. /\ status[t] = "unused"
        /\ PumpLanes({l}, ls, sts)
        /\ calls' = calls + 1
        /\ ticket' = [ticket EXCEPT ![t] = calls + 1]
        /\ UNCHANGED <<gatewayDraining, wait>>
    BY <1>6 DEF Enqueue
  <2>2. l \in Lanes /\ t \notin Entries(lanes[l]) /\ t \notin lanes[l].active
    BY <1>2, <1>3, <2>1 DEF Matches
  <2>3. /\ Push(lanes[l], t) \in LaneType(Tasks)
        /\ Entries(Push(lanes[l], t)) = Entries(lanes[l]) \cup {t}
        /\ EachOnce(Push(lanes[l], t))
        /\ Push(lanes[l], t).active = lanes[l].active
        /\ Push(lanes[l], t).generation = lanes[l].generation
    BY <1>4, <2>2, PushFacts
  <2>4. /\ ls \in [Lanes -> LaneType(Tasks)]
        /\ sts \in [Tasks -> Statuses]
        /\ ls[l] = Push(lanes[l], t)
        /\ \A k \in Lanes \ {l} : ls[k] = lanes[k]
        /\ sts[t] = "queued"
        /\ \A u \in Tasks \ {t} : sts[u] = status[u]
    BY <1>1, <2>2, <2>3 DEF Statuses
  <2> HIDE DEF ls, sts
  <2>5. Matches(ls, sts, startedIn)
    <3>1. \A k \in Lanes : EachOnce(ls[k])
      BY <1>4, <2>3, <2>4
    <3>2. \A k \in Lanes :
            Entries(ls[k]) = {u \in Tasks : sts[u] = "queued" /\ LaneOf[u] = k}
      BY <1>2, <2>1, <2>3, <2>4 DEF Matches
    <3>3. \A k \in Lanes :
            ls[k].active = {u \in Tasks : /\ sts[u] = "running"
                                          /\ LaneOf[u] = k
                                          /\ startedIn[u] = ls[k].generation}
      BY <1>2, <2>1, <2>3, <2>4 DEF Matches
    <3>4. \A u \in Tasks : startedIn[u] <= ls[LaneOf[u]].generation
      BY <1>2, <1>3, <2>3, <2>4 DEF Matches
    <3> QED
      BY <3>1, <3>2, <3>3, <3>4 DEF Matches
  <2>6. /\ lanes' \in [Lanes -> LaneType(Tasks)]
        /\ status' \in [Tasks -> Statuses]
        /\ startedIn' \in [Tasks -> Nat]
        /\ (Accounted /\ ActiveIsCurrent /\ NoIdleBacklog /\ Generations)'
    <3>1. {l} \in SUBSET Lanes /\ \A k \in Lanes \ {l} : Saturated(ls[k])
      BY <1>4, <2>2, <2>4
    <3> HIDE DEF l
    <3> QED
      BY <1>1, <2>1, <2>4, <2>5, <3>1, PumpLanesKeeps
  <2>7. calls' \in Nat /\ ticket' \in [Tasks -> Nat]
    BY <1>1, <2>1
  <2> QED
    BY <1>1, <2>1, <2>6, <2>7 DEF TypeOK
<1>7. ASSUME NEW t \in Tasks, NEW outcome \in {"resolved", "rejected"}, Finish(t, outcome)
      PROVE  IndInv'
  <2> DEFINE l == LaneOf[t]
             current == Completes(lanes[l], t, startedIn[t])
             ls == IF current THEN [lanes EXCEPT ![l] = Complete(@, t)] ELSE lanes
             sts == [status EXCEPT ![t] = "settled"]
             D == IF current THEN {l} ELSE {}
  <2>1. /\ status[t] = "running"
        /\ PumpLanes(D, ls, sts)
        /\ UNCHANGED <<gatewayDraining, calls, ticket, wait>>
    BY <1>7 DEF Finish
  <2>2. l \in Lanes
    BY <1>3
  <2>3. /\ Complete(lanes[l], t) \in LaneType(Tasks)
        /\ Entries(Complete(lanes[l], t)) = Entries(lanes[l])
        /\ EachOnce(Complete(lanes[l], t))
        /\ Complete(lanes[l], t).active = lanes[l].active \ {t}
        /\ Complete(lanes[l], t).generation = lanes[l].generation
    BY <1>4, <2>2, CompleteFacts
  <2>4. /\ ls \in [Lanes -> LaneType(Tasks)]
        /\ sts \in [Tasks -> Statuses]
        /\ ls[l] = IF current THEN Complete(lanes[l], t) ELSE lanes[l]
        /\ \A k \in Lanes \ {l} : ls[k] = lanes[k]
        /\ sts[t] = "settled"
        /\ \A u \in Tasks \ {t} : sts[u] = status[u]
    BY <1>1, <2>2, <2>3 DEF Statuses, Settled
  <2>5. ~current => t \notin lanes[l].active
    BY <1>2, <2>2 DEF Matches, Completes
  <2>6. /\ EachOnce(ls[l])
        /\ Entries(ls[l]) = Entries(lanes[l])
        /\ ls[l].active = lanes[l].active \ {t}
        /\ ls[l].generation = lanes[l].generation
    BY <1>4, <2>2, <2>3, <2>4, <2>5
  <2>7. D \in SUBSET Lanes /\ \A k \in Lanes \ D : Saturated(ls[k])
    BY <1>4, <2>2, <2>4
  <2> HIDE DEF ls, sts, D, current
  <2>8. Matches(ls, sts, startedIn)
    <3>1. \A k \in Lanes : EachOnce(ls[k])
      BY <1>4, <2>4, <2>6
    <3>2. \A k \in Lanes :
            Entries(ls[k]) = {u \in Tasks : sts[u] = "queued" /\ LaneOf[u] = k}
      BY <1>2, <2>1, <2>4, <2>6 DEF Matches
    <3>3. \A k \in Lanes :
            ls[k].active = {u \in Tasks : /\ sts[u] = "running"
                                          /\ LaneOf[u] = k
                                          /\ startedIn[u] = ls[k].generation}
      BY <1>2, <2>1, <2>4, <2>6 DEF Matches
    <3>4. \A u \in Tasks : startedIn[u] <= ls[LaneOf[u]].generation
      BY <1>2, <1>3, <2>4, <2>6 DEF Matches
    <3> QED
      BY <3>1, <3>2, <3>3, <3>4 DEF Matches
  <2>9. /\ lanes' \in [Lanes -> LaneType(Tasks)]
        /\ status' \in [Tasks -> Statuses]
        /\ startedIn' \in [Tasks -> Nat]
        /\ (Accounted /\ ActiveIsCurrent /\ NoIdleBacklog /\ Generations)'
    BY <1>1, <2>1, <2>4, <2>7, <2>8, PumpLanesKeeps
  <2> QED
    BY <1>1, <2>1, <2>9 DEF TypeOK
<1>8. ASSUME NEW l \in Lanes, NEW n \in Concurrency, SetLaneConcurrency(l, n)
      PROVE  IndInv'
  <2> DEFINE ls == [lanes EXCEPT ![l] = SetMax(@, n)]
  <2>1. /\ PumpLanes({l}, ls, status)
        /\ UNCHANGED <<gatewayDraining, calls, ticket, wait>>
    BY <1>8 DEF SetLaneConcurrency
  <2>2. /\ SetMax(lanes[l], n) \in LaneType(Tasks)
        /\ Entries(SetMax(lanes[l], n)) = Entries(lanes[l])
        /\ EachOnce(SetMax(lanes[l], n))
        /\ SetMax(lanes[l], n).active = lanes[l].active
        /\ SetMax(lanes[l], n).generation = lanes[l].generation
    BY <1>4, ConcurrencyAssumption, SetMaxFacts
  <2>3. /\ ls \in [Lanes -> LaneType(Tasks)]
        /\ \A k \in Lanes : /\ EachOnce(ls[k])
                            /\ Entries(ls[k]) = Entries(lanes[k])
                            /\ ls[k].active = lanes[k].active
                            /\ ls[k].generation = lanes[k].generation
        /\ \A k \in Lanes \ {l} : ls[k] = lanes[k]
    BY <1>1, <1>4, <2>2
  <2> HIDE DEF ls
  <2>4. Matches(ls, status, startedIn)
    BY <1>2, <1>3, <2>3 DEF Matches
  <2>5. /\ lanes' \in [Lanes -> LaneType(Tasks)]
        /\ status' \in [Tasks -> Statuses]
        /\ startedIn' \in [Tasks -> Nat]
        /\ (Accounted /\ ActiveIsCurrent /\ NoIdleBacklog /\ Generations)'
    <3>1. {l} \in SUBSET Lanes /\ \A k \in Lanes \ {l} : Saturated(ls[k])
      BY <1>4, <2>3
    <3> QED
      BY <1>1, <2>1, <2>3, <2>4, <3>1, PumpLanesKeeps
  <2> QED
    BY <1>1, <2>1, <2>5 DEF TypeOK
<1>9. ASSUME NEW l \in Lanes, ClearLane(l)
      PROVE  IndInv'
  <2>1. /\ lanes' = [lanes EXCEPT ![l] = Emptied(@)]
        /\ status' = [t \in Tasks |->
             IF t \in Entries(lanes[l]) THEN "cleared" ELSE status[t]]
        /\ UNCHANGED <<gatewayDraining, startedIn, calls, ticket, wait>>
    BY <1>9 DEF ClearLane
  <2>2. /\ Emptied(lanes[l]) \in LaneType(Tasks)
        /\ Entries(Emptied(lanes[l])) = {}
        /\ EachOnce(Emptied(lanes[l]))
        /\ Saturated(Emptied(lanes[l]))
        /\ Emptied(lanes[l]).active = lanes[l].active
        /\ Emptied(lanes[l]).generation = lanes[l].generation
    BY <1>4, EmptiedFacts
  <2>3. lanes'[l] = Emptied(lanes[l]) /\ \A k \in Lanes \ {l} : lanes'[k] = lanes[k]
    BY <1>1, <2>1
  <2>4. TypeOK'
    BY <1>1, <2>1, <2>2 DEF TypeOK, Statuses, Settled
  <2>5. \A t \in Tasks : t \in Entries(lanes[l]) <=> status[t] = "queued" /\ LaneOf[t] = l
    BY <1>2 DEF Matches
  <2>6. \A t \in Tasks : /\ status'[t] = "queued" <=> status[t] = "queued" /\ LaneOf[t] # l
                         /\ status'[t] = "running" <=> status[t] = "running"
    BY <2>1, <2>5
  <2>7. Accounted'
    BY <1>2, <1>4, <2>2, <2>3, <2>6 DEF Accounted, Matches
  <2>8. ActiveIsCurrent'
    BY <1>2, <2>1, <2>2, <2>3, <2>6 DEF ActiveIsCurrent, Matches
  <2>9. NoIdleBacklog' /\ Generations'
    BY <1>2, <1>3, <1>4, <2>1, <2>2, <2>3 DEF NoIdleBacklog, Generations, Matches
  <2> QED
    BY <2>4, <2>7, <2>8, <2>9
<1>10. ASSUME ResetAllLanes
       PROVE  IndInv'
  <2> DEFINE ls == [l \in Lanes |-> ResetLane(lanes[l])]
             D == {l \in Lanes : ls[l].queue # <<>>}
  <2>1. /\ PumpLanes(D, ls, status)
        /\ gatewayDraining' = FALSE
        /\ UNCHANGED <<calls, ticket, wait>>
    BY <1>10 DEF ResetAllLanes
  <2>2. \A l \in Lanes : /\ ls[l] \in LaneType(Tasks)
                         /\ Entries(ls[l]) = Entries(lanes[l])
                         /\ EachOnce(ls[l])
                         /\ ls[l].queue = <<>> => Saturated(ls[l])
                         /\ ls[l].active = {}
                         /\ ls[l].generation = lanes[l].generation + 1
    BY <1>4, ResetFacts
  <2>3. ls \in [Lanes -> LaneType(Tasks)]
    BY <2>2
  <2>4. D \in SUBSET Lanes /\ \A l \in Lanes \ D : Saturated(ls[l])
    BY <2>2
  <2> HIDE DEF ls, D
  <2>5. \A t \in Tasks : startedIn[t] < ls[LaneOf[t]].generation
    <3>1. ASSUME NEW t \in Tasks
          PROVE  startedIn[t] < ls[LaneOf[t]].generation
      <4>1. LaneOf[t] \in Lanes /\ startedIn[t] \in Nat
        BY <1>1, <1>3
      <4>2. startedIn[t] <= lanes[LaneOf[t]].generation
        BY <1>2 DEF Matches
      <4>3. /\ lanes[LaneOf[t]].generation \in Nat
            /\ ls[LaneOf[t]].generation = lanes[LaneOf[t]].generation + 1
        BY <1>4, <2>2, <4>1
      <4> QED
        BY <4>1, <4>2, <4>3
    <3> QED
      BY <3>1
  <2>6. Matches(ls, status, startedIn)
    <3>1. \A l \in Lanes :
            ls[l].active = {t \in Tasks : /\ status[t] = "running"
                                          /\ LaneOf[t] = l
                                          /\ startedIn[t] = ls[l].generation}
      BY <1>1, <1>4, <2>2, <2>5
    <3>2. \A t \in Tasks : startedIn[t] <= ls[LaneOf[t]].generation
      <4>1. \A t \in Tasks : startedIn[t] \in Nat /\ ls[LaneOf[t]].generation \in Nat
        BY <1>1, <1>3, <2>2 DEF LaneType
      <4> QED
        BY <2>5, <4>1
    <3> QED
      BY <1>2, <2>2, <3>1, <3>2 DEF Matches
  <2>7. /\ lanes' \in [Lanes -> LaneType(Tasks)]
        /\ status' \in [Tasks -> Statuses]
        /\ startedIn' \in [Tasks -> Nat]
        /\ (Accounted /\ ActiveIsCurrent /\ NoIdleBacklog /\ Generations)'
    BY <1>1, <2>1, <2>3, <2>4, <2>6, PumpLanesKeeps
  <2> QED
    BY <1>1, <2>1, <2>7 DEF TypeOK
<1>11. ASSUME MarkGatewayDraining \/ StartWait \/ WaitDrained \/ WaitTimeout \/ UNCHANGED vars
       PROVE  IndInv'
  <2>1. /\ UNCHANGED <<lanes, status, startedIn, calls, ticket>>
        /\ gatewayDraining' \in BOOLEAN
    BY <1>1, <1>11 DEF MarkGatewayDraining, StartWait, WaitDrained, WaitTimeout, vars
  <2>2. ActiveIds \in SUBSET Tasks
    BY <1>4 DEF ActiveIds, LaneType
  <2>3. wait' \in [phase : {"idle", "waiting", "drained", "timedOut"}, ids : SUBSET Tasks]
    BY <1>1, <1>11, <2>2 DEF MarkGatewayDraining, StartWait, WaitDrained, WaitTimeout, vars
  <2>4. TypeOK'
    BY <1>1, <2>1, <2>3 DEF TypeOK
  <2>5. (Accounted /\ ActiveIsCurrent /\ NoIdleBacklog /\ Generations)'
    BY <2>1 DEF Accounted, ActiveIsCurrent, NoIdleBacklog, Generations
  <2> QED
    BY <2>4, <2>5
<1> QED
  BY <1>5, <1>6, <1>7, <1>8, <1>9, <1>10, <1>11 DEF Next, Finish

(* Every reachable state satisfies the inductive invariant. *)
THEOREM Invariance == Spec => []IndInv
<1>1. Init => IndInv
  BY InitInd
<1>2. IndInv /\ [Next]_vars => IndInv'
  BY StepInd
<1> QED
  BY <1>1, <1>2, PTL DEF Spec

(* Every variable keeps its type; the limit of a lane stays positive. *)
THEOREM TypeCorrect == Spec => []TypeOK
BY Invariance, PTL DEF IndInv

(* No call is lost, run twice or left pending by clears and restarts. *)
THEOREM NothingLost == Spec => []Accounted
BY Invariance, PTL DEF IndInv

(* A task interrupted by resetAllLanes holds no slot of its lane and frees    *)
(* none when it settles.                                                      *)
THEOREM NoSlotLeaks == Spec => []ActiveIsCurrent
BY Invariance, PTL DEF IndInv

(* drainLane is called wherever a slot or an entry appears: a lane with a     *)
(* backlog has all its slots taken, whatever the limits and the restarts.     *)
THEOREM NoLostWakeup == Spec => []NoIdleBacklog
BY Invariance, PTL DEF IndInv

-----------------------------------------------------------------------------
(* The order in which calls start, the limits, and the answer of             *)
(* waitForActiveTasks.  These theorems share one view of a step: each action *)
(* changes lanes and statuses a little and then drains some lanes;           *)
(* PumpLanes does the rest.                                                  *)

(* The queue q holds calls in the order of their tickets. *)
SortedBy(q, tk) == \A i, j \in 1..Len(q) : i < j => tk[q[i]] < tk[q[j]]

(* What an action may do to the status of a task before it drains. *)
StatusMove(from, to) ==
  \/ to = from
  \/ from = "unused" /\ to \in {"queued", "refused"}
  \/ from = "queued" /\ to = "cleared"
  \/ from = "running" /\ to = "settled"

(* The state an action hands to PumpLanes: each lane well-formed, and its    *)
(* queue unchanged, emptied or one new call longer.                          *)
Handed(ls, sts) ==
  /\ \A l \in Lanes : EachOnce(ls[l])
  /\ \A l \in Lanes : \A t \in Entries(ls[l]) : sts[t] = "queued" /\ LaneOf[t] = l
  /\ \A l \in Lanes : lanes[l].generation <= ls[l].generation
  /\ \A t \in Tasks : StatusMove(status[t], sts[t])
  /\ \A l \in Lanes :
       \/ ls[l].queue = lanes[l].queue
       \/ ls[l].queue = <<>>
       \/ \E t \in Tasks : status[t] = "unused" /\ ls[l].queue = Append(lanes[l].queue, t)

(* Tickets are given out in ascending order, to calls made now. *)
TicketStep(sts) ==
  /\ calls' \in Nat /\ calls <= calls'
  /\ ticket' \in [Tasks -> Nat]
  /\ \A t \in Tasks :
       IF status[t] = "unused" /\ sts[t] = "queued"
       THEN ticket'[t] = calls + 1 /\ ticket'[t] <= calls'
       ELSE ticket'[t] = ticket[t]

(* Every step is a small change followed by draining some lanes. *)
LEMMA StepIsPump ==
  ASSUME IndInv, [Next]_vars
  PROVE  \E D \in SUBSET Lanes, ls \in [Lanes -> LaneType(Tasks)], sts \in [Tasks -> Statuses] :
           PumpLanes(D, ls, sts) /\ Handed(ls, sts) /\ TicketStep(sts)
<1>1. /\ lanes \in [Lanes -> LaneType(Tasks)]
      /\ status \in [Tasks -> Statuses]
      /\ startedIn \in [Tasks -> Nat]
      /\ calls \in Nat
      /\ ticket \in [Tasks -> Nat]
  BY DEF IndInv, TypeOK
<1>2. \A l \in Lanes : /\ lanes[l] \in LaneType(Tasks)
                       /\ EachOnce(lanes[l])
                       /\ lanes[l].generation \in Nat
                       /\ lanes[l].generation <= lanes[l].generation
                       /\ \A t \in Entries(lanes[l]) : status[t] = "queued" /\ LaneOf[t] = l
  BY <1>1 DEF IndInv, Accounted, LaneType
<1>3. \A t \in Tasks : LaneOf[t] \in Lanes
  BY LaneOfAssumption
<1>4. ASSUME NEW t \in Tasks, Enqueue(t)
      PROVE  \E D \in SUBSET Lanes, ls \in [Lanes -> LaneType(Tasks)], sts \in [Tasks -> Statuses] :
               PumpLanes(D, ls, sts) /\ Handed(ls, sts) /\ TicketStep(sts)
  <2> DEFINE l == LaneOf[t]
             ls == [lanes EXCEPT ![l] = Push(@, t)]
             sts == [status EXCEPT ![t] = "queued"]
  <2>1. /\ status[t] = "unused"
        /\ PumpLanes({l}, ls, sts)
        /\ calls' = calls + 1
        /\ ticket' = [ticket EXCEPT ![t] = calls + 1]
    BY <1>4 DEF Enqueue
  <2>2. l \in Lanes /\ t \notin Entries(lanes[l]) /\ t \notin lanes[l].active
    BY <1>2, <1>3, <2>1, IndInvMatches DEF Matches
  <2>3. /\ Push(lanes[l], t) \in LaneType(Tasks)
        /\ Entries(Push(lanes[l], t)) = Entries(lanes[l]) \cup {t}
        /\ EachOnce(Push(lanes[l], t))
        /\ Push(lanes[l], t).generation = lanes[l].generation
        /\ Push(lanes[l], t).queue = Append(lanes[l].queue, t)
    <3>1. Push(lanes[l], t).queue = Append(lanes[l].queue, t)
      BY <1>2, <2>2 DEF Push, LaneType
    <3> HIDE DEF l
    <3> QED
      BY <1>2, <2>2, <3>1, PushFacts
  <2>4. /\ ls \in [Lanes -> LaneType(Tasks)]
        /\ sts \in [Tasks -> Statuses]
        /\ ls[l] = Push(lanes[l], t)
        /\ \A k \in Lanes \ {l} : ls[k] = lanes[k]
        /\ sts[t] = "queued"
        /\ \A u \in Tasks \ {t} : sts[u] = status[u]
    BY <1>1, <2>2, <2>3 DEF Statuses
  <2> HIDE DEF ls, sts
  <2>5. Handed(ls, sts)
    <3>1. \A k \in Lanes : \A u \in Entries(ls[k]) : sts[u] = "queued" /\ LaneOf[u] = k
      <4>1. \A k \in Lanes : Entries(lanes[k]) \subseteq Tasks
        BY IndInvMatches DEF Matches
      <4> QED
        BY <1>2, <2>3, <2>4, <4>1
    <3>2. \A u \in Tasks : StatusMove(status[u], sts[u])
      BY <2>1, <2>4 DEF StatusMove
    <3>3. \A k \in Lanes : EachOnce(ls[k]) /\ lanes[k].generation <= ls[k].generation
      BY <1>2, <2>2, <2>3, <2>4
    <3>4. \A k \in Lanes :
            \/ ls[k].queue = lanes[k].queue
            \/ \E u \in Tasks : status[u] = "unused" /\ ls[k].queue = Append(lanes[k].queue, u)
      BY <2>1, <2>3, <2>4
    <3> QED
      BY <3>1, <3>2, <3>3, <3>4 DEF Handed
  <2>6. TicketStep(sts)
    BY <1>1, <2>1, <2>4 DEF TicketStep
  <2> QED
    BY <2>1, <2>2, <2>4, <2>5, <2>6
<1>5. ASSUME NEW t \in Tasks, NEW outcome \in {"resolved", "rejected"}, Finish(t, outcome)
      PROVE  \E D \in SUBSET Lanes, ls \in [Lanes -> LaneType(Tasks)], sts \in [Tasks -> Statuses] :
               PumpLanes(D, ls, sts) /\ Handed(ls, sts) /\ TicketStep(sts)
  <2> DEFINE l == LaneOf[t]
             current == Completes(lanes[l], t, startedIn[t])
             ls == IF current THEN [lanes EXCEPT ![l] = Complete(@, t)] ELSE lanes
             sts == [status EXCEPT ![t] = "settled"]
             D == IF current THEN {l} ELSE {}
  <2>1. /\ status[t] = "running"
        /\ PumpLanes(D, ls, sts)
        /\ UNCHANGED <<calls, ticket>>
    BY <1>5 DEF Finish
  <2>2. l \in Lanes
    BY <1>3
  <2>3. /\ Complete(lanes[l], t) \in LaneType(Tasks)
        /\ Entries(Complete(lanes[l], t)) = Entries(lanes[l])
        /\ EachOnce(Complete(lanes[l], t))
        /\ Complete(lanes[l], t).generation = lanes[l].generation
        /\ Complete(lanes[l], t).queue = lanes[l].queue
    BY <1>2, <2>2, CompleteFacts DEF Complete, LaneType
  <2>4. /\ ls \in [Lanes -> LaneType(Tasks)]
        /\ sts \in [Tasks -> Statuses]
        /\ D \in SUBSET Lanes
        /\ \A k \in Lanes : ls[k] = lanes[k] \/ (k = l /\ ls[k] = Complete(lanes[l], t))
        /\ sts[t] = "settled"
        /\ \A u \in Tasks \ {t} : sts[u] = status[u]
    BY <1>1, <2>2, <2>3 DEF Statuses, Settled
  <2> HIDE DEF ls, sts, D, current
  <2>5. Handed(ls, sts)
    <3>1. \A k \in Lanes : \A u \in Entries(ls[k]) : u \in Tasks /\ u # t /\ status[u] = "queued" /\ LaneOf[u] = k
      <4>1. \A k \in Lanes : Entries(lanes[k]) \subseteq Tasks
        BY IndInvMatches DEF Matches
      <4> QED
        BY <1>2, <2>1, <2>3, <2>4, <4>1
    <3>2. \A u \in Tasks : StatusMove(status[u], sts[u])
      BY <2>1, <2>4 DEF StatusMove
    <3> QED
      BY <1>2, <2>2, <2>3, <2>4, <3>1, <3>2 DEF Handed
  <2>6. TicketStep(sts)
    BY <1>1, <2>1, <2>4 DEF TicketStep
  <2> QED
    BY <2>1, <2>4, <2>5, <2>6
<1>6. ASSUME NEW l \in Lanes, NEW n \in Concurrency, SetLaneConcurrency(l, n)
      PROVE  \E D \in SUBSET Lanes, ls \in [Lanes -> LaneType(Tasks)], sts \in [Tasks -> Statuses] :
               PumpLanes(D, ls, sts) /\ Handed(ls, sts) /\ TicketStep(sts)
  <2> DEFINE ls == [lanes EXCEPT ![l] = SetMax(@, n)]
  <2>1. PumpLanes({l}, ls, status) /\ UNCHANGED <<calls, ticket>>
    BY <1>6 DEF SetLaneConcurrency
  <2>2. /\ SetMax(lanes[l], n) \in LaneType(Tasks)
        /\ Entries(SetMax(lanes[l], n)) = Entries(lanes[l])
        /\ EachOnce(SetMax(lanes[l], n))
        /\ SetMax(lanes[l], n).generation = lanes[l].generation
        /\ SetMax(lanes[l], n).queue = lanes[l].queue
    <3>1. n \in Int
      BY ConcurrencyAssumption
    <3>2. SetMax(lanes[l], n).queue = lanes[l].queue
      BY <1>2 DEF SetMax, LaneType
    <3> QED
      BY <1>2, <3>1, <3>2, SetMaxFacts
  <2>3. /\ ls \in [Lanes -> LaneType(Tasks)]
        /\ \A k \in Lanes : ls[k] = lanes[k] \/ (k = l /\ ls[k] = SetMax(lanes[l], n))
    BY <1>1, <2>2
  <2> HIDE DEF ls
  <2>4. Handed(ls, status)
    BY <1>2, <2>2, <2>3 DEF Handed, StatusMove
  <2>5. TicketStep(status)
    BY <1>1, <2>1 DEF TicketStep
  <2> QED
    BY <1>1, <2>1, <2>3, <2>4, <2>5
<1>7. ASSUME NEW l \in Lanes, ClearLane(l)
      PROVE  \E D \in SUBSET Lanes, ls \in [Lanes -> LaneType(Tasks)], sts \in [Tasks -> Statuses] :
               PumpLanes(D, ls, sts) /\ Handed(ls, sts) /\ TicketStep(sts)
  <2> DEFINE ls == [lanes EXCEPT ![l] = Emptied(@)]
             sts == [t \in Tasks |-> IF t \in Entries(lanes[l]) THEN "cleared" ELSE status[t]]
  <2>1. lanes' = ls /\ status' = sts /\ UNCHANGED <<startedIn, calls, ticket>>
    BY <1>7 DEF ClearLane
  <2>2. /\ Emptied(lanes[l]) \in LaneType(Tasks)
        /\ Entries(Emptied(lanes[l])) = {}
        /\ EachOnce(Emptied(lanes[l]))
        /\ Emptied(lanes[l]).generation = lanes[l].generation
        /\ Emptied(lanes[l]).queue = <<>>
    <3>1. Emptied(lanes[l]).queue = <<>>
      BY <1>2 DEF Emptied, LaneType
    <3> QED
      BY <1>2, <3>1, EmptiedFacts
  <2>3. /\ ls \in [Lanes -> LaneType(Tasks)]
        /\ ls[l] = Emptied(lanes[l])
        /\ \A k \in Lanes \ {l} : ls[k] = lanes[k]
        /\ sts \in [Tasks -> Statuses]
        /\ \A t \in Tasks : sts[t] = IF t \in Entries(lanes[l]) THEN "cleared" ELSE status[t]
    BY <1>1, <2>2 DEF Statuses, Settled
  <2> HIDE DEF ls, sts
  <2>4. PumpLanes({}, ls, sts)
    BY <1>1, <2>1, <2>3 DEF PumpLanes
  <2>5. Handed(ls, sts)
    <3>1. \A k \in Lanes : Entries(lanes[k]) \subseteq Tasks
      BY IndInvMatches DEF Matches
    <3>2. \A k \in Lanes : \A t \in Entries(ls[k]) : sts[t] = "queued" /\ LaneOf[t] = k
      BY <1>2, <2>2, <2>3, <3>1
    <3>3. \A t \in Tasks : StatusMove(status[t], sts[t])
      BY <1>2, <2>3 DEF StatusMove
    <3> QED
      BY <1>2, <2>2, <2>3, <3>2, <3>3 DEF Handed
  <2>6. TicketStep(sts)
    BY <1>1, <1>2, <2>1, <2>3 DEF TicketStep
  <2> QED
    BY <2>3, <2>4, <2>5, <2>6
<1>8. ASSUME ResetAllLanes
      PROVE  \E D \in SUBSET Lanes, ls \in [Lanes -> LaneType(Tasks)], sts \in [Tasks -> Statuses] :
               PumpLanes(D, ls, sts) /\ Handed(ls, sts) /\ TicketStep(sts)
  <2> DEFINE ls == [l \in Lanes |-> ResetLane(lanes[l])]
             D == {l \in Lanes : ls[l].queue # <<>>}
  <2>1. PumpLanes(D, ls, status) /\ UNCHANGED <<calls, ticket>>
    BY <1>8 DEF ResetAllLanes
  <2>2. ASSUME NEW l \in Lanes
        PROVE  /\ ResetLane(lanes[l]) \in LaneType(Tasks)
               /\ Entries(ResetLane(lanes[l])) = Entries(lanes[l])
               /\ EachOnce(ResetLane(lanes[l]))
               /\ ResetLane(lanes[l]).generation = lanes[l].generation + 1
               /\ ResetLane(lanes[l]).queue = lanes[l].queue
    <3>1. ResetLane(lanes[l]).queue = lanes[l].queue
      BY <1>2 DEF ResetLane, LaneType
    <3> QED
      BY <1>2, <3>1, ResetFacts
  <2>3. /\ ls \in [Lanes -> LaneType(Tasks)]
        /\ \A l \in Lanes : ls[l] = ResetLane(lanes[l])
        /\ D \in SUBSET Lanes
    BY <2>2
  <2> HIDE DEF ls, D
  <2>4. Handed(ls, status) /\ TicketStep(status)
    BY <1>1, <1>2, <2>1, <2>2, <2>3 DEF Handed, TicketStep, StatusMove
  <2> QED
    BY <1>1, <2>1, <2>3, <2>4
<1>9. ASSUME NEW sts \in [Tasks -> Statuses],
             UNCHANGED <<lanes, startedIn, calls, ticket>>, status' = sts,
             \A t \in Tasks : sts[t] = status[t] \/ (status[t] = "unused" /\ sts[t] = "refused")
      PROVE  \E D \in SUBSET Lanes, ls \in [Lanes -> LaneType(Tasks)], st \in [Tasks -> Statuses] :
               PumpLanes(D, ls, st) /\ Handed(ls, st) /\ TicketStep(st)
  <2>1. PumpLanes({}, lanes, sts)
    BY <1>1, <1>9 DEF PumpLanes
  <2>2. Handed(lanes, sts)
    <3>1. \A k \in Lanes : Entries(lanes[k]) \subseteq Tasks
      BY IndInvMatches DEF Matches
    <3> QED
      BY <1>2, <1>9, <3>1 DEF Handed, StatusMove
  <2>3. TicketStep(sts)
    BY <1>1, <1>9 DEF TicketStep
  <2> QED
    BY <1>1, <2>1, <2>2, <2>3
<1>10. ASSUME NEW t \in Tasks, Refuse(t)
       PROVE  \E D \in SUBSET Lanes, ls \in [Lanes -> LaneType(Tasks)], sts \in [Tasks -> Statuses] :
                PumpLanes(D, ls, sts) /\ Handed(ls, sts) /\ TicketStep(sts)
  <2>1. /\ status' = [status EXCEPT ![t] = "refused"]
        /\ status[t] = "unused"
        /\ UNCHANGED <<lanes, startedIn, calls, ticket>>
    BY <1>10 DEF Refuse
  <2>2. /\ status' \in [Tasks -> Statuses]
        /\ \A u \in Tasks : status'[u] = status[u] \/ (status[u] = "unused" /\ status'[u] = "refused")
    BY <1>1, <2>1 DEF Statuses, Settled
  <2> QED
    BY <1>9, <2>1, <2>2
<1>11. ASSUME MarkGatewayDraining \/ StartWait \/ WaitDrained \/ WaitTimeout \/ UNCHANGED vars
       PROVE  \E D \in SUBSET Lanes, ls \in [Lanes -> LaneType(Tasks)], sts \in [Tasks -> Statuses] :
                PumpLanes(D, ls, sts) /\ Handed(ls, sts) /\ TicketStep(sts)
  <2>1. UNCHANGED <<lanes, status, startedIn, calls, ticket>>
    BY <1>11 DEF MarkGatewayDraining, StartWait, WaitDrained, WaitTimeout, vars
  <2> QED
    BY <1>1, <1>9, <2>1
<1> QED
  BY <1>4, <1>5, <1>6, <1>7, <1>8, <1>10, <1>11 DEF Next

(* What draining does: a lane is drained or left, and a task keeps what it   *)
(* had or is one of those its lane starts.                                   *)
LEMMA PumpLanesEffect ==
  ASSUME NEW D \in SUBSET Lanes,
         NEW ls \in [Lanes -> LaneType(Tasks)],
         NEW sts \in [Tasks -> Statuses],
         startedIn \in [Tasks -> Nat],
         Handed(ls, sts),
         PumpLanes(D, ls, sts)
  PROVE  /\ \A l \in Lanes : lanes'[l] = ls[l] \/ lanes'[l] = Pump(ls[l])
         /\ \A l \in Lanes : /\ lanes'[l].generation = ls[l].generation
                             /\ lanes'[l].maxConcurrent = ls[l].maxConcurrent
         /\ \A t \in Tasks :
              \/ status'[t] = sts[t] /\ startedIn'[t] = startedIn[t]
              \/ /\ sts[t] = "queued" /\ status'[t] = "running"
                 /\ t \in PumpStarted(ls[LaneOf[t]])
                 /\ lanes'[LaneOf[t]] = Pump(ls[LaneOf[t]])
<1> DEFINE started == UNION {PumpStarted(ls[l]) : l \in D}
<1>1. /\ \A l \in Lanes : lanes'[l] = IF l \in D THEN Pump(ls[l]) ELSE ls[l]
      /\ \A t \in Tasks : status'[t] = IF t \in started THEN "running" ELSE sts[t]
      /\ \A t \in Tasks : t \notin started => startedIn'[t] = startedIn[t]
  BY DEF PumpLanes
<1>2. ASSUME NEW l \in Lanes
      PROVE  /\ PumpStarted(ls[l]) \subseteq Entries(ls[l])
             /\ Pump(ls[l]).generation = ls[l].generation
             /\ Pump(ls[l]).maxConcurrent = ls[l].maxConcurrent
  BY TasksAssumption, PumpMoves DEF Handed
<1>3. \A t \in started : \E l \in D :
        t \in PumpStarted(ls[l]) /\ sts[t] = "queued" /\ LaneOf[t] = l
  BY <1>2 DEF Handed
<1> HIDE DEF started
<1>4. \A t \in started : /\ sts[t] = "queued"
                         /\ t \in PumpStarted(ls[LaneOf[t]])
                         /\ LaneOf[t] \in D
  BY <1>3
<1> QED
  BY <1>1, <1>2, <1>4

(* What every step does to a task that has begun, and to the generations: a  *)
(* running task may settle, a settled one stays so, neither starts again,    *)
(* and the generation of a lane never goes back.                             *)
LEMMA BegunStays ==
  ASSUME IndInv, [Next]_vars
  PROVE  /\ \A l \in Lanes : lanes[l].generation <= lanes'[l].generation
         /\ \A t \in Tasks : status[t] \in {"running"} \cup Settled =>
              /\ startedIn'[t] = startedIn[t]
              /\ status'[t] \in {"running"} \cup Settled
              /\ status[t] \in Settled => status'[t] \in Settled
<1>1. PICK D \in SUBSET Lanes, ls \in [Lanes -> LaneType(Tasks)], sts \in [Tasks -> Statuses] :
        PumpLanes(D, ls, sts) /\ Handed(ls, sts)
  BY StepIsPump
<1>2. startedIn \in [Tasks -> Nat]
  BY DEF IndInv, TypeOK
<1>3. /\ \A l \in Lanes : lanes'[l].generation = ls[l].generation
      /\ \A t \in Tasks :
           \/ status'[t] = sts[t] /\ startedIn'[t] = startedIn[t]
           \/ sts[t] = "queued" /\ status'[t] = "running"
  BY <1>1, <1>2, PumpLanesEffect
<1>4. \A t \in Tasks : StatusMove(status[t], sts[t])
  BY <1>1 DEF Handed
<1>5. \A l \in Lanes : lanes[l].generation <= ls[l].generation
  BY <1>1 DEF Handed
<1> QED
  BY <1>3, <1>4, <1>5 DEF StatusMove, Settled

(* DrainedIsTrue, with what it rests on: only begun tasks are waited for.    *)
DrainInv ==
  /\ \A t \in wait.ids : status[t] \in {"running"} \cup Settled
  /\ DrainedIsTrue

LEMMA DrainStep == ASSUME IndInv, DrainInv, [Next]_vars PROVE DrainInv'
<1>1. /\ wait \in [phase : {"idle", "waiting", "drained", "timedOut"}, ids : SUBSET Tasks]
      /\ startedIn \in [Tasks -> Nat]
      /\ lanes \in [Lanes -> LaneType(Tasks)]
  BY DEF IndInv, TypeOK
<1>2. lanes' \in [Lanes -> LaneType(Tasks)] /\ startedIn' \in [Tasks -> Nat]
  BY StepInd DEF IndInv, TypeOK
<1>3. \A t \in Tasks : LaneOf[t] \in Lanes
  BY LaneOfAssumption
<1>4. \A t \in Tasks : /\ startedIn[t] \in Nat
                       /\ lanes[LaneOf[t]].generation \in Nat
                       /\ lanes'[LaneOf[t]].generation \in Nat
                       /\ startedIn[t] <= lanes[LaneOf[t]].generation
  BY <1>1, <1>2, <1>3 DEF LaneType, IndInv, Generations
<1>5. /\ \A l \in Lanes : lanes[l].generation <= lanes'[l].generation
      /\ \A t \in Tasks : status[t] \in {"running"} \cup Settled =>
           /\ startedIn'[t] = startedIn[t]
           /\ status'[t] \in {"running"} \cup Settled
           /\ status[t] \in Settled => status'[t] \in Settled
  BY BegunStays
<1>6. CASE wait' = wait
  <2>1. \A t \in wait.ids : status'[t] \in {"running"} \cup Settled
    BY <1>1, <1>5 DEF DrainInv
  <2>2. DrainedIsTrue'
    BY <1>1, <1>3, <1>4, <1>5, <1>6 DEF DrainInv, DrainedIsTrue
  <2> QED
    BY <1>6, <2>1, <2>2 DEF DrainInv
<1>7. ActiveIds \subseteq {t \in Tasks : status[t] = "running"}
  BY IndInvMatches DEF Matches, ActiveIds
<1>8. CASE StartWait
  <2>1. /\ wait'.ids = ActiveIds
        /\ wait'.phase = "drained" => wait'.ids = {}
        /\ UNCHANGED <<lanes, status, startedIn>>
    BY <1>8 DEF StartWait
  <2> QED
    BY <1>7, <2>1 DEF DrainInv, DrainedIsTrue
<1>9. CASE WaitDrained
  <2>1. /\ wait'.ids = wait.ids
        /\ wait.ids \cap ActiveIds = {}
        /\ UNCHANGED <<lanes, status, startedIn>>
    BY <1>1, <1>9 DEF WaitDrained
  <2>2. ASSUME NEW t \in wait.ids, status[t] = "running"
        PROVE  startedIn[t] < lanes[LaneOf[t]].generation
    <3>1. t \in Tasks /\ t \notin lanes[LaneOf[t]].active
      BY <1>1, <1>3, <2>1 DEF ActiveIds
    <3>2. startedIn[t] # lanes[LaneOf[t]].generation
      BY <1>3, <2>2, <3>1, IndInvMatches DEF Matches
    <3> QED
      BY <1>4, <3>1, <3>2
  <2> QED
    BY <2>1, <2>2 DEF DrainInv, DrainedIsTrue
<1>10. CASE WaitTimeout
  <2>1. /\ wait'.ids = wait.ids /\ wait'.phase = "timedOut"
        /\ UNCHANGED <<lanes, status, startedIn>>
    BY <1>1, <1>10 DEF WaitTimeout
  <2> QED
    BY <2>1 DEF DrainInv, DrainedIsTrue
<1>11. wait' = wait \/ StartWait \/ WaitDrained \/ WaitTimeout
  BY DEF Next, vars, Refuse, Enqueue, Finish, SetLaneConcurrency, ClearLane,
         MarkGatewayDraining, ResetAllLanes
<1> QED
  BY <1>6, <1>8, <1>9, <1>10, <1>11

(* waitForActiveTasks never answers `drained' while a task it was to wait    *)
(* for still runs in the current generation of its lane.                     *)
THEOREM DrainAnswersTrue == Spec => []DrainedIsTrue
<1>1. Init => DrainInv
  BY DEF Init, DrainInv, DrainedIsTrue
<1>2. IndInv /\ DrainInv /\ [Next]_vars => DrainInv'
  BY DrainStep
<1>3. DrainInv => DrainedIsTrue
  BY DEF DrainInv
<1> QED
  BY Invariance, <1>1, <1>2, <1>3, PTL DEF Spec

(* A step that starts a task leaves its lane within its limit, however low   *)
(* setCommandLaneConcurrency put it under the tasks that were running.       *)
THEOREM LimitRespected == Spec => StartsWithinLimit
<1>1. ASSUME IndInv, [Next]_vars
      PROVE  \A l \in Lanes :
               (\E t \in Tasks : LaneOf[t] = l /\ status[t] # "running" /\ status'[t] = "running")
               => Cardinality(lanes'[l].active) <= lanes'[l].maxConcurrent
  <2>1. PICK D \in SUBSET Lanes, ls \in [Lanes -> LaneType(Tasks)], sts \in [Tasks -> Statuses] :
          PumpLanes(D, ls, sts) /\ Handed(ls, sts)
    BY <1>1, StepIsPump
  <2>2. startedIn \in [Tasks -> Nat]
    BY <1>1 DEF IndInv, TypeOK
  <2>3. SUFFICES ASSUME NEW l \in Lanes, NEW t \in Tasks,
                        LaneOf[t] = l, status[t] # "running", status'[t] = "running"
                 PROVE  Cardinality(lanes'[l].active) <= lanes'[l].maxConcurrent
    OBVIOUS
  <2>4. status'[t] # sts[t]
    BY <2>1, <2>3 DEF Handed, StatusMove
  <2>5. /\ t \in PumpStarted(ls[l])
        /\ lanes'[l] = Pump(ls[l])
        /\ lanes'[l].maxConcurrent = ls[l].maxConcurrent
    BY <2>1, <2>2, <2>3, <2>4, PumpLanesEffect
  <2>6. ls[l] \in LaneType(Tasks) /\ EachOnce(ls[l])
    BY <2>1 DEF Handed
  <2> QED
    BY <2>5, <2>6, TasksAssumption, PumpSaturates
<1> QED
  BY Invariance, <1>1, PTL DEF Spec, StartsWithinLimit

(* LaneFifo, with what it rests on: queues are in ticket order, and no       *)
(* ticket is above the number of calls.                                      *)
OrderInv ==
  /\ \A t \in Tasks : ticket[t] <= calls
  /\ \A l \in Lanes : SortedBy(lanes[l].queue, ticket)
  /\ LaneFifo

LEMMA OrderStep == ASSUME IndInv, OrderInv, [Next]_vars PROVE OrderInv'
<1>1. PICK D \in SUBSET Lanes, ls \in [Lanes -> LaneType(Tasks)], sts \in [Tasks -> Statuses] :
        PumpLanes(D, ls, sts) /\ Handed(ls, sts) /\ TicketStep(sts)
  BY StepIsPump
<1>2. /\ lanes \in [Lanes -> LaneType(Tasks)]
      /\ startedIn \in [Tasks -> Nat]
      /\ calls \in Nat
      /\ ticket \in [Tasks -> Nat]
  BY DEF IndInv, TypeOK
<1>3. /\ calls' \in Nat /\ calls <= calls'
      /\ ticket' \in [Tasks -> Nat]
      /\ \A t \in Tasks :
           IF status[t] = "unused" /\ sts[t] = "queued"
           THEN ticket'[t] = calls + 1 /\ ticket'[t] <= calls'
           ELSE ticket'[t] = ticket[t]
  BY <1>1 DEF TicketStep
<1>4. /\ \A l \in Lanes : lanes'[l] = ls[l] \/ lanes'[l] = Pump(ls[l])
      /\ \A t \in Tasks :
           \/ status'[t] = sts[t]
           \/ /\ sts[t] = "queued" /\ status'[t] = "running"
              /\ t \in PumpStarted(ls[LaneOf[t]])
              /\ lanes'[LaneOf[t]] = Pump(ls[LaneOf[t]])
  <2>1. /\ \A l \in Lanes : lanes'[l] = ls[l] \/ lanes'[l] = Pump(ls[l])
        /\ \A t \in Tasks :
             \/ status'[t] = sts[t] /\ startedIn'[t] = startedIn[t]
             \/ /\ sts[t] = "queued" /\ status'[t] = "running"
                /\ t \in PumpStarted(ls[LaneOf[t]])
                /\ lanes'[LaneOf[t]] = Pump(ls[LaneOf[t]])
    BY <1>1, <1>2, PumpLanesEffect, Zenon
  <2> QED
    BY <2>1, Zenon
<1>5. \A l \in Lanes : /\ ls[l] \in LaneType(Tasks)
                       /\ ls[l].queue \in Seq(Tasks)
                       /\ lanes[l].queue \in Seq(Tasks)
                       /\ EachOnce(ls[l])
                       /\ PumpCount(ls[l]) \in 0..Len(ls[l].queue)
  <2>1. \A l \in Lanes : ls[l] \in LaneType(Tasks) /\ lanes[l] \in LaneType(Tasks)
    BY <1>1, <1>2
  <2>2. \A l \in Lanes : ls[l].queue \in Seq(Tasks) /\ lanes[l].queue \in Seq(Tasks)
    BY <2>1 DEF LaneType
  <2>3. \A l \in Lanes : PumpCount(ls[l]) \in 0..Len(ls[l].queue)
    BY <2>1, TasksAssumption, PumpCountFacts
  <2>4. \A l \in Lanes : EachOnce(ls[l])
    BY <1>1 DEF Handed
  <2> QED
    BY <2>1, <2>2, <2>3, <2>4
<1>6. \A t \in Tasks : /\ LaneOf[t] \in Lanes
                       /\ StatusMove(status[t], sts[t])
                       /\ ticket[t] \in Nat /\ ticket[t] <= calls
  BY <1>1, <1>2, LaneOfAssumption DEF Handed, OrderInv
<1>7. ASSUME NEW t \in Tasks
      PROVE  ticket'[t] <= calls'
  <2>1. ticket[t] \in Nat /\ ticket[t] <= calls
    BY <1>6
  <2>2. ticket'[t] <= calls' \/ ticket'[t] = ticket[t]
    BY <1>3
  <2> QED
    BY <1>2, <1>3, <2>1, <2>2
<1>8. ASSUME NEW l \in Lanes
      PROVE  SortedBy(ls[l].queue, ticket')
  <2>1. \A i \in 1..Len(lanes[l].queue) : lanes[l].queue[i] \in Tasks /\ status[lanes[l].queue[i]] = "queued"
    <3>1. \A i \in 1..Len(lanes[l].queue) : lanes[l].queue[i] \in Entries(lanes[l])
      BY DEF Entries
    <3> QED
      BY <3>1, IndInvMatches DEF Matches
  <2>2. SortedBy(lanes[l].queue, ticket')
    <3>1. \A i \in 1..Len(lanes[l].queue) : ticket'[lanes[l].queue[i]] = ticket[lanes[l].queue[i]]
      BY <1>3, <2>1
    <3> QED
      BY <3>1 DEF OrderInv, SortedBy
  <2>3. CASE ls[l].queue = lanes[l].queue
    BY <2>2, <2>3
  <2>4. CASE ls[l].queue = <<>>
    BY <2>4 DEF SortedBy
  <2>5. ASSUME NEW t \in Tasks, status[t] = "unused", ls[l].queue = Append(lanes[l].queue, t)
        PROVE  SortedBy(ls[l].queue, ticket')
    <3> DEFINE q == lanes[l].queue
               r == ls[l].queue
    <3>1. /\ Len(q) \in Nat /\ Len(r) = Len(q) + 1
          /\ r[Len(q) + 1] = t
          /\ \A i \in 1..Len(q) : r[i] = q[i]
      BY <1>5, <2>5
    <3>2. sts[t] = "queued"
      <4>1. t \in Entries(ls[l])
        BY <3>1 DEF Entries
      <4> QED
        BY <1>1, <4>1 DEF Handed
    <3>3. ticket'[t] = calls + 1
      BY <1>3, <2>5, <3>2
    <3>4. \A i \in 1..Len(q) : /\ ticket'[q[i]] <= calls
                               /\ ticket'[q[i]] \in Nat
      BY <1>3, <1>6, <2>1
    <3>5. \A i, j \in 1..Len(q) : i < j => ticket'[q[i]] < ticket'[q[j]]
      BY <2>2 DEF SortedBy
    <3> HIDE DEF q, r
    <3>6. ASSUME NEW i \in 1..Len(r), NEW j \in 1..Len(r), i < j
          PROVE  ticket'[r[i]] < ticket'[r[j]]
      <4>1. i \in 1..Len(q) /\ (j \in 1..Len(q) \/ j = Len(q) + 1)
        BY <3>1, <3>6
      <4> QED
        BY <1>2, <3>1, <3>3, <3>4, <3>5, <3>6, <4>1
    <3> QED
      BY <3>6 DEF SortedBy, r
  <2> QED
    BY <1>1, <2>3, <2>4, <2>5 DEF Handed
<1>9. ASSUME NEW l \in Lanes
      PROVE  SortedBy(lanes'[l].queue, ticket')
  <2>1. CASE lanes'[l] = ls[l]
    BY <1>8, <2>1
  <2>2. CASE lanes'[l] = Pump(ls[l])
    <3>1. \A i \in 1..Len(Pump(ls[l]).queue) :
            /\ i + PumpCount(ls[l]) \in 1..Len(ls[l].queue)
            /\ Pump(ls[l]).queue[i] = ls[l].queue[i + PumpCount(ls[l])]
      BY <1>5, TasksAssumption, PumpQueue
    <3>2. SortedBy(Pump(ls[l]).queue, ticket')
      <4> DEFINE q == ls[l].queue
                 r == Pump(ls[l]).queue
                 n == PumpCount(ls[l])
      <4>1. \A a, b \in 1..Len(q) : a < b => ticket'[q[a]] < ticket'[q[b]]
        BY <1>8 DEF SortedBy
      <4>2. n \in 0..Len(q)
        BY <1>5
      <4> HIDE DEF q, r, n
      <4>3. ASSUME NEW i \in 1..Len(r), NEW j \in 1..Len(r), i < j
            PROVE  ticket'[r[i]] < ticket'[r[j]]
        <5>1. /\ i + n \in 1..Len(q) /\ j + n \in 1..Len(q)
              /\ r[i] = q[i + n] /\ r[j] = q[j + n]
          BY <3>1 DEF q, r, n
        <5>2. i + n < j + n
          BY <4>2, <4>3
        <5> QED
          BY <4>1, <5>1, <5>2
      <4> QED
        BY <4>3 DEF SortedBy, r
    <3> QED
      BY <2>2, <3>2
  <2> QED
    BY <1>4, <2>1, <2>2
<1>10. ASSUME NEW t \in Tasks, NEW u \in Tasks,
              LaneOf[t] = LaneOf[u], status'[u] = "queued", status'[t] \in {"running", "settled"}
       PROVE  ticket'[t] < ticket'[u]
  <2>1. sts[u] = "queued"
    BY <1>4, <1>10
  <2>2. CASE status'[t] = sts[t]
    <3>1. status[t] \in {"running", "settled"} /\ ticket'[t] = ticket[t]
      BY <1>3, <1>6, <1>10, <2>2 DEF StatusMove
    <3>2. CASE status[u] = "queued"
      BY <1>3, <1>10, <3>1, <3>2 DEF OrderInv, LaneFifo
    <3>3. CASE status[u] = "unused"
      BY <1>2, <1>3, <1>6, <2>1, <3>1, <3>3
    <3> QED
      BY <1>6, <2>1, <3>2, <3>3 DEF StatusMove
  <2>3. CASE status'[t] # sts[t]
    <3> DEFINE l == LaneOf[t]
               q == ls[l].queue
               n == PumpCount(ls[l])
    <3>1. /\ l \in Lanes
          /\ t \in PumpStarted(ls[l])
          /\ lanes'[l] = Pump(ls[l])
      BY <1>4, <1>6, <2>3
    <3>2. PICK i \in 1..n : t = q[i]
      BY <3>1 DEF PumpStarted
    <3>3. u \in Entries(Pump(ls[l]))
      BY <1>10, <3>1, StepInd DEF IndInv, Accounted
    <3>4. PICK k \in 1..Len(Pump(ls[l]).queue) : u = Pump(ls[l]).queue[k]
      BY <3>3 DEF Entries
    <3>5. k + n \in 1..Len(q) /\ u = q[k + n]
      BY <1>5, <3>1, <3>4, TasksAssumption, PumpQueue
    <3>6. /\ \A a, b \in 1..Len(q) : a < b => ticket'[q[a]] < ticket'[q[b]]
          /\ n \in 0..Len(q)
      BY <1>5, <1>8, <3>1 DEF SortedBy
    <3> HIDE DEF l, q, n
    <3>7. i \in 1..Len(q) /\ i < k + n
      BY <3>4, <3>5, <3>6
    <3> QED
      BY <3>2, <3>5, <3>6, <3>7
  <2> QED
    BY <2>2, <2>3
<1> QED
  BY <1>7, <1>9, <1>10 DEF OrderInv, LaneFifo

(* A lane starts its calls in the order enqueueCommandInLane accepted them,  *)
(* across clears, changes of the limit and restarts.                         *)
THEOREM FirstInFirstStarted == Spec => []LaneFifo
<1>1. Init => OrderInv
  <2>1. ASSUME Init PROVE OrderInv
    <3>1. \A l \in Lanes : lanes[l].queue = <<>>
      BY <2>1 DEF Init, NewLane
    <3> QED
      BY <2>1, <3>1 DEF Init, OrderInv, LaneFifo, SortedBy
  <2> QED
    BY <2>1
<1>2. IndInv /\ OrderInv /\ [Next]_vars => OrderInv'
  BY OrderStep
<1>3. OrderInv => LaneFifo
  BY DEF OrderInv
<1> QED
  BY Invariance, <1>1, <1>2, <1>3, PTL DEF Spec

-----------------------------------------------------------------------------
(* CommandQueue implements the safety half of LaneService for every set of   *)
(* lanes and calls, every limit and any number of restarts: what a drain     *)
(* starts is a prefix of each lane's queue, so each step of the queue is a   *)
(* step of the service or leaves what callers see alone.                     *)

(* The queues of the lanes, which is what the service calls waiting. *)
QueuesOf(ls) == [l \in Lanes |-> ls[l].queue]

(* drainLane on any of the lanes D serves the heads of their queues.         *)
LEMMA PumpServes ==
  ASSUME NEW S, NEW D, D \subseteq S, S \subseteq Lanes,
         NEW ls \in [Lanes -> LaneType(Tasks)],
         NEW sts,
         PumpLanes(D, ls, sts)
  PROVE  Service!Serve(S, QueuesOf(ls), sts)
<1> DEFINE n == [l \in Lanes |-> IF l \in D THEN PumpCount(ls[l]) ELSE 0]
           ws == QueuesOf(ls)
<1>1. \A l \in Lanes : /\ ws[l] = ls[l].queue
                       /\ ws[l] \in Seq(Tasks)
                       /\ Len(ws[l]) \in Nat
  BY DEF QueuesOf, LaneType
<1>2. \A l \in Lanes : PumpCount(ls[l]) \in 0..Len(ws[l])
  BY <1>1, TasksAssumption, PumpCountFacts
<1>3. /\ n \in [Lanes -> {0} \cup UNION {0..Len(ws[l]) : l \in S}]
      /\ \A l \in Lanes : n[l] <= (IF l \in S THEN Len(ws[l]) ELSE 0)
  BY <1>1, <1>2
<1>4. ASSUME NEW l \in Lanes
      PROVE  lanes'[l].queue = SubSeq(ws[l], n[l] + 1, Len(ws[l]))
  <2>1. CASE l \in D
    <3>1. lanes'[l] = Pump(ls[l]) /\ n[l] = PumpCount(ls[l])
      BY <2>1 DEF PumpLanes
    <3>2. Pump(ls[l]).queue = SubSeq(ls[l].queue, PumpCount(ls[l]) + 1, Len(ls[l].queue))
      BY DEF Pump, LaneType
    <3> QED
      BY <1>1, <3>1, <3>2
  <2>2. CASE l \notin D
    <3>1. lanes'[l] = ls[l] /\ n[l] = 0
      BY <2>2 DEF PumpLanes
    <3>2. SubSeq(ws[l], 1, Len(ws[l])) = ws[l]
      BY <1>1
    <3> QED
      BY <1>1, <3>1, <3>2
  <2> QED
    BY <2>1, <2>2
<1>5. UNION {PumpStarted(ls[l]) : l \in D} = UNION {Service!First(ws[l], n[l]) : l \in Lanes}
  <2>1. \A l \in D : Service!First(ws[l], n[l]) = PumpStarted(ls[l])
    BY <1>1 DEF Service!First, PumpStarted
  <2>2. \A l \in Lanes \ D : Service!First(ws[l], n[l]) = {}
    BY DEF Service!First
  <2> HIDE DEF n, ws
  <2> QED
    BY <2>1, <2>2
<1>6. status' = [t \in Tasks |-> IF t \in UNION {Service!First(ws[l], n[l]) : l \in Lanes}
                                 THEN "running" ELSE sts[t]]
  BY <1>5 DEF PumpLanes
<1>7. [l \in Lanes |-> lanes'[l].queue] = [l \in Lanes |-> SubSeq(ws[l], n[l] + 1, Len(ws[l]))]
  BY <1>4
<1> HIDE DEF n
<1> QED
  BY <1>3, <1>6, <1>7 DEF Service!Serve

(* Every step of the queue is one of the service, or changes neither the     *)
(* queues of the lanes nor where a call stands.                              *)
LEMMA StepServes ==
  ASSUME IndInv, [Next]_vars
  PROVE  [Service!Next]_(Service!serviceVars)
<1> DEFINE waiting == [l \in Lanes |-> lanes[l].queue]
<1>1. /\ lanes \in [Lanes -> LaneType(Tasks)]
      /\ status \in [Tasks -> Statuses]
      /\ \A t \in Tasks : LaneOf[t] \in Lanes
      /\ \A l \in Lanes : lanes[l] \in LaneType(Tasks) /\ EachOnce(lanes[l])
  BY LaneOfAssumption DEF IndInv, TypeOK, Accounted
<1>2. ASSUME NEW t \in Tasks, Refuse(t)
      PROVE  Service!Refuse(t)
  BY <1>2 DEF Refuse, Service!Refuse
<1>3. ASSUME NEW t \in Tasks, Enqueue(t)
      PROVE  Service!Accept(t)
  <2> DEFINE m == LaneOf[t]
             ls == [lanes EXCEPT ![m] = Push(@, t)]
  <2>1. /\ status[t] = "unused"
        /\ PumpLanes({m}, ls, [status EXCEPT ![t] = "queued"])
    BY <1>3 DEF Enqueue
  <2>2. /\ Push(lanes[m], t) \in LaneType(Tasks)
        /\ Push(lanes[m], t).queue = Append(lanes[m].queue, t)
    <3>1. m \in Lanes /\ t \notin Entries(lanes[m]) /\ t \notin lanes[m].active
      BY <1>1, <2>1, IndInvMatches DEF Matches
    <3>2. Push(lanes[m], t).queue = Append(lanes[m].queue, t)
      BY <1>1, <3>1 DEF Push, LaneType
    <3> HIDE DEF m
    <3> QED
      BY <1>1, <3>1, <3>2, PushFacts
  <2>3. /\ ls \in [Lanes -> LaneType(Tasks)]
        /\ QueuesOf(ls) = [waiting EXCEPT ![m] = Append(@, t)]
    BY <1>1, <2>2 DEF QueuesOf
  <2> HIDE DEF ls
  <2>4. {m} \in SUBSET Lanes /\ [status EXCEPT ![t] = "queued"] \in [Tasks -> Statuses]
    BY <1>1 DEF Statuses
  <2> HIDE DEF m
  <2>5. PICK E \in SUBSET Lanes, ms \in [Lanes -> LaneType(Tasks)], sts \in [Tasks -> Statuses] :
          /\ PumpLanes(E, ms, sts)
          /\ E = {m} /\ ms = ls /\ sts = [status EXCEPT ![t] = "queued"]
    BY <2>1, <2>3, <2>4
  <2>6. Service!Serve(E, QueuesOf(ms), sts)
    BY <2>5, PumpServes
  <2>7. QueuesOf(ms) = [waiting EXCEPT ![m] = Append(@, t)]
    BY <2>3, <2>5
  <2>8. Service!Serve({m}, [waiting EXCEPT ![m] = Append(@, t)], [status EXCEPT ![t] = "queued"])
    <3> DEFINE wx == [waiting EXCEPT ![m] = Append(@, t)]
               sx == [status EXCEPT ![t] = "queued"]
    <3>1. QueuesOf(ms) = wx /\ sts = sx /\ E = {m}
      BY <2>5, <2>7
    <3> HIDE DEF wx, sx
    <3>2. Service!Serve({m}, wx, sx)
      BY <2>6, <3>1 DEF Service!Serve
    <3> QED
      BY <3>2 DEF wx, sx
  <2> QED
    BY <2>1, <2>8 DEF Service!Accept, m
<1>4. ASSUME NEW t \in Tasks, NEW outcome \in {"resolved", "rejected"}, Finish(t, outcome)
      PROVE  Service!Settle(t)
  <2> DEFINE m == LaneOf[t]
             current == Completes(lanes[m], t, startedIn[t])
             D == IF current THEN {m} ELSE {}
             ls == IF current THEN [lanes EXCEPT ![m] = Complete(@, t)] ELSE lanes
  <2>1. /\ status[t] = "running"
        /\ PumpLanes(D, ls, [status EXCEPT ![t] = "settled"])
    BY <1>4 DEF Finish
  <2>2. /\ Complete(lanes[m], t) \in LaneType(Tasks)
        /\ Complete(lanes[m], t).queue = lanes[m].queue
    <3>1. m \in Lanes
      BY <1>1
    <3>2. Complete(lanes[m], t).queue = lanes[m].queue
      BY <1>1, <3>1 DEF Complete, LaneType
    <3> HIDE DEF m
    <3> QED
      BY <1>1, <3>1, <3>2, CompleteFacts
  <2>3. /\ ls \in [Lanes -> LaneType(Tasks)]
        /\ QueuesOf(ls) = waiting
        /\ D \subseteq {m}
    BY <1>1, <2>2 DEF QueuesOf
  <2> HIDE DEF ls, D
  <2>4. m \in Lanes /\ [status EXCEPT ![t] = "settled"] \in [Tasks -> Statuses]
    BY <1>1 DEF Statuses, Settled
  <2> HIDE DEF m
  <2>5. PICK E \in SUBSET {m}, ms \in [Lanes -> LaneType(Tasks)], sts \in [Tasks -> Statuses] :
          PumpLanes(E, ms, sts) /\ ms = ls /\ sts = [status EXCEPT ![t] = "settled"]
    BY <2>1, <2>3, <2>4
  <2>6. Service!Serve({m}, QueuesOf(ms), sts)
    BY <2>4, <2>5, PumpServes
  <2>7. QueuesOf(ms) = waiting
    BY <2>3, <2>5
  <2>8. Service!Serve({m}, waiting, [status EXCEPT ![t] = "settled"])
    <3> DEFINE wx == waiting
               sx == [status EXCEPT ![t] = "settled"]
    <3>1. QueuesOf(ms) = wx /\ sts = sx
      BY <2>5, <2>7
    <3> HIDE DEF wx, sx
    <3>2. Service!Serve({m}, wx, sx)
      BY <2>6, <3>1 DEF Service!Serve
    <3> QED
      BY <3>2 DEF wx, sx
  <2> QED
    BY <2>1, <2>8 DEF Service!Settle, m
<1>5. ASSUME NEW l \in Lanes, NEW n \in Concurrency, SetLaneConcurrency(l, n)
      PROVE  Service!ServeMore
  <2> DEFINE ls == [lanes EXCEPT ![l] = SetMax(@, n)]
  <2>1. PumpLanes({l}, ls, status)
    BY <1>5 DEF SetLaneConcurrency
  <2>2. /\ SetMax(lanes[l], n) \in LaneType(Tasks)
        /\ SetMax(lanes[l], n).queue = lanes[l].queue
    <3>1. n \in Int
      BY ConcurrencyAssumption
    <3>2. SetMax(lanes[l], n).queue = lanes[l].queue
      BY <1>1 DEF SetMax, LaneType
    <3> QED
      BY <1>1, <3>1, <3>2, SetMaxFacts
  <2>3. /\ ls \in [Lanes -> LaneType(Tasks)]
        /\ QueuesOf(ls) = waiting
        /\ {l} \subseteq Lanes /\ Lanes \subseteq Lanes
    BY <1>1, <2>2 DEF QueuesOf
  <2> HIDE DEF ls
  <2>4. PICK E \in SUBSET Lanes, ms \in [Lanes -> LaneType(Tasks)], sts \in [Tasks -> Statuses] :
          PumpLanes(E, ms, sts) /\ ms = ls /\ sts = status
    BY <1>1, <2>1, <2>3
  <2>5. Service!Serve(Lanes, QueuesOf(ms), sts)
    BY <2>4, PumpServes
  <2>6. QueuesOf(ms) = waiting
    BY <2>3, <2>4
  <2>7. Service!Serve(Lanes, waiting, status)
    <3> DEFINE wx == waiting
    <3>1. QueuesOf(ms) = wx /\ sts = status
      BY <2>4, <2>6
    <3> HIDE DEF wx
    <3>2. Service!Serve(Lanes, wx, status)
      BY <2>5, <3>1 DEF Service!Serve
    <3> QED
      BY <3>2 DEF wx
  <2> QED
    BY <2>7 DEF Service!ServeMore
<1>6. ASSUME NEW l \in Lanes, ClearLane(l)
      PROVE  Service!Clear(l)
  <2>1. /\ lanes' = [lanes EXCEPT ![l] = Emptied(@)]
        /\ status' = [t \in Tasks |-> IF t \in Entries(lanes[l]) THEN "cleared" ELSE status[t]]
    BY <1>6 DEF ClearLane
  <2>2. Emptied(lanes[l]).queue = <<>>
    BY <1>1 DEF Emptied, LaneType
  <2>3. [k \in Lanes |-> lanes'[k].queue] = [waiting EXCEPT ![l] = <<>>]
    BY <1>1, <2>1, <2>2
  <2>4. Entries(lanes[l]) = Service!First(waiting[l], Len(waiting[l]))
    BY DEF Entries, Service!First
  <2> QED
    BY <2>1, <2>3, <2>4 DEF Service!Clear
<1>7. ASSUME ResetAllLanes
      PROVE  Service!ServeMore
  <2> DEFINE ls == [l \in Lanes |-> ResetLane(lanes[l])]
             D == {l \in Lanes : ls[l].queue # <<>>}
  <2>1. PumpLanes(D, ls, status)
    BY <1>7 DEF ResetAllLanes
  <2>2. ASSUME NEW l \in Lanes
        PROVE  /\ ResetLane(lanes[l]) \in LaneType(Tasks)
               /\ ResetLane(lanes[l]).queue = lanes[l].queue
    <3>1. ResetLane(lanes[l]).queue = lanes[l].queue
      BY <1>1 DEF ResetLane, LaneType
    <3> QED
      BY <1>1, <3>1, ResetFacts
  <2>3. /\ ls \in [Lanes -> LaneType(Tasks)]
        /\ QueuesOf(ls) = waiting
        /\ D \subseteq Lanes
    BY <2>2 DEF QueuesOf
  <2> HIDE DEF ls, D
  <2>4. PICK E \in SUBSET Lanes, ms \in [Lanes -> LaneType(Tasks)], sts \in [Tasks -> Statuses] :
          PumpLanes(E, ms, sts) /\ ms = ls /\ sts = status
    BY <1>1, <2>1, <2>3
  <2>5. Service!Serve(Lanes, QueuesOf(ms), sts)
    BY <2>4, PumpServes
  <2>6. QueuesOf(ms) = waiting
    BY <2>3, <2>4
  <2>7. Service!Serve(Lanes, waiting, status)
    <3> DEFINE wx == waiting
    <3>1. QueuesOf(ms) = wx /\ sts = status
      BY <2>4, <2>6
    <3> HIDE DEF wx
    <3>2. Service!Serve(Lanes, wx, status)
      BY <2>5, <3>1 DEF Service!Serve
    <3> QED
      BY <3>2 DEF wx
  <2> QED
    BY <2>7 DEF Service!ServeMore
<1>8. ASSUME MarkGatewayDraining \/ StartWait \/ WaitDrained \/ WaitTimeout \/ UNCHANGED vars
      PROVE  UNCHANGED Service!serviceVars
  <2>1. UNCHANGED <<lanes, status>>
    BY <1>8 DEF MarkGatewayDraining, StartWait, WaitDrained, WaitTimeout, vars
  <2> QED
    BY <2>1 DEF Service!serviceVars
<1> QED
  BY <1>2, <1>3, <1>4, <1>5, <1>6, <1>7, <1>8 DEF Next, Service!Next

(* Whatever the limits, clears and restarts, the callers of a lane see it    *)
(* serve their calls in the order they were accepted, each at most once, and *)
(* lose one only to a clear of the lane.                                     *)
THEOREM ImplementsSafety == Spec => Service!SafeSpec
<1>1. Init => Service!Init
  BY DEF Init, NewLane, Service!Init
<1>2. IndInv /\ [Next]_vars => [Service!Next]_(Service!serviceVars)
  BY StepServes
<1> QED
  BY Invariance, <1>1, <1>2, PTL DEF Spec, Service!SafeSpec

-----------------------------------------------------------------------------
(* Agent runs over the lanes, and the run loop of the gateway over both.     *)
(*                                                                           *)
(* Where a run stands decides in which lanes it is queued or active: Placed  *)
(* says so of a whole world.  Each function of EmbeddedRuns keeps it, given  *)
(* that only the lane it is about to pump may be unsaturated, and so does    *)
(* the reset of all lanes.  What a step of the runs never does while the     *)
(* gateway drains (Tame) keeps what the run loop relies on.                  *)

(* The part of the state that the runs and their lanes keep.                 *)
Worlds == [lanes : [AllLanes -> LaneType(Runs)], draining : BOOLEAN,
           phase : [Runs -> Phases], outerGen : [Runs -> Nat], innerGen : [Runs -> Nat]]

(* Phases of a run whose outer task has started and not ended.               *)
Outer == {"globalQueued", "executing", "innerSettled", "innerRefused"}

(* The entries of a lane are the runs that their phase places there, and its *)
(* limit is that of its kind.                                                *)
SessionOK(w, s) ==
  /\ w.lanes[s].maxConcurrent = 1
  /\ Entries(w.lanes[s]) = {r \in Runs : SessionOf[r] = s /\ w.phase[r] = "sessionQueued"}
  /\ w.lanes[s].active = {r \in Runs : /\ SessionOf[r] = s /\ w.phase[r] \in Outer
                                       /\ w.outerGen[r] = w.lanes[s].generation}

GlobalOK(w, g) ==
  /\ Entries(w.lanes[g]) = {r \in Runs : GlobalOf[r] = g /\ w.phase[r] = "globalQueued"}
  /\ w.lanes[g].active = {r \in Runs : /\ GlobalOf[r] = g /\ w.phase[r] = "executing"
                                       /\ w.innerGen[r] = w.lanes[g].generation}

(* No run started in a generation its lanes have not reached.                *)
StartsOK(w) ==
  \A r \in Runs :
    /\ w.outerGen[r] <= w.lanes[SessionOf[r]].generation
    /\ w.innerGen[r] <= w.lanes[GlobalOf[r]].generation

(* In one generation a session starts an outer task only when none is left.  *)
OuterAlone(w) ==
  \A q, r \in Runs :
    /\ SessionOf[q] = SessionOf[r] /\ w.outerGen[q] = w.outerGen[r]
    /\ w.phase[q] \in Outer /\ w.phase[r] \in Outer
    => q = r

(* The runs of a world are where they should be. *)
Placed(w) ==
  /\ w \in Worlds
  /\ \A l \in AllLanes : EachOnce(w.lanes[l])
  /\ \A s \in Sessions : SessionOK(w, s)
  /\ \A g \in Globals : GlobalOK(w, g)
  /\ StartsOK(w)
  /\ OuterAlone(w)

(* The lanes other than l, and all of them, are saturated. *)
SaturatedBut(w, l) == \A k \in AllLanes \ {l} : Saturated(w.lanes[k])
AllSaturated(w) == \A k \in AllLanes : Saturated(w.lanes[k])

(* Runs that will execute or do.                                             *)
Busy == {"globalQueued", "executing"}

(* From w to v, no lane is reset and no run becomes busy during a drain.     *)
Tame(w, v) ==
  /\ v.draining = w.draining
  /\ \A l \in AllLanes : v.lanes[l].generation = w.lanes[l].generation
  /\ w.draining => \A r \in Runs : v.phase[r] \in Busy =>
       w.phase[r] \in Busy /\ v.outerGen[r] = w.outerGen[r]

LEMMA TameTransitive ==
  ASSUME NEW u, NEW v, NEW w, Tame(u, v), Tame(v, w)
  PROVE  Tame(u, w)
BY DEF Tame

(* The types of a world's and of a lane's fields. *)
LEMMA WorldFields ==
  ASSUME NEW w \in Worlds
  PROVE  /\ w.lanes \in [AllLanes -> LaneType(Runs)]
         /\ w.draining \in BOOLEAN
         /\ w.phase \in [Runs -> Phases]
         /\ w.outerGen \in [Runs -> Nat]
         /\ w.innerGen \in [Runs -> Nat]
BY DEF Worlds

LEMMA LaneFields ==
  ASSUME NEW T, NEW lane \in LaneType(T)
  PROVE  /\ lane.queue \in Seq(T) /\ lane.active \in SUBSET T
         /\ lane.maxConcurrent \in Nat \ {0} /\ lane.generation \in Nat
BY DEF LaneType

LEMMA RunsAreFinite == IsFiniteSet(Runs)
BY RunsAssumption

(* A run's two lanes are of different kinds. *)
LEMMA LanesOfRuns ==
  ASSUME NEW r \in Runs
  PROVE  /\ SessionOf[r] \in Sessions /\ SessionOf[r] \in AllLanes
         /\ GlobalOf[r] \in Globals /\ GlobalOf[r] \in AllLanes
         /\ SessionOf[r] # GlobalOf[r]
         /\ SessionOf[r] \notin Globals /\ GlobalOf[r] \notin Sessions
BY RunsAssumption, LanesAssumption DEF AllLanes

(* What a change of some fields of a world leaves of the others.             *)
LEMMA LanesChanged ==
  ASSUME NEW w \in Worlds, NEW L
  PROVE  LET v == [w EXCEPT !.lanes = L]
         IN  /\ v.lanes = L /\ v.draining = w.draining
             /\ v.phase = w.phase /\ v.outerGen = w.outerGen /\ v.innerGen = w.innerGen
             /\ L \in [AllLanes -> LaneType(Runs)] => v \in Worlds
BY DEF Worlds

LEMMA PhaseChanged ==
  ASSUME NEW w \in Worlds, NEW P
  PROVE  LET v == [w EXCEPT !.phase = P]
         IN  /\ v.lanes = w.lanes /\ v.draining = w.draining
             /\ v.phase = P /\ v.outerGen = w.outerGen /\ v.innerGen = w.innerGen
             /\ P \in [Runs -> Phases] => v \in Worlds
BY DEF Worlds

LEMMA OuterChanged ==
  ASSUME NEW w \in Worlds, NEW O
  PROVE  LET v == [w EXCEPT !.outerGen = O]
         IN  /\ v.lanes = w.lanes /\ v.draining = w.draining
             /\ v.phase = w.phase /\ v.outerGen = O /\ v.innerGen = w.innerGen
             /\ O \in [Runs -> Nat] => v \in Worlds
BY DEF Worlds

(* What drainLane of a shared lane changes of a world. *)
LEMMA PumpGlobalFields ==
  ASSUME NEW w \in Worlds, NEW g \in Globals
  PROVE  LET v == PumpGlobal(w, g)
             started == PumpStarted(w.lanes[g])
         IN  /\ v.lanes = [w.lanes EXCEPT ![g] = Pump(w.lanes[g])]
             /\ v.draining = w.draining
             /\ v.phase = [r \in Runs |-> IF r \in started THEN "executing" ELSE w.phase[r]]
             /\ v.outerGen = w.outerGen
             /\ v.innerGen = [r \in Runs |-> IF r \in started
                              THEN w.lanes[g].generation ELSE w.innerGen[r]]
             /\ /\ v.lanes \in [AllLanes -> LaneType(Runs)] /\ v.phase \in [Runs -> Phases]
                /\ v.innerGen \in [Runs -> Nat]
                => v \in Worlds
<1> DEFINE L == [w.lanes EXCEPT ![g] = Pump(w.lanes[g])]
           P == [r \in Runs |-> IF r \in PumpStarted(w.lanes[g]) THEN "executing" ELSE w.phase[r]]
           I == [r \in Runs |-> IF r \in PumpStarted(w.lanes[g])
                                THEN w.lanes[g].generation ELSE w.innerGen[r]]
<1>1. PumpGlobal(w, g) = [w EXCEPT !.lanes = L, !.phase = P, !.innerGen = I]
  BY Zenon DEF PumpGlobal
<1> HIDE DEF L, P, I
<1> DEFINE v == [w EXCEPT !.lanes = L, !.phase = P, !.innerGen = I]
<1>2. /\ v.lanes = L /\ v.draining = w.draining
      /\ v.phase = P /\ v.outerGen = w.outerGen /\ v.innerGen = I
      /\ L \in [AllLanes -> LaneType(Runs)] /\ P \in [Runs -> Phases] /\ I \in [Runs -> Nat]
           => v \in Worlds
  BY DEF Worlds
<1> HIDE DEF v
<1> QED BY <1>1, <1>2 DEF L, P, I, v

(* drainLane of a shared lane keeps runs in their places and leaves the lane *)
(* saturated.                                                                *)
LEMMA PumpGlobalKeeps ==
  ASSUME NEW w, Placed(w), NEW g \in Globals, SaturatedBut(w, g)
  PROVE  LET v == PumpGlobal(w, g)
         IN  Placed(v) /\ AllSaturated(v) /\ Tame(w, v)
<1> DEFINE v == PumpGlobal(w, g)
           lane == w.lanes[g]
           started == PumpStarted(lane)
<1>1. w \in Worlds /\ g \in AllLanes /\ lane \in LaneType(Runs) /\ EachOnce(lane)
  BY WorldFields DEF Placed, AllLanes
<1>2. /\ v.lanes = [w.lanes EXCEPT ![g] = Pump(lane)]
      /\ v.draining = w.draining
      /\ v.phase = [r \in Runs |-> IF r \in started THEN "executing" ELSE w.phase[r]]
      /\ v.outerGen = w.outerGen
      /\ v.innerGen = [r \in Runs |-> IF r \in started THEN lane.generation ELSE w.innerGen[r]]
  <2> HIDE DEF v
  <2> QED BY <1>1, PumpGlobalFields DEF v
<1>3. /\ Pump(lane) \in LaneType(Runs)
      /\ Pump(lane).generation = lane.generation
      /\ Pump(lane).maxConcurrent = lane.maxConcurrent
      /\ started \subseteq Entries(lane)
      /\ Entries(Pump(lane)) = Entries(lane) \ started
      /\ Pump(lane).active = lane.active \cup started
      /\ EachOnce(Pump(lane))
  BY <1>1, PumpMoves, RunsAreFinite
<1>4. Saturated(Pump(lane))
  BY <1>1, PumpSaturates, RunsAreFinite
<1>5. GlobalOK(w, g)
  BY DEF Placed
<1>6. \A r \in started : r \in Runs /\ GlobalOf[r] = g /\ w.phase[r] = "globalQueued"
  BY <1>3, <1>5 DEF GlobalOK
<1>7. lane.generation \in Nat
  BY <1>1, LaneFields
<1>8. v \in Worlds
  <2>1. /\ v.lanes \in [AllLanes -> LaneType(Runs)] /\ v.draining \in BOOLEAN
        /\ v.phase \in [Runs -> Phases] /\ v.outerGen \in [Runs -> Nat]
        /\ v.innerGen \in [Runs -> Nat]
    <3> HIDE DEF v, lane, started
    <3> QED BY <1>1, <1>2, <1>3, <1>7, WorldFields DEF Phases
  <2> QED BY <2>1, <1>1, PumpGlobalFields DEF Worlds
<1>9. \A l \in AllLanes : v.lanes[l] = IF l = g THEN Pump(lane) ELSE w.lanes[l]
  <2> HIDE DEF v, lane, started
  <2> QED BY <1>1, <1>2, WorldFields
<1>10. \A r \in Runs :
         /\ v.phase[r] = (IF r \in started THEN "executing" ELSE w.phase[r])
         /\ v.outerGen[r] = w.outerGen[r]
         /\ v.innerGen[r] = IF r \in started THEN lane.generation ELSE w.innerGen[r]
  BY <1>2
<1> HIDE DEF v
<1>11. \A l \in AllLanes : EachOnce(v.lanes[l]) /\ Saturated(v.lanes[l])
                           /\ v.lanes[l].generation = w.lanes[l].generation
  BY <1>9, <1>3, <1>4 DEF Placed, SaturatedBut, lane
<1>12. ASSUME NEW s \in Sessions PROVE SessionOK(v, s)
  <2>1. SessionOK(w, s)
    BY DEF Placed
  <2>2. v.lanes[s] = w.lanes[s]
    BY <1>9, LanesAssumption DEF AllLanes
  <2>3. \A r \in Runs : v.phase[r] = "sessionQueued" <=> w.phase[r] = "sessionQueued"
    BY <1>10, <1>6
  <2>4. \A r \in Runs : v.phase[r] \in Outer <=> w.phase[r] \in Outer
    BY <1>10, <1>6 DEF Outer
  <2> QED BY <2>1, <2>2, <2>3, <2>4, <1>10 DEF SessionOK
<1>13. ASSUME NEW k \in Globals PROVE GlobalOK(v, k)
  <2>1. GlobalOK(w, k) /\ k \in AllLanes
    BY DEF Placed, AllLanes
  <2>2. CASE k # g
    <3>1. v.lanes[k] = w.lanes[k]
      BY <2>1, <2>2, <1>9
    <3> QED BY <2>1, <2>2, <3>1, <1>10, <1>6 DEF GlobalOK
  <2>3. CASE k = g
    <3>1. v.lanes[g] = Pump(lane)
      BY <1>1, <1>9
    <3>2. Entries(Pump(lane)) = {r \in Runs : GlobalOf[r] = g /\ v.phase[r] = "globalQueued"}
      BY <1>3, <1>5, <1>6, <1>10 DEF GlobalOK
    <3>3. Pump(lane).active = {r \in Runs : /\ GlobalOf[r] = g /\ v.phase[r] = "executing"
                                           /\ v.innerGen[r] = lane.generation}
      BY <1>3, <1>5, <1>6, <1>10 DEF GlobalOK
    <3> QED BY <2>3, <3>1, <3>2, <3>3, <1>3 DEF GlobalOK
  <2> QED BY <2>2, <2>3
<1>14. StartsOK(v)
  <2> SUFFICES ASSUME NEW r \in Runs
               PROVE  /\ v.outerGen[r] <= v.lanes[SessionOf[r]].generation
                      /\ v.innerGen[r] <= v.lanes[GlobalOf[r]].generation
    BY DEF StartsOK
  <2>1. SessionOf[r] \in AllLanes /\ GlobalOf[r] \in AllLanes
    BY LanesOfRuns
  <2>2. /\ w.outerGen[r] <= w.lanes[SessionOf[r]].generation
        /\ w.innerGen[r] <= w.lanes[GlobalOf[r]].generation
    BY DEF Placed, StartsOK
  <2> QED BY <2>1, <2>2, <1>6, <1>7, <1>10, <1>11
<1>15. OuterAlone(v)
  <2>1. \A r \in Runs : v.phase[r] \in Outer <=> w.phase[r] \in Outer
    BY <1>10, <1>6 DEF Outer
  <2> QED BY <2>1, <1>10 DEF Placed, OuterAlone
<1>16. Tame(w, v)
  BY <1>2, <1>6, <1>10, <1>11 DEF Tame, Busy
<1> QED BY <1>8, <1>11, <1>12, <1>13, <1>14, <1>15, <1>16 DEF Placed, AllSaturated, v

(* A session lane starts its first entry, and only when it is idle.          *)
LEMMA SessionStarts ==
  ASSUME NEW w, Placed(w), NEW s \in Sessions, PumpStarted(w.lanes[s]) # {}
  PROVE  LET r == Head(w.lanes[s].queue)
         IN  /\ r \in Runs /\ SessionOf[r] = s /\ w.phase[r] = "sessionQueued"
             /\ PumpStarted(w.lanes[s]) = {r}
             /\ w.lanes[s].active = {}
<1> DEFINE lane == w.lanes[s]
           r == Head(lane.queue)
           n == PumpCount(lane)
<1>1. s \in AllLanes /\ lane \in LaneType(Runs) /\ lane.maxConcurrent = 1 /\ SessionOK(w, s)
  BY WorldFields DEF Placed, AllLanes, SessionOK
<1>2. /\ IsFiniteSet(lane.active) /\ Cardinality(lane.active) \in Nat
      /\ Len(lane.queue) \in Nat /\ n \in 0..Len(lane.queue)
      /\ \/ n = 0
         \/ Cardinality(lane.active) + n = 1
         \/ Cardinality(lane.active) + n <= 1
  BY <1>1, PumpCountFacts, RunsAreFinite
<1>3. n # 0
  <2>1. n = 0 => PumpStarted(lane) = {}
    BY DEF PumpStarted
  <2> QED BY <2>1
<1>4. n = 1 /\ Cardinality(lane.active) = 0
  <2> HIDE DEF n, lane
  <2> QED BY <1>2, <1>3
<1>5. lane.active = {}
  BY <1>2, <1>4, FS_EmptySet
<1>6. lane.queue \in Seq(Runs) /\ 1 \in 1..Len(lane.queue) /\ r = lane.queue[1]
  <2>1. lane.queue \in Seq(Runs)
    BY <1>1, LaneFields
  <2>2. lane.queue # <<>>
    BY <1>2, <1>4
  <2> QED BY <1>2, <1>4, <2>1, <2>2
<1>7. PumpStarted(lane) = {r}
  BY <1>4, <1>6 DEF PumpStarted
<1>8. r \in Entries(lane)
  BY <1>6 DEF Entries
<1> QED BY <1>1, <1>5, <1>7, <1>8 DEF SessionOK

(* The world after the outer task of a session's first run began: the run    *)
(* was refused, or pushed to its shared lane, which is still to be pumped.   *)
Begun(w, s, v, x) ==
  LET r == Head(w.lanes[s].queue)
  IN  /\ x \in {"innerRefused", "globalQueued"}
      /\ v \in Worlds
      /\ v.draining = w.draining
      /\ v.lanes = [l \in AllLanes |->
           IF l = s THEN Pump(w.lanes[s])
           ELSE IF l = GlobalOf[r] /\ x = "globalQueued" THEN Push(w.lanes[l], r)
           ELSE w.lanes[l]]
      /\ v.phase = [w.phase EXCEPT ![r] = x]
      /\ v.outerGen = [w.outerGen EXCEPT ![r] = w.lanes[s].generation]
      /\ v.innerGen = w.innerGen

LEMMA BegunKeeps ==
  ASSUME NEW w, Placed(w), NEW s \in Sessions, PumpStarted(w.lanes[s]) # {},
         SaturatedBut(w, s), NEW v, NEW x, Begun(w, s, v, x)
  PROVE  LET g == GlobalOf[Head(w.lanes[s].queue)]
         IN  /\ Placed(v) /\ SaturatedBut(v, g)
             /\ x = "innerRefused" => AllSaturated(v)
             /\ x = "innerRefused" \/ ~w.draining => Tame(w, v)
<1> DEFINE lane == w.lanes[s]
           r == Head(lane.queue)
           g == GlobalOf[r]
<1>1. /\ s \in AllLanes /\ lane \in LaneType(Runs) /\ EachOnce(lane) /\ SessionOK(w, s)
      /\ w \in Worlds
  BY WorldFields DEF Placed, AllLanes
<1>2. /\ r \in Runs /\ SessionOf[r] = s /\ w.phase[r] = "sessionQueued"
      /\ PumpStarted(lane) = {r} /\ lane.active = {}
  BY SessionStarts
<1>3. /\ Pump(lane) \in LaneType(Runs)
      /\ Pump(lane).generation = lane.generation
      /\ Pump(lane).maxConcurrent = 1
      /\ Entries(Pump(lane)) = Entries(lane) \ {r}
      /\ Pump(lane).active = {r}
      /\ EachOnce(Pump(lane))
      /\ Saturated(Pump(lane))
  BY <1>1, <1>2, PumpMoves, PumpSaturates, RunsAreFinite DEF SessionOK
<1>4. g \in Globals /\ g \in AllLanes /\ g # s /\ s \notin Globals
  BY <1>2, LanesOfRuns
<1>5. w.lanes[g] \in LaneType(Runs) /\ EachOnce(w.lanes[g]) /\ GlobalOK(w, g)
  BY <1>1, <1>4, WorldFields DEF Placed
<1>6. r \notin Entries(w.lanes[g]) /\ r \notin w.lanes[g].active
  BY <1>2, <1>5 DEF GlobalOK
<1>7. /\ Push(w.lanes[g], r) \in LaneType(Runs)
      /\ Entries(Push(w.lanes[g], r)) = Entries(w.lanes[g]) \cup {r}
      /\ EachOnce(Push(w.lanes[g], r))
      /\ Push(w.lanes[g], r).active = w.lanes[g].active
      /\ Push(w.lanes[g], r).generation = w.lanes[g].generation
  <2> HIDE DEF lane, r, g
  <2> QED BY <1>2, <1>5, <1>6, PushFacts
<1>8. /\ v \in Worlds /\ v.draining = w.draining
      /\ x \in {"innerRefused", "globalQueued"}
      /\ \A l \in AllLanes : v.lanes[l] =
           IF l = s THEN Pump(lane)
           ELSE IF l = g /\ x = "globalQueued" THEN Push(w.lanes[l], r)
           ELSE w.lanes[l]
      /\ v.phase = [w.phase EXCEPT ![r] = x]
      /\ v.outerGen = [w.outerGen EXCEPT ![r] = lane.generation]
      /\ v.innerGen = w.innerGen
  BY DEF Begun
<1> HIDE DEF lane, g, r
<1>9. \A q \in Runs : /\ v.phase[q] = (IF q = r THEN x ELSE w.phase[q])
                      /\ v.outerGen[q] = IF q = r THEN lane.generation ELSE w.outerGen[q]
                      /\ v.innerGen[q] = w.innerGen[q]
  BY <1>1, <1>8, WorldFields
<1>10. lane.generation \in Nat
  BY <1>1, LaneFields
<1>11. ASSUME NEW l \in AllLanes
       PROVE  /\ EachOnce(v.lanes[l])
              /\ v.lanes[l].generation = w.lanes[l].generation
              /\ l # g \/ x = "innerRefused" => Saturated(v.lanes[l])
  BY <1>3, <1>7, <1>8 DEF Placed, SaturatedBut, lane
<1>12. ASSUME NEW t \in Sessions PROVE SessionOK(v, t)
  <2>1. SessionOK(w, t) /\ t \in AllLanes /\ t # g
    BY <1>4, LanesAssumption DEF Placed, AllLanes
  <2>2. CASE t = s
    <3>1. v.lanes[s] = Pump(lane)
      BY <1>1, <1>8
    <3>2. Entries(Pump(lane)) = {q \in Runs : SessionOf[q] = s /\ v.phase[q] = "sessionQueued"}
      BY <1>1, <1>3, <1>8, <1>9 DEF SessionOK, lane
    <3>3. \A q \in Runs : ~(SessionOf[q] = s /\ w.phase[q] \in Outer /\ w.outerGen[q] = lane.generation)
      BY <1>1, <1>2 DEF SessionOK, lane
    <3>4. {r} = {q \in Runs : /\ SessionOf[q] = s /\ v.phase[q] \in Outer
                              /\ v.outerGen[q] = lane.generation}
      BY <1>2, <1>8, <1>9, <3>3 DEF Outer
    <3> QED BY <2>2, <3>1, <3>2, <3>4, <1>3 DEF SessionOK
  <2>3. CASE t # s
    <3>1. v.lanes[t] = w.lanes[t]
      BY <2>1, <2>3, <1>8
    <3> QED BY <2>1, <2>3, <3>1, <1>2, <1>9 DEF SessionOK
  <2> QED BY <2>2, <2>3
<1>13. ASSUME NEW k \in Globals PROVE GlobalOK(v, k)
  <2>1. GlobalOK(w, k) /\ k \in AllLanes /\ k # s
    BY <1>4 DEF Placed, AllLanes
  <2>2. CASE k = g /\ x = "globalQueued"
    <3>1. v.lanes[g] = Push(w.lanes[g], r)
      BY <1>4, <1>8, <2>2
    <3>2. Entries(Push(w.lanes[g], r)) =
            {q \in Runs : GlobalOf[q] = g /\ v.phase[q] = "globalQueued"}
      BY <1>5, <1>7, <1>9, <1>2, <2>2 DEF GlobalOK, g
    <3>3. w.lanes[g].active =
            {q \in Runs : /\ GlobalOf[q] = g /\ v.phase[q] = "executing"
                          /\ v.innerGen[q] = w.lanes[g].generation}
      BY <1>5, <1>9, <1>2, <2>2 DEF GlobalOK
    <3> QED BY <2>2, <3>1, <3>2, <3>3, <1>7 DEF GlobalOK
  <2>3. CASE ~(k = g /\ x = "globalQueued")
    <3>1. v.lanes[k] = w.lanes[k]
      BY <2>1, <2>3, <1>8
    <3>2. \A q \in Runs : GlobalOf[q] = k =>
            /\ v.phase[q] = "globalQueued" <=> w.phase[q] = "globalQueued"
            /\ v.phase[q] = "executing" <=> w.phase[q] = "executing"
      BY <2>3, <1>2, <1>8, <1>9 DEF g
    <3> QED BY <2>1, <3>1, <3>2, <1>9 DEF GlobalOK
  <2> QED BY <2>2, <2>3
<1>14. StartsOK(v)
  <2> SUFFICES ASSUME NEW q \in Runs
               PROVE  /\ v.outerGen[q] <= v.lanes[SessionOf[q]].generation
                      /\ v.innerGen[q] <= v.lanes[GlobalOf[q]].generation
    BY DEF StartsOK
  <2>1. SessionOf[q] \in AllLanes /\ GlobalOf[q] \in AllLanes
    BY LanesOfRuns
  <2>2. /\ w.outerGen[q] <= w.lanes[SessionOf[q]].generation
        /\ w.innerGen[q] <= w.lanes[GlobalOf[q]].generation
    BY DEF Placed, StartsOK
  <2> QED BY <2>1, <2>2, <1>2, <1>9, <1>10, <1>11 DEF lane
<1>15. OuterAlone(v)
  <2>1. \A q \in Runs : ~(SessionOf[q] = s /\ w.phase[q] \in Outer /\ w.outerGen[q] = lane.generation)
    BY <1>1, <1>2 DEF SessionOK, lane
  <2>2. OuterAlone(w)
    BY DEF Placed
  <2> QED BY <2>1, <2>2, <1>2, <1>9 DEF OuterAlone
<1>16. x = "innerRefused" \/ ~w.draining => Tame(w, v)
  BY <1>8, <1>9, <1>11 DEF Tame, Busy
<1> QED BY <1>8, <1>11, <1>12, <1>13, <1>14, <1>15, <1>16
           DEF Placed, AllSaturated, SaturatedBut, g, r, lane

(* drainLane of a session lane, with the run that enters its shared lane.    *)
LEMMA PumpSessionKeeps ==
  ASSUME NEW w, Placed(w), NEW s \in Sessions, SaturatedBut(w, s)
  PROVE  LET v == PumpSession(w, s)
         IN  Placed(v) /\ AllSaturated(v) /\ Tame(w, v)
<1> DEFINE lane == w.lanes[s]
           r == Head(lane.queue)
           g == GlobalOf[r]
           v == PumpSession(w, s)
<1>1. /\ s \in AllLanes /\ lane \in LaneType(Runs) /\ EachOnce(lane) /\ w \in Worlds
  BY WorldFields DEF Placed, AllLanes
<1>2. CASE PumpStarted(lane) = {}
  <2>1. v = w
    BY <1>2 DEF PumpSession
  <2>2. Saturated(lane)
    <3>1. Pump(lane).queue = lane.queue /\ Pump(lane).active = lane.active
          /\ Pump(lane).maxConcurrent = lane.maxConcurrent
      <4>1. PumpCount(lane) = 0
        <5>1. PumpCount(lane) \in 0..Len(lane.queue) /\ Len(lane.queue) \in Nat
          BY <1>1, PumpCountFacts, RunsAreFinite
        <5>2. PumpCount(lane) # 0 => 1 \in 1..PumpCount(lane)
          BY <5>1
        <5> QED BY <5>2, <1>2 DEF PumpStarted
      <4>2. lane.queue \in Seq(Runs)
        BY <1>1, LaneFields
      <4>3. /\ Pump(lane).queue \in Seq(Runs) /\ Len(Pump(lane).queue) = Len(lane.queue)
            /\ \A i \in 1..Len(lane.queue) : Pump(lane).queue[i] = lane.queue[i]
        <5>1. /\ Pump(lane).queue \in Seq(Runs)
              /\ Len(Pump(lane).queue) = Len(lane.queue) - 0
              /\ \A i \in 1..Len(Pump(lane).queue) : Pump(lane).queue[i] = lane.queue[i + 0]
          BY <1>1, <4>1, PumpQueue, RunsAreFinite
        <5>2. Len(lane.queue) \in Nat
          BY <4>2
        <5> HIDE DEF lane
        <5> QED BY <5>1, <5>2
      <4>4. Pump(lane).queue = lane.queue
        BY <4>2, <4>3, SeqEqual
      <4> QED BY <4>4, <1>1, <1>2, PumpMoves, RunsAreFinite
    <3>2. Saturated(Pump(lane))
      BY <1>1, PumpSaturates, RunsAreFinite
    <3> QED BY <3>1, <3>2 DEF Saturated
  <2>3. AllSaturated(w) /\ Tame(w, w)
    BY <2>2 DEF AllSaturated, SaturatedBut, Tame
  <2> QED BY <2>1, <2>3
<1>3. CASE PumpStarted(lane) # {}
  <2>1. r \in Runs
    BY <1>3, SessionStarts
  <2>2. g \in Globals /\ g \in AllLanes /\ g # s
    BY <2>1, SessionStarts, LanesOfRuns, <1>3
  <2> DEFINE u == [w EXCEPT !.lanes[s] = Pump(@), !.outerGen[r] = lane.generation]
             refused == [u EXCEPT !.phase[r] = "innerRefused"]
             pushed == [u EXCEPT !.lanes[g] = Push(@, r), !.phase[r] = "globalQueued"]
  <2>3. v = IF u.draining THEN refused ELSE PumpGlobal(pushed, g)
    BY <1>3 DEF PumpSession, EnqueueGlobal
  <2>4. /\ u.lanes = [w.lanes EXCEPT ![s] = Pump(lane)]
        /\ u.outerGen = [w.outerGen EXCEPT ![r] = lane.generation]
        /\ u.draining = w.draining /\ u.phase = w.phase /\ u.innerGen = w.innerGen
        /\ u \in Worlds
    <3>1. Pump(lane) \in LaneType(Runs) /\ lane.generation \in Nat
      BY <1>1, PumpMoves, RunsAreFinite, LaneFields
    <3> DEFINE L == [w.lanes EXCEPT ![s] = Pump(lane)]
               O == [w.outerGen EXCEPT ![r] = lane.generation]
    <3>2. L \in [AllLanes -> LaneType(Runs)] /\ O \in [Runs -> Nat]
      BY <1>1, <2>1, <3>1, WorldFields
    <3> DEFINE u1 == [w EXCEPT !.lanes = L]
    <3>3. u = [u1 EXCEPT !.outerGen = O]
      BY <1>1 DEF Worlds
    <3> HIDE DEF L, O, u, u1
    <3>4. /\ u1.lanes = L /\ u1.draining = w.draining
          /\ u1.phase = w.phase /\ u1.outerGen = w.outerGen /\ u1.innerGen = w.innerGen
          /\ u1 \in Worlds
      BY <1>1, <3>2, LanesChanged DEF u1
    <3>5. /\ u.lanes = u1.lanes /\ u.draining = u1.draining
          /\ u.phase = u1.phase /\ u.outerGen = O /\ u.innerGen = u1.innerGen
          /\ u \in Worlds
      BY <3>2, <3>3, <3>4, OuterChanged
    <3> QED BY <3>4, <3>5 DEF L, O
  <2> HIDE DEF u
  <2>5. Begun(w, s, refused, "innerRefused")
    <3> DEFINE P == [u.phase EXCEPT ![r] = "innerRefused"]
    <3>1. P \in [Runs -> Phases]
      BY <2>1, <2>4, WorldFields DEF Phases
    <3>2. refused = [u EXCEPT !.phase = P]
      OBVIOUS
    <3> HIDE DEF P, refused
    <3>3. /\ refused.lanes = u.lanes /\ refused.draining = u.draining /\ refused.phase = P
          /\ refused.outerGen = u.outerGen /\ refused.innerGen = u.innerGen /\ refused \in Worlds
      BY <2>4, <3>1, <3>2, PhaseChanged
    <3>4. u.lanes = [l \in AllLanes |->
             IF l = s THEN Pump(lane)
             ELSE IF l = g /\ "innerRefused" = "globalQueued" THEN Push(w.lanes[l], r)
             ELSE w.lanes[l]]
      BY <2>4, <1>1, WorldFields
    <3> QED BY <2>4, <3>3, <3>4 DEF Begun, P
  <2>6. Begun(w, s, pushed, "globalQueued")
    <3> DEFINE P == [u.phase EXCEPT ![r] = "globalQueued"]
               L == [u.lanes EXCEPT ![g] = Push(u.lanes[g], r)]
    <3>1. Push(u.lanes[g], r) \in LaneType(Runs)
      <4>1. u.lanes[g] = w.lanes[g] /\ w.lanes[g] \in LaneType(Runs) /\ EachOnce(w.lanes[g])
        BY <1>1, <2>2, <2>4, WorldFields DEF Placed
      <4>2. GlobalOK(w, g) /\ w.phase[r] = "sessionQueued"
        BY <2>2, <1>3, SessionStarts DEF Placed
      <4>3. r \notin Entries(w.lanes[g]) /\ r \notin w.lanes[g].active
        BY <4>2 DEF GlobalOK
      <4> QED BY <2>1, <4>1, <4>3, PushFacts
    <3>2. P \in [Runs -> Phases] /\ L \in [AllLanes -> LaneType(Runs)]
      BY <2>1, <2>2, <2>4, <3>1, WorldFields DEF Phases
    <3> DEFINE u1 == [u EXCEPT !.lanes = L]
    <3>3. pushed = [u1 EXCEPT !.phase = P]
      BY <2>4 DEF Worlds
    <3> HIDE DEF P, L, pushed, u1
    <3>6. /\ u1.lanes = L /\ u1.draining = u.draining
          /\ u1.phase = u.phase /\ u1.outerGen = u.outerGen /\ u1.innerGen = u.innerGen
          /\ u1 \in Worlds
      BY <2>4, <3>2, LanesChanged DEF u1
    <3>4. /\ pushed.lanes = L /\ pushed.draining = u.draining /\ pushed.phase = P
          /\ pushed.outerGen = u.outerGen /\ pushed.innerGen = u.innerGen /\ pushed \in Worlds
      BY <3>2, <3>3, <3>6, PhaseChanged
    <3>5. L = [l \in AllLanes |->
             IF l = s THEN Pump(lane)
             ELSE IF l = g /\ "globalQueued" = "globalQueued" THEN Push(w.lanes[l], r)
             ELSE w.lanes[l]]
      BY <2>2, <2>4, <1>1, WorldFields DEF L
    <3> QED BY <2>4, <3>4, <3>5 DEF Begun, P
  <2> HIDE DEF refused, pushed
  <2>7. CASE w.draining
    <3>1. v = refused
      BY <2>3, <2>4, <2>7
    <3> QED BY <3>1, <2>5, <1>3, BegunKeeps
  <2>8. CASE ~w.draining
    <3>1. v = PumpGlobal(pushed, g)
      BY <2>3, <2>4, <2>8
    <3>2. Placed(pushed) /\ SaturatedBut(pushed, g) /\ Tame(w, pushed)
      BY <2>6, <2>8, <1>3, BegunKeeps
    <3>3. Placed(v) /\ AllSaturated(v) /\ Tame(pushed, v)
      BY <2>2, <3>1, <3>2, PumpGlobalKeeps
    <3> QED BY <3>2, <3>3, TameTransitive
  <2> QED BY <2>7, <2>8
<1> QED BY <1>2, <1>3

(* A step that changes one lane and the phases of runs, none of which takes  *)
(* a slot of its session by it.                                              *)
LEMMA OneLane ==
  ASSUME NEW w, Placed(w), NEW v \in Worlds, NEW l \in AllLanes, NEW lane \in LaneType(Runs),
         v.lanes = [w.lanes EXCEPT ![l] = lane],
         v.draining = w.draining, v.outerGen = w.outerGen, v.innerGen = w.innerGen,
         EachOnce(lane), lane.generation = w.lanes[l].generation,
         \A r \in Runs : v.phase[r] \in Outer => w.phase[r] \in Outer,
         \A r \in Runs : v.phase[r] \in Busy => w.phase[r] \in Busy,
         l \in Sessions => SessionOK(v, l),
         l \in Globals => GlobalOK(v, l),
         \A r \in Runs : SessionOf[r] # l =>
           /\ v.phase[r] = "sessionQueued" <=> w.phase[r] = "sessionQueued"
           /\ v.phase[r] \in Outer <=> w.phase[r] \in Outer,
         \A r \in Runs : GlobalOf[r] # l =>
           /\ v.phase[r] = "globalQueued" <=> w.phase[r] = "globalQueued"
           /\ v.phase[r] = "executing" <=> w.phase[r] = "executing"
  PROVE  /\ Placed(v) /\ Tame(w, v)
         /\ AllSaturated(w) => SaturatedBut(v, l)
<1>1. w \in Worlds /\ w.lanes \in [AllLanes -> LaneType(Runs)]
  BY WorldFields DEF Placed
<1>2. \A k \in AllLanes : v.lanes[k] = IF k = l THEN lane ELSE w.lanes[k]
  BY <1>1
<1>3. \A k \in AllLanes : EachOnce(v.lanes[k]) /\ v.lanes[k].generation = w.lanes[k].generation
  BY <1>2 DEF Placed
<1>4. ASSUME NEW s \in Sessions PROVE SessionOK(v, s)
  <2>1. CASE s # l
    <3>1. SessionOK(w, s) /\ v.lanes[s] = w.lanes[s]
      BY <1>2, <2>1 DEF Placed, AllLanes
    <3> QED BY <2>1, <3>1 DEF SessionOK
  <2> QED BY <2>1
<1>5. ASSUME NEW g \in Globals PROVE GlobalOK(v, g)
  <2>1. CASE g # l
    <3>1. GlobalOK(w, g) /\ v.lanes[g] = w.lanes[g]
      BY <1>2, <2>1 DEF Placed, AllLanes
    <3> QED BY <2>1, <3>1 DEF GlobalOK
  <2> QED BY <2>1
<1>6. StartsOK(v)
  BY <1>3, LanesOfRuns DEF Placed, StartsOK
<1>7. OuterAlone(v)
  BY DEF Placed, OuterAlone
<1>8. Tame(w, v)
  BY <1>3 DEF Tame
<1>9. AllSaturated(w) => SaturatedBut(v, l)
  BY <1>2 DEF AllSaturated, SaturatedBut
<1> QED BY <1>3, <1>4, <1>5, <1>6, <1>7, <1>8, <1>9 DEF Placed

(* What a change of one lane and of the phases leaves. *)
LEMMA LaneAndPhaseChanged ==
  ASSUME NEW w \in Worlds, NEW l \in AllLanes, NEW lane \in LaneType(Runs),
         NEW P \in [Runs -> Phases]
  PROVE  LET v == [w EXCEPT !.lanes = [w.lanes EXCEPT ![l] = lane], !.phase = P]
         IN  /\ v.lanes = [w.lanes EXCEPT ![l] = lane] /\ v.draining = w.draining
             /\ v.phase = P /\ v.outerGen = w.outerGen /\ v.innerGen = w.innerGen
             /\ v \in Worlds
<1> DEFINE L == [w.lanes EXCEPT ![l] = lane]
           v == [w EXCEPT !.lanes = [w.lanes EXCEPT ![l] = lane], !.phase = P]
           u == [w EXCEPT !.lanes = L]
<1>1. L \in [AllLanes -> LaneType(Runs)]
  BY WorldFields
<1>2. v = [u EXCEPT !.phase = P]
  BY DEF Worlds
<1> HIDE DEF L, u, v
<1>3. /\ u.lanes = L /\ u.draining = w.draining
      /\ u.phase = w.phase /\ u.outerGen = w.outerGen /\ u.innerGen = w.innerGen
      /\ u \in Worlds
  BY <1>1, LanesChanged DEF u
<1>4. /\ v.lanes = u.lanes /\ v.draining = u.draining
      /\ v.phase = P /\ v.outerGen = u.outerGen /\ v.innerGen = u.innerGen
      /\ v \in Worlds
  BY <1>2, <1>3, PhaseChanged
<1> QED BY <1>3, <1>4 DEF L, v

(* The push of runEmbeddedPiAgent. *)
LEMMA PushedKeeps ==
  ASSUME NEW w, Placed(w), AllSaturated(w), NEW r \in Runs, w.phase[r] = "unused"
  PROVE  LET s == SessionOf[r]
             v == [w EXCEPT !.lanes[s] = Push(@, r), !.phase[r] = "sessionQueued"]
         IN  Placed(v) /\ Tame(w, v) /\ SaturatedBut(v, s)
<1> DEFINE s == SessionOf[r]
           lane == Push(w.lanes[s], r)
           P == [w.phase EXCEPT ![r] = "sessionQueued"]
           v == [w EXCEPT !.lanes[s] = Push(@, r), !.phase[r] = "sessionQueued"]
<1>1. w \in Worlds /\ s \in Sessions /\ s \in AllLanes /\ s \notin Globals
  BY LanesOfRuns DEF Placed
<1>2. SessionOK(w, s) /\ w.lanes[s] \in LaneType(Runs) /\ EachOnce(w.lanes[s])
  BY <1>1, WorldFields DEF Placed
<1>3. r \notin Entries(w.lanes[s]) /\ r \notin w.lanes[s].active
  BY <1>2 DEF SessionOK, Outer
<1>4. /\ lane \in LaneType(Runs) /\ EachOnce(lane)
      /\ Entries(lane) = Entries(w.lanes[s]) \cup {r}
      /\ lane.active = w.lanes[s].active
      /\ lane.generation = w.lanes[s].generation
      /\ lane.maxConcurrent = w.lanes[s].maxConcurrent
  <2> HIDE DEF s
  <2> QED BY <1>2, <1>3, PushFacts
<1>5. P \in [Runs -> Phases]
  BY <1>1, WorldFields DEF Phases
<1>6. v = [w EXCEPT !.lanes = [w.lanes EXCEPT ![s] = lane], !.phase = P]
  OBVIOUS
<1> HIDE DEF s, lane, P, v
<1>7. /\ v.lanes = [w.lanes EXCEPT ![s] = lane] /\ v.draining = w.draining
      /\ v.phase = P /\ v.outerGen = w.outerGen /\ v.innerGen = w.innerGen
      /\ v \in Worlds
  <2> DEFINE u == [w EXCEPT !.lanes = [w.lanes EXCEPT ![s] = lane], !.phase = P]
  <2>1. /\ u.lanes = [w.lanes EXCEPT ![s] = lane] /\ u.draining = w.draining
        /\ u.phase = P /\ u.outerGen = w.outerGen /\ u.innerGen = w.innerGen
        /\ u \in Worlds
    BY <1>1, <1>4, <1>5, LaneAndPhaseChanged, Zenon
  <2>2. v = u
    BY <1>6, Zenon
  <2> HIDE DEF u
  <2> QED BY <2>1, <2>2
<1>8. \A q \in Runs : v.phase[q] = IF q = r THEN "sessionQueued" ELSE w.phase[q]
  BY <1>1, <1>7, WorldFields DEF P
<1>9. v.lanes[s] = lane
  BY <1>1, <1>7, WorldFields
<1>10. SessionOK(v, s)
  <2>1. Entries(lane) = {q \in Runs : SessionOf[q] = s /\ v.phase[q] = "sessionQueued"}
    BY <1>2, <1>4, <1>8 DEF SessionOK, s
  <2>2. lane.active = {q \in Runs : /\ SessionOf[q] = s /\ v.phase[q] \in Outer
                                    /\ v.outerGen[q] = lane.generation}
    BY <1>2, <1>4, <1>7, <1>8 DEF SessionOK, Outer
  <2> QED BY <2>1, <2>2, <1>2, <1>4, <1>9 DEF SessionOK
<1>11. \A q \in Runs :
         /\ v.phase[q] \in Outer <=> w.phase[q] \in Outer
         /\ v.phase[q] \in Busy <=> w.phase[q] \in Busy
         /\ v.phase[q] = "globalQueued" <=> w.phase[q] = "globalQueued"
         /\ v.phase[q] = "executing" <=> w.phase[q] = "executing"
         /\ SessionOf[q] # s =>
              (v.phase[q] = "sessionQueued" <=> w.phase[q] = "sessionQueued")
  BY <1>8 DEF Outer, Busy, s
<1>12. Placed(v) /\ Tame(w, v) /\ SaturatedBut(v, s)
  BY <1>1, <1>4, <1>7, <1>10, <1>11, OneLane
<1> QED BY <1>12 DEF s, v

(* A call that the draining gateway refuses. *)
LEMMA RefusedKeeps ==
  ASSUME NEW w, Placed(w), AllSaturated(w), NEW r \in Runs, w.phase[r] = "unused"
  PROVE  LET v == [w EXCEPT !.phase[r] = "refused"]
         IN  Placed(v) /\ Tame(w, v) /\ AllSaturated(v)
<1> DEFINE P == [w.phase EXCEPT ![r] = "refused"]
           v == [w EXCEPT !.phase[r] = "refused"]
           s == SessionOf[r]
<1>1. w \in Worlds /\ s \in Sessions /\ s \in AllLanes /\ s \notin Globals
  BY LanesOfRuns DEF Placed
<1>2. SessionOK(w, s) /\ w.lanes[s] \in LaneType(Runs) /\ EachOnce(w.lanes[s])
  BY <1>1, WorldFields DEF Placed
<1>3. P \in [Runs -> Phases]
  BY <1>1, WorldFields DEF Phases
<1>4. v = [w EXCEPT !.phase = P]
  OBVIOUS
<1> HIDE DEF P, v, s
<1>5. /\ v.lanes = w.lanes /\ v.draining = w.draining
      /\ v.phase = P /\ v.outerGen = w.outerGen /\ v.innerGen = w.innerGen
      /\ v \in Worlds
  BY <1>1, <1>3, <1>4, PhaseChanged
<1>6. v.lanes = [w.lanes EXCEPT ![s] = w.lanes[s]]
  BY <1>1, <1>5, WorldFields
<1>7. \A q \in Runs : v.phase[q] = IF q = r THEN "refused" ELSE w.phase[q]
  BY <1>1, <1>5, WorldFields DEF P
<1>8. \A q \in Runs :
         /\ v.phase[q] \in Outer <=> w.phase[q] \in Outer
         /\ v.phase[q] \in Busy <=> w.phase[q] \in Busy
         /\ v.phase[q] = "globalQueued" <=> w.phase[q] = "globalQueued"
         /\ v.phase[q] = "executing" <=> w.phase[q] = "executing"
         /\ v.phase[q] = "sessionQueued" <=> w.phase[q] = "sessionQueued"
  BY <1>7 DEF Outer, Busy
<1>9. SessionOK(v, s)
  BY <1>2, <1>5, <1>8 DEF SessionOK
<1>10. Placed(v) /\ Tame(w, v)
  BY <1>1, <1>2, <1>5, <1>6, <1>8, <1>9, OneLane
<1>11. AllSaturated(v)
  BY <1>5 DEF AllSaturated
<1> QED BY <1>10, <1>11 DEF v

(* A turn ends: its shared slot is freed, unless a restart came in between.  *)
LEMMA TurnEnds ==
  ASSUME NEW w, Placed(w), NEW r \in Runs, w.phase[r] = "executing"
  PROVE  LET g == GlobalOf[r]
             over == [w EXCEPT !.phase[r] = "innerSettled"]
             freed == [over EXCEPT !.lanes[g] = Complete(@, r)]
         IN  /\ Completes(w.lanes[g], r, w.innerGen[r]) =>
                  /\ Placed(freed) /\ Tame(w, freed)
                  /\ AllSaturated(w) => SaturatedBut(freed, g)
             /\ ~Completes(w.lanes[g], r, w.innerGen[r]) =>
                  /\ Placed(over) /\ Tame(w, over)
                  /\ AllSaturated(w) => AllSaturated(over)
<1> DEFINE g == GlobalOf[r]
           lane == w.lanes[g]
           P == [w.phase EXCEPT ![r] = "innerSettled"]
           over == [w EXCEPT !.phase[r] = "innerSettled"]
           freed == [over EXCEPT !.lanes[g] = Complete(@, r)]
<1>1. w \in Worlds /\ g \in Globals /\ g \in AllLanes /\ g \notin Sessions
  BY LanesOfRuns DEF Placed
<1>2. GlobalOK(w, g) /\ lane \in LaneType(Runs) /\ EachOnce(lane)
  BY <1>1, WorldFields DEF Placed
<1>3. P \in [Runs -> Phases]
  BY <1>1, WorldFields DEF Phases
<1>4. over = [w EXCEPT !.phase = P]
  OBVIOUS
<1>5. /\ Complete(lane, r) \in LaneType(Runs) /\ EachOnce(Complete(lane, r))
      /\ Entries(Complete(lane, r)) = Entries(lane)
      /\ Complete(lane, r).active = lane.active \ {r}
      /\ Complete(lane, r).generation = lane.generation
  BY <1>2, CompleteFacts
<1>6. freed = [over EXCEPT !.lanes = [over.lanes EXCEPT ![g] = Complete(over.lanes[g], r)]]
  OBVIOUS
<1> HIDE DEF P, over, freed, g, lane
<1>7. /\ over.lanes = w.lanes /\ over.draining = w.draining
      /\ over.phase = P /\ over.outerGen = w.outerGen /\ over.innerGen = w.innerGen
      /\ over \in Worlds
  BY <1>1, <1>3, <1>4, PhaseChanged
<1>8. /\ freed.lanes = [w.lanes EXCEPT ![g] = Complete(lane, r)]
      /\ freed.draining = w.draining /\ freed.phase = P
      /\ freed.outerGen = w.outerGen /\ freed.innerGen = w.innerGen
      /\ freed \in Worlds
  <2> DEFINE L == [w.lanes EXCEPT ![g] = Complete(lane, r)]
  <2>1. L \in [AllLanes -> LaneType(Runs)]
    BY <1>1, <1>5, WorldFields
  <2>2. freed = [over EXCEPT !.lanes = L]
    BY <1>6, <1>7 DEF lane
  <2> HIDE DEF L
  <2>3. /\ freed.lanes = L /\ freed.draining = over.draining /\ freed.phase = over.phase
        /\ freed.outerGen = over.outerGen /\ freed.innerGen = over.innerGen
        /\ freed \in Worlds
    BY <1>7, <2>1, <2>2, LanesChanged
  <2> QED BY <1>7, <2>3 DEF L
<1>9. \A q \in Runs : P[q] = IF q = r THEN "innerSettled" ELSE w.phase[q]
  BY <1>1, WorldFields DEF P
<1>10. \A q \in Runs :
         /\ P[q] \in Outer <=> w.phase[q] \in Outer
         /\ P[q] \in Busy => w.phase[q] \in Busy
         /\ P[q] = "globalQueued" <=> w.phase[q] = "globalQueued"
         /\ P[q] = "sessionQueued" <=> w.phase[q] = "sessionQueued"
         /\ GlobalOf[q] # g => (P[q] = "executing" <=> w.phase[q] = "executing")
  BY <1>9 DEF Outer, Busy, g
<1>11. ASSUME Completes(w.lanes[g], r, w.innerGen[r])
       PROVE  /\ Placed(freed) /\ Tame(w, freed)
              /\ AllSaturated(w) => SaturatedBut(freed, g)
  <2>1. freed.lanes[g] = Complete(lane, r)
    BY <1>1, <1>8, WorldFields
  <2>2. GlobalOK(freed, g)
    <3>1. Entries(lane) = {q \in Runs : GlobalOf[q] = g /\ P[q] = "globalQueued"}
      BY <1>2, <1>10 DEF GlobalOK, lane
    <3>2. lane.active \ {r} = {q \in Runs : /\ GlobalOf[q] = g /\ P[q] = "executing"
                                            /\ w.innerGen[q] = lane.generation}
      BY <1>2, <1>9 DEF GlobalOK, lane
    <3> QED BY <1>5, <1>8, <2>1, <3>1, <3>2 DEF GlobalOK
  <2> QED BY <1>1, <1>5, <1>8, <1>10, <2>2, OneLane DEF lane
<1>12. ASSUME ~Completes(w.lanes[g], r, w.innerGen[r])
       PROVE  /\ Placed(over) /\ Tame(w, over)
              /\ AllSaturated(w) => AllSaturated(over)
  <2>1. over.lanes = [w.lanes EXCEPT ![g] = lane]
    BY <1>1, <1>7, WorldFields DEF lane
  <2>2. w.innerGen[r] # lane.generation
    BY <1>12 DEF Completes, lane
  <2>3. GlobalOK(over, g)
    <3>1. Entries(lane) = {q \in Runs : GlobalOf[q] = g /\ P[q] = "globalQueued"}
      BY <1>2, <1>10 DEF GlobalOK, lane
    <3>2. lane.active = {q \in Runs : /\ GlobalOf[q] = g /\ P[q] = "executing"
                                      /\ w.innerGen[q] = lane.generation}
      BY <1>2, <1>9, <2>2 DEF GlobalOK, lane
    <3> QED BY <1>7, <3>1, <3>2 DEF GlobalOK, lane
  <2>4. Placed(over) /\ Tame(w, over)
    BY <1>1, <1>2, <1>7, <1>10, <2>1, <2>3, OneLane DEF lane
  <2> QED BY <1>7, <2>4 DEF AllSaturated
<1> QED BY <1>11, <1>12 DEF g, over, freed

(* An outer task ends: its session's slot is freed, unless a restart came in *)
(* between.                                                                  *)
LEMMA OuterEnds ==
  ASSUME NEW w, Placed(w), NEW r \in Runs, w.phase[r] \in {"innerSettled", "innerRefused"}
  PROVE  LET s == SessionOf[r]
             over == [w EXCEPT !.phase[r] =
                        IF @ = "innerSettled" THEN "settled" ELSE "failed"]
             freed == [over EXCEPT !.lanes[s] = Complete(@, r)]
         IN  /\ Completes(w.lanes[s], r, w.outerGen[r]) =>
                  /\ Placed(freed) /\ Tame(w, freed)
                  /\ AllSaturated(w) => SaturatedBut(freed, s)
             /\ ~Completes(w.lanes[s], r, w.outerGen[r]) =>
                  /\ Placed(over) /\ Tame(w, over)
                  /\ AllSaturated(w) => AllSaturated(over)
<1> DEFINE s == SessionOf[r]
           lane == w.lanes[s]
           x == IF w.phase[r] = "innerSettled" THEN "settled" ELSE "failed"
           P == [w.phase EXCEPT ![r] = x]
           over == [w EXCEPT !.phase[r] =
                      IF @ = "innerSettled" THEN "settled" ELSE "failed"]
           freed == [over EXCEPT !.lanes[s] = Complete(@, r)]
<1>1. w \in Worlds /\ s \in Sessions /\ s \in AllLanes /\ s \notin Globals
  BY LanesOfRuns DEF Placed
<1>2. SessionOK(w, s) /\ lane \in LaneType(Runs) /\ EachOnce(lane)
  BY <1>1, WorldFields DEF Placed
<1>3. P \in [Runs -> Phases]
  BY <1>1, WorldFields DEF Phases
<1>4. over = [w EXCEPT !.phase = P]
  OBVIOUS
<1>5. /\ Complete(lane, r) \in LaneType(Runs) /\ EachOnce(Complete(lane, r))
      /\ Entries(Complete(lane, r)) = Entries(lane)
      /\ Complete(lane, r).active = lane.active \ {r}
      /\ Complete(lane, r).generation = lane.generation
      /\ Complete(lane, r).maxConcurrent = lane.maxConcurrent
  BY <1>2, CompleteFacts
<1>6. freed = [over EXCEPT !.lanes = [over.lanes EXCEPT ![s] = Complete(over.lanes[s], r)]]
  OBVIOUS
<1>13. x \in {"settled", "failed"}
  OBVIOUS
<1> HIDE DEF x, P, over, freed, s, lane
<1>7. /\ over.lanes = w.lanes /\ over.draining = w.draining
      /\ over.phase = P /\ over.outerGen = w.outerGen /\ over.innerGen = w.innerGen
      /\ over \in Worlds
  BY <1>1, <1>3, <1>4, PhaseChanged
<1>8. /\ freed.lanes = [w.lanes EXCEPT ![s] = Complete(lane, r)]
      /\ freed.draining = w.draining /\ freed.phase = P
      /\ freed.outerGen = w.outerGen /\ freed.innerGen = w.innerGen
      /\ freed \in Worlds
  <2> DEFINE L == [w.lanes EXCEPT ![s] = Complete(lane, r)]
  <2>1. L \in [AllLanes -> LaneType(Runs)]
    BY <1>1, <1>5, WorldFields
  <2>2. freed = [over EXCEPT !.lanes = L]
    BY <1>6, <1>7 DEF lane
  <2> HIDE DEF L
  <2>3. /\ freed.lanes = L /\ freed.draining = over.draining /\ freed.phase = over.phase
        /\ freed.outerGen = over.outerGen /\ freed.innerGen = over.innerGen
        /\ freed \in Worlds
    BY <1>7, <2>1, <2>2, LanesChanged
  <2> QED BY <1>7, <2>3 DEF L
<1>9. \A q \in Runs : P[q] = IF q = r THEN x ELSE w.phase[q]
  BY <1>1, WorldFields DEF P
<1>10. \A q \in Runs :
         /\ P[q] \in Outer <=> w.phase[q] \in Outer /\ q # r
         /\ P[q] \in Busy => w.phase[q] \in Busy
         /\ P[q] = "globalQueued" <=> w.phase[q] = "globalQueued"
         /\ P[q] = "sessionQueued" <=> w.phase[q] = "sessionQueued"
         /\ P[q] = "executing" <=> w.phase[q] = "executing"
         /\ SessionOf[q] # s => (P[q] \in Outer <=> w.phase[q] \in Outer)
  BY <1>9, <1>13 DEF Outer, Busy, s
<1>11. ASSUME Completes(w.lanes[s], r, w.outerGen[r])
       PROVE  /\ Placed(freed) /\ Tame(w, freed)
              /\ AllSaturated(w) => SaturatedBut(freed, s)
  <2>1. freed.lanes[s] = Complete(lane, r)
    BY <1>1, <1>8, WorldFields
  <2>2. SessionOK(freed, s)
    <3>1. Entries(lane) = {q \in Runs : SessionOf[q] = s /\ P[q] = "sessionQueued"}
      BY <1>2, <1>10 DEF SessionOK, lane
    <3>2. lane.active \ {r} = {q \in Runs : /\ SessionOf[q] = s /\ P[q] \in Outer
                                            /\ w.outerGen[q] = lane.generation}
      BY <1>2, <1>10 DEF SessionOK, lane
    <3>3. lane.maxConcurrent = 1
      BY <1>2 DEF SessionOK, lane
    <3> QED BY <1>5, <1>8, <2>1, <3>1, <3>2, <3>3 DEF SessionOK
  <2> QED BY <1>1, <1>5, <1>8, <1>10, <2>2, OneLane DEF lane
<1>12. ASSUME ~Completes(w.lanes[s], r, w.outerGen[r])
       PROVE  /\ Placed(over) /\ Tame(w, over)
              /\ AllSaturated(w) => AllSaturated(over)
  <2>1. over.lanes = [w.lanes EXCEPT ![s] = lane]
    BY <1>1, <1>7, WorldFields DEF lane
  <2>2. w.outerGen[r] # lane.generation
    BY <1>12 DEF Completes, lane
  <2>3. SessionOK(over, s)
    <3>1. Entries(lane) = {q \in Runs : SessionOf[q] = s /\ P[q] = "sessionQueued"}
      BY <1>2, <1>10 DEF SessionOK, lane
    <3>2. lane.active = {q \in Runs : /\ SessionOf[q] = s /\ P[q] \in Outer
                                      /\ w.outerGen[q] = lane.generation}
      BY <1>2, <1>10, <2>2 DEF SessionOK, lane
    <3>3. lane.maxConcurrent = 1
      BY <1>2 DEF SessionOK, lane
    <3> QED BY <1>7, <3>1, <3>2, <3>3 DEF SessionOK, lane
  <2>4. Placed(over) /\ Tame(w, over)
    BY <1>1, <1>2, <1>7, <1>10, <2>1, <2>3, OneLane DEF lane
  <2> QED BY <1>7, <2>4 DEF AllSaturated
<1> QED BY <1>11, <1>12 DEF s, over, freed

(* clearCommandLane of a session. *)
LEMMA ClearedKeeps ==
  ASSUME NEW w, Placed(w), AllSaturated(w), NEW s \in Sessions
  PROVE  LET v == [w EXCEPT
                    !.lanes[s] = Emptied(@),
                    !.phase = [r \in Runs |-> IF r \in Entries(w.lanes[s]) THEN "cleared" ELSE @[r]]]
         IN  Placed(v) /\ Tame(w, v) /\ AllSaturated(v)
<1> DEFINE lane == w.lanes[s]
           P == [r \in Runs |-> IF r \in Entries(lane) THEN "cleared" ELSE w.phase[r]]
           v == [w EXCEPT
                  !.lanes[s] = Emptied(@),
                  !.phase = [r \in Runs |-> IF r \in Entries(w.lanes[s]) THEN "cleared" ELSE @[r]]]
           e == Emptied(lane)
<1>1. w \in Worlds /\ s \in AllLanes /\ s \notin Globals
  BY LanesAssumption DEF Placed, AllLanes
<1>2. SessionOK(w, s) /\ lane \in LaneType(Runs)
  BY <1>1, WorldFields DEF Placed
<1>3. P \in [Runs -> Phases]
  BY <1>1, WorldFields DEF Phases
<1>4. /\ e \in LaneType(Runs) /\ Entries(e) = {} /\ EachOnce(e) /\ Saturated(e)
      /\ e.active = lane.active /\ e.generation = lane.generation
      /\ e.maxConcurrent = lane.maxConcurrent
  BY <1>2, EmptiedFacts
<1>5. v = [w EXCEPT !.lanes = [w.lanes EXCEPT ![s] = e], !.phase = P]
  BY Zenon
<1>6. \A q \in Runs : P[q] = IF q \in Entries(lane) THEN "cleared" ELSE w.phase[q]
  OBVIOUS
<1>7. \A q \in Runs : q \in Entries(lane) <=> SessionOf[q] = s /\ w.phase[q] = "sessionQueued"
  BY <1>2 DEF SessionOK
<1> HIDE DEF v, P, e, lane
<1>8. /\ v.lanes = [w.lanes EXCEPT ![s] = e] /\ v.draining = w.draining
      /\ v.phase = P /\ v.outerGen = w.outerGen /\ v.innerGen = w.innerGen
      /\ v \in Worlds
  <2> DEFINE u == [w EXCEPT !.lanes = [w.lanes EXCEPT ![s] = e], !.phase = P]
  <2>1. /\ u.lanes = [w.lanes EXCEPT ![s] = e] /\ u.draining = w.draining
        /\ u.phase = P /\ u.outerGen = w.outerGen /\ u.innerGen = w.innerGen
        /\ u \in Worlds
    BY <1>1, <1>3, <1>4, LaneAndPhaseChanged, Zenon
  <2>2. v = u
    BY <1>5, Zenon
  <2> HIDE DEF u
  <2> QED BY <2>1, <2>2
<1>9. v.lanes[s] = e
  BY <1>1, <1>8, WorldFields
<1>10. \A q \in Runs :
         /\ P[q] \in Outer <=> w.phase[q] \in Outer
         /\ P[q] \in Busy <=> w.phase[q] \in Busy
         /\ P[q] = "globalQueued" <=> w.phase[q] = "globalQueued"
         /\ P[q] = "executing" <=> w.phase[q] = "executing"
         /\ SessionOf[q] # s => (P[q] = "sessionQueued" <=> w.phase[q] = "sessionQueued")
         /\ SessionOf[q] = s => P[q] # "sessionQueued"
  BY <1>6, <1>7 DEF Outer, Busy
<1>11. SessionOK(v, s)
  BY <1>2, <1>4, <1>8, <1>9, <1>10 DEF SessionOK, lane
<1>12. Placed(v) /\ Tame(w, v) /\ SaturatedBut(v, s)
  BY <1>1, <1>4, <1>8, <1>10, <1>11, OneLane DEF lane
<1>13. AllSaturated(v)
  BY <1>4, <1>9, <1>12 DEF AllSaturated, SaturatedBut
<1> QED BY <1>12, <1>13 DEF v

(* setCommandLaneConcurrency of a shared lane, before its pump. *)
LEMMA LimitKeeps ==
  ASSUME NEW w, Placed(w), AllSaturated(w), NEW g \in Globals, NEW n \in Int
  PROVE  LET v == [w EXCEPT !.lanes[g] = SetMax(@, n)]
         IN  Placed(v) /\ Tame(w, v) /\ SaturatedBut(v, g)
<1> DEFINE lane == SetMax(w.lanes[g], n)
           v == [w EXCEPT !.lanes[g] = SetMax(@, n)]
           L == [w.lanes EXCEPT ![g] = lane]
<1>1. w \in Worlds /\ g \in AllLanes /\ g \notin Sessions
  BY LanesAssumption DEF Placed, AllLanes
<1>2. GlobalOK(w, g) /\ w.lanes[g] \in LaneType(Runs) /\ EachOnce(w.lanes[g])
  BY <1>1, WorldFields DEF Placed
<1>3. /\ lane \in LaneType(Runs) /\ EachOnce(lane)
      /\ Entries(lane) = Entries(w.lanes[g]) /\ lane.active = w.lanes[g].active
      /\ lane.generation = w.lanes[g].generation
  BY <1>2, SetMaxFacts
<1>4. v = [w EXCEPT !.lanes = L]
  OBVIOUS
<1>5. L \in [AllLanes -> LaneType(Runs)]
  BY <1>1, <1>3, WorldFields
<1> HIDE DEF lane, v, L
<1>6. /\ v.lanes = L /\ v.draining = w.draining
      /\ v.phase = w.phase /\ v.outerGen = w.outerGen /\ v.innerGen = w.innerGen
      /\ v \in Worlds
  BY <1>1, <1>4, <1>5, LanesChanged
<1>7. v.lanes[g] = lane
  BY <1>1, <1>6, WorldFields DEF L
<1>8. GlobalOK(v, g)
  BY <1>2, <1>3, <1>6, <1>7 DEF GlobalOK
<1>9. Placed(v) /\ Tame(w, v) /\ SaturatedBut(v, g)
  BY <1>1, <1>3, <1>6, <1>8, OneLane DEF L
<1> QED BY <1>9 DEF v

(* The world is the variables, now and after a step. *)
LEMMA WorldIs ==
  /\ World.lanes = lanes /\ World.draining = gatewayDraining /\ World.phase = phase
  /\ World.outerGen = outerGen /\ World.innerGen = innerGen
BY DEF World

LEMMA NextWorldIs ==
  /\ World'.lanes = lanes' /\ World'.draining = gatewayDraining' /\ World'.phase = phase'
  /\ World'.outerGen = outerGen' /\ World'.innerGen = innerGen'
BY DEF World

LEMMA BecomesIs ==
  ASSUME NEW v \in Worlds, Becomes(v)
  PROVE  World' = v
<1>1. v = [lanes |-> v.lanes, draining |-> v.draining, phase |-> v.phase,
           outerGen |-> v.outerGen, innerGen |-> v.innerGen]
  BY DEF Worlds
<1> QED BY <1>1 DEF Becomes, World

(* Every step of the runs keeps them in their places and is tame. *)
LEMMA RunNextKeeps ==
  ASSUME Placed(World), AllSaturated(World), RunNext
  PROVE  Placed(World)' /\ AllSaturated(World)' /\ Tame(World, World')
<1>1. ASSUME NEW v, Becomes(v), Placed(v), AllSaturated(v), Tame(World, v)
      PROVE  Placed(World)' /\ AllSaturated(World)' /\ Tame(World, World')
  <2>1. World' = v
    BY <1>1, BecomesIs DEF Placed
  <2>2. Placed(World') /\ AllSaturated(World') /\ Tame(World, World')
    BY <1>1, <2>1
  <2> QED BY <2>2
<1> DEFINE w == World
<1>2. /\ w.lanes = lanes /\ w.draining = gatewayDraining /\ w.phase = phase
      /\ w.outerGen = outerGen /\ w.innerGen = innerGen
  BY WorldIs
<1>3. Placed(w) /\ AllSaturated(w)
  OBVIOUS
<1>4. ASSUME NEW r \in Runs, Submit(r)
      PROVE  \E v : Becomes(v) /\ Placed(v) /\ AllSaturated(v) /\ Tame(w, v)
  <2> DEFINE s == SessionOf[r]
             refused == [w EXCEPT !.phase[r] = "refused"]
             pushed == [w EXCEPT !.lanes[s] = Push(@, r), !.phase[r] = "sessionQueued"]
  <2>1. /\ w.phase[r] = "unused"
        /\ Becomes(IF w.draining THEN refused ELSE PumpSession(pushed, s))
    BY <1>2, <1>4 DEF Submit
  <2>2. Placed(refused) /\ Tame(w, refused) /\ AllSaturated(refused)
    <3> HIDE DEF w
    <3> QED BY <1>3, <2>1, RefusedKeeps, Zenon
  <2>3. Placed(pushed) /\ Tame(w, pushed) /\ SaturatedBut(pushed, s)
    <3> HIDE DEF w
    <3> QED BY <1>3, <2>1, PushedKeeps, Zenon
  <2>4. s \in Sessions
    BY LanesOfRuns
  <2> HIDE DEF w, s, refused, pushed
  <2>5. /\ Placed(PumpSession(pushed, s)) /\ AllSaturated(PumpSession(pushed, s))
        /\ Tame(pushed, PumpSession(pushed, s))
    BY <2>3, <2>4, PumpSessionKeeps
  <2>6. Tame(w, PumpSession(pushed, s))
    BY <2>3, <2>5, TameTransitive
  <2> QED BY <2>1, <2>2, <2>5, <2>6
<1>5. ASSUME NEW r \in Runs, InnerSettles(r)
      PROVE  \E v : Becomes(v) /\ Placed(v) /\ AllSaturated(v) /\ Tame(w, v)
  <2> DEFINE g == GlobalOf[r]
             over == [w EXCEPT !.phase[r] = "innerSettled"]
             freed == [over EXCEPT !.lanes[g] = Complete(@, r)]
             now == Completes(w.lanes[g], r, w.innerGen[r])
  <2>1. /\ w.phase[r] = "executing"
        /\ Becomes(IF now THEN PumpGlobal(freed, g) ELSE over)
    BY <1>2, <1>5 DEF InnerSettles
  <2>2. /\ now => Placed(freed) /\ Tame(w, freed) /\ SaturatedBut(freed, g)
        /\ ~now => Placed(over) /\ Tame(w, over) /\ AllSaturated(over)
    <3> HIDE DEF w
    <3> QED BY <1>3, <2>1, TurnEnds, Zenon
  <2>3. g \in Globals
    BY LanesOfRuns
  <2> HIDE DEF w, g, over, freed, now
  <2>4. CASE now
    <3>1. /\ Placed(PumpGlobal(freed, g)) /\ AllSaturated(PumpGlobal(freed, g))
          /\ Tame(freed, PumpGlobal(freed, g))
      BY <2>2, <2>3, <2>4, PumpGlobalKeeps
    <3>2. Tame(w, PumpGlobal(freed, g))
      BY <2>2, <2>4, <3>1, TameTransitive
    <3> QED BY <2>1, <2>4, <3>1, <3>2
  <2>5. CASE ~now
    BY <2>1, <2>2, <2>5
  <2> QED BY <2>4, <2>5
<1>6. ASSUME NEW r \in Runs, OuterSettles(r)
      PROVE  \E v : Becomes(v) /\ Placed(v) /\ AllSaturated(v) /\ Tame(w, v)
  <2> DEFINE s == SessionOf[r]
             over == [w EXCEPT !.phase[r] =
                        IF @ = "innerSettled" THEN "settled" ELSE "failed"]
             freed == [over EXCEPT !.lanes[s] = Complete(@, r)]
             now == Completes(w.lanes[s], r, w.outerGen[r])
  <2>1. /\ w.phase[r] \in {"innerSettled", "innerRefused"}
        /\ Becomes(IF now THEN PumpSession(freed, s) ELSE over)
    BY <1>2, <1>6 DEF OuterSettles
  <2>2. /\ now => Placed(freed) /\ Tame(w, freed) /\ SaturatedBut(freed, s)
        /\ ~now => Placed(over) /\ Tame(w, over) /\ AllSaturated(over)
    <3> HIDE DEF w
    <3> QED BY <1>3, <2>1, OuterEnds, Zenon
  <2>3. s \in Sessions
    BY LanesOfRuns
  <2> HIDE DEF w, s, over, freed, now
  <2>4. CASE now
    <3>1. /\ Placed(PumpSession(freed, s)) /\ AllSaturated(PumpSession(freed, s))
          /\ Tame(freed, PumpSession(freed, s))
      BY <2>2, <2>3, <2>4, PumpSessionKeeps
    <3>2. Tame(w, PumpSession(freed, s))
      BY <2>2, <2>4, <3>1, TameTransitive
    <3> QED BY <2>1, <2>4, <3>1, <3>2
  <2>5. CASE ~now
    BY <2>1, <2>2, <2>5
  <2> QED BY <2>4, <2>5
<1>7. ASSUME NEW s \in Sessions, ClearSession(s)
      PROVE  \E v : Becomes(v) /\ Placed(v) /\ AllSaturated(v) /\ Tame(w, v)
  <2> DEFINE v == [w EXCEPT
                    !.lanes[s] = Emptied(@),
                    !.phase = [r \in Runs |-> IF r \in Entries(w.lanes[s]) THEN "cleared" ELSE @[r]]]
  <2>1. Becomes(v)
    BY <1>2, <1>7, Zenon DEF ClearSession
  <2>2. Placed(v) /\ Tame(w, v) /\ AllSaturated(v)
    <3> HIDE DEF w
    <3> QED BY <1>3, ClearedKeeps, Zenon
  <2> HIDE DEF v, w
  <2> QED BY <2>1, <2>2
<1>8. ASSUME NEW g \in Globals, NEW n \in Limits, SetGlobalLimit(g, n)
      PROVE  \E v : Becomes(v) /\ Placed(v) /\ AllSaturated(v) /\ Tame(w, v)
  <2> DEFINE set == [w EXCEPT !.lanes[g] = SetMax(@, n)]
  <2>1. Becomes(PumpGlobal(set, g))
    BY <1>8, Zenon DEF SetGlobalLimit
  <2>2. Placed(set) /\ Tame(w, set) /\ SaturatedBut(set, g)
    <3>1. n \in Int
      BY LimitsAssumption
    <3> HIDE DEF w
    <3> QED BY <1>3, <3>1, LimitKeeps, Zenon
  <2> HIDE DEF w, set
  <2>3. /\ Placed(PumpGlobal(set, g)) /\ AllSaturated(PumpGlobal(set, g))
        /\ Tame(set, PumpGlobal(set, g))
    BY <2>2, PumpGlobalKeeps
  <2>4. Tame(w, PumpGlobal(set, g))
    BY <2>2, <2>3, TameTransitive
  <2> QED BY <2>1, <2>3, <2>4
<1>9. \E v : Becomes(v) /\ Placed(v) /\ AllSaturated(v) /\ Tame(w, v)
  BY <1>4, <1>5, <1>6, <1>7, <1>8 DEF RunNext
<1> QED BY <1>1, <1>9

(* A lane with the limit 1 starts at most one entry. *)
LEMMA AloneStarts ==
  ASSUME NEW T, IsFiniteSet(T), NEW lane \in LaneType(T), lane.maxConcurrent = 1
  PROVE  \A q, r \in PumpStarted(lane) : q = r
<1> DEFINE n == PumpCount(lane)
<1>1. /\ Cardinality(lane.active) \in Nat /\ n \in Nat
      /\ n = 0 \/ Cardinality(lane.active) + n = 1 \/ Cardinality(lane.active) + n <= 1
  <2>1. /\ Cardinality(lane.active) \in Nat /\ n \in 0..Len(lane.queue) /\ Len(lane.queue) \in Nat
        /\ n = 0 \/ Cardinality(lane.active) + n = 1 \/ Cardinality(lane.active) + n <= 1
    BY PumpCountFacts
  <2> HIDE DEF n
  <2> QED BY <2>1
<1>2. PumpStarted(lane) = {lane.queue[i] : i \in 1..n}
  BY DEF PumpStarted
<1> HIDE DEF n
<1>3. n = 0 \/ n = 1
  BY <1>1
<1>4. \A i, j \in 1..n : i = j
  BY <1>3
<1> QED BY <1>2, <1>4

(* Sequences without repetition, the elements of one, and a lane it joins.   *)
Distinct(q) == \A i, j \in 1..Len(q) : q[i] = q[j] => i = j
Elements(q) == {q[i] : i \in 1..Len(q)}
Joined(lane, q) == [lane EXCEPT !.queue = @ \o q]

(* SetToSeqs: the sequences of a finite set's elements, each once. *)
LEMMA SetToSeqsFacts ==
  ASSUME NEW S, IsFiniteSet(S), NEW q \in SetToSeqs(S)
  PROVE  q \in Seq(S) /\ Distinct(q) /\ Elements(q) = S
<1> DEFINE D == 1..Cardinality(S)
<1>1. Cardinality(S) \in Nat
  BY FS_CardinalityType
<1>2. q \in [D -> S] /\ \A i, j \in D : i # j => q[i] # q[j]
  BY DEF SetToSeqs
<1>3. q \in Seq(S) /\ Len(q) = Cardinality(S)
  BY <1>1, <1>2
<1>4. q \in Injection(D, S)
  BY <1>2 DEF Injection, IsInjective
<1>5. IsFiniteSet(D) /\ Cardinality(D) = Cardinality(S)
  BY <1>1, FS_Interval
<1>6. q \in Surjection(D, S)
  <2> HIDE DEF D
  <2> QED BY <1>4, <1>5, FS_Injection
<1>7. \A x \in S : \E i \in D : q[i] = x
  BY <1>6 DEF Surjection
<1> QED BY <1>2, <1>3, <1>7 DEF Distinct, Elements

(* Entries that join a lane at its end, each new to it and each once.        *)
LEMMA JoinFacts ==
  ASSUME NEW T, NEW lane \in LaneType(T), EachOnce(lane),
         NEW q \in Seq(T), Distinct(q),
         Elements(q) \cap Entries(lane) = {}, Elements(q) \cap lane.active = {}
  PROVE  LET v == Joined(lane, q)
         IN  /\ v \in LaneType(T) /\ EachOnce(v)
             /\ Entries(v) = Entries(lane) \cup Elements(q)
             /\ v.active = lane.active /\ v.generation = lane.generation
             /\ v.maxConcurrent = lane.maxConcurrent
<1> DEFINE p == lane.queue
           c == p \o q
           v == Joined(lane, q)
           S == Elements(q)
<1>1. p \in Seq(T) /\ Len(p) \in Nat /\ Len(q) \in Nat
  BY LaneFields
<1>2. /\ c \in Seq(T) /\ Len(c) = Len(p) + Len(q)
      /\ \A i \in 1..Len(p) + Len(q) : c[i] = IF i <= Len(p) THEN p[i] ELSE q[i - Len(p)]
  <2> HIDE DEF p
  <2> QED BY <1>1, ConcatProperties
<1>3. /\ v.queue = c /\ v \in LaneType(T)
      /\ v.active = lane.active /\ v.generation = lane.generation
      /\ v.maxConcurrent = lane.maxConcurrent
  <2>1. ASSUME NEW Q \in Seq(T)
        PROVE  LET u == [lane EXCEPT !.queue = Q]
               IN  /\ u.queue = Q /\ u \in LaneType(T)
                   /\ u.active = lane.active /\ u.generation = lane.generation
                   /\ u.maxConcurrent = lane.maxConcurrent
    BY DEF LaneType
  <2>2. v = [lane EXCEPT !.queue = c]
    BY DEF Joined
  <2> HIDE DEF v, c
  <2> QED BY <1>2, <2>1, <2>2
<1>4. /\ \A i, j \in 1..Len(p) : p[i] = p[j] => i = j
      /\ Entries(lane) = {p[i] : i \in 1..Len(p)}
      /\ Entries(lane) \cap lane.active = {}
      /\ S \cap Entries(lane) = {} /\ S \cap lane.active = {}
      /\ S = {q[i] : i \in 1..Len(q)}
      /\ \A i, j \in 1..Len(q) : q[i] = q[j] => i = j
  BY DEF EachOnce, Entries, Elements, Distinct
<1>5. Entries(v) = {c[i] : i \in 1..Len(c)}
  BY <1>3 DEF Entries
<1> HIDE DEF p, c, v, S
<1>6. \A i \in 1..Len(p) : c[i] = p[i] /\ i \in 1..Len(c)
  BY <1>1, <1>2
<1>7. \A i \in 1..Len(q) : c[i + Len(p)] = q[i] /\ i + Len(p) \in 1..Len(c)
  BY <1>1, <1>2
<1>8. \A i \in 1..Len(c) : \/ i \in 1..Len(p) /\ c[i] = p[i]
                           \/ i - Len(p) \in 1..Len(q) /\ c[i] = q[i - Len(p)] /\ i > Len(p)
  BY <1>1, <1>2
<1>9. Entries(v) = Entries(lane) \cup S
  <2>1. Entries(v) \subseteq Entries(lane) \cup S
    BY <1>4, <1>5, <1>8
  <2>2. Entries(lane) \subseteq Entries(v)
    BY <1>4, <1>5, <1>6
  <2>3. S \subseteq Entries(v)
    BY <1>4, <1>5, <1>7
  <2> QED BY <2>1, <2>2, <2>3
<1>10. ASSUME NEW i \in 1..Len(c), NEW j \in 1..Len(c), c[i] = c[j] PROVE i = j
  <2>1. CASE i \in 1..Len(p) /\ j \in 1..Len(p)
    BY <1>4, <1>6, <1>10, <2>1
  <2>2. CASE i \notin 1..Len(p) /\ j \notin 1..Len(p)
    <3>1. i - Len(p) = j - Len(p)
      BY <1>4, <1>8, <1>10, <2>2
    <3> QED BY <1>1, <1>2, <3>1
  <2>3. CASE i \in 1..Len(p) /\ j \notin 1..Len(p)
    <3>1. c[i] \in Entries(lane)
      BY <1>4, <1>6, <2>3
    <3>2. c[j] \in S
      BY <1>4, <1>8, <2>3
    <3> QED BY <1>4, <1>10, <3>1, <3>2
  <2>4. CASE i \notin 1..Len(p) /\ j \in 1..Len(p)
    <3>1. c[j] \in Entries(lane)
      BY <1>4, <1>6, <2>4
    <3>2. c[i] \in S
      BY <1>4, <1>8, <2>4
    <3> QED BY <1>4, <1>10, <3>1, <3>2
  <2> QED BY <2>1, <2>2, <2>3, <2>4
<1>11. EachOnce(v)
  BY <1>3, <1>4, <1>9, <1>10 DEF EachOnce
<1> QED BY <1>3, <1>9, <1>11 DEF v, p, S

(* At the start no run is anywhere. *)
LEMMA InitPlaces ==
  ASSUME InitRuns
  PROVE  Placed(World) /\ AllSaturated(World)
<1>1. /\ World.lanes = lanes /\ World.draining = gatewayDraining /\ World.phase = phase
      /\ World.outerGen = outerGen /\ World.innerGen = innerGen
  BY WorldIs
<1>2. /\ lanes = [l \in AllLanes |-> NewLane] /\ gatewayDraining = FALSE
      /\ phase = [r \in Runs |-> "unused"]
      /\ outerGen = [r \in Runs |-> 0] /\ innerGen = [r \in Runs |-> 0]
  BY DEF InitRuns
<1>3. NewLane \in LaneType(Runs) /\ Entries(NewLane) = {} /\ EachOnce(NewLane) /\ Saturated(NewLane)
  BY NewLaneFacts
<1>4. NewLane.active = {} /\ NewLane.maxConcurrent = 1 /\ NewLane.generation = 0
  BY DEF NewLane
<1>5. World \in Worlds
  BY <1>2, <1>3 DEF World, Worlds, Phases
<1>6. /\ \A s \in Sessions : SessionOK(World, s)
      /\ \A g \in Globals : GlobalOK(World, g)
  BY <1>1, <1>2, <1>3, <1>4 DEF SessionOK, GlobalOK, Outer, AllLanes
<1>7. StartsOK(World) /\ OuterAlone(World)
  BY <1>1, <1>2, <1>4, LanesOfRuns DEF StartsOK, OuterAlone, Outer
<1> QED BY <1>1, <1>2, <1>3, <1>5, <1>6, <1>7 DEF Placed, AllSaturated

(* resetAllLanes keeps the runs in their places, whatever the order in which *)
(* the preserved runs join their shared lanes.                               *)
LEMMA ResetKeeps ==
  ASSUME Placed(World), ResetRunLanes
  PROVE  Placed(World)' /\ AllSaturated(World)'
<1> DEFINE w == World
           woken == UNION {PumpStarted(ResetLane(lanes[s])) : s \in Sessions}
<1>1. PICK joined \in Joinings(woken) :
        LET reset == [l \in AllLanes |->
              IF l \in Globals THEN [ResetLane(lanes[l]) EXCEPT !.queue = @ \o joined[l]]
              ELSE ResetLane(lanes[l])]
            started == UNION {PumpStarted(reset[g]) : g \in Globals}
        IN /\ lanes' = [l \in AllLanes |-> Pump(reset[l])]
           /\ gatewayDraining' = FALSE
           /\ phase' = [r \in Runs |->
                IF r \in started THEN "executing"
                ELSE IF r \in woken THEN "globalQueued" ELSE phase[r]]
           /\ outerGen' = [r \in Runs |->
                IF r \in woken THEN reset[SessionOf[r]].generation ELSE outerGen[r]]
           /\ innerGen' = [r \in Runs |->
                IF r \in started THEN reset[GlobalOf[r]].generation ELSE innerGen[r]]
  BY Zenon DEF ResetRunLanes
<1> DEFINE reset == [l \in AllLanes |->
              IF l \in Globals THEN [ResetLane(lanes[l]) EXCEPT !.queue = @ \o joined[l]]
              ELSE ResetLane(lanes[l])]
           started == UNION {PumpStarted(reset[g]) : g \in Globals}
<1>2. /\ lanes' = [l \in AllLanes |-> Pump(reset[l])]
      /\ gatewayDraining' = FALSE
      /\ phase' = [r \in Runs |->
           IF r \in started THEN "executing"
           ELSE IF r \in woken THEN "globalQueued" ELSE phase[r]]
      /\ outerGen' = [r \in Runs |->
           IF r \in woken THEN reset[SessionOf[r]].generation ELSE outerGen[r]]
      /\ innerGen' = [r \in Runs |->
           IF r \in started THEN reset[GlobalOf[r]].generation ELSE innerGen[r]]
  BY <1>1, Zenon
<1>3. /\ w.lanes = lanes /\ w.phase = phase /\ w.outerGen = outerGen /\ w.innerGen = innerGen
      /\ w \in Worlds
  BY WorldIs DEF Placed
<1> HIDE DEF w
<1>4. /\ lanes \in [AllLanes -> LaneType(Runs)] /\ phase \in [Runs -> Phases]
      /\ outerGen \in [Runs -> Nat] /\ innerGen \in [Runs -> Nat]
  BY <1>3, WorldFields
<1>5. ASSUME NEW l \in AllLanes
      PROVE  LET lane == ResetLane(lanes[l])
             IN  /\ lane \in LaneType(Runs) /\ EachOnce(lane)
                 /\ Entries(lane) = Entries(lanes[l]) /\ lane.active = {}
                 /\ lane.generation = lanes[l].generation + 1
                 /\ lane.maxConcurrent = lanes[l].maxConcurrent
  <2>1. lanes[l] \in LaneType(Runs) /\ EachOnce(lanes[l])
    BY <1>3, <1>4 DEF Placed, w
  <2> QED BY <2>1, ResetFacts
<1>6. ASSUME NEW s \in Sessions
      PROVE  /\ lanes[s].maxConcurrent = 1
             /\ Entries(lanes[s]) = {r \in Runs : SessionOf[r] = s /\ phase[r] = "sessionQueued"}
             /\ PumpStarted(ResetLane(lanes[s])) \subseteq Entries(lanes[s])
             /\ \A q, r \in PumpStarted(ResetLane(lanes[s])) : q = r
  <2>1. s \in AllLanes
    BY DEF AllLanes
  <2>2. /\ lanes[s].maxConcurrent = 1
        /\ Entries(lanes[s]) = {r \in Runs : SessionOf[r] = s /\ phase[r] = "sessionQueued"}
    BY <1>3 DEF Placed, SessionOK, w
  <2> QED BY <1>5, <2>1, <2>2, PumpMoves, AloneStarts, RunsAreFinite
<1>7. \A r \in woken : r \in Runs /\ phase[r] = "sessionQueued"
  BY <1>6
<1>8. \A s \in Sessions : \A r \in Runs : SessionOf[r] = s =>
        (r \in woken <=> r \in PumpStarted(ResetLane(lanes[s])))
  BY <1>6
<1>9. \A q, r \in woken : SessionOf[q] = SessionOf[r] => q = r
  BY <1>6, <1>7, <1>8, LanesOfRuns
<1> HIDE DEF woken
<1>10. ASSUME NEW g \in Globals
       PROVE  /\ reset[g] \in LaneType(Runs) /\ EachOnce(reset[g])
              /\ Entries(reset[g]) = {r \in Runs : /\ GlobalOf[r] = g
                                                   /\ phase[r] = "globalQueued" \/ r \in woken}
              /\ reset[g].active = {}
              /\ reset[g].generation = lanes[g].generation + 1
  <2> DEFINE S == {r \in woken : GlobalOf[r] = g}
             lane == ResetLane(lanes[g])
  <2>1. g \in AllLanes
    BY DEF AllLanes
  <2>2. joined[g] \in SetToSeqs(S)
    BY <1>1 DEF Joinings, Joining
  <2>3. IsFiniteSet(S) /\ S \subseteq Runs
    BY <1>7, RunsAreFinite, FS_Subset
  <2> HIDE DEF S
  <2>4. joined[g] \in Seq(S) /\ Distinct(joined[g]) /\ Elements(joined[g]) = S
    BY <2>2, <2>3, SetToSeqsFacts
  <2>5. joined[g] \in Seq(Runs)
    BY <2>3, <2>4
  <2>6. Entries(lanes[g]) = {r \in Runs : GlobalOf[r] = g /\ phase[r] = "globalQueued"}
    BY <1>3 DEF Placed, GlobalOK, w
  <2>7. /\ lane \in LaneType(Runs) /\ EachOnce(lane)
        /\ Entries(lane) = Entries(lanes[g]) /\ lane.active = {}
        /\ lane.generation = lanes[g].generation + 1
    BY <1>5, <2>1
  <2>8. S \cap Entries(lane) = {} /\ S \cap lane.active = {}
    BY <1>7, <2>6, <2>7 DEF S
  <2>9. reset[g] = Joined(lane, joined[g])
    BY <2>1 DEF Joined
  <2> HIDE DEF lane, reset
  <2>10. /\ reset[g] \in LaneType(Runs) /\ EachOnce(reset[g])
         /\ Entries(reset[g]) = Entries(lane) \cup S
         /\ reset[g].active = lane.active /\ reset[g].generation = lane.generation
    BY <2>4, <2>5, <2>7, <2>8, <2>9, JoinFacts
  <2> QED BY <1>7, <2>6, <2>7, <2>10 DEF S
<1>11. ASSUME NEW s \in Sessions PROVE reset[s] = ResetLane(lanes[s])
  BY LanesAssumption DEF AllLanes
<1> HIDE DEF reset
<1>12. ASSUME NEW l \in AllLanes
       PROVE  /\ reset[l] \in LaneType(Runs) /\ EachOnce(reset[l])
              /\ reset[l].active = {} /\ reset[l].generation = lanes[l].generation + 1
  <2>1. CASE l \in Globals
    BY <1>10, <2>1
  <2>2. CASE l \in Sessions
    BY <1>5, <1>11, <2>2
  <2> QED BY <2>1, <2>2 DEF AllLanes
<1>13. ASSUME NEW l \in AllLanes
       PROVE  /\ lanes'[l] = Pump(reset[l])
              /\ lanes'[l] \in LaneType(Runs) /\ EachOnce(lanes'[l]) /\ Saturated(lanes'[l])
              /\ lanes'[l].generation = lanes[l].generation + 1
              /\ lanes'[l].generation = reset[l].generation
              /\ lanes'[l].maxConcurrent = reset[l].maxConcurrent
              /\ PumpStarted(reset[l]) \subseteq Entries(reset[l])
              /\ Entries(lanes'[l]) = Entries(reset[l]) \ PumpStarted(reset[l])
              /\ lanes'[l].active = PumpStarted(reset[l])
              /\ lanes[l].generation \in Nat
  <2>1. lanes'[l] = Pump(reset[l])
    BY <1>2
  <2>2. lanes[l].generation \in Nat
    BY <1>4, LaneFields
  <2>3. /\ reset[l] \in LaneType(Runs) /\ EachOnce(reset[l])
        /\ reset[l].active = {} /\ reset[l].generation = lanes[l].generation + 1
    BY <1>12
  <2> DEFINE lane == reset[l]
  <2> HIDE DEF lane
  <2>4. /\ Pump(lane) \in LaneType(Runs) /\ EachOnce(Pump(lane))
        /\ Pump(lane).generation = lane.generation
        /\ Pump(lane).maxConcurrent = lane.maxConcurrent
        /\ PumpStarted(lane) \subseteq Entries(lane)
        /\ Entries(Pump(lane)) = Entries(lane) \ PumpStarted(lane)
        /\ Pump(lane).active = lane.active \cup PumpStarted(lane)
    BY <2>3, PumpMoves, RunsAreFinite DEF lane
  <2>5. Saturated(Pump(lane))
    BY <2>3, PumpSaturates, RunsAreFinite DEF lane
  <2> QED BY <2>1, <2>2, <2>3, <2>4, <2>5 DEF lane
<1>14. \A g \in Globals : \A r \in PumpStarted(reset[g]) :
          /\ r \in Runs /\ GlobalOf[r] = g
          /\ phase[r] = "globalQueued" \/ r \in woken
  <2>1. \A g \in Globals : g \in AllLanes
    BY DEF AllLanes
  <2> QED BY <1>10, <1>13, <2>1
<1>15. /\ \A r \in started : r \in Runs /\ (phase[r] = "globalQueued" \/ r \in woken)
       /\ \A g \in Globals : \A r \in Runs : GlobalOf[r] = g =>
            (r \in started <=> r \in PumpStarted(reset[g]))
  BY <1>14
<1> HIDE DEF started
<1>16. ASSUME NEW r \in Runs
       PROVE  /\ phase'[r] = (IF r \in started THEN "executing"
                              ELSE IF r \in woken THEN "globalQueued" ELSE phase[r])
              /\ outerGen'[r] = (IF r \in woken THEN lanes[SessionOf[r]].generation + 1
                                 ELSE outerGen[r])
              /\ innerGen'[r] = (IF r \in started THEN lanes[GlobalOf[r]].generation + 1
                                 ELSE innerGen[r])
              /\ outerGen[r] \in Nat /\ outerGen[r] <= lanes[SessionOf[r]].generation
              /\ innerGen[r] \in Nat /\ innerGen[r] <= lanes[GlobalOf[r]].generation
              /\ lanes[SessionOf[r]].generation \in Nat
              /\ lanes[GlobalOf[r]].generation \in Nat
  <2>1. SessionOf[r] \in AllLanes /\ GlobalOf[r] \in AllLanes
    BY LanesOfRuns
  <2>2. /\ reset[SessionOf[r]].generation = lanes[SessionOf[r]].generation + 1
        /\ reset[GlobalOf[r]].generation = lanes[GlobalOf[r]].generation + 1
    BY <1>12, <2>1
  <2>3. /\ outerGen[r] <= lanes[SessionOf[r]].generation
        /\ innerGen[r] <= lanes[GlobalOf[r]].generation
    BY <1>3 DEF Placed, StartsOK, w
  <2> QED BY <1>2, <1>4, <1>13, <2>1, <2>2, <2>3
<1>17. ASSUME NEW r \in Runs
       PROVE  /\ phase'[r] \in Outer <=> phase[r] \in Outer \/ r \in woken
              /\ phase'[r] = "sessionQueued" <=> phase[r] = "sessionQueued" /\ r \notin woken
              /\ phase'[r] = "globalQueued" <=>
                   r \notin started /\ (phase[r] = "globalQueued" \/ r \in woken)
              /\ phase'[r] = "executing" <=> r \in started \/ phase[r] = "executing"
  BY <1>7, <1>15, <1>16 DEF Outer
<1>18. World' \in Worlds
  <2>1. lanes' \in [AllLanes -> LaneType(Runs)]
    BY <1>2, <1>13
  <2>2. phase' \in [Runs -> Phases]
    BY <1>2, <1>4 DEF Phases
  <2>3. outerGen' \in [Runs -> Nat]
    <3>1. \A r \in Runs : outerGen'[r] \in Nat
      BY <1>16
    <3> QED BY <1>2, <3>1
  <2>4. innerGen' \in [Runs -> Nat]
    <3>1. \A r \in Runs : innerGen'[r] \in Nat
      BY <1>16
    <3> QED BY <1>2, <3>1
  <2> QED BY <1>2, <2>1, <2>2, <2>3, <2>4 DEF World, Worlds
<1>19. /\ World'.lanes = lanes' /\ World'.phase = phase'
       /\ World'.outerGen = outerGen' /\ World'.innerGen = innerGen'
  BY NextWorldIs
<1>20. ASSUME NEW s \in Sessions PROVE SessionOK(World', s)
  <2>1. s \in AllLanes
    BY DEF AllLanes
  <2>2. Entries(lanes'[s]) = {r \in Runs : SessionOf[r] = s /\ phase'[r] = "sessionQueued"}
    BY <1>5, <1>6, <1>8, <1>11, <1>13, <1>17, <2>1
  <2>3. lanes'[s].active = {r \in Runs : /\ SessionOf[r] = s /\ phase'[r] \in Outer
                                         /\ outerGen'[r] = lanes'[s].generation}
    <3>1. lanes'[s].active = {r \in Runs : SessionOf[r] = s /\ r \in woken}
      BY <1>6, <1>8, <1>11, <1>13, <2>1
    <3>2. \A r \in Runs : SessionOf[r] = s =>
            (r \in woken <=> phase'[r] \in Outer /\ outerGen'[r] = lanes'[s].generation)
      BY <1>13, <1>16, <1>17, <2>1
    <3> QED BY <3>1, <3>2
  <2>4. lanes'[s].maxConcurrent = 1
    BY <1>5, <1>6, <1>11, <1>13, <2>1
  <2> QED BY <1>19, <2>2, <2>3, <2>4 DEF SessionOK
<1>21. ASSUME NEW g \in Globals PROVE GlobalOK(World', g)
  <2>1. g \in AllLanes
    BY DEF AllLanes
  <2>2. Entries(lanes'[g]) = {r \in Runs : GlobalOf[r] = g /\ phase'[r] = "globalQueued"}
    BY <1>10, <1>13, <1>15, <1>17, <2>1
  <2>3. lanes'[g].active = {r \in Runs : /\ GlobalOf[r] = g /\ phase'[r] = "executing"
                                         /\ innerGen'[r] = lanes'[g].generation}
    <3>1. lanes'[g].active = {r \in Runs : GlobalOf[r] = g /\ r \in started}
      BY <1>13, <1>14, <1>15, <2>1
    <3>2. \A r \in Runs : GlobalOf[r] = g =>
            (r \in started <=> phase'[r] = "executing" /\ innerGen'[r] = lanes'[g].generation)
      BY <1>13, <1>16, <1>17, <2>1
    <3> QED BY <3>1, <3>2
  <2> QED BY <1>19, <2>2, <2>3 DEF GlobalOK
<1>22. StartsOK(World')
  <2>1. ASSUME NEW r \in Runs
        PROVE  /\ outerGen'[r] <= lanes'[SessionOf[r]].generation
               /\ innerGen'[r] <= lanes'[GlobalOf[r]].generation
    <3>1. SessionOf[r] \in AllLanes /\ GlobalOf[r] \in AllLanes
      BY LanesOfRuns
    <3>2. /\ lanes'[SessionOf[r]].generation = lanes[SessionOf[r]].generation + 1
          /\ lanes'[GlobalOf[r]].generation = lanes[GlobalOf[r]].generation + 1
      BY <1>13, <3>1
    <3> QED BY <1>16, <3>2
  <2> QED BY <1>19, <2>1 DEF StartsOK
<1>23. OuterAlone(World')
  <2>1. ASSUME NEW q \in Runs, NEW r \in Runs, SessionOf[q] = SessionOf[r],
               outerGen'[q] = outerGen'[r], phase'[q] \in Outer, phase'[r] \in Outer
        PROVE  q = r
    <3>1. CASE q \in woken /\ r \in woken
      BY <1>9, <2>1, <3>1
    <3>2. CASE q \notin woken /\ r \notin woken
      <4>1. phase[q] \in Outer /\ phase[r] \in Outer /\ outerGen[q] = outerGen[r]
        BY <1>16, <1>17, <2>1, <3>2
      <4> QED BY <1>3, <2>1, <4>1 DEF Placed, OuterAlone, w
    <3>3. CASE q \in woken /\ r \notin woken
      BY <1>16, <2>1, <3>3
    <3>4. CASE q \notin woken /\ r \in woken
      BY <1>16, <2>1, <3>4
    <3> QED BY <3>1, <3>2, <3>3, <3>4
  <2> QED BY <1>19, <2>1 DEF OuterAlone
<1>24. Placed(World')
  BY <1>13, <1>18, <1>19, <1>20, <1>21, <1>22, <1>23 DEF Placed
<1>25. AllSaturated(World')
  BY <1>13, <1>19 DEF AllSaturated
<1> QED BY <1>24, <1>25

(* The variables of the loop hold values of their types, the forced exit is  *)
(* armed while something may hang, and the lock, where one is used, is held  *)
(* until it is released after the close, which the handler remembers.        *)
LoopTyped ==
  /\ loop \in {"starting", "awaiting", "exited"}
  /\ server \in BOOLEAN
  /\ shutdown \in {"idle", "draining", "closing", "closed", "released"}
  /\ action \in {"none", "restart", "stop"}
  /\ waitIds \subseteq AllLanes \X Runs
  /\ drained \in BOOLEAN
  /\ lock \in BOOLEAN /\ hadLock \in BOOLEAN
  /\ timer = (shutdown \in {"draining", "closing"})
  /\ Alive => UsesLock = IF shutdown = "released" THEN hadLock ELSE lock

(* A run that will execute in this lifecycle.                                *)
Current(r) == phase[r] \in Busy /\ outerGen[r] = lanes[SessionOf[r]].generation

(* While a restart is under way the lanes refuse new work; the runs that are *)
(* still to execute in this lifecycle are waited for, and once the wait has  *)
(* found its tasks over there are none.                                      *)
DrainHolds ==
  /\ action = "restart" /\ shutdown # "idle" => gatewayDraining
  /\ shutdown = "draining" =>
       /\ action = "restart" /\ ~drained
       /\ \A r \in Runs : Current(r) => <<SessionOf[r], r>> \in waitIds
  /\ Closing => \A r \in Runs : ~Current(r)

(* The inductive invariant of the gateway.  OverlapOnlyAcrossRestart needs   *)
(* the places of the runs, because a session's next outer task starts only   *)
(* when the lane's active set is empty; QuietAfterDrain needs them and       *)
(* DrainHolds, because the wait is over when the captured ids left the lanes.*)
LoopInv ==
  /\ Placed(World)
  /\ AllSaturated(World)
  /\ LoopTyped
  /\ DrainHolds

(* The inductive invariant holds at the start and is kept by every step.     *)
LEMMA LoopInit == ASSUME GatewayInit PROVE LoopInv
<1>1. Placed(World) /\ AllSaturated(World)
  BY InitPlaces DEF GatewayInit
<1>2. LoopTyped
  <2>1. timer = (shutdown \in {"draining", "closing"})
    <3>1. (shutdown \in {"draining", "closing"}) = FALSE
      BY DEF GatewayInit
    <3>2. timer = FALSE
      BY DEF GatewayInit
    <3> QED BY <3>1, <3>2, Zenon
  <2> QED BY <2>1, UsesLockAssumption DEF GatewayInit, LoopTyped
<1>3. DrainHolds
  BY DEF GatewayInit, DrainHolds, Closing
<1> QED BY <1>1, <1>2, <1>3 DEF LoopInv

(* A step that leaves the runs alone leaves them in their places.            *)
LEMMA RunsStay ==
  ASSUME Placed(World), AllSaturated(World), UNCHANGED runVars
  PROVE  Placed(World)' /\ AllSaturated(World)'
<1>1. World' = World
  BY DEF World, runVars
<1>2. Placed(World') /\ AllSaturated(World')
  BY <1>1
<1> QED BY <1>2

(* A run still to execute in this lifecycle is among the active tasks.       *)
LEMMA CurrentIsActive ==
  ASSUME Placed(World), NEW r \in Runs
  PROVE  Current(r) => <<SessionOf[r], r>> \in ActiveTaskIds
<1>1. World.lanes = lanes /\ World.phase = phase /\ World.outerGen = outerGen
  BY WorldIs
<1>2. SessionOK(World, SessionOf[r]) /\ SessionOf[r] \in AllLanes
  BY LanesOfRuns DEF Placed
<1>3. Current(r) => r \in lanes[SessionOf[r]].active
  BY <1>1, <1>2 DEF Current, SessionOK, Busy, Outer
<1> QED BY <1>2, <1>3 DEF ActiveTaskIds

LEMMA ActiveTaskIdsType ==
  ASSUME Placed(World)
  PROVE  ActiveTaskIds \subseteq AllLanes \X Runs
<1>1. lanes \in [AllLanes -> LaneType(Runs)]
  BY WorldIs, WorldFields DEF Placed
<1>2. \A l \in AllLanes : lanes[l].active \subseteq Runs
  BY <1>1, LaneFields
<1> QED BY <1>2 DEF ActiveTaskIds

LEMMA LoopStep == ASSUME LoopInv, [GatewayNext]_gatewayVars PROVE LoopInv'
<1> USE DEF LoopInv
<1>1. ASSUME UNCHANGED runVars
      PROVE  /\ Placed(World)' /\ AllSaturated(World)'
             /\ \A r \in Runs : Current(r)' <=> Current(r)
  <2>1. Placed(World)' /\ AllSaturated(World)'
    BY <1>1, RunsStay
  <2>2. \A r \in Runs : Current(r)' <=> Current(r)
    BY <1>1 DEF Current, runVars
  <2> QED BY <2>1, <2>2
<1>2. CASE UNCHANGED gatewayVars
  <2>1. UNCHANGED runVars /\ UNCHANGED loopVars
    BY <1>2 DEF gatewayVars
  <2>2. LoopTyped'
    BY <2>1 DEF LoopTyped, loopVars, Alive
  <2>3. DrainHolds'
    BY <1>1, <2>1 DEF DrainHolds, Closing, loopVars, runVars
  <2> QED BY <1>1, <2>1, <2>2, <2>3
<1>3. CASE RunsStep
  <2>1. Alive /\ RunNext /\ UNCHANGED loopVars
    BY <1>3 DEF RunsStep
  <2>2. Placed(World)' /\ AllSaturated(World)' /\ Tame(World, World')
    BY <2>1, RunNextKeeps
  <2>3. LoopTyped'
    BY <2>1 DEF LoopTyped, loopVars, Alive
  <2>4. /\ gatewayDraining' = gatewayDraining
        /\ gatewayDraining => \A r \in Runs : Current(r)' => Current(r)
    <3>1. /\ World.lanes = lanes /\ World.draining = gatewayDraining
          /\ World.phase = phase /\ World.outerGen = outerGen
          /\ World'.lanes = lanes' /\ World'.draining = gatewayDraining'
          /\ World'.phase = phase' /\ World'.outerGen = outerGen'
      BY WorldIs, NextWorldIs
    <3>2. \A r \in Runs : lanes'[SessionOf[r]].generation = lanes[SessionOf[r]].generation
      BY <2>2, <3>1, LanesOfRuns DEF Tame
    <3>3. gatewayDraining => \A r \in Runs : phase'[r] \in Busy =>
            phase[r] \in Busy /\ outerGen'[r] = outerGen[r]
      BY <2>2, <3>1 DEF Tame
    <3>4. gatewayDraining' = gatewayDraining
      BY <2>2, <3>1 DEF Tame
    <3> QED BY <3>2, <3>3, <3>4 DEF Current
  <2>5. DrainHolds'
    BY <2>1, <2>4 DEF DrainHolds, Closing, loopVars
  <2> QED BY <2>2, <2>3, <2>5
<1>4. CASE StartCompletes
  <2>1. LoopTyped'
    BY <1>4 DEF StartCompletes, LoopTyped, Alive
  <2>2. DrainHolds'
    BY <1>1, <1>4 DEF StartCompletes, DrainHolds, Closing, runVars
  <2> QED BY <1>1, <1>4, <2>1, <2>2 DEF StartCompletes
<1>5. CASE StartFails
  <2>1. LoopTyped'
    BY <1>5 DEF StartFails, LoopTyped, Alive
  <2>2. DrainHolds'
    BY <1>1, <1>5 DEF StartFails, DrainHolds, Closing, runVars
  <2> QED BY <1>1, <1>5, <2>1, <2>2 DEF StartFails
<1>6. CASE RequestRestart
  <2>1. LoopTyped'
    <3>1. ActiveTaskIds \subseteq AllLanes \X Runs
      BY ActiveTaskIdsType
    <3>2. timer' = (shutdown' \in {"draining", "closing"})
      <4>1. CASE ActiveTaskIds = {}
        BY <1>6, <4>1 DEF RequestRestart, BeginClose, LoopTyped
      <4>2. CASE ActiveTaskIds # {}
        <5>1. (shutdown' \in {"draining", "closing"}) = TRUE
          BY <1>6, <4>2 DEF RequestRestart
        <5>2. timer' = TRUE
          BY <1>6, <4>2 DEF RequestRestart
        <5> QED BY <5>1, <5>2, Zenon
      <4> QED BY <4>1, <4>2
    <3>3. drained' \in BOOLEAN
      BY <1>6 DEF RequestRestart
    <3> QED BY <1>6, <3>1, <3>2, <3>3 DEF RequestRestart, BeginClose, LoopTyped, Alive
  <2>2. /\ lanes' = lanes /\ gatewayDraining' = TRUE /\ phase' = phase
        /\ outerGen' = outerGen /\ innerGen' = innerGen
    <3> DEFINE v == [World EXCEPT !.draining = TRUE]
    <3>1. /\ v.lanes = World.lanes /\ v.draining = TRUE /\ v.phase = World.phase
          /\ v.outerGen = World.outerGen /\ v.innerGen = World.innerGen
      BY DEF World
    <3>2. Becomes(v)
      BY <1>6 DEF RequestRestart, MarkDraining
    <3> HIDE DEF v
    <3> QED BY <3>1, <3>2, WorldIs DEF Becomes
  <2>3. Placed(World)' /\ AllSaturated(World)'
    <3>1. /\ World.lanes = lanes /\ World.phase = phase
          /\ World.outerGen = outerGen /\ World.innerGen = innerGen
          /\ World'.lanes = lanes /\ World'.phase = phase
          /\ World'.outerGen = outerGen /\ World'.innerGen = innerGen
      BY <2>2, WorldIs, NextWorldIs
    <3>2. World' \in Worlds
      <4>1. /\ lanes \in [AllLanes -> LaneType(Runs)] /\ phase \in [Runs -> Phases]
            /\ outerGen \in [Runs -> Nat] /\ innerGen \in [Runs -> Nat]
        BY <3>1, WorldFields DEF Placed
      <4> QED BY <2>2, <4>1 DEF World, Worlds
    <3>3. Placed(World') /\ AllSaturated(World')
      BY <3>1, <3>2 DEF Placed, AllSaturated, SessionOK, GlobalOK, StartsOK, OuterAlone
    <3> QED BY <3>3
  <2>4. DrainHolds'
    <3>1. \A r \in Runs : Current(r) => <<SessionOf[r], r>> \in ActiveTaskIds
      BY CurrentIsActive
    <3>2. \A r \in Runs : Current(r)' <=> Current(r)
      BY <2>2 DEF Current
    <3> QED BY <1>6, <2>2, <3>1, <3>2 DEF RequestRestart, BeginClose, DrainHolds, Closing
  <2> QED BY <2>1, <2>3, <2>4
<1>7. CASE RequestStop
  <2>1. LoopTyped'
    BY <1>7 DEF RequestStop, BeginClose, LoopTyped, Alive
  <2>2. DrainHolds'
    BY <1>7 DEF RequestStop, BeginClose, DrainHolds, Closing
  <2> QED BY <1>1, <1>7, <2>1, <2>2 DEF RequestStop
<1>8. CASE DrainCompletes
  <2>1. LoopTyped'
    BY <1>8 DEF DrainCompletes, BeginClose, LoopTyped, Alive
  <2>2. DrainHolds'
    <3>1. \A r \in Runs : Current(r) => <<SessionOf[r], r>> \in ActiveTaskIds
      BY CurrentIsActive
    <3>2. \A r \in Runs : ~Current(r)
      BY <1>8, <3>1 DEF DrainCompletes, DrainHolds
    <3> QED BY <1>1, <1>8, <3>2 DEF DrainCompletes, BeginClose, DrainHolds, Closing, runVars
  <2> QED BY <1>1, <1>8, <2>1, <2>2 DEF DrainCompletes
<1>9. CASE DrainTimesOut
  <2>1. LoopTyped'
    BY <1>9 DEF DrainTimesOut, BeginClose, LoopTyped, Alive
  <2>2. DrainHolds'
    BY <1>1, <1>9 DEF DrainTimesOut, BeginClose, DrainHolds, Closing, runVars
  <2> QED BY <1>1, <1>9, <2>1, <2>2 DEF DrainTimesOut
<1>10. CASE CloseCompletes
  <2>1. LoopTyped'
    <3>1. timer' = (shutdown' \in {"draining", "closing"})
      <4>1. (shutdown' \in {"draining", "closing"}) = FALSE
        BY <1>10 DEF CloseCompletes
      <4>2. timer' = FALSE
        BY <1>10 DEF CloseCompletes, LoopTyped
      <4> QED BY <4>1, <4>2, Zenon
    <3> QED BY <1>10, <3>1 DEF CloseCompletes, LoopTyped, Alive
  <2>2. DrainHolds'
    BY <1>1, <1>10 DEF CloseCompletes, DrainHolds, Closing, runVars
  <2> QED BY <1>1, <1>10, <2>1, <2>2 DEF CloseCompletes
<1>11. CASE ReleaseLock
  <2>1. LoopTyped'
    <3>1. timer' = (shutdown' \in {"draining", "closing"})
      <4>1. (shutdown' \in {"draining", "closing"}) = FALSE
        BY <1>11 DEF ReleaseLock
      <4>2. timer' = FALSE
        <5>1. (shutdown \in {"draining", "closing"}) = FALSE
          BY <1>11 DEF ReleaseLock
        <5>2. timer = (shutdown \in {"draining", "closing"})
          BY Zenon DEF LoopTyped
        <5>3. timer' = timer
          BY <1>11 DEF ReleaseLock
        <5> QED BY <5>1, <5>2, <5>3, Zenon
      <4> QED BY <4>1, <4>2, Zenon
    <3> QED BY <1>11, <3>1 DEF ReleaseLock, LoopTyped, Alive
  <2>2. DrainHolds'
    BY <1>1, <1>11 DEF ReleaseLock, DrainHolds, Closing, runVars
  <2> QED BY <1>1, <1>11, <2>1, <2>2 DEF ReleaseLock
<1>12. CASE Exit
  <2>1. LoopTyped'
    BY <1>12 DEF Exit, LoopTyped, Alive
  <2>2. DrainHolds'
    BY <1>1, <1>12 DEF Exit, DrainHolds, Closing, runVars
  <2> QED BY <1>1, <1>12, <2>1, <2>2 DEF Exit
<1>13. CASE RestartInProcess
  <2>1. LoopTyped'
    <3>1. /\ lock' = hadLock /\ hadLock' = FALSE /\ shutdown' = "idle"
          /\ Alive /\ shutdown = "released"
          /\ loop' \in {loop, "starting"}
          /\ UNCHANGED <<server, action, waitIds, drained, timer>>
      BY <1>13 DEF RestartInProcess
    <3>2. UsesLock = lock' /\ lock' \in BOOLEAN
      BY <3>1 DEF LoopTyped
    <3>3. timer' = (shutdown' \in {"draining", "closing"})
      <4>1. (shutdown' \in {"draining", "closing"}) = (shutdown \in {"draining", "closing"})
        BY <3>1
      <4>2. timer = (shutdown \in {"draining", "closing"}) /\ timer' = timer
        BY <3>1, Zenon DEF LoopTyped
      <4> QED BY <4>1, <4>2, Zenon
    <3>4. hadLock' \in BOOLEAN
      BY <3>1
    <3>5. Alive' => UsesLock = IF shutdown' = "released" THEN hadLock' ELSE lock'
      BY <3>1, <3>2
    <3>6. /\ loop' \in {"starting", "awaiting", "exited"}
          /\ server' \in BOOLEAN
          /\ shutdown' \in {"idle", "draining", "closing", "closed", "released"}
          /\ action' \in {"none", "restart", "stop"}
          /\ waitIds' \subseteq AllLanes' \X Runs
          /\ drained' \in BOOLEAN
      BY <3>1 DEF LoopTyped, AllLanes
    <3> QED BY <3>2, <3>3, <3>4, <3>5, <3>6, Zenon DEF LoopTyped
  <2>2. DrainHolds'
    BY <1>13 DEF RestartInProcess, DrainHolds, Closing
  <2>3. ResetRunLanes \/ UNCHANGED runVars
    BY <1>13 DEF RestartInProcess, runVars
  <2>4. Placed(World)' /\ AllSaturated(World)'
    BY <1>1, <2>3, ResetKeeps
  <2> QED BY <2>1, <2>2, <2>4
<1>14. CASE ForceExit
  <2>1. LoopTyped'
    BY <1>14 DEF ForceExit, LoopTyped, Alive
  <2>2. DrainHolds'
    BY <1>1, <1>14 DEF ForceExit, DrainHolds, Closing, runVars
  <2> QED BY <1>1, <1>14, <2>1, <2>2 DEF ForceExit
<1> QED
  BY <1>2, <1>3, <1>4, <1>5, <1>6, <1>7, <1>8, <1>9, <1>10, <1>11, <1>12, <1>13, <1>14
     DEF GatewayNext

(* The gateway keeps its runs in their places and its drain complete,        *)
(* through every order of signals, ends of turns, aborts, reloads and        *)
(* in-process restarts.                                                      *)
THEOREM GatewayInvariance == GatewaySpec => []LoopInv
BY LoopInit, LoopStep, PTL DEF GatewaySpec

(* Placed says of each run what RunsTypeOK does. *)
LEMMA PlacesOfRuns ==
  ASSUME Placed(World), AllSaturated(World)
  PROVE  RunsTypeOK
<1>1. /\ World.lanes = lanes /\ World.draining = gatewayDraining /\ World.phase = phase
      /\ World.outerGen = outerGen /\ World.innerGen = innerGen
  BY WorldIs
<1>2. Types
  BY <1>1, WorldFields DEF Placed, Types
<1>3. \A l \in AllLanes : Saturated(lanes[l])
  BY <1>1 DEF AllSaturated
<1>4. ASSUME NEW r \in Runs
      PROVE  LET s == lanes[SessionOf[r]]
                 g == lanes[GlobalOf[r]]
             IN /\ r \in Entries(s) <=> phase[r] = "sessionQueued"
                /\ r \in Entries(g) <=> phase[r] = "globalQueued"
                /\ r \in s.active <=>
                     /\ phase[r] \in {"globalQueued", "executing", "innerSettled", "innerRefused"}
                     /\ outerGen[r] = s.generation
                /\ r \in g.active <=> phase[r] = "executing" /\ innerGen[r] = g.generation
  <2>1. SessionOK(World, SessionOf[r]) /\ GlobalOK(World, GlobalOf[r])
    BY LanesOfRuns DEF Placed
  <2> QED BY <1>1, <2>1 DEF SessionOK, GlobalOK, Outer
<1> QED BY <1>2, <1>3, <1>4 DEF RunsTypeOK

(* Each run is queued or active exactly where its phase says, a lane with a  *)
(* backlog is full, the forced exit is armed exactly while something may     *)
(* hang, and a serving gateway holds its lock: run-loop.ts over              *)
(* runEmbeddedPiAgent and command-queue.ts.                                  *)
THEOREM GatewayTypeCorrect == GatewaySpec => []GatewayTypeOK
<1>1. LoopInv => GatewayTypeOK
  BY PlacesOfRuns DEF LoopInv, LoopTyped, GatewayTypeOK, Alive
<1> QED BY <1>1, GatewayInvariance, PTL

(* Two turns of one session execute together only if resetAllLanes came      *)
(* between the starts of their outer tasks.                                  *)
THEOREM OverlapsOnlyAcrossRestart == GatewaySpec => []OverlapOnlyAcrossRestart
<1>1. LoopInv => OverlapOnlyAcrossRestart
  BY WorldIs DEF LoopInv, Placed, OuterAlone, OverlapOnlyAcrossRestart, Outer
<1> QED BY <1>1, GatewayInvariance, PTL

(* When waitForActiveTasks found its tasks over, no turn that took its       *)
(* session's slot in this lifecycle executes while the server closes.        *)
THEOREM QuietWhenDrained == GatewaySpec => []QuietAfterDrain
<1>1. LoopInv => QuietAfterDrain
  <2> SUFFICES ASSUME LoopInv, Closing, NEW r \in Runs, phase[r] = "executing"
               PROVE  outerGen[r] < lanes[SessionOf[r]].generation
    BY DEF QuietAfterDrain
  <2>1. ~Current(r)
    BY DEF LoopInv, DrainHolds
  <2>2. outerGen[r] <= lanes[SessionOf[r]].generation
    BY WorldIs DEF LoopInv, Placed, StartsOK
  <2>3. outerGen[r] \in Nat /\ lanes[SessionOf[r]].generation \in Nat
    <3>1. World \in Worlds /\ SessionOf[r] \in AllLanes
      BY LanesOfRuns DEF LoopInv, Placed
    <3>2. lanes \in [AllLanes -> LaneType(Runs)] /\ outerGen \in [Runs -> Nat]
      BY <3>1, WorldIs, WorldFields
    <3> QED BY <3>1, <3>2, LaneFields
  <2> QED BY <2>1, <2>2, <2>3 DEF Current, Busy
<1> QED BY <1>1, GatewayInvariance, PTL
=============================================================================
