------------------------- MODULE CronServiceProofs -------------------------
(* Theorems about CronService for any jobs, services, manual runs and        *)
(* bounds.                                                                   *)
EXTENDS CronService, FiniteSetTheorems, TLAPS

Times == {NoTime, AtTime} \cup 1..MaxNow + 1

(* A job of a store, with markers and runs up to the time t.                 *)
JobRec(t) == [enabled : BOOLEAN, next : Times, marker : {NoTime} \cup 0..t,
              last : Outcomes \cup {"none"}, ranAt : {NoTime} \cup 0..t]

Stored(st, ids, t) == \A j \in DOMAIN st : j \in ids /\ st[j] \in JobRec(t)

Execution(ids, t) == [svc : Services, by : {"tick", "startup"} \cup Manuals, job : ids,
                      st : Outcomes \cup {"waiting", "running"}, since : 0..t]

Types ==
  /\ now \in 0..MaxNow /\ cur \in Services /\ born \subseteq Jobs
  /\ runs \in Nat /\ edits \in Nat /\ failures \in Nat /\ handover \in BOOLEAN
  /\ Stored(disk, born, now)
  /\ DOMAIN mem = Services /\ \A s \in Services : Stored(mem[s], born, now)
  /\ phase \in [Services -> {"off", "load", "missed", "catchup", "caughtup", "finish", "on"}]
  /\ tick \in [Services -> {"idle", "begin", "jobs", "end"}]
  /\ timer \in [Services -> BOOLEAN]
  /\ execs \subseteq Execution(born, now)

(* A service executes a batch exactly while a tick or a catch-up waits.      *)
Batches ==
  \A s \in Services :
    /\ tick[s] = "jobs" <=> Batch(s, "tick") # {}
    /\ phase[s] = "catchup" <=> Batch(s, "startup") # {}

Resting(s) == tick[s] = "idle" /\ ~timer[s] /\ \A e \in execs : e.svc # s

(* Services that were not started rest; without a handover so do those that  *)
(* were replaced, and everything rests when a service loads the store.       *)
OneService ==
  /\ phase[cur] # "off"
  /\ \A s \in Services : s > cur => Resting(s) /\ phase[s] = "off"
  /\ ~handover =>
       /\ \A s \in Services : s # cur => Resting(s) /\ phase[s] \in {"off", "on"}
       /\ phase[cur] = "load" => Resting(cur)

(* The job of the execution e carries its marker.                            *)
Blocks(st, e) == e.job \in DOMAIN st => st[e.job].enabled /\ st[e.job].marker = e.since

MarkersBlock ==
  ~handover => \A e \in execs : e.job \notin excused =>
    /\ now - e.since <= StuckAfter
    /\ Blocks(disk, e)
    /\ Blocks(mem[cur], e)
    /\ \A x \in execs : x.job = e.job => x = e

(* Each marker of the store is that of a job that one of the executions ex   *)
(* executes.                                                                 *)
Owned(st, ex) == \A j \in DOMAIN st : st[j].marker # NoTime => \E e \in ex : e.job = j

(* Maintenance apart, the copy in memory is the store.                       *)
CopyCurrent ==
  failures = 0 /\ ~handover /\ Serving =>
    /\ DOMAIN mem[cur] = DOMAIN disk
    /\ Owned(disk, execs) /\ Owned(mem[cur], execs)
    /\ \A j \in DOMAIN disk :
         /\ mem[cur][j].enabled <=> disk[j].enabled
         /\ disk[j].enabled /\ disk[j].next # NoTime => mem[cur][j].next = disk[j].next

IndInv == Types /\ Batches /\ OneService /\ MarkersBlock /\ CopyCurrent

-----------------------------------------------------------------------------
(* What the operations on a store do to a job *)

LEMMA NextRunType ==
  ASSUME now \in 0..MaxNow, NEW j, NEW r
  PROVE  NextRun(j, r) \in Times
BY CronAssumption DEF NextRun, Times

(* normalizeJobTickState: a job keeps whether it is enabled, and an enabled  *)
(* one its next run, and its marker unless that is overdue.                  *)
LEMMA NormalizedFacts ==
  ASSUME now \in 0..MaxNow, NEW r \in JobRec(now)
  PROVE  /\ Normalized(r) \in JobRec(now)
         /\ Normalized(r).enabled <=> r.enabled
         /\ Normalized(r).marker \in {r.marker, NoTime}
         /\ r.enabled => Normalized(r).next = r.next
         /\ r.enabled /\ now - r.marker <= StuckAfter => Normalized(r).marker = r.marker
<1>1. CASE ~r.enabled
  <2>1. PICK n : n = [r EXCEPT !.next = NoTime, !.marker = NoTime]
    OBVIOUS
  <2>2. n \in JobRec(now) /\ n.marker = NoTime /\ (n.enabled <=> r.enabled)
    BY <2>1 DEF JobRec, Times
  <2>3. Normalized(r) = n
    BY <1>1, <2>1 DEF Normalized
  <2> QED BY <1>1, <2>2, <2>3
<1>2. CASE r.enabled
  <2>1. PICK n : n = [r EXCEPT !.marker = NoTime]
    OBVIOUS
  <2>2. /\ n \in JobRec(now) /\ n.marker = NoTime /\ (n.enabled <=> r.enabled)
        /\ n.next = r.next
    BY <2>1 DEF JobRec
  <2>3. Normalized(r) = IF r.marker # NoTime /\ now - r.marker > StuckAfter THEN n ELSE r
    BY <1>2, <2>1 DEF Normalized
  <2>4. now - r.marker \in Int /\ StuckAfter \in Int
    BY CronAssumption DEF JobRec, NoTime
  <2> QED BY <1>2, <2>2, <2>3, <2>4
<1> QED BY <1>1, <1>2

(* The store new has the jobs of the store old, at most without markers that *)
(* nothing keeps.                                                            *)
Kept(new, old) ==
  /\ DOMAIN new = DOMAIN old
  /\ \A j \in DOMAIN old :
       /\ new[j].enabled <=> old[j].enabled
       /\ new[j].marker \in {old[j].marker, NoTime}
       /\ old[j].enabled /\ now - old[j].marker <= StuckAfter => new[j].marker = old[j].marker

(* No scheduled run of an enabled job was moved.                             *)
NextKept(new, old) ==
  \A j \in DOMAIN old : old[j].enabled /\ old[j].next # NoTime => new[j].next = old[j].next

LEMMA MaintainedFacts ==
  ASSUME now \in 0..MaxNow, NEW ids, NEW st, Stored(st, ids, now)
  PROVE  /\ Stored(Maintained(st), ids, now)
         /\ Kept(Maintained(st), st)
         /\ NextKept(Maintained(st), st)
<1>1. DOMAIN Maintained(st) = DOMAIN st
  BY DEF Maintained
<1>2. ASSUME NEW j \in DOMAIN st
      PROVE  /\ Maintained(st)[j] \in JobRec(now)
             /\ Maintained(st)[j].enabled <=> st[j].enabled
             /\ Maintained(st)[j].marker \in {st[j].marker, NoTime}
             /\ st[j].enabled /\ now - st[j].marker <= StuckAfter
                  => Maintained(st)[j].marker = st[j].marker
             /\ st[j].enabled /\ st[j].next # NoTime => Maintained(st)[j].next = st[j].next
  <2>1. PICK r \in JobRec(now) : r = st[j]
    BY DEF Stored
  <2>2. PICK n \in JobRec(now) : n = Normalized(r)
    BY NormalizedFacts
  <2>3. Maintained(st)[j] = IF n.next = NoTime THEN [n EXCEPT !.next = NextRun(j, n)] ELSE n
    BY <2>1, <2>2 DEF Maintained
  <2>4. PICK m : m = Maintained(st)[j]
    OBVIOUS
  <2>5. /\ m \in JobRec(now) /\ m.marker = n.marker /\ (m.enabled <=> n.enabled)
        /\ n.next # NoTime => m.next = n.next
    BY <2>3, <2>4, NextRunType DEF JobRec
  <2>6. /\ n.enabled <=> r.enabled
        /\ n.marker \in {r.marker, NoTime}
        /\ r.enabled => n.next = r.next
        /\ r.enabled /\ now - r.marker <= StuckAfter => n.marker = r.marker
    BY <2>2, NormalizedFacts
  <2> QED BY <2>1, <2>4, <2>5, <2>6
<1> QED BY <1>1, <1>2 DEF Stored, Kept, NextKept

LEMMA RecomputedFacts ==
  ASSUME now \in 0..MaxNow, NEW ids, NEW st, Stored(st, ids, now)
  PROVE  Stored(Recomputed(st), ids, now) /\ Kept(Recomputed(st), st)
<1>1. DOMAIN Recomputed(st) = DOMAIN st
  BY DEF Recomputed
<1>2. ASSUME NEW j \in DOMAIN st
      PROVE  /\ Recomputed(st)[j] \in JobRec(now)
             /\ Recomputed(st)[j].enabled <=> st[j].enabled
             /\ Recomputed(st)[j].marker \in {st[j].marker, NoTime}
             /\ st[j].enabled /\ now - st[j].marker <= StuckAfter
                  => Recomputed(st)[j].marker = st[j].marker
  <2>1. PICK r \in JobRec(now) : r = st[j]
    BY DEF Stored
  <2>2. PICK n \in JobRec(now) : n = Normalized(r)
    BY NormalizedFacts
  <2>3. Recomputed(st)[j] = IF n.next = NoTime \/ n.next <= now
                            THEN [n EXCEPT !.next = NextRun(j, n)] ELSE n
    BY <2>1, <2>2 DEF Recomputed
  <2>4. PICK m : m = Recomputed(st)[j]
    OBVIOUS
  <2>5. m \in JobRec(now) /\ m.marker = n.marker /\ (m.enabled <=> n.enabled)
    BY <2>3, <2>4, NextRunType DEF JobRec
  <2>6. /\ n.enabled <=> r.enabled
        /\ n.marker \in {r.marker, NoTime}
        /\ r.enabled /\ now - r.marker <= StuckAfter => n.marker = r.marker
    BY <2>2, NormalizedFacts
  <2> QED BY <2>1, <2>4, <2>5, <2>6
<1> QED BY <1>1, <1>2 DEF Stored, Kept

LEMMA MarkedFacts ==
  ASSUME now \in 0..MaxNow, NEW ids, NEW st, Stored(st, ids, now), NEW js
  PROVE  /\ Stored(Marked(st, js), ids, now)
         /\ DOMAIN Marked(st, js) = DOMAIN st
         /\ \A j \in DOMAIN st :
              /\ Marked(st, js)[j].enabled <=> st[j].enabled
              /\ Marked(st, js)[j].next = st[j].next
              /\ Marked(st, js)[j].marker = IF j \in js THEN now ELSE st[j].marker
<1>1. DOMAIN Marked(st, js) = DOMAIN st
  BY DEF Marked
<1>2. ASSUME NEW j \in DOMAIN st
      PROVE  /\ Marked(st, js)[j] \in JobRec(now)
             /\ Marked(st, js)[j].enabled <=> st[j].enabled
             /\ Marked(st, js)[j].next = st[j].next
             /\ Marked(st, js)[j].marker = IF j \in js THEN now ELSE st[j].marker
  <2>1. PICK r \in JobRec(now) : r = st[j]
    BY DEF Stored
  <2>2. PICK m : m = Marked(st, js)[j]
    OBVIOUS
  <2>3. m = IF j \in js THEN [r EXCEPT !.marker = now] ELSE r
    BY <2>1, <2>2 DEF Marked
  <2>4. /\ m \in JobRec(now) /\ (m.enabled <=> r.enabled) /\ m.next = r.next
        /\ m.marker = IF j \in js THEN now ELSE r.marker
    BY <2>3 DEF JobRec
  <2> QED BY <2>1, <2>2, <2>4
<1> QED BY <1>1, <1>2 DEF Stored

(* applyJobResult: the marker goes, and no job becomes enabled.              *)
LEMMA FinishedFacts ==
  ASSUME now \in 0..MaxNow, NEW j, NEW r \in JobRec(now),
         NEW e \in Execution(born, now), e.st \in Outcomes
  PROVE  /\ Finished(j, r, e) \in JobRec(now)
         /\ Finished(j, r, e).marker = NoTime
         /\ Finished(j, r, e).enabled => r.enabled
<1>1. PICK l \in Outcomes \cup {"none"} :
        l = IF j \notin OneShot THEN r.last ELSE IF e.st = "retry" THEN "error" ELSE e.st
  BY DEF Outcomes, JobRec
<1>2. PICK a \in {NoTime} \cup 0..now : a = IF j \in OneShot THEN e.since ELSE r.ranAt
  BY DEF Execution, JobRec
<1>3. PICK d : d = [r EXCEPT !.marker = NoTime, !.last = l, !.ranAt = a]
  OBVIOUS
<1>4. d \in JobRec(now) /\ d.marker = NoTime /\ (d.enabled <=> r.enabled)
  BY <1>3 DEF JobRec
<1>5. Finished(j, r, e) =
        IF j \in OneShot
        THEN IF e.st = "retry" THEN [d EXCEPT !.next = now + 1]
             ELSE [d EXCEPT !.enabled = FALSE, !.next = NoTime]
        ELSE [d EXCEPT !.next = IF r.enabled THEN now + 1 ELSE NoTime]
  BY <1>1, <1>2, <1>3 DEF Finished
<1>6. now + 1 \in Times /\ NoTime \in Times
  BY CronAssumption DEF Times
<1>7. PICK f : f = Finished(j, r, e)
  OBVIOUS
<1>8. f \in JobRec(now) /\ f.marker = NoTime /\ (f.enabled => d.enabled)
  BY <1>4, <1>5, <1>6, <1>7 DEF JobRec
<1> QED BY <1>4, <1>7, <1>8

(* applyOutcomeToStoredJob of some results: other jobs stay as they are.     *)
LEMMA AppliedFacts ==
  ASSUME now \in 0..MaxNow, NEW ids, NEW st, Stored(st, ids, now),
         NEW rs, rs \subseteq Execution(born, now), \A e \in rs : e.st \in Outcomes
  PROVE  /\ Stored(Applied(st, rs), ids, now)
         /\ DOMAIN Applied(st, rs) \subseteq DOMAIN st
         /\ \A j \in DOMAIN Applied(st, rs) :
              Applied(st, rs)[j].enabled => st[j].enabled
         /\ \A e \in rs : e.job \in DOMAIN Applied(st, rs) =>
              Applied(st, rs)[e.job].marker = NoTime
         /\ \A j \in DOMAIN st : (\A e \in rs : e.job # j) =>
              j \in DOMAIN Applied(st, rs) /\ Applied(st, rs)[j] = st[j]
<1>1. DOMAIN Applied(st, rs) = DOMAIN st \ {e.job : e \in {x \in rs : Deletes(x)}}
  BY DEF Applied
<1>2. ASSUME NEW j \in DOMAIN Applied(st, rs), NEW x \in rs, x.job = j
      PROVE  /\ Applied(st, rs)[j] \in JobRec(now)
             /\ Applied(st, rs)[j].marker = NoTime
             /\ Applied(st, rs)[j].enabled => st[j].enabled
  <2>1. PICK e \in rs : e.job = j /\ Applied(st, rs)[j] = Finished(j, st[j], e)
    BY <1>2 DEF Applied
  <2>2. st[j] \in JobRec(now)
    BY <1>1 DEF Stored
  <2> QED BY <2>1, <2>2, FinishedFacts
<1>3. ASSUME NEW j \in DOMAIN st, \A e \in rs : e.job # j
      PROVE  j \in DOMAIN Applied(st, rs) /\ Applied(st, rs)[j] = st[j]
  <2>1. j \in DOMAIN Applied(st, rs)
    BY <1>1, <1>3
  <2> QED BY <1>1, <1>3, <2>1 DEF Applied
<1>4. DOMAIN Applied(st, rs) \subseteq DOMAIN st
  BY <1>1
<1>5. ASSUME NEW j \in DOMAIN Applied(st, rs)
      PROVE  j \in ids /\ Applied(st, rs)[j] \in JobRec(now)
             /\ (Applied(st, rs)[j].enabled => st[j].enabled)
  <2>1. j \in DOMAIN st /\ j \in ids /\ st[j] \in JobRec(now)
    BY <1>4 DEF Stored
  <2>2. CASE \E x \in rs : x.job = j
    BY <1>2, <2>1, <2>2
  <2>3. CASE \A x \in rs : x.job # j
    BY <1>3, <2>1, <2>3
  <2> QED BY <2>2, <2>3
<1>6. Stored(Applied(st, rs), ids, now)
  BY <1>5 DEF Stored
<1> QED BY <1>2, <1>3, <1>4, <1>5, <1>6

(* The first section of start() takes every marker off.                      *)
Cleared(st) == [j \in DOMAIN st |-> [st[j] EXCEPT !.marker = NoTime]]

LEMMA ClearedFacts ==
  ASSUME NEW ids, NEW st, Stored(st, ids, now)
  PROVE  /\ Stored(Cleared(st), ids, now)
         /\ DOMAIN Cleared(st) = DOMAIN st
         /\ \A j \in DOMAIN st : /\ Cleared(st)[j].marker = NoTime
                                 /\ Cleared(st)[j].next = st[j].next
                                 /\ Cleared(st)[j].enabled <=> st[j].enabled
<1>1. DOMAIN Cleared(st) = DOMAIN st
  BY DEF Cleared
<1>2. ASSUME NEW j \in DOMAIN st
      PROVE  /\ Cleared(st)[j] \in JobRec(now)
             /\ Cleared(st)[j].marker = NoTime
             /\ Cleared(st)[j].next = st[j].next
             /\ Cleared(st)[j].enabled <=> st[j].enabled
  <2>1. PICK r \in JobRec(now) : r = st[j]
    BY DEF Stored
  <2>2. PICK m : m = [r EXCEPT !.marker = NoTime]
    OBVIOUS
  <2>3. m \in JobRec(now) /\ m.marker = NoTime /\ m.next = r.next /\ (m.enabled <=> r.enabled)
    BY <2>2 DEF JobRec
  <2>4. Cleared(st)[j] = m
    BY <2>1, <2>2 DEF Cleared
  <2> QED BY <2>1, <2>3, <2>4
<1> QED BY <1>1, <1>2 DEF Stored

(* A job that add() makes, and one that update() changes.                    *)
LEMMA NewJobType ==
  ASSUME now \in 0..MaxNow, NEW j
  PROVE  NewJob(j) \in JobRec(now) /\ NewJob(j).marker = NoTime
<1>1. PICK r \in JobRec(now) :
        r = [enabled |-> TRUE, next |-> NoTime, marker |-> NoTime,
             last |-> "none", ranAt |-> NoTime]
  BY DEF JobRec, Times
<1>2. PICK m : m = [r EXCEPT !.next = NextRun(j, r)]
  OBVIOUS
<1>3. m \in JobRec(now) /\ m.marker = NoTime
  BY <1>1, <1>2, NextRunType DEF JobRec
<1>4. NewJob(j) = m
  BY <1>1, <1>2 DEF NewJob
<1> QED BY <1>3, <1>4

Patched(j, r, enabled) ==
  LET p == [r EXCEPT !.enabled = enabled]
  IN IF enabled THEN [p EXCEPT !.next = NextRun(j, p)]
     ELSE [p EXCEPT !.next = NoTime, !.marker = NoTime]

LEMMA PatchedFacts ==
  ASSUME now \in 0..MaxNow, NEW j, NEW r \in JobRec(now), NEW enabled \in BOOLEAN
  PROVE  /\ Patched(j, r, enabled) \in JobRec(now)
         /\ Patched(j, r, enabled).enabled <=> enabled
         /\ Patched(j, r, enabled).marker = IF enabled THEN r.marker ELSE NoTime
<1>1. PICK p : p = [r EXCEPT !.enabled = enabled]
  OBVIOUS
<1>2. p \in JobRec(now) /\ p.marker = r.marker
  BY <1>1 DEF JobRec
<1>3. p.enabled <=> enabled
  BY <1>1 DEF JobRec
<1>4. PICK m : m = IF enabled THEN [p EXCEPT !.next = NextRun(j, p)]
                   ELSE [p EXCEPT !.next = NoTime, !.marker = NoTime]
  OBVIOUS
<1>5. CASE enabled
  <2>1. m \in JobRec(now) /\ m.marker = p.marker /\ (m.enabled <=> p.enabled)
    BY <1>4, <1>5, <1>2, NextRunType DEF JobRec
  <2> QED BY <1>1, <1>4, <1>5, <1>2, <1>3, <2>1 DEF Patched
<1>6. CASE ~enabled
  <2>1. m \in JobRec(now) /\ m.marker = NoTime /\ (m.enabled <=> p.enabled)
    BY <1>4, <1>6, <1>2 DEF JobRec, Times
  <2> QED BY <1>1, <1>4, <1>6, <1>2, <1>3, <2>1 DEF Patched
<1> QED BY <1>5, <1>6

(* The end of run(): the store d, but for the job of e, which comes from the *)
(* store own.                                                                *)
Ended(d, own, e) ==
  [j \in IF e.job \in DOMAIN own THEN DOMAIN d ELSE DOMAIN d \ {e.job} |->
     IF j = e.job THEN own[j] ELSE d[j]]

LEMMA EndedFacts ==
  ASSUME now \in 0..MaxNow, NEW ids, NEW d, Stored(d, ids, now), NEW m, Stored(m, ids, now),
         NEW e \in Execution(born, now), e.st \in Outcomes,
         NEW st, st = Ended(d, Applied(m, {e}), e)
  PROVE  /\ Stored(st, ids, now)
         /\ DOMAIN st \subseteq DOMAIN d
         /\ \A j \in DOMAIN d : j # e.job => j \in DOMAIN st /\ st[j] = d[j]
         /\ e.job \in DOMAIN st => /\ st[e.job].marker = NoTime /\ e.job \in DOMAIN m
                                   /\ st[e.job].enabled => m[e.job].enabled
<1>1. PICK own : own = Applied(m, {e})
  OBVIOUS
<1>2. /\ Stored(own, ids, now)
      /\ DOMAIN own \subseteq DOMAIN m
      /\ \A j \in DOMAIN own : own[j].enabled => m[j].enabled
      /\ e.job \in DOMAIN own => own[e.job].marker = NoTime
  BY <1>1, AppliedFacts
<1>3. /\ DOMAIN st = IF e.job \in DOMAIN own THEN DOMAIN d ELSE DOMAIN d \ {e.job}
      /\ \A j \in DOMAIN st : st[j] = IF j = e.job THEN own[j] ELSE d[j]
  BY <1>1 DEF Ended
<1>4. Stored(st, ids, now)
  BY <1>2, <1>3 DEF Stored
<1> QED BY <1>2, <1>3, <1>4

-----------------------------------------------------------------------------
(* The types are kept *)

LEMMA StartedFacts ==
  ASSUME Types, NEW s \in Services, NEW by \in {"tick", "startup"} \cup Manuals,
         NEW js, js \subseteq born, NEW x \in {"waiting", "running"}
  PROVE  /\ Started(s, by, js, x) \subseteq Execution(born, now)
         /\ \A e \in Started(s, by, js, x) :
              e.svc = s /\ e.by = by /\ e.job \in js /\ e.since = now /\ e.st = x
         /\ \A j \in js : \E e \in Started(s, by, js, x) : e.job = j
         /\ \A e, f \in Started(s, by, js, x) : e.job = f.job => e = f
<1>1. ASSUME NEW j \in js
      PROVE  [svc |-> s, by |-> by, job |-> j, st |-> x, since |-> now] \in Execution(born, now)
  BY DEF Types, Execution
<1>2. ASSUME NEW e \in Started(s, by, js, x)
      PROVE  e.svc = s /\ e.by = by /\ e.job \in js /\ e.since = now /\ e.st = x
  BY DEF Started
<1>3. ASSUME NEW j \in js PROVE \E e \in Started(s, by, js, x) : e.job = j
  <2>1. [svc |-> s, by |-> by, job |-> j, st |-> x, since |-> now] \in Started(s, by, js, x)
    BY DEF Started
  <2> QED BY <2>1
<1>4. ASSUME NEW e \in Started(s, by, js, x), NEW f \in Started(s, by, js, x), e.job = f.job
      PROVE  e = f
  <2>1. PICK i \in js : e = [svc |-> s, by |-> by, job |-> i, st |-> x, since |-> now]
    BY DEF Started
  <2>2. PICK j \in js : f = [svc |-> s, by |-> by, job |-> j, st |-> x, since |-> now]
    BY DEF Started
  <2> QED BY <1>4, <2>1, <2>2
<1>5. Started(s, by, js, x) \subseteq Execution(born, now)
  BY <1>1 DEF Started
<1> QED BY <1>2, <1>3, <1>4, <1>5

LEMMA PersistTypes ==
  ASSUME Types, born \subseteq born', born' \subseteq Jobs, now' = now,
         NEW s \in Services, NEW st, Stored(st, born', now), NEW ok \in BOOLEAN,
         Persist(s, st, ok)
  PROVE  /\ Stored(disk', born', now')
         /\ DOMAIN mem' = Services /\ \A q \in Services : Stored(mem'[q], born', now')
         /\ mem'[s] = st /\ \A q \in Services : q # s => mem'[q] = mem[q]
         /\ failures' \in Nat /\ (failures' = 0 => ok /\ failures = 0)
         /\ IF ok THEN disk' = st ELSE disk' = disk
<1>1. Stored(disk, born', now)
  BY DEF Types, Stored
<1>2. ASSUME NEW q \in Services PROVE Stored(mem[q], born', now)
  BY DEF Types, Stored
<1>3. /\ DOMAIN mem' = Services /\ mem'[s] = st
      /\ \A q \in Services : q # s => mem'[q] = mem[q]
  BY DEF Types, Persist
<1>4. ASSUME NEW q \in Services PROVE Stored(mem'[q], born', now')
  BY <1>2, <1>3
<1>5. Stored(disk', born', now')
  BY <1>1 DEF Persist
<1> QED BY <1>3, <1>4, <1>5 DEF Persist, Types

LEMMA BatchFacts ==
  ASSUME Types, NEW s, NEW by
  PROVE  Batch(s, by) \subseteq execs /\ Batch(s, by) \subseteq Execution(born, now)
BY DEF Types, Batch

LEMMA SectionTypes ==
  ASSUME Types, NEW s \in Services, NEW ok \in BOOLEAN, Section(s, ok)
  PROVE  Types'
<1> USE DEF bounds
<1>1. /\ now \in 0..MaxNow /\ born \subseteq Jobs /\ UNCHANGED <<now, bounds>>
      /\ Stored(disk, born, now) /\ Stored(mem[s], born, now)
      /\ DOMAIN disk \subseteq born /\ DOMAIN mem[s] \subseteq born
  <2>1. UNCHANGED <<now, bounds>>
    BY DEF Section, StartLoads, CatchUpBegins, CatchUpApplies, StartFinishes, TickBegins,
           TickIdles, TickApplies
  <2> QED BY <2>1 DEF Types, Stored
<1>2. \E st : Stored(st, born, now) /\ Persist(s, st, ok)
  <2>1. CASE StartLoads(s, ok)
    BY <1>1, <2>1, ClearedFacts DEF StartLoads, Cleared
  <2>2. CASE CatchUpBegins(s, ok)
    BY <1>1, <2>2, MarkedFacts DEF CatchUpBegins
  <2>3. CASE CatchUpApplies(s, ok)
    BY <1>1, <2>3, BatchFacts, AppliedFacts, MaintainedFacts DEF CatchUpApplies
  <2>4. CASE StartFinishes(s, ok)
    BY <1>1, <2>4, RecomputedFacts DEF StartFinishes
  <2>5. CASE TickBegins(s, ok)
    BY <1>1, <2>5, MarkedFacts DEF TickBegins
  <2>6. CASE TickIdles(s, ok)
    BY <1>1, <2>6, MaintainedFacts DEF TickIdles
  <2>7. CASE TickApplies(s, ok)
    BY <1>1, <2>7, BatchFacts, AppliedFacts, MaintainedFacts DEF TickApplies
  <2> QED BY <2>1, <2>2, <2>3, <2>4, <2>5, <2>6, <2>7 DEF Section
<1>3. /\ Stored(disk', born', now') /\ failures' \in Nat
      /\ DOMAIN mem' = Services /\ \A q \in Services : Stored(mem'[q], born', now')
  BY <1>1, <1>2, PersistTypes
<1>4. execs' \subseteq Execution(born, now)
  <2>1. ASSUME NEW js, js \subseteq born, NEW by \in {"tick", "startup"}
        PROVE  Started(s, by, js, "waiting") \subseteq Execution(born, now)
    BY <2>1, StartedFacts
  <2>2. CASE CatchUpBegins(s, ok)
    <3>1. {j \in DOMAIN mem[s] \ skip[s] : Missed(j, mem[s][j])} \subseteq born
      BY <1>1
    <3> QED BY <2>1, <2>2, <3>1 DEF CatchUpBegins, Types
  <2>3. CASE TickBegins(s, ok)
    <3>1. {j \in DOMAIN disk : Runnable(disk[j])} \subseteq born
      BY <1>1
    <3> QED BY <2>1, <2>3, <3>1 DEF TickBegins, Types
  <2> QED BY <2>2, <2>3 DEF Section, StartLoads, CatchUpApplies, StartFinishes,
             TickIdles, TickApplies, Types
<1>5. /\ phase' \in [Services -> {"off", "load", "missed", "catchup", "caughtup", "finish", "on"}]
      /\ tick' \in [Services -> {"idle", "begin", "jobs", "end"}]
  BY DEF Types, Section, StartLoads, CatchUpBegins, CatchUpApplies, StartFinishes, TickBegins,
         TickIdles, TickApplies
<1>6. timer' \in [Services -> BOOLEAN]
  BY DEF Types, Section, StartLoads, CatchUpBegins, CatchUpApplies, StartFinishes, TickBegins,
         TickIdles, TickApplies, Arm, HasWake
<1>7. cur' \in Services /\ runs' \in Nat /\ edits' \in Nat /\ handover' \in BOOLEAN
  BY <1>1 DEF Types
<1> QED BY <1>1, <1>3, <1>4, <1>5, <1>6, <1>7 DEF Types

LEMMA ExecutionTypes ==
  ASSUME Types, NEW e \in execs, JobStarts(e) \/ \E o \in OutcomesOf(e.job) : JobEnds(e, o)
  PROVE  /\ execs' \subseteq Execution(born, now)
         /\ \E f : /\ execs' = (execs \ {e}) \cup {f}
                   /\ f.svc = e.svc /\ f.by = e.by /\ f.job = e.job /\ f.since = e.since
<1>1. PICK x \in Outcomes \cup {"running"} : execs' = (execs \ {e}) \cup {[e EXCEPT !.st = x]}
  BY DEF JobStarts, JobEnds, OutcomesOf, Outcomes
<1>2. PICK f : f = [e EXCEPT !.st = x]
  OBVIOUS
<1>3. /\ f \in Execution(born, now)
      /\ f.svc = e.svc /\ f.by = e.by /\ f.job = e.job /\ f.since = e.since
  BY <1>2 DEF Types, Execution
<1> QED BY <1>1, <1>2, <1>3 DEF Types

(* What update(), remove() and add() save, before recomputation.             *)
LEMMA EditedFacts ==
  ASSUME Types, NEW j \in Jobs
  PROVE  /\ j \in DOMAIN mem[cur] => \A enabled \in BOOLEAN :
              Stored([mem[cur] EXCEPT ![j] = Patched(j, mem[cur][j], enabled)], born, now)
         /\ Stored([i \in DOMAIN mem[cur] \ {j} |-> mem[cur][i]], born, now)
         /\ Stored([i \in DOMAIN mem[cur] \cup {j} |-> IF i = j THEN NewJob(j) ELSE mem[cur][i]],
                   born \cup {j}, now)
<1>1. now \in 0..MaxNow /\ Stored(mem[cur], born, now)
  BY DEF Types
<1>2. PICK m : m = mem[cur]
  OBVIOUS
<1>3. ASSUME NEW enabled \in BOOLEAN, j \in DOMAIN m
      PROVE  Stored([m EXCEPT ![j] = Patched(j, m[j], enabled)], born, now)
  <2>1. PICK p \in JobRec(now) : p = Patched(j, m[j], enabled)
    BY <1>1, <1>2, <1>3, PatchedFacts DEF Stored
  <2>2. Stored([m EXCEPT ![j] = p], born, now)
    BY <1>1, <1>2, <1>3 DEF Stored
  <2> QED BY <2>1, <2>2
<1>4. Stored([i \in DOMAIN m \ {j} |-> m[i]], born, now)
  BY <1>1, <1>2 DEF Stored
<1>5. PICK p \in JobRec(now) : p = NewJob(j)
  BY <1>1, NewJobType
<1>6. Stored([i \in DOMAIN m \cup {j} |-> IF i = j THEN p ELSE m[i]], born \cup {j}, now)
  BY <1>1, <1>2 DEF Stored
<1> QED BY <1>2, <1>3, <1>4, <1>5, <1>6

(* A request that saves a well-typed store. *)
LEMMA SavedTypes ==
  ASSUME Types, UNCHANGED request, born \subseteq born', born' \subseteq Jobs,
         runs' \in Nat, edits' \in Nat,
         NEW s \in Services, NEW st, Stored(st, born', now), NEW ok \in BOOLEAN,
         Persist(s, st, ok), execs' \subseteq Execution(born', now),
         timer' = timer \/ Arm(s, st, ok)
  PROVE  Types'
<1>1. timer' \in [Services -> BOOLEAN]
  BY DEF Types, Arm, HasWake
<1>2. now' = now
  BY DEF request
<1>3. /\ Stored(disk', born', now') /\ failures' \in Nat
      /\ DOMAIN mem' = Services /\ \A q \in Services : Stored(mem'[q], born', now')
  BY <1>2, PersistTypes
<1> QED BY <1>1, <1>2, <1>3 DEF Types, request

LEMMA RunTypes ==
  ASSUME Types, NEW m \in Manuals, NEW j \in Jobs, NEW force \in BOOLEAN, NEW ok \in BOOLEAN,
         RunBegins(m, j, force, ok)
  PROVE  Types'
<1>1. now \in 0..MaxNow /\ cur \in Services /\ Stored(mem[cur], born, now)
  BY DEF Types
<1>2. Stored(Marked(Maintained(mem[cur]), {j}), born, now)
  BY <1>1, MaintainedFacts, MarkedFacts
<1>3. Started(cur, m, {j}, "running") \subseteq Execution(born, now)
  <2>1. j \in DOMAIN Maintained(mem[cur])
    BY DEF RunBegins
  <2>2. {j} \subseteq born
    BY <1>1, <2>1 DEF Maintained, Stored
  <2> QED BY <1>1, <2>2, StartedFacts
<1>4. execs' \subseteq Execution(born, now)
  BY <1>3 DEF RunBegins, Types
<1>5. /\ UNCHANGED request /\ born' = born /\ born \subseteq Jobs /\ runs' \in Nat /\ edits' \in Nat
      /\ Persist(cur, Marked(Maintained(mem[cur]), {j}), ok) /\ timer' = timer
  BY DEF RunBegins, Types
<1> QED BY <1>1, <1>2, <1>4, <1>5, SavedTypes

LEMMA RunEndTypes ==
  ASSUME Types, NEW e \in execs, NEW ok \in BOOLEAN, RunEnds(e, ok)
  PROVE  Types'
<1>1. now \in 0..MaxNow /\ Stored(disk, born, now) /\ \A s \in Services : Stored(mem[s], born, now)
  BY DEF Types
<1>2. /\ e \in Execution(born, now) /\ e.svc \in Services /\ e.st \in Outcomes
      /\ UNCHANGED request /\ UNCHANGED <<born, runs, edits>> /\ execs' \subseteq execs
  BY DEF Types, Execution, RunEnds
<1>3. CASE e.job \in DOMAIN mem[e.svc]
  <2>1. PICK st : st = Maintained(Ended(disk, Applied(mem[e.svc], {e}), e))
    OBVIOUS
  <2>2. Stored(st, born, now)
    BY <1>1, <1>2, <2>1, EndedFacts, MaintainedFacts
  <2>3. Persist(e.svc, st, ok) /\ Arm(e.svc, st, ok)
    BY <1>3, <2>1 DEF RunEnds, Ended
  <2>4. /\ born' = born /\ born \subseteq Jobs /\ runs' \in Nat /\ edits' \in Nat
        /\ execs' \subseteq Execution(born, now)
    BY <1>2 DEF Types
  <2> QED BY <1>2, <2>2, <2>3, <2>4, SavedTypes
<1>4. CASE e.job \notin DOMAIN mem[e.svc]
  BY <1>2, <1>4 DEF RunEnds, Types, request
<1> QED BY <1>3, <1>4

LEMMA EditTypes ==
  ASSUME Types, NEW j \in Jobs, NEW enabled \in BOOLEAN, NEW ok \in BOOLEAN,
         Add(j, ok) \/ Update(j, enabled, ok) \/ Remove(j, ok)
  PROVE  Types'
<1>1. now \in 0..MaxNow /\ cur \in Services
  BY DEF Types
<1>2. /\ UNCHANGED request /\ runs' \in Nat /\ edits' \in Nat /\ execs' = execs
      /\ born \subseteq born' /\ born' \subseteq Jobs
  BY DEF Add, Update, Remove, Edit, Types
<1>3. execs' \subseteq Execution(born', now)
  BY <1>2 DEF Types, Execution
<1>4. \E st : Stored(st, born', now) /\ Persist(cur, st, ok) /\ Arm(cur, st, ok)
  <2>1. CASE Add(j, ok)
    <3>1. PICK st : st = [i \in DOMAIN mem[cur] \cup {j} |-> IF i = j THEN NewJob(j) ELSE mem[cur][i]]
      OBVIOUS
    <3>2. Stored(st, born \cup {j}, now)
      BY <3>1, EditedFacts
    <3>3. /\ Persist(cur, Recomputed(st), ok) /\ Arm(cur, Recomputed(st), ok)
          /\ born' = born \cup {j}
      BY <2>1, <3>1 DEF Add
    <3>4. Stored(Recomputed(st), born', now)
      BY <1>1, <3>2, <3>3, RecomputedFacts
    <3> QED BY <3>3, <3>4
  <2>2. CASE Update(j, enabled, ok)
    <3>1. PICK st : st = [mem[cur] EXCEPT ![j] = Patched(j, mem[cur][j], enabled)]
      OBVIOUS
    <3>2. j \in DOMAIN mem[cur] /\ born' = born /\ Persist(cur, st, ok) /\ Arm(cur, st, ok)
      BY <2>2, <3>1 DEF Update, Patched
    <3> QED BY <3>1, <3>2, EditedFacts
  <2>3. CASE Remove(j, ok)
    <3>1. PICK st : st = [i \in DOMAIN mem[cur] \ {j} |-> mem[cur][i]]
      OBVIOUS
    <3>2. born' = born /\ Persist(cur, st, ok) /\ Arm(cur, st, ok)
      BY <2>3, <3>1 DEF Remove
    <3> QED BY <3>1, <3>2, EditedFacts
  <2> QED BY <2>1, <2>2, <2>3
<1>5. PICK st : Stored(st, born', now) /\ Persist(cur, st, ok) /\ Arm(cur, st, ok)
  BY <1>4
<1> QED BY <1>1, <1>2, <1>3, <1>5, SavedTypes

LEMMA ReadTypes ==
  ASSUME Types, NEW ok \in BOOLEAN, Read(ok) \/ RunRefused
  PROVE  Types'
<1>1. now \in 0..MaxNow /\ cur \in Services /\ Stored(mem[cur], born, now)
  BY DEF Types
<1>2. Stored(Maintained(mem[cur]), born, now)
  BY <1>1, MaintainedFacts
<1>3. CASE Read(ok)
  <2>1. /\ UNCHANGED request /\ born' = born /\ born \subseteq Jobs /\ runs' \in Nat /\ edits' \in Nat
        /\ Persist(cur, Maintained(mem[cur]), ok) /\ timer' = timer
        /\ execs' \subseteq Execution(born, now)
    BY <1>3 DEF Read, Types
  <2> QED BY <1>1, <1>2, <2>1, SavedTypes
<1>4. CASE RunRefused
  BY <1>2, <1>4 DEF RunRefused, request, Types
<1> QED BY <1>3, <1>4

LEMMA TypesKept ==
  ASSUME Types, Step
  PROVE  Types'
<1>1. ASSUME NEW s \in Services, NothingMissed(s) \/ TimerFires(s) \/ TickEnds(s) PROVE Types'
  <2>1. /\ phase' \in [Services -> {"off", "load", "missed", "catchup", "caughtup", "finish", "on"}]
        /\ tick' \in [Services -> {"idle", "begin", "jobs", "end"}]
        /\ timer' \in [Services -> BOOLEAN]
    BY <1>1 DEF Types, NothingMissed, TimerFires, TickEnds, HasWake
  <2>2. UNCHANGED <<now, disk, mem, execs, failures, bounds>>
    BY <1>1 DEF NothingMissed, TimerFires, TickEnds
  <2> QED BY <2>1, <2>2 DEF Types, bounds
<1>2. ASSUME NEW e \in execs, JobStarts(e) \/ \E o \in OutcomesOf(e.job) : JobEnds(e, o)
      PROVE  Types'
  <2>1. UNCHANGED <<now, disk, mem, phase, tick, timer, failures, bounds>>
    BY <1>2 DEF JobStarts, JobEnds
  <2> QED BY <1>2, <2>1, ExecutionTypes DEF Types, bounds
<1>3. CASE Replace
  <2>1. cur' \in Services
    BY <1>3, CronAssumption DEF Replace, Types, Services
  <2>2. handover' \in BOOLEAN
    BY <1>3 DEF Replace
  <2>3. timer' \in [Services -> BOOLEAN]
    BY <1>3 DEF Replace, Types
  <2>4. phase' \in [Services -> {"off", "load", "missed", "catchup", "caughtup", "finish", "on"}]
    BY <1>3 DEF Replace, Types
  <2> QED BY <1>3, <2>1, <2>2, <2>3, <2>4 DEF Replace, Types
<1>4. CASE Crash
  <2>1. cur' \in Services
    BY <1>4, CronAssumption DEF Crash, Types, Services
  <2>2. DOMAIN mem' = Services /\ \A s \in Services : Stored(mem'[s], born', now')
    BY <1>4 DEF Crash, Stored
  <2>3. /\ timer' \in [Services -> BOOLEAN] /\ execs' \subseteq Execution(born', now')
        /\ tick' \in [Services -> {"idle", "begin", "jobs", "end"}]
        /\ phase' \in [Services -> {"off", "load", "missed", "catchup", "caughtup", "finish", "on"}]
    BY <1>4 DEF Crash
  <2> QED BY <1>4, <2>1, <2>2, <2>3 DEF Crash, Types
<1>5. CASE ClockTicks
  <2>1. /\ now' = now + 1 /\ now' \in 0..MaxNow
        /\ UNCHANGED <<disk, mem, phase, tick, timer, execs, failures, bounds>>
    BY <1>5, CronAssumption DEF ClockTicks, Types
  <2>2. JobRec(now) \subseteq JobRec(now + 1) /\ Execution(born, now) \subseteq Execution(born, now + 1)
    <3>1. 0..now \subseteq 0..(now + 1)
      BY DEF Types
    <3> QED BY <3>1 DEF JobRec, Execution
  <2>3. execs' \subseteq Execution(born', now')
    BY <2>1, <2>2 DEF Types, bounds
  <2>4. Stored(disk', born', now') /\ \A s \in Services : Stored(mem'[s], born', now')
    BY <2>1, <2>2 DEF Types, Stored, bounds
  <2> QED BY <2>1, <2>3, <2>4 DEF Types, bounds
<1> QED BY <1>1, <1>2, <1>3, <1>4, <1>5, SectionTypes,
           RunTypes, RunEndTypes, EditTypes, ReadTypes DEF Step

-----------------------------------------------------------------------------
(* Which service acts *)

(* A service that does anything was started, and is the current one unless   *)
(* there was a handover.                                                     *)
LEMMA ActingService ==
  ASSUME Types, OneService, NEW q \in Services,
         tick[q] # "idle" \/ timer[q] \/ (\E e \in execs : e.svc = q) \/ phase[q] \notin {"off", "on"}
  PROVE  /\ q <= cur
         /\ ~handover => q = cur
         /\ ~handover /\ phase[q] = "load" => Resting(q)
BY DEF Types, OneService, Resting, Services

(* The service q moves, and at most its own executions begin.                *)
LEMMA OneServiceMoves ==
  ASSUME Types, OneService, cur' = cur, handover' = handover,
         NEW q \in Services, q <= cur, ~handover => q = cur,
         q = cur => phase'[q] # "off",
         ~handover => phase'[q] # "load",
         \A s \in Services : s # q =>
           /\ tick'[s] = tick[s] /\ timer'[s] = timer[s] /\ phase'[s] = phase[s]
           /\ (\A e \in execs : e.svc # s) => (\A e \in execs' : e.svc # s)
  PROVE  OneService'
<1>1. \A s \in Services : s # q /\ Resting(s) => Resting(s)'
  BY DEF Resting
<1>2. cur \in Services /\ phase'[cur] # "off"
  BY DEF Types, OneService
<1>3. \A s \in Services : s > cur => Resting(s)' /\ phase'[s] = "off"
  BY <1>1 DEF OneService, Types, Services
<1>4. ~handover => \A s \in Services : s # cur => Resting(s)' /\ phase'[s] \in {"off", "on"}
  BY <1>1 DEF OneService
<1>5. ~handover => phase'[cur] # "load"
  OBVIOUS
<1> QED BY <1>2, <1>3, <1>4, <1>5 DEF OneService

LEMMA OneServiceKept ==
  ASSUME Types, OneService, Step
  PROVE  OneService'
<1>1. ASSUME NEW s \in Services, NEW ok \in BOOLEAN, Section(s, ok) PROVE OneService'
  <2>1. tick[s] # "idle" \/ phase[s] \notin {"off", "on"}
    BY <1>1 DEF Section, StartLoads, CatchUpBegins, CatchUpApplies, StartFinishes, TickBegins,
                TickIdles, TickApplies
  <2>2. s <= cur /\ (~handover => s = cur) /\ (~handover /\ phase[s] = "load" => Resting(s))
    BY <2>1, ActingService
  <2>3. cur' = cur /\ handover' = handover
    BY <1>1 DEF Section, StartLoads, CatchUpBegins, CatchUpApplies, StartFinishes, TickBegins,
                TickIdles, TickApplies, bounds
  <2>5. /\ \/ phase'[s] = phase[s] /\ tick[s] # "idle"
           \/ phase'[s] \notin {"off", "load"}
        /\ \A q \in Services : q # s =>
             tick'[q] = tick[q] /\ timer'[q] = timer[q] /\ phase'[q] = phase[q]
    <3>1. CASE StartLoads(s, ok) \/ CatchUpBegins(s, ok) \/ CatchUpApplies(s, ok)
      BY <3>1 DEF StartLoads, CatchUpBegins, CatchUpApplies, Types
    <3>2. CASE StartFinishes(s, ok)
      BY <3>2 DEF StartFinishes, Types, Arm
    <3>3. CASE TickBegins(s, ok) \/ TickIdles(s, ok) \/ TickApplies(s, ok)
      BY <3>3 DEF TickBegins, TickIdles, TickApplies, Types
    <3> QED BY <1>1, <3>1, <3>2, <3>3 DEF Section
  <2>6. \A e \in execs' : e \in execs \/ e.svc = s
    <3>1. ASSUME NEW by, NEW js PROVE \A e \in Started(s, by, js, "waiting") : e.svc = s
      BY DEF Started
    <3> QED BY <1>1, <3>1 DEF Section, StartLoads, CatchUpBegins, CatchUpApplies, StartFinishes,
               TickBegins, TickIdles, TickApplies
  <2>7. (s = cur => phase'[s] # "off") /\ (~handover => phase'[s] # "load")
    BY <2>2, <2>5 DEF OneService, Resting
  <2> QED BY <2>2, <2>3, <2>5, <2>6, <2>7, OneServiceMoves
<1>2. ASSUME NEW s \in Services, NothingMissed(s) \/ TimerFires(s) \/ TickEnds(s)
      PROVE  OneService'
  <2>1. tick[s] # "idle" \/ timer[s] \/ phase[s] \notin {"off", "on"}
    BY <1>2 DEF NothingMissed, TimerFires, TickEnds
  <2>2. s <= cur /\ (~handover => s = cur) /\ (~handover /\ phase[s] = "load" => Resting(s))
    BY <2>1, ActingService
  <2>3. cur' = cur /\ handover' = handover /\ execs' = execs
    BY <1>2 DEF NothingMissed, TimerFires, TickEnds, bounds
  <2>4. /\ \/ phase'[s] = phase[s] /\ (tick[s] # "idle" \/ timer[s])
           \/ phase'[s] = "finish"
        /\ \A q \in Services : q # s =>
             tick'[q] = tick[q] /\ timer'[q] = timer[q] /\ phase'[q] = phase[q]
    BY <1>2 DEF NothingMissed, TimerFires, TickEnds, Types
  <2>5. (s = cur => phase'[s] # "off") /\ (~handover => phase'[s] # "load")
    BY <2>2, <2>4 DEF OneService, Resting
  <2> QED BY <2>2, <2>3, <2>4, <2>5, OneServiceMoves
<1>3. ASSUME NEW e \in execs,
             \/ JobStarts(e) \/ \E o \in OutcomesOf(e.job) : JobEnds(e, o)
             \/ \E ok \in BOOLEAN : RunEnds(e, ok)
      PROVE  OneService'
  <2>1. e.svc \in Services /\ (~handover => phase[e.svc] # "load" \/ ~Resting(e.svc))
    BY DEF Types, Execution, Resting
  <2>2. /\ e.svc <= cur /\ (~handover => e.svc = cur)
        /\ ~handover => phase[e.svc] # "load"
    BY <2>1, ActingService DEF Resting
  <2>3. /\ cur' = cur /\ handover' = handover /\ tick' = tick /\ phase' = phase
        /\ \A s \in Services : s # e.svc => timer'[s] = timer[s]
    BY <1>3 DEF JobStarts, JobEnds, RunEnds, bounds, request, Arm, Types
  <2>4. \A x \in execs' : x \in execs \/ x.svc = e.svc
    BY <1>3, ExecutionTypes DEF RunEnds
  <2> QED BY <2>1, <2>2, <2>3, <2>4, OneServiceMoves DEF OneService
<1>4. ASSUME Serving, cur' = cur, handover' = handover, tick' = tick, phase' = phase,
             timer' = timer \/ (\E st, ok : Arm(cur, st, ok)),
             \A x \in execs' : x \in execs \/ x.svc = cur
      PROVE  OneService'
  <2>1. \A s \in Services : s # cur => timer'[s] = timer[s]
    BY <1>4 DEF Arm, Types
  <2>2. cur \in Services /\ cur <= cur
    BY DEF Types, Services
  <2>3. phase'[cur] # "off" /\ phase'[cur] # "load"
    BY <1>4 DEF Serving
  <2> QED BY <1>4, <2>1, <2>2, <2>3, OneServiceMoves
<1>5. ASSUME NEW m \in Manuals, NEW j \in Jobs, NEW force \in BOOLEAN, NEW ok \in BOOLEAN,
             RunBegins(m, j, force, ok)
      PROVE  OneService'
  <2>1. \A x \in Started(cur, m, {j}, "running") : x.svc = cur
    BY DEF Started
  <2> QED BY <1>4, <1>5, <2>1 DEF RunBegins, request
<1>6. CASE RunRefused
  BY <1>4, <1>6 DEF RunRefused, request
<1>7. ASSUME NEW j \in Jobs, NEW enabled \in BOOLEAN, NEW ok \in BOOLEAN,
             Add(j, ok) \/ Remove(j, ok) \/ Update(j, enabled, ok)
      PROVE  OneService'
  BY <1>4, <1>7 DEF Add, Remove, Update, Edit, request
<1>8. ASSUME NEW ok \in BOOLEAN, Read(ok) PROVE OneService'
  BY <1>4, <1>8 DEF Read, request
<1>9. CASE Replace
  <2>1. cur \in Services /\ cur' = cur + 1 /\ cur' \in Services
    BY <1>9, TypesKept DEF Replace, Types
  <2>2. /\ tick' = tick /\ execs' = execs
        /\ timer' = [timer EXCEPT ![cur] = FALSE]
        /\ phase' = [phase EXCEPT ![cur + 1] = "load"]
    BY <1>9 DEF Replace
  <2>3. \A s \in Services : Resting(s) => Resting(s)'
    BY <2>2 DEF Resting, Types
  <2>4. \A s \in Services : s > cur + 1 => Resting(s)' /\ phase'[s] = "off"
    BY <2>1, <2>2, <2>3 DEF OneService, Types, Services
  <2>5. PICK q \in Services : q = cur + 1 /\ q > cur
    BY <2>1 DEF Services
  <2>7. Resting(q)' /\ phase'[q] = "load"
    BY <2>2, <2>3, <2>5 DEF OneService, Types
  <2>6. ASSUME ~handover', NEW s \in Services, s # cur + 1
        PROVE  Resting(s)' /\ phase'[s] \in {"off", "on"}
    <3>1. ~handover /\ execs = {} /\ tick[cur] = "idle" /\ phase[cur] = "on"
      BY <1>9, <2>6 DEF Replace, Types
    <3>2. CASE s = cur
      BY <2>1, <2>2, <3>1, <3>2 DEF Resting, Types, Services
    <3>3. CASE s # cur
      BY <2>2, <2>3, <2>6, <3>1, <3>3 DEF OneService, Types
    <3> QED BY <3>2, <3>3
  <2>8. cur' = q
    BY <2>1, <2>5
  <2> QED BY <2>4, <2>5, <2>6, <2>7, <2>8 DEF OneService
<1>10. CASE Crash
  <2>1. cur' = cur + 1 /\ cur' \in Services
    BY <1>10, TypesKept DEF Crash, Types
  <2>2. /\ \A s \in Services : Resting(s)'
        /\ \A s \in Services : phase'[s] = IF s = cur + 1 THEN "load" ELSE "off"
    BY <1>10 DEF Crash, Resting
  <2> QED BY <2>1, <2>2 DEF OneService, Services
<1>11. CASE ClockTicks
  BY <1>11 DEF ClockTicks, bounds, OneService, Resting
<1> QED BY <1>1, <1>2, <1>3, <1>5, <1>6, <1>7, <1>8, <1>9, <1>10, <1>11 DEF Step

(* No batch begins or ends.                                                  *)
LEMMA BatchesSame ==
  ASSUME Batches,
         \A q \in Services : /\ tick'[q] = "jobs" <=> tick[q] = "jobs"
                             /\ phase'[q] = "catchup" <=> phase[q] = "catchup",
         \A q \in Services, by \in {"tick", "startup"} :
           (\E e \in execs' : e.svc = q /\ e.by = by) <=> (\E e \in execs : e.svc = q /\ e.by = by)
  PROVE  Batches'
<1>1. ASSUME NEW q \in Services, NEW by \in {"tick", "startup"}
      PROVE  Batch(q, by)' # {} <=> Batch(q, by) # {}
  BY DEF Batch
<1> QED BY <1>1 DEF Batches

(* A batch of the service s begins when there was none, or is over.          *)
LEMMA BatchMoves ==
  ASSUME Types, Batches, NEW s \in Services, NEW by \in {"tick", "startup"},
         IF by = "tick" THEN phase' = phase /\ \A q \in Services : q # s => tick'[q] = tick[q]
         ELSE tick' = tick /\ \A q \in Services : q # s => phase'[q] = phase[q],
         \A e \in execs' : e \notin execs => e.svc = s /\ e.by = by,
         \A e \in execs : e \notin execs' => e.svc = s /\ e.by = by,
         (IF by = "tick" THEN tick'[s] = "jobs" ELSE phase'[s] = "catchup")
           <=> \E e \in execs' : e.svc = s /\ e.by = by
  PROVE  Batches'
<1>1. ASSUME NEW q \in Services, NEW b \in {"tick", "startup"}, q # s \/ b # by
      PROVE  Batch(q, b)' = Batch(q, b)
  BY <1>1 DEF Batch
<1>2. (IF by = "tick" THEN tick'[s] = "jobs" ELSE phase'[s] = "catchup") <=> Batch(s, by)' # {}
  BY DEF Batch
<1>3. ASSUME NEW q \in Services PROVE tick'[q] = "jobs" <=> Batch(q, "tick")' # {}
  BY <1>1, <1>2 DEF Batches
<1>4. ASSUME NEW q \in Services PROVE phase'[q] = "catchup" <=> Batch(q, "startup")' # {}
  BY <1>1, <1>2 DEF Batches
<1> QED BY <1>3, <1>4 DEF Batches

LEMMA BatchesKept ==
  ASSUME Types, OneService, Batches, Step
  PROVE  Batches'
<1>1. ASSUME NEW s \in Services, NEW ok \in BOOLEAN,
             StartLoads(s, ok) \/ StartFinishes(s, ok) \/ TickIdles(s, ok)
      PROVE  Batches'
  <2>1. execs' = execs
        /\ \A q \in Services : /\ tick'[q] = "jobs" <=> tick[q] = "jobs"
                               /\ phase'[q] = "catchup" <=> phase[q] = "catchup"
    BY <1>1 DEF StartLoads, StartFinishes, TickIdles, Types
  <2> QED BY <2>1, BatchesSame
<1>2. ASSUME NEW s \in Services, NothingMissed(s) \/ TimerFires(s) \/ TickEnds(s) PROVE Batches'
  <2>1. execs' = execs
        /\ \A q \in Services : /\ tick'[q] = "jobs" <=> tick[q] = "jobs"
                               /\ phase'[q] = "catchup" <=> phase[q] = "catchup"
    BY <1>2 DEF NothingMissed, TimerFires, TickEnds, Types
  <2> QED BY <2>1, BatchesSame
<1>3. ASSUME NEW s \in Services, NEW ok \in BOOLEAN, CatchUpBegins(s, ok) PROVE Batches'
  <2>1. PICK js : /\ js # {} /\ js \subseteq born
                  /\ execs' = execs \cup (IF ok THEN Started(s, "startup", js, "waiting") ELSE {})
    BY <1>3 DEF CatchUpBegins, Types, Stored
  <2>2. /\ \A e \in Started(s, "startup", js, "waiting") : e.svc = s /\ e.by = "startup"
        /\ \E e \in Started(s, "startup", js, "waiting") : TRUE
    BY <2>1, StartedFacts
  <2>3. /\ tick' = tick /\ phase[s] = "missed"
        /\ phase' = [phase EXCEPT ![s] = IF ok THEN "catchup" ELSE "on"]
    BY <1>3 DEF CatchUpBegins
  <2>4. \A e \in execs : ~(e.svc = s /\ e.by = "startup")
    BY <2>3 DEF Batches, Batch
  <2>5. phase'[s] = "catchup" <=> \E e \in execs' : e.svc = s /\ e.by = "startup"
    BY <2>1, <2>2, <2>3, <2>4 DEF Types
  <2>6. \A q \in Services : q # s => phase'[q] = phase[q]
    BY <2>3 DEF Types
  <2> QED BY <2>1, <2>2, <2>3, <2>5, <2>6, BatchMoves
<1>4. ASSUME NEW s \in Services, NEW ok \in BOOLEAN, TickBegins(s, ok) PROVE Batches'
  <2>1. PICK js : /\ js # {} /\ js \subseteq born
                  /\ execs' = execs \cup (IF ok THEN Started(s, "tick", js, "waiting") ELSE {})
    BY <1>4 DEF TickBegins, Types, Stored
  <2>2. /\ \A e \in Started(s, "tick", js, "waiting") : e.svc = s /\ e.by = "tick"
        /\ \E e \in Started(s, "tick", js, "waiting") : TRUE
    BY <2>1, StartedFacts
  <2>3. /\ phase' = phase /\ tick[s] = "begin"
        /\ tick' = [tick EXCEPT ![s] = IF ok THEN "jobs" ELSE "end"]
    BY <1>4 DEF TickBegins
  <2>4. \A e \in execs : ~(e.svc = s /\ e.by = "tick")
    BY <2>3 DEF Batches, Batch
  <2>5. tick'[s] = "jobs" <=> \E e \in execs' : e.svc = s /\ e.by = "tick"
    BY <2>1, <2>2, <2>3, <2>4 DEF Types
  <2>6. \A q \in Services : q # s => tick'[q] = tick[q]
    BY <2>3 DEF Types
  <2> QED BY <2>1, <2>2, <2>3, <2>5, <2>6, BatchMoves
<1>5. ASSUME NEW s \in Services, NEW ok \in BOOLEAN, CatchUpApplies(s, ok) PROVE Batches'
  <2>1. /\ tick' = tick /\ execs' = execs \ {e \in execs : e.svc = s /\ e.by = "startup"}
        /\ phase' = [phase EXCEPT ![s] = IF ok THEN "caughtup" ELSE "on"]
    BY <1>5 DEF CatchUpApplies, Batch
  <2>2. phase'[s] # "catchup" /\ \A q \in Services : q # s => phase'[q] = phase[q]
    BY <2>1 DEF Types
  <2> QED BY <2>1, <2>2, BatchMoves
<1>6. ASSUME NEW s \in Services, NEW ok \in BOOLEAN, TickApplies(s, ok) PROVE Batches'
  <2>1. /\ phase' = phase /\ execs' = execs \ {e \in execs : e.svc = s /\ e.by = "tick"}
        /\ tick' = [tick EXCEPT ![s] = "end"]
    BY <1>6 DEF TickApplies, Batch
  <2>2. tick'[s] # "jobs" /\ \A q \in Services : q # s => tick'[q] = tick[q]
    BY <2>1 DEF Types
  <2> QED BY <2>1, <2>2, BatchMoves
<1>7. ASSUME NEW e \in execs, JobStarts(e) \/ \E o \in OutcomesOf(e.job) : JobEnds(e, o)
      PROVE  Batches'
  <2>1. PICK f : execs' = (execs \ {e}) \cup {f} /\ f.svc = e.svc /\ f.by = e.by
    BY <1>7, ExecutionTypes
  <2>2. tick' = tick /\ phase' = phase
    BY <1>7 DEF JobStarts, JobEnds
  <2> QED BY <2>1, <2>2, BatchesSame
<1>8. ASSUME NEW m \in Manuals, NEW j \in Jobs, NEW force \in BOOLEAN, NEW ok \in BOOLEAN,
             RunBegins(m, j, force, ok)
      PROVE  Batches'
  <2>1. \A x \in Started(cur, m, {j}, "running") : x.by \notin {"tick", "startup"}
    BY CronAssumption DEF Started
  <2>2. /\ tick' = tick /\ phase' = phase
        /\ execs' = execs \cup (IF ok THEN Started(cur, m, {j}, "running") ELSE {})
    BY <1>8 DEF RunBegins, request
  <2> QED BY <2>1, <2>2, BatchesSame
<1>9. ASSUME NEW e \in execs, NEW ok \in BOOLEAN, RunEnds(e, ok) PROVE Batches'
  <2>1. /\ tick' = tick /\ phase' = phase /\ execs' = execs \ {e}
        /\ e.by \notin {"tick", "startup"}
    BY <1>9, CronAssumption DEF RunEnds, request
  <2> QED BY <2>1, BatchesSame
<1>10. ASSUME execs' = execs, tick' = tick, phase' = phase PROVE Batches'
  BY <1>10, BatchesSame
<1>11. ASSUME NEW j \in Jobs, NEW enabled \in BOOLEAN, NEW ok \in BOOLEAN,
              Add(j, ok) \/ Remove(j, ok) \/ Update(j, enabled, ok)
       PROVE  Batches'
  BY <1>10, <1>11 DEF Add, Remove, Update, Edit, request
<1>12. CASE RunRefused
  BY <1>10, <1>12 DEF RunRefused, request
<1>13. ASSUME NEW ok \in BOOLEAN, Read(ok) PROVE Batches'
  BY <1>10, <1>13 DEF Read, request
<1>14. CASE Replace
  <2>1. cur + 1 \in Services /\ cur + 1 > cur
    BY <1>14, TypesKept DEF Replace, Types, Services
  <2>2. phase[cur + 1] = "off"
    BY <2>1 DEF OneService
  <2>3. /\ execs' = execs /\ tick' = tick
        /\ phase' = [phase EXCEPT ![cur + 1] = "load"]
    BY <1>14 DEF Replace
  <2>4. \A q \in Services : phase'[q] = "catchup" <=> phase[q] = "catchup"
    BY <2>2, <2>3 DEF Types
  <2> QED BY <2>3, <2>4, BatchesSame
<1>15. CASE Crash
  <2>1. /\ execs' = {}
        /\ \A q \in Services : tick'[q] = "idle" /\ phase'[q] \in {"load", "off"}
    BY <1>15 DEF Crash
  <2> QED BY <2>1 DEF Batches, Batch
<1>16. CASE ClockTicks
  BY <1>10, <1>16 DEF ClockTicks
<1>17. ASSUME NEW s \in Services, NEW ok \in BOOLEAN, Section(s, ok) PROVE Batches'
  BY <1>1, <1>3, <1>4, <1>5, <1>6, <1>17 DEF Section
<1> QED BY <1>2, <1>7, <1>8, <1>9, <1>11, <1>12, <1>13, <1>14, <1>15, <1>16, <1>17 DEF Step
-----------------------------------------------------------------------------
(* The job of an execution carries its marker *)

Carries(st, e) == e.job \in DOMAIN st => st[e.job].marker = e.since

LEMMA WatchFacts ==
  ASSUME Types, Types', Watch, NEW e \in execs', e.job \notin excused'
  PROVE  /\ e.job \notin excused
         /\ now' - e.since <= StuckAfter
         /\ e.job \in DOMAIN disk' => disk'[e.job].enabled
         /\ e.job \in DOMAIN mem'[cur] => mem'[cur][e.job].enabled
<1>1. e.job \in Jobs /\ e.since \in 0..now'
  BY DEF Types, Execution
<1>2. e \in InFlight(e.job)'
  BY DEF InFlight
<1>3. /\ e.job \notin excused /\ ~(now' - e.since > StuckAfter)
      /\ ~(e.job \in DOMAIN disk' /\ ~disk'[e.job].enabled)
      /\ ~(e.job \in DOMAIN mem'[cur] /\ ~mem'[cur][e.job].enabled)
  BY <1>1, <1>2 DEF Watch
<1>4. now' - e.since \in Int /\ StuckAfter \in Int
  BY <1>1, CronAssumption DEF Types
<1> QED BY <1>3, <1>4

(* What maintenance keeps.                                                   *)
LEMMA KeptCarries ==
  ASSUME NEW new, NEW old, NEW e, Kept(new, old), Blocks(old, e), now - e.since <= StuckAfter
  PROVE  Carries(new, e)
BY DEF Kept, Blocks, Carries

(* A section or request that saves a store with the markers of what executes.*)
LEMMA MarkersSaved ==
  ASSUME Types, Types', Watch, MarkersBlock, cur' = cur, handover' = handover,
         execs' \subseteq execs,
         NEW s \in Services, ~handover => s = cur, NEW st, NEW ok \in BOOLEAN, Persist(s, st, ok),
         ~handover => \A e \in execs' : e.job \notin excused' => Carries(st, e)
  PROVE  MarkersBlock'
<1> SUFFICES ASSUME ~handover, NEW e \in execs', e.job \notin excused'
             PROVE  /\ now' - e.since <= StuckAfter
                    /\ Blocks(disk', e)
                    /\ Blocks(mem'[cur'], e)
                    /\ \A x \in execs' : x.job = e.job => x = e
  BY DEF MarkersBlock, Blocks
<1>1. /\ e.job \notin excused
      /\ now' - e.since <= StuckAfter
      /\ e.job \in DOMAIN disk' => disk'[e.job].enabled
      /\ e.job \in DOMAIN mem'[cur] => mem'[cur][e.job].enabled
  BY WatchFacts
<1>2. /\ Blocks(disk, e) /\ \A x \in execs : x.job = e.job => x = e
  BY <1>1 DEF MarkersBlock
<1>3. Carries(st, e)
  OBVIOUS
<1>4. mem'[cur] = st
  BY DEF Persist, Types
<1>5. disk' = st \/ disk' = disk
  BY DEF Persist
<1> QED BY <1>1, <1>2, <1>3, <1>4, <1>5 DEF Blocks, Carries

(* Jobs that are not marked begin to execute: they are marked first, and if  *)
(* the markers cannot be saved, nothing executes.                            *)
LEMMA MarkersStart ==
  ASSUME Types, Types', Watch, MarkersBlock, cur' = cur, handover' = handover, now' = now,
         NEW s \in Services, ~handover => s = cur, NEW ok \in BOOLEAN,
         NEW st, Stored(st, born, now), NEW js, js \subseteq DOMAIN st,
         \A j \in js : st[j].marker = NoTime,
         Persist(s, Marked(st, js), ok),
         NEW by \in {"tick", "startup"} \cup Manuals, NEW x \in {"waiting", "running"},
         execs' = execs \cup (IF ok THEN Started(s, by, js, x) ELSE {}),
         ~handover => \A e \in execs : e.job \notin excused => Carries(st, e)
  PROVE  MarkersBlock'
<1> SUFFICES ASSUME ~handover, NEW e \in execs', e.job \notin excused'
             PROVE  /\ now' - e.since <= StuckAfter
                    /\ Blocks(disk', e)
                    /\ Blocks(mem'[cur'], e)
                    /\ \A f \in execs' : f.job = e.job => f = e
  BY DEF MarkersBlock, Blocks
<1>1. /\ e.job \notin excused
      /\ now' - e.since <= StuckAfter
      /\ e.job \in DOMAIN disk' => disk'[e.job].enabled
      /\ e.job \in DOMAIN mem'[cur] => mem'[cur][e.job].enabled
  BY WatchFacts
<1>2. PICK m : m = Marked(st, js)
  OBVIOUS
<1>3. /\ DOMAIN m = DOMAIN st
      /\ \A j \in DOMAIN st : m[j].marker = IF j \in js THEN now ELSE st[j].marker
  BY <1>2, MarkedFacts DEF Types
<1>4. mem'[cur] = m /\ disk' = IF ok THEN m ELSE disk
  BY <1>2 DEF Persist, Types
<1>5. ASSUME NEW f \in execs, f.job \notin excused
      PROVE  f.job \notin js
  <2>1. f.since # NoTime
    BY DEF Types, Execution, NoTime
  <2> QED BY <1>5, <2>1 DEF Carries
<1>6. /\ \A f \in Started(s, by, js, x) : f.job \in js /\ f.since = now
      /\ \A f, g \in Started(s, by, js, x) : f.job = g.job => f = g
  BY DEF Started
<1>7. CASE e \in execs
  <2>1. e.job \notin js /\ Blocks(disk, e) /\ Carries(st, e)
        /\ \A f \in execs : f.job = e.job => f = e
    BY <1>1, <1>5, <1>7 DEF MarkersBlock
  <2>2. Carries(m, e)
    BY <1>3, <2>1 DEF Carries
  <2>3. \A f \in execs' : f.job = e.job => f = e
    BY <1>6, <2>1
  <2> QED BY <1>1, <1>4, <2>1, <2>2, <2>3 DEF Blocks, Carries
<1>8. CASE e \notin execs
  <2>1. ok /\ e \in Started(s, by, js, x) /\ e.job \in js /\ e.since = now
    BY <1>6, <1>8
  <2>2. Carries(m, e)
    BY <1>3, <2>1 DEF Carries
  <2>3. \A f \in execs' : f.job = e.job => f = e
    BY <1>1, <1>5, <1>6, <2>1
  <2> QED BY <1>1, <1>4, <2>1, <2>2, <2>3 DEF Blocks, Carries
<1> QED BY <1>7, <1>8

(* Stores, and the jobs that execute, stay as they are.                      *)
LEMMA MarkersStay ==
  ASSUME Types, Types', Watch, MarkersBlock, UNCHANGED <<disk, mem, cur, handover>>,
         \/ execs' \subseteq execs
         \/ \E e \in execs : \E f :
              execs' = (execs \ {e}) \cup {f} /\ f.job = e.job /\ f.since = e.since
  PROVE  MarkersBlock'
<1> SUFFICES ASSUME ~handover, NEW e \in execs', e.job \notin excused'
             PROVE  /\ now' - e.since <= StuckAfter
                    /\ Blocks(disk', e)
                    /\ Blocks(mem'[cur'], e)
                    /\ \A x \in execs' : x.job = e.job => x = e
  BY DEF MarkersBlock, Blocks
<1>1. e.job \notin excused /\ now' - e.since <= StuckAfter
  BY WatchFacts
<1>2. PICK o \in execs : o.job = e.job /\ o.since = e.since
  OBVIOUS
<1>3. /\ Blocks(disk, o) /\ Blocks(mem[cur], o)
      /\ \A x \in execs : x.job = o.job => x = o
  BY <1>1, <1>2 DEF MarkersBlock
<1>4. \A x \in execs' : x.job = e.job => x = e
  BY <1>2, <1>3
<1> QED BY <1>1, <1>2, <1>3, <1>4 DEF Blocks

LEMMA MarkersSections ==
  ASSUME Types, Types', OneService, MarkersBlock, Watch,
         NEW s \in Services, NEW ok \in BOOLEAN, Section(s, ok)
  PROVE  MarkersBlock'
<1>1. /\ cur' = cur /\ handover' = handover /\ now' = now /\ now \in 0..MaxNow
      /\ Stored(disk, born, now) /\ Stored(mem[s], born, now)
  BY DEF Section, StartLoads, CatchUpBegins, CatchUpApplies, StartFinishes, TickBegins,
         TickIdles, TickApplies, bounds, Types
<1>2. tick[s] # "idle" \/ phase[s] \notin {"off", "on"}
  BY DEF Section, StartLoads, CatchUpBegins, CatchUpApplies, StartFinishes, TickBegins,
         TickIdles, TickApplies
<1>3. ~handover => s = cur /\ (phase[s] = "load" => Resting(s))
  BY <1>2, ActingService
<1>4. ASSUME ~handover, NEW e \in execs, e.job \notin excused
      PROVE  /\ now - e.since <= StuckAfter /\ Blocks(disk, e) /\ Blocks(mem[s], e)
             /\ \A x \in execs : x.job = e.job => x = e
  BY <1>3, <1>4 DEF MarkersBlock
<1>5. ASSUME NEW e \in execs', e.job \notin excused' PROVE e.job \notin excused
  BY <1>5, WatchFacts
<1>6. ASSUME NEW by, execs' = execs \ Batch(s, by), \A e \in Batch(s, by) : e.st \in Outcomes,
             Persist(s, Maintained(Applied(disk, Batch(s, by))), ok)
      PROVE  MarkersBlock'
  <2>1. PICK a : a = Applied(disk, Batch(s, by))
    OBVIOUS
  <2>2. /\ Stored(a, born, now) /\ DOMAIN a \subseteq DOMAIN disk
        /\ \A j \in DOMAIN disk : (\A e \in Batch(s, by) : e.job # j) => a[j] = disk[j]
    BY <1>1, <1>6, <2>1, BatchFacts, AppliedFacts
  <2>3. ASSUME ~handover, NEW e \in execs', e.job \notin excused'
        PROVE  Carries(Maintained(a), e)
    <3>1. e \in execs /\ e.job \notin excused /\ e \notin Batch(s, by)
      BY <1>5, <1>6, <2>3
    <3>2. \A x \in Batch(s, by) : x.job # e.job
      BY <1>4, <2>3, <3>1, BatchFacts
    <3>3. Blocks(a, e)
      BY <1>4, <2>2, <2>3, <3>1, <3>2 DEF Blocks
    <3> QED BY <1>1, <1>4, <2>2, <2>3, <3>1, <3>3, MaintainedFacts, KeptCarries
  <2> QED BY <1>1, <1>3, <1>6, <2>1, <2>3, MarkersSaved
<1>7. CASE StartLoads(s, ok)
  <2>1. ~handover => execs = {}
    <3>1. ~handover => \A q \in Services : Resting(q)
      BY <1>3, <1>7 DEF OneService, StartLoads
    <3> QED BY <3>1 DEF Resting, Types, Execution
  <2>2. execs' = execs /\ Persist(s, Cleared(disk), ok)
    BY <1>7 DEF StartLoads, Cleared
  <2> QED BY <1>1, <1>3, <2>1, <2>2, MarkersSaved
<1>8. CASE CatchUpBegins(s, ok)
  <2>1. PICK js : js = {j \in DOMAIN mem[s] \ skip[s] : Missed(j, mem[s][j])}
    OBVIOUS
  <2>2. js \subseteq DOMAIN mem[s] /\ \A j \in js : mem[s][j].marker = NoTime
    BY <2>1 DEF Missed, Runnable
  <2>3. /\ Persist(s, Marked(mem[s], js), ok)
        /\ execs' = execs \cup (IF ok THEN Started(s, "startup", js, "waiting") ELSE {})
    BY <1>8, <2>1 DEF CatchUpBegins
  <2>4. ~handover => \A e \in execs : e.job \notin excused => Carries(mem[s], e)
    BY <1>4 DEF Blocks, Carries
  <2> QED BY <1>1, <1>3, <2>2, <2>3, <2>4, MarkersStart
<1>9. CASE CatchUpApplies(s, ok)
  BY <1>6, <1>9 DEF CatchUpApplies
<1>10. CASE StartFinishes(s, ok)
  <2>1. ASSUME ~handover, NEW e \in execs', e.job \notin excused'
        PROVE  Carries(Recomputed(disk), e)
    <3>1. e \in execs /\ e.job \notin excused
      BY <1>5, <1>10, <2>1 DEF StartFinishes
    <3> QED BY <1>1, <1>4, <2>1, <3>1, RecomputedFacts, KeptCarries
  <2>2. execs' = execs /\ Persist(s, Recomputed(disk), ok)
    BY <1>10 DEF StartFinishes
  <2> QED BY <1>1, <1>3, <2>1, <2>2, MarkersSaved
<1>11. CASE TickBegins(s, ok)
  <2>1. PICK js : js = {j \in DOMAIN disk : Runnable(disk[j])}
    OBVIOUS
  <2>2. js \subseteq DOMAIN disk /\ \A j \in js : disk[j].marker = NoTime
    BY <2>1 DEF Runnable
  <2>3. /\ Persist(s, Marked(disk, js), ok)
        /\ execs' = execs \cup (IF ok THEN Started(s, "tick", js, "waiting") ELSE {})
    BY <1>11, <2>1 DEF TickBegins
  <2>4. ~handover => \A e \in execs : e.job \notin excused => Carries(disk, e)
    BY <1>4 DEF Blocks, Carries
  <2> QED BY <1>1, <1>3, <2>2, <2>3, <2>4, MarkersStart
<1>12. CASE TickIdles(s, ok)
  <2>1. ASSUME ~handover, NEW e \in execs', e.job \notin excused'
        PROVE  Carries(Maintained(disk), e)
    <3>1. e \in execs /\ e.job \notin excused
      BY <1>5, <1>12, <2>1 DEF TickIdles
    <3> QED BY <1>1, <1>4, <2>1, <3>1, MaintainedFacts, KeptCarries
  <2>2. execs' = execs /\ Persist(s, Maintained(disk), ok)
    BY <1>12 DEF TickIdles
  <2> QED BY <1>1, <1>3, <2>1, <2>2, MarkersSaved
<1>13. CASE TickApplies(s, ok)
  BY <1>6, <1>13 DEF TickApplies
<1> QED BY <1>7, <1>8, <1>9, <1>10, <1>11, <1>12, <1>13 DEF Section

LEMMA MarkersRuns ==
  ASSUME Types, Types', OneService, MarkersBlock, Watch,
         \/ \E m \in Manuals, j \in Jobs, force, ok \in BOOLEAN : RunBegins(m, j, force, ok)
         \/ RunRefused
         \/ \E e \in execs, ok \in BOOLEAN : RunEnds(e, ok)
  PROVE  MarkersBlock'
<1>1. /\ cur' = cur /\ handover' = handover /\ now' = now /\ now \in 0..MaxNow /\ cur \in Services
      /\ Stored(disk, born, now) /\ \A s \in Services : Stored(mem[s], born, now)
  BY DEF RunBegins, RunRefused, RunEnds, request, Types
<1>2. ASSUME ~handover, NEW e \in execs, e.job \notin excused
      PROVE  /\ now - e.since <= StuckAfter /\ Blocks(disk, e) /\ Blocks(mem[cur], e)
             /\ \A x \in execs : x.job = e.job => x = e
             /\ Carries(Maintained(mem[cur]), e)
  <2>1. /\ now - e.since <= StuckAfter /\ Blocks(disk, e) /\ Blocks(mem[cur], e)
        /\ \A x \in execs : x.job = e.job => x = e
    BY <1>2 DEF MarkersBlock
  <2> QED BY <1>1, <2>1, MaintainedFacts, KeptCarries
<1>3. ASSUME NEW m \in Manuals, NEW j \in Jobs, NEW force \in BOOLEAN, NEW ok \in BOOLEAN,
             RunBegins(m, j, force, ok)
      PROVE  MarkersBlock'
  <2>1. PICK st : st = Maintained(mem[cur])
    OBVIOUS
  <2>2. Stored(st, born, now)
    BY <1>1, <2>1, MaintainedFacts
  <2>3. /\ {j} \subseteq DOMAIN st /\ \A i \in {j} : st[i].marker = NoTime
        /\ Persist(cur, Marked(st, {j}), ok)
        /\ execs' = execs \cup (IF ok THEN Started(cur, m, {j}, "running") ELSE {})
    BY <1>3, <2>1 DEF RunBegins
  <2>4. ~handover => \A e \in execs : e.job \notin excused => Carries(st, e)
    BY <1>2, <2>1
  <2>5. m \in {"tick", "startup"} \cup Manuals /\ "running" \in {"waiting", "running"}
    OBVIOUS
  <2> QED BY <1>1, <2>2, <2>3, <2>4, <2>5, MarkersStart
<1>4. CASE RunRefused
  <2> SUFFICES ASSUME ~handover, NEW e \in execs', e.job \notin excused'
               PROVE  /\ now' - e.since <= StuckAfter
                      /\ Blocks(disk', e)
                      /\ Blocks(mem'[cur'], e)
                      /\ \A x \in execs' : x.job = e.job => x = e
    BY <1>1 DEF MarkersBlock, Blocks
  <2>1. /\ e.job \notin excused /\ e \in execs
        /\ e.job \in DOMAIN mem'[cur] => mem'[cur][e.job].enabled
    BY <1>4, WatchFacts DEF RunRefused
  <2>2. mem'[cur] = Maintained(mem[cur]) /\ disk' = disk /\ execs' = execs
    BY <1>4 DEF RunRefused, Types
  <2> QED BY <1>1, <1>2, <2>1, <2>2 DEF Blocks, Carries
<1>5. ASSUME NEW r \in execs, NEW ok \in BOOLEAN, RunEnds(r, ok) PROVE MarkersBlock'
  <2>1. /\ r \in Execution(born, now) /\ r.svc \in Services /\ r.st \in Outcomes
        /\ execs' = execs \ {r}
    BY <1>5 DEF RunEnds, Types, Execution
  <2>2. ~handover => r.svc = cur
    BY <2>1, ActingService
  <2>3. CASE r.job \in DOMAIN mem[r.svc]
    <3>1. PICK st : st = Ended(disk, Applied(mem[r.svc], {r}), r)
      OBVIOUS
    <3>2. Persist(r.svc, Maintained(st), ok)
      BY <1>5, <2>3, <3>1 DEF RunEnds, Ended
    <3>3. /\ Stored(st, born, now) /\ DOMAIN st \subseteq DOMAIN disk
          /\ \A j \in DOMAIN disk : j # r.job => st[j] = disk[j]
      BY <1>1, <2>1, <3>1, EndedFacts
    <3>4. ASSUME ~handover, NEW e \in execs', e.job \notin excused'
          PROVE  Carries(Maintained(st), e)
      <4>1. e \in execs /\ e # r /\ e.job \notin excused
        BY <2>1, <3>4, WatchFacts
      <4>2. e.job # r.job
        BY <1>2, <3>4, <4>1
      <4>3. Blocks(st, e)
        BY <1>2, <3>3, <3>4, <4>1, <4>2 DEF Blocks
      <4> QED BY <1>1, <1>2, <3>3, <3>4, <4>1, <4>3, MaintainedFacts, KeptCarries
    <3> QED BY <1>1, <2>1, <2>2, <3>2, <3>4, MarkersSaved
  <2>4. CASE r.job \notin DOMAIN mem[r.svc]
    BY <1>1, <1>5, <2>1, <2>4, MarkersStay DEF RunEnds
  <2> QED BY <2>3, <2>4
<1> QED BY <1>3, <1>4, <1>5

LEMMA MarkersEdits ==
  ASSUME Types, Types', OneService, MarkersBlock, Watch,
         NEW ok \in BOOLEAN,
         \/ \E j \in Jobs, enabled \in BOOLEAN :
              Add(j, ok) \/ Remove(j, ok) \/ Update(j, enabled, ok)
         \/ Read(ok)
  PROVE  MarkersBlock'
<1>1. /\ cur' = cur /\ handover' = handover /\ now' = now /\ now \in 0..MaxNow /\ cur \in Services
      /\ Stored(mem[cur], born, now) /\ execs' = execs
  BY DEF Add, Remove, Update, Read, Edit, request, Types
<1>2. ASSUME ~handover, NEW e \in execs', e.job \notin excused'
      PROVE  /\ e \in execs /\ now - e.since <= StuckAfter /\ Blocks(mem[cur], e)
             /\ e.job \in DOMAIN mem'[cur] => mem'[cur][e.job].enabled
  BY <1>1, <1>2, WatchFacts DEF MarkersBlock
<1>3. ASSUME NEW st, Persist(cur, st, ok),
             ~handover => \A e \in execs' : e.job \notin excused' => Carries(st, e)
      PROVE  MarkersBlock'
  BY <1>1, <1>3, MarkersSaved
<1>4. PICK m : m = mem[cur]
  OBVIOUS
<1>5. ASSUME NEW j \in Jobs, Add(j, ok) PROVE MarkersBlock'
  <2>1. PICK a : a = [i \in DOMAIN m \cup {j} |-> IF i = j THEN NewJob(j) ELSE m[i]]
    OBVIOUS
  <2>2. Stored(a, born \cup {j}, now)
    BY <1>4, <2>1, EditedFacts
  <2>3. j \notin born /\ Persist(cur, Recomputed(a), ok)
    BY <1>4, <1>5, <2>1 DEF Add
  <2>4. ASSUME ~handover, NEW e \in execs', e.job \notin excused'
        PROVE  Carries(Recomputed(a), e)
    <3>1. e.job # j
      BY <1>2, <2>3, <2>4 DEF Types, Execution
    <3>2. Blocks(a, e)
      BY <1>2, <1>4, <2>1, <2>4, <3>1 DEF Blocks
    <3> QED BY <1>1, <1>2, <2>2, <2>4, <3>2, RecomputedFacts, KeptCarries
  <2> QED BY <1>3, <2>3, <2>4
<1>6. ASSUME NEW j \in Jobs, Remove(j, ok) PROVE MarkersBlock'
  <2>1. PICK a : a = [i \in DOMAIN m \ {j} |-> m[i]]
    OBVIOUS
  <2>2. Persist(cur, a, ok)
    BY <1>4, <1>6, <2>1 DEF Remove
  <2>3. ASSUME ~handover, NEW e \in execs', e.job \notin excused' PROVE Carries(a, e)
    BY <1>2, <1>4, <2>1, <2>3 DEF Blocks, Carries
  <2> QED BY <1>3, <2>2, <2>3
<1>7. ASSUME NEW j \in Jobs, NEW enabled \in BOOLEAN, Update(j, enabled, ok) PROVE MarkersBlock'
  <2>1. PICK p : p = Patched(j, m[j], enabled)
    OBVIOUS
  <2>2. PICK a : a = [m EXCEPT ![j] = p]
    OBVIOUS
  <2>3. j \in DOMAIN m /\ Persist(cur, a, ok)
    BY <1>4, <1>7, <2>1, <2>2 DEF Update, Patched
  <2>4. (p.enabled <=> enabled) /\ p.marker = IF enabled THEN m[j].marker ELSE NoTime
    BY <1>1, <1>4, <2>1, <2>3, PatchedFacts DEF Stored
  <2>5. mem'[cur] = a
    BY <1>1, <2>3 DEF Persist, Types
  <2>6. ASSUME ~handover, NEW e \in execs', e.job \notin excused' PROVE Carries(a, e)
    <3>1. Blocks(m, e) /\ (e.job \in DOMAIN a => a[e.job].enabled)
      BY <1>2, <1>4, <2>5, <2>6
    <3>2. CASE e.job = j
      BY <2>2, <2>3, <2>4, <3>1, <3>2 DEF Blocks, Carries
    <3>3. CASE e.job # j
      BY <2>2, <2>3, <3>1, <3>3 DEF Blocks, Carries
    <3> QED BY <3>2, <3>3
  <2> QED BY <1>3, <2>3, <2>6
<1>8. CASE Read(ok)
  <2>1. Persist(cur, Maintained(m), ok)
    BY <1>4, <1>8 DEF Read
  <2>2. ASSUME ~handover, NEW e \in execs', e.job \notin excused' PROVE Carries(Maintained(m), e)
    BY <1>1, <1>2, <1>4, <2>2, MaintainedFacts, KeptCarries
  <2> QED BY <1>3, <2>1, <2>2
<1> QED BY <1>5, <1>6, <1>7, <1>8

LEMMA MarkersBlockKept ==
  ASSUME Types, OneService, MarkersBlock, Step, Watch
  PROVE  MarkersBlock'
<1>1. Types'
  BY TypesKept
<1>2. ASSUME NEW s \in Services, NothingMissed(s) \/ TimerFires(s) \/ TickEnds(s)
      PROVE  MarkersBlock'
  BY <1>1, <1>2, MarkersStay DEF NothingMissed, TimerFires, TickEnds, bounds
<1>3. ASSUME NEW e \in execs, JobStarts(e) \/ \E o \in OutcomesOf(e.job) : JobEnds(e, o)
      PROVE  MarkersBlock'
  <2>1. UNCHANGED <<disk, mem, cur, handover>>
    BY <1>3 DEF JobStarts, JobEnds, bounds
  <2>2. PICK f : execs' = (execs \ {e}) \cup {f} /\ f.job = e.job /\ f.since = e.since
    BY <1>3, ExecutionTypes
  <2> QED BY <1>1, <2>1, <2>2, MarkersStay
<1>4. CASE ClockTicks
  BY <1>1, <1>4, MarkersStay DEF ClockTicks, bounds
<1>5. CASE Replace \/ Crash
  <2>1. ~handover' => execs' = {}
    BY <1>5 DEF Replace, Crash
  <2> QED BY <2>1 DEF MarkersBlock
<1>6. ASSUME NEW s \in Services, NEW ok \in BOOLEAN, Section(s, ok) PROVE MarkersBlock'
  BY <1>1, <1>6, MarkersSections
<1>7. ASSUME NEW j \in Jobs, NEW enabled \in BOOLEAN, NEW ok \in BOOLEAN,
             Add(j, ok) \/ Remove(j, ok) \/ Update(j, enabled, ok)
      PROVE  MarkersBlock'
  BY <1>1, <1>7, MarkersEdits
<1>8. ASSUME NEW ok \in BOOLEAN, Read(ok) PROVE MarkersBlock'
  BY <1>1, <1>8, MarkersEdits
<1> QED BY <1>1, <1>2, <1>3, <1>4, <1>5, <1>6, <1>7, <1>8, MarkersRuns DEF Step
-----------------------------------------------------------------------------
(* The copy in memory is the store *)

(* A section or a request of the service s saves the store st.               *)
LEMMA CopySaved ==
  ASSUME Types, born \subseteq born', born' \subseteq Jobs,
         now' = now, cur' = cur, handover' = handover,
         NEW s \in Services, ~handover => s = cur,
         NEW ok \in BOOLEAN, NEW st, Stored(st, born', now), Persist(s, st, ok),
         failures = 0 /\ ~handover => Owned(st, execs')
  PROVE  CopyCurrent'
<1> SUFFICES ASSUME failures' = 0, ~handover
             PROVE  /\ DOMAIN mem'[cur] = DOMAIN disk'
                    /\ Owned(disk', execs') /\ Owned(mem'[cur], execs')
                    /\ \A j \in DOMAIN disk' :
                         /\ mem'[cur][j].enabled <=> disk'[j].enabled
                         /\ disk'[j].enabled /\ disk'[j].next # NoTime
                              => mem'[cur][j].next = disk'[j].next
  BY DEF CopyCurrent, Owned
<1>1. /\ mem'[s] = st /\ (failures' = 0 => ok /\ failures = 0)
      /\ IF ok THEN disk' = st ELSE disk' = disk
  BY PersistTypes
<1>2. mem'[cur] = st /\ disk' = st /\ failures = 0
  BY <1>1
<1> QED BY <1>2

LEMMA OwnedKept ==
  ASSUME NEW st, NEW new, NEW ex, Owned(st, ex), Kept(new, st)
  PROVE  Owned(new, ex)
BY DEF Owned, Kept

(* The results of some executions, which end, are applied.                   *)
LEMMA OwnedApplied ==
  ASSUME now \in 0..MaxNow, NEW ids, NEW st, Stored(st, ids, now), Owned(st, execs),
         NEW rs, rs \subseteq Execution(born, now), \A e \in rs : e.st \in Outcomes
  PROVE  Owned(Applied(st, rs), execs \ rs)
<1>1. PICK a : a = Applied(st, rs)
  OBVIOUS
<1>2. /\ DOMAIN a \subseteq DOMAIN st
      /\ \A e \in rs : e.job \in DOMAIN a => a[e.job].marker = NoTime
      /\ \A j \in DOMAIN st : (\A e \in rs : e.job # j) => a[j] = st[j]
  BY <1>1, AppliedFacts
<1>3. ASSUME NEW j \in DOMAIN a, a[j].marker # NoTime
      PROVE  \E e \in execs \ rs : e.job = j
  <2>1. \A e \in rs : e.job # j
    BY <1>2, <1>3
  <2>2. PICK e \in execs : e.job = j
    BY <1>2, <1>3, <2>1 DEF Owned
  <2> QED BY <2>1, <2>2
<1> QED BY <1>1, <1>3 DEF Owned

LEMMA CopySections ==
  ASSUME Types, OneService, CopyCurrent, NEW s \in Services, NEW ok \in BOOLEAN, Section(s, ok)
  PROVE  CopyCurrent'
<1>1. /\ cur' = cur /\ handover' = handover /\ now' = now /\ born' = born
      /\ now \in 0..MaxNow /\ born \subseteq Jobs
      /\ Stored(disk, born, now) /\ Stored(mem[s], born, now)
  BY DEF Section, StartLoads, CatchUpBegins, CatchUpApplies, StartFinishes, TickBegins,
         TickIdles, TickApplies, bounds, Types
<1>2. tick[s] # "idle" \/ phase[s] \notin {"off", "on"}
  BY DEF Section, StartLoads, CatchUpBegins, CatchUpApplies, StartFinishes, TickBegins,
         TickIdles, TickApplies
<1>3. ~handover => s = cur /\ (phase[s] = "load" => Resting(s))
  BY <1>2, ActingService
<1>4. ASSUME failures = 0, ~handover, tick[s] # "idle" \/ phase[s] # "load"
      PROVE  Owned(disk, execs) /\ Owned(mem[s], execs)
  <2>1. Serving
    BY <1>3, <1>4 DEF Serving, OneService, Resting
  <2> QED BY <1>3, <1>4, <2>1 DEF CopyCurrent
<1>5. ASSUME NEW st, Stored(st, born, now), Persist(s, st, ok),
             failures = 0 /\ ~handover => Owned(st, execs')
      PROVE  CopyCurrent'
  BY <1>1, <1>3, <1>5, CopySaved
<1>6. ASSUME NEW by, tick[s] # "idle" \/ phase[s] # "load",
             execs' = execs \ Batch(s, by), \A e \in Batch(s, by) : e.st \in Outcomes,
             Persist(s, Maintained(Applied(disk, Batch(s, by))), ok)
      PROVE  CopyCurrent'
  <2>1. PICK a : a = Applied(disk, Batch(s, by))
    OBVIOUS
  <2>2. Stored(a, born, now)
    BY <1>1, <1>6, <2>1, BatchFacts, AppliedFacts
  <2>3. Stored(Maintained(a), born, now) /\ Kept(Maintained(a), a)
    BY <1>1, <2>2, MaintainedFacts
  <2>4. failures = 0 /\ ~handover => Owned(a, execs')
    BY <1>1, <1>4, <1>6, <2>1, BatchFacts, OwnedApplied
  <2> QED BY <1>5, <1>6, <2>1, <2>3, <2>4, OwnedKept
<1>7. ASSUME NEW by \in {"tick", "startup"}, NEW st, Stored(st, born, now),
             NEW js, js \subseteq DOMAIN st,
             failures = 0 /\ ~handover => Owned(st, execs),
             execs' = execs \cup (IF ok THEN Started(s, by, js, "waiting") ELSE {}),
             Persist(s, Marked(st, js), ok)
      PROVE  CopyCurrent'
  <2>1. PICK m : m = Marked(st, js)
    OBVIOUS
  <2>2. /\ Stored(m, born, now) /\ DOMAIN m = DOMAIN st
        /\ \A j \in DOMAIN st : m[j].marker = IF j \in js THEN now ELSE st[j].marker
    BY <1>1, <1>7, <2>1, MarkedFacts
  <2>3. js \subseteq born
    BY <1>7 DEF Stored
  <2>4. \A j \in js : \E e \in Started(s, by, js, "waiting") : e.job = j
    BY <2>3, StartedFacts
  <2>5. CASE ok
    <3>1. failures = 0 /\ ~handover => Owned(m, execs')
      BY <1>7, <2>2, <2>4, <2>5 DEF Owned
    <3> QED BY <1>5, <1>7, <2>1, <2>2, <3>1
  <2>6. CASE ~ok
    <3>1. failures' # 0
      BY <1>1, <1>7, <2>1, <2>2, <2>6, PersistTypes
    <3> QED BY <3>1 DEF CopyCurrent
  <2> QED BY <2>5, <2>6
<1>8. CASE StartLoads(s, ok)
  <2>1. Persist(s, Cleared(disk), ok)
    BY <1>8 DEF StartLoads, Cleared
  <2>2. Stored(Cleared(disk), born, now) /\ Owned(Cleared(disk), execs')
    BY <1>1, ClearedFacts DEF Owned
  <2> QED BY <1>5, <2>1, <2>2
<1>9. CASE CatchUpBegins(s, ok)
  <2>1. PICK js : js = {j \in DOMAIN mem[s] \ skip[s] : Missed(j, mem[s][j])}
    OBVIOUS
  <2>2. /\ Persist(s, Marked(mem[s], js), ok)
        /\ execs' = execs \cup (IF ok THEN Started(s, "startup", js, "waiting") ELSE {})
        /\ phase[s] = "missed" /\ js \subseteq DOMAIN mem[s]
    BY <1>9, <2>1 DEF CatchUpBegins
  <2> QED BY <1>1, <1>4, <1>7, <2>2
<1>10. CASE CatchUpApplies(s, ok)
  BY <1>6, <1>10 DEF CatchUpApplies
<1>11. CASE StartFinishes(s, ok)
  <2>1. /\ execs' = execs /\ Persist(s, Recomputed(disk), ok)
        /\ phase[s] # "load"
    BY <1>11 DEF StartFinishes
  <2>2. Stored(Recomputed(disk), born, now) /\ Kept(Recomputed(disk), disk)
    BY <1>1, RecomputedFacts
  <2> QED BY <1>4, <1>5, <2>1, <2>2, OwnedKept
<1>12. CASE TickBegins(s, ok)
  <2>1. PICK js : js = {j \in DOMAIN disk : Runnable(disk[j])}
    OBVIOUS
  <2>2. /\ Persist(s, Marked(disk, js), ok)
        /\ execs' = execs \cup (IF ok THEN Started(s, "tick", js, "waiting") ELSE {})
        /\ tick[s] # "idle" /\ js \subseteq DOMAIN disk
    BY <1>12, <2>1 DEF TickBegins
  <2> QED BY <1>1, <1>4, <1>7, <2>2
<1>13. CASE TickIdles(s, ok)
  <2>1. execs' = execs /\ Persist(s, Maintained(disk), ok) /\ tick[s] # "idle"
    BY <1>13 DEF TickIdles
  <2>2. Stored(Maintained(disk), born, now) /\ Kept(Maintained(disk), disk)
    BY <1>1, MaintainedFacts
  <2> QED BY <1>4, <1>5, <2>1, <2>2, OwnedKept
<1>14. CASE TickApplies(s, ok)
  BY <1>6, <1>14 DEF TickApplies
<1> QED BY <1>8, <1>9, <1>10, <1>11, <1>12, <1>13, <1>14 DEF Section

LEMMA CopyRuns ==
  ASSUME Types, OneService, CopyCurrent,
         \/ \E m \in Manuals, j \in Jobs, force, ok \in BOOLEAN : RunBegins(m, j, force, ok)
         \/ RunRefused
         \/ \E e \in execs, ok \in BOOLEAN : RunEnds(e, ok)
  PROVE  CopyCurrent'
<1>1. /\ cur' = cur /\ handover' = handover /\ now' = now /\ born' = born
      /\ now \in 0..MaxNow /\ born \subseteq Jobs /\ cur \in Services
      /\ Stored(disk, born, now) /\ \A s \in Services : Stored(mem[s], born, now)
      /\ phase' = phase
  BY DEF RunBegins, RunRefused, RunEnds, request, Types
<1>2. PICK st : st = Maintained(mem[cur])
  OBVIOUS
<1>3. Stored(st, born, now) /\ Kept(st, mem[cur]) /\ NextKept(st, mem[cur])
  BY <1>1, <1>2, MaintainedFacts
<1>4. ASSUME NEW m \in Manuals, NEW j \in Jobs, NEW force \in BOOLEAN, NEW ok \in BOOLEAN,
             RunBegins(m, j, force, ok)
      PROVE  CopyCurrent'
  <2>1. /\ Serving /\ j \in DOMAIN st /\ Persist(cur, Marked(st, {j}), ok)
        /\ execs' = execs \cup (IF ok THEN Started(cur, m, {j}, "running") ELSE {})
    BY <1>2, <1>4 DEF RunBegins
  <2>2. PICK n : n = Marked(st, {j})
    OBVIOUS
  <2>3. /\ Stored(n, born, now) /\ DOMAIN n = DOMAIN st
        /\ \A i \in DOMAIN st : n[i].marker = IF i \in {j} THEN now ELSE st[i].marker
    BY <1>1, <1>3, <2>2, MarkedFacts
  <2>4. CASE ok
    <3>1. \E e \in Started(cur, m, {j}, "running") : e.job = j
      <4>1. {j} \subseteq born
        BY <1>3, <2>1 DEF Stored
      <4>2. m \in {"tick", "startup"} \cup Manuals /\ "running" \in {"waiting", "running"}
        OBVIOUS
      <4>3. \A i \in {j} : \E e \in Started(cur, m, {j}, "running") : e.job = i
        BY <1>1, <4>1, <4>2, StartedFacts
      <4> QED BY <4>3
    <3>2. failures = 0 /\ ~handover => Owned(st, execs)
      BY <1>3, <2>1, OwnedKept DEF CopyCurrent
    <3>3. failures = 0 /\ ~handover => Owned(n, execs')
      BY <2>1, <2>3, <2>4, <3>1, <3>2 DEF Owned
    <3> QED BY <1>1, <2>1, <2>2, <2>3, <3>3, CopySaved
  <2>5. CASE ~ok
    <3>1. failures' # 0
      BY <1>1, <2>1, <2>2, <2>3, <2>5, PersistTypes
    <3> QED BY <3>1 DEF CopyCurrent
  <2> QED BY <2>4, <2>5
<1>5. CASE RunRefused
  <2>1. /\ Serving /\ disk' = disk /\ execs' = execs /\ failures' = failures
        /\ mem'[cur] = st
    BY <1>2, <1>5 DEF RunRefused, Types
  <2> SUFFICES ASSUME failures = 0, ~handover
               PROVE  /\ DOMAIN st = DOMAIN disk
                      /\ Owned(disk, execs) /\ Owned(st, execs)
                      /\ \A j \in DOMAIN disk :
                           /\ st[j].enabled <=> disk[j].enabled
                           /\ disk[j].enabled /\ disk[j].next # NoTime => st[j].next = disk[j].next
    BY <1>1, <2>1 DEF CopyCurrent, Owned
  <2>2. /\ DOMAIN mem[cur] = DOMAIN disk /\ Owned(disk, execs) /\ Owned(mem[cur], execs)
        /\ \A j \in DOMAIN disk :
             /\ mem[cur][j].enabled <=> disk[j].enabled
             /\ disk[j].enabled /\ disk[j].next # NoTime => mem[cur][j].next = disk[j].next
    BY <2>1 DEF CopyCurrent
  <2>3. Owned(st, execs)
    BY <1>3, <2>2, OwnedKept
  <2> QED BY <1>3, <2>2, <2>3 DEF Kept, NextKept
<1>6. ASSUME NEW r \in execs, NEW ok \in BOOLEAN, RunEnds(r, ok) PROVE CopyCurrent'
  <2>1. /\ r \in Execution(born, now) /\ r.svc \in Services /\ r.st \in Outcomes
        /\ execs' = execs \ {r}
    BY <1>6 DEF RunEnds, Types, Execution
  <2>2. ~handover => r.svc = cur /\ phase[cur] # "load"
    BY <2>1, ActingService DEF Resting
  <2>3. ~handover => Serving
    BY <2>2 DEF Serving, OneService
  <2>4. CASE r.job \in DOMAIN mem[r.svc]
    <3>1. PICK own : own = Ended(disk, Applied(mem[r.svc], {r}), r)
      OBVIOUS
    <3>2. Persist(r.svc, Maintained(own), ok)
      BY <1>6, <2>4, <3>1 DEF RunEnds, Ended
    <3>3. /\ Stored(own, born, now) /\ DOMAIN own \subseteq DOMAIN disk
          /\ \A j \in DOMAIN disk : j # r.job => own[j] = disk[j]
          /\ r.job \in DOMAIN own => own[r.job].marker = NoTime
      BY <1>1, <2>1, <3>1, EndedFacts
    <3>4. Stored(Maintained(own), born, now) /\ Kept(Maintained(own), own)
      BY <1>1, <3>3, MaintainedFacts
    <3>5. failures = 0 /\ ~handover => Owned(own, execs')
      <4>1. failures = 0 /\ ~handover => Owned(disk, execs)
        BY <2>3 DEF CopyCurrent
      <4> QED BY <2>1, <3>3, <4>1 DEF Owned
    <3>6. failures = 0 /\ ~handover => Owned(Maintained(own), execs')
      BY <3>4, <3>5, OwnedKept
    <3> QED BY <1>1, <2>1, <2>2, <3>2, <3>4, <3>6, CopySaved
  <2>5. CASE r.job \notin DOMAIN mem[r.svc]
    <3>1. UNCHANGED <<disk, mem, failures>>
      BY <1>6, <2>5 DEF RunEnds
    <3>2. failures = 0 /\ ~handover => Owned(disk, execs') /\ Owned(mem[cur], execs')
      BY <2>1, <2>2, <2>3, <2>5 DEF CopyCurrent, Owned
    <3> QED BY <1>1, <2>3, <3>1, <3>2 DEF CopyCurrent, Owned
  <2> QED BY <2>4, <2>5
<1> QED BY <1>4, <1>5, <1>6

LEMMA CopyEdits ==
  ASSUME Types, CopyCurrent, NEW ok \in BOOLEAN,
         \/ \E j \in Jobs, enabled \in BOOLEAN :
              Add(j, ok) \/ Remove(j, ok) \/ Update(j, enabled, ok)
         \/ Read(ok)
  PROVE  CopyCurrent'
<1>1. /\ cur' = cur /\ handover' = handover /\ now' = now /\ now \in 0..MaxNow /\ cur \in Services
      /\ Stored(mem[cur], born, now) /\ execs' = execs /\ Serving
      /\ born \subseteq born' /\ born' \subseteq Jobs
  BY DEF Add, Remove, Update, Read, Edit, request, Types
<1>2. PICK m : m = mem[cur]
  OBVIOUS
<1>3. failures = 0 /\ ~handover => Owned(m, execs)
  BY <1>1, <1>2 DEF CopyCurrent
<1>4. ASSUME NEW st, Stored(st, born', now), Persist(cur, st, ok),
             failures = 0 /\ ~handover => Owned(st, execs)
      PROVE  CopyCurrent'
  BY <1>1, <1>4, CopySaved
<1>5. ASSUME NEW j \in Jobs, Add(j, ok) PROVE CopyCurrent'
  <2>1. PICK a : a = [i \in DOMAIN m \cup {j} |-> IF i = j THEN NewJob(j) ELSE m[i]]
    OBVIOUS
  <2>2. Stored(a, born \cup {j}, now)
    BY <1>2, <2>1, EditedFacts
  <2>3. born' = born \cup {j} /\ Persist(cur, Recomputed(a), ok)
    BY <1>2, <1>5, <2>1 DEF Add
  <2>4. Stored(Recomputed(a), born', now) /\ Kept(Recomputed(a), a)
    BY <1>1, <2>2, <2>3, RecomputedFacts
  <2>5. failures = 0 /\ ~handover => Owned(a, execs)
    BY <1>1, <1>3, <2>1, NewJobType DEF Owned
  <2>6. failures = 0 /\ ~handover => Owned(Recomputed(a), execs)
    BY <2>4, <2>5, OwnedKept
  <2> QED BY <1>4, <2>3, <2>4, <2>6
<1>6. ASSUME NEW j \in Jobs, Remove(j, ok) PROVE CopyCurrent'
  <2>1. PICK a : a = [i \in DOMAIN m \ {j} |-> m[i]]
    OBVIOUS
  <2>2. born' = born /\ Persist(cur, a, ok)
    BY <1>2, <1>6, <2>1 DEF Remove
  <2>3. Stored(a, born, now)
    BY <1>2, <2>1, EditedFacts
  <2>4. failures = 0 /\ ~handover => Owned(a, execs)
    BY <1>3, <2>1 DEF Owned
  <2> QED BY <1>4, <2>2, <2>3, <2>4
<1>7. ASSUME NEW j \in Jobs, NEW enabled \in BOOLEAN, Update(j, enabled, ok) PROVE CopyCurrent'
  <2>1. PICK p : p = Patched(j, m[j], enabled)
    OBVIOUS
  <2>2. PICK a : a = [m EXCEPT ![j] = p]
    OBVIOUS
  <2>3. j \in DOMAIN m /\ born' = born /\ Persist(cur, a, ok)
    BY <1>2, <1>7, <2>1, <2>2 DEF Update, Patched
  <2>4. Stored(a, born, now)
    BY <1>2, <2>1, <2>2, <2>3, EditedFacts
  <2>5. p.marker = IF enabled THEN m[j].marker ELSE NoTime
    BY <1>1, <1>2, <2>1, <2>3, PatchedFacts DEF Stored
  <2>6. failures = 0 /\ ~handover => Owned(a, execs)
    BY <1>3, <2>2, <2>3, <2>5 DEF Owned
  <2> QED BY <1>4, <2>3, <2>4, <2>6
<1>8. CASE Read(ok)
  <2>1. born' = born /\ Persist(cur, Maintained(m), ok)
    BY <1>2, <1>8 DEF Read
  <2>2. Stored(Maintained(m), born, now) /\ Kept(Maintained(m), m)
    BY <1>1, <1>2, MaintainedFacts
  <2> QED BY <1>3, <1>4, <2>1, <2>2, OwnedKept
<1> QED BY <1>5, <1>6, <1>7, <1>8

LEMMA CopyCurrentKept ==
  ASSUME Types, OneService, CopyCurrent, Step
  PROVE  CopyCurrent'
<1>1. ASSUME UNCHANGED <<disk, mem, cur, failures, handover>>,
             Serving' /\ ~handover => Serving,
             \A e \in execs : \E f \in execs' : f.job = e.job
      PROVE  CopyCurrent'
  <2>1. \A st : Owned(st, execs) => Owned(st, execs')
    BY <1>1 DEF Owned
  <2> QED BY <1>1, <2>1 DEF CopyCurrent, Owned
<1>2. ASSUME NEW s \in Services, NothingMissed(s) \/ TimerFires(s) \/ TickEnds(s)
      PROVE  CopyCurrent'
  <2>1. UNCHANGED <<disk, mem, cur, failures, handover, execs>>
    BY <1>2 DEF NothingMissed, TimerFires, TickEnds, bounds
  <2>2. \/ phase' = phase
        \/ phase[s] = "missed" /\ \A q \in Services : q # s => phase'[q] = phase[q]
    BY <1>2 DEF NothingMissed, TimerFires, TickEnds, Types
  <2>3. Serving' => Serving
    BY <2>1, <2>2 DEF Serving, Types
  <2> QED BY <1>1, <2>1, <2>3
<1>3. ASSUME NEW e \in execs, JobStarts(e) \/ \E o \in OutcomesOf(e.job) : JobEnds(e, o)
      PROVE  CopyCurrent'
  <2>1. UNCHANGED <<disk, mem, phase, cur, failures, handover>>
    BY <1>3 DEF JobStarts, JobEnds, bounds
  <2>2. PICK f : execs' = (execs \ {e}) \cup {f} /\ f.job = e.job
    BY <1>3, ExecutionTypes
  <2> QED BY <1>1, <2>1, <2>2 DEF Serving
<1>4. CASE ClockTicks
  BY <1>1, <1>4 DEF ClockTicks, bounds, Serving
<1>5. CASE Replace \/ Crash
  <2>1. cur' = cur + 1 /\ cur + 1 \in Services
    BY <1>5, TypesKept DEF Replace, Crash, Types
  <2>2. phase'[cur + 1] = "load"
    BY <1>5, <2>1 DEF Replace, Crash, Types
  <2> QED BY <2>1, <2>2 DEF CopyCurrent, Serving
<1>6. ASSUME NEW s \in Services, NEW ok \in BOOLEAN, Section(s, ok) PROVE CopyCurrent'
  BY <1>6, CopySections
<1>7. ASSUME NEW j \in Jobs, NEW enabled \in BOOLEAN, NEW ok \in BOOLEAN,
             Add(j, ok) \/ Remove(j, ok) \/ Update(j, enabled, ok)
      PROVE  CopyCurrent'
  BY <1>7, CopyEdits
<1>8. ASSUME NEW ok \in BOOLEAN, Read(ok) PROVE CopyCurrent'
  BY <1>8, CopyEdits
<1> QED BY <1>2, <1>3, <1>4, <1>5, <1>6, <1>7, <1>8, CopyRuns DEF Step

-----------------------------------------------------------------------------
(* The inductive invariant, and what it says *)

LEMMA InitInv == Init => IndInv
<1> SUFFICES ASSUME Init PROVE IndInv
  OBVIOUS
<1>1. 1 \in Services /\ cur = 1 /\ now = 0 /\ execs = {} /\ 0 \in 0..MaxNow
  BY CronAssumption DEF Init, Services
<1>2. Stored(disk, born, now)
  BY <1>1, NewJobType DEF Init, Stored
<1>3. Types
  <2>1. DOMAIN mem = Services /\ \A s \in Services : Stored(mem[s], born, now)
    BY DEF Init, Stored
  <2>2. /\ phase \in [Services -> {"off", "load", "missed", "catchup", "caughtup", "finish", "on"}]
        /\ tick \in [Services -> {"idle", "begin", "jobs", "end"}]
        /\ timer \in [Services -> BOOLEAN]
    BY DEF Init
  <2>3. /\ born \subseteq Jobs /\ runs \in Nat /\ edits \in Nat /\ failures \in Nat
        /\ handover \in BOOLEAN /\ execs \subseteq Execution(born, now)
    BY <1>1, CronAssumption DEF Init
  <2> QED BY <1>1, <1>2, <2>1, <2>2, <2>3 DEF Types
<1>4. \A s \in Services : tick[s] = "idle" /\ ~timer[s] /\ phase[s] = IF s = 1 THEN "load" ELSE "off"
  BY DEF Init
<1>5. Batches
  BY <1>1, <1>4 DEF Batches, Batch
<1>6. OneService
  BY <1>1, <1>4 DEF OneService, Resting, Services
<1>7. MarkersBlock /\ CopyCurrent
  BY <1>1, <1>4 DEF MarkersBlock, CopyCurrent, Serving
<1> QED BY <1>3, <1>5, <1>6, <1>7 DEF IndInv

LEMMA StepInv == IndInv /\ [Next]_vars => IndInv'
<1> SUFFICES ASSUME IndInv, [Next]_vars PROVE IndInv'
  OBVIOUS
<1>1. CASE Next
  <2>1. Step /\ Watch
    BY <1>1 DEF Next
  <2> QED BY <2>1, TypesKept, BatchesKept, OneServiceKept, MarkersBlockKept, CopyCurrentKept
          DEF IndInv
<1>2. CASE UNCHANGED vars
  BY <1>2 DEF vars, IndInv, Types, Batches, Batch, OneService, Resting, MarkersBlock, CopyCurrent,
              Serving, Owned, Stored
<1> QED BY <1>1, <1>2

(* The invariant holds in every reachable state. *)
THEOREM Invariance == Spec => []IndInv
<1>1. Init => IndInv
  BY InitInv
<1>2. IndInv /\ [Next]_vars => IndInv'
  BY StepInv
<1> QED BY <1>1, <1>2, PTL DEF Spec

(* The store and the services have their types; a tick or a catch-up that    *)
(* executes has executions, and only then; and unless a write failed every   *)
(* marker on disk is that of an execution whose result is still to come, so  *)
(* that no job stays blocked (isRunnableJob, timer.ts).                      *)
THEOREM TypeCorrect == Spec => []TypeOK
<1>1. IndInv => TypeOK
  <2> SUFFICES ASSUME IndInv PROVE TypeOK
    OBVIOUS
  <2>1. Types /\ Batches /\ CopyCurrent
    BY DEF IndInv
  <2>2. ASSUME NEW st, Stored(st, born, now), NEW j \in DOMAIN st
        PROVE  /\ j \in born
               /\ st[j].enabled \in BOOLEAN
               /\ st[j].next \in {NoTime, AtTime} \cup 1..MaxNow + 1
               /\ st[j].marker \in NoTime..now
    <3>1. PICK r \in JobRec(now) : r = st[j] /\ j \in born
      BY <2>2 DEF Stored
    <3>2. r.enabled \in BOOLEAN /\ r.next \in Times /\ r.marker \in {NoTime} \cup 0..now
      BY DEF JobRec
    <3>3. {NoTime} \cup 0..now \subseteq NoTime..now
      BY <2>1 DEF Types, NoTime
    <3> QED BY <3>1, <3>2, <3>3 DEF Times
  <2>3. \A st \in {disk} \cup {mem[s] : s \in Services} : Stored(st, born, now)
    BY <2>1 DEF Types
  <2>4. \A s \in Services :
          /\ phase[s] \in {"off", "load", "missed", "catchup", "caughtup", "finish", "on"}
          /\ tick[s] \in {"idle", "begin", "jobs", "end"}
          /\ (tick[s] = "jobs") = (Batch(s, "tick") # {})
          /\ (phase[s] = "catchup") = (Batch(s, "startup") # {})
    BY <2>1 DEF Types, Batches
  <2>5. failures = 0 /\ ~handover /\ Serving =>
          \A j \in DOMAIN disk : disk[j].marker # NoTime => InFlight(j) # {}
    BY <2>1 DEF CopyCurrent, Owned, InFlight
  <2>6. now \in 0..MaxNow /\ cur \in Services
    BY <2>1 DEF Types
  <2> QED BY <2>2, <2>3, <2>4, <2>5, <2>6 DEF TypeOK
<1> QED BY <1>1, Invariance, PTL

(* Ticks, the catch-up and manual runs exclude each other by the marker: one  *)
(* execution of a job runs at a time, unless the job was disabled or overdue  *)
(* meanwhile, or a service was started beside a busy one.                     *)
THEOREM RunsExcludeEachOther == Spec => []NoOverlap
<1>1. IndInv => NoOverlap
  <2> SUFFICES ASSUME IndInv, NEW j \in Jobs, ~handover, j \notin excused
               PROVE  ~(Cardinality(Executing(j)) > 1)
    BY DEF NoOverlap
  <2>1. \A e, f \in Executing(j) : e = f
    BY DEF IndInv, MarkersBlock, Executing, InFlight
  <2>2. CASE Executing(j) = {}
    BY <2>2, FS_EmptySet
  <2>3. CASE Executing(j) # {}
    <3>1. PICK e : Executing(j) = {e}
      BY <2>1, <2>3
    <3>2. Cardinality(Executing(j)) = 1
      BY <3>1, FS_Singleton
    <3> QED BY <3>2
  <2> QED BY <2>2, <2>3
<1> QED BY <1>1, Invariance, PTL

-----------------------------------------------------------------------------
(* What a step does to the store on disk *)

(* No job and no enabled job is new. *)
Within(new, old) ==
  /\ DOMAIN new \subseteq DOMAIN old
  /\ \A j \in DOMAIN new : new[j].enabled => old[j].enabled

(* Only jobs that one of the executions ex executed were disabled or moved.  *)
Faithful(new, old, ex) ==
  /\ Within(new, old)
  /\ \A j \in DOMAIN new : (\A e \in ex : e.job # j) =>
       /\ old[j].enabled => new[j].enabled
       /\ old[j].enabled /\ old[j].next # NoTime => new[j].next = old[j].next

LEMMA FaithfulTwice ==
  ASSUME NEW old, NEW mid, NEW new, NEW ex, Faithful(mid, old, ex), Faithful(new, mid, {})
  PROVE  Faithful(new, old, ex)
<1>1. Within(new, old)
  BY DEF Faithful, Within
<1>2. ASSUME NEW j \in DOMAIN new, \A e \in ex : e.job # j
      PROVE  /\ old[j].enabled => new[j].enabled
             /\ old[j].enabled /\ old[j].next # NoTime => new[j].next = old[j].next
  <2>1. j \in DOMAIN mid
    BY DEF Faithful, Within
  <2>2. /\ old[j].enabled => mid[j].enabled
        /\ old[j].enabled /\ old[j].next # NoTime => mid[j].next = old[j].next
    BY <1>2, <2>1 DEF Faithful
  <2>3. /\ mid[j].enabled => new[j].enabled
        /\ mid[j].enabled /\ mid[j].next # NoTime => new[j].next = mid[j].next
    BY DEF Faithful
  <2> QED BY <2>2, <2>3
<1> QED BY <1>1, <1>2 DEF Faithful

LEMMA FaithfulFacts ==
  ASSUME now \in 0..MaxNow, NEW ids, NEW st, Stored(st, ids, now)
  PROVE  /\ Faithful(Maintained(st), st, {})
         /\ Faithful(Cleared(st), st, {})
         /\ \A js : Faithful(Marked(st, js), st, {})
<1>1. Faithful(Maintained(st), st, {})
  BY MaintainedFacts DEF Kept, NextKept, Faithful, Within
<1>2. Faithful(Cleared(st), st, {})
  BY ClearedFacts DEF Faithful, Within
<1>3. ASSUME NEW js PROVE Faithful(Marked(st, js), st, {})
  BY MarkedFacts DEF Faithful, Within
<1> QED BY <1>1, <1>2, <1>3

LEMMA AppliedFaithful ==
  ASSUME now \in 0..MaxNow, NEW ids, NEW st, Stored(st, ids, now),
         NEW rs, rs \subseteq Execution(born, now), \A e \in rs : e.st \in Outcomes
  PROVE  Faithful(Maintained(Applied(st, rs)), st, rs)
<1>1. PICK a : a = Applied(st, rs)
  OBVIOUS
<1>2. /\ Stored(a, ids, now) /\ DOMAIN a \subseteq DOMAIN st
      /\ \A j \in DOMAIN a : a[j].enabled => st[j].enabled
      /\ \A j \in DOMAIN st : (\A e \in rs : e.job # j) => j \in DOMAIN a /\ a[j] = st[j]
  BY <1>1, AppliedFacts
<1>3. Faithful(a, st, rs)
  BY <1>2 DEF Faithful, Within
<1>4. Faithful(Maintained(a), a, {})
  BY <1>2, FaithfulFacts
<1> QED BY <1>1, <1>3, <1>4, FaithfulTwice

(* Unless the last section of start() computed all runs anew, only jobs      *)
(* whose execution ended were disabled or moved.                             *)
Finishes(s) == phase[s] \in {"finish", "caughtup"} /\ phase'[s] = "on"

LEMMA SectionsFaithful ==
  ASSUME Types, OneService, CopyCurrent, NEW s \in Services, NEW ok \in BOOLEAN, Section(s, ok),
         failures' = 0, ~handover'
  PROVE  \/ Faithful(disk', disk, execs \ execs')
         \/ Within(disk', disk) /\ Finishes(s)
<1>1. /\ cur' = cur /\ handover' = handover /\ now' = now /\ born' = born
      /\ now \in 0..MaxNow /\ born \subseteq Jobs
      /\ Stored(disk, born, now) /\ Stored(mem[s], born, now)
  BY DEF Section, StartLoads, CatchUpBegins, CatchUpApplies, StartFinishes, TickBegins,
         TickIdles, TickApplies, bounds, Types
<1>2. ASSUME NEW st, Stored(st, born, now), Persist(s, st, ok)
      PROVE  disk' = st /\ failures = 0
  BY <1>1, <1>2, PersistTypes
<1>3. ASSUME NEW st, Stored(st, born, now), Persist(s, st, ok), Faithful(st, disk, {})
      PROVE  Faithful(disk', disk, execs \ execs')
  BY <1>2, <1>3 DEF Faithful
<1>4. ASSUME NEW by, execs' = execs \ Batch(s, by), \A e \in Batch(s, by) : e.st \in Outcomes,
             Persist(s, Maintained(Applied(disk, Batch(s, by))), ok)
      PROVE  Faithful(disk', disk, execs \ execs')
  <2>1. Stored(Maintained(Applied(disk, Batch(s, by))), born, now)
    BY <1>1, <1>4, BatchFacts, AppliedFacts, MaintainedFacts
  <2>2. Faithful(Maintained(Applied(disk, Batch(s, by))), disk, Batch(s, by))
    BY <1>1, <1>4, BatchFacts, AppliedFaithful
  <2>3. execs \ execs' = Batch(s, by)
    BY <1>4, BatchFacts
  <2> QED BY <1>2, <1>4, <2>1, <2>2, <2>3
<1>5. CASE StartLoads(s, ok)
  <2>1. Persist(s, Cleared(disk), ok)
    BY <1>5 DEF StartLoads, Cleared
  <2> QED BY <1>1, <1>3, <2>1, ClearedFacts, FaithfulFacts
<1>6. CASE CatchUpBegins(s, ok)
  <2>1. PICK js : js = {j \in DOMAIN mem[s] \ skip[s] : Missed(j, mem[s][j])}
    OBVIOUS
  <2>2. Persist(s, Marked(mem[s], js), ok) /\ phase[s] = "missed"
    BY <1>6, <2>1 DEF CatchUpBegins
  <2>3. Stored(Marked(mem[s], js), born, now)
    BY <1>1, MarkedFacts
  <2>4. s = cur /\ Serving /\ failures = 0
    BY <1>1, <1>2, <2>2, <2>3, ActingService DEF Serving
  <2>5. Faithful(mem[s], disk, {})
    BY <1>1, <2>4 DEF CopyCurrent, Faithful, Within
  <2>6. Faithful(Marked(mem[s], js), mem[s], {})
    BY <1>1, FaithfulFacts
  <2> QED BY <1>3, <2>2, <2>3, <2>5, <2>6, FaithfulTwice
<1>7. CASE CatchUpApplies(s, ok)
  BY <1>4, <1>7 DEF CatchUpApplies
<1>8. CASE StartFinishes(s, ok)
  <2>1. Stored(Recomputed(disk), born, now) /\ Kept(Recomputed(disk), disk)
    BY <1>1, RecomputedFacts
  <2>2. disk' = Recomputed(disk)
    BY <1>2, <1>8, <2>1 DEF StartFinishes
  <2>3. Finishes(s)
    BY <1>8 DEF StartFinishes, Finishes, Types
  <2> QED BY <2>1, <2>2, <2>3 DEF Within, Kept
<1>9. CASE TickBegins(s, ok)
  <2>1. PICK js : Persist(s, Marked(disk, js), ok)
    BY <1>9 DEF TickBegins
  <2>2. Stored(Marked(disk, js), born, now)
    BY <1>1, MarkedFacts
  <2> QED BY <1>1, <1>3, <2>1, <2>2, FaithfulFacts
<1>10. CASE TickIdles(s, ok)
  BY <1>1, <1>3, <1>10, MaintainedFacts, FaithfulFacts DEF TickIdles
<1>11. CASE TickApplies(s, ok)
  BY <1>4, <1>11 DEF TickApplies
<1> QED BY <1>5, <1>6, <1>7, <1>8, <1>9, <1>10, <1>11 DEF Section

LEMMA RequestsFaithful ==
  ASSUME Types, OneService, CopyCurrent, failures' = 0, ~handover', NEW ok \in BOOLEAN,
         \/ \E m \in Manuals, j \in Jobs, force \in BOOLEAN : RunBegins(m, j, force, ok)
         \/ Read(ok)
         \/ \E e \in execs : RunEnds(e, ok)
  PROVE  Faithful(disk', disk, execs \ execs')
<1>1. /\ cur' = cur /\ handover' = handover /\ now' = now /\ born' = born
      /\ now \in 0..MaxNow /\ born \subseteq Jobs /\ cur \in Services
      /\ Stored(disk, born, now) /\ \A s \in Services : Stored(mem[s], born, now)
  BY DEF RunBegins, Read, RunEnds, request, Types
<1>2. ASSUME NEW s \in Services, NEW st, Stored(st, born, now), Persist(s, st, ok)
      PROVE  disk' = st /\ failures = 0
  BY <1>1, <1>2, PersistTypes
<1>3. ASSUME failures = 0, Serving PROVE Faithful(mem[cur], disk, {})
  BY <1>1, <1>3 DEF CopyCurrent, Faithful, Within
<1>4. PICK st : st = Maintained(mem[cur])
  OBVIOUS
<1>5. Stored(st, born, now) /\ Faithful(st, mem[cur], {})
  BY <1>1, <1>4, MaintainedFacts, FaithfulFacts
<1>6. ASSUME NEW m \in Manuals, NEW j \in Jobs, NEW force \in BOOLEAN, RunBegins(m, j, force, ok)
      PROVE  Faithful(disk', disk, {})
  <2>1. Persist(cur, Marked(st, {j}), ok) /\ Serving
    BY <1>4, <1>6 DEF RunBegins
  <2>2. Stored(Marked(st, {j}), born, now) /\ Faithful(Marked(st, {j}), st, {})
    BY <1>1, <1>5, MarkedFacts, FaithfulFacts
  <2>3. disk' = Marked(st, {j}) /\ failures = 0
    BY <1>1, <1>2, <2>1, <2>2
  <2>4. Faithful(st, disk, {})
    BY <1>3, <1>5, <2>1, <2>3, FaithfulTwice
  <2> QED BY <2>2, <2>3, <2>4, FaithfulTwice
<1>7. CASE Read(ok)
  <2>1. Persist(cur, st, ok) /\ Serving
    BY <1>4, <1>7 DEF Read
  <2>2. disk' = st /\ failures = 0
    BY <1>1, <1>2, <1>5, <2>1
  <2>3. Faithful(disk', disk, {})
    BY <1>3, <1>5, <2>1, <2>2, FaithfulTwice
  <2> QED BY <2>3 DEF Faithful
<1>8. ASSUME NEW r \in execs, RunEnds(r, ok) PROVE Faithful(disk', disk, execs \ execs')
  <2>1. /\ r \in Execution(born, now) /\ r.svc \in Services /\ r.st \in Outcomes
        /\ execs' = execs \ {r} /\ execs \ execs' = {r}
    BY <1>8 DEF RunEnds, Types, Execution
  <2>2. r.svc = cur /\ Serving
    BY <1>1, <2>1, ActingService DEF Resting, Serving, OneService
  <2>3. CASE r.job \in DOMAIN mem[r.svc]
    <3>1. PICK own : own = Ended(disk, Applied(mem[r.svc], {r}), r)
      OBVIOUS
    <3>2. Persist(r.svc, Maintained(own), ok)
      BY <1>8, <2>3, <3>1 DEF RunEnds, Ended
    <3>3. /\ Stored(own, born, now) /\ DOMAIN own \subseteq DOMAIN disk
          /\ \A j \in DOMAIN disk : j # r.job => own[j] = disk[j]
          /\ r.job \in DOMAIN own => /\ r.job \in DOMAIN mem[r.svc]
                                     /\ own[r.job].enabled => mem[r.svc][r.job].enabled
      BY <1>1, <2>1, <3>1, EndedFacts
    <3>4. Stored(Maintained(own), born, now) /\ Faithful(Maintained(own), own, {})
      BY <1>1, <3>3, MaintainedFacts, FaithfulFacts
    <3>5. disk' = Maintained(own) /\ failures = 0
      BY <1>2, <2>1, <3>2, <3>4
    <3>6. Faithful(own, disk, {r})
      BY <1>3, <2>2, <3>3, <3>5 DEF Faithful, Within
    <3> QED BY <2>1, <3>4, <3>5, <3>6, FaithfulTwice
  <2>4. CASE r.job \notin DOMAIN mem[r.svc]
    BY <1>8, <2>4 DEF RunEnds, Faithful, Within
  <2> QED BY <2>3, <2>4
<1>9. Faithful(disk', disk, {}) => Faithful(disk', disk, execs \ execs')
  BY DEF Faithful
<1> QED BY <1>6, <1>7, <1>8, <1>9

LEMMA StepFaithful ==
  ASSUME IndInv, [Next]_vars, failures' = 0, ~handover', edits' = edits
  PROVE  \/ Faithful(disk', disk, execs \ execs')
         \/ Within(disk', disk) /\ \E s \in Services : Finishes(s)
<1> USE DEF IndInv
<1>1. ASSUME disk' = disk PROVE Faithful(disk', disk, execs \ execs')
  BY <1>1 DEF Faithful, Within
<1>2. CASE UNCHANGED vars
  BY <1>1, <1>2 DEF vars
<1>3. ASSUME NEW s \in Services, NothingMissed(s) \/ TimerFires(s) \/ TickEnds(s)
      PROVE  disk' = disk
  BY <1>3 DEF NothingMissed, TimerFires, TickEnds
<1>4. ASSUME NEW e \in execs, JobStarts(e) \/ \E o \in OutcomesOf(e.job) : JobEnds(e, o)
      PROVE  disk' = disk
  BY <1>4 DEF JobStarts, JobEnds
<1>5. CASE RunRefused \/ Replace \/ Crash \/ ClockTicks
  BY <1>1, <1>5 DEF RunRefused, Replace, Crash, ClockTicks
<1>6. ASSUME NEW j \in Jobs, NEW enabled \in BOOLEAN, NEW ok \in BOOLEAN,
             Add(j, ok) \/ Remove(j, ok) \/ Update(j, enabled, ok)
      PROVE  FALSE
  BY <1>6 DEF Add, Remove, Update, Edit, Types
<1>7. CASE Next
  BY <1>1, <1>3, <1>4, <1>5, <1>6, <1>7, SectionsFaithful, RequestsFaithful DEF Next, Step
<1> QED BY <1>2, <1>7

(* What a user disabled or removed stays so: no result, tick or manual run   *)
(* that ends later brings it back, though its service worked on a copy.      *)
THEOREM EditsStay == Spec => EditsStick
<1>1. IndInv /\ [Next]_vars =>
        [failures' = 0 /\ ~handover' /\ edits' = edits =>
           /\ DOMAIN disk' \subseteq DOMAIN disk
           /\ \A j \in DOMAIN disk' : disk'[j].enabled => disk[j].enabled]_vars
  BY StepFaithful DEF Faithful, Within
<1> QED BY <1>1, Invariance, PTL DEF Spec, EditsStick

(* A past-due run is put off only by its execution, by a change of the jobs, *)
(* or at the end of start(): maintenance, and a tick that finds nothing to   *)
(* do, never skip it.                                                        *)
THEOREM NoneSkipped == Spec => NoSilentSkip
<1>1. ASSUME IndInv, [Next]_vars, failures' = 0, ~handover',
             NEW j \in DOMAIN disk \cap DOMAIN disk',
             Due(disk[j]), disk'[j].next > disk[j].next
      PROVE  \/ edits' # edits
             \/ \E s \in Services : phase[s] \in {"finish", "caughtup"} /\ phase'[s] = "on"
             \/ \E e \in execs \ execs' : e.job = j
  <2>1. PICK r : r = disk[j]
    OBVIOUS
  <2>2. r.next \in Int /\ r.enabled /\ r.next # NoTime /\ disk'[j].next > r.next
    BY <1>1, <2>1, CronAssumption DEF IndInv, Types, Stored, JobRec, Times, NoTime, Due
  <2>3. disk'[j].next # r.next
    BY <2>2
  <2> QED BY <1>1, <2>1, <2>2, <2>3, StepFaithful DEF Faithful, Finishes
<1>2. IndInv /\ [Next]_vars =>
        [failures' = 0 /\ ~handover' => \A j \in DOMAIN disk \cap DOMAIN disk' :
           Due(disk[j]) /\ disk'[j].next > disk[j].next =>
             \/ edits' # edits
             \/ \E s \in Services : phase[s] \in {"finish", "caughtup"} /\ phase'[s] = "on"
             \/ \E e \in execs \ execs' : e.job = j]_vars
  BY <1>1
<1> QED BY <1>2, Invariance, PTL DEF Spec, NoSilentSkip
=============================================================================
