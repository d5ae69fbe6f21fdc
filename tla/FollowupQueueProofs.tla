------------------------ MODULE FollowupQueueProofs ------------------------
(* Theorems about FollowupQueue for any messages, routes and settings.       *)
EXTENDS FollowupQueue, FiniteSetTheorems, FunctionTheorems, SequenceTheorems, TLAPS

Modes == {"followup", "collect"}
Policies == {"old", "new", "summarize"}

QueueRec == [items : Seq(Msgs), draining : BOOLEAN, mode : Modes, cap : Nat,
             drop : Policies, dropped : SUBSET Msgs, lastRun : BOOLEAN]

LoopRec == [pc : {"idle", "debounce", "checked", "leaving", "running"},
            obj : Objs \cup {None}, force : BOOLEAN, kind : {"item", "collect", "summary"},
            batch : Seq(Msgs), told : SUBSET Msgs]

Worlds == [queue : [Objs -> QueueRec], current : Objs \cup {None},
           created : 0 .. Cardinality(Msgs), callback : BOOLEAN,
           loop : [Loops -> LoopRec], fate : [Msgs -> Fates]]

(* What has become of a message before it is queued, and after it left.      *)
Early == {"new", "turn", "answered", "routed"}
Gone == {"dropped", "summarized", "told", "late", "delivered", "cleared"}
Over == {"dropped", "summarized", "told", "late"}

Running(w, i) == w.loop[i].pc # "idle"

(* A loop drains an object of its own; before the first clear, that of the   *)
(* key.                                                                      *)
LoopsOK(w, c) ==
  /\ \A i \in Loops : Running(w, i) =>
       /\ w.loop[i].obj \in 1 .. w.created
       /\ w.queue[w.loop[i].obj].draining
       /\ c = 0 => w.loop[i].obj = w.current
       /\ \A j \in Loops : Running(w, j) /\ w.loop[j].obj = w.loop[i].obj => j = i
  /\ w.current <= w.created

(* The messages that reached the queue are at least as many as its objects.  *)
CountOK(w) == w.created <= Cardinality({m \in Msgs : w.fate[m] \notin Early})

Positions(s) == 1 .. Len(s)

(* An item is in one place of one queue, and its fate is open; one that      *)
(* counts for a summary is gone.                                             *)
ItemsOK(w) ==
  \A o \in Objs :
    /\ \A p \in Positions(w.queue[o].items) :
         /\ w.fate[w.queue[o].items[p]] = "queued"
         /\ \A r \in Objs : \A q \in Positions(w.queue[r].items) :
              w.queue[r].items[q] = w.queue[o].items[p] => r = o /\ q = p
    /\ \A m \in w.queue[o].dropped : w.fate[m] \in Gone

(* Before the first clear, and before anything was dropped, every queued     *)
(* message is in the queue of the key.                                       *)
Overflow(w) == \E m \in Msgs : w.fate[m] \in Over

KeptOK(w, c) ==
  c = 0 =>
    /\ \A o \in Objs : \A m \in w.queue[o].dropped : w.fate[m] \in Over
    /\ ~Overflow(w) => \A m \in Msgs : w.fate[m] = "queued" =>
         w.current # None /\ m \in Range(w.queue[w.current].items)

(* The messages of a run were not run before; those that are still items     *)
(* stand where the end of the run removes them, and nowhere else.            *)
RunOK(w, c, i) ==
  LET l == w.loop[i]
      items == w.queue[l.obj].items
  IN /\ \A m \in l.told : w.fate[m] \in Gone
     /\ c = 0 => \A m \in l.told : w.fate[m] \in Over
     /\ l.kind = "summary" => l.told # {}
     /\ l.kind # "summary" =>
          /\ \A m \in Range(l.batch) :
               /\ w.fate[m] \in {"queued", "dropped", "summarized", "told", "cleared"}
               /\ c = 0 => w.fate[m] # "told"
               /\ \A o \in Objs : \A p \in Positions(w.queue[o].items) :
                    w.queue[o].items[p] = m => o = l.obj /\ p <= Len(l.batch)
               /\ \A j \in Loops :
                    /\ w.loop[j].pc = "running" /\ w.loop[j].kind # "summary"
                    /\ m \in Range(w.loop[j].batch)
                    => j = i
          /\ c = 0 /\ ~Overflow(w) =>
               /\ Len(l.batch) <= Len(items)
               /\ \A p \in Positions(l.batch) : items[p] = l.batch[p]

RunsOK(w, c) == \A i \in Loops : w.loop[i].pc = "running" => RunOK(w, c, i)

Good(w, c) == LoopsOK(w, c) /\ ItemsOK(w) /\ KeptOK(w, c)

Safe(w, c) == w \in Worlds /\ CountOK(w) /\ Good(w, c) /\ RunsOK(w, c)

IndInv ==
  Safe(World, clears) /\ clears \in 0 .. MaxClears /\ failures \in 0 .. MaxFailures

-----------------------------------------------------------------------------
(* What the functions from world to world change *)

LEMMA CountType == Cardinality(Msgs) \in Nat
BY MsgsAssumption, FS_CardinalityType

LEMMA WorldFacts ==
  ASSUME NEW w \in Worlds
  PROVE  /\ w.queue \in [Objs -> QueueRec] /\ w.loop \in [Loops -> LoopRec]
         /\ w.fate \in [Msgs -> Fates]
         /\ w.current \in Objs \cup {None} /\ w.created \in 0 .. Cardinality(Msgs)
         /\ w.callback \in BOOLEAN
         /\ w.current # None => w.current \in Objs
BY DEF Worlds

LEMMA NoMessages == <<>> \in Seq(Msgs) /\ Len(<<>>) = 0
OBVIOUS

(* The loop i begins to drain the object o.                                  *)
Begun(u, w, i, o) ==
  /\ u.current = w.current
  /\ u.queue[o].items = w.queue[o].items /\ u.queue[o].dropped = w.queue[o].dropped
  /\ u.queue[o].draining
  /\ \A r \in Objs : r # o => u.queue[r] = w.queue[r]
  /\ u.loop[i].pc = "debounce" /\ u.loop[i].obj = o
  /\ \A j \in Loops : j # i => u.loop[j] = w.loop[j]

LEMMA ScheduleFacts ==
  ASSUME NEW w \in Worlds, NEW i \in Loops, NEW u, u = Schedule(w, i)
  PROVE  /\ u \in Worlds /\ u.fate = w.fate /\ u.created = w.created
         /\ \/ u.queue = w.queue /\ u.loop = w.loop /\ u.current = w.current
            \/ /\ u.queue = w.queue /\ u.loop = w.loop /\ u.current = None
               /\ w.current # None /\ ~w.queue[w.current].draining
               /\ ~HasWork(w.queue[w.current])
            \/ /\ w.current # None /\ ~w.queue[w.current].draining
               /\ Begun(u, w, i, w.current)
<1>1. PICK o : o = w.current
  OBVIOUS
<1>2. CASE o = None \/ w.queue[o].draining
  <2>1. u = w
    BY <1>1, <1>2 DEF Schedule
  <2> QED BY <2>1
<1>3. CASE o # None /\ ~w.queue[o].draining /\ HasWork(w.queue[o])
  <2>1. o \in Objs /\ w.queue[o] \in QueueRec
    BY <1>1, <1>3, WorldFacts
  <2>2. PICK q : q = [w.queue[o] EXCEPT !.draining = TRUE]
    OBVIOUS
  <2>3. /\ q \in QueueRec /\ q.draining
        /\ q.items = w.queue[o].items /\ q.dropped = w.queue[o].dropped
    BY <2>1, <2>2 DEF QueueRec
  <2>4. PICK l : l = [IdleLoop EXCEPT !.pc = "debounce", !.obj = o]
    OBVIOUS
  <2>5. l \in LoopRec /\ l.pc = "debounce" /\ l.obj = o
    BY <2>1, <2>4, NoMessages DEF LoopRec, IdleLoop
  <2>6. u = [w EXCEPT !.queue = [w.queue EXCEPT ![o] = q], !.callback = TRUE,
                      !.loop = [w.loop EXCEPT ![i] = l]]
    BY <1>1, <1>3, <2>2, <2>4 DEF Schedule
  <2>7. PICK Q \in [Objs -> QueueRec] : Q = [w.queue EXCEPT ![o] = q]
    BY <2>3, WorldFacts
  <2>8. PICK L \in [Loops -> LoopRec] : L = [w.loop EXCEPT ![i] = l]
    BY <2>5, WorldFacts
  <2>9. u = [w EXCEPT !.queue = Q, !.callback = TRUE, !.loop = L]
    BY <2>6, <2>7, <2>8
  <2>10. /\ u \in Worlds /\ u.fate = w.fate /\ u.created = w.created /\ u.current = w.current
         /\ u.queue = Q /\ u.loop = L
    BY <2>9 DEF Worlds
  <2>11. Q[o] = q /\ \A r \in Objs : r # o => Q[r] = w.queue[r]
    BY <2>1, <2>7, WorldFacts
  <2>12. L[i] = l /\ \A j \in Loops : j # i => L[j] = w.loop[j]
    BY <2>8, WorldFacts
  <2>13. Begun(u, w, i, o)
    BY <2>3, <2>5, <2>10, <2>11, <2>12 DEF Begun
  <2> QED BY <1>1, <1>3, <2>10, <2>13
<1>4. CASE o # None /\ ~w.queue[o].draining /\ ~HasWork(w.queue[o])
  <2>1. u = [w EXCEPT !.current = None, !.callback = TRUE]
    BY <1>1, <1>4 DEF Schedule
  <2> QED BY <1>1, <1>4, <2>1 DEF Worlds
<1> QED BY <1>2, <1>3, <1>4

-----------------------------------------------------------------------------
(* Loops that begin and end *)

(* The queues hold the same items and summaries.                             *)
SameItems(u, w) ==
  \A o \in Objs : u.queue[o].items = w.queue[o].items /\ u.queue[o].dropped = w.queue[o].dropped

LEMMA ItemsSame ==
  ASSUME NEW w, NEW u, SameItems(u, w), u.fate = w.fate, ItemsOK(w)
  PROVE  ItemsOK(u)
BY DEF SameItems, ItemsOK

LEMMA KeptSame ==
  ASSUME NEW w \in Worlds, NEW u, NEW c, SameItems(u, w), u.fate = w.fate, KeptOK(w, c),
         u.current = w.current \/ (c = 0 => w.current = None \/ w.queue[w.current].items = <<>>)
  PROVE  KeptOK(u, c)
<1> SUFFICES ASSUME c = 0 PROVE KeptOK(u, c)
  BY DEF KeptOK
<1>1. \A o \in Objs : \A m \in u.queue[o].dropped : u.fate[m] \in Over
  BY DEF SameItems, KeptOK
<1>2. ASSUME ~Overflow(u), NEW m \in Msgs, u.fate[m] = "queued"
      PROVE  u.current # None /\ m \in Range(u.queue[u.current].items)
  <2>1. w.current # None /\ m \in Range(w.queue[w.current].items)
    BY <1>2 DEF KeptOK, Overflow
  <2>2. w.current \in Objs /\ w.queue[w.current].items # <<>>
    BY <2>1, WorldFacts DEF Range
  <2> QED BY <2>1, <2>2 DEF SameItems
<1> QED BY <1>1, <1>2 DEF KeptOK

(* The runs of w that are still under way in u.                              *)
LEMMA RunsSame ==
  ASSUME NEW w \in Worlds, NEW u, NEW c, SameItems(u, w), u.fate = w.fate,
         \A i \in Loops : u.loop[i].pc = "running" => u.loop[i] = w.loop[i] /\ RunOK(w, c, i),
         \A i \in Loops : u.loop[i].pc = "running" => u.loop[i].obj \in Objs
  PROVE  RunsOK(u, c)
<1> SUFFICES ASSUME NEW i \in Loops, u.loop[i].pc = "running" PROVE RunOK(u, c, i)
  BY DEF RunsOK
<1>1. PICK l : l = w.loop[i]
  OBVIOUS
<1>2. u.loop[i] = l /\ RunOK(w, c, i) /\ l.obj \in Objs
  BY <1>1
<1>3. u.queue[l.obj].items = w.queue[l.obj].items /\ (Overflow(u) <=> Overflow(w))
  BY <1>2 DEF SameItems, Overflow
<1>4. \A o \in Objs : u.queue[o].items = w.queue[o].items
  BY DEF SameItems
<1>5. \A j \in Loops : u.loop[j].pc = "running" => u.loop[j] = w.loop[j]
  OBVIOUS
<1>6. l.kind # "summary" => \A m \in Range(l.batch) : \A j \in Loops :
        u.loop[j].pc = "running" /\ u.loop[j].kind # "summary" /\ m \in Range(u.loop[j].batch)
          => j = i
  BY <1>1, <1>2, <1>5 DEF RunOK
<1>7. /\ \A m \in l.told : u.fate[m] \in Gone
      /\ c = 0 => \A m \in l.told : u.fate[m] \in Over
      /\ l.kind = "summary" => l.told # {}
  BY <1>1, <1>2 DEF RunOK
<1>8. l.kind # "summary" => \A m \in Range(l.batch) :
        /\ u.fate[m] \in {"queued", "dropped", "summarized", "told", "cleared"}
        /\ c = 0 => u.fate[m] # "told"
        /\ \A o \in Objs : \A p \in Positions(u.queue[o].items) :
             u.queue[o].items[p] = m => o = l.obj /\ p <= Len(l.batch)
  BY <1>1, <1>2, <1>4 DEF RunOK
<1>9. l.kind # "summary" /\ c = 0 /\ ~Overflow(u) =>
        /\ Len(l.batch) <= Len(u.queue[l.obj].items)
        /\ \A p \in Positions(l.batch) : u.queue[l.obj].items[p] = l.batch[p]
  <2>1. l.kind # "summary" /\ c = 0 /\ ~Overflow(w) =>
          /\ Len(l.batch) <= Len(w.queue[l.obj].items)
          /\ \A p \in Positions(l.batch) : w.queue[l.obj].items[p] = l.batch[p]
    BY <1>1, <1>2 DEF RunOK
  <2> QED BY <1>3, <2>1
<1> QED BY <1>2, <1>6, <1>7, <1>8, <1>9 DEF RunOK

LEMMA LoopObject ==
  ASSUME NEW w \in Worlds, NEW c, LoopsOK(w, c), NEW i \in Loops, Running(w, i)
  PROVE  /\ w.loop[i].obj \in Objs /\ w.loop[i].obj # None
         /\ w.queue[w.loop[i].obj].draining /\ w.queue[w.loop[i].obj] \in QueueRec
<1>1. /\ w.loop[i].obj \in 1 .. w.created /\ w.created \in 0 .. Cardinality(Msgs)
      /\ w.queue[w.loop[i].obj].draining
  BY WorldFacts DEF LoopsOK
<1>2. w.loop[i].obj \in Objs /\ w.loop[i].obj # None
  BY <1>1, CountType DEF Objs, None
<1> QED BY <1>1, <1>2, WorldFacts

LEMMA ScheduleKeeps ==
  ASSUME NEW w \in Worlds, NEW c \in Nat, NEW i \in Loops, NEW u, u = Schedule(w, i),
         Good(w, c), RunsOK(w, c),
         w.current # None /\ ~w.queue[w.current].draining => ~Running(w, i)
  PROVE  /\ u \in Worlds /\ Good(u, c) /\ RunsOK(u, c)
         /\ u.fate = w.fate /\ u.created = w.created
<1>1. /\ u \in Worlds /\ u.fate = w.fate /\ u.created = w.created
      /\ \/ u.queue = w.queue /\ u.loop = w.loop /\ u.current = w.current
         \/ /\ u.queue = w.queue /\ u.loop = w.loop /\ u.current = None
            /\ w.current # None /\ ~w.queue[w.current].draining
            /\ ~HasWork(w.queue[w.current])
         \/ /\ w.current # None /\ ~w.queue[w.current].draining
            /\ Begun(u, w, i, w.current)
  BY ScheduleFacts
<1>2. SameItems(u, w)
  BY <1>1, WorldFacts DEF SameItems, Begun
<1>3. KeptOK(u, c)
  <2>1. u.current = w.current \/ (w.current # None /\ w.queue[w.current].items = <<>>)
    BY <1>1 DEF Begun, HasWork
  <2> QED BY <1>1, <1>2, <2>1, KeptSame DEF Good
<1>4. \A j \in Loops : u.loop[j].pc = "running" =>
        u.loop[j] = w.loop[j] /\ RunOK(w, c, j) /\ u.loop[j].obj \in Objs
  <2>1. ASSUME NEW j \in Loops, u.loop[j].pc = "running"
        PROVE  u.loop[j] = w.loop[j]
    BY <1>1, <2>1 DEF Begun
  <2>2. ASSUME NEW j \in Loops, w.loop[j].pc = "running" PROVE w.loop[j].obj \in Objs
    BY <2>2, LoopObject DEF Good, Running
  <2> QED BY <2>1, <2>2 DEF RunsOK
<1>5. RunsOK(u, c)
  BY <1>1, <1>2, <1>4, RunsSame
<1>6. LoopsOK(u, c)
  <2>1. CASE u.queue = w.queue /\ u.loop = w.loop /\ u.current = w.current
    BY <1>1, <2>1 DEF Good, LoopsOK, Running
  <2>2. CASE /\ u.queue = w.queue /\ u.loop = w.loop /\ u.current = None
             /\ w.current # None /\ ~w.queue[w.current].draining
    <3>1. c = 0 => \A j \in Loops : ~Running(w, j)
      BY <2>2 DEF Good, LoopsOK
    <3>2. None <= u.created
      BY <1>1, WorldFacts, CountType DEF None
    <3> QED BY <1>1, <2>2, <3>1, <3>2 DEF Good, LoopsOK, Running
  <2>3. CASE /\ w.current # None /\ ~w.queue[w.current].draining
             /\ Begun(u, w, i, w.current)
    <3>1. PICK o \in Objs : o = w.current
      BY <2>3, WorldFacts
    <3>2. \A j \in Loops : Running(w, j) => j # i /\ w.loop[j].obj # o /\ w.loop[j].obj \in Objs
      BY <2>3, <3>1, LoopObject DEF Good
    <3>3. u.loop[i].obj = o /\ u.queue[o].draining /\ u.current = o
      BY <2>3, <3>1 DEF Begun
    <3>4. \A j \in Loops : Running(u, j) /\ j # i =>
            Running(w, j) /\ u.loop[j] = w.loop[j] /\ u.queue[u.loop[j].obj] = w.queue[w.loop[j].obj]
      BY <2>3, <3>1, <3>2 DEF Begun, Running
    <3>5. o \in 1 .. u.created
      BY <1>1, <3>1 DEF Good, LoopsOK, Objs
    <3> QED BY <1>1, <3>1, <3>2, <3>3, <3>4, <3>5 DEF Good, LoopsOK
  <2> QED BY <1>1, <2>1, <2>2, <2>3
<1> QED BY <1>1, <1>2, <1>3, <1>5, <1>6, ItemsSame DEF Good

(* The loop i ends. *)
Ended(w, i, o) == [w EXCEPT !.queue[o].draining = FALSE, !.loop[i] = IdleLoop]

LEMMA EndedFacts ==
  ASSUME NEW w \in Worlds, NEW i \in Loops, NEW o \in Objs, NEW e, e = Ended(w, i, o)
  PROVE  /\ e \in Worlds /\ e.fate = w.fate /\ e.created = w.created /\ e.current = w.current
         /\ SameItems(e, w) /\ \A r \in Objs : r # o => e.queue[r] = w.queue[r]
         /\ ~Running(e, i) /\ \A j \in Loops : j # i => e.loop[j] = w.loop[j]
<1>1. PICK q : q = [w.queue[o] EXCEPT !.draining = FALSE]
  OBVIOUS
<1>2. q \in QueueRec /\ q.items = w.queue[o].items /\ q.dropped = w.queue[o].dropped
  <2>1. w.queue[o] \in QueueRec
    BY WorldFacts
  <2> QED BY <1>1, <2>1 DEF QueueRec
<1>3. IdleLoop \in LoopRec /\ IdleLoop.pc = "idle"
  BY NoMessages DEF IdleLoop, LoopRec
<1>4. PICK Q \in [Objs -> QueueRec] : Q = [w.queue EXCEPT ![o] = q]
  BY <1>2, WorldFacts
<1>5. PICK L \in [Loops -> LoopRec] : L = [w.loop EXCEPT ![i] = IdleLoop]
  BY <1>3, WorldFacts
<1>6. e = [w EXCEPT !.queue = Q, !.loop = L]
  BY <1>1, <1>4, <1>5 DEF Ended
<1>7. /\ e \in Worlds /\ e.fate = w.fate /\ e.created = w.created /\ e.current = w.current
      /\ e.queue = Q /\ e.loop = L
  BY <1>6 DEF Worlds
<1>8. Q[o] = q /\ \A r \in Objs : r # o => Q[r] = w.queue[r]
  BY <1>4, WorldFacts
<1>9. L[i] = IdleLoop /\ \A j \in Loops : j # i => L[j] = w.loop[j]
  BY <1>5, WorldFacts
<1> QED BY <1>2, <1>3, <1>7, <1>8, <1>9 DEF SameItems, Running

(* The end of a loop, and the condition for its next round, whatever the run *)
(* that just ended did.                                                      *)
LEMMA FinallyKeeps ==
  ASSUME NEW w \in Worlds, NEW c \in Nat, NEW i \in Loops, Running(w, i), Good(w, c),
         \A j \in Loops : j # i /\ w.loop[j].pc = "running" => RunOK(w, c, j),
         NEW u, u = Finally(w, i)
  PROVE  /\ u \in Worlds /\ Good(u, c) /\ RunsOK(u, c)
         /\ u.fate = w.fate /\ u.created = w.created
<1>1. PICK o : o = w.loop[i].obj
  OBVIOUS
<1>2. PICK e : e = Ended(w, i, o)
  OBVIOUS
<1>3. o \in Objs
  BY <1>1, LoopObject DEF Good
<1>4. /\ e \in Worlds /\ e.fate = w.fate /\ e.created = w.created /\ e.current = w.current
      /\ SameItems(e, w) /\ \A r \in Objs : r # o => e.queue[r] = w.queue[r]
      /\ ~Running(e, i) /\ \A j \in Loops : j # i => e.loop[j] = w.loop[j]
  BY <1>2, <1>3, EndedFacts
<1>5. ASSUME NEW j \in Loops, Running(e, j)
      PROVE  /\ j # i /\ Running(w, j) /\ e.loop[j] = w.loop[j]
             /\ w.loop[j].obj \in Objs /\ w.loop[j].obj # o
  <2>1. j # i /\ e.loop[j] = w.loop[j] /\ Running(w, j)
    BY <1>4, <1>5 DEF Running
  <2>2. w.loop[j].obj \in Objs
    BY <2>1, LoopObject DEF Good
  <2>3. w.loop[j].obj # o
    BY <1>1, <2>1 DEF Good, LoopsOK
  <2> QED BY <2>1, <2>2, <2>3
<1>6. LoopsOK(e, c)
  BY <1>4, <1>5 DEF Good, LoopsOK
<1>7. RunsOK(e, c)
  BY <1>4, <1>5, RunsSame DEF Running
<1>8. ItemsOK(e) /\ KeptOK(e, c)
  BY <1>4, ItemsSame, KeptSame DEF Good
<1>9. CASE HasWork(w.queue[o])
  <2>1. u = Schedule(e, i)
    BY <1>1, <1>2, <1>9 DEF Finally, Ended
  <2> QED BY <1>4, <1>6, <1>7, <1>8, <2>1, ScheduleKeeps DEF Good
<1>10. CASE ~HasWork(w.queue[o])
  <2>1. u = [e EXCEPT !.current = None]
    BY <1>1, <1>2, <1>10 DEF Finally, Ended
  <2>2. /\ u \in Worlds /\ u.fate = e.fate /\ u.created = e.created /\ u.current = None
        /\ u.queue = e.queue /\ u.loop = e.loop
    BY <1>4, <2>1 DEF Worlds
  <2>3. SameItems(u, w) /\ SameItems(u, e)
    BY <1>4, <2>2 DEF SameItems
  <2>4. c = 0 => w.current = o /\ w.queue[w.current].items = <<>>
    BY <1>1, <1>10 DEF Good, LoopsOK, HasWork
  <2>5. KeptOK(u, c)
    BY <1>4, <2>2, <2>3, <2>4, KeptSame DEF Good
  <2>6. c = 0 => \A j \in Loops : ~Running(e, j)
    BY <1>5, <2>4 DEF Good, LoopsOK
  <2>7. None <= u.created
    BY <2>2, WorldFacts, CountType DEF None
  <2>8. LoopsOK(u, c)
    BY <1>6, <2>2, <2>6, <2>7 DEF LoopsOK, Running
  <2>9. RunsOK(u, c)
    <3>1. \A j \in Loops : u.loop[j].pc = "running" =>
            u.loop[j] = e.loop[j] /\ RunOK(e, c, j) /\ u.loop[j].obj \in Objs
      BY <1>5, <1>7, <2>2 DEF RunsOK, Running
    <3> QED BY <1>4, <2>2, <2>3, <3>1, RunsSame
  <2> QED BY <1>4, <1>8, <2>2, <2>3, <2>5, <2>8, <2>9, ItemsSame DEF Good
<1> QED BY <1>9, <1>10

(* A loop that is not running any more goes on, or leaves.                   *)
LEMMA PausedFacts ==
  ASSUME NEW w \in Worlds, NEW c \in Nat, NEW i \in Loops, Running(w, i), Good(w, c),
         \A j \in Loops : j # i /\ w.loop[j].pc = "running" => RunOK(w, c, j),
         NEW pc \in {"debounce", "checked", "leaving"},
         NEW u \in Worlds, u.queue = w.queue, u.fate = w.fate, u.created = w.created,
         u.current = w.current, u.loop[i].pc = pc, u.loop[i].obj = w.loop[i].obj,
         \A j \in Loops : j # i => u.loop[j] = w.loop[j]
  PROVE  Good(u, c) /\ RunsOK(u, c)
<1>1. SameItems(u, w)
  BY DEF SameItems
<1>2. \A j \in Loops : Running(u, j) => Running(w, j) /\ u.loop[j].obj = w.loop[j].obj
  BY DEF Running
<1>3. LoopsOK(u, c)
  BY <1>2 DEF Good, LoopsOK
<1>4. RunsOK(u, c)
  <2>1. \A j \in Loops : u.loop[j].pc = "running" => j # i /\ u.loop[j] = w.loop[j]
    OBVIOUS
  <2>2. \A j \in Loops : u.loop[j].pc = "running" => u.loop[j].obj \in Objs
    BY <1>2, <2>1, LoopObject DEF Good, Running
  <2> QED BY <1>1, <2>1, <2>2, RunsSame
<1> QED BY <1>1, <1>3, <1>4, ItemsSame, KeptSame DEF Good

LEMMA AgainKeeps ==
  ASSUME NEW w \in Worlds, NEW c \in Nat, NEW i \in Loops, Running(w, i), Good(w, c),
         \A j \in Loops : j # i /\ w.loop[j].pc = "running" => RunOK(w, c, j),
         NEW u, u = Again(w, i)
  PROVE  /\ u \in Worlds /\ Good(u, c) /\ RunsOK(u, c)
         /\ u.fate = w.fate /\ u.created = w.created
<1>1. CASE HasWork(w.queue[w.loop[i].obj])
  <2>1. PICK l : l = [w.loop[i] EXCEPT !.pc = "debounce"]
    OBVIOUS
  <2>2. l \in LoopRec /\ l.pc = "debounce" /\ l.obj = w.loop[i].obj
    <3>1. w.loop[i] \in LoopRec
      BY WorldFacts
    <3> QED BY <2>1, <3>1 DEF LoopRec
  <2>3. PICK L \in [Loops -> LoopRec] : L = [w.loop EXCEPT ![i] = l]
    BY <2>2, WorldFacts
  <2>4. u = [w EXCEPT !.loop = L]
    BY <1>1, <2>1, <2>3 DEF Again
  <2>5. /\ u \in Worlds /\ u.queue = w.queue /\ u.fate = w.fate /\ u.created = w.created
        /\ u.current = w.current /\ u.loop = L
    BY <2>4 DEF Worlds
  <2>6. L[i] = l /\ \A j \in Loops : j # i => L[j] = w.loop[j]
    BY <2>3, WorldFacts
  <2> QED BY <2>2, <2>5, <2>6, PausedFacts
<1>2. CASE ~HasWork(w.queue[w.loop[i].obj])
  BY <1>2, FinallyKeeps DEF Again
<1> QED BY <1>1, <1>2

-----------------------------------------------------------------------------
(* Messages that arrive, and those that go *)

LEMMA LoopsSame ==
  ASSUME NEW w, NEW u, NEW c, u.queue = w.queue, u.loop = w.loop,
         u.current = w.current, u.created = w.created, LoopsOK(w, c)
  PROVE  LoopsOK(u, c)
BY DEF LoopsOK, Running

(* The messages of S have the fate f, all else is as before.                 *)
Fated(u, w, S, f) ==
  /\ u.queue = w.queue /\ u.loop = w.loop
  /\ u.current = w.current /\ u.created = w.created /\ u.callback = w.callback
  /\ \A m \in Msgs : u.fate[m] = IF m \in S THEN f ELSE w.fate[m]

LEMMA SetFateFacts ==
  ASSUME NEW w \in Worlds, NEW S \in SUBSET Msgs, NEW f \in Fates, NEW u, u = SetFate(w, S, f)
  PROVE  u \in Worlds /\ Fated(u, w, S, f)
<1>1. PICK F : F = [m \in Msgs |-> IF m \in S THEN f ELSE w.fate[m]]
  OBVIOUS
<1>2. F \in [Msgs -> Fates]
  BY <1>1, WorldFacts
<1>3. u = [w EXCEPT !.fate = F]
  BY <1>1 DEF SetFate
<1>4. /\ u \in Worlds /\ u.queue = w.queue /\ u.loop = w.loop /\ u.fate = F
      /\ u.current = w.current /\ u.created = w.created /\ u.callback = w.callback
  BY <1>2, <1>3 DEF Worlds
<1> QED BY <1>1, <1>4 DEF Fated

(* One message has the fate f. *)
LEMMA OneFate ==
  ASSUME NEW w \in Worlds, NEW m \in Msgs, NEW f \in Fates, NEW u, u = SetFate(w, {m}, f)
  PROVE  u \in Worlds /\ Fated(u, w, {m}, f)
<1>1. PICK S \in SUBSET Msgs : S = {m}
  OBVIOUS
<1> QED BY <1>1, SetFateFacts

(* No message is counted less than before.                                   *)
LEMMA CountKept ==
  ASSUME NEW w \in Worlds, NEW u \in Worlds, CountOK(w), u.created = w.created,
         \A m \in Msgs : w.fate[m] \notin Early => u.fate[m] \notin Early
  PROVE  CountOK(u)
<1>1. PICK S : S = {m \in Msgs : w.fate[m] \notin Early}
  OBVIOUS
<1>2. PICK T : T = {m \in Msgs : u.fate[m] \notin Early}
  OBVIOUS
<1>3. S \subseteq T /\ IsFiniteSet(T)
  BY <1>1, <1>2, MsgsAssumption, FS_Subset
<1>4. Cardinality(S) <= Cardinality(T) /\ Cardinality(S) \in Nat /\ Cardinality(T) \in Nat
  BY <1>3, FS_Subset, FS_CardinalityType
<1> QED BY <1>1, <1>2, <1>4, WorldFacts, CountType DEF CountOK

(* A message that leaves the early fates makes room for one more object.     *)
LEMMA CountMore ==
  ASSUME NEW w \in Worlds, NEW u \in Worlds, NEW m \in Msgs, CountOK(w),
         w.fate[m] \in Early, u.fate[m] \notin Early,
         \A k \in Msgs : w.fate[k] \notin Early => u.fate[k] \notin Early,
         u.created <= w.created + 1
  PROVE  CountOK(u)
<1>1. PICK S : S = {k \in Msgs : w.fate[k] \notin Early}
  OBVIOUS
<1>2. PICK T : T = {k \in Msgs : u.fate[k] \notin Early}
  OBVIOUS
<1>3. S \cup {m} \subseteq T /\ IsFiniteSet(T) /\ IsFiniteSet(S) /\ m \notin S
  BY <1>1, <1>2, MsgsAssumption, FS_Subset
<1>4. Cardinality(S \cup {m}) = Cardinality(S) + 1
  BY <1>3, FS_AddElement
<1>5. Cardinality(S \cup {m}) <= Cardinality(T)
  BY <1>3, FS_Subset
<1>6. Cardinality(S) \in Nat /\ Cardinality(T) \in Nat
  BY <1>3, FS_CardinalityType
<1> QED BY <1>1, <1>2, <1>4, <1>5, <1>6, WorldFacts, CountType DEF CountOK

LEMMA RoomForQueue ==
  ASSUME NEW w \in Worlds, NEW m \in Msgs, w.fate[m] \in Early, CountOK(w)
  PROVE  w.created + 1 \in Objs
<1>1. PICK S : S = {k \in Msgs : w.fate[k] \notin Early}
  OBVIOUS
<1>2. S \cup {m} \subseteq Msgs /\ IsFiniteSet(S) /\ m \notin S
  BY <1>1, MsgsAssumption, FS_Subset
<1>3. Cardinality(S \cup {m}) = Cardinality(S) + 1
  BY <1>2, FS_AddElement
<1>4. Cardinality(S \cup {m}) <= Cardinality(Msgs) /\ Cardinality(S) \in Nat
  BY <1>2, MsgsAssumption, FS_Subset, FS_CardinalityType
<1> QED BY <1>1, <1>3, <1>4, WorldFacts, CountType DEF CountOK, Objs

(* An early message that is not queued concerns no queue and no run.         *)
LEMMA Settled ==
  ASSUME NEW w \in Worlds, NEW c \in Nat, NEW m \in Msgs, w.fate[m] \in Early,
         NEW f \in Early \cup {"duplicate", "refused"}, Good(w, c), RunsOK(w, c),
         NEW u \in Worlds, Fated(u, w, {m}, f)
  PROVE  Good(u, c) /\ RunsOK(u, c)
<1>1. f \in Fates /\ f # "queued" /\ f \notin Gone
  BY DEF Early, Fates, Gone
<1>2. u.queue = w.queue /\ u.loop = w.loop /\ u.current = w.current /\ u.created = w.created
  BY DEF Fated
<1>3. u.fate[m] = f /\ \A k \in Msgs : k # m => u.fate[k] = w.fate[k]
  BY DEF Fated
<1>5. LoopsOK(u, c)
  <2>1. u.queue = w.queue /\ u.loop = w.loop /\ u.current = w.current /\ u.created = w.created
    BY <1>2
  <2>2. LoopsOK(w, c)
    BY DEF Good
  <2> QED BY <2>1, <2>2, LoopsSame
<1>6. \A k \in Msgs : w.fate[k] \notin Early => u.fate[k] = w.fate[k] /\ k # m
  BY <1>3
<1>7. \A k \in Msgs : /\ u.fate[k] = "queued" <=> w.fate[k] = "queued"
                      /\ u.fate[k] \in Over <=> w.fate[k] \in Over
  BY <1>1, <1>3 DEF Early, Over, Gone
<1>8. Overflow(u) <=> Overflow(w)
  BY <1>7 DEF Overflow
<1>9. ItemsOK(u)
  <2>1. ASSUME NEW o \in Objs, NEW p \in Positions(w.queue[o].items)
        PROVE  u.fate[w.queue[o].items[p]] = "queued"
    <3>1. w.fate[w.queue[o].items[p]] = "queued"
      BY <2>1 DEF Good, ItemsOK
    <3>2. w.queue[o].items[p] \in Msgs
      <4>1. w.queue[o] \in QueueRec
        BY WorldFacts
      <4>2. w.queue[o].items \in Seq(Msgs)
        BY <4>1 DEF QueueRec
      <4> QED BY <2>1, <4>2 DEF Positions
    <3> QED BY <1>7, <3>1, <3>2
  <2>2. ASSUME NEW o \in Objs, NEW k \in w.queue[o].dropped
        PROVE  u.fate[k] \in Gone
    <3>1. w.fate[k] \in Gone
      BY <2>2 DEF Good, ItemsOK
    <3>2. w.queue[o] \in QueueRec
      BY WorldFacts
    <3>3. k \in Msgs
      BY <2>2, <3>2 DEF QueueRec
    <3> QED BY <1>6, <3>1, <3>3 DEF Early, Gone
  <2>3. \A o \in Objs : \A p \in Positions(w.queue[o].items) :
          \A r \in Objs : \A q \in Positions(w.queue[r].items) :
              w.queue[r].items[q] = w.queue[o].items[p] => r = o /\ q = p
    BY DEF Good, ItemsOK
  <2>4. u.queue = w.queue
    BY <1>2
  <2> QED BY <2>1, <2>2, <2>3, <2>4 DEF ItemsOK
<1>10. KeptOK(u, c)
  <2> SUFFICES ASSUME c = 0 PROVE KeptOK(u, c)
    BY DEF KeptOK
  <2>1. ASSUME NEW o \in Objs, NEW k \in w.queue[o].dropped
        PROVE  u.fate[k] \in Over
    <3>1. w.queue[o] \in QueueRec
      BY WorldFacts
    <3>2. k \in Msgs
      BY <2>1, <3>1 DEF QueueRec
    <3> QED BY <1>7, <2>1, <3>2 DEF Good, KeptOK
  <2> QED BY <1>2, <1>7, <1>8, <2>1 DEF Good, KeptOK
<1>11. RunsOK(u, c)
  <2> SUFFICES ASSUME NEW i \in Loops, w.loop[i].pc = "running" PROVE RunOK(u, c, i)
    BY <1>2 DEF RunsOK
  <2>1. RunOK(w, c, i)
    BY DEF RunsOK
  <2>2. w.loop[i].told \in SUBSET Msgs /\ w.loop[i].batch \in Seq(Msgs)
    <3>1. w.loop[i] \in LoopRec
      BY WorldFacts
    <3> QED BY <3>1 DEF LoopRec
  <2>3. Range(w.loop[i].batch) \subseteq Msgs
    BY <2>2 DEF Range
  <2>4. \A k \in w.loop[i].told : u.fate[k] \in Gone /\ (c = 0 => u.fate[k] \in Over)
    BY <1>6, <1>7, <2>1, <2>2 DEF RunOK, Early, Gone
  <2>5. w.loop[i].kind # "summary" => \A k \in Range(w.loop[i].batch) :
          /\ u.fate[k] \in {"queued", "dropped", "summarized", "told", "cleared"}
          /\ c = 0 => u.fate[k] # "told"
    BY <1>6, <2>1, <2>3 DEF RunOK, Early
  <2>6. u.queue = w.queue /\ u.loop = w.loop
    BY <1>2
  <2> QED BY <1>8, <2>1, <2>4, <2>5, <2>6 DEF RunOK
<1> QED BY <1>2, <1>5, <1>9, <1>10, <1>11 DEF Good

(* A world whose queues differ only in their settings and marks.             *)
LEMMA MarksKeep ==
  ASSUME NEW w \in Worlds, NEW c \in Nat, Good(w, c), RunsOK(w, c),
         NEW u \in Worlds, SameItems(u, w), u.loop = w.loop, u.fate = w.fate,
         \A o \in Objs : u.queue[o].draining = w.queue[o].draining,
         u.current = w.current, u.created = w.created
  PROVE  Good(u, c) /\ RunsOK(u, c)
<1>1. \A i \in Loops : Running(w, i) => w.loop[i].obj \in Objs
  BY LoopObject DEF Good
<1>2. LoopsOK(u, c)
  BY <1>1 DEF Good, LoopsOK, Running
<1>3. RunsOK(u, c)
  <2>1. \A i \in Loops : u.loop[i].pc = "running" =>
          u.loop[i] = w.loop[i] /\ RunOK(w, c, i) /\ u.loop[i].obj \in Objs
    BY <1>1 DEF RunsOK, Running
  <2> QED BY <2>1, RunsSame
<1> QED BY <1>2, <1>3, ItemsSame, KeptSame DEF Good

(* A new queue object, without items.                                        *)
LEMMA FreshKeeps ==
  ASSUME NEW w \in Worlds, NEW c \in Nat, Good(w, c), RunsOK(w, c),
         w.current = None, NEW o \in Objs, o = w.created + 1,
         NEW u \in Worlds, u.loop = w.loop, u.fate = w.fate,
         \A r \in Objs : r # o => u.queue[r] = w.queue[r],
         u.queue[o].items = <<>>, u.queue[o].dropped = {},
         u.current = o, u.created = o
  PROVE  Good(u, c) /\ RunsOK(u, c)
<1>1. Positions(u.queue[o].items) = {}
  BY NoMessages DEF Positions
<1>2. w.created \in Nat
  BY WorldFacts, CountType
<1>3. \A i \in Loops : Running(w, i) =>
        /\ w.loop[i].obj \in Objs /\ w.loop[i].obj # o
        /\ u.queue[w.loop[i].obj] = w.queue[w.loop[i].obj]
  <2> TAKE i \in Loops
  <2> HAVE Running(w, i)
  <2>1. w.loop[i].obj \in 1 .. w.created
    BY DEF Good, LoopsOK
  <2>2. w.loop[i].obj \in Objs
    BY LoopObject DEF Good
  <2> QED BY <1>2, <2>1, <2>2
<1>4. c = 0 => \A i \in Loops : ~Running(w, i)
  <2> SUFFICES ASSUME c = 0, NEW i \in Loops, Running(w, i) PROVE FALSE
    OBVIOUS
  <2>1. w.loop[i].obj = w.current
    BY DEF Good, LoopsOK
  <2> QED BY <2>1, LoopObject DEF Good
<1>5. LoopsOK(u, c)
  <2>1. \A i \in Loops : Running(w, i) => w.loop[i].obj \in 1 .. u.created
    BY <1>2 DEF Good, LoopsOK
  <2>2. u.current <= u.created
    BY <1>2
  <2>3. \A i \in Loops : Running(u, i) <=> Running(w, i)
    BY DEF Running
  <2> QED BY <1>3, <1>4, <2>1, <2>2, <2>3 DEF Good, LoopsOK
<1>6. \A r \in Objs : \A p \in Positions(u.queue[r].items) :
        /\ r # o /\ p \in Positions(w.queue[r].items)
        /\ u.queue[r].items[p] = w.queue[r].items[p]
  BY <1>1
<1>7. ItemsOK(u)
  <2>1. \A r \in Objs : \A m \in u.queue[r].dropped : m \in w.queue[r].dropped
    OBVIOUS
  <2> QED BY <1>6, <2>1 DEF Good, ItemsOK
<1>8. KeptOK(u, c)
  <2>1. \A r \in Objs : \A m \in u.queue[r].dropped : m \in w.queue[r].dropped
    OBVIOUS
  <2>2. Overflow(u) <=> Overflow(w)
    BY DEF Overflow
  <2> QED BY <2>1, <2>2 DEF Good, KeptOK
<1>9. RunsOK(u, c)
  <2> SUFFICES ASSUME NEW i \in Loops, w.loop[i].pc = "running" PROVE RunOK(u, c, i)
    BY DEF RunsOK
  <2>1. RunOK(w, c, i) /\ Running(w, i)
    BY DEF RunsOK, Running
  <2>2. u.queue[w.loop[i].obj] = w.queue[w.loop[i].obj]
    BY <1>3, <2>1
  <2>3. Overflow(u) <=> Overflow(w)
    BY DEF Overflow
  <2>4. w.loop[i].kind # "summary" => \A m \in Range(w.loop[i].batch) :
          \A r \in Objs : \A p \in Positions(u.queue[r].items) :
             u.queue[r].items[p] = m => r = w.loop[i].obj /\ p <= Len(w.loop[i].batch)
    BY <1>6, <2>1 DEF RunOK
  <2> QED BY <2>1, <2>2, <2>3, <2>4 DEF RunOK
<1> QED BY <1>5, <1>7, <1>8, <1>9 DEF Good

LEMMA SettingsFacts ==
  ASSUME NEW s \in Settings
  PROVE  /\ s.mode \in Modes /\ s.cap \in Nat /\ s.cap > 0 /\ s.drop \in Policies
         /\ FreshQueue(s) \in QueueRec /\ FreshQueue(s).items = <<>>
         /\ FreshQueue(s).dropped = {} /\ FreshQueue(s).cap = s.cap
<1>1. s.mode \in Modes /\ s.cap \in Nat /\ s.cap > 0 /\ s.drop \in Policies
  BY SettingsAssumption DEF Modes, Policies
<1> QED BY <1>1, NoMessages DEF FreshQueue, QueueRec

(* getFollowupQueue returns a queue of the key, with the settings given.     *)
LEMMA GetQueueKeeps ==
  ASSUME NEW w \in Worlds, NEW c \in Nat, Good(w, c), RunsOK(w, c),
         w.created + 1 \in Objs, NEW s \in Settings, NEW u, u = GetQueue(w, s)
  PROVE  /\ u \in Worlds /\ Good(u, c) /\ RunsOK(u, c)
         /\ u.fate = w.fate /\ u.loop = w.loop /\ u.callback = w.callback
         /\ u.current \in Objs /\ u.created <= w.created + 1
         /\ u.queue[u.current].cap > 0
<1>1. CASE w.current # None
  <2>1. PICK o \in Objs : o = w.current
    BY <1>1, WorldFacts
  <2>2. PICK q : q = [w.queue[o] EXCEPT !.mode = s.mode, !.cap = s.cap, !.drop = s.drop]
    OBVIOUS
  <2>3. w.queue[o] \in QueueRec
    BY WorldFacts
  <2>4. /\ q \in QueueRec /\ q.draining = w.queue[o].draining /\ q.cap = s.cap
        /\ q.items = w.queue[o].items /\ q.dropped = w.queue[o].dropped
    BY <2>2, <2>3, SettingsFacts DEF QueueRec
  <2>5. PICK Q \in [Objs -> QueueRec] : Q = [w.queue EXCEPT ![o] = q]
    BY <2>4, WorldFacts
  <2>6. u = [w EXCEPT !.queue = Q]
    BY <1>1, <2>1, <2>2, <2>5 DEF GetQueue
  <2>7. /\ u \in Worlds /\ u.fate = w.fate /\ u.loop = w.loop /\ u.callback = w.callback
        /\ u.current = w.current /\ u.created = w.created /\ u.queue = Q
    BY <2>6 DEF Worlds
  <2>8. Q[o] = q /\ \A r \in Objs : r # o => Q[r] = w.queue[r]
    BY <2>5, WorldFacts
  <2>9. SameItems(u, w) /\ \A r \in Objs : u.queue[r].draining = w.queue[r].draining
    BY <2>4, <2>7, <2>8 DEF SameItems
  <2>10. Good(u, c) /\ RunsOK(u, c)
    BY <2>7, <2>9, MarksKeep
  <2>11. u.created <= w.created + 1 /\ u.queue[u.current].cap > 0
    BY <2>1, <2>4, <2>7, <2>8, WorldFacts, CountType, SettingsFacts
  <2> QED BY <2>1, <2>7, <2>10, <2>11
<1>2. CASE w.current = None
  <2>1. PICK o \in Objs : o = w.created + 1
    OBVIOUS
  <2>2. PICK q \in QueueRec : q = FreshQueue(s)
    BY SettingsFacts
  <2>3. PICK Q \in [Objs -> QueueRec] : Q = [w.queue EXCEPT ![o] = q]
    BY WorldFacts
  <2>4. u = [w EXCEPT !.created = o, !.current = o, !.queue = Q]
    BY <1>2, <2>1, <2>2, <2>3 DEF GetQueue
  <2>5. o \in 0 .. Cardinality(Msgs)
    BY CountType DEF Objs
  <2>6. /\ u \in Worlds /\ u.fate = w.fate /\ u.loop = w.loop /\ u.callback = w.callback
        /\ u.current = o /\ u.created = o /\ u.queue = Q
    BY <2>4, <2>5 DEF Worlds
  <2>7. Q[o] = q /\ \A r \in Objs : r # o => Q[r] = w.queue[r]
    BY <2>3, WorldFacts
  <2>8. u.queue[o].items = <<>> /\ u.queue[o].dropped = {} /\ u.queue[o].cap > 0
    BY <2>2, <2>6, <2>7, SettingsFacts
  <2>9. Good(u, c) /\ RunsOK(u, c)
    BY <1>2, <2>1, <2>6, <2>7, <2>8, FreshKeeps
  <2>10. u.created <= w.created + 1
    BY <2>1, <2>6, WorldFacts, CountType
  <2> QED BY <2>6, <2>8, <2>9, <2>10
<1> QED BY <1>1, <1>2

LEMMA ItemsType ==
  ASSUME NEW w \in Worlds, NEW o \in Objs
  PROVE  /\ w.queue[o] \in QueueRec /\ w.queue[o].items \in Seq(Msgs)
         /\ w.queue[o].dropped \in SUBSET Msgs /\ w.queue[o].cap \in Nat
         /\ Len(w.queue[o].items) \in Nat
         /\ \A p \in Positions(w.queue[o].items) : w.queue[o].items[p] \in Msgs
<1>1. w.queue[o] \in QueueRec
  BY WorldFacts
<1>2. /\ w.queue[o].items \in Seq(Msgs) /\ w.queue[o].dropped \in SUBSET Msgs
      /\ w.queue[o].cap \in Nat
  BY <1>1 DEF QueueRec
<1> QED BY <1>1, <1>2 DEF Positions

LEMMA RangeOf ==
  ASSUME NEW s \in Seq(Msgs), NEW m
  PROVE  m \in Range(s) <=> \E p \in Positions(s) : s[p] = m
BY DEF Range, Positions

(* The first n items of the queue o go, as dropped or to be summarized.      *)
Cut(u, w, o, n) ==
  /\ u.current = w.current /\ u.created = w.created /\ u.callback = w.callback
  /\ u.loop = w.loop
  /\ \A r \in Objs : u.queue[r].draining = w.queue[r].draining
  /\ \A r \in Objs : r # o => u.queue[r] = w.queue[r]
  /\ Len(u.queue[o].items) = Len(w.queue[o].items) - n
  /\ \A p \in 1 .. Len(w.queue[o].items) - n : u.queue[o].items[p] = w.queue[o].items[p + n]
  /\ \A p \in 1 .. n : u.fate[w.queue[o].items[p]] \in {"dropped", "summarized"}
  /\ \A m \in Msgs : \/ u.fate[m] = w.fate[m]
                     \/ /\ u.fate[m] \in {"dropped", "summarized"}
                        /\ \E p \in 1 .. n : w.queue[o].items[p] = m
  /\ \A m \in u.queue[o].dropped : \/ m \in w.queue[o].dropped
                                   \/ \E p \in 1 .. n : w.queue[o].items[p] = m

LEMMA CutFacts ==
  ASSUME NEW w \in Worlds, NEW o \in Objs, w.queue[o].cap > 0,
         NEW u, u = ApplyDropPolicy(w, o)
  PROVE  /\ u \in Worlds
         /\ \E n \in 0 .. Len(w.queue[o].items) : Cut(u, w, o, n)
<1>1. PICK q \in QueueRec : q = w.queue[o]
  BY ItemsType
<1>2. PICK n : n = DropCount(q)
  OBVIOUS
<1>3. q.items \in Seq(Msgs) /\ q.cap \in Nat /\ q.cap > 0 /\ Len(q.items) \in Nat
  BY <1>1, ItemsType
<1>4. n \in 0 .. Len(q.items)
  BY <1>2, <1>3 DEF DropCount
<1>5. PICK s : s = SubSeq(q.items, n + 1, Len(q.items))
  OBVIOUS
<1>6. /\ s \in Seq(Msgs) /\ Len(s) = Len(q.items) - n
      /\ \A p \in 1 .. Len(q.items) - n : s[p] = q.items[p + n]
  <2>1. /\ n + 1 \in 1 .. Len(q.items) + 1
        /\ Len(q.items) \in n + 1 - 1 .. Len(q.items)
    BY <1>3, <1>4
  <2> QED BY <1>3, <1>4, <1>5, <2>1, SubSeqProperties
<1>7. PICK t : t = SubSeq(q.items, 1, n)
  OBVIOUS
<1>8. t \in Seq(Msgs) /\ Len(t) = n /\ \A p \in 1 .. n : t[p] = q.items[p]
  BY <1>3, <1>4, <1>7, SubSeqProperties
<1>9. PICK gone \in SUBSET Msgs : gone = Range(t)
  <2>1. \A m \in Range(t) : m \in Msgs
    BY <1>8, RangeOf DEF Positions
  <2> QED BY <2>1
<1>10. \A m : m \in gone <=> \E p \in 1 .. n : q.items[p] = m
  BY <1>8, <1>9, RangeOf DEF Positions
<1>11. PICK Q \in [Objs -> QueueRec], f \in {"dropped", "summarized"} :
         /\ u = SetFate([w EXCEPT !.queue = Q], gone, f)
         /\ Q[o].items = s /\ Q[o].draining = q.draining
         /\ Q[o].dropped \subseteq q.dropped \cup gone
         /\ \A r \in Objs : r # o => Q[r] = w.queue[r]
  <2>1. PICK k : k = [q EXCEPT !.items = s]
    OBVIOUS
  <2>2. /\ k \in QueueRec /\ k.items = s /\ k.draining = q.draining /\ k.dropped = q.dropped
    BY <1>6, <2>1 DEF QueueRec
  <2>3. PICK K \in [Objs -> QueueRec] : K = [w.queue EXCEPT ![o] = k]
    BY <2>2, WorldFacts
  <2>4. K[o] = k /\ \A r \in Objs : r # o => K[r] = w.queue[r]
    BY <2>3, WorldFacts
  <2>5. CASE q.drop = "summarize"
    <3>1. PICK d : d = [k EXCEPT !.dropped = q.dropped \cup gone]
      OBVIOUS
    <3>2. /\ d \in QueueRec /\ d.items = s /\ d.draining = q.draining
          /\ d.dropped = q.dropped \cup gone
      BY <2>2, <3>1 DEF QueueRec
    <3>3. PICK D \in [Objs -> QueueRec] : D = [K EXCEPT ![o] = d]
      BY <3>2
    <3>4. D[o] = d /\ \A r \in Objs : r # o => D[r] = w.queue[r]
      BY <2>4, <3>3
    <3>5. PICK v : v = [w EXCEPT !.queue = K]
      OBVIOUS
    <3>6. v.queue = K
      BY <3>5 DEF Worlds
    <3>7. [v EXCEPT !.queue[o].dropped = @ \cup gone] = [w EXCEPT !.queue = D]
      <4>1. v.queue[o].dropped = q.dropped
        BY <2>2, <2>4, <3>6
      <4>2. [v EXCEPT !.queue[o].dropped = @ \cup gone] = [v EXCEPT !.queue = D]
        BY <2>4, <3>1, <3>3, <3>6, <4>1
      <4> QED BY <3>5, <4>2 DEF Worlds
    <3>8. u = SetFate([v EXCEPT !.queue[o].dropped = @ \cup gone], gone, "summarized")
      BY <1>1, <1>2, <1>5, <1>7, <1>9, <2>1, <2>3, <2>5, <3>5 DEF ApplyDropPolicy
    <3>9. u = SetFate([w EXCEPT !.queue = D], gone, "summarized")
      BY <3>7, <3>8
    <3> QED BY <3>2, <3>4, <3>9
  <2>6. CASE q.drop # "summarize"
    <3>1. u = SetFate([w EXCEPT !.queue = K], gone, "dropped")
      BY <1>1, <1>2, <1>5, <1>7, <1>9, <2>1, <2>3, <2>6 DEF ApplyDropPolicy
    <3> QED BY <2>2, <2>4, <3>1
  <2> QED BY <2>5, <2>6
<1>12. PICK v : v = [w EXCEPT !.queue = Q]
  OBVIOUS
<1>13. /\ v \in Worlds /\ v.queue = Q /\ v.fate = w.fate /\ v.loop = w.loop
       /\ v.current = w.current /\ v.created = w.created /\ v.callback = w.callback
  BY <1>11, <1>12 DEF Worlds
<1>14. f \in Fates /\ u = SetFate(v, gone, f)
  BY <1>11, <1>12 DEF Fates
<1>15. u \in Worlds /\ Fated(u, v, gone, f)
  BY <1>13, <1>14, SetFateFacts
<1>16. \A m \in gone : u.fate[m] \in {"dropped", "summarized"}
  BY <1>11, <1>15 DEF Fated
<1>17. \A m \in Msgs : m \notin gone => u.fate[m] = w.fate[m]
  BY <1>13, <1>15 DEF Fated
<1>18. u.queue = Q /\ u.loop = w.loop /\ u.current = w.current /\ u.created = w.created
       /\ u.callback = w.callback
  BY <1>13, <1>15 DEF Fated
<1>19. \A p \in 1 .. n : q.items[p] \in gone
  BY <1>10
<1>20. \A r \in Objs : Q[r].draining = w.queue[r].draining
  BY <1>1, <1>11
<1>21. Cut(u, w, o, n)
  BY <1>1, <1>6, <1>10, <1>11, <1>16, <1>17, <1>18, <1>19, <1>20 DEF Cut
<1> QED BY <1>1, <1>4, <1>15, <1>21

LEMMA CutKeeps ==
  ASSUME NEW w \in Worlds, NEW c \in Nat, Good(w, c), RunsOK(w, c), NEW o \in Objs,
         NEW n \in 0 .. Len(w.queue[o].items), NEW u \in Worlds, Cut(u, w, o, n)
  PROVE  Good(u, c) /\ RunsOK(u, c)
<1>1. PICK items \in Seq(Msgs) : items = w.queue[o].items
  BY ItemsType
<1>2. Len(items) \in Nat /\ n \in 0 .. Len(items)
  BY <1>1
<1>3. PICK gone \in SUBSET Msgs : \A m : m \in gone <=> \E p \in 1 .. n : items[p] = m
  <2>1. \A p \in 1 .. n : items[p] \in Msgs
    BY <1>2
  <2>2. PICK S : S = {items[p] : p \in 1 .. n}
    OBVIOUS
  <2>3. S \in SUBSET Msgs
    BY <2>1, <2>2
  <2>4. \A m : m \in S <=> \E p \in 1 .. n : items[p] = m
    BY <2>2
  <2> QED BY <2>3, <2>4
<1>4. /\ u.queue \in [Objs -> QueueRec]
      /\ u.current = w.current /\ u.created = w.created /\ u.loop = w.loop
      /\ \A r \in Objs : u.queue[r].draining = w.queue[r].draining
      /\ \A r \in Objs : r # o => u.queue[r] = w.queue[r]
  BY WorldFacts DEF Cut
<1>5. /\ Len(u.queue[o].items) = Len(items) - n
      /\ \A p \in 1 .. Len(items) - n : u.queue[o].items[p] = items[p + n]
  BY <1>1 DEF Cut
<1>6. \A m \in Msgs : \/ u.fate[m] = w.fate[m] /\ m \notin gone
                      \/ u.fate[m] \in {"dropped", "summarized"} /\ m \in gone
  <2>1. \A m \in gone : u.fate[m] \in {"dropped", "summarized"}
    BY <1>1, <1>3 DEF Cut
  <2>2. \A m \in Msgs : u.fate[m] = w.fate[m] \/ m \in gone
    BY <1>1, <1>3 DEF Cut
  <2> QED BY <2>1, <2>2
<1>7. \A r \in Objs : \A m \in u.queue[r].dropped : m \in w.queue[r].dropped \/ m \in gone
  BY <1>1, <1>3, <1>4 DEF Cut
<1>8. \A m \in gone : w.fate[m] = "queued"
  <2>1. \A p \in Positions(items) : w.fate[items[p]] = "queued"
    BY <1>1 DEF Good, ItemsOK
  <2> QED BY <1>2, <1>3, <2>1 DEF Positions
(* Where an item of u stands in w. *)
<1>9. ASSUME NEW r \in Objs, NEW p \in Positions(u.queue[r].items)
      PROVE  \E k \in Positions(w.queue[r].items) :
               /\ w.queue[r].items[k] = u.queue[r].items[p]
               /\ r = o => k = p + n
               /\ r # o => k = p
  <2>1. CASE r # o
    BY <1>4, <2>1
  <2>2. CASE r = o
    <3>1. p \in 1 .. Len(items) - n
      BY <1>5, <2>2 DEF Positions
    <3>2. p + n \in Positions(items)
      BY <1>2, <3>1 DEF Positions
    <3> QED BY <1>1, <1>5, <2>2, <3>1, <3>2
  <2> QED BY <2>1, <2>2
<1>10. \A r \in Objs : \A p \in Positions(w.queue[r].items) :
         \A q \in Objs : \A k \in Positions(w.queue[q].items) :
           w.queue[q].items[k] = w.queue[r].items[p] => q = r /\ k = p
  BY DEF Good, ItemsOK
<1>11. LoopsOK(u, c)
  <2>1. \A i \in Loops : Running(w, i) => w.loop[i].obj \in Objs
    BY LoopObject DEF Good
  <2>2. LoopsOK(w, c)
    BY DEF Good
  <2> QED BY <1>4, <2>1, <2>2 DEF LoopsOK, Running
<1>12. ItemsOK(u)
  <2>1. ASSUME NEW r \in Objs, NEW p \in Positions(u.queue[r].items)
        PROVE  /\ u.fate[u.queue[r].items[p]] = "queued"
               /\ \A q \in Objs : \A k \in Positions(u.queue[q].items) :
                    u.queue[q].items[k] = u.queue[r].items[p] => q = r /\ k = p
    <3>1. PICK p1 \in Positions(w.queue[r].items) :
               /\ w.queue[r].items[p1] = u.queue[r].items[p]
               /\ r = o => p1 = p + n
               /\ r # o => p1 = p
      BY <1>9
    <3>2. u.queue[r].items[p] \notin gone
      <4> SUFFICES ASSUME NEW k \in 1 .. n, items[k] = u.queue[r].items[p] PROVE FALSE
        BY <1>3
      <4>1. k \in Positions(items)
        BY <1>2 DEF Positions
      <4>2. r = o /\ p1 = k
        BY <1>1, <1>10, <3>1, <4>1
      <4>3. p \in Nat \ {0}
        BY <1>4, <2>1, <1>5, <1>2, <4>2 DEF Positions
      <4> QED BY <1>2, <3>1, <4>2, <4>3
    <3>3. u.queue[r].items[p] \in Msgs
      BY ItemsType
    <3>4. w.fate[u.queue[r].items[p]] = "queued"
      BY <3>1 DEF Good, ItemsOK
    <3>5. ASSUME NEW q \in Objs, NEW k \in Positions(u.queue[q].items),
                 u.queue[q].items[k] = u.queue[r].items[p]
          PROVE  q = r /\ k = p
      <4>1. PICK k1 \in Positions(w.queue[q].items) :
               /\ w.queue[q].items[k1] = u.queue[q].items[k]
               /\ q = o => k1 = k + n
               /\ q # o => k1 = k
        BY <1>9, <3>5
      <4>2. q = r /\ k1 = p1
        <5>1. w.queue[q].items[k1] = w.queue[r].items[p1]
          BY <3>1, <3>5, <4>1
        <5> QED BY <1>10, <3>1, <4>1, <5>1
      <4>3. k \in Int /\ p \in Int
        BY <2>1, <3>5, ItemsType DEF Positions
      <4> QED BY <1>2, <3>1, <4>1, <4>2, <4>3
    <3> QED BY <1>6, <3>2, <3>3, <3>4, <3>5
  <2>2. ASSUME NEW r \in Objs, NEW m \in u.queue[r].dropped
        PROVE  u.fate[m] \in Gone
    <3>1. m \in Msgs
      BY <2>2, ItemsType
    <3>2. CASE m \in gone
      BY <1>6, <3>2 DEF Gone
    <3>3. CASE m \notin gone
      <4>1. m \in w.queue[r].dropped
        BY <1>7, <2>2, <3>3
      <4>2. w.fate[m] \in Gone
        BY <4>1 DEF Good, ItemsOK
      <4> QED BY <1>6, <3>1, <3>3, <4>2
    <3> QED BY <3>2, <3>3
  <2> QED BY <2>1, <2>2 DEF ItemsOK
(* Without an overflow nothing was dropped. *)
<1>13. ~Overflow(u) => n = 0 /\ gone = {} /\ \A m \in Msgs : u.fate[m] = w.fate[m]
  <2> SUFFICES ASSUME ~Overflow(u) PROVE n = 0 /\ gone = {} /\ \A m \in Msgs : u.fate[m] = w.fate[m]
    OBVIOUS
  <2>1. gone = {}
    BY <1>6 DEF Overflow, Over
  <2>2. n = 0
    <3>1. n > 0 => 1 \in 1 .. n
      BY <1>2
    <3>2. n > 0 => items[1] \in gone
      BY <1>3, <3>1
    <3> QED BY <1>2, <2>1, <3>2
  <2> QED BY <1>6, <2>1, <2>2
<1>14. ~Overflow(u) => ~Overflow(w)
  BY <1>13 DEF Overflow
<1>15. KeptOK(u, c)
  <2> SUFFICES ASSUME c = 0 PROVE KeptOK(u, c)
    BY DEF KeptOK
  <2>1. ASSUME NEW r \in Objs, NEW m \in u.queue[r].dropped
        PROVE  u.fate[m] \in Over
    <3>1. m \in Msgs
      BY <2>1, ItemsType
    <3>2. m \in gone \/ w.fate[m] \in Over
      BY <1>7, <2>1 DEF Good, KeptOK
    <3> QED BY <1>6, <3>1, <3>2 DEF Over
  <2>2. ASSUME ~Overflow(u), NEW m \in Msgs, u.fate[m] = "queued"
        PROVE  u.current # None /\ m \in Range(u.queue[u.current].items)
    <3>1. /\ w.current # None /\ m \in Range(w.queue[w.current].items)
          /\ w.current \in Objs
      BY <1>13, <1>14, <2>2, WorldFacts DEF Good, KeptOK
    <3>2. PICK p \in Positions(w.queue[w.current].items) : w.queue[w.current].items[p] = m
      BY <3>1, ItemsType, RangeOf
    <3>3. w.current = o => p \in Positions(u.queue[o].items) /\ u.queue[o].items[p] = m
      BY <1>1, <1>2, <1>5, <1>13, <2>2, <3>2 DEF Positions
    <3>4. w.current # o => u.queue[w.current] = w.queue[w.current]
      BY <1>4, <3>1
    <3>5. \E k \in Positions(u.queue[w.current].items) : u.queue[w.current].items[k] = m
      BY <3>2, <3>3, <3>4
    <3> QED BY <1>4, <3>1, <3>5, ItemsType, RangeOf
  <2> QED BY <2>1, <2>2 DEF KeptOK
<1>16. RunsOK(u, c)
  <2> SUFFICES ASSUME NEW i \in Loops, w.loop[i].pc = "running" PROVE RunOK(u, c, i)
    BY <1>4 DEF RunsOK
  <2>1. RunOK(w, c, i)
    BY DEF RunsOK
  <2>2. PICK l \in LoopRec : l = w.loop[i]
    BY WorldFacts
  <2>3. l.told \in SUBSET Msgs /\ l.batch \in Seq(Msgs) /\ l.obj \in Objs
    <3>1. l.obj \in Objs
      BY <2>2, LoopObject DEF Good, Running
    <3> QED BY <2>2, <3>1 DEF LoopRec
  <2>4. \A m \in Range(l.batch) : m \in Msgs
    BY <2>3, RangeOf DEF Positions
  <2>5. \A m \in l.told : u.fate[m] \in Gone /\ (c = 0 => u.fate[m] \in Over)
    <3> TAKE m \in l.told
    <3>1. w.fate[m] \in Gone /\ (c = 0 => w.fate[m] \in Over)
      BY <2>1, <2>2 DEF RunOK
    <3>2. m \notin gone
      BY <1>8, <3>1 DEF Gone
    <3> QED BY <1>6, <2>3, <3>1, <3>2
  <2>6. l.kind # "summary" => \A m \in Range(l.batch) :
          /\ u.fate[m] \in {"queued", "dropped", "summarized", "told", "cleared"}
          /\ c = 0 => u.fate[m] # "told"
    BY <1>6, <2>1, <2>2, <2>4 DEF RunOK
  <2>7. l.kind # "summary" => \A m \in Range(l.batch) :
          \A r \in Objs : \A p \in Positions(u.queue[r].items) :
             u.queue[r].items[p] = m => r = l.obj /\ p <= Len(l.batch)
    <3> SUFFICES ASSUME l.kind # "summary", NEW m \in Range(l.batch), NEW r \in Objs,
                        NEW p \in Positions(u.queue[r].items), u.queue[r].items[p] = m
                 PROVE  r = l.obj /\ p <= Len(l.batch)
      OBVIOUS
    <3>1. PICK k \in Positions(w.queue[r].items) :
               /\ w.queue[r].items[k] = u.queue[r].items[p]
               /\ r = o => k = p + n
               /\ r # o => k = p
      BY <1>9
    <3>2. r = l.obj /\ k <= Len(l.batch)
      BY <2>1, <2>2, <3>1 DEF RunOK
    <3>3. p \in Int /\ Len(l.batch) \in Nat /\ p <= k
      BY <1>2, <2>3, <3>1, ItemsType DEF Positions
    <3> QED BY <3>1, <3>2, <3>3, <1>2
  <2>8. l.kind # "summary" /\ c = 0 /\ ~Overflow(u) =>
          /\ Len(l.batch) <= Len(u.queue[l.obj].items)
          /\ \A p \in Positions(l.batch) : u.queue[l.obj].items[p] = l.batch[p]
    <3> SUFFICES ASSUME l.kind # "summary", c = 0, ~Overflow(u)
                 PROVE  /\ Len(l.batch) <= Len(u.queue[l.obj].items)
                        /\ \A p \in Positions(l.batch) : u.queue[l.obj].items[p] = l.batch[p]
      OBVIOUS
    <3>1. /\ Len(l.batch) <= Len(w.queue[l.obj].items)
          /\ \A p \in Positions(l.batch) : w.queue[l.obj].items[p] = l.batch[p]
      BY <1>14, <2>1, <2>2 DEF RunOK
    <3>2. n = 0
      BY <1>13
    <3>3. CASE l.obj # o
      BY <1>4, <2>3, <3>1, <3>3
    <3>4. CASE l.obj = o
      BY <1>1, <1>2, <1>5, <2>3, <3>1, <3>2, <3>4 DEF Positions
    <3> QED BY <3>3, <3>4
  <2> QED BY <1>4, <2>1, <2>2, <2>5, <2>6, <2>7, <2>8 DEF RunOK
<1> QED BY <1>11, <1>12, <1>15, <1>16 DEF Good

(* The message m is the last item of the queue o.                            *)
Pushed(u, w, o, m) ==
  /\ u.current = w.current /\ u.created = w.created /\ u.callback = w.callback
  /\ u.loop = w.loop
  /\ u.queue[o].items = Append(w.queue[o].items, m)
  /\ u.queue[o].dropped = w.queue[o].dropped /\ u.queue[o].draining = w.queue[o].draining
  /\ \A r \in Objs : r # o => u.queue[r] = w.queue[r]
  /\ u.fate[m] = "queued" /\ \A k \in Msgs : k # m => u.fate[k] = w.fate[k]

LEMMA PushFacts ==
  ASSUME NEW w \in Worlds, NEW o \in Objs, NEW m \in Msgs, NEW u, u = PushItem(w, o, m)
  PROVE  u \in Worlds /\ Pushed(u, w, o, m)
<1>1. PICK q : q = [w.queue[o] EXCEPT !.items = Append(w.queue[o].items, m)]
  OBVIOUS
<1>2. /\ q \in QueueRec /\ q.items = Append(w.queue[o].items, m)
      /\ q.dropped = w.queue[o].dropped /\ q.draining = w.queue[o].draining
  <2>1. w.queue[o] \in QueueRec /\ Append(w.queue[o].items, m) \in Seq(Msgs)
    BY ItemsType
  <2> QED BY <1>1, <2>1 DEF QueueRec
<1>3. PICK Q \in [Objs -> QueueRec] : Q = [w.queue EXCEPT ![o] = q]
  BY <1>2, WorldFacts
<1>4. PICK v : v = [w EXCEPT !.queue = Q]
  OBVIOUS
<1>5. /\ v \in Worlds /\ v.queue = Q /\ v.fate = w.fate /\ v.loop = w.loop
      /\ v.current = w.current /\ v.created = w.created /\ v.callback = w.callback
  BY <1>4 DEF Worlds
<1>6. PICK f \in Fates : f = "queued"
  BY DEF Fates
<1>7. u = SetFate(v, {m}, f)
  BY <1>1, <1>3, <1>4, <1>6 DEF PushItem
<1>8. u \in Worlds /\ Fated(u, v, {m}, f)
  BY <1>5, <1>7, OneFate
<1>9. Q[o] = q /\ \A r \in Objs : r # o => Q[r] = w.queue[r]
  BY <1>3, WorldFacts
<1>10. u.fate[m] = "queued" /\ \A k \in Msgs : k # m => u.fate[k] = w.fate[k]
  BY <1>5, <1>6, <1>8 DEF Fated
<1> QED BY <1>2, <1>5, <1>8, <1>9, <1>10 DEF Pushed, Fated

LEMMA PushKeeps ==
  ASSUME NEW w \in Worlds, NEW c \in Nat, Good(w, c), RunsOK(w, c), NEW o \in Objs,
         o = w.current, NEW m \in Msgs, w.fate[m] \in Early,
         NEW u \in Worlds, Pushed(u, w, o, m)
  PROVE  Good(u, c) /\ RunsOK(u, c)
<1>1. PICK items \in Seq(Msgs) : items = w.queue[o].items
  BY ItemsType
<1>2. PICK n \in Nat : n = Len(items)
  BY <1>1
<1>3. /\ u.current = w.current /\ u.created = w.created /\ u.loop = w.loop
      /\ \A r \in Objs : r # o => u.queue[r] = w.queue[r]
      /\ \A r \in Objs : u.queue[r].draining = w.queue[r].draining
      /\ \A r \in Objs : u.queue[r].dropped = w.queue[r].dropped
      /\ u.fate[m] = "queued" /\ \A k \in Msgs : k # m => u.fate[k] = w.fate[k]
  BY DEF Pushed
<1>4. /\ Len(u.queue[o].items) = n + 1 /\ u.queue[o].items[n + 1] = m
      /\ \A p \in 1 .. n : u.queue[o].items[p] = items[p]
  <2>1. u.queue[o].items = Append(items, m)
    BY <1>1 DEF Pushed
  <2>2. /\ Len(Append(items, m)) = Len(items) + 1
        /\ Append(items, m)[Len(items) + 1] = m
        /\ \A p \in 1 .. Len(items) : Append(items, m)[p] = items[p]
    BY AppendProperties
  <2> QED BY <1>2, <2>1, <2>2
<1>5. w.fate[m] # "queued" /\ w.fate[m] \notin Gone /\ w.fate[m] \notin Over
  BY DEF Early, Gone, Over
<1>6. \A r \in Objs : \A p \in Positions(w.queue[r].items) :
         /\ w.fate[w.queue[r].items[p]] = "queued"
         /\ w.queue[r].items[p] # m
         /\ \A q \in Objs : \A k \in Positions(w.queue[q].items) :
              w.queue[q].items[k] = w.queue[r].items[p] => q = r /\ k = p
  BY <1>5 DEF Good, ItemsOK
(* An item of u is one of w, or the new one. *)
<1>7. ASSUME NEW r \in Objs, NEW p \in Positions(u.queue[r].items)
      PROVE  \/ /\ p \in Positions(w.queue[r].items)
                /\ u.queue[r].items[p] = w.queue[r].items[p]
             \/ r = o /\ p = n + 1 /\ u.queue[r].items[p] = m
  <2>1. CASE r # o
    BY <1>3, <1>7, <2>1
  <2>2. CASE r = o /\ p = n + 1
    BY <1>4, <2>2
  <2>3. CASE r = o /\ p # n + 1
    <3>1. p \in 1 .. n
      BY <1>2, <1>4, <1>7, <2>3 DEF Positions
    <3> QED BY <1>1, <1>2, <1>4, <2>3, <3>1 DEF Positions
  <2> QED BY <2>1, <2>2, <2>3
<1>8. LoopsOK(u, c)
  <2>1. \A i \in Loops : Running(w, i) => w.loop[i].obj \in Objs
    BY LoopObject DEF Good
  <2>2. LoopsOK(w, c)
    BY DEF Good
  <2> QED BY <1>3, <2>1, <2>2 DEF LoopsOK, Running
<1>9. ItemsOK(u)
  <2>1. ASSUME NEW r \in Objs, NEW p \in Positions(u.queue[r].items)
        PROVE  /\ u.fate[u.queue[r].items[p]] = "queued"
               /\ \A q \in Objs : \A k \in Positions(u.queue[q].items) :
                    u.queue[q].items[k] = u.queue[r].items[p] => q = r /\ k = p
    <3>1. u.queue[r].items[p] \in Msgs
      BY ItemsType
    <3>2. u.fate[u.queue[r].items[p]] = "queued"
      BY <1>3, <1>6, <1>7, <3>1
    <3>3. ASSUME NEW q \in Objs, NEW k \in Positions(u.queue[q].items),
                 u.queue[q].items[k] = u.queue[r].items[p]
          PROVE  q = r /\ k = p
      BY <1>6, <1>7, <3>3
    <3> QED BY <3>2, <3>3
  <2>2. ASSUME NEW r \in Objs, NEW k \in u.queue[r].dropped
        PROVE  u.fate[k] \in Gone
    <3>1. k \in Msgs
      BY <2>2, ItemsType
    <3>2. w.fate[k] \in Gone
      BY <1>3, <2>2 DEF Good, ItemsOK
    <3> QED BY <1>3, <1>5, <3>1, <3>2
  <2> QED BY <2>1, <2>2 DEF ItemsOK
<1>10. Overflow(u) <=> Overflow(w)
  <2>1. \A k \in Msgs : u.fate[k] \in Over <=> w.fate[k] \in Over
    BY <1>3, <1>5 DEF Over
  <2> QED BY <2>1 DEF Overflow
<1>11. KeptOK(u, c)
  <2> SUFFICES ASSUME c = 0 PROVE KeptOK(u, c)
    BY DEF KeptOK
  <2>1. ASSUME NEW r \in Objs, NEW k \in u.queue[r].dropped
        PROVE  u.fate[k] \in Over
    <3>1. k \in Msgs
      BY <2>1, ItemsType
    <3>2. w.fate[k] \in Over
      BY <1>3, <2>1 DEF Good, KeptOK
    <3> QED BY <1>3, <1>5, <3>1, <3>2
  <2>2. ASSUME ~Overflow(u), NEW k \in Msgs, u.fate[k] = "queued"
        PROVE  u.current # None /\ k \in Range(u.queue[u.current].items)
    <3>1. o # None
      BY DEF Objs, None
    <3>2. \E p \in Positions(u.queue[o].items) : u.queue[o].items[p] = k
      <4>1. CASE k = m
        BY <1>4, <4>1 DEF Positions
      <4>2. CASE k # m
        <5>1. w.fate[k] = "queued" /\ ~Overflow(w)
          BY <1>3, <1>10, <2>2, <4>2
        <5>2. k \in Range(items)
          BY <1>1, <5>1 DEF Good, KeptOK
        <5>3. PICK p \in Positions(items) : items[p] = k
          BY <5>2, RangeOf
        <5> QED BY <1>2, <1>4, <5>3 DEF Positions
      <4> QED BY <4>1, <4>2
    <3> QED BY <1>3, <3>1, <3>2, ItemsType, RangeOf
  <2> QED BY <2>1, <2>2 DEF KeptOK
<1>12. RunsOK(u, c)
  <2> SUFFICES ASSUME NEW i \in Loops, w.loop[i].pc = "running" PROVE RunOK(u, c, i)
    BY <1>3 DEF RunsOK
  <2>1. RunOK(w, c, i)
    BY DEF RunsOK
  <2>2. PICK l \in LoopRec : l = w.loop[i]
    BY WorldFacts
  <2>3. l.told \in SUBSET Msgs /\ l.batch \in Seq(Msgs) /\ l.obj \in Objs
    <3>1. l.obj \in Objs
      BY <2>2, LoopObject DEF Good, Running
    <3> QED BY <2>2, <3>1 DEF LoopRec
  <2>4. \A k \in Range(l.batch) : k \in Msgs
    BY <2>3, RangeOf DEF Positions
  <2>5. \A k \in l.told : u.fate[k] \in Gone /\ (c = 0 => u.fate[k] \in Over)
    <3> TAKE k \in l.told
    <3>1. w.fate[k] \in Gone /\ (c = 0 => w.fate[k] \in Over)
      BY <2>1, <2>2 DEF RunOK
    <3> QED BY <1>3, <1>5, <2>3, <3>1
  <2>6. l.kind # "summary" => \A k \in Range(l.batch) :
          /\ k # m
          /\ u.fate[k] \in {"queued", "dropped", "summarized", "told", "cleared"}
          /\ c = 0 => u.fate[k] # "told"
    BY <1>3, <2>1, <2>2, <2>4 DEF RunOK, Early
  <2>7. l.kind # "summary" => \A k \in Range(l.batch) :
          \A r \in Objs : \A p \in Positions(u.queue[r].items) :
             u.queue[r].items[p] = k => r = l.obj /\ p <= Len(l.batch)
    BY <1>7, <2>1, <2>2, <2>6 DEF RunOK
  <2>8. l.kind # "summary" /\ c = 0 /\ ~Overflow(u) =>
          /\ Len(l.batch) <= Len(u.queue[l.obj].items)
          /\ \A p \in Positions(l.batch) : u.queue[l.obj].items[p] = l.batch[p]
    <3> SUFFICES ASSUME l.kind # "summary", c = 0, ~Overflow(u)
                 PROVE  /\ Len(l.batch) <= Len(u.queue[l.obj].items)
                        /\ \A p \in Positions(l.batch) : u.queue[l.obj].items[p] = l.batch[p]
      OBVIOUS
    <3>1. /\ Len(l.batch) <= Len(w.queue[l.obj].items)
          /\ \A p \in Positions(l.batch) : w.queue[l.obj].items[p] = l.batch[p]
      BY <1>10, <2>1, <2>2 DEF RunOK
    <3>2. CASE l.obj # o
      BY <1>3, <2>3, <3>1, <3>2
    <3>3. CASE l.obj = o
      BY <1>1, <1>2, <1>4, <2>3, <3>1, <3>3 DEF Positions
    <3> QED BY <3>2, <3>3
  <2> QED BY <1>3, <2>1, <2>2, <2>5, <2>6, <2>7, <2>8 DEF RunOK
<1> QED BY <1>8, <1>9, <1>11, <1>12 DEF Good

(* A queue that is to be drained finds a loop that is idle: each loop that   *)
(* runs drains another of the objects, which are no fewer than the loops.    *)
LEMMA SomeLoopIdle ==
  ASSUME NEW w \in Worlds, NEW c \in Nat, LoopsOK(w, c),
         w.current # None, ~w.queue[w.current].draining
  PROVE  \E i \in Loops : ~Running(w, i)
<1> SUFFICES ASSUME \A i \in Loops : Running(w, i) PROVE FALSE
  OBVIOUS
<1>1. PICK o \in Objs : o = w.current
  BY WorldFacts
<1>2. PICK f : f = [i \in Loops |-> w.loop[i].obj]
  OBVIOUS
<1>3. PICK T : T = Objs \ {o}
  OBVIOUS
<1>4. \A i \in Loops : f[i] \in T /\ \A j \in Loops : f[j] = f[i] => j = i
  <2> TAKE i \in Loops
  <2>1. w.loop[i].obj \in Objs /\ w.queue[w.loop[i].obj].draining
    BY LoopObject
  <2>2. w.loop[i].obj # o
    BY <1>1, <2>1
  <2>3. \A j \in Loops : w.loop[j].obj = w.loop[i].obj => j = i
    BY DEF LoopsOK
  <2> QED BY <1>2, <1>3, <2>1, <2>2, <2>3
<1>5. IsFiniteSet(Objs) /\ Cardinality(Objs) \in Nat
  BY CountType, FS_Interval, FS_CardinalityType DEF Objs
<1>6. IsFiniteSet(T) /\ Cardinality(T) = Cardinality(Objs) - 1
  BY <1>3, <1>5, FS_RemoveElement
<1>7. f \in [Loops -> T]
  BY <1>2, <1>4
<1>8. IsFiniteSet(Loops) /\ Cardinality(T) < Cardinality(Loops)
  BY <1>5, <1>6 DEF Loops
<1>9. \E i, j \in Loops : i # j /\ f[i] = f[j]
  BY <1>6, <1>7, <1>8, FS_PigeonHole
<1> QED BY <1>4, <1>9

(* FreeLoop names an idle loop whenever one is needed.                       *)
LEMMA FreeLoopIdle ==
  ASSUME NEW w \in Worlds, NEW c \in Nat, LoopsOK(w, c), w.loop = loop,
         w.current # None, ~w.queue[w.current].draining
  PROVE  FreeLoop \in Loops /\ ~Running(w, FreeLoop)
<1>1. \E i \in Loops : loop[i].pc = "idle"
  BY SomeLoopIdle DEF Running
<1> QED BY <1>1 DEF FreeLoop, Running

(* A message that is not to be queued, or not yet.                           *)
LEMMA SettledSafe ==
  ASSUME NEW w, NEW c \in Nat, Safe(w, c), NEW m \in Msgs, w.fate[m] \in Early,
         NEW f \in Early \cup {"duplicate", "refused"}, NEW u, u = SetFate(w, {m}, f)
  PROVE  Safe(u, c)
<1>1. w \in Worlds /\ f \in Fates
  BY DEF Safe, Early, Fates
<1>2. u \in Worlds /\ Fated(u, w, {m}, f)
  BY <1>1, OneFate
<1>3. /\ u.queue = w.queue /\ u.loop = w.loop
      /\ u.current = w.current /\ u.created = w.created
      /\ u.fate[m] = f /\ \A k \in Msgs : k # m => u.fate[k] = w.fate[k]
  BY <1>2 DEF Fated
<1>4. Good(u, c) /\ RunsOK(u, c)
  <2>1. Good(w, c) /\ RunsOK(w, c)
    BY DEF Safe
  <2> QED BY <1>1, <1>2, <2>1, Settled
<1>5. CountOK(u)
  BY <1>1, <1>2, <1>3, CountKept DEF Safe
<1> QED BY <1>2, <1>4, <1>5 DEF Safe

-----------------------------------------------------------------------------
(* The actions *)

LEMMA BecomesFacts ==
  ASSUME NEW u \in Worlds, Becomes(u)
  PROVE  World' = u
<1>1. u = [queue |-> u.queue, current |-> u.current, created |-> u.created,
           callback |-> u.callback, loop |-> u.loop, fate |-> u.fate]
  BY DEF Worlds
<1> QED BY <1>1 DEF Becomes, World

LEMMA StepSafe ==
  ASSUME IndInv, NEW u, Safe(u, clears'), Becomes(u),
         clears' \in 0 .. MaxClears, failures' \in 0 .. MaxFailures
  PROVE  IndInv'
<1>1. World' = u
  BY BecomesFacts DEF Safe
<1> QED BY <1>1 DEF IndInv

LEMMA ClearsNat == ASSUME IndInv PROVE clears \in Nat
BY BoundsAssumption DEF IndInv

LEMMA WorldFields ==
  /\ World.queue = queue /\ World.current = current /\ World.created = created
  /\ World.callback = callback /\ World.loop = loop /\ World.fate = fate
BY DEF World

LEMMA KickKeeps ==
  ASSUME NEW w \in Worlds, NEW c \in Nat, Good(w, c), RunsOK(w, c), w.loop = loop,
         NEW u, u = Kick(w)
  PROVE  /\ u \in Worlds /\ Good(u, c) /\ RunsOK(u, c)
         /\ u.fate = w.fate /\ u.created = w.created
<1>1. CASE w.callback /\ w.current # None /\ ~w.queue[w.current].draining
  <2>1. FreeLoop \in Loops /\ ~Running(w, FreeLoop)
    BY <1>1, FreeLoopIdle DEF Good
  <2>2. PICK i \in Loops : i = FreeLoop
    BY <2>1
  <2>3. u = Schedule(w, i) /\ ~Running(w, i)
    BY <1>1, <2>1, <2>2 DEF Kick
  <2> QED BY <2>3, ScheduleKeeps
<1>2. CASE ~(w.callback /\ w.current # None /\ ~w.queue[w.current].draining)
  <2>1. u = w
    BY <1>2 DEF Kick, Schedule
  <2> QED BY <2>1
<1> QED BY <1>1, <1>2

LEMMA ArriveStep ==
  ASSUME IndInv, NEW m \in Msgs, fate[m] = "new", NEW f \in {"turn", "routed"},
         fate' = [fate EXCEPT ![m] = f],
         UNCHANGED <<queue, current, created, callback, loop, clears, failures>>
  PROVE  IndInv'
<1>1. PICK w \in Worlds : w = World /\ Safe(w, clears) /\ clears \in Nat
  BY ClearsNat DEF IndInv, Safe
<1>2. PICK u : u = SetFate(w, {m}, f)
  OBVIOUS
<1>3. f \in Early /\ f \in Fates
  BY DEF Early, Fates
<1>4. w.fate[m] \in Early
  BY <1>1, WorldFields DEF Early
<1>5. Safe(u, clears)
  BY <1>1, <1>2, <1>3, <1>4, SettledSafe
<1>6. u \in Worlds /\ Fated(u, w, {m}, f)
  BY <1>2, <1>3, OneFate
<1>7. u.fate = fate'
  <2>1. u.fate \in [Msgs -> Fates] /\ fate \in [Msgs -> Fates]
    BY <1>1, <1>6, WorldFacts, WorldFields
  <2>2. \A k \in Msgs : u.fate[k] = fate'[k]
    BY <1>1, <1>6, <2>1, WorldFields DEF Fated
  <2>3. fate' \in [Msgs -> Fates]
    BY <1>3, <2>1
  <2> QED BY <2>1, <2>2, <2>3
<1>8. Becomes(u)
  BY <1>1, <1>6, <1>7, WorldFields DEF Becomes, Fated
<1> QED BY <1>5, <1>8, StepSafe DEF IndInv

LEMMA TurnEndsStep ==
  ASSUME IndInv, NEW m \in Msgs, TurnEnds(m)
  PROVE  IndInv'
<1>1. PICK w \in Worlds : w = World /\ Safe(w, clears) /\ clears \in Nat
  BY ClearsNat DEF IndInv, Safe
<1>2. PICK v : v = SetFate(w, {m}, "answered")
  OBVIOUS
<1>3. PICK f \in Early : f = "answered"
  BY DEF Early
<1>4. w.fate[m] \in Early
  BY <1>1, WorldFields DEF Early, TurnEnds
<1>5. v = SetFate(w, {m}, f) /\ f \in Fates
  BY <1>2, <1>3 DEF Early, Fates
<1>6. Safe(v, clears)
  BY <1>1, <1>4, <1>5, SettledSafe
<1>7. v.loop = loop
  <2>1. Fated(v, w, {m}, f)
    BY <1>5, OneFate
  <2> QED BY <1>1, <2>1, WorldFields DEF Fated
<1>8. PICK u : u = Schedule(v, FreeLoop)
  OBVIOUS
<1>9. /\ u \in Worlds /\ Good(u, clears) /\ RunsOK(u, clears)
      /\ u.fate = v.fate /\ u.created = v.created
  <2>1. CASE v.current # None /\ ~v.queue[v.current].draining
    <3>1. FreeLoop \in Loops /\ ~Running(v, FreeLoop)
      BY <1>1, <1>6, <1>7, <2>1, FreeLoopIdle DEF Good, Safe
    <3>2. PICK i \in Loops : i = FreeLoop
      BY <3>1
    <3>3. u = Schedule(v, i) /\ ~Running(v, i)
      BY <1>8, <3>1, <3>2
    <3> QED BY <1>1, <1>6, <3>3, ScheduleKeeps DEF Safe
  <2>2. CASE ~(v.current # None /\ ~v.queue[v.current].draining)
    <3>1. u = v
      BY <1>8, <2>2 DEF Schedule
    <3> QED BY <1>6, <3>1 DEF Safe
  <2> QED BY <2>1, <2>2
<1>10. Safe(u, clears)
  BY <1>6, <1>9 DEF Safe, CountOK
<1>11. Becomes(u) /\ UNCHANGED <<clears, failures>>
  BY <1>1, <1>2, <1>8 DEF TurnEnds
<1> QED BY <1>10, <1>11, StepSafe DEF IndInv

LEMMA EnqueueStep ==
  ASSUME IndInv, NEW m \in Msgs, NEW s \in Settings, Enqueue(m, s)
  PROVE  IndInv'
<1>1. PICK v \in Worlds : v = World /\ Safe(v, clears) /\ clears \in Nat
  BY ClearsNat DEF IndInv, Safe
<1>2. v.fate[m] = "routed" /\ v.fate[m] \in Early
  BY <1>1, WorldFields DEF Early, Enqueue
<1>3. v.created + 1 \in Objs
  BY <1>1, <1>2, RoomForQueue DEF Safe
<1>4. PICK w : w = GetQueue(v, s)
  OBVIOUS
<1>5. /\ w \in Worlds /\ Good(w, clears) /\ RunsOK(w, clears)
      /\ w.fate = v.fate /\ w.loop = v.loop /\ w.callback = v.callback
      /\ w.current \in Objs /\ w.created <= v.created + 1
      /\ w.queue[w.current].cap > 0
  BY <1>1, <1>3, <1>4, GetQueueKeeps DEF Safe
<1>6. PICK o \in Objs : o = w.current
  BY <1>5
<1>7. PICK u : u = [w EXCEPT !.queue[o].lastRun = TRUE]
  OBVIOUS
<1>8. /\ u \in Worlds /\ Good(u, clears) /\ RunsOK(u, clears)
      /\ u.fate = v.fate /\ u.loop = v.loop /\ u.callback = v.callback
      /\ u.current = o /\ u.created = w.created
      /\ u.queue[o].cap > 0
  <2>1. PICK q : q = [w.queue[o] EXCEPT !.lastRun = TRUE]
    OBVIOUS
  <2>2. w.queue[o] \in QueueRec
    BY <1>5, WorldFacts
  <2>3. /\ q \in QueueRec /\ q.draining = w.queue[o].draining /\ q.cap = w.queue[o].cap
        /\ q.items = w.queue[o].items /\ q.dropped = w.queue[o].dropped
    BY <2>1, <2>2 DEF QueueRec
  <2>4. w.queue \in [Objs -> QueueRec]
    BY <1>5, WorldFacts
  <2>5. PICK Q \in [Objs -> QueueRec] : Q = [w.queue EXCEPT ![o] = q]
    BY <2>3, <2>4
  <2>6. u = [w EXCEPT !.queue = Q]
    BY <1>7, <2>1, <2>5
  <2>7. /\ u \in Worlds /\ u.fate = w.fate /\ u.loop = w.loop /\ u.callback = w.callback
        /\ u.current = w.current /\ u.created = w.created /\ u.queue = Q
    BY <1>5, <2>6 DEF Worlds
  <2>8. Q[o] = q /\ \A r \in Objs : r # o => Q[r] = w.queue[r]
    BY <2>4, <2>5
  <2>9. SameItems(u, w) /\ \A r \in Objs : u.queue[r].draining = w.queue[r].draining
    BY <2>3, <2>7, <2>8 DEF SameItems
  <2>10. Good(u, clears) /\ RunsOK(u, clears)
    BY <1>1, <1>5, <2>7, <2>9, MarksKeep
  <2> QED BY <1>5, <1>6, <2>3, <2>7, <2>8, <2>10
(* The message is not queued: its fate is settled. *)
<1>9. ASSUME NEW x \in Worlds, Good(x, clears), RunsOK(x, clears), x.fate = v.fate,
             x.created = w.created, NEW f \in {"duplicate", "refused"},
             NEW y, y = SetFate(x, {m}, f)
      PROVE  Safe(y, clears)
  <2>1. f \in Fates /\ f \notin Early
    BY DEF Fates, Early
  <2>2. y \in Worlds /\ Fated(y, x, {m}, f)
    BY <1>9, <2>1, OneFate
  <2>3. /\ y.queue = x.queue /\ y.loop = x.loop
        /\ y.current = x.current /\ y.created = x.created
        /\ y.fate[m] = f /\ \A k \in Msgs : k # m => y.fate[k] = x.fate[k]
    BY <2>2 DEF Fated
  <2>4. CountOK(y)
    <3>1. CountOK(v) /\ y.created <= v.created + 1
      BY <1>1, <1>5, <1>9, <2>3 DEF Safe
    <3>2. \A k \in Msgs : v.fate[k] \notin Early => y.fate[k] \notin Early
      BY <1>9, <2>1, <2>3
    <3> QED BY <1>2, <2>1, <2>2, <2>3, <3>1, <3>2, CountMore
  <2>5. Good(y, clears) /\ RunsOK(y, clears)
    <3>1. x.fate[m] \in Early
      BY <1>2, <1>9
    <3>2. f \in Early \cup {"duplicate", "refused"}
      OBVIOUS
    <3> QED BY <1>1, <1>9, <2>2, <3>1, <3>2, Settled
  <2> QED BY <2>2, <2>4, <2>5 DEF Safe
<1>10. PICK pushed : pushed = PushItem(ApplyDropPolicy(u, o), o, m)
  OBVIOUS
<1>11. /\ pushed \in Worlds /\ Good(pushed, clears) /\ RunsOK(pushed, clears)
       /\ CountOK(pushed) /\ pushed.loop = loop /\ pushed.current = o
  <2>1. PICK x : x = ApplyDropPolicy(u, o)
    OBVIOUS
  <2>2. x \in Worlds /\ \E n \in 0 .. Len(u.queue[o].items) : Cut(x, u, o, n)
    BY <1>8, <2>1, CutFacts
  <2>3. PICK n \in 0 .. Len(u.queue[o].items) : Cut(x, u, o, n)
    BY <2>2
  <2>4. Good(x, clears) /\ RunsOK(x, clears)
    BY <1>1, <1>8, <2>2, <2>3, CutKeeps
  <2>5. /\ x.current = o /\ x.created = w.created /\ x.loop = v.loop
        /\ \A k \in Msgs : x.fate[k] = v.fate[k] \/ x.fate[k] \in {"dropped", "summarized"}
    BY <1>8, <2>3 DEF Cut
  <2>6. x.fate[m] = "routed"
    <3>1. \A k \in Msgs : \/ x.fate[k] = u.fate[k]
                          \/ \E p \in 1 .. n : u.queue[o].items[p] = k
      BY <2>3 DEF Cut
    <3>2. \A p \in Positions(u.queue[o].items) : u.fate[u.queue[o].items[p]] = "queued"
      BY <1>8 DEF Good, ItemsOK
    <3>3. \A p \in 1 .. n : p \in Positions(u.queue[o].items)
      BY <1>8, <2>3, ItemsType DEF Positions
    <3> QED BY <1>2, <1>8, <3>1, <3>2, <3>3
  <2>7. pushed \in Worlds /\ Pushed(pushed, x, o, m)
    BY <1>10, <2>1, <2>2, PushFacts
  <2>8. x.fate[m] \in Early
    BY <2>6 DEF Early
  <2>9. Good(pushed, clears) /\ RunsOK(pushed, clears)
    BY <1>1, <2>2, <2>4, <2>5, <2>7, <2>8, PushKeeps
  <2>10. /\ pushed.loop = v.loop /\ pushed.current = o /\ pushed.created = w.created
         /\ pushed.fate[m] = "queued"
         /\ \A k \in Msgs : k # m => pushed.fate[k] = x.fate[k]
    BY <2>5, <2>7 DEF Pushed
  <2>11. CountOK(pushed)
    <3>1. CountOK(v) /\ pushed.created <= v.created + 1
      BY <1>1, <1>5, <2>10 DEF Safe
    <3>2. \A k \in Msgs : v.fate[k] \notin Early => pushed.fate[k] \notin Early
      BY <2>5, <2>10 DEF Early
    <3>3. pushed.fate[m] \notin Early
      BY <2>10 DEF Early
    <3> QED BY <1>2, <2>7, <3>1, <3>2, <3>3, CountMore
  <2> QED BY <1>1, <2>7, <2>9, <2>10, <2>11, WorldFields
<1>12. PICK y : y = IF pushed.queue[o].draining THEN pushed ELSE Kick(pushed)
  OBVIOUS
<1>13. Safe(y, clears)
  <2>1. CASE pushed.queue[o].draining
    BY <1>11, <1>12, <2>1 DEF Safe
  <2>2. CASE ~pushed.queue[o].draining
    <3>1. y = Kick(pushed)
      BY <1>12, <2>2
    <3>2. /\ y \in Worlds /\ Good(y, clears) /\ RunsOK(y, clears)
          /\ y.fate = pushed.fate /\ y.created = pushed.created
      BY <1>1, <1>11, <3>1, KickKeeps
    <3> QED BY <1>11, <3>2 DEF Safe, CountOK
  <2> QED BY <2>1, <2>2
<1>14. /\ \/ Becomes(SetFate(w, {m}, "duplicate"))
          \/ Becomes(SetFate(u, {m}, "refused"))
          \/ Becomes(y)
       /\ UNCHANGED <<clears, failures>>
  BY <1>1, <1>4, <1>6, <1>7, <1>10, <1>12 DEF Enqueue
<1>15. \E z : Safe(z, clears) /\ Becomes(z)
  <2>1. CASE Becomes(SetFate(w, {m}, "duplicate"))
    BY <1>5, <1>9, <2>1
  <2>2. CASE Becomes(SetFate(u, {m}, "refused"))
    BY <1>8, <1>9, <2>2
  <2> QED BY <1>13, <1>14, <2>1, <2>2
<1> QED BY <1>14, <1>15, StepSafe DEF IndInv

(* The queue of the key is emptied and forgotten.                            *)
Emptied(u, w, o) ==
  /\ u.current = None /\ u.created = w.created /\ u.loop = w.loop
  /\ u.queue[o].items = <<>> /\ u.queue[o].dropped = {}
  /\ \A r \in Objs : u.queue[r].draining = w.queue[r].draining
  /\ \A r \in Objs : r # o => u.queue[r] = w.queue[r]
  /\ \A m \in Msgs : \/ u.fate[m] = w.fate[m]
                     \/ /\ u.fate[m] = "cleared"
                        /\ m \in Range(w.queue[o].items) \cup w.queue[o].dropped

LEMMA EmptiedKeeps ==
  ASSUME NEW w, NEW c \in Nat, Safe(w, c), NEW o \in Objs,
         NEW u \in Worlds, Emptied(u, w, o)
  PROVE  Safe(u, c + 1)
<1>1. w \in Worlds /\ CountOK(w) /\ Good(w, c) /\ RunsOK(w, c) /\ c + 1 # 0
  BY DEF Safe
<1>2. /\ u.current = None /\ u.created = w.created /\ u.loop = w.loop
      /\ \A r \in Objs : u.queue[r].draining = w.queue[r].draining
      /\ \A r \in Objs : r # o => u.queue[r] = w.queue[r]
      /\ u.queue[o].items = <<>> /\ u.queue[o].dropped = {}
  BY DEF Emptied
<1>3. \A m \in Msgs : u.fate[m] = w.fate[m] \/ u.fate[m] = "cleared"
  BY DEF Emptied
<1>4. ASSUME NEW r \in Objs, NEW p \in Positions(u.queue[r].items)
      PROVE  /\ r # o /\ p \in Positions(w.queue[r].items)
             /\ u.queue[r].items[p] = w.queue[r].items[p]
  BY <1>2, <1>4, NoMessages DEF Positions
<1>5. \A r \in Objs : \A p \in Positions(w.queue[r].items) :
         /\ w.fate[w.queue[r].items[p]] = "queued"
         /\ \A q \in Objs : \A k \in Positions(w.queue[q].items) :
              w.queue[q].items[k] = w.queue[r].items[p] => q = r /\ k = p
  BY <1>1 DEF Good, ItemsOK
<1>6. \A r \in Objs : \A m \in w.queue[r].dropped : w.fate[m] \in Gone
  BY <1>1 DEF Good, ItemsOK
<1>7. CountOK(u)
  <2>1. \A m \in Msgs : w.fate[m] \notin Early => u.fate[m] \notin Early
    BY <1>3 DEF Early
  <2> QED BY <1>1, <1>2, <2>1, CountKept
<1>8. LoopsOK(u, c + 1)
  <2>1. \A i \in Loops : Running(w, i) => w.loop[i].obj \in Objs
    BY <1>1, LoopObject DEF Good
  <2>2. LoopsOK(w, c)
    BY <1>1 DEF Good
  <2>3. None <= u.created
    BY <1>2, WorldFacts, CountType DEF None
  <2> QED BY <1>1, <1>2, <2>1, <2>2, <2>3 DEF LoopsOK, Running
<1>9. ItemsOK(u)
  <2>1. ASSUME NEW r \in Objs, NEW p \in Positions(u.queue[r].items)
        PROVE  /\ u.fate[u.queue[r].items[p]] = "queued"
               /\ \A q \in Objs : \A k \in Positions(u.queue[q].items) :
                    u.queue[q].items[k] = u.queue[r].items[p] => q = r /\ k = p
    <3>1. u.queue[r].items[p] \in Msgs
      BY ItemsType
    <3>2. /\ r # o /\ p \in Positions(w.queue[r].items)
          /\ u.queue[r].items[p] = w.queue[r].items[p]
      BY <1>4
    <3>3. w.fate[u.queue[r].items[p]] = "queued"
      BY <1>5, <3>2
    <3>4. u.queue[r].items[p] \notin Range(w.queue[o].items)
      <4> SUFFICES ASSUME u.queue[r].items[p] \in Range(w.queue[o].items) PROVE FALSE
        OBVIOUS
      <4>1. PICK k \in Positions(w.queue[o].items) : w.queue[o].items[k] = u.queue[r].items[p]
        BY <1>1, ItemsType, RangeOf
      <4>2. w.queue[o].items[k] = w.queue[r].items[p]
        BY <3>2, <4>1
      <4> QED BY <1>5, <3>2, <4>2
    <3>5. u.queue[r].items[p] \notin w.queue[o].dropped
      BY <1>6, <3>3 DEF Gone
    <3>6. u.fate[u.queue[r].items[p]] = "queued"
      BY <3>1, <3>3, <3>4, <3>5 DEF Emptied
    <3> QED BY <1>4, <1>5, <3>2, <3>6
  <2>2. ASSUME NEW r \in Objs, NEW m \in u.queue[r].dropped
        PROVE  u.fate[m] \in Gone
    <3>1. m \in Msgs
      BY <2>2, ItemsType
    <3>2. m \in w.queue[r].dropped
      BY <1>2, <2>2
    <3> QED BY <1>3, <1>6, <3>1, <3>2 DEF Gone
  <2> QED BY <2>1, <2>2 DEF ItemsOK
<1>10. KeptOK(u, c + 1)
  BY <1>1 DEF KeptOK
<1>11. RunsOK(u, c + 1)
  <2> SUFFICES ASSUME NEW i \in Loops, w.loop[i].pc = "running" PROVE RunOK(u, c + 1, i)
    BY <1>2 DEF RunsOK
  <2>1. RunOK(w, c, i)
    BY <1>1 DEF RunsOK
  <2>2. PICK l \in LoopRec : l = w.loop[i]
    BY <1>1, WorldFacts
  <2>3. l.told \in SUBSET Msgs /\ l.batch \in Seq(Msgs)
    BY DEF LoopRec
  <2>4. \A k \in Range(l.batch) : k \in Msgs
    BY <2>3, RangeOf DEF Positions
  <2>5. \A k \in l.told : u.fate[k] \in Gone
    <3> TAKE k \in l.told
    <3>1. w.fate[k] \in Gone
      BY <2>1, <2>2 DEF RunOK
    <3> QED BY <1>3, <2>3, <3>1 DEF Gone
  <2>6. l.kind # "summary" => \A k \in Range(l.batch) :
          u.fate[k] \in {"queued", "dropped", "summarized", "told", "cleared"}
    BY <1>3, <2>1, <2>2, <2>4 DEF RunOK
  <2>7. l.kind # "summary" => \A k \in Range(l.batch) :
          \A r \in Objs : \A p \in Positions(u.queue[r].items) :
             u.queue[r].items[p] = k => r = l.obj /\ p <= Len(l.batch)
    BY <1>4, <2>1, <2>2 DEF RunOK
  <2> QED BY <1>1, <1>2, <2>1, <2>2, <2>5, <2>6, <2>7 DEF RunOK
<1> QED BY <1>7, <1>8, <1>9, <1>10, <1>11 DEF Safe, Good

(* What holds of the world holds of it after the next clear.                 *)
LEMMA LaterSafe ==
  ASSUME NEW w, NEW c \in Nat, Safe(w, c), NEW u, u = [w EXCEPT !.callback = FALSE]
  PROVE  Safe(u, c + 1)
<1>1. w \in Worlds /\ CountOK(w) /\ Good(w, c) /\ RunsOK(w, c) /\ c + 1 # 0
  BY DEF Safe
<1>2. /\ u \in Worlds /\ u.queue = w.queue /\ u.loop = w.loop /\ u.fate = w.fate
      /\ u.current = w.current /\ u.created = w.created
  BY <1>1 DEF Worlds
<1>3. CountOK(u)
  BY <1>1, <1>2 DEF CountOK
<1>4. SameItems(u, w)
  BY <1>2 DEF SameItems
<1>5. ItemsOK(u) /\ KeptOK(u, c + 1)
  BY <1>1, <1>2, <1>4, ItemsSame DEF Good, KeptOK
<1>6. LoopsOK(u, c + 1)
  <2>1. LoopsOK(w, c)
    BY <1>1 DEF Good
  <2> QED BY <1>1, <1>2, <2>1 DEF LoopsOK, Running
<1>7. RunsOK(u, c + 1)
  <2> SUFFICES ASSUME NEW i \in Loops, w.loop[i].pc = "running" PROVE RunOK(u, c + 1, i)
    BY <1>2 DEF RunsOK
  <2>1. RunOK(w, c, i)
    BY <1>1 DEF RunsOK
  <2> QED BY <1>1, <1>2, <2>1 DEF RunOK
<1> QED BY <1>2, <1>3, <1>5, <1>6, <1>7 DEF Safe, Good

LEMMA ClearStep ==
  ASSUME IndInv, Clear
  PROVE  IndInv'
<1>1. PICK w \in Worlds : w = World /\ Safe(w, clears) /\ clears \in Nat
  BY ClearsNat DEF IndInv, Safe
<1>2. clears' = clears + 1 /\ clears' \in 0 .. MaxClears /\ failures' \in 0 .. MaxFailures
  BY <1>1, BoundsAssumption DEF Clear, IndInv
<1>3. CASE w.current = None
  <2>1. PICK u : u = [w EXCEPT !.callback = FALSE]
    OBVIOUS
  <2>2. Becomes(u)
    BY <1>1, <1>3, <2>1, WorldFields DEF Clear
  <2> QED BY <1>1, <1>2, <2>1, <2>2, LaterSafe, StepSafe
<1>4. CASE w.current # None
  <2>1. PICK o \in Objs : o = w.current
    BY <1>4, WorldFacts
  <2>2. w.queue[o] \in QueueRec /\ w.queue[o].items \in Seq(Msgs)
        /\ w.queue[o].dropped \in SUBSET Msgs
    BY ItemsType
  <2>3. PICK q : q = [w.queue[o] EXCEPT !.items = <<>>, !.dropped = {}, !.lastRun = FALSE]
    OBVIOUS
  <2>4. /\ q \in QueueRec /\ q.items = <<>> /\ q.dropped = {}
        /\ q.draining = w.queue[o].draining
    BY <2>2, <2>3, NoMessages DEF QueueRec
  <2>5. PICK Q \in [Objs -> QueueRec] : Q = [w.queue EXCEPT ![o] = q]
    BY <2>4, WorldFacts
  <2>6. PICK v : v = [w EXCEPT !.callback = FALSE, !.current = None, !.queue = Q]
    OBVIOUS
  <2>7. /\ v \in Worlds /\ v.queue = Q /\ v.current = None /\ v.created = w.created
        /\ v.loop = w.loop /\ v.fate = w.fate
    BY <2>6 DEF Worlds
  <2>8. PICK S \in SUBSET Msgs : S = Range(w.queue[o].items) \cup w.queue[o].dropped
    <3>1. \A m \in Range(w.queue[o].items) : m \in Msgs
      BY <2>2, RangeOf DEF Positions
    <3>2. PICK S : S = Range(w.queue[o].items) \cup w.queue[o].dropped
      OBVIOUS
    <3>3. S \in SUBSET Msgs
      BY <2>2, <3>1, <3>2
    <3> QED BY <3>2, <3>3
  <2>9. PICK f \in Fates : f = "cleared"
    BY DEF Fates
  <2>10. PICK u : u = SetFate(v, S, f)
    OBVIOUS
  <2>11. u \in Worlds /\ Fated(u, v, S, f)
    BY <2>7, <2>10, SetFateFacts
  <2>12. Becomes(u)
    <3>1. v = [World EXCEPT !.callback = FALSE, !.current = None,
                            !.queue[current].items = <<>>,
                            !.queue[current].dropped = {},
                            !.queue[current].lastRun = FALSE]
      BY <1>1, <2>1, <2>3, <2>5, <2>6, WorldFields
    <3>2. S = Range(queue[current].items) \cup queue[current].dropped /\ current # None
      BY <1>1, <1>4, <2>1, <2>8, WorldFields
    <3> QED BY <2>9, <2>10, <3>1, <3>2 DEF Clear
  <2>13. Q[o] = q /\ \A r \in Objs : r # o => Q[r] = w.queue[r]
    BY <2>5, WorldFacts
  <2>14. Emptied(u, w, o)
    <3>1. \A m \in Msgs : \/ u.fate[m] = w.fate[m]
                          \/ /\ u.fate[m] = "cleared"
                             /\ m \in Range(w.queue[o].items) \cup w.queue[o].dropped
      BY <2>7, <2>8, <2>9, <2>11 DEF Fated
    <3>2. u.queue = Q /\ u.loop = w.loop /\ u.current = None /\ u.created = w.created
      BY <2>7, <2>11 DEF Fated
    <3> QED BY <2>4, <2>13, <3>1, <3>2 DEF Emptied
  <2>15. Safe(u, clears + 1)
    BY <1>1, <2>11, <2>14, EmptiedKeeps
  <2> QED BY <1>2, <2>12, <2>15, StepSafe
<1> QED BY <1>3, <1>4

(* Only the loop i changes, and drains what it drained.                      *)
LoopMoved(u, w, i) ==
  /\ u.queue = w.queue /\ u.current = w.current /\ u.created = w.created
  /\ u.callback = w.callback /\ u.fate = w.fate
  /\ u.loop[i].obj = w.loop[i].obj
  /\ \A j \in Loops : j # i => u.loop[j] = w.loop[j]

WithLoop(w, i, l) == [w EXCEPT !.loop = [w.loop EXCEPT ![i] = l]]

LEMMA LoopFacts ==
  ASSUME NEW w \in Worlds, NEW i \in Loops, NEW l \in LoopRec, l.obj = w.loop[i].obj,
         NEW u, u = WithLoop(w, i, l)
  PROVE  u \in Worlds /\ LoopMoved(u, w, i) /\ u.loop[i] = l
<1>1. PICK L \in [Loops -> LoopRec] : L = [w.loop EXCEPT ![i] = l]
  BY WorldFacts
<1>2. u = [w EXCEPT !.loop = L]
  BY <1>1 DEF WithLoop
<1>3. /\ u \in Worlds /\ u.queue = w.queue /\ u.current = w.current
      /\ u.created = w.created /\ u.callback = w.callback /\ u.fate = w.fate /\ u.loop = L
  BY <1>2 DEF Worlds
<1>4. L[i] = l /\ \A j \in Loops : j # i => L[j] = w.loop[j]
  BY <1>1, WorldFacts
<1> QED BY <1>3, <1>4 DEF LoopMoved

Paused(w, i, pc) == [w EXCEPT !.loop[i].pc = pc]

LEMMA PauseFacts ==
  ASSUME NEW w \in Worlds, NEW i \in Loops, NEW pc \in {"debounce", "checked", "leaving"},
         NEW u, u = Paused(w, i, pc)
  PROVE  u \in Worlds /\ LoopMoved(u, w, i) /\ u.loop[i].pc = pc
<1>1. PICK l : l = [w.loop[i] EXCEPT !.pc = pc]
  OBVIOUS
<1>2. w.loop[i] \in LoopRec
  BY WorldFacts
<1>3. l \in LoopRec /\ l.pc = pc /\ l.obj = w.loop[i].obj
  BY <1>1, <1>2 DEF LoopRec
<1>4. u = WithLoop(w, i, l)
  BY <1>1 DEF Paused, WithLoop
<1>5. u \in Worlds /\ LoopMoved(u, w, i) /\ u.loop[i] = l
  BY <1>3, <1>4, LoopFacts
<1> QED BY <1>3, <1>5

LEMMA RunFacts ==
  ASSUME NEW w \in Worlds, NEW i \in Loops, NEW kind \in {"item", "collect", "summary"},
         NEW batch \in Seq(Msgs), NEW told \in SUBSET Msgs,
         NEW u, u = Run(w, i, kind, batch, told)
  PROVE  /\ u \in Worlds /\ LoopMoved(u, w, i)
         /\ u.loop[i].pc = "running" /\ u.loop[i].kind = kind
         /\ u.loop[i].batch = batch /\ u.loop[i].told = told
<1>1. PICK l : l = [w.loop[i] EXCEPT !.pc = "running", !.kind = kind, !.batch = batch,
                                     !.told = told]
  OBVIOUS
<1>2. w.loop[i] \in LoopRec
  BY WorldFacts
<1>3. /\ l \in LoopRec /\ l.pc = "running" /\ l.obj = w.loop[i].obj /\ l.kind = kind
      /\ l.batch = batch /\ l.told = told
  BY <1>1, <1>2 DEF LoopRec
<1>4. u = WithLoop(w, i, l)
  BY <1>1 DEF Run, WithLoop
<1>5. u \in Worlds /\ LoopMoved(u, w, i) /\ u.loop[i] = l
  <2>1. l \in LoopRec /\ l.obj = w.loop[i].obj
    BY <1>3
  <2> QED BY <1>4, <2>1, LoopFacts
<1> QED BY <1>3, <1>5

(* A loop that is at its debounce, in its check or leaving.                  *)
LEMMA PausedSafe ==
  ASSUME NEW w, NEW c \in Nat, Safe(w, c), NEW i \in Loops, Running(w, i),
         NEW u \in Worlds, LoopMoved(u, w, i), u.loop[i].pc \in {"debounce", "checked", "leaving"}
  PROVE  Safe(u, c)
<1>1. w \in Worlds /\ CountOK(w) /\ Good(w, c) /\ RunsOK(w, c)
  BY DEF Safe
<1>2. PICK pc \in {"debounce", "checked", "leaving"} : pc = u.loop[i].pc
  OBVIOUS
<1>3. \A j \in Loops : j # i /\ w.loop[j].pc = "running" => RunOK(w, c, j)
  BY <1>1 DEF RunsOK
<1>4. /\ u.queue = w.queue /\ u.fate = w.fate /\ u.created = w.created
      /\ u.current = w.current /\ u.loop[i].obj = w.loop[i].obj
      /\ \A j \in Loops : j # i => u.loop[j] = w.loop[j]
  BY DEF LoopMoved
<1>5. Good(u, c) /\ RunsOK(u, c)
  BY <1>1, <1>2, <1>3, <1>4, PausedFacts
<1> QED BY <1>1, <1>4, <1>5 DEF Safe, CountOK

(* A loop takes the first items of its queue, or the messages of a summary.  *)
Taken(u, w, i) ==
  LET l == u.loop[i]
      q == w.queue[l.obj]
  IN /\ l.pc = "running"
     /\ Len(l.batch) <= Len(q.items)
     /\ \A p \in Positions(l.batch) : q.items[p] = l.batch[p]
     /\ l.told \subseteq q.dropped
     /\ l.kind = "summary" => l.told # {}

LEMMA TakenSafe ==
  ASSUME NEW w, NEW c \in Nat, Safe(w, c), NEW i \in Loops,
         Running(w, i), w.loop[i].pc # "running",
         NEW u \in Worlds, LoopMoved(u, w, i), Taken(u, w, i)
  PROVE  Safe(u, c)
<1>1. w \in Worlds /\ CountOK(w) /\ Good(w, c) /\ RunsOK(w, c)
  BY DEF Safe
<1>2. /\ u.queue = w.queue /\ u.fate = w.fate /\ u.created = w.created
      /\ u.current = w.current /\ u.loop[i].obj = w.loop[i].obj
      /\ \A j \in Loops : j # i => u.loop[j] = w.loop[j]
  BY DEF LoopMoved
<1>3. PICK o \in Objs : o = w.loop[i].obj /\ o # None
  BY <1>1, LoopObject DEF Good
<1>4. PICK l \in LoopRec : l = u.loop[i]
  BY WorldFacts
<1>5. /\ l.batch \in Seq(Msgs) /\ Len(l.batch) \in Nat /\ l.told \in SUBSET Msgs
      /\ l.obj = o
  BY <1>2, <1>3, <1>4 DEF LoopRec
<1>6. PICK items \in Seq(Msgs) : items = w.queue[o].items /\ Len(items) \in Nat
  BY <1>1, ItemsType
<1>7. /\ l.pc = "running" /\ Len(l.batch) <= Len(items)
      /\ \A p \in Positions(l.batch) : items[p] = l.batch[p]
      /\ l.told \subseteq w.queue[o].dropped
      /\ l.kind = "summary" => l.told # {}
  BY <1>4, <1>5, <1>6 DEF Taken
(* Each message of the batch is an item. *)
<1>8. ASSUME NEW m \in Range(l.batch)
      PROVE  \E p \in Positions(w.queue[o].items) :
               p \in Nat /\ p <= Len(l.batch) /\ w.queue[o].items[p] = m
  <2>1. PICK p \in Positions(l.batch) : l.batch[p] = m
    BY <1>5, <1>8, RangeOf
  <2>2. items[p] = m
    BY <1>7, <2>1
  <2>3. Len(l.batch) <= Len(items)
    BY <1>7
  <2>4. p \in Nat /\ p <= Len(l.batch) /\ p \in Positions(items)
    BY <1>5, <1>6, <2>3 DEF Positions
  <2> QED BY <1>6, <2>2, <2>4
<1>9. \A r \in Objs : \A p \in Positions(w.queue[r].items) :
         /\ w.fate[w.queue[r].items[p]] = "queued"
         /\ \A q \in Objs : \A k \in Positions(w.queue[q].items) :
              w.queue[q].items[k] = w.queue[r].items[p] => q = r /\ k = p
  BY <1>1 DEF Good, ItemsOK
<1>10. ASSUME NEW j \in Loops, j # i, w.loop[j].pc = "running", w.loop[j].kind # "summary"
      PROVE  Range(w.loop[j].batch) \cap Range(l.batch) = {}
  <2> SUFFICES ASSUME NEW m \in Range(l.batch), m \in Range(w.loop[j].batch) PROVE FALSE
    OBVIOUS
  <2>1. PICK p \in Positions(w.queue[o].items) : w.queue[o].items[p] = m
    BY <1>8
  <2>2. o = w.loop[j].obj
    <3>1. RunOK(w, c, j)
      BY <1>1, <1>10 DEF RunsOK
    <3>2. \A r \in Objs : \A k \in Positions(w.queue[r].items) :
            w.queue[r].items[k] = m => r = w.loop[j].obj
      BY <1>10, <3>1 DEF RunOK
    <3> QED BY <2>1, <3>2
  <2>3. j = i
    BY <1>1, <1>3, <1>10, <2>2 DEF Good, LoopsOK, Running
  <2> QED BY <1>10, <2>3
<1>11. RunOK(u, c, i)
  <2>1. \A m \in l.told : u.fate[m] \in Gone /\ (c = 0 => u.fate[m] \in Over)
    <3>1. \A m \in w.queue[o].dropped : w.fate[m] \in Gone
      BY <1>1 DEF Good, ItemsOK
    <3>2. c = 0 => \A m \in w.queue[o].dropped : w.fate[m] \in Over
      BY <1>1 DEF Good, KeptOK
    <3>3. l.told \subseteq w.queue[o].dropped
      BY <1>7
    <3> QED BY <1>2, <3>1, <3>2, <3>3
  <2>2. \A m \in Range(l.batch) : u.fate[m] = "queued"
    BY <1>2, <1>8, <1>9
  <2>3. \A m \in Range(l.batch) : \A r \in Objs : \A p \in Positions(u.queue[r].items) :
             u.queue[r].items[p] = m => r = l.obj /\ p <= Len(l.batch)
    BY <1>2, <1>5, <1>8, <1>9
  <2>4. \A m \in Range(l.batch) : \A j \in Loops :
          u.loop[j].pc = "running" /\ u.loop[j].kind # "summary"
          /\ m \in Range(u.loop[j].batch) => j = i
    BY <1>2, <1>10
  <2>5. /\ Len(l.batch) <= Len(u.queue[o].items)
        /\ \A p \in Positions(l.batch) : u.queue[o].items[p] = l.batch[p]
    BY <1>2, <1>6, <1>7
  <2> QED BY <1>4, <1>5, <1>7, <2>1, <2>2, <2>3, <2>4, <2>5 DEF RunOK
<1>12. ASSUME NEW j \in Loops, j # i, w.loop[j].pc = "running"
       PROVE  RunOK(u, c, j)
  <2>1. RunOK(w, c, j)
    BY <1>1, <1>12 DEF RunsOK
  <2>2. u.loop[j] = w.loop[j] /\ u.queue = w.queue /\ u.fate = w.fate
    BY <1>2, <1>12
  <2>3. w.loop[j].kind # "summary" => \A m \in Range(w.loop[j].batch) : \A k \in Loops :
          u.loop[k].pc = "running" /\ u.loop[k].kind # "summary"
          /\ m \in Range(u.loop[k].batch) => k = j
    <3> SUFFICES ASSUME w.loop[j].kind # "summary", NEW m \in Range(w.loop[j].batch),
                        NEW k \in Loops, u.loop[k].pc = "running",
                        u.loop[k].kind # "summary", m \in Range(u.loop[k].batch)
                 PROVE  k = j
      OBVIOUS
    <3>1. k # i
      BY <1>4, <1>10, <1>12
    <3>2. u.loop[k] = w.loop[k]
      BY <1>2, <3>1
    <3> QED BY <2>1, <3>2 DEF RunOK
  <2>4. Overflow(u) <=> Overflow(w)
    BY <2>2 DEF Overflow
  <2>5. PICK k \in LoopRec : k = w.loop[j]
    BY <1>1, WorldFacts
  <2>6. /\ \A m \in k.told : u.fate[m] \in Gone
        /\ c = 0 => \A m \in k.told : u.fate[m] \in Over
        /\ k.kind = "summary" => k.told # {}
    BY <2>1, <2>2, <2>5 DEF RunOK
  <2>7. k.kind # "summary" => \A m \in Range(k.batch) :
          /\ u.fate[m] \in {"queued", "dropped", "summarized", "told", "cleared"}
          /\ c = 0 => u.fate[m] # "told"
          /\ \A r \in Objs : \A p \in Positions(u.queue[r].items) :
                u.queue[r].items[p] = m => r = k.obj /\ p <= Len(k.batch)
    BY <2>1, <2>2, <2>5 DEF RunOK
  <2>8. k.kind # "summary" /\ c = 0 /\ ~Overflow(u) =>
          /\ Len(k.batch) <= Len(u.queue[k.obj].items)
          /\ \A p \in Positions(k.batch) : u.queue[k.obj].items[p] = k.batch[p]
    BY <2>1, <2>2, <2>4, <2>5 DEF RunOK
  <2>9. u.loop[j] = k
    BY <2>2, <2>5
  <2>10. k.kind # "summary" => \A m \in Range(k.batch) : \A q \in Loops :
           u.loop[q].pc = "running" /\ u.loop[q].kind # "summary"
           /\ m \in Range(u.loop[q].batch) => q = j
    BY <2>3, <2>5
  <2> QED BY <2>6, <2>7, <2>8, <2>9, <2>10 DEF RunOK
<1>13. RunsOK(u, c)
  BY <1>2, <1>11, <1>12 DEF RunsOK
<1>14. LoopsOK(u, c)
  <2>1. \A j \in Loops : Running(u, j) => Running(w, j) /\ u.loop[j].obj = w.loop[j].obj
    BY <1>2 DEF Running
  <2>2. LoopsOK(w, c)
    BY <1>1 DEF Good
  <2> QED BY <1>2, <2>1, <2>2 DEF LoopsOK
<1>15. ItemsOK(u) /\ KeptOK(u, c)
  <2>1. SameItems(u, w)
    BY <1>2 DEF SameItems
  <2> QED BY <1>1, <1>2, <2>1, ItemsSame, KeptSame DEF Good
<1> QED BY <1>1, <1>2, <1>13, <1>14, <1>15 DEF Safe, Good, CountOK

LEMMA HeadFacts ==
  ASSUME NEW s \in Seq(Msgs), s # <<>>
  PROVE  /\ Head(s) \in Msgs /\ Head(s) = s[1] /\ Len(s) >= 1
         /\ <<Head(s)>> \in Seq(Msgs) /\ Len(<<Head(s)>>) = 1 /\ <<Head(s)>>[1] = Head(s)
OBVIOUS

LEMMA RunHeadSafe ==
  ASSUME NEW w, NEW c \in Nat, Safe(w, c), NEW i \in Loops, w.loop[i].pc = "debounce",
         NEW kind \in {"item", "summary"}, NEW told, kind = "summary" => told # {},
         told \subseteq w.queue[w.loop[i].obj].dropped,
         NEW u, u = RunHead(w, i, kind, told)
  PROVE  Safe(u, c)
<1>1. w \in Worlds /\ Running(w, i) /\ w.loop[i].pc # "running"
  BY DEF Safe, Running
<1>2. PICK o \in Objs : o = w.loop[i].obj
  BY <1>1, LoopObject DEF Safe, Good
<1>3. PICK items \in Seq(Msgs) : items = w.queue[o].items
  BY <1>1, ItemsType
<1>4. CASE items = <<>>
  <2>1. PICK pc \in {"debounce", "checked", "leaving"} : pc = "leaving"
    OBVIOUS
  <2>2. u = Paused(w, i, pc)
    BY <1>2, <1>3, <1>4, <2>1 DEF RunHead, Paused
  <2>3. u \in Worlds /\ LoopMoved(u, w, i) /\ u.loop[i].pc = pc
    <3>1. w \in Worlds
      BY <1>1
    <3> QED BY <2>2, <3>1, PauseFacts
  <2> QED BY <1>1, <2>3, PausedSafe
<1>5. CASE items # <<>>
  <2>1. PICK batch \in Seq(Msgs) : batch = <<Head(items)>>
    BY <1>5, HeadFacts
  <2>2. /\ Len(batch) = 1 /\ Len(items) \in Nat /\ 1 <= Len(items) /\ batch[1] = items[1]
    BY <1>5, <2>1, HeadFacts
  <2>3. u = Run(w, i, kind, batch, told)
    BY <1>2, <1>3, <1>5, <2>1 DEF RunHead
  <2>4. kind \in {"item", "collect", "summary"}
    OBVIOUS
  <2>5. told \in SUBSET Msgs
    BY <1>1, <1>2, ItemsType
  <2>6. /\ u \in Worlds /\ LoopMoved(u, w, i)
        /\ u.loop[i].pc = "running" /\ u.loop[i].kind = kind
        /\ u.loop[i].batch = batch /\ u.loop[i].told = told
    BY <1>1, <2>3, <2>4, <2>5, RunFacts
  <2>7. Taken(u, w, i)
    <3>1. Len(batch) <= Len(items)
      BY <2>2
    <3>2. \A p \in Positions(batch) : items[p] = batch[p]
      <4>1. \A p \in 1 .. Len(batch) : p = 1
        BY <2>2
      <4> QED BY <2>2, <4>1 DEF Positions
    <3>3. u.loop[i].obj = o
      BY <1>2, <2>6 DEF LoopMoved
    <3> QED BY <1>2, <1>3, <2>6, <3>1, <3>2, <3>3 DEF Taken
  <2> QED BY <1>1, <2>6, <2>7, TakenSafe
<1> QED BY <1>4, <1>5

Forced(w, i, mixed) == [w EXCEPT !.loop[i].force = @ \/ mixed]

LEMMA ForcedSafe ==
  ASSUME NEW w, NEW c \in Nat, Safe(w, c), NEW i \in Loops, w.loop[i].pc = "debounce",
         NEW mixed, NEW u, u = Forced(w, i, mixed)
  PROVE  Safe(u, c) /\ LoopMoved(u, w, i) /\ u.loop[i].pc = "debounce"
<1>1. w \in Worlds /\ Running(w, i)
  BY DEF Safe, Running
<1>2. PICK l : l = [w.loop[i] EXCEPT !.force = w.loop[i].force \/ mixed]
  OBVIOUS
<1>3. w.loop[i] \in LoopRec
  BY <1>1, WorldFacts
<1>4. (w.loop[i].force \/ mixed) \in BOOLEAN
  OBVIOUS
<1>5. l \in LoopRec /\ l.pc = "debounce" /\ l.obj = w.loop[i].obj
  BY <1>2, <1>3, <1>4 DEF LoopRec
<1>6. u = WithLoop(w, i, l)
  BY <1>2 DEF Forced, WithLoop
<1>7. u \in Worlds /\ LoopMoved(u, w, i) /\ u.loop[i] = l
  BY <1>1, <1>5, <1>6, LoopFacts
<1>8. u.loop[i].pc \in {"debounce", "checked", "leaving"}
  BY <1>5, <1>7
<1>9. Safe(u, c)
  BY <1>1, <1>7, <1>8, PausedSafe
<1> QED BY <1>5, <1>7, <1>9

LEMMA PauseSafe ==
  ASSUME NEW w, NEW c \in Nat, Safe(w, c), NEW i \in Loops, Running(w, i),
         NEW pc \in {"debounce", "checked", "leaving"}, NEW u, u = Paused(w, i, pc)
  PROVE  Safe(u, c)
<1>1. w \in Worlds
  BY DEF Safe
<1>2. u \in Worlds /\ LoopMoved(u, w, i) /\ u.loop[i].pc = pc
  BY <1>1, PauseFacts
<1> QED BY <1>2, PausedSafe

LEMMA WakeStep ==
  ASSUME IndInv, NEW i \in Loops, Wake(i)
  PROVE  IndInv'
<1>1. PICK w \in Worlds : w = World /\ Safe(w, clears) /\ clears \in Nat
  BY ClearsNat DEF IndInv, Safe
<1>2. w.loop[i].pc = "debounce" /\ Running(w, i)
  BY <1>1, WorldFields DEF Wake, Running
<1>3. PICK o \in Objs : o = w.loop[i].obj
  BY <1>1, <1>2, LoopObject DEF Safe, Good
<1>4. PICK q \in QueueRec : q = w.queue[o]
  BY ItemsType
<1>5. PICK f : f = Forced(w, i, MixedRoutes(q.items))
  OBVIOUS
<1>6. Safe(f, clears) /\ f.loop[i].pc = "debounce" /\ Running(f, i)
  BY <1>1, <1>2, <1>5, ForcedSafe DEF Running
<1>7. Summary(q) \subseteq w.queue[w.loop[i].obj].dropped
  BY <1>3, <1>4 DEF Summary
<1>8. /\ \/ Becomes(RunHead(f, i, "item", {}))
         \/ Becomes(Paused(f, i, "checked"))
         \/ Becomes(RunHead(w, i, "item", {}))
         \/ Summary(q) # {} /\ Becomes(RunHead(w, i, "summary", Summary(q)))
         \/ Becomes(Paused(w, i, "leaving"))
      /\ UNCHANGED <<clears, failures>>
  <2>1. queue[loop[i].obj] = q
    BY <1>1, <1>3, <1>4, WorldFields
  <2>2. f = [World EXCEPT !.loop[i].force = @ \/ MixedRoutes(q.items)]
    BY <1>1, <1>5 DEF Forced
  <2> QED BY <1>1, <2>1, <2>2 DEF Wake, Paused
<1>9. \E u : Safe(u, clears) /\ Becomes(u)
  <2>1. CASE Becomes(RunHead(f, i, "item", {}))
    <3>1. {} \subseteq f.queue[f.loop[i].obj].dropped
      OBVIOUS
    <3>2. PICK kind \in {"item", "summary"}, told \in {{}} : kind = "item"
      OBVIOUS
    <3>3. PICK u : u = RunHead(f, i, kind, told)
      OBVIOUS
    <3>4. Safe(u, clears)
      BY <1>1, <1>6, <3>1, <3>2, <3>3, RunHeadSafe
    <3> QED BY <2>1, <3>2, <3>3, <3>4
  <2>2. CASE Becomes(Paused(f, i, "checked"))
    <3>1. Safe(Paused(f, i, "checked"), clears)
      BY <1>1, <1>6, PauseSafe
    <3> QED BY <2>2, <3>1
  <2>3. CASE Becomes(RunHead(w, i, "item", {}))
    <3>1. {} \subseteq w.queue[w.loop[i].obj].dropped
      OBVIOUS
    <3>2. PICK kind \in {"item", "summary"}, told \in {{}} : kind = "item"
      OBVIOUS
    <3>3. PICK u : u = RunHead(w, i, kind, told)
      OBVIOUS
    <3>4. Safe(u, clears)
      BY <1>1, <1>2, <3>1, <3>2, <3>3, RunHeadSafe
    <3> QED BY <2>3, <3>2, <3>3, <3>4
  <2>4. CASE Summary(q) # {} /\ Becomes(RunHead(w, i, "summary", Summary(q)))
    <3>1. PICK kind \in {"item", "summary"} : kind = "summary"
      OBVIOUS
    <3>2. PICK u, told : told = Summary(q) /\ u = RunHead(w, i, kind, told)
      OBVIOUS
    <3>3. Safe(u, clears)
      BY <1>1, <1>2, <1>7, <2>4, <3>1, <3>2, RunHeadSafe
    <3> QED BY <2>4, <3>1, <3>2, <3>3
  <2>5. CASE Becomes(Paused(w, i, "leaving"))
    <3>1. Safe(Paused(w, i, "leaving"), clears)
      BY <1>1, <1>2, PauseSafe
    <3> QED BY <2>5, <3>1
  <2> QED BY <1>8, <2>1, <2>2, <2>3, <2>4, <2>5
<1> QED BY <1>8, <1>9, StepSafe DEF IndInv

LEMMA FinallySafe ==
  ASSUME NEW w, NEW c \in Nat, Safe(w, c), NEW i \in Loops, Running(w, i),
         NEW u, u = Finally(w, i)
  PROVE  Safe(u, c)
<1>1. w \in Worlds /\ CountOK(w) /\ Good(w, c)
  BY DEF Safe
<1>2. \A j \in Loops : j # i /\ w.loop[j].pc = "running" => RunOK(w, c, j)
  BY DEF Safe, RunsOK
<1>3. /\ u \in Worlds /\ Good(u, c) /\ RunsOK(u, c)
      /\ u.fate = w.fate /\ u.created = w.created
  BY <1>1, <1>2, FinallyKeeps
<1> QED BY <1>1, <1>3 DEF Safe, CountOK

LEMMA CollectStep ==
  ASSUME IndInv, NEW i \in Loops, Collect(i)
  PROVE  IndInv'
<1>1. PICK w \in Worlds : w = World /\ Safe(w, clears) /\ clears \in Nat
  BY ClearsNat DEF IndInv, Safe
<1>2. w.loop[i].pc = "checked" /\ w.loop[i].pc # "running" /\ Running(w, i)
  BY <1>1, WorldFields DEF Collect, Running
<1>3. PICK o \in Objs : o = w.loop[i].obj
  BY <1>1, <1>2, LoopObject DEF Safe, Good
<1>4. PICK q \in QueueRec : q = w.queue[o]
  BY ItemsType
<1>5. PICK batch \in Seq(Msgs) : batch = q.items
  BY DEF QueueRec
<1>6. PICK told : told = Summary(q)
  OBVIOUS
<1>7. told \subseteq q.dropped /\ told \in SUBSET Msgs
  BY <1>6 DEF Summary, QueueRec
<1>8. PICK kind \in {"item", "collect", "summary"} : kind = "collect"
  OBVIOUS
<1>9. PICK u : u = Run(w, i, kind, batch, told)
  OBVIOUS
<1>10. Safe(u, clears)
  <2>1. /\ u \in Worlds /\ LoopMoved(u, w, i)
        /\ u.loop[i].pc = "running" /\ u.loop[i].kind = kind
        /\ u.loop[i].batch = batch /\ u.loop[i].told = told
    BY <1>7, <1>9, RunFacts
  <2>2. Taken(u, w, i)
    <3>1. batch = w.queue[o].items /\ Len(batch) \in Nat
      BY <1>4, <1>5
    <3>2. told \subseteq w.queue[o].dropped
      BY <1>4, <1>7
    <3>3. u.loop[i].obj = o
      BY <1>3, <2>1 DEF LoopMoved
    <3> QED BY <1>8, <2>1, <3>1, <3>2, <3>3 DEF Taken
  <2> QED BY <1>1, <1>2, <2>1, <2>2, TakenSafe
<1>11. /\ Becomes(u) \/ Becomes(Finally(w, i))
       /\ UNCHANGED <<clears, failures>>
  <2>1. queue[loop[i].obj] = q
    BY <1>1, <1>3, <1>4, WorldFields
  <2> QED BY <1>1, <1>5, <1>6, <1>8, <1>9, <2>1 DEF Collect
<1>12. Safe(Finally(w, i), clears)
  BY <1>1, <1>2, FinallySafe
<1> QED BY <1>10, <1>11, <1>12, StepSafe DEF IndInv

LEMMA LeaveStep ==
  ASSUME IndInv, NEW i \in Loops, Leave(i) \/ RunFails(i)
  PROVE  IndInv'
<1>1. PICK w \in Worlds : w = World /\ Safe(w, clears) /\ clears \in Nat
  BY ClearsNat DEF IndInv, Safe
<1>2. Running(w, i)
  BY <1>1, WorldFields DEF Leave, RunFails, Running
<1>3. PICK u : u = Finally(w, i)
  OBVIOUS
<1>4. Safe(u, clears)
  BY <1>1, <1>2, <1>3, FinallySafe
<1>5. Becomes(u) /\ clears' = clears
  BY <1>1, <1>3 DEF Leave, RunFails
<1>6. failures' \in 0 .. MaxFailures
  BY BoundsAssumption DEF IndInv, Leave, RunFails
<1> QED BY <1>4, <1>5, <1>6, StepSafe DEF IndInv

(* The run of the loop i ended well: its messages are answered and told of,  *)
(* and the items it took are gone from the front of its queue.               *)
Shifted(u, w, i) ==
  LET l == w.loop[i]
      k == Len(l.batch)
      items == w.queue[l.obj].items
      left == u.queue[l.obj].items
  IN /\ u.current = w.current /\ u.created = w.created /\ u.loop = w.loop
     /\ \A r \in Objs : u.queue[r].draining = w.queue[r].draining
     /\ \A r \in Objs : r # l.obj => u.queue[r] = w.queue[r]
     /\ u.queue[l.obj].dropped \subseteq w.queue[l.obj].dropped
     /\ \A p \in Positions(left) : p + k \in Positions(items) /\ left[p] = items[p + k]
     /\ \A p \in Positions(items) : p > k => p - k \in Positions(left) /\ left[p - k] = items[p]
     /\ \A m \in Msgs :
          \/ m \in l.told /\ u.fate[m] = "told"
          \/ /\ m \notin l.told /\ l.kind # "summary" /\ m \in Range(l.batch)
             /\ u.fate[m] = IF w.fate[m] \in {"dropped", "summarized"} THEN "late" ELSE "delivered"
          \/ /\ m \notin l.told /\ (l.kind = "summary" \/ m \notin Range(l.batch))
             /\ u.fate[m] = w.fate[m]

LEMMA ShiftedKeeps ==
  ASSUME NEW w, NEW c \in Nat, Safe(w, c), NEW i \in Loops, w.loop[i].pc = "running",
         NEW u \in Worlds, Shifted(u, w, i)
  PROVE  /\ CountOK(u) /\ Good(u, c)
         /\ \A j \in Loops : j # i /\ u.loop[j].pc = "running" => RunOK(u, c, j)
<1>1. w \in Worlds /\ CountOK(w) /\ Good(w, c) /\ RunsOK(w, c) /\ Running(w, i)
  BY DEF Safe, Running
<1>2. PICK l \in LoopRec : l = w.loop[i]
  BY <1>1, WorldFacts
<1>3. PICK o \in Objs : o = l.obj /\ o # None
  BY <1>1, <1>2, LoopObject DEF Good
<1>4. l.batch \in Seq(Msgs) /\ l.told \in SUBSET Msgs
  BY DEF LoopRec
<1>5. PICK k \in Nat : k = Len(l.batch)
  BY <1>4
<1>6. PICK items \in Seq(Msgs) : items = w.queue[o].items
  BY <1>1, ItemsType
<1>7. PICK left \in Seq(Msgs) : left = u.queue[o].items
  BY ItemsType
<1>8. /\ u.current = w.current /\ u.created = w.created /\ u.loop = w.loop
      /\ \A r \in Objs : u.queue[r].draining = w.queue[r].draining
      /\ \A r \in Objs : r # o => u.queue[r] = w.queue[r]
      /\ \A r \in Objs : u.queue[r].dropped \subseteq w.queue[r].dropped
  BY <1>2, <1>3 DEF Shifted
<1>9. /\ \A p \in Positions(left) : p + k \in Positions(items) /\ left[p] = items[p + k]
      /\ \A p \in Positions(items) : p > k => p - k \in Positions(left) /\ left[p - k] = items[p]
  BY <1>2, <1>3, <1>5, <1>6, <1>7 DEF Shifted
<1>10. \A m \in Msgs :
          \/ m \in l.told /\ u.fate[m] = "told"
          \/ /\ m \notin l.told /\ l.kind # "summary" /\ m \in Range(l.batch)
             /\ u.fate[m] = IF w.fate[m] \in {"dropped", "summarized"} THEN "late" ELSE "delivered"
          \/ /\ m \notin l.told /\ (l.kind = "summary" \/ m \notin Range(l.batch))
             /\ u.fate[m] = w.fate[m]
  BY <1>2 DEF Shifted
<1>11. RunOK(w, c, i)
  BY <1>1 DEF RunsOK
<1>12. /\ \A m \in l.told : w.fate[m] \in Gone
       /\ c = 0 => \A m \in l.told : w.fate[m] \in Over
       /\ l.kind = "summary" => l.told # {}
  BY <1>2, <1>11 DEF RunOK
<1>13. l.kind # "summary" => \A m \in Range(l.batch) :
         /\ w.fate[m] \in {"queued", "dropped", "summarized", "told", "cleared"}
         /\ c = 0 => w.fate[m] # "told"
         /\ \A r \in Objs : \A p \in Positions(w.queue[r].items) :
              w.queue[r].items[p] = m => r = o /\ p <= k
  BY <1>2, <1>3, <1>5, <1>11 DEF RunOK
(* The fates that count stay what they are. *)
<1>14. \A m \in Msgs : /\ w.fate[m] \notin Early => u.fate[m] \notin Early
                       /\ w.fate[m] \in Gone => u.fate[m] \in Gone
                       /\ c = 0 /\ w.fate[m] \in Over => u.fate[m] \in Over
  <2> TAKE m \in Msgs
  <2>1. CASE m \in l.told /\ u.fate[m] = "told"
    BY <2>1 DEF Early, Gone, Over
  <2>2. CASE /\ m \notin l.told /\ l.kind # "summary" /\ m \in Range(l.batch)
             /\ u.fate[m] = IF w.fate[m] \in {"dropped", "summarized"} THEN "late" ELSE "delivered"
    <3>1. w.fate[m] \in Over /\ c = 0 => w.fate[m] \in {"dropped", "summarized"}
      BY <1>13, <2>2 DEF Over
    <3> QED BY <2>2, <3>1 DEF Early, Gone, Over
  <2>3. CASE u.fate[m] = w.fate[m]
    BY <2>3
  <2> QED BY <1>10, <2>1, <2>2, <2>3
<1>15. CountOK(u)
  BY <1>1, <1>8, <1>14, CountKept
<1>16. LoopsOK(u, c)
  <2>1. \A j \in Loops : Running(w, j) => w.loop[j].obj \in Objs
    BY <1>1, LoopObject DEF Good
  <2>2. LoopsOK(w, c)
    BY <1>1 DEF Good
  <2> QED BY <1>8, <2>1, <2>2 DEF LoopsOK, Running
<1>17. \A r \in Objs : \A p \in Positions(w.queue[r].items) :
         /\ w.fate[w.queue[r].items[p]] = "queued"
         /\ \A q \in Objs : \A n \in Positions(w.queue[q].items) :
              w.queue[q].items[n] = w.queue[r].items[p] => q = r /\ n = p
  BY <1>1 DEF Good, ItemsOK
(* Where an item of u stood in w, and that it was not run. *)
<1>18. ASSUME NEW r \in Objs, NEW p \in Positions(u.queue[r].items)
       PROVE  \E n \in Positions(w.queue[r].items) :
                /\ w.queue[r].items[n] = u.queue[r].items[p]
                /\ n \in Nat /\ p \in Nat \ {0}
                /\ r = o => n = p + k
                /\ r # o => n = p
  <2>1. p \in Nat \ {0}
    BY <1>18, ItemsType DEF Positions
  <2>2. CASE r # o
    BY <1>8, <2>1, <2>2
  <2>3. CASE r = o
    <3>1. p + k \in Positions(items) /\ left[p] = items[p + k]
      BY <1>7, <1>9, <2>3
    <3>2. p + k \in Nat
      BY <2>1
    <3> QED BY <1>6, <1>7, <2>1, <2>3, <3>1, <3>2
  <2> QED BY <2>2, <2>3
<1>19. ASSUME NEW r \in Objs, NEW p \in Positions(u.queue[r].items)
       PROVE  u.fate[u.queue[r].items[p]] = "queued"
  <2>1. PICK n \in Positions(w.queue[r].items) :
                /\ w.queue[r].items[n] = u.queue[r].items[p]
                /\ n \in Nat /\ p \in Nat \ {0}
                /\ r = o => n = p + k
                /\ r # o => n = p
    BY <1>18
  <2>2. PICK m \in Msgs : m = u.queue[r].items[p]
    BY ItemsType
  <2>3. w.fate[m] = "queued"
    BY <1>17, <2>1, <2>2
  <2>4. m \notin l.told
    BY <1>12, <2>3 DEF Gone
  <2>5. l.kind # "summary" => m \notin Range(l.batch)
    <3> SUFFICES ASSUME l.kind # "summary", m \in Range(l.batch) PROVE FALSE
      OBVIOUS
    <3>1. r = o /\ n <= k
      BY <1>13, <2>1, <2>2
    <3> QED BY <2>1, <3>1
  <2> QED BY <1>10, <2>2, <2>3, <2>4, <2>5
<1>20. ItemsOK(u)
  <2>1. ASSUME NEW r \in Objs, NEW p \in Positions(u.queue[r].items),
               NEW q \in Objs, NEW n \in Positions(u.queue[q].items),
               u.queue[q].items[n] = u.queue[r].items[p]
        PROVE  q = r /\ n = p
    <3>1. PICK p1 \in Positions(w.queue[r].items) :
                /\ w.queue[r].items[p1] = u.queue[r].items[p]
                /\ p1 \in Nat /\ p \in Nat \ {0}
                /\ r = o => p1 = p + k
                /\ r # o => p1 = p
      BY <1>18
    <3>2. PICK n1 \in Positions(w.queue[q].items) :
                /\ w.queue[q].items[n1] = u.queue[q].items[n]
                /\ n1 \in Nat /\ n \in Nat \ {0}
                /\ q = o => n1 = n + k
                /\ q # o => n1 = n
      BY <1>18
    <3>3. w.queue[q].items[n1] = w.queue[r].items[p1]
      BY <2>1, <3>1, <3>2
    <3>4. q = r /\ n1 = p1
      BY <1>17, <3>1, <3>2, <3>3
    <3> QED BY <3>1, <3>2, <3>4
  <2>2. ASSUME NEW r \in Objs, NEW m \in u.queue[r].dropped
        PROVE  u.fate[m] \in Gone
    <3>1. m \in Msgs
      BY <2>2, ItemsType
    <3>2. w.fate[m] \in Gone
      BY <1>1, <1>8, <2>2 DEF Good, ItemsOK
    <3> QED BY <1>14, <3>1, <3>2
  <2> QED BY <1>19, <2>1, <2>2 DEF ItemsOK
(* Before the first clear no other loop runs. *)
<1>21. c = 0 => w.current = o /\ \A j \in Loops : Running(w, j) => j = i
  <2>1. c = 0 => \A j \in Loops : Running(w, j) => w.loop[j].obj = w.current
    BY <1>1 DEF Good, LoopsOK
  <2>2. \A j \in Loops : Running(w, j) /\ w.loop[j].obj = w.loop[i].obj => j = i
    BY <1>1 DEF Good, LoopsOK
  <2> QED BY <1>1, <1>2, <1>3, <2>1, <2>2
<1>22. KeptOK(u, c)
  <2> SUFFICES ASSUME c = 0 PROVE KeptOK(u, c)
    BY DEF KeptOK
  <2>1. ASSUME NEW r \in Objs, NEW m \in u.queue[r].dropped
        PROVE  u.fate[m] \in Over
    <3>1. m \in Msgs
      BY <2>1, ItemsType
    <3>2. w.fate[m] \in Over
      BY <1>1, <1>8, <2>1 DEF Good, KeptOK
    <3> QED BY <1>14, <3>1, <3>2
  <2>2. ASSUME ~Overflow(u), NEW m \in Msgs, u.fate[m] = "queued"
        PROVE  u.current # None /\ m \in Range(u.queue[u.current].items)
    <3>1. ~Overflow(w)
      BY <1>14, <2>2 DEF Overflow
    <3>2. l.told = {} /\ l.kind # "summary"
      <4>1. \A n \in l.told : n \in Msgs /\ w.fate[n] \in Over
        BY <1>4, <1>12
      <4>2. l.told = {}
        BY <3>1, <4>1 DEF Overflow
      <4> QED BY <1>12, <4>2
    <3>3. m \notin Range(l.batch) /\ w.fate[m] = "queued"
      BY <1>10, <2>2, <3>2
    <3>4. m \in Range(items)
      BY <1>1, <1>6, <1>21, <3>1, <3>3 DEF Good, KeptOK
    <3>5. PICK p \in Positions(items) : items[p] = m
      BY <3>4, RangeOf
    <3>6. \A n \in Positions(l.batch) : items[n] = l.batch[n]
      BY <1>2, <1>3, <1>6, <1>11, <3>1, <3>2 DEF RunOK
    <3>7. p > k
      <4>1. p \notin Positions(l.batch)
        BY <1>4, <3>3, <3>5, <3>6, RangeOf
      <4>2. p \in 1 .. Len(items) /\ Len(items) \in Nat /\ p \notin 1 .. k
        BY <1>5, <3>5, <4>1 DEF Positions
      <4> QED BY <4>2
    <3>8. p - k \in Positions(left) /\ left[p - k] = m
      BY <1>9, <3>5, <3>7
    <3>9. m \in Range(left)
      BY <3>8, RangeOf
    <3> QED BY <1>3, <1>7, <1>8, <1>21, <3>9
  <2> QED BY <2>1, <2>2 DEF KeptOK
<1>23. ASSUME NEW j \in Loops, j # i, u.loop[j].pc = "running"
       PROVE  RunOK(u, c, j)
  <2>1. PICK b \in LoopRec : b = w.loop[j]
    BY <1>1, WorldFacts
  <2>2. b = u.loop[j] /\ RunOK(w, c, j) /\ c # 0
    BY <1>1, <1>8, <1>21, <1>23, <2>1 DEF RunsOK, Running
  <2>3. b.told \in SUBSET Msgs /\ b.batch \in Seq(Msgs) /\ Len(b.batch) \in Nat
    BY DEF LoopRec
  <2>4. /\ \A m \in b.told : u.fate[m] \in Gone
        /\ b.kind = "summary" => b.told # {}
    <3>1. /\ \A m \in b.told : w.fate[m] \in Gone
          /\ b.kind = "summary" => b.told # {}
      BY <2>1, <2>2 DEF RunOK
    <3> QED BY <1>14, <2>3, <3>1
  <2>5. ASSUME b.kind # "summary", NEW m \in Range(b.batch)
        PROVE  /\ u.fate[m] \in {"queued", "dropped", "summarized", "told", "cleared"}
               /\ \A r \in Objs : \A p \in Positions(u.queue[r].items) :
                    u.queue[r].items[p] = m => r = b.obj /\ p <= Len(b.batch)
               /\ \A q \in Loops :
                    u.loop[q].pc = "running" /\ u.loop[q].kind # "summary"
                    /\ m \in Range(u.loop[q].batch) => q = j
    <3>1. /\ w.fate[m] \in {"queued", "dropped", "summarized", "told", "cleared"}
          /\ \A r \in Objs : \A p \in Positions(w.queue[r].items) :
               w.queue[r].items[p] = m => r = b.obj /\ p <= Len(b.batch)
          /\ \A q \in Loops :
               w.loop[q].pc = "running" /\ w.loop[q].kind # "summary"
               /\ m \in Range(w.loop[q].batch) => q = j
      BY <2>1, <2>2, <2>5 DEF RunOK
    <3>2. m \in Msgs
      BY <2>3, <2>5, RangeOf DEF Positions
    <3>3. l.kind # "summary" => m \notin Range(l.batch)
      BY <1>2, <1>23, <3>1
    <3>4. u.fate[m] \in {"queued", "dropped", "summarized", "told", "cleared"}
      BY <1>10, <3>1, <3>2, <3>3
    <3>5. ASSUME NEW r \in Objs, NEW p \in Positions(u.queue[r].items), u.queue[r].items[p] = m
          PROVE  r = b.obj /\ p <= Len(b.batch)
      <4>1. PICK n \in Positions(w.queue[r].items) :
                /\ w.queue[r].items[n] = u.queue[r].items[p]
                /\ n \in Nat /\ p \in Nat \ {0}
                /\ r = o => n = p + k
                /\ r # o => n = p
        BY <1>18
      <4>2. r = b.obj /\ n <= Len(b.batch)
        BY <3>1, <3>5, <4>1
      <4> QED BY <2>3, <4>1, <4>2
    <3> QED BY <1>8, <3>1, <3>4, <3>5
  <2> QED BY <2>2, <2>4, <2>5 DEF RunOK
<1> QED BY <1>15, <1>16, <1>20, <1>22, <1>23 DEF Good

(* The fates after the turn of a loop l was answered, and its summary told.  *)
AnsweredFate(l, m, f) ==
  IF m \in l.told THEN "told"
  ELSE IF l.kind = "summary" \/ m \notin Range(l.batch) THEN f
  ELSE IF f \in {"dropped", "summarized"} THEN "late" ELSE "delivered"

Told(w, l) == SetFate(IF l.kind = "summary" THEN w ELSE Answered(w, l.batch), l.told, "told")

LEMMA ToldFacts ==
  ASSUME NEW w \in Worlds, NEW l \in LoopRec, NEW u, u = Told(w, l)
  PROVE  /\ u \in Worlds /\ u.queue = w.queue /\ u.loop = w.loop
         /\ u.current = w.current /\ u.created = w.created
         /\ \A m \in Msgs : u.fate[m] = AnsweredFate(l, m, w.fate[m])
<1>1. PICK v : v = IF l.kind = "summary" THEN w ELSE Answered(w, l.batch)
  OBVIOUS
<1>2. l.told \in SUBSET Msgs
  BY DEF LoopRec
<1>3. /\ v \in Worlds /\ v.queue = w.queue /\ v.loop = w.loop
      /\ v.current = w.current /\ v.created = w.created
      /\ \A m \in Msgs : v.fate[m] = IF l.kind = "summary" \/ m \notin Range(l.batch) THEN w.fate[m]
                                     ELSE IF w.fate[m] \in {"dropped", "summarized"} THEN "late"
                                     ELSE "delivered"
  <2>1. CASE l.kind = "summary"
    <3>1. v = w
      BY <1>1, <2>1
    <3> QED BY <2>1, <3>1
  <2>2. CASE l.kind # "summary"
    <3>1. PICK F : F = [m \in Msgs |-> IF m \notin Range(l.batch) THEN w.fate[m]
                                       ELSE IF w.fate[m] \in {"dropped", "summarized"} THEN "late"
                                       ELSE "delivered"]
      OBVIOUS
    <3>2. F \in [Msgs -> Fates]
      BY <3>1, WorldFacts DEF Fates
    <3>3. v = [w EXCEPT !.fate = F]
      BY <1>1, <2>2, <3>1 DEF Answered
    <3>4. /\ v \in Worlds /\ v.queue = w.queue /\ v.loop = w.loop /\ v.fate = F
          /\ v.current = w.current /\ v.created = w.created
      BY <3>2, <3>3 DEF Worlds
    <3> QED BY <2>2, <3>1, <3>4
  <2> QED BY <2>1, <2>2
<1>4. PICK S \in SUBSET Msgs : S = l.told
  BY <1>2
<1>5. PICK f \in Fates : f = "told"
  BY DEF Fates
<1>6. u = SetFate(v, S, f)
  BY <1>1, <1>4, <1>5 DEF Told
<1>7. u \in Worlds /\ Fated(u, v, S, f)
  <2>1. v \in Worlds
    BY <1>3
  <2> QED BY <1>6, <2>1, SetFateFacts
<1>8. \A m \in Msgs : u.fate[m] = IF m \in S THEN f ELSE v.fate[m]
  BY <1>7 DEF Fated
<1>9. \A m \in Msgs : u.fate[m] = AnsweredFate(l, m, w.fate[m])
  BY <1>3, <1>4, <1>5, <1>8 DEF AnsweredFate
<1> QED BY <1>3, <1>7, <1>9 DEF Fated

(* The items that are left when the first k are removed.                     *)
Removed(left, s, k) ==
  /\ \A p \in Positions(left) : p + k \in Positions(s) /\ left[p] = s[p + k]
  /\ \A p \in Positions(s) : p > k => p - k \in Positions(left) /\ left[p - k] = s[p]

LEMMA LeftFacts ==
  ASSUME NEW s \in Seq(Msgs), NEW k \in Nat, NEW left, left = SubSeq(s, k + 1, Len(s))
  PROVE  left \in Seq(Msgs) /\ Removed(left, s, k)
<1>1. Len(s) \in Nat
  OBVIOUS
<1>2. CASE k <= Len(s)
  <2>1. /\ k + 1 \in 1 .. Len(s) + 1
        /\ Len(s) \in k + 1 - 1 .. Len(s)
    BY <1>1, <1>2
  <2>2. /\ left \in Seq(Msgs) /\ Len(left) = Len(s) - k
        /\ \A p \in 1 .. Len(s) - k : left[p] = s[p + k]
    BY <1>1, <2>1, SubSeqProperties
  <2>3. \A p \in Positions(left) : p + k \in Positions(s) /\ left[p] = s[p + k]
    BY <1>1, <1>2, <2>2 DEF Positions
  <2>4. ASSUME NEW p \in Positions(s), p > k
        PROVE  p - k \in Positions(left) /\ left[p - k] = s[p]
    <3>1. p - k \in 1 .. Len(s) - k /\ (p - k) + k = p
      BY <1>1, <2>4 DEF Positions
    <3> QED BY <2>2, <3>1 DEF Positions
  <2> QED BY <2>2, <2>3, <2>4 DEF Removed
<1>3. CASE k > Len(s)
  <2>1. left = <<>>
    BY <1>1, <1>3
  <2>2. Positions(left) = {}
    BY <2>1, NoMessages DEF Positions
  <2>3. \A p \in Positions(s) : ~(p > k)
    BY <1>1, <1>3 DEF Positions
  <2> QED BY <2>1, <2>2, <2>3, NoMessages DEF Removed
<1>4. k <= Len(s) \/ k > Len(s)
  BY <1>1
<1> QED BY <1>2, <1>3, <1>4

LEMMA RunSucceedsStep ==
  ASSUME IndInv, NEW i \in Loops, RunSucceeds(i)
  PROVE  IndInv'
<1>1. PICK w \in Worlds : w = World /\ Safe(w, clears) /\ clears \in Nat
  BY ClearsNat DEF IndInv, Safe
<1>2. w.loop[i].pc = "running" /\ Running(w, i)
  BY <1>1, WorldFields DEF RunSucceeds, Running
<1>3. PICK l \in LoopRec : l = w.loop[i]
  BY WorldFacts
<1>4. PICK o \in Objs : o = l.obj
  BY <1>1, <1>2, <1>3, LoopObject DEF Safe, Good
<1>5. PICK q \in QueueRec : q = w.queue[o]
  BY ItemsType
<1>6. PICK k \in Nat : k = Len(l.batch)
  BY DEF LoopRec
<1>7. q.items \in Seq(Msgs) /\ q.dropped \in SUBSET Msgs
  BY DEF QueueRec
<1>8. PICK left : left = SubSeq(q.items, k + 1, Len(q.items))
  OBVIOUS
<1>9. /\ left \in Seq(Msgs)
      /\ \A p \in Positions(left) : p + k \in Positions(q.items) /\ left[p] = q.items[p + k]
      /\ \A p \in Positions(q.items) : p > k =>
           p - k \in Positions(left) /\ left[p - k] = q.items[p]
  <2>1. PICK s \in Seq(Msgs) : s = q.items
    BY <1>7
  <2>2. left = SubSeq(s, k + 1, Len(s))
    BY <1>8, <2>1
  <2>3. left \in Seq(Msgs) /\ Removed(left, s, k)
    BY <2>2, LeftFacts
  <2> QED BY <2>1, <2>3 DEF Removed
<1>10. PICK v : v = Told(w, l)
  OBVIOUS
<1>11. /\ v \in Worlds /\ v.queue = w.queue /\ v.loop = w.loop
       /\ v.current = w.current /\ v.created = w.created
       /\ \A m \in Msgs : v.fate[m] = AnsweredFate(l, m, w.fate[m])
  BY <1>10, ToldFacts
<1>12. PICK d \in SUBSET Msgs : d = IF l.told = {} THEN q.dropped ELSE {}
  BY <1>7
<1>13. PICK r : r = [q EXCEPT !.items = left, !.dropped = d]
  OBVIOUS
<1>14. r \in QueueRec /\ r.items = left /\ r.dropped = d /\ r.draining = q.draining
  BY <1>9, <1>13 DEF QueueRec
<1>15. PICK Q \in [Objs -> QueueRec] : Q = [w.queue EXCEPT ![o] = r]
  BY <1>14, WorldFacts
<1>16. PICK u : u = [v EXCEPT !.queue = Q]
  OBVIOUS
<1>17. /\ u \in Worlds /\ u.queue = Q /\ u.loop = w.loop /\ u.fate = v.fate
       /\ u.current = w.current /\ u.created = w.created
  BY <1>11, <1>16 DEF Worlds
<1>18. Q[o] = r /\ \A n \in Objs : n # o => Q[n] = w.queue[n]
  BY <1>15, WorldFacts
<1>19. Shifted(u, w, i)
  <2>1. \A n \in Objs : u.queue[n].draining = w.queue[n].draining
    BY <1>5, <1>14, <1>17, <1>18
  <2>2. u.queue[o].dropped \subseteq w.queue[o].dropped
    BY <1>5, <1>12, <1>14, <1>17, <1>18
  <2>3. u.queue[o].items = left /\ w.queue[o].items = q.items
    BY <1>5, <1>14, <1>17, <1>18
  <2>4. \A n \in Objs : n # o => u.queue[n] = w.queue[n]
    BY <1>17, <1>18
  <2>5. \A m \in Msgs :
          \/ m \in l.told /\ u.fate[m] = "told"
          \/ /\ m \notin l.told /\ l.kind # "summary" /\ m \in Range(l.batch)
             /\ u.fate[m] = IF w.fate[m] \in {"dropped", "summarized"} THEN "late" ELSE "delivered"
          \/ /\ m \notin l.told /\ (l.kind = "summary" \/ m \notin Range(l.batch))
             /\ u.fate[m] = w.fate[m]
    BY <1>11, <1>17 DEF AnsweredFate
  <2> QED BY <1>3, <1>4, <1>6, <1>9, <1>17, <2>1, <2>2, <2>3, <2>4, <2>5 DEF Shifted
<1>20. /\ CountOK(u) /\ Good(u, clears)
       /\ \A j \in Loops : j # i /\ u.loop[j].pc = "running" => RunOK(u, clears, j)
  BY <1>1, <1>2, <1>17, <1>19, ShiftedKeeps
<1>21. PICK x : x = Again(u, i)
  OBVIOUS
<1>22. Running(u, i)
  BY <1>2, <1>17 DEF Running
<1>23. /\ x \in Worlds /\ Good(x, clears) /\ RunsOK(x, clears)
       /\ x.fate = u.fate /\ x.created = u.created
  BY <1>1, <1>17, <1>20, <1>21, <1>22, AgainKeeps
<1>24. Safe(x, clears)
  BY <1>20, <1>23 DEF Safe, CountOK
<1>25. Becomes(x)
  <2>1. l = loop[i] /\ q = queue[l.obj]
    BY <1>1, <1>3, <1>4, <1>5, WorldFields
  <2>2. u = [v EXCEPT !.queue[l.obj].items = left,
                      !.queue[l.obj].dropped = IF l.told = {} THEN @ ELSE {}]
    <3>1. v.queue = w.queue /\ v.queue[o] = q
      BY <1>5, <1>11
    <3>2. r = [q EXCEPT !.items = left, !.dropped = IF l.told = {} THEN q.dropped ELSE {}]
      BY <1>12, <1>13
    <3> QED BY <1>4, <1>15, <1>16, <3>1, <3>2
  <2> QED BY <1>1, <1>6, <1>8, <1>10, <1>21, <2>1, <2>2 DEF RunSucceeds, Told
<1> QED BY <1>24, <1>25, StepSafe DEF IndInv, RunSucceeds

-----------------------------------------------------------------------------
(* The theorems *)

LEMMA InitInv == ASSUME Init PROVE IndInv
<1>1. PICK s : s = [mode |-> "collect", cap |-> 20, drop |-> "summarize"]
  OBVIOUS
<1>2. FreshQueue(s) \in QueueRec /\ FreshQueue(s).items = <<>> /\ FreshQueue(s).dropped = {}
  BY <1>1, NoMessages DEF FreshQueue, QueueRec, Modes, Policies
<1>3. IdleLoop \in LoopRec /\ IdleLoop.pc = "idle"
  BY NoMessages DEF IdleLoop, LoopRec
<1>4. /\ World.queue = [o \in Objs |-> FreshQueue(s)] /\ World.current = None
      /\ World.created = 0 /\ World.callback = FALSE
      /\ World.loop = [i \in Loops |-> IdleLoop] /\ World.fate = [m \in Msgs |-> "new"]
  BY <1>1, WorldFields DEF Init
<1>5. World \in Worlds
  <2>1. /\ World.queue \in [Objs -> QueueRec] /\ World.loop \in [Loops -> LoopRec]
        /\ World.fate \in [Msgs -> Fates] /\ World.current \in Objs \cup {None}
        /\ World.created \in 0 .. Cardinality(Msgs) /\ World.callback \in BOOLEAN
    <3>1. World.queue \in [Objs -> QueueRec]
      BY <1>2, <1>4
    <3>2. World.loop \in [Loops -> LoopRec]
      BY <1>3, <1>4
    <3>3. World.fate \in [Msgs -> Fates]
      BY <1>4 DEF Fates
    <3>4. World.current \in Objs \cup {None} /\ World.callback \in BOOLEAN
      BY <1>4
    <3>5. World.created \in 0 .. Cardinality(Msgs)
      BY <1>4, CountType
    <3> QED BY <3>1, <3>2, <3>3, <3>4, <3>5
  <2>2. World = [queue |-> World.queue, current |-> World.current, created |-> World.created,
                 callback |-> World.callback, loop |-> World.loop, fate |-> World.fate]
    BY DEF World
  <2> QED BY <2>1, <2>2 DEF Worlds
<1>6. PICK w \in Worlds : w = World
  BY <1>5
<1>7. CountOK(w)
  <2>1. IsFiniteSet({m \in Msgs : w.fate[m] \notin Early})
    BY MsgsAssumption, FS_Subset
  <2>2. Cardinality({m \in Msgs : w.fate[m] \notin Early}) \in Nat
    BY <2>1, FS_CardinalityType
  <2> QED BY <1>4, <1>6, <2>2 DEF CountOK
<1>8. \A i \in Loops : ~Running(w, i)
  BY <1>3, <1>4, <1>6 DEF Running
<1>9. LoopsOK(w, 0) /\ RunsOK(w, 0)
  BY <1>4, <1>6, <1>8 DEF LoopsOK, RunsOK, Running, None
<1>10. \A o \in Objs : Positions(w.queue[o].items) = {} /\ w.queue[o].dropped = {}
  BY <1>2, <1>4, <1>6, NoMessages DEF Positions
<1>11. ItemsOK(w)
  BY <1>10 DEF ItemsOK
<1>12. KeptOK(w, 0)
  BY <1>4, <1>6, <1>10 DEF KeptOK
<1>13. clears = 0 /\ failures = 0
  BY DEF Init
<1> QED BY <1>6, <1>7, <1>9, <1>11, <1>12, <1>13, BoundsAssumption DEF IndInv, Safe, Good

LEMMA StepInv == ASSUME IndInv, [Next]_vars PROVE IndInv'
<1>1. ASSUME NEW m \in Msgs, ArriveRuns(m) PROVE IndInv'
  <2>1. PICK f \in {"turn", "routed"} : f = "turn"
    OBVIOUS
  <2> QED BY <1>1, <2>1, ArriveStep DEF ArriveRuns
<1>2. ASSUME NEW m \in Msgs, ArriveQueues(m) PROVE IndInv'
  <2>1. PICK f \in {"turn", "routed"} : f = "routed"
    OBVIOUS
  <2> QED BY <1>2, <2>1, ArriveStep DEF ArriveQueues
<1>3. ASSUME NEW m \in Msgs, TurnEnds(m) PROVE IndInv'
  BY <1>3, TurnEndsStep
<1>4. ASSUME NEW m \in Msgs, NEW s \in Settings, Enqueue(m, s) PROVE IndInv'
  BY <1>4, EnqueueStep
<1>5. CASE Clear
  BY <1>5, ClearStep
<1>6. ASSUME NEW i \in Loops, LoopStep(i) \/ RunFails(i) PROVE IndInv'
  BY <1>6, WakeStep, CollectStep, LeaveStep, RunSucceedsStep DEF LoopStep
<1>7. CASE UNCHANGED vars
  BY <1>7 DEF vars, IndInv, World
<1> QED BY <1>1, <1>2, <1>3, <1>4, <1>5, <1>6, <1>7 DEF Next

(* The inductive invariant holds of every reachable state.                   *)
THEOREM Invariance == Spec => []IndInv
<1>1. Init => IndInv
  BY InitInv
<1>2. IndInv /\ [Next]_vars => IndInv'
  BY StepInv
<1> QED BY <1>1, <1>2, PTL DEF Spec

(* The variables have their types; a loop's queue is marked as drained, and  *)
(* until sessions are cleared no two loops drain queues of one key           *)
(* (scheduleFollowupDrain).                                                  *)
THEOREM TypeCorrect == Spec => []TypeOK
<1>1. IndInv => TypeOK
  <2> SUFFICES ASSUME IndInv PROVE TypeOK
    OBVIOUS
  <2>1. World \in Worlds /\ LoopsOK(World, clears) /\ clears \in Nat
    BY ClearsNat DEF IndInv, Safe, Good
  <2>2. /\ queue \in [Objs -> QueueRec] /\ loop \in [Loops -> LoopRec]
        /\ fate \in [Msgs -> Fates] /\ current \in Objs \cup {None}
        /\ created \in 0 .. Cardinality(Msgs) /\ callback \in BOOLEAN
    BY <2>1, WorldFacts, WorldFields
  <2>3. \A i \in Loops : loop[i].pc # "idle" => queue[loop[i].obj].draining
    BY <2>1, WorldFields DEF LoopsOK, Running
  <2>4. clears = 0 => Cardinality({i \in Loops : loop[i].pc # "idle"}) <= 1
    <3> SUFFICES ASSUME clears = 0
                 PROVE  Cardinality({i \in Loops : loop[i].pc # "idle"}) <= 1
      OBVIOUS
    <3>1. PICK S : S = {i \in Loops : loop[i].pc # "idle"}
      OBVIOUS
    <3>2. \A i \in S : World.loop[i].obj = World.current
      BY <2>1, <3>1, WorldFields DEF LoopsOK, Running
    <3>3. \A i, j \in S : i = j
      BY <2>1, <3>1, <3>2, WorldFields DEF LoopsOK, Running
    <3>4. Cardinality(S) <= 1
      <4>1. CASE S = {}
        BY <4>1, FS_EmptySet
      <4>2. CASE S # {}
        <5>1. PICK i \in S : S = {i}
          BY <3>3, <4>2
        <5>2. Cardinality({i}) = 1
          BY FS_Singleton
        <5> QED BY <5>1, <5>2
      <4> QED BY <4>1, <4>2
    <3> QED BY <3>1, <3>4
  <2> QED BY <2>2, <2>3, <2>4 DEF TypeOK, IndInv, QueueRec, LoopRec, Modes, Policies
<1> QED BY <1>1, Invariance, PTL

(* A message that a completed turn carried is not run again, whatever is     *)
(* dropped, cleared, redelivered or retried meanwhile.                       *)
THEOREM RunOnce == Spec => []DeliveredOnce
<1>1. IndInv => DeliveredOnce
  BY WorldFields DEF IndInv, Safe, RunsOK, RunOK, DeliveredOnce
<1> QED BY <1>1, Invariance, PTL

(* Until the cap drops something or a session is cleared, a queued message   *)
(* is in the queue its key leads to.                                         *)
THEOREM NoneLost == Spec => []NothingLostWithinCap
<1>1. IndInv => NothingLostWithinCap
  <2> SUFFICES ASSUME IndInv, ~Overflowed, clears = 0, NEW m \in Msgs, fate[m] = "queued"
               PROVE  \E o \in Objs : Live(o) /\ m \in Range(queue[o].items)
    BY DEF NothingLostWithinCap, NothingLost
  <2>1. World \in Worlds /\ KeptOK(World, 0)
    BY DEF IndInv, Safe, Good
  <2>2. ~Overflow(World)
    BY WorldFields DEF Overflow, Overflowed, Over
  <2>3. current # None /\ m \in Range(queue[current].items)
    BY <2>1, <2>2, WorldFields DEF KeptOK
  <2>4. current \in Objs
    BY <2>1, <2>3, WorldFacts, WorldFields
  <2> QED BY <2>3, <2>4 DEF Live
<1> QED BY <1>1, Invariance, PTL
=============================================================================
