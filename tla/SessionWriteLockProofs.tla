----------------------- MODULE SessionWriteLockProofs -----------------------
(* Theorems about SessionWriteLock for any callers and processes, however    *)
(* often callers try and whatever dies, expires or is taken away.            *)
EXTENDS SessionWriteLock, FiniteSetTheorems, TLAPS

(* Between the creation of the lock file and its entry in HELD_LOCKS.        *)
AtWork == {"writing", "publishing", "discarding"}

(* Where a caller that published an entry can be.                            *)
Creator == {"holding", "unlinking", "done"}

Holders(h) == {c \in Callers : pc[c] = "holding" /\ entry[c] = h}

Types ==
  /\ alive \subseteq Procs /\ evicting \subseteq alive
  /\ file \in OrNobody /\ written \subseteq Callers /\ old \subseteq Callers
  /\ held \in [Procs -> OrNobody] /\ count \in [Callers -> Nat]
  /\ pc \in [Callers -> Steps] /\ entry \in [Callers -> OrNobody]
  /\ seen \in [Callers -> OrNobody] /\ tries \in [Callers -> 0 .. MaxTries]
  /\ sweep \in {"idle", "reading", "removing", "done"} /\ mishaps \in 0 .. MaxMishaps + 1
  /\ sweep # "done" => mishaps <= MaxMishaps
  /\ unremoved \subseteq Callers

(* An entry of HELD_LOCKS belongs to its process, was published by its       *)
(* creator, and counts its holders.                                          *)
EntryCounted ==
  \A p \in Procs : held[p] # NoCaller =>
    /\ ProcOf[held[p]] = p /\ p \in alive /\ pc[held[p]] \in Creator
    /\ count[held[p]] >= 1
    /\ count[held[p]] = Cardinality(Holders(held[p]))

(* A holder will release an entry that a caller of its process published.    *)
HoldersHaveEntries ==
  \A c \in Callers : pc[c] = "holding" =>
    entry[c] \in Callers /\ ProcOf[entry[c]] = ProcOf[c] /\ pc[entry[c]] \in Creator

(* No caller of a process that died goes on.                                 *)
DeadAreDone == \A c \in Callers : ProcOf[c] \notin alive => pc[c] = "done"

(* NoLeakedLock with the process of the removal: one by another process      *)
(* would be forgotten when that process dies.                                *)
RemovedByItsProcess ==
  file # NoCaller /\ file \notin unremoved /\ ProcOf[file] \in alive =>
    \/ pc[file] \in AtWork
    \/ held[ProcOf[file]] # NoCaller
    \/ ProcOf[file] \in evicting
    \/ \E c \in Callers : ProcOf[c] = ProcOf[file] /\ pc[c] = "unlinking"

(* The inductive invariant.  That an entry counts its holders is inductive   *)
(* only together with where the creators of entries and the processes of the *)
(* holders are: a caller that publishes must not find holders of its entry.  *)
IndInv == Types /\ EntryCounted /\ HoldersHaveEntries /\ DeadAreDone /\ RemovedByItsProcess

-----------------------------------------------------------------------------
(* Each step keeps the types. *)
LEMMA CallerTypes ==
  ASSUME Types, NEW c \in Callers, Acquiring(c) \/ Unlink(c)
  PROVE  Types'
<1> USE ProcsAssumption, CallersAssumption, BoundsAssumption
<1> USE DEF Types, Go, OrNobody, Steps, history
<1>1. CASE Begin(c)
  <2>1. ProcOf[c] \in Procs /\ held[ProcOf[c]] \in OrNobody
    OBVIOUS
  <2>2. CASE c \in Reentrant /\ held[ProcOf[c]] # NoCaller
    BY <1>1, <2>1, <2>2 DEF Begin, Share
  <2>3. CASE ~(c \in Reentrant /\ held[ProcOf[c]] # NoCaller)
    BY <1>1, <2>3 DEF Begin
  <2> QED BY <2>2, <2>3
<1>2. CASE Open(c)
  <2>1. tries' \in [Callers -> 0 .. MaxTries]
    BY <1>2 DEF Open
  <2> QED BY <1>2, <2>1 DEF Open
<1>3. CASE TimesOut(c) BY <1>3 DEF TimesOut
<1>4. CASE WritePayload(c) BY <1>4 DEF WritePayload
<1>5. CASE WriteFails(c) BY <1>5 DEF WriteFails
<1>6. CASE Discard(c) BY <1>6 DEF Discard, Removes, Mishap
<1>7. CASE Publish(c) BY <1>7 DEF Publish
<1>8. CASE ReadPayload(c) BY <1>8 DEF ReadPayload, Payload
<1>9. CASE Decide(c)
  <2>1. Verdict(c) \in Steps
    BY DEF Verdict
  <2> QED BY <1>9, <2>1 DEF Decide
<1>10. CASE Stat(c) BY <1>10 DEF Stat, Mishap
<1>11. CASE Reclaim(c) BY <1>11 DEF Reclaim
<1>12. CASE Unlink(c) BY <1>12 DEF Unlink, Removes, Mishap
<1> QED BY <1>1, <1>2, <1>3, <1>4, <1>5, <1>6, <1>7, <1>8, <1>9, <1>10, <1>11, <1>12
        DEF Acquiring

LEMMA ReleaseTypes ==
  ASSUME Types, EntryCounted, NEW c \in Callers, Release(c)
  PROVE  Types'
<1> USE ProcsAssumption, CallersAssumption
<1>1. ProcOf[c] \in Procs /\ held[ProcOf[c]] \in OrNobody /\ entry[c] \in OrNobody
  BY DEF Types
<1>2. /\ pc' \in [Callers -> Steps] /\ entry' \in [Callers -> OrNobody]
      /\ held' \in [Procs -> OrNobody]
  BY <1>1 DEF Types, Release, Go, Steps, OrNobody, history
<1>3. CASE held[ProcOf[c]] # entry[c]
  BY <1>2, <1>3 DEF Types, Release, history
<1>4. CASE held[ProcOf[c]] = entry[c]
  <2>1. count' = [count EXCEPT ![entry[c]] = @ - 1]
    BY <1>4 DEF Release
  <2>2. entry[c] \in Callers => count[entry[c]] >= 1
    BY <1>1, <1>4 DEF EntryCounted
  <2>3. ASSUME NEW d \in Callers PROVE count'[d] \in Nat
    <3>1. CASE d = entry[c]
      BY <2>1, <2>2, <3>1 DEF Types
    <3>2. CASE d # entry[c]
      BY <2>1, <3>2 DEF Types
    <3> QED BY <3>1, <3>2
  <2>4. count' \in [Callers -> Nat]
    BY <2>1, <2>3 DEF Types
  <2> QED BY <1>2, <2>4 DEF Types, Release, history
<1> QED BY <1>3, <1>4

LEMMA MishapTypes ==
  ASSUME Types,
         \/ \E p \in Procs : Evict(p) \/ EvictUnlinks(p) \/ Signal(p) \/ Exit(p) \/ Crash(p)
         \/ GrowsOld \/ SweepLists \/ SweepReads \/ SweepRemoves
  PROVE  Types'
<1> USE CallersAssumption, BoundsAssumption
<1> USE DEF Types, OrNobody, Mishap, Removes, history
<1>1. ASSUME NEW p \in Procs, Evict(p) PROVE Types'
  BY <1>1 DEF Evict
<1>2. ASSUME NEW p \in Procs, EvictUnlinks(p) PROVE Types'
  BY <1>2 DEF EvictUnlinks
<1>3. ASSUME NEW p \in Procs, Signal(p) PROVE Types'
  BY <1>3 DEF Signal, DropAll
<1>4. ASSUME NEW p \in Procs, Gone(p)
      PROVE  /\ pc' \in [Callers -> Steps] /\ alive' \subseteq Procs /\ evicting' \subseteq alive'
             /\ mishaps' \in 0 .. MaxMishaps /\ mishaps \in 0 .. MaxMishaps
  BY <1>4 DEF Gone, Steps
<1>5. ASSUME NEW p \in Procs, Exit(p) PROVE Types'
  BY <1>4, <1>5 DEF Exit, DropAll
<1>6. ASSUME NEW p \in Procs, Crash(p) PROVE Types'
  BY <1>4, <1>6 DEF Crash
<1>7. CASE GrowsOld BY <1>7 DEF GrowsOld
<1>8. CASE SweepLists BY <1>8 DEF SweepLists
<1>9. CASE SweepReads BY <1>9 DEF SweepReads
<1>10. CASE SweepRemoves BY <1>10 DEF SweepRemoves
<1> QED BY <1>1, <1>2, <1>3, <1>5, <1>6, <1>7, <1>8, <1>9, <1>10

-----------------------------------------------------------------------------
LEMMA HoldersFinite ==
  ASSUME NEW h
  PROVE  IsFiniteSet(Holders(h)) /\ Cardinality(Holders(h)) \in Nat
BY CallersAssumption, FS_Subset, FS_CardinalityType DEF Holders

(* A caller that neither holds the lock nor begins to.                       *)
LEMMA WalkKeepsEntries ==
  ASSUME Types, EntryCounted, HoldersHaveEntries,
         NEW c \in Callers, NEW x, x # "holding",
         pc[c] # "holding", pc[c] \in Creator => x \in Creator,
         pc' = [pc EXCEPT ![c] = x], UNCHANGED <<alive, held, count, entry>>
  PROVE  EntryCounted' /\ HoldersHaveEntries'
<1>1. \A d \in Callers : /\ pc'[d] = "holding" <=> pc[d] = "holding"
                         /\ pc[d] \in Creator => pc'[d] \in Creator
  BY DEF Types
<1>2. {d \in Callers : pc[d] = "holding"} = {d \in Callers : pc'[d] = "holding"}
  BY <1>1
<1>3. ASSUME NEW h PROVE Holders(h)' = Holders(h)
  BY <1>1 DEF Holders
<1>4. ASSUME NEW p \in Procs, held'[p] # NoCaller
      PROVE  /\ ProcOf[held'[p]] = p /\ p \in alive' /\ pc'[held'[p]] \in Creator
             /\ count'[held'[p]] >= 1
             /\ count'[held'[p]] = Cardinality(Holders(held[p]))
  BY <1>1, <1>4 DEF EntryCounted, Types, OrNobody
<1>5. EntryCounted'
  BY <1>3, <1>4 DEF EntryCounted
<1>6. HoldersHaveEntries'
  BY <1>1 DEF HoldersHaveEntries
<1> QED BY <1>5, <1>6

LEMMA ShareKeepsEntries ==
  ASSUME Types, EntryCounted, HoldersHaveEntries,
         NEW c \in Callers, pc[c] = "idle", held[ProcOf[c]] # NoCaller,
         Share(c, held[ProcOf[c]]), UNCHANGED <<alive, held>>
  PROVE  EntryCounted' /\ HoldersHaveEntries'
<1>1. PICK p \in Procs : p = ProcOf[c]
  BY ProcsAssumption
<1>2. PICK h \in Callers : h = held[p]
  BY <1>1 DEF Types, OrNobody
<1>3. /\ ProcOf[h] = p /\ p \in alive /\ pc[h] \in Creator /\ h # c
      /\ count[h] >= 1 /\ count[h] = Cardinality(Holders(h))
  BY <1>1, <1>2, CallersAssumption DEF EntryCounted, Creator
<1>4. /\ pc' = [pc EXCEPT ![c] = "holding"]
      /\ entry' = [entry EXCEPT ![c] = h]
      /\ count' = [count EXCEPT ![h] = @ + 1]
  BY <1>1, <1>2 DEF Share, Go
<1>5. Holders(h)' = Holders(h) \cup {c}
  BY <1>4 DEF Holders, Types
<1>6. c \notin Holders(h)
  BY DEF Holders
<1>7. Cardinality(Holders(h)') = Cardinality(Holders(h)) + 1
  BY <1>5, <1>6, HoldersFinite, FS_AddElement
<1>8. ASSUME NEW k, k # h PROVE Holders(k)' = Holders(k)
  BY <1>4, <1>8 DEF Holders, Types
<1>9. ASSUME NEW q \in Procs, held'[q] # NoCaller
      PROVE  /\ ProcOf[held[q]] = q /\ q \in alive' /\ pc'[held[q]] \in Creator
             /\ count'[held[q]] >= 1
             /\ count'[held[q]] = Cardinality(Holders(held[q])')
  <2>1. held[q] \in Callers /\ held[q] # NoCaller
    BY <1>9 DEF Types, OrNobody
  <2>2. /\ ProcOf[held[q]] = q /\ q \in alive /\ pc[held[q]] \in Creator
        /\ count[held[q]] >= 1 /\ count[held[q]] = Cardinality(Holders(held[q]))
    BY <2>1 DEF EntryCounted
  <2>3. CASE q = p
    <3>1. count'[h] = count[h] + 1 /\ count[h] \in Nat
      BY <1>4 DEF Types
    <3>2. pc'[h] \in Creator
      BY <1>3, <1>4 DEF Types
    <3> QED BY <1>2, <1>3, <1>7, <2>2, <2>3, <3>1, <3>2
  <2>4. CASE q # p
    <3>1. held[q] # h
      BY <1>3, <2>2, <2>4
    <3>2. count'[held[q]] = count[held[q]] /\ pc'[held[q]] \in Creator
      BY <1>4, <2>1, <2>2, <3>1 DEF Types, Creator
    <3> QED BY <1>8, <2>2, <3>1, <3>2
  <2> QED BY <2>3, <2>4
<1>10. EntryCounted'
  BY <1>9 DEF EntryCounted
<1>11. ASSUME NEW d \in Callers, pc'[d] = "holding"
       PROVE  /\ entry'[d] \in Callers /\ ProcOf[entry'[d]] = ProcOf[d]
              /\ pc'[entry'[d]] \in Creator
  <2>1. CASE d = c
    BY <1>1, <1>3, <1>4, <2>1 DEF Types
  <2>2. CASE d # c
    BY <1>4, <1>11, <2>2 DEF Types, HoldersHaveEntries, Creator
  <2> QED BY <2>1, <2>2
<1> QED BY <1>10, <1>11 DEF HoldersHaveEntries

(* No caller holds an entry whose creator has yet to publish it.             *)
LEMMA PublishKeepsEntries ==
  ASSUME Types, EntryCounted, HoldersHaveEntries,
         NEW c \in Callers, ProcOf[c] \in alive, Publish(c)
  PROVE  EntryCounted' /\ HoldersHaveEntries'
<1>1. PICK p \in Procs : p = ProcOf[c]
  BY ProcsAssumption
<1>2. /\ pc[c] = "publishing"
      /\ pc' = [pc EXCEPT ![c] = "holding"]
      /\ entry' = [entry EXCEPT ![c] = c]
      /\ count' = [count EXCEPT ![c] = 1]
      /\ held' = [held EXCEPT ![p] = c]
      /\ alive' = alive
  BY <1>1 DEF Publish, Go
<1>3. \A d \in Callers : pc[d] = "holding" => entry[d] # c
  BY <1>2 DEF HoldersHaveEntries, Creator
<1>4. Holders(c)' = {c}
  BY <1>2, <1>3 DEF Holders, Types
<1>5. ASSUME NEW k, k # c PROVE Holders(k)' = Holders(k)
  BY <1>2, <1>5 DEF Holders, Types
<1>6. ASSUME NEW q \in Procs, held'[q] # NoCaller
      PROVE  /\ ProcOf[held'[q]] = q /\ q \in alive' /\ pc'[held'[q]] \in Creator
             /\ count'[held'[q]] >= 1
             /\ \A k : k = held'[q] => count'[k] = Cardinality(Holders(k)')
  <2>1. CASE q = p
    <3>1. held'[q] = c /\ count'[c] = 1 /\ pc'[c] = "holding"
      BY <1>2, <2>1 DEF Types
    <3>2. Cardinality(Holders(c)') = 1
      BY <1>4, FS_Singleton
    <3> QED BY <1>1, <1>2, <2>1, <3>1, <3>2 DEF Creator
  <2>2. CASE q # p
    <3>1. held'[q] = held[q] /\ held[q] \in Callers
      BY <1>2, <1>6, <2>2 DEF Types, OrNobody
    <3>2. /\ ProcOf[held[q]] = q /\ q \in alive /\ pc[held[q]] \in Creator
          /\ count[held[q]] >= 1 /\ count[held[q]] = Cardinality(Holders(held[q]))
      BY <1>6, <3>1 DEF EntryCounted
    <3>3. held[q] # c
      BY <1>1, <2>2, <3>2
    <3>4. count'[held[q]] = count[held[q]] /\ pc'[held[q]] = pc[held[q]]
      BY <1>2, <3>1, <3>3 DEF Types
    <3> QED BY <1>2, <1>5, <3>1, <3>2, <3>3, <3>4
  <2> QED BY <2>1, <2>2
<1>7. EntryCounted'
  BY <1>6 DEF EntryCounted
<1>8. ASSUME NEW d \in Callers, pc'[d] = "holding"
      PROVE  /\ entry'[d] \in Callers /\ ProcOf[entry'[d]] = ProcOf[d]
             /\ pc'[entry'[d]] \in Creator
  <2>1. CASE d = c
    BY <1>2, <2>1 DEF Types, Creator
  <2>2. CASE d # c
    BY <1>2, <1>8, <2>2 DEF Types, HoldersHaveEntries, Creator
  <2> QED BY <2>1, <2>2
<1> QED BY <1>7, <1>8 DEF HoldersHaveEntries

LEMMA ReleaseKeepsEntries ==
  ASSUME Types, EntryCounted, HoldersHaveEntries, NEW c \in Callers, Release(c)
  PROVE  EntryCounted' /\ HoldersHaveEntries'
<1>1. PICK p \in Procs : p = ProcOf[c]
  BY ProcsAssumption
<1>2. PICK e \in Callers : e = entry[c] /\ ProcOf[e] = p
  BY <1>1 DEF Release, HoldersHaveEntries
<1>3. /\ pc[c] = "holding" /\ alive' = alive
      /\ entry' = [entry EXCEPT ![c] = NoCaller]
      /\ \/ /\ held[p] # e /\ pc' = [pc EXCEPT ![c] = "done"]
            /\ held' = held /\ count' = count
         \/ /\ held[p] = e /\ count' = [count EXCEPT ![e] = @ - 1]
            /\ \/ /\ count[e] > 1 /\ held' = held
                  /\ pc' = [pc EXCEPT ![c] = "done"]
               \/ /\ ~(count[e] > 1) /\ held' = [held EXCEPT ![p] = NoCaller]
                  /\ pc' = [pc EXCEPT ![c] = "unlinking"]
  BY <1>1, <1>2 DEF Release, Go
<1>4. /\ \A d \in Callers : pc'[d] = "holding" <=> pc[d] = "holding" /\ d # c
      /\ \A d \in Callers : pc[d] \in Creator => pc'[d] \in Creator
      /\ \A d \in Callers : d # c => entry'[d] = entry[d]
  BY <1>3 DEF Types, Creator
<1>5. ASSUME NEW k, k # e PROVE Holders(k)' = Holders(k)
  BY <1>2, <1>4, <1>5 DEF Holders
<1>6. Holders(e)' = Holders(e) \ {c} /\ c \in Holders(e)
  BY <1>2, <1>3, <1>4 DEF Holders
<1>7. Cardinality(Holders(e)') = Cardinality(Holders(e)) - 1
  BY <1>6, HoldersFinite, FS_RemoveElement
<1>8. ASSUME NEW q \in Procs, held'[q] # NoCaller
      PROVE  /\ ProcOf[held'[q]] = q /\ q \in alive' /\ pc'[held'[q]] \in Creator
             /\ count'[held'[q]] >= 1
             /\ \A k : k = held'[q] => count'[k] = Cardinality(Holders(k)')
  <2>1. held'[q] = held[q] /\ held[q] \in Callers
    BY <1>3, <1>8 DEF Types, OrNobody
  <2>2. /\ ProcOf[held[q]] = q /\ q \in alive /\ pc[held[q]] \in Creator
        /\ count[held[q]] >= 1 /\ count[held[q]] = Cardinality(Holders(held[q]))
    BY <1>8, <2>1 DEF EntryCounted
  <2>3. CASE held[q] = e
    <3>1. q = p /\ held[p] = e
      BY <1>2, <2>2, <2>3
    <3>2. count' = [count EXCEPT ![e] = @ - 1] /\ count[e] > 1
      BY <1>3, <1>8, <3>1 DEF Types
    <3>3. count'[e] = count[e] - 1 /\ count[e] \in Nat
      BY <3>2 DEF Types
    <3> QED BY <1>3, <1>4, <1>7, <2>1, <2>2, <2>3, <3>2, <3>3
  <2>4. CASE held[q] # e
    <3>1. count'[held[q]] = count[held[q]]
      BY <1>3, <2>1, <2>4 DEF Types
    <3> QED BY <1>3, <1>4, <1>5, <2>1, <2>2, <2>4, <3>1
  <2> QED BY <2>3, <2>4
<1>9. EntryCounted'
  BY <1>8 DEF EntryCounted
<1>10. HoldersHaveEntries'
  BY <1>4 DEF HoldersHaveEntries
<1> QED BY <1>9, <1>10

(* A process loses its entry: the entries of the others are untouched.       *)
LEMMA LossKeepsEntries ==
  ASSUME Types, EntryCounted, HoldersHaveEntries, NEW p \in Procs,
         held' = [held EXCEPT ![p] = NoCaller], entry' = entry,
         \A c \in Callers : ProcOf[c] # p => count'[c] = count[c],
         \/ alive' = alive /\ pc' = pc
         \/ Gone(p)
  PROVE  EntryCounted' /\ HoldersHaveEntries'
<1>1. \A c \in Callers : /\ ProcOf[c] # p => pc'[c] = pc[c]
                         /\ pc'[c] = "holding" => pc[c] = "holding"
                         /\ pc[c] \in Creator => pc'[c] \in Creator
  BY DEF Gone, Creator
<1>2. ASSUME NEW k \in Callers, ProcOf[k] # p PROVE Holders(k)' = Holders(k)
  BY <1>1, <1>2 DEF Holders, HoldersHaveEntries
<1>3. ASSUME NEW q \in Procs, held'[q] # NoCaller
      PROVE  /\ ProcOf[held'[q]] = q /\ q \in alive' /\ pc'[held'[q]] \in Creator
             /\ count'[held'[q]] >= 1
             /\ \A k : k = held'[q] => count'[k] = Cardinality(Holders(k)')
  <2>1. q # p /\ held'[q] = held[q] /\ held[q] \in Callers
    BY <1>3 DEF Types, OrNobody
  <2>2. /\ ProcOf[held[q]] = q /\ q \in alive /\ pc[held[q]] \in Creator
        /\ count[held[q]] >= 1 /\ count[held[q]] = Cardinality(Holders(held[q]))
    BY <1>3, <2>1 DEF EntryCounted
  <2>3. q \in alive'
    BY <2>1, <2>2 DEF Gone
  <2> QED BY <1>1, <1>2, <2>1, <2>2, <2>3
<1>4. EntryCounted'
  BY <1>3 DEF EntryCounted
<1>5. HoldersHaveEntries'
  BY <1>1 DEF HoldersHaveEntries
<1> QED BY <1>4, <1>5

(* A step that leaves callers, entries and counts alone.                     *)
LEMMA AsideKeepsEntries ==
  ASSUME EntryCounted, HoldersHaveEntries, UNCHANGED <<alive, held, count, pc, entry>>
  PROVE  EntryCounted' /\ HoldersHaveEntries'
BY DEF EntryCounted, HoldersHaveEntries, Holders

LEMMA EntriesKept ==
  ASSUME Types, EntryCounted, HoldersHaveEntries, DeadAreDone, Next
  PROVE  EntryCounted' /\ HoldersHaveEntries'
<1>1. ASSUME NEW c \in Callers, Begin(c) PROVE EntryCounted' /\ HoldersHaveEntries'
  <2>1. CASE c \in Reentrant /\ held[ProcOf[c]] # NoCaller
    BY <1>1, <2>1, ShareKeepsEntries DEF Begin
  <2>2. CASE ~(c \in Reentrant /\ held[ProcOf[c]] # NoCaller)
    BY <1>1, <2>2, WalkKeepsEntries DEF Begin, Go, Creator
  <2> QED BY <2>1, <2>2
<1>2. ASSUME NEW c \in Callers, Acquiring(c) \/ Unlink(c), ~Begin(c), ~Publish(c)
      PROVE  EntryCounted' /\ HoldersHaveEntries'
  <2>1. Verdict(c) # "holding"
    BY DEF Verdict
  <2>2. PICK x : /\ x # "holding" /\ pc[c] # "holding"
                 /\ pc[c] \in Creator => x \in Creator
                 /\ pc' = [pc EXCEPT ![c] = x]
                 /\ UNCHANGED <<alive, held, count, entry>>
    <3>1. CASE Open(c)
      BY <3>1 DEF Open, Go, Creator
    <3>2. CASE TimesOut(c) \/ WritePayload(c) \/ WriteFails(c) \/ Discard(c)
      BY <3>2 DEF TimesOut, WritePayload, WriteFails, Discard, Go, Creator
    <3>3. CASE ReadPayload(c) \/ Decide(c)
      BY <2>1, <3>3 DEF ReadPayload, Decide, Go, Creator
    <3>4. CASE Stat(c) \/ Reclaim(c) \/ Unlink(c)
      BY <3>4 DEF Stat, Reclaim, Unlink, Go, Creator
    <3> QED BY <1>2, <3>1, <3>2, <3>3, <3>4 DEF Acquiring
  <2> QED BY <2>2, WalkKeepsEntries
<1>3. ASSUME NEW c \in Callers, Publish(c) PROVE EntryCounted' /\ HoldersHaveEntries'
  BY <1>3, PublishKeepsEntries DEF Publish, DeadAreDone
<1>4. ASSUME NEW c \in Callers, Release(c) PROVE EntryCounted' /\ HoldersHaveEntries'
  BY <1>4, ReleaseKeepsEntries
<1>5. ASSUME NEW p \in Procs, Evict(p) PROVE EntryCounted' /\ HoldersHaveEntries'
  <2>1. ProcOf[held[p]] = p /\ held[p] \in Callers
    BY <1>5 DEF Evict, EntryCounted, Types, OrNobody
  <2>2. \A c \in Callers : ProcOf[c] # p => count'[c] = count[c]
    BY <1>5, <2>1 DEF Evict, Types
  <2> QED BY <1>5, <2>2, LossKeepsEntries DEF Evict
<1>6. ASSUME NEW p \in Procs, Signal(p) \/ Exit(p) \/ Crash(p)
      PROVE  EntryCounted' /\ HoldersHaveEntries'
  BY <1>6, LossKeepsEntries DEF Signal, Exit, Crash, DropAll
<1>7. CASE \/ \E p \in Procs : EvictUnlinks(p)
           \/ GrowsOld \/ SweepLists \/ SweepReads \/ SweepRemoves
  BY <1>7, AsideKeepsEntries
     DEF EvictUnlinks, GrowsOld, SweepLists, SweepReads, SweepRemoves
<1> QED BY <1>1, <1>2, <1>3, <1>4, <1>5, <1>6, <1>7 DEF Next

LEMMA DeadKept ==
  ASSUME Types, DeadAreDone, Next
  PROVE  DeadAreDone'
<1>1. ASSUME NEW c \in Callers, Acquiring(c) \/ Release(c) \/ Unlink(c)
      PROVE  DeadAreDone'
  <2>1. pc[c] # "done" /\ alive' = alive /\ \A d \in Callers : d # c => pc'[d] = pc[d]
    <3>1. CASE Begin(c) \/ Publish(c)
      BY <3>1 DEF Begin, Publish, Share, Go, Types
    <3>2. CASE Open(c) \/ TimesOut(c) \/ WritePayload(c)
      BY <3>2 DEF Open, TimesOut, WritePayload, Go, Types
    <3>3. CASE WriteFails(c) \/ Discard(c)
      BY <3>3 DEF WriteFails, Discard, Go, Types
    <3>4. CASE ReadPayload(c) \/ Decide(c) \/ Stat(c) \/ Reclaim(c) \/ Unlink(c)
      BY <3>4 DEF ReadPayload, Decide, Stat, Reclaim, Unlink, Go, Types
    <3>5. CASE Release(c)
      BY <3>5 DEF Release, Go, Types
    <3> QED BY <1>1, <3>1, <3>2, <3>3, <3>4, <3>5 DEF Acquiring
  <2> QED BY <2>1 DEF DeadAreDone
<1>2. ASSUME NEW p \in Procs, Exit(p) \/ Crash(p) PROVE DeadAreDone'
  BY <1>2 DEF Exit, Crash, Gone, DeadAreDone
<1>3. CASE UNCHANGED <<alive, pc>>
  BY <1>3 DEF DeadAreDone
<1> QED BY <1>1, <1>2, <1>3
        DEF Next, Evict, EvictUnlinks, Signal, GrowsOld, SweepLists, SweepReads, SweepRemoves

-----------------------------------------------------------------------------
(* The removal of a lock file stays on its way. *)
LEMMA RemovalKept ==
  ASSUME Types, DeadAreDone, RemovedByItsProcess, Next
  PROVE  RemovedByItsProcess'
<1> USE CallersAssumption, ProcsAssumption
<1>1. CASE file' = NoCaller \/ file' \in unremoved'
  BY <1>1 DEF RemovedByItsProcess
<1>2. ASSUME NEW c \in Callers, Open(c), file = NoCaller PROVE RemovedByItsProcess'
  BY <1>2 DEF Open, Go, Types, RemovedByItsProcess, AtWork
<1>3. ASSUME NEW c \in Callers, Publish(c) PROVE RemovedByItsProcess'
  <2>1. file # NoCaller /\ ProcOf[file] = ProcOf[c] => held'[ProcOf[file]] # NoCaller
    BY <1>3 DEF Publish, Types
  <2>2. file' = file /\ alive' = alive /\ evicting' = evicting /\ unremoved' = unremoved
        /\ \A d \in Callers : d # c => pc'[d] = pc[d]
    BY <1>3 DEF Publish, Go, Types, history
  <2>3. file # NoCaller /\ ProcOf[file] # ProcOf[c]
          => file \in Callers /\ held'[ProcOf[file]] = held[ProcOf[file]] /\ file # c
    BY <1>3 DEF Publish, Types, OrNobody
  <2>4. pc[c] = "publishing" /\ \A d \in Callers : pc[d] = "unlinking" => pc'[d] = "unlinking"
    BY <1>3, <2>2 DEF Publish
  <2> QED BY <2>1, <2>2, <2>3, <2>4 DEF RemovedByItsProcess
<1>4. ASSUME NEW c \in Callers, Release(c) PROVE RemovedByItsProcess'
  <2>1. file' = file /\ alive' = alive /\ evicting' = evicting /\ pc[c] = "holding"
        /\ unremoved' = unremoved
        /\ \A d \in Callers : d # c => pc'[d] = pc[d]
    BY <1>4 DEF Release, Go, Types, history
  <2>2. pc'[c] = "unlinking" \/ held' = held
    BY <1>4 DEF Release, Go, Types
  <2>3. \A p \in Procs : p # ProcOf[c] => held'[p] = held[p]
    BY <1>4 DEF Release, Types
  <2>4. \A d \in Callers : pc[d] \in AtWork \cup {"unlinking"} => pc'[d] = pc[d]
    BY <2>1 DEF AtWork
  <2> QED BY <2>1, <2>2, <2>3, <2>4 DEF RemovedByItsProcess, Types, OrNobody
<1>5. ASSUME NEW c \in Callers, Acquiring(c), ~Publish(c), ~Discard(c), file' = file,
             file # NoCaller
      PROVE  RemovedByItsProcess'
  <2>1. /\ alive' = alive /\ evicting' = evicting /\ held' = held /\ unremoved' = unremoved
        /\ pc[c] # "unlinking" /\ (pc[c] \in AtWork => pc'[c] \in AtWork)
        /\ \A d \in Callers : d # c => pc'[d] = pc[d]
    <3>1. CASE Begin(c) \/ Open(c) \/ TimesOut(c)
      BY <3>1 DEF Begin, Share, Open, TimesOut, Go, Types, AtWork, history
    <3>2. CASE WritePayload(c) \/ WriteFails(c)
      BY <3>2 DEF WritePayload, WriteFails, Go, Types, AtWork, history
    <3>3. CASE ReadPayload(c) \/ Decide(c) \/ Stat(c) \/ Reclaim(c)
      BY <3>3 DEF ReadPayload, Decide, Stat, Reclaim, Go, Types, AtWork, history
    <3> QED BY <1>5, <3>1, <3>2, <3>3 DEF Acquiring
  <2>2. \A d \in Callers : /\ pc[d] = "unlinking" => pc'[d] = "unlinking"
                           /\ pc[d] \in AtWork => pc'[d] \in AtWork
    BY <2>1
  <2> QED BY <1>5, <2>1, <2>2 DEF RemovedByItsProcess, Types, OrNobody
<1>6. ASSUME NEW p \in Procs, Evict(p) PROVE RemovedByItsProcess'
  BY <1>6 DEF Evict, RemovedByItsProcess, Types, OrNobody
<1>7. ASSUME NEW p \in Procs, Signal(p) \/ Exit(p) \/ Crash(p), file' # NoCaller,
             file' \notin unremoved'
      PROVE  RemovedByItsProcess'
  <2>1. /\ file' = file /\ unremoved' = unremoved /\ p \notin alive'
        /\ alive' \subseteq alive
        /\ \A q \in Procs : q # p => /\ held'[q] = held[q]
                                     /\ q \in evicting => q \in evicting'
        /\ \A d \in Callers : ProcOf[d] # p => pc'[d] = pc[d]
    BY <1>7 DEF Signal, Exit, Crash, DropAll, Gone, Types
  <2> SUFFICES ASSUME file # NoCaller, ProcOf[file] \in alive, ProcOf[file] # p
               PROVE  RemovedByItsProcess'
    BY <2>1 DEF RemovedByItsProcess
  <2>2. file \in Callers /\ ProcOf[file] \in Procs
    BY DEF Types, OrNobody
  <2> QED BY <2>1, <2>2 DEF RemovedByItsProcess
<1>8. CASE UNCHANGED <<file, alive, pc, held, evicting, unremoved>>
  BY <1>8 DEF RemovedByItsProcess
<1> QED
  BY <1>1, <1>2, <1>3, <1>4, <1>5, <1>6, <1>7, <1>8
     DEF Next, Acquiring, Begin, Open, TimesOut, WritePayload, WriteFails, Discard, ReadPayload,
         Decide, Stat, Reclaim, Unlink, EvictUnlinks, GrowsOld,
         SweepLists, SweepReads, SweepRemoves, Removes, history

LEMMA InitInv == Init => IndInv
<1> SUFFICES ASSUME Init PROVE IndInv
  OBVIOUS
<1>1. Types
  BY CallersAssumption, BoundsAssumption DEF Init, Types, OrNobody, Steps
<1>2. EntryCounted /\ HoldersHaveEntries /\ RemovedByItsProcess
  BY CallersAssumption DEF Init, EntryCounted, HoldersHaveEntries, RemovedByItsProcess
<1>3. DeadAreDone
  BY ProcsAssumption DEF Init, DeadAreDone
<1> QED BY <1>1, <1>2, <1>3 DEF IndInv

LEMMA StepInv == IndInv /\ [Next]_vars => IndInv'
<1> SUFFICES ASSUME IndInv, [Next]_vars PROVE IndInv'
  OBVIOUS
<1>1. CASE Next
  <2>1. Types'
    BY <1>1, CallerTypes, ReleaseTypes, MishapTypes DEF Next, IndInv
  <2> QED BY <1>1, <2>1, EntriesKept, DeadKept, RemovalKept DEF IndInv
<1>2. CASE UNCHANGED vars
  BY <1>2 DEF vars, IndInv, Types, EntryCounted, Holders, HoldersHaveEntries, DeadAreDone,
              RemovedByItsProcess
<1> QED BY <1>1, <1>2

(* Whatever callers, the watchdog, signals and deaths do to the lock, the    *)
(* entries of HELD_LOCKS stay counted and removals stay on their way.        *)
THEOREM Invariance == Spec => []IndInv
BY InitInv, StepInv, PTL DEF Spec

(* The type of the state, with the count of an entry as the number of its    *)
(* holders (releaseHeldLock).                                                *)
THEOREM TypeCorrect == Spec => []TypeOK
<1>1. IndInv => TypeOK
  BY DEF IndInv, Types, TypeOK, EntryCounted, Holders
<1> QED BY <1>1, Invariance, PTL

(* A lock file of a live process is always going to be removed (the catch of *)
(* acquireSessionWriteLock, releaseHeldLock, runLockWatchdogCheck).          *)
THEOREM NothingLeaks == Spec => []NoLeakedLock
<1>1. IndInv => NoLeakedLock
  BY DEF IndInv, RemovedByItsProcess, NoLeakedLock, AtWork
<1> QED BY <1>1, Invariance, PTL

-----------------------------------------------------------------------------
(* While nothing has died, expired or been taken away, there is nothing to   *)
(* reclaim and nothing is being evicted.                                     *)
NothingStale ==
  mishaps = 0 =>
    /\ alive = Procs /\ old = {} /\ evicting = {}
    /\ \A c \in Callers : pc[c] # "removing"

(* A caller at work has the file to itself; a holder's entry is the one in   *)
(* HELD_LOCKS and its file the one on disk; and the caller that removes it   *)
(* is alone.  FileKeptUntilLastRelease is the second part; it is not         *)
(* inductive without what keeps others from removing the file.               *)
OneOwner ==
  mishaps = 0 =>
    /\ \A c \in Callers : pc[c] \in AtWork => file = c
    /\ \A c \in Callers : pc[c] = "holding" => file = entry[c] /\ held[ProcOf[c]] = entry[c]
    /\ \A c \in Callers : pc[c] = "unlinking" =>
         /\ file # NoCaller /\ pc[file] \notin AtWork
         /\ \A d \in Callers : pc[d] \in {"holding", "unlinking"} => d = c

LEMMA NothingStaleKept ==
  ASSUME StarttimeKnown, Types, NothingStale, Next
  PROVE  NothingStale'
<1> SUFFICES ASSUME mishaps' = 0 PROVE NothingStale'
  BY DEF NothingStale
<1>1. mishaps = 0
  BY DEF Next, Acquiring, Begin, Open, TimesOut, WritePayload, WriteFails, Discard, Publish,
         ReadPayload, Decide, Stat, Reclaim, Release, Unlink, Evict, EvictUnlinks, Signal, Exit,
         Crash, Gone, GrowsOld, SweepLists, SweepReads, SweepRemoves, Removes, Mishap, history,
         Types
<1>2. /\ alive = Procs /\ old = {} /\ evicting = {}
      /\ \A c \in Callers : pc[c] # "removing"
  BY <1>1 DEF NothingStale
<1>3. \A p \in Procs : ~Evict(p) /\ ~EvictUnlinks(p) /\ ~Signal(p) /\ ~Exit(p) /\ ~Crash(p)
  BY <1>1, <1>2 DEF Evict, EvictUnlinks, Signal, Exit, Crash, Gone, Mishap
<1>4. ~GrowsOld
  BY <1>1 DEF GrowsOld, Mishap
<1>5. ASSUME NEW c \in Callers, Acquiring(c) \/ Release(c) \/ Unlink(c)
      PROVE  /\ UNCHANGED <<alive, old, evicting>>
             /\ \A d \in Callers : pc'[d] # "removing"
  <2>1. Verdict(c) # "removing"
    <3>1. seen[c] # NoCaller => ProcOf[seen[c]] \in Procs
      BY ProcsAssumption DEF Types, OrNobody
    <3> QED BY <1>2, <3>1 DEF Verdict, Stale, OrphanSelf
  <2>2. CASE Begin(c) \/ Open(c) \/ TimesOut(c) \/ WritePayload(c) \/ WriteFails(c)
    BY <1>2, <2>2 DEF Begin, Share, Open, TimesOut, WritePayload, WriteFails, Go, Types
  <2>3. CASE Discard(c) \/ Publish(c) \/ ReadPayload(c) \/ Decide(c)
    BY <1>2, <2>1, <2>3 DEF Discard, Publish, ReadPayload, Decide, Go, Types
  <2>4. CASE Stat(c) \/ Reclaim(c) \/ Unlink(c)
    BY <1>1, <1>2, <2>4 DEF Stat, Reclaim, Unlink, Mishap, Go, Types
  <2>5. CASE Release(c)
    BY <1>2, <2>5 DEF Release, Go, Types
  <2> QED BY <1>5, <2>2, <2>3, <2>4, <2>5 DEF Acquiring
<1>6. CASE SweepLists \/ SweepReads \/ SweepRemoves
  BY <1>2, <1>6 DEF SweepLists, SweepReads, SweepRemoves, NothingStale
<1> QED BY <1>2, <1>3, <1>4, <1>5, <1>6 DEF Next, NothingStale

(* The steps of a caller, one by one, once nothing is stale.                 *)
LEMMA OneOwnerKept ==
  ASSUME Types, EntryCounted, HoldersHaveEntries, NothingStale, OneOwner, mishaps = 0,
         mishaps' = 0, NEW c \in Callers, Acquiring(c) \/ Release(c) \/ Unlink(c)
  PROVE  OneOwner'
<1> USE CallersAssumption
<1> DEFINE Owner(f, h, p, e) ==
      /\ \A d \in Callers : p[d] \in AtWork => f = d
      /\ \A d \in Callers : p[d] = "holding" => f = e[d] /\ h[ProcOf[d]] = e[d]
      /\ \A d \in Callers : p[d] = "unlinking" =>
           /\ f # NoCaller /\ p[f] \notin AtWork
           /\ \A o \in Callers : p[o] \in {"holding", "unlinking"} => o = d
<1>1. Owner(file, held, pc, entry)
  BY DEF OneOwner
<1>2. SUFFICES Owner(file', held', pc', entry')
  BY DEF OneOwner
<1>3. ASSUME NEW x \in Steps, pc' = [pc EXCEPT ![c] = x],
             UNCHANGED <<file, held, entry>>,
             x \notin {"holding", "unlinking"},
             pc[c] # "unlinking", x \in AtWork => pc[c] \in AtWork
      PROVE  Owner(file', held', pc', entry')
  <2>1. \A d \in Callers : /\ pc'[d] \in AtWork => pc[d] \in AtWork
                           /\ pc'[d] = "holding" => pc[d] = "holding"
                           /\ pc'[d] = "unlinking" => pc[d] = "unlinking"
    BY <1>3 DEF Types
  <2>2. file \in OrNobody
    BY DEF Types
  <2> QED BY <1>1, <1>3, <2>1, <2>2 DEF OrNobody
<1>4. CASE TimesOut(c) \/ ReadPayload(c) \/ Decide(c) \/ Stat(c)
  <2>1. PICK x \in Steps : /\ pc' = [pc EXCEPT ![c] = x]
                           /\ x \notin AtWork \cup {"holding", "unlinking"}
    <3>1. Verdict(c) \in Steps \ (AtWork \cup {"holding", "unlinking"})
      BY DEF Verdict, Steps, AtWork
    <3> QED BY <1>4, <3>1 DEF TimesOut, ReadPayload, Decide, Stat, Go, Steps, AtWork
  <2>2. UNCHANGED <<file, held, entry>> /\ pc[c] # "unlinking"
    BY <1>4 DEF TimesOut, ReadPayload, Decide, Stat
  <2> QED BY <1>3, <2>1, <2>2
<1>5. CASE WritePayload(c) \/ WriteFails(c)
  BY <1>3, <1>5 DEF WritePayload, WriteFails, Go, Steps, AtWork
<1>6. CASE Begin(c)
  <2>1. CASE c \in Reentrant /\ held[ProcOf[c]] # NoCaller
    <3>1. PICK h \in Callers : h = held[ProcOf[c]]
      BY <2>1, ProcsAssumption DEF Types, OrNobody
    <3>2. /\ pc' = [pc EXCEPT ![c] = "holding"] /\ entry' = [entry EXCEPT ![c] = h]
          /\ file' = file /\ held' = held /\ pc[c] = "idle"
      BY <1>6, <2>1, <3>1 DEF Begin, Share, Go
    <3>3. Holders(h) # {}
      <4>1. Cardinality(Holders(h)) # 0
        BY <2>1, <3>1, ProcsAssumption DEF EntryCounted
      <4> QED BY <4>1, HoldersFinite, FS_EmptySet
    <3>4. PICK o \in Callers : pc[o] = "holding" /\ entry[o] = h
      BY <3>3 DEF Holders
    <3>5. file = h /\ \A d \in Callers : pc[d] # "unlinking"
      BY <1>1, <3>4
    <3>6. \A d \in Callers : /\ pc'[d] \in AtWork => pc[d] \in AtWork
                             /\ pc'[d] # "unlinking"
                             /\ d # c => pc'[d] = pc[d] /\ entry'[d] = entry[d]
                             /\ d = c => entry'[d] = h
      BY <3>2, <3>5 DEF Types, AtWork
    <3> QED BY <1>1, <3>1, <3>2, <3>5, <3>6
  <2>2. CASE ~(c \in Reentrant /\ held[ProcOf[c]] # NoCaller)
    BY <1>3, <1>6, <2>2 DEF Begin, Go, Steps, AtWork
  <2> QED BY <2>1, <2>2
<1>7. CASE Open(c)
  <2>1. CASE file = NoCaller
    <3>1. \A d \in Callers : pc[d] \notin AtWork \cup {"holding", "unlinking"}
      BY <1>1, <2>1 DEF HoldersHaveEntries
    <3>2. file' = c /\ pc' = [pc EXCEPT ![c] = "writing"]
      BY <1>7, <2>1 DEF Open, Go
    <3>3. \A d \in Callers : pc'[d] \in AtWork \cup {"holding", "unlinking"} => d = c
      BY <3>1, <3>2 DEF Types
    <3>4. pc'[c] = "writing"
      BY <3>2 DEF Types
    <3> QED BY <3>2, <3>3, <3>4
  <2>2. CASE file # NoCaller
    BY <1>3, <1>7, <2>2 DEF Open, Go, Steps, AtWork
  <2> QED BY <2>1, <2>2
<1>8. CASE Discard(c) \/ Unlink(c)
  <2>1. file' = NoCaller /\ pc' = [pc EXCEPT ![c] = "done"] /\ pc[c] \in {"discarding", "unlinking"}
    BY <1>8 DEF Discard, Unlink, Removes, Mishap, Go
  <2>2. \A d \in Callers : d # c => pc[d] \notin AtWork \cup {"holding", "unlinking"}
    <3>1. CASE pc[c] = "unlinking"
      BY <1>1, <3>1
    <3>2. CASE pc[c] = "discarding"
      BY <1>1, <3>2 DEF HoldersHaveEntries, AtWork, Creator
    <3> QED BY <2>1, <3>1, <3>2
  <2>3. \A d \in Callers : pc'[d] \notin AtWork \cup {"holding", "unlinking"}
    BY <2>1, <2>2 DEF Types, AtWork
  <2> QED BY <2>3
<1>9. CASE Publish(c)
  <2>1. /\ pc[c] = "publishing" /\ pc' = [pc EXCEPT ![c] = "holding"] /\ file' = file
        /\ held' = [held EXCEPT ![ProcOf[c]] = c] /\ entry' = [entry EXCEPT ![c] = c]
    BY <1>9 DEF Publish, Go
  <2>2. file = c /\ \A d \in Callers : d # c => pc[d] \notin AtWork \cup {"holding", "unlinking"}
    BY <1>1, <2>1 DEF HoldersHaveEntries, AtWork, Creator
  <2>3. \A d \in Callers : pc'[d] \in AtWork \cup {"holding", "unlinking"} => d = c
    BY <2>1, <2>2 DEF Types
  <2>4. pc'[c] = "holding" /\ entry'[c] = c /\ held'[ProcOf[c]] = c
    BY <2>1, ProcsAssumption DEF Types
  <2> QED BY <2>1, <2>2, <2>3, <2>4 DEF AtWork
<1>10. CASE Release(c)
  <2>1. PICK e \in Callers : e = entry[c] /\ ProcOf[e] = ProcOf[c] /\ pc[e] \in Creator
    BY <1>10 DEF Release, HoldersHaveEntries
  <2>2. pc[c] = "holding" /\ file = e /\ held[ProcOf[c]] = e
        /\ \A d \in Callers : pc[d] # "unlinking"
    BY <1>1, <1>10, <2>1 DEF Release
  <2>3. /\ entry' = [entry EXCEPT ![c] = NoCaller] /\ file' = file
        /\ \/ pc' = [pc EXCEPT ![c] = "done"] /\ held' = held
           \/ ~(count[e] > 1) /\ pc' = [pc EXCEPT ![c] = "unlinking"]
    BY <1>10, <2>1, <2>2 DEF Release, Go
  <2>4. \A d \in Callers : d # c => pc'[d] = pc[d] /\ entry'[d] = entry[d]
    BY <2>3 DEF Types
  <2>5. CASE pc' = [pc EXCEPT ![c] = "done"] /\ held' = held
    <3>1. pc'[c] = "done"
      BY <2>5 DEF Types
    <3> QED BY <1>1, <2>2, <2>3, <2>4, <2>5, <3>1 DEF AtWork
  <2>6. CASE ~(count[e] > 1) /\ pc' = [pc EXCEPT ![c] = "unlinking"]
    <3>1. count[e] = 1 /\ Cardinality(Holders(e)) = 1
      <4>1. ProcOf[c] \in Procs /\ e # NoCaller /\ count[e] \in Nat
        BY ProcsAssumption DEF Types
      <4>2. count[e] >= 1 /\ count[e] = Cardinality(Holders(e))
        BY <2>2, <4>1 DEF EntryCounted
      <4> QED BY <2>6, <4>1, <4>2
    <3>2. Holders(e) = {c}
      <4>1. PICK o : Holders(e) = {o}
        BY <3>1, HoldersFinite, FS_Singleton
      <4> QED BY <2>1, <2>2, <4>1 DEF Holders
    <3>3. \A d \in Callers : d # c => pc[d] # "holding"
      BY <1>1, <2>2, <3>2 DEF Holders
    <3>4. pc'[c] = "unlinking" /\ pc'[e] \notin AtWork
      BY <2>1, <2>6 DEF Types, AtWork, Creator
    <3> QED BY <1>1, <2>2, <2>3, <2>4, <3>3, <3>4 DEF AtWork
  <2> QED BY <2>3, <2>5, <2>6
<1>11. ~Reclaim(c)
  BY DEF Reclaim, NothingStale
<1> QED BY <1>4, <1>5, <1>6, <1>7, <1>8, <1>9, <1>10, <1>11 DEF Acquiring

LEMMA OwnershipStep ==
  ASSUME StarttimeKnown, IndInv, NothingStale, OneOwner, [Next]_vars
  PROVE  NothingStale' /\ OneOwner'
<1>1. CASE UNCHANGED vars
  BY <1>1 DEF vars, NothingStale, OneOwner
<1>2. CASE Next
  <2>1. NothingStale'
    BY <1>2, NothingStaleKept DEF IndInv
  <2>2. ASSUME mishaps' = 0 PROVE OneOwner'
    <3>1. mishaps = 0
      BY <1>2, <2>2
         DEF Next, Acquiring, Begin, Open, TimesOut, WritePayload, WriteFails, Discard, Publish,
             ReadPayload, Decide, Stat, Reclaim, Release, Unlink, Evict, EvictUnlinks, Signal,
             Exit, Crash, Gone, GrowsOld, SweepLists, SweepReads, SweepRemoves, Removes,
             Mishap, history, IndInv, Types
    <3>2. ASSUME NEW p \in Procs
          PROVE  ~Evict(p) /\ ~EvictUnlinks(p) /\ ~Signal(p) /\ ~Exit(p) /\ ~Crash(p)
      BY <2>2, <3>1 DEF Evict, EvictUnlinks, Signal, Exit, Crash, Gone, Mishap, NothingStale
    <3>3. ~GrowsOld
      BY <2>2, <3>1 DEF GrowsOld, Mishap
    <3>4. CASE SweepLists \/ SweepReads \/ SweepRemoves
      BY <2>2, <3>1, <3>4 DEF SweepLists, SweepReads, SweepRemoves, OneOwner
    <3>5. CASE \E c \in Callers : Acquiring(c) \/ Release(c) \/ Unlink(c)
      BY <2>2, <3>1, <3>5, OneOwnerKept DEF IndInv
    <3> QED BY <1>2, <3>2, <3>3, <3>4, <3>5 DEF Next
  <2> QED BY <2>1, <2>2 DEF OneOwner
<1> QED BY <1>1, <1>2

(* Where process start times can be read, the file of a held lock stays      *)
(* until its last holder releases it, and two processes never hold it at     *)
(* once (releaseHeldLock, shouldReclaimContendedLockFile).                   *)
THEOREM FileKept == ASSUME StarttimeKnown PROVE Spec => []FileKeptUntilLastRelease
<1>1. Init => NothingStale /\ OneOwner
  BY DEF Init, NothingStale, OneOwner, AtWork
<1>2. IndInv /\ NothingStale /\ OneOwner /\ [Next]_vars => NothingStale' /\ OneOwner'
  BY OwnershipStep
<1>3. OneOwner => FileKeptUntilLastRelease
  BY DEF OneOwner, FileKeptUntilLastRelease
<1> QED BY <1>1, <1>2, <1>3, Invariance, PTL DEF Spec
=============================================================================
