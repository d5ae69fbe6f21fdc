-------------------------- MODULE SessionWriteLock --------------------------
(***************************************************************************)
(* The write lock of one session file: <file>.lock, created with O_EXCL,    *)
(* names the process that holds it, and the process-wide map HELD_LOCKS     *)
(* lets callers of that process share it.  Several processes use one        *)
(* session directory (the gateway, command-line agents, doctor).  A lock    *)
(* file is always removed by its path, whoever made the file that is there. *)
(*                                                                          *)
(* Each awaited file operation is a step.  Times are not counted: a file    *)
(* may become too old, the watchdog may find a lock held for too long, and  *)
(* a caller may run out of time, at any moment.                             *)
(***************************************************************************)
EXTENDS Integers, FiniteSets

CONSTANTS
  Callers,         (* calls of acquireSessionWriteLock for the file         *)
  Procs,           (* processes                                             *)
  ProcOf,          (* the process of each caller                            *)
  Reentrant,       (* callers with allowReentrant                           *)
  NoCaller,        (* no lock file, no entry, no readable payload           *)
  StarttimeKnown,  (* getProcessStartTime is not null: Linux                *)
  MaxTries,        (* bound on the attempts of a caller before its timeout  *)
  MaxMishaps       (* bound on deaths, signals, expiries, failed removals   *)

ASSUME CallersAssumption == IsFiniteSet(Callers) /\ NoCaller \notin Callers
ASSUME ProcsAssumption == ProcOf \in [Callers -> Procs]
ASSUME ReentrantAssumption == Reentrant \subseteq Callers /\ StarttimeKnown \in BOOLEAN
ASSUME BoundsAssumption == MaxTries \in Nat \ {0} /\ MaxMishaps \in Nat

VARIABLES
  alive,    (* the processes that run                                      *)
  file,     (* who created the lock file that exists                       *)
  written,  (* callers whose file has its payload                          *)
  old,      (* callers whose file is older than staleMs                    *)
  held,     (* HELD_LOCKS of each process: an entry is named by its creator *)
  count,    (* the count of each entry                                     *)
  pc,       (* where each caller is                                        *)
  entry,    (* the entry a caller that holds the lock will release         *)
  seen,     (* the payload a caller has read: whose file it described      *)
  tries,    (* attempts of each caller                                     *)
  evicting, (* processes whose watchdog is removing a lock file            *)
  sweep,    (* cleanStaleLockFiles, run once by a process of its own       *)
  mishaps,  (* history: deaths, signals, locks that expired or were taken
               away, files that could not be looked at or removed          *)
  unremoved (* history: creators whose file a failed removal left          *)

vars == <<alive, file, written, old, held, count, pc, entry, seen, tries,
          evicting, sweep, mishaps, unremoved>>

history == <<mishaps, unremoved>>

OrNobody == Callers \cup {NoCaller}

Init ==
  /\ alive = Procs
  /\ file = NoCaller
  /\ written = {}
  /\ old = {}
  /\ held = [p \in Procs |-> NoCaller]
  /\ count = [c \in Callers |-> 0]
  /\ pc = [c \in Callers |-> "idle"]
  /\ entry = [c \in Callers |-> NoCaller]
  /\ seen = [c \in Callers |-> NoCaller]
  /\ tries = [c \in Callers |-> 0]
  /\ evicting = {}
  /\ sweep = "idle"
  /\ mishaps = 0
  /\ unremoved = {}

(* What a reader of the lock file gets: its creator, unless it is missing or *)
(* still without payload.                                                    *)
Payload == IF file \in written THEN file ELSE NoCaller

(* inspectLockPayload, for a payload that names a process.                   *)
Stale(c) == ProcOf[c] \notin alive \/ c \in old

Go(c, where) == pc' = [pc EXCEPT ![c] = where]

Mishap == mishaps < MaxMishaps /\ mishaps' = mishaps + 1

(* fs.rm of the path, by code that swallows its error: whatever file is      *)
(* there goes, or stays.                                                     *)
Removes ==
  \/ file' = NoCaller /\ UNCHANGED history
  \/ file # NoCaller /\ Mishap /\ unremoved' = unremoved \cup {file} /\ UNCHANGED file

-----------------------------------------------------------------------------
(* acquireSessionWriteLock *)

(* Faulty variant: a reentrant caller is not counted. *)
ShareUncounted(c, h) ==
  /\ entry' = [entry EXCEPT ![c] = h]
  /\ Go(c, "holding")
  /\ UNCHANGED count

(* An entry of the own process is shared.                                    *)
Share(c, h) ==
  /\ count' = [count EXCEPT ![h] = @ + 1]
  /\ entry' = [entry EXCEPT ![c] = h]
  /\ Go(c, "holding")

(* The directory is made and resolved; then the map is consulted, once.      *)
Begin(c) ==
  /\ pc[c] = "idle"
  /\ LET h == held[ProcOf[c]] IN
     IF c \in Reentrant /\ h # NoCaller
       THEN Share(c, h)
       ELSE Go(c, "opening") /\ UNCHANGED <<count, entry>>
  /\ UNCHANGED <<alive, file, written, old, held, seen, tries, evicting, sweep, history>>

(* fs.open(lockPath, "wx").  An error other than EEXIST rejects the call,    *)
(* which then is as if it had never begun.                                   *)
Open(c) ==
  /\ pc[c] = "opening" /\ tries[c] < MaxTries
  /\ tries' = [tries EXCEPT ![c] = @ + 1]
  /\ IF file = NoCaller
       THEN file' = c /\ Go(c, "writing")
       ELSE Go(c, "reading") /\ UNCHANGED file
  /\ UNCHANGED <<alive, written, old, held, count, entry, seen, evicting, sweep, history>>

(* The time allowed is up: "session file locked".                            *)
TimesOut(c) ==
  /\ pc[c] = "opening" /\ tries[c] > 0
  /\ tries' = [tries EXCEPT ![c] = 0]
  /\ Go(c, "done")
  /\ UNCHANGED <<alive, file, written, old, held, count, entry, seen,
                 evicting, sweep, history>>

(* handle.writeFile: the payload is on disk before the caller goes on.       *)
WritePayload(c) ==
  /\ pc[c] = "writing"
  /\ written' = written \cup {c}
  /\ Go(c, "publishing")
  /\ UNCHANGED <<alive, file, old, held, count, entry, seen, tries, evicting, sweep, history>>

(* The write fails (a full disk): the handle is closed, the file removed.    *)
WriteFails(c) ==
  /\ pc[c] = "writing"
  /\ Go(c, "discarding")
  /\ UNCHANGED <<alive, file, written, old, held, count, entry, seen, tries,
                 evicting, sweep, history>>

(* Faulty variant: the file of a failed initialization stays. *)
KeepAndFail(c) ==
  /\ pc[c] = "discarding"
  /\ Go(c, "done")
  /\ UNCHANGED <<alive, file, written, old, held, count, entry, seen, tries,
                 evicting, sweep, history>>

Discard(c) ==
  /\ pc[c] = "discarding"
  /\ Removes
  /\ Go(c, "done")
  /\ UNCHANGED <<alive, written, old, held, count, entry, seen, tries, evicting, sweep>>

(* HELD_LOCKS.set: whatever entry was there is replaced.                     *)
Publish(c) ==
  /\ pc[c] = "publishing"
  /\ held' = [held EXCEPT ![ProcOf[c]] = c]
  /\ count' = [count EXCEPT ![c] = 1]
  /\ entry' = [entry EXCEPT ![c] = c]
  /\ tries' = [tries EXCEPT ![c] = 0]
  /\ Go(c, "holding")
  /\ UNCHANGED <<alive, file, written, old, seen, evicting, sweep, history>>

(* readLockPayload, after EEXIST: any error reads as no payload.             *)
ReadPayload(c) ==
  /\ pc[c] = "reading"
  /\ \E payload \in {Payload, NoCaller} : seen' = [seen EXCEPT ![c] = payload]
  /\ Go(c, "deciding")
  /\ UNCHANGED <<alive, file, written, old, held, count, entry, tries,
                 evicting, sweep, history>>

(* shouldTreatAsOrphanSelfLock *)
OrphanSelf(c) ==
  /\ ~StarttimeKnown
  /\ ProcOf[seen[c]] = ProcOf[c]
  /\ held[ProcOf[c]] = NoCaller

(* Faulty variant: an unreadable payload is taken for a stale one. *)
VerdictEager(c) ==
  IF seen[c] = NoCaller \/ Stale(seen[c]) \/ OrphanSelf(c) THEN "removing" ELSE "opening"

(* A stale lock is reclaimed, one without payload is judged by its mtime.    *)
Verdict(c) ==
  CASE seen[c] = NoCaller -> "dating"
    [] seen[c] # NoCaller /\ (Stale(seen[c]) \/ OrphanSelf(c)) -> "removing"
    [] OTHER -> "opening"

Decide(c) ==
  /\ pc[c] = "deciding"
  /\ Go(c, Verdict(c))
  /\ seen' = [seen EXCEPT ![c] = NoCaller]
  /\ UNCHANGED <<alive, file, written, old, held, count, entry, tries,
                 evicting, sweep, history>>

(* lockInspectionNeedsMtimeStaleFallback: fs.stat of what is there now.  An  *)
(* error other than ENOENT is taken for a stale lock.                        *)
Stat(c) ==
  /\ pc[c] = "dating"
  /\ \/ Go(c, IF file \in old THEN "removing" ELSE "opening") /\ UNCHANGED mishaps
     \/ Go(c, "removing") /\ Mishap
  /\ UNCHANGED <<alive, file, written, old, held, count, entry, seen, tries,
                 evicting, sweep, unremoved>>

(* An fs.rm that fails here rejects the call.                                *)
Reclaim(c) ==
  /\ pc[c] = "removing"
  /\ \/ file' = NoCaller /\ Go(c, "opening")
     \/ UNCHANGED file /\ Go(c, "done")
  /\ UNCHANGED <<alive, written, old, held, count, entry, seen, tries,
                 evicting, sweep, history>>

-----------------------------------------------------------------------------
(* release, and the removals that are nobody's release *)

(* Faulty variant: the last holder is taken for one of several. *)
ReleaseLate(c) ==
  /\ pc[c] = "holding"
  /\ entry' = [entry EXCEPT ![c] = NoCaller]
  /\ IF held[ProcOf[c]] # entry[c]
       THEN Go(c, "done") /\ UNCHANGED <<held, count>>
       ELSE /\ count' = [count EXCEPT ![entry[c]] = @ - 1]
            /\ IF count[entry[c]] >= 1
                 THEN Go(c, "done") /\ UNCHANGED held
                 ELSE held' = [held EXCEPT ![ProcOf[c]] = NoCaller] /\ Go(c, "unlinking")
  /\ UNCHANGED <<alive, file, written, old, seen, tries, evicting, sweep, history>>

(* releaseHeldLock.  An entry that is no longer in the map is not touched,   *)
(* and the last release takes it out of the map before it closes the file.   *)
Release(c) ==
  /\ pc[c] = "holding"
  /\ entry' = [entry EXCEPT ![c] = NoCaller]
  /\ IF held[ProcOf[c]] # entry[c]
       THEN Go(c, "done") /\ UNCHANGED <<held, count>>
       ELSE /\ count' = [count EXCEPT ![entry[c]] = @ - 1]
            /\ IF count[entry[c]] > 1
                 THEN Go(c, "done") /\ UNCHANGED held
                 ELSE held' = [held EXCEPT ![ProcOf[c]] = NoCaller] /\ Go(c, "unlinking")
  /\ UNCHANGED <<alive, file, written, old, seen, tries, evicting, sweep, history>>

Unlink(c) ==
  /\ pc[c] = "unlinking"
  /\ Removes
  /\ Go(c, "done")
  /\ UNCHANGED <<alive, written, old, held, count, entry, seen, tries, evicting, sweep>>

(* runLockWatchdogCheck: a lock held beyond maxHoldMs is released by force.  *)
(* One removal at a time is modelled in each process.                        *)
Evict(p) ==
  /\ p \in alive /\ held[p] # NoCaller /\ p \notin evicting
  /\ count' = [count EXCEPT ![held[p]] = 0]
  /\ held' = [held EXCEPT ![p] = NoCaller]
  /\ evicting' = evicting \cup {p}
  /\ Mishap
  /\ UNCHANGED <<alive, file, written, old, pc, entry, seen, tries, sweep, unremoved>>

EvictUnlinks(p) ==
  /\ p \in evicting
  /\ Removes
  /\ evicting' = evicting \ {p}
  /\ UNCHANGED <<alive, written, old, held, count, pc, entry, seen, tries, sweep>>

(* releaseAllLocksSync: one entry of the map is one file, and an rmSync that *)
(* fails leaves it.                                                          *)
DropAll(p) ==
  /\ held' = [held EXCEPT ![p] = NoCaller]
  /\ \/ file' = (IF held[p] = NoCaller THEN file ELSE NoCaller) /\ UNCHANGED unremoved
     \/ /\ held[p] # NoCaller /\ file # NoCaller
        /\ unremoved' = unremoved \cup {file} /\ UNCHANGED file

(* A termination signal.  While the process has a handler of its own for it  *)
(* (the gateway does), it goes on, without its locks.                        *)
Signal(p) ==
  /\ p \in alive /\ held[p] # NoCaller
  /\ DropAll(p)
  /\ Mishap
  /\ UNCHANGED <<alive, written, old, count, pc, entry, seen, tries, evicting, sweep>>

Gone(p) ==
  /\ alive' = alive \ {p}
  /\ pc' = [c \in Callers |-> IF ProcOf[c] = p THEN "done" ELSE pc[c]]
  /\ evicting' = evicting \ {p}
  /\ Mishap

(* The process exits: its "exit" handler removes what it holds.              *)
Exit(p) ==
  /\ p \in alive
  /\ DropAll(p)
  /\ Gone(p)
  /\ UNCHANGED <<written, old, count, entry, seen, tries, sweep>>

(* The process is killed.                                                    *)
Crash(p) ==
  /\ p \in alive
  /\ held' = [held EXCEPT ![p] = NoCaller]
  /\ Gone(p)
  /\ UNCHANGED <<file, written, old, count, entry, seen, tries, sweep, unremoved>>

(* The lock file becomes older than staleMs.                                 *)
GrowsOld ==
  /\ file # NoCaller /\ file \notin old
  /\ old' = old \cup {file}
  /\ Mishap
  /\ UNCHANGED <<alive, file, written, held, count, pc, entry, seen, tries,
                 evicting, sweep, unremoved>>

-----------------------------------------------------------------------------
(* cleanStaleLockFiles, when a gateway starts and in doctor *)

SweepLists ==
  /\ sweep = "idle" /\ file # NoCaller
  /\ sweep' = "reading"
  /\ UNCHANGED <<alive, file, written, old, held, count, pc, entry, seen, tries,
                 evicting, history>>

(* A payload that is not there or cannot be read is stale here: mtime is not *)
(* looked at.                                                                *)
SweepReads ==
  /\ sweep = "reading"
  /\ \/ Payload # NoCaller /\ ~Stale(Payload) /\ sweep' = "done"
     \/ sweep' = "removing"
  /\ UNCHANGED <<alive, file, written, old, held, count, pc, entry, seen, tries,
                 evicting, history>>

(* An fs.rm that fails here ends the sweep.                                  *)
SweepRemoves ==
  /\ sweep = "removing"
  /\ sweep' = "done"
  /\ file' \in {NoCaller, file}
  /\ mishaps' = IF file' = file THEN mishaps ELSE mishaps + 1
  /\ UNCHANGED <<alive, written, old, held, count, pc, entry, seen, tries, evicting,
                 unremoved>>

-----------------------------------------------------------------------------
Acquiring(c) ==
  \/ Begin(c) \/ Open(c) \/ TimesOut(c) \/ WritePayload(c) \/ WriteFails(c) \/ Discard(c)
  \/ Publish(c) \/ ReadPayload(c) \/ Decide(c) \/ Stat(c) \/ Reclaim(c)

Next ==
  \/ \E c \in Callers : Acquiring(c) \/ Release(c) \/ Unlink(c)
  \/ \E p \in Procs : Evict(p) \/ EvictUnlinks(p) \/ Signal(p) \/ Exit(p) \/ Crash(p)
  \/ GrowsOld
  \/ SweepLists \/ SweepReads \/ SweepRemoves

Spec == Init /\ [][Next]_vars

(* A caller that has begun is driven by its own awaits, and each holds the   *)
(* lock in a try whose finally releases it.  Nothing makes a caller begin, a *)
(* process die or a lock expire, and the watchdog may come late.             *)
Fairness ==
  /\ \A c \in Callers :
       /\ WF_vars(Open(c) \/ TimesOut(c))
       /\ WF_vars(WritePayload(c) \/ WriteFails(c))
       /\ WF_vars(Discard(c)) /\ WF_vars(Publish(c))
       /\ WF_vars(ReadPayload(c)) /\ WF_vars(Decide(c)) /\ WF_vars(Stat(c)) /\ WF_vars(Reclaim(c))
       /\ WF_vars(Release(c)) /\ WF_vars(Unlink(c))
  /\ \A p \in Procs : WF_vars(EvictUnlinks(p))

FairSpec == Spec /\ Fairness

-----------------------------------------------------------------------------
Steps == {"idle", "opening", "writing", "publishing", "discarding", "reading", "deciding",
          "dating", "removing", "holding", "unlinking", "done"}

(* The type of the state.  The count of an entry in HELD_LOCKS is the number *)
(* of its holders, so that the release that gives the lock up is the last    *)
(* one, whatever evictions and late releases came before (releaseHeldLock).  *)
TypeOK ==
  /\ alive \subseteq Procs /\ evicting \subseteq alive
  /\ file \in OrNobody /\ written \subseteq Callers /\ old \subseteq Callers
  /\ held \in [Procs -> OrNobody] /\ count \in [Callers -> Nat]
  /\ pc \in [Callers -> Steps] /\ entry \in [Callers -> OrNobody]
  /\ seen \in [Callers -> OrNobody] /\ tries \in [Callers -> 0 .. MaxTries]
  /\ sweep \in {"idle", "reading", "removing", "done"} /\ mishaps \in 0 .. MaxMishaps + 1
  /\ unremoved \subseteq Callers
  /\ \A p \in Procs : held[p] # NoCaller =>
       count[held[p]] = Cardinality({c \in Callers : pc[c] = "holding" /\ entry[c] = held[p]})

(* While no process died, no lock expired or was taken away, and no fs.stat  *)
(* of the file failed, the file of a held lock stays until its last holder   *)
(* releases it (releaseHeldLock, shouldReclaimContendedLockFile).  Two       *)
(* processes then never hold it at once, whatever contenders read, or fail   *)
(* to read, between the creation of a file, its payload and its removal.     *)
FileKeptUntilLastRelease ==
  mishaps = 0 => \A c \in Callers : pc[c] = "holding" => file = entry[c]

(* A lock file of a live process is going to be removed: its creator is      *)
(* still at work on it, or the process has an entry, or a removal of the     *)
(* path is under way (the catch of acquireSessionWriteLock, releaseHeldLock);*)
(* unless a removal of it failed, which nobody repeats.                      *)
NoLeakedLock ==
  file # NoCaller /\ file \notin unremoved /\ ProcOf[file] \in alive =>
    \/ pc[file] \in {"writing", "publishing", "discarding"}
    \/ held[ProcOf[file]] # NoCaller
    \/ ProcOf[file] \in evicting
    \/ \E c \in Callers : pc[c] \in {"unlinking", "discarding"}

(* A lock that is taken is given up, though callers keep sharing it, as long *)
(* as its process lives: none of the ways out of a release, early returns    *)
(* included, leaves the file behind, but a removal that fails.               *)
LockIsGivenUp ==
  \A c \in Callers :
    file = c /\ ProcOf[c] \in alive ~> file # c \/ ProcOf[c] \notin alive \/ c \in unremoved
=============================================================================
