--------------------------- MODULE DeliveryQueue ---------------------------
(***************************************************************************)
(* The write-ahead queue of outbound deliveries.  deliverOutboundPayloads   *)
(* writes an entry to <state>/delivery-queue before it sends and removes it *)
(* after; recoverPendingDeliveries, started with each gateway, sends what   *)
(* an earlier one left.  Recovery does not wait for deliveries that the     *)
(* process has under way: those begun before it lists the directory, and    *)
(* those that an in-process restart leaves running, are handled by both.    *)
(* File operations and sends are awaited, so each is a step, and any of     *)
(* them may fail.                                                           *)
(*                                                                          *)
(* An entry is listed and read at one moment here.  The code reads the      *)
(* files one after another, but entries do not depend on each other, so for *)
(* each of them the moment of its read is all that counts.                  *)
(***************************************************************************)
EXTENDS Integers, FiniteSets, SequencesExt

CONSTANTS
  Deliveries,   (* calls of deliverOutboundPayloads, each made at most once *)
  NumPayloads,  (* number of payloads of each                               *)
  Options,      (* bestEffort (a payload that fails is skipped) and onError *)
  MaxRetries,   (* MAX_RETRIES                                              *)
  MaxBoots      (* bound on gateway starts                                  *)

ASSUME DeliveriesAssumption == IsFiniteSet(Deliveries)
ASSUME PayloadsAssumption == NumPayloads \in Nat \ {0}
ASSUME OptionsAssumption == Options \subseteq [bestEffort : BOOLEAN, onError : BOOLEAN]
ASSUME BoundsAssumption == MaxRetries \in Nat /\ MaxBoots \in Nat

Payloads == 1 .. NumPayloads
Boots == 1 .. MaxBoots

VARIABLES
  up,        (* whether the process runs                                   *)
  boots,     (* gateway starts so far: recoveries are named by them        *)
  file,      (* <id>.json in the queue directory                           *)
  tmp,       (* <id>.json.<pid>.tmp of the running process                 *)
  failed,    (* the entries in failed/                                     *)
  live,      (* the call that created each delivery                        *)
  recovery,  (* the recovery of each gateway start                         *)
  accepted,  (* how each delivery was accepted when it was written to disk *)
  sent,      (* payloads of each delivery that reached the channel         *)
  aborted,   (* deliveries whose call ended in an AbortError               *)
  handled,   (* history: deliveries that a call or recovery was done with  *)
  faulty     (* history: those of which a failed file operation was        *)
             (* swallowed while the entry was there                        *)

disk == <<file, tmp, failed>>
story == <<accepted, sent, aborted>>
outcome == <<handled, faulty>>
vars == <<up, boots, disk, live, recovery, story, outcome>>

Entry == [present : BOOLEAN, readable : BOOLEAN, retryCount : Nat, attempted : BOOLEAN,
          bestEffort : BOOLEAN]
NoFile == [present |-> FALSE, readable |-> FALSE, retryCount |-> 0, attempted |-> FALSE,
           bestEffort |-> FALSE]
NewFile(opt) == [NoFile EXCEPT !.present = TRUE, !.readable = TRUE, !.bestEffort = opt.bestEffort]

(* A file that JSON.parse rejects: half of it is another writer's.           *)
Garbled == [NoFile EXCEPT !.present = TRUE]

(* failDelivery: the entry as it is written back; lastAttemptAt is set.      *)
Failed(e) == [e EXCEPT !.retryCount = @ + 1, !.attempted = TRUE]

(* A call: its next payload, whether one of its payloads was skipped with    *)
(* onError, and the entry failDelivery has read.                             *)
IdleCall == [pc |-> "idle", opt |-> [bestEffort |-> FALSE, onError |-> FALSE],
             next |-> 1, partial |-> FALSE, read |-> NoFile]

(* A recovery: the entries it loaded and has not come to, as it read them.   *)
NoRecovery == [pc |-> "off", todo |-> <<>>, loaded |-> [d \in Deliveries |-> NoFile],
               next |-> 1, read |-> NoFile]

Init ==
  /\ up = FALSE
  /\ boots = 0
  /\ file = [d \in Deliveries |-> NoFile]
  /\ tmp = [d \in Deliveries |-> NoFile]
  /\ failed = {}
  /\ live = [d \in Deliveries |-> IdleCall]
  /\ recovery = [r \in Boots |-> NoRecovery]
  /\ accepted = [d \in Deliveries |-> "no"]
  /\ sent = [d \in Deliveries |-> {}]
  /\ aborted = {}
  /\ handled = {}
  /\ faulty = {}

Current(r) == Head(recovery[r].todo)
Taken(r) == recovery[r].loaded[Current(r)]

(* A file operation on the entry fails, and the error is swallowed.          *)
Swallowed(d) == faulty' = IF file[d].present THEN faulty \cup {d} ELSE faulty

(* The recoveries that are rewriting an entry.                               *)
Rewriters(d) ==
  {r \in Boots : recovery[r].pc \in {"rewriting", "renaming"} /\ Current(r) = d}

(* writeFile of failDelivery.  The path of the temporary file is shared in   *)
(* the process: writes that overlap may leave a mix of both.                 *)
WritesTmp(d, e, alone) ==
  /\ \E content \in {e} \cup (IF alone THEN {} ELSE {Garbled}) :
       tmp' = [tmp EXCEPT ![d] = content]
  /\ UNCHANGED <<file, failed>>

(* ... or it fails, before or after the file was truncated.                  *)
WriteFails(d) ==
  /\ \E content \in {tmp[d], Garbled} : tmp' = [tmp EXCEPT ![d] = content]
  /\ Swallowed(d)
  /\ UNCHANGED <<file, failed>>

(* The rename over the entry, or to where it was, of what is in the          *)
(* temporary file now.  Another's rename may have taken it away.             *)
RenamesTmp(d) ==
  \/ /\ tmp[d].present
     /\ file' = [file EXCEPT ![d] = tmp[d]]
     /\ tmp' = [tmp EXCEPT ![d] = NoFile]
     /\ UNCHANGED <<failed, faulty>>
  \/ UNCHANGED disk /\ Swallowed(d)

-----------------------------------------------------------------------------
(* deliverOutboundPayloads *)

(* enqueueDelivery: tmp file and rename; the entry is there or it is not.  A *)
(* call whose entry cannot be written sends without one and touches no file. *)
Persist(d, opt) ==
  /\ up /\ live[d].pc = "idle"
  /\ file' = [file EXCEPT ![d] = NewFile(opt)]
  /\ accepted' = [accepted EXCEPT ![d] = IF opt.bestEffort THEN "bestEffort" ELSE "strict"]
  /\ live' = [live EXCEPT ![d].pc = "sending", ![d].opt = opt]
  /\ UNCHANGED <<up, boots, tmp, failed, recovery, sent, aborted, outcome>>

(* A payload is sent, or cancelled by a message_sending hook.                *)
LiveSends(d) ==
  /\ live[d].pc = "sending" /\ live[d].next <= NumPayloads
  /\ sent' = [sent EXCEPT ![d] = @ \cup {live[d].next}]
  /\ live' = [live EXCEPT ![d].next = @ + 1]
  /\ UNCHANGED <<up, boots, disk, recovery, accepted, aborted, outcome>>

(* Under bestEffort a payload that fails is passed to onError, if any.       *)
LiveSkips(d) ==
  /\ live[d].pc = "sending" /\ live[d].next <= NumPayloads
  /\ live[d].opt.bestEffort
  /\ live' = [live EXCEPT ![d].next = @ + 1, ![d].partial = @ \/ live[d].opt.onError]
  /\ UNCHANGED <<up, boots, disk, recovery, story, outcome>>

(* What deliverOutboundPayloadsCore may throw on: the channel handler, a     *)
(* payload unless bestEffort, the transcript mirror after the last.          *)
MayThrow(next, bestEffort) == next = 1 \/ next > NumPayloads \/ ~bestEffort

LiveThrows(d) ==
  /\ live[d].pc = "sending" /\ MayThrow(live[d].next, live[d].opt.bestEffort)
  /\ live' = [live EXCEPT ![d].pc = "failing"]
  /\ UNCHANGED <<up, boots, disk, recovery, story, outcome>>

(* An AbortError, of the caller's signal or of an operation of the channel:  *)
(* the entry is acknowledged, nothing more is sent.                          *)
LiveAborts(d) ==
  /\ live[d].pc = "sending" /\ MayThrow(live[d].next, live[d].opt.bestEffort)
  /\ live' = [live EXCEPT ![d].pc = "acking"]
  /\ aborted' = aborted \cup {d}
  /\ UNCHANGED <<up, boots, disk, recovery, accepted, sent, outcome>>

LiveReturns(d) ==
  /\ live[d].pc = "sending" /\ live[d].next > NumPayloads
  /\ live' = [live EXCEPT ![d].pc = IF live[d].partial THEN "failing" ELSE "acking"]
  /\ UNCHANGED <<up, boots, disk, recovery, story, outcome>>

(* The call returns or rethrows; what its file operations threw is dropped.  *)
LiveEnds(d) ==
  /\ live' = [live EXCEPT ![d] = [IdleCall EXCEPT !.pc = "done", !.opt = live[d].opt]]
  /\ handled' = handled \cup {d}

(* ackDelivery: unlink; an entry already gone is no error.                   *)
LiveAcks(d) ==
  /\ live[d].pc = "acking"
  /\ LiveEnds(d)
  /\ \/ file' = [file EXCEPT ![d] = NoFile] /\ UNCHANGED faulty
     \/ UNCHANGED file /\ Swallowed(d)
  /\ UNCHANGED <<up, boots, tmp, failed, recovery, story>>

(* failDelivery reads the entry, if it is there and can be read.             *)
LiveReads(d) ==
  /\ live[d].pc = "failing"
  /\ \/ /\ file[d].readable
        /\ live' = [live EXCEPT ![d].pc = "rewriting", ![d].read = file[d]]
        /\ UNCHANGED outcome
     \/ LiveEnds(d) /\ Swallowed(d)
  /\ UNCHANGED <<up, boots, disk, recovery, story>>

(* ... writes the new version beside it ...                                  *)
LiveWrites(d) ==
  /\ live[d].pc = "rewriting"
  /\ \/ /\ WritesTmp(d, Failed(live[d].read), Rewriters(d) = {})
        /\ live' = [live EXCEPT ![d].pc = "renaming"]
        /\ UNCHANGED outcome
     \/ WriteFails(d) /\ LiveEnds(d)
  /\ UNCHANGED <<up, boots, recovery, story>>

(* ... and renames that.                                                     *)
LiveRenames(d) ==
  /\ live[d].pc = "renaming"
  /\ RenamesTmp(d)
  /\ LiveEnds(d)
  /\ UNCHANGED <<up, boots, recovery, story>>

-----------------------------------------------------------------------------
(* recoverPendingDeliveries *)

(* On to the next entry. *)
Advance(r) ==
  /\ recovery' = [recovery EXCEPT ![r].pc = "scan", ![r].todo = Tail(@), ![r].next = 1,
                                         ![r].read = NoFile]
  /\ handled' = handled \cup {Current(r)}

(* loadPendingDeliveries skips what it cannot read.  Sorted by age: any      *)
(* order, since entries of one millisecond, or of processes whose clocks     *)
(* differ, may come either way.                                              *)
Load(r) ==
  /\ recovery[r].pc = "loading"
  /\ \E found \in SUBSET {d \in Deliveries : file[d].readable} :
       \E order \in SetToSeqs(found) :
         recovery' = [recovery EXCEPT ![r].pc = "scan", ![r].todo = order,
           ![r].loaded = [d \in Deliveries |-> IF d \in found THEN file[d] ELSE NoFile]]
  /\ UNCHANGED <<up, boots, disk, live, story, outcome>>

(* The loop ends after the last entry, or when the time budget is used up:   *)
(* the rest is left to the next start.                                       *)
EndRecovery(r) ==
  /\ recovery[r].pc = "scan"
  /\ recovery' = [recovery EXCEPT ![r].pc = "ended"]
  /\ UNCHANGED <<up, boots, disk, live, story, outcome>>

(* The entry's age against its backoff: one that was attempted may have to   *)
(* wait.                                                                     *)
Defer(r) ==
  /\ recovery[r].pc = "scan" /\ recovery[r].todo # <<>>
  /\ Taken(r).retryCount < MaxRetries
  /\ Taken(r).attempted
  /\ Advance(r)
  /\ UNCHANGED <<up, boots, disk, live, story, faulty>>

(* The entry is tried, or given up after MAX_RETRIES.                        *)
Attempt(r) ==
  /\ recovery[r].pc = "scan" /\ recovery[r].todo # <<>>
  /\ recovery' = [recovery EXCEPT ![r].pc =
       IF Taken(r).retryCount >= MaxRetries THEN "moving" ELSE "sending"]
  /\ UNCHANGED <<up, boots, disk, live, story, outcome>>

RecoverySends(r) ==
  /\ recovery[r].pc = "sending" /\ recovery[r].next <= NumPayloads
  /\ sent' = [sent EXCEPT ![Current(r)] = @ \cup {recovery[r].next}]
  /\ recovery' = [recovery EXCEPT ![r].next = @ + 1]
  /\ UNCHANGED <<up, boots, disk, live, accepted, aborted, outcome>>

(* The entry's bestEffort is passed on, but no onError.                      *)
RecoverySkips(r) ==
  /\ recovery[r].pc = "sending" /\ recovery[r].next <= NumPayloads
  /\ Taken(r).bestEffort
  /\ recovery' = [recovery EXCEPT ![r].next = @ + 1]
  /\ UNCHANGED <<up, boots, disk, live, story, outcome>>

(* Faulty variant: a passing error is not recorded in the entry. *)
RecoveryThrowsAway(r) ==
  /\ recovery[r].pc = "sending" /\ MayThrow(recovery[r].next, Taken(r).bestEffort)
  /\ \/ recovery' = [recovery EXCEPT ![r].pc = "moving"] /\ UNCHANGED handled
     \/ Advance(r)
  /\ UNCHANGED <<up, boots, disk, live, story, faulty>>

(* An error that isPermanentDeliveryError knows moves the entry to failed/.  *)
RecoveryThrows(r) ==
  /\ recovery[r].pc = "sending" /\ MayThrow(recovery[r].next, Taken(r).bestEffort)
  /\ \E pc \in {"moving", "failing"} : recovery' = [recovery EXCEPT ![r].pc = pc]
  /\ UNCHANGED <<up, boots, disk, live, story, outcome>>

RecoveryReturns(r) ==
  /\ recovery[r].pc = "sending" /\ recovery[r].next > NumPayloads
  /\ recovery' = [recovery EXCEPT ![r].pc = "acking"]
  /\ UNCHANGED <<up, boots, disk, live, story, outcome>>

(* An acknowledgement that fails is taken for a failed attempt.              *)
RecoveryAcks(r) ==
  /\ recovery[r].pc = "acking"
  /\ \/ file' = [file EXCEPT ![Current(r)] = NoFile] /\ Advance(r)
     \/ /\ file[Current(r)].present
        /\ recovery' = [recovery EXCEPT ![r].pc = "failing"]
        /\ UNCHANGED <<file, handled>>
  /\ UNCHANGED <<up, boots, tmp, failed, live, story, faulty>>

(* Faulty variant: an entry that was given up is tried nevertheless. *)
RecoveryMovesAndSends(r) ==
  /\ recovery[r].pc = "moving"
  /\ file' = [file EXCEPT ![Current(r)] = NoFile]
  /\ failed' = IF file[Current(r)].present THEN failed \cup {Current(r)} ELSE failed
  /\ recovery' = [recovery EXCEPT ![r].pc = "sending"]
  /\ UNCHANGED <<up, boots, tmp, live, story, outcome>>

(* moveToFailed: a rename, whose failure is logged.                          *)
RecoveryMoves(r) ==
  /\ recovery[r].pc = "moving"
  /\ Advance(r)
  /\ \/ /\ file[Current(r)].present
        /\ file' = [file EXCEPT ![Current(r)] = NoFile]
        /\ failed' = failed \cup {Current(r)}
        /\ UNCHANGED faulty
     \/ UNCHANGED <<file, failed>> /\ Swallowed(Current(r))
  /\ UNCHANGED <<up, boots, tmp, live, story>>

(* Faulty variant: an entry whose retry failed is not looked at again. *)
RecoveryReadsAndForgets(r) ==
  /\ recovery[r].pc = "failing"
  /\ file' = [file EXCEPT ![Current(r)] = NoFile]
  /\ Advance(r)
  /\ UNCHANGED <<up, boots, tmp, failed, live, story, faulty>>

(* Faulty variant: an entry that is gone is waited for. *)
RecoveryReadsPresent(r) ==
  /\ recovery[r].pc = "failing" /\ file[Current(r)].present
  /\ recovery' = [recovery EXCEPT ![r].pc = "rewriting", ![r].read = file[Current(r)]]
  /\ UNCHANGED <<up, boots, disk, live, story, outcome>>

RecoveryReads(r) ==
  /\ recovery[r].pc = "failing"
  /\ \/ /\ file[Current(r)].readable
        /\ recovery' = [recovery EXCEPT ![r].pc = "rewriting", ![r].read = file[Current(r)]]
        /\ UNCHANGED outcome
     \/ Advance(r) /\ Swallowed(Current(r))
  /\ UNCHANGED <<up, boots, disk, live, story>>

RecoveryWrites(r) ==
  /\ recovery[r].pc = "rewriting"
  /\ \/ /\ WritesTmp(Current(r), Failed(recovery[r].read),
                     /\ live[Current(r)].pc \notin {"rewriting", "renaming"}
                     /\ Rewriters(Current(r)) = {r})
        /\ recovery' = [recovery EXCEPT ![r].pc = "renaming"]
        /\ UNCHANGED outcome
     \/ WriteFails(Current(r)) /\ Advance(r)
  /\ UNCHANGED <<up, boots, live, story>>

RecoveryRenames(r) ==
  /\ recovery[r].pc = "renaming"
  /\ RenamesTmp(Current(r))
  /\ Advance(r)
  /\ UNCHANGED <<up, boots, live, story>>

-----------------------------------------------------------------------------
(* The gateway starts, in a new process or again in this one; its recovery   *)
(* begins.  What an earlier start left running in the process goes on.       *)
Boot ==
  /\ boots < MaxBoots
  /\ boots' = boots + 1
  /\ up' = TRUE
  /\ recovery' = [recovery EXCEPT ![boots + 1].pc = "loading"]
  /\ UNCHANGED <<disk, live, story, outcome>>

(* The process ends, with everything in it.  The next one has temporary      *)
(* files of its own.                                                         *)
Crash ==
  /\ up
  /\ up' = FALSE
  /\ tmp' = [d \in Deliveries |-> NoFile]
  /\ live' = [d \in Deliveries |-> IF live[d].pc = "idle" THEN IdleCall
                                   ELSE [IdleCall EXCEPT !.pc = "killed"]]
  /\ recovery' = [r \in Boots |-> IF recovery[r].pc = "off" THEN NoRecovery
                                  ELSE [NoRecovery EXCEPT !.pc = "ended"]]
  /\ UNCHANGED <<boots, file, failed, story, outcome>>

LiveStep(d) ==
  \/ LiveSends(d) \/ LiveSkips(d) \/ LiveThrows(d) \/ LiveAborts(d)
  \/ LiveReturns(d) \/ LiveAcks(d) \/ LiveReads(d) \/ LiveWrites(d) \/ LiveRenames(d)

RecoveryStep(r) ==
  \/ Load(r) \/ EndRecovery(r) \/ Defer(r) \/ Attempt(r)
  \/ RecoverySends(r) \/ RecoverySkips(r) \/ RecoveryThrows(r) \/ RecoveryReturns(r)
  \/ RecoveryAcks(r) \/ RecoveryMoves(r) \/ RecoveryReads(r) \/ RecoveryWrites(r)
  \/ RecoveryRenames(r)

Next ==
  \/ Boot \/ Crash
  \/ \E d \in Deliveries : LiveStep(d) \/ \E opt \in Options : Persist(d, opt)
  \/ \E r \in Boots : RecoveryStep(r)

Spec == Init /\ [][Next]_vars

(* Sends and file operations end, well or not. *)
FairSpec ==
  /\ Spec
  /\ \A d \in Deliveries : WF_vars(LiveStep(d))
  /\ \A r \in Boots : WF_vars(RecoveryStep(r))

-----------------------------------------------------------------------------
Working == {"sending", "acking", "failing", "rewriting", "renaming", "moving"}

Types ==
  /\ up \in BOOLEAN /\ boots \in 0 .. MaxBoots
  /\ file \in [Deliveries -> Entry] /\ tmp \in [Deliveries -> Entry]
  /\ failed \in SUBSET Deliveries
  /\ live \in [Deliveries -> [pc : {"idle", "sending", "acking", "failing", "rewriting",
                                    "renaming", "done", "killed"},
                              opt : [bestEffort : BOOLEAN, onError : BOOLEAN],
                              next : Nat, partial : BOOLEAN, read : Entry]]
  /\ recovery \in [Boots -> [pc : {"off", "loading", "scan", "sending", "acking", "failing",
                                   "rewriting", "renaming", "moving", "ended"},
                             todo : Seq(Deliveries), loaded : [Deliveries -> Entry],
                             next : Nat, read : Entry]]
  /\ accepted \in [Deliveries -> {"no", "strict", "bestEffort"}]
  /\ sent \in [Deliveries -> SUBSET Nat]
  /\ aborted \in SUBSET Deliveries

(* The types.  Beyond them: calls and recoveries are under way only in a     *)
(* process that runs; a recovery works on an entry that it loaded and has    *)
(* not been done with; and one that it sends, acknowledges or records had    *)
(* retries left (recoverPendingDeliveries, Crash).                           *)
TypeOK ==
  /\ Types
  /\ handled \in SUBSET Deliveries /\ faulty \in SUBSET Deliveries
  /\ \A d \in Deliveries : live[d].pc \in {"idle", "done", "killed"} \/ up
  /\ \A r \in Boots : recovery[r].pc \in {"off", "ended"} \/ (up /\ r <= boots)
  /\ \A r \in Boots : recovery[r].pc \in Working =>
       /\ recovery[r].todo # <<>>
       /\ Taken(r).readable
       /\ recovery[r].pc # "moving" => Taken(r).retryCount < MaxRetries

Reached(d) == sent[d] = Payloads

OnRecord(d) == file[d].present \/ d \in failed

(* delivery-queue.ts:78, :110: what was written before the send is removed   *)
(* only when all of it was sent, or the call ended in an AbortError.         *)
(* Whatever the call, the recoveries, failing file operations, crashes and   *)
(* restarts do in whichever order, an accepted delivery is on disk, in       *)
(* failed/, delivered or aborted.  (An entry that two writers garbled is     *)
(* still on disk, but for an operator, not for a recovery.)                  *)
Kept(d) == OnRecord(d) \/ Reached(d) \/ d \in aborted

(* deliver.ts:470: the same for the payloads that fail under bestEffort, as  *)
(* long as no recovery has taken the entry up.                               *)
ReportsFailures(d) ==
  /\ accepted[d] = "bestEffort" /\ live[d].opt.onError
  /\ boots = 1 /\ \A r \in Boots : ~recovery[r].loaded[d].present

NothingLost ==
  \A d \in Deliveries : accepted[d] = "strict" \/ ReportsFailures(d) => Kept(d)

(* What a call or a recovery was done with is gone or under backoff, also    *)
(* when it comes back: an acknowledgement or a move that another's rename    *)
(* undoes leaves an entry whose attempt is recorded, not one that the next   *)
(* start sends again at once.  Only a file operation that failed without     *)
(* anybody hearing of it leaves more (deliver.ts:485-505, delivery-queue.ts: *)
(* 303-369).                                                                 *)
LeftoverIsTimed ==
  \A d \in handled \ faulty : file[d].readable => file[d].attempted

(* A recovery comes to its end although calls of the same process take       *)
(* entries away under it.                                                    *)
RecoveryEnds ==
  \A r \in Boots : recovery[r].pc = "loading" ~> recovery[r].pc = "ended"
=============================================================================
