---------------------------- MODULE ExecApproval ----------------------------
(***************************************************************************)
(* Approvals of commands: the manager of pending approvals,                  *)
(* src/src/gateway/exec-approval-manager.ts, under the gateway methods that  *)
(* request, await and resolve them, server-methods/exec-approval.ts, and the *)
(* consumption of one-time approvals by commands.                            *)
(*                                                                          *)
(* An entry of the manager is named by the request that registered it, for   *)
(* the methods never register an id that is in the map.  Clients choose ids, *)
(* so requests may use the same one.  Texts, broadcasts, metadata of callers *)
(* and the delivery of forwarded requests are left out; the forwarder only   *)
(* says whether it has targets, in a later microtask.  Time is counted in    *)
(* ticks; timers may be late.                                                *)
(***************************************************************************)
EXTENDS Integers, FiniteSets

CONSTANTS
  Requests,      (* calls of exec.approval.request *)
  Waits,         (* calls of exec.approval.waitDecision *)
  IdOf,          (* the approval id of each request *)
  Decisions,     (* what an approver may say; "allow-once" is one of them *)
  Timeout,       (* timeoutMs of requests *)
  Grace          (* RESOLVED_ENTRY_GRACE_MS *)

Ids == {IdOf[r] : r \in Requests}

ASSUME ApprovalAssumption ==
  /\ "allow-once" \in Decisions /\ {"open", "null"} \cap Decisions = {}
  /\ Requests \cap {"none", "refused", "unused"} = {}
  /\ Timeout \in Nat /\ Grace \in Nat

VARIABLES
  pending,    (* the map: the entry of an id, or "none" *)
  promise,    (* of each entry: "open", "null", or the decision it settled to *)
  decision,   (* record.decision, or "none" *)
  timer,      (* of each entry: ticks until it expires, or Unset *)
  grace,      (* of each entry: ticks until it is deleted, or Unset *)
  call,       (* how far each request's handler is *)
  wait,       (* the entry that a wait awaits, "refused" or "unused" *)
  answered,   (* waits that were answered *)
  consumed    (* history: how often an entry's approval was consumed *)

vars == <<pending, promise, decision, timer, grace, call, wait, answered, consumed>>

Unset == -1

Init ==
  /\ pending = [id \in Ids |-> "none"]
  /\ promise = [r \in Requests |-> "open"]
  /\ decision = [r \in Requests |-> "none"]
  /\ timer = [r \in Requests |-> Unset]
  /\ grace = [r \in Requests |-> Unset]
  /\ call = [r \in Requests |-> "new"]
  /\ wait = [w \in Waits |-> "unused"]
  /\ answered = {}
  /\ consumed = [r \in Requests |-> 0]

(* An entry is in the map and has no resolvedAtMs. *)
Open(id) == pending[id] # "none" /\ promise[pending[id]] = "open"

(* Handlers that await the forwarder; no timer fires in between. *)
Forwarding == \E r \in Requests : call[r] = "forwarding"

-----------------------------------------------------------------------------

(* Faulty variant: the timer of a resolved entry runs on. *)
SettleTimed(r, outcome) ==
  /\ promise' = [promise EXCEPT ![r] = outcome]
  /\ decision' = [decision EXCEPT ![r] = IF outcome = "null" THEN "none" ELSE outcome]
  /\ grace' = [grace EXCEPT ![r] = Grace]
  /\ timer' = IF timer[r] = 0 THEN [timer EXCEPT ![r] = Unset] ELSE timer

(* What resolve() and expire() do to an open entry: its timer is cleared,    *)
(* its promise settles, and it stays for the grace period.                   *)
Settle(r, outcome) ==
  /\ promise' = [promise EXCEPT ![r] = outcome]
  /\ decision' = [decision EXCEPT ![r] = IF outcome = "null" THEN "none" ELSE outcome]
  /\ grace' = [grace EXCEPT ![r] = Grace]
  /\ timer' = [timer EXCEPT ![r] = Unset]

(* expire(id), which leaves an unknown or settled entry alone. *)
Expire(id) ==
  IF Open(id) THEN Settle(pending[id], "null")
  ELSE UNCHANGED <<promise, decision, grace, timer>>

(* Faulty variant: a settled entry makes way for a new request. *)
RequestReplacing(r) ==
  /\ call[r] = "new"
  /\ IF Open(IdOf[r])
     THEN call' = [call EXCEPT ![r] = "refused"] /\ UNCHANGED <<pending, timer>>
     ELSE /\ call' = [call EXCEPT ![r] = "forwarding"]
          /\ pending' = [pending EXCEPT ![IdOf[r]] = r]
          /\ timer' = [timer EXCEPT ![r] = Timeout]
  /\ UNCHANGED <<promise, decision, grace, wait, answered, consumed>>

(* Faulty variant: an approval is open until somebody decides. *)
RequestUntimed(r) ==
  /\ call[r] = "new"
  /\ IF pending[IdOf[r]] # "none"
     THEN call' = [call EXCEPT ![r] = "refused"] /\ UNCHANGED <<pending, timer>>
     ELSE /\ call' = [call EXCEPT ![r] = "forwarding"]
          /\ pending' = [pending EXCEPT ![IdOf[r]] = r]
          /\ timer' = timer
  /\ UNCHANGED <<promise, decision, grace, wait, answered, consumed>>

(* exec.approval.request up to its first await: a known id is refused. *)
Request(r) ==
  /\ call[r] = "new"
  /\ IF pending[IdOf[r]] # "none"
     THEN call' = [call EXCEPT ![r] = "refused"] /\ UNCHANGED <<pending, timer>>
     ELSE /\ call' = [call EXCEPT ![r] = "forwarding"]
          /\ pending' = [pending EXCEPT ![IdOf[r]] = r]
          /\ timer' = [timer EXCEPT ![r] = Timeout]
  /\ UNCHANGED <<promise, decision, grace, wait, answered, consumed>>

(* The forwarder has answered.  Without targets and without clients that may *)
(* approve, nobody will: the approval expires at once.                       *)
Forwarded(r) ==
  /\ call[r] = "forwarding"
  /\ call' = [call EXCEPT ![r] = "deciding"]
  /\ \E reachable \in BOOLEAN :
       IF reachable THEN UNCHANGED <<promise, decision, grace, timer>> ELSE Expire(IdOf[r])
  /\ UNCHANGED <<pending, wait, answered, consumed>>

(* The request's promise has settled: the final response. *)
Answer(r) ==
  /\ call[r] = "deciding"
  /\ promise[r] # "open"
  /\ call' = [call EXCEPT ![r] = "answered"]
  /\ UNCHANGED <<pending, promise, decision, timer, grace, wait, answered, consumed>>

(* exec.approval.waitDecision *)
Wait(w, id) ==
  /\ wait[w] = "unused"
  /\ wait' = [wait EXCEPT ![w] = IF pending[id] = "none" THEN "refused" ELSE pending[id]]
  /\ UNCHANGED <<pending, promise, decision, timer, grace, call, answered, consumed>>

WaitAnswered(w) ==
  /\ wait[w] \in Requests
  /\ w \notin answered
  /\ promise[wait[w]] # "open"
  /\ answered' = answered \cup {w}
  /\ UNCHANGED <<pending, promise, decision, timer, grace, call, wait, consumed>>

(* Faulty variant: a second decision in the grace period is accepted. *)
ResolveAgain(id, said) ==
  /\ pending[id] # "none"
  /\ IF Open(id) THEN Settle(pending[id], said)
     ELSE /\ decision' = [decision EXCEPT ![pending[id]] = said]
          /\ UNCHANGED <<promise, grace, timer>>
  /\ UNCHANGED <<pending, call, wait, answered, consumed>>

(* exec.approval.resolve, when the id is known and open. *)
Resolve(id, said) ==
  /\ Open(id)
  /\ Settle(pending[id], said)
  /\ UNCHANGED <<pending, call, wait, answered, consumed>>

(* consumeAllowOnce, when it returns true. *)
Consume(id) ==
  /\ pending[id] # "none"
  /\ decision[pending[id]] = "allow-once"
  /\ decision' = [decision EXCEPT ![pending[id]] = "none"]
  /\ consumed' = [consumed EXCEPT ![pending[id]] = @ + 1]
  /\ UNCHANGED <<pending, promise, timer, grace, call, wait, answered>>

(* The timer of register(): it looks its entry up by the id. *)
TimerFires(r) ==
  /\ timer[r] = 0
  /\ ~Forwarding
  /\ Expire(IdOf[r])
  /\ UNCHANGED <<pending, call, wait, answered, consumed>>

(* The end of the grace period deletes the entry if it is still this one. *)
GraceEnds(r) ==
  /\ grace[r] = 0
  /\ ~Forwarding
  /\ grace' = [grace EXCEPT ![r] = Unset]
  /\ pending' = IF pending[IdOf[r]] = r THEN [pending EXCEPT ![IdOf[r]] = "none"] ELSE pending
  /\ UNCHANGED <<promise, decision, timer, call, wait, answered, consumed>>

Less(n) == IF n > 0 THEN n - 1 ELSE n

ClockTicks ==
  /\ ~Forwarding
  /\ timer' = [r \in Requests |-> Less(timer[r])]
  /\ grace' = [r \in Requests |-> Less(grace[r])]
  /\ <<timer, grace>>' # <<timer, grace>>
  /\ UNCHANGED <<pending, promise, decision, call, wait, answered, consumed>>

Next ==
  \/ \E r \in Requests : Request(r) \/ Forwarded(r) \/ Answer(r)
  \/ \E w \in Waits, id \in Ids : Wait(w, id)
  \/ \E w \in Waits : WaitAnswered(w)
  \/ \E id \in Ids, said \in Decisions : Resolve(id, said)
  \/ \E id \in Ids : Consume(id)
  \/ \E r \in Requests : TimerFires(r) \/ GraceEnds(r)
  \/ ClockTicks

Spec == Init /\ [][Next]_vars

(* Continuations run and timers fire; nobody need decide. *)
Fairness ==
  /\ WF_vars(ClockTicks)
  /\ \A r \in Requests : WF_vars(Forwarded(r)) /\ WF_vars(Answer(r)) /\ WF_vars(TimerFires(r))
  /\ \A w \in Waits : WF_vars(WaitAnswered(w))

FairSpec == Spec /\ Fairness

-----------------------------------------------------------------------------
(* Properties *)

Registered(r) == call[r] \notin {"new", "refused"}

(* The variables hold values of their types; an entry's timer runs exactly   *)
(* while it is open, and a request is found by its id until it is decided    *)
(* and for the whole grace period after, so that one who was told it is      *)
(* accepted can wait for it.                                                 *)
TypeOK ==
  /\ \A id \in Ids : pending[id] = "none" \/ (pending[id] \in Requests /\ IdOf[pending[id]] = id)
  /\ \A r \in Requests :
       /\ promise[r] \in Decisions \cup {"open", "null"}
       /\ decision[r] \in {promise[r], "none"}
       /\ timer[r] \in 0..Timeout \cup {Unset}
       /\ timer[r] # Unset <=> Registered(r) /\ promise[r] = "open"
       /\ grace[r] \in 0..Grace \cup {Unset}
       /\ consumed[r] \in Nat
       /\ Registered(r) /\ (promise[r] = "open" \/ grace[r] # Unset) => pending[IdOf[r]] = r
       /\ call[r] \in {"new", "refused", "forwarding", "deciding", "answered"}
  /\ \A w \in Waits : wait[w] \in Requests \cup {"unused", "refused"}

(* An approval of one execution is consumed once, and only if the decision   *)
(* that its requester learned was that.                                      *)
ConsumedOnce ==
  \A r \in Requests : consumed[r] # 0 => consumed[r] = 1 /\ promise[r] = "allow-once"

(* A request ends undecided only at its own time limit or for want of        *)
(* approvers, never through what is left of another one of the same id.      *)
NoForeignExpiry ==
  [][\A r \in Requests : promise[r] = "open" /\ promise'[r] = "null"
       => timer[r] = 0 \/ (call[r] = "forwarding" /\ call'[r] = "deciding")]_vars

(* Every registered request is answered, even if nobody decides, and so is   *)
(* everyone who waits for it.                                                *)
AllAnswered ==
  /\ \A r \in Requests : call[r] = "forwarding" ~> call[r] = "answered"
  /\ \A w \in Waits : wait[w] \in Requests ~> w \in answered
=============================================================================
