-------------------------- MODULE ReplyDispatcher --------------------------
(***************************************************************************)
(* Reply dispatchers, src/src/auto-reply/reply/reply-dispatcher.ts, and the *)
(* registry that restarts ask for their replies, dispatcher-registry.ts.    *)
(* A dispatcher counts the replies on its send chain, plus one reservation  *)
(* for the turn that may still produce some.                                *)
(*                                                                          *)
(* A reply is delivered or fails, which is the same to the counter.  The     *)
(* texts of replies, the delays between them and onIdle are left out.       *)
(***************************************************************************)
EXTENDS Integers, FiniteSets

CONSTANTS
  Dispatchers,
  MaxReplies     (* bound: replies of a dispatcher *)

ASSUME DispatcherAssumption == MaxReplies \in Nat

VARIABLES
  created,     (* dispatchers whose turn has begun *)
  registered,  (* activeDispatchers *)
  pending,
  completed,   (* those with completeCalled *)
  clearing,    (* those whose markComplete has its microtask queued *)
  chain,       (* replies on sendChain that are not settled *)
  accepted,    (* replies enqueued so far *)
  promised     (* history: unsettled replies from before markComplete *)

dispatcherVars == <<created, registered, pending, completed, clearing, chain,
                    accepted, promised>>

InitDispatchers ==
  /\ created = {}
  /\ registered = {}
  /\ pending = [d \in Dispatchers |-> 0]
  /\ completed = {}
  /\ clearing = {}
  /\ chain = [d \in Dispatchers |-> 0]
  /\ accepted = [d \in Dispatchers |-> 0]
  /\ promised = [d \in Dispatchers |-> 0]

(* Faulty variant: no reservation for the turn. *)
CreateUnreserved(d) ==
  /\ d \notin created
  /\ created' = created \cup {d}
  /\ registered' = registered \cup {d}
  /\ UNCHANGED <<pending, completed, clearing, chain, accepted, promised>>

(* createReplyDispatcher *)
Create(d) ==
  /\ d \notin created
  /\ created' = created \cup {d}
  /\ registered' = registered \cup {d}
  /\ pending' = [pending EXCEPT ![d] = 1]
  /\ UNCHANGED <<completed, clearing, chain, accepted, promised>>

(* enqueue: nothing keeps a caller from doing it after markComplete. *)
Enqueue(d) ==
  /\ d \in created
  /\ accepted[d] < MaxReplies
  /\ accepted' = [accepted EXCEPT ![d] = @ + 1]
  /\ pending' = [pending EXCEPT ![d] = @ + 1]
  /\ chain' = [chain EXCEPT ![d] = @ + 1]
  /\ promised' = [promised EXCEPT ![d] = IF d \in completed THEN @ ELSE @ + 1]
  /\ UNCHANGED <<created, registered, completed, clearing>>

(* The counter is zero: unregister, which may be repeated. *)
Count(d, n) ==
  /\ pending' = [pending EXCEPT ![d] = n]
  /\ registered' = IF n = 0 THEN registered \ {d} ELSE registered

(* Faulty variant: a completed turn's reservation is left to its microtask.  *)
SettleKeepingReservation(d) ==
  /\ chain[d] > 0
  /\ chain' = [chain EXCEPT ![d] = @ - 1]
  /\ promised' = [promised EXCEPT ![d] = IF @ > 0 THEN @ - 1 ELSE 0]
  /\ Count(d, pending[d] - 1)
  /\ UNCHANGED <<created, completed, clearing, accepted>>

(* The head of the chain settles, and its finally clears the reservation     *)
(* when only that is left of a completed turn.                               *)
Settle(d) ==
  /\ chain[d] > 0
  /\ chain' = [chain EXCEPT ![d] = @ - 1]
  /\ promised' = [promised EXCEPT ![d] = IF @ > 0 THEN @ - 1 ELSE 0]
  /\ Count(d, IF pending[d] = 2 /\ d \in completed THEN 0 ELSE pending[d] - 1)
  /\ UNCHANGED <<created, completed, clearing, accepted>>

(* markComplete, when the turn is over on whichever path. *)
MarkComplete(d) ==
  /\ d \in created \ completed
  /\ completed' = completed \cup {d}
  /\ clearing' = clearing \cup {d}
  /\ UNCHANGED <<created, registered, pending, chain, accepted, promised>>

(* The microtask of markComplete: nothing was enqueued in the meantime. *)
ClearReservation(d) ==
  /\ d \in clearing
  /\ clearing' = clearing \ {d}
  /\ IF pending[d] = 1 THEN Count(d, 0) ELSE UNCHANGED <<pending, registered>>
  /\ UNCHANGED <<created, completed, chain, accepted, promised>>

DispatcherNext ==
  \E d \in Dispatchers :
    Create(d) \/ Enqueue(d) \/ Settle(d) \/ MarkComplete(d) \/ ClearReservation(d)

(* getTotalPendingReplies is positive. *)
PendingReplies == \E d \in registered : pending[d] # 0

-----------------------------------------------------------------------------

(* A turn under way, or with replies from before its end. *)
Unfinished(d) == d \in created /\ (d \notin completed \/ promised[d] > 0)

(* What a registered dispatcher counts is what is on its chain and its       *)
(* reservation, so it is counted for as long as its turn is unfinished, and  *)
(* what keeps a completed one registered is work that takes it off.  After   *)
(* it was taken off, late replies may make the counter negative.             *)
DispatchersOK ==
  /\ registered \cup completed \subseteq created
  /\ clearing \subseteq completed
  /\ \A d \in Dispatchers :
       /\ pending[d] \in Int
       /\ accepted[d] \in 0..MaxReplies
       /\ chain[d] \in 0..accepted[d]
       /\ promised[d] \in 0..chain[d]
       /\ d \notin created => pending[d] = 0 /\ accepted[d] = 0
       /\ d \in registered => pending[d] = chain[d] + 1
       /\ Unfinished(d) => d \in registered
       /\ d \in registered \cap completed => chain[d] > 0 \/ d \in clearing
=============================================================================
