------------------------- MODULE ExecApprovalProofs -------------------------
(* What ExecApproval's runs check of a few requests, proved for all sets of  *)
(* requests and waits, all assignments of ids and all time limits.           *)
EXTENDS ExecApproval, TLAPS

Outcomes == Decisions \cup {"open", "null"}

CallStates == {"new", "refused", "forwarding", "deciding", "answered"}

(* The domains and types of the variables. *)
Types ==
  /\ pending \in [Ids -> Requests \cup {"none"}]
  /\ promise \in [Requests -> Outcomes]
  /\ decision \in [Requests -> Outcomes \cup {"none"}]
  /\ timer \in [Requests -> 0..Timeout \cup {Unset}]
  /\ grace \in [Requests -> 0..Grace \cup {Unset}]
  /\ call \in [Requests -> CallStates]
  /\ wait \in [Waits -> Requests \cup {"unused", "refused"}]
  /\ consumed \in [Requests -> Nat]

(* What the map holds are registered entries, under their own ids.           *)
MapSound ==
  \A id \in Ids : pending[id] # "none" => IdOf[pending[id]] = id /\ Registered(pending[id])

(* An entry that is open, in its grace period or whose request has not heard *)
(* of the forwarder is in the map.                                           *)
MapComplete ==
  \A r \in Requests :
    Registered(r) /\ (promise[r] = "open" \/ grace[r] # Unset \/ call[r] = "forwarding")
      => pending[IdOf[r]] = r

(* The timer, the promise and the decision of an entry agree.  A call that   *)
(* has registered nothing has an untouched entry.                            *)
Agree(r) ==
  /\ timer[r] # Unset <=> Registered(r) /\ promise[r] = "open"
  /\ ~Registered(r) => promise[r] = "open"
  /\ promise[r] = "open" => decision[r] = "none" /\ grace[r] = Unset /\ consumed[r] = 0
  /\ decision[r] \in {promise[r], "none"}
  /\ decision[r] = "allow-once" => consumed[r] = 0
  /\ consumed[r] # 0 => consumed[r] = 1 /\ promise[r] = "allow-once"

IndInv == Types /\ MapSound /\ MapComplete /\ \A r \in Requests : Agree(r)

-----------------------------------------------------------------------------

LEMMA InitIndInv == Init => IndInv
<1> SUFFICES ASSUME Init PROVE IndInv
  OBVIOUS
<1>1. Types
  BY DEF Init, Types, Outcomes, CallStates, Unset
<1>2. MapSound /\ MapComplete
  BY DEF Init, MapSound, MapComplete, Registered
<1>3. \A r \in Requests : Agree(r)
  BY DEF Init, Agree, Registered, Unset
<1> QED
  BY <1>1, <1>2, <1>3 DEF IndInv

(* resolve() and expire() find an open entry and settle only that.           *)
LEMMA SettleKeeps ==
  ASSUME IndInv, NEW id \in Ids, Open(id), NEW outcome \in Decisions \cup {"null"},
         Settle(pending[id], outcome),
         UNCHANGED <<pending, wait, consumed>>,
         call' \in [Requests -> CallStates],
         \A r \in Requests : /\ Registered(r)' <=> Registered(r)
                             /\ call'[r] = "forwarding" => call[r] = "forwarding"
  PROVE  IndInv'
<1> DEFINE e == pending[id]
<1>1. /\ e \in Requests /\ IdOf[e] = id /\ Registered(e)
      /\ promise[e] = "open" /\ decision[e] = "none" /\ consumed[e] = 0
  BY DEF IndInv, Types, MapSound, Agree, Open
<1>2. /\ outcome # "open"
      /\ \A r \in Requests \ {e} :
           /\ promise'[r] = promise[r] /\ decision'[r] = decision[r]
           /\ grace'[r] = grace[r] /\ timer'[r] = timer[r]
      /\ promise'[e] = outcome /\ timer'[e] = Unset /\ grace'[e] = Grace
      /\ decision'[e] \in {outcome, "none"}
  BY <1>1, ApprovalAssumption DEF IndInv, Types, Settle
<1> HIDE DEF e
<1>3. Types'
  <2>1. /\ promise' = [promise EXCEPT ![e] = outcome]
        /\ decision' = [decision EXCEPT ![e] = IF outcome = "null" THEN "none" ELSE outcome]
        /\ grace' = [grace EXCEPT ![e] = Grace]
        /\ timer' = [timer EXCEPT ![e] = Unset]
    BY DEF Settle, e
  <2>2. outcome \in Outcomes /\ Grace \in 0..Grace
    BY ApprovalAssumption DEF Outcomes
  <2> QED
    BY <1>1, <2>1, <2>2 DEF IndInv, Types
<1>4. MapSound'
  BY DEF IndInv, MapSound, Types
<1>5. MapComplete'
  <2> SUFFICES ASSUME NEW r \in Requests, Registered(r),
                      promise'[r] = "open" \/ grace'[r] # Unset \/ call'[r] = "forwarding"
               PROVE  pending[IdOf[r]] = r
    BY DEF MapComplete
  <2>1. CASE r = e
    BY <2>1, <1>1 DEF e
  <2>2. CASE r # e
    BY <2>2, <1>2 DEF IndInv, MapComplete
  <2> QED
    BY <2>1, <2>2
<1>6. \A r \in Requests : Agree(r)'
  <2> SUFFICES ASSUME NEW r \in Requests PROVE Agree(r)'
    OBVIOUS
  <2>1. CASE r = e
    BY <2>1, <1>1, <1>2 DEF Agree
  <2>2. CASE r # e
    BY <2>2, <1>2 DEF IndInv, Agree
  <2> QED
    BY <2>1, <2>2
<1> QED
  BY <1>3, <1>4, <1>5, <1>6 DEF IndInv

(* The same of expire(), which may find nothing to do.                       *)
LEMMA ExpireKeeps ==
  ASSUME IndInv, NEW id \in Ids, Expire(id),
         UNCHANGED <<pending, wait, consumed>>,
         call' \in [Requests -> CallStates],
         \A r \in Requests : /\ Registered(r)' <=> Registered(r)
                             /\ call'[r] = "forwarding" => call[r] = "forwarding"
  PROVE  IndInv'
<1>1. CASE Open(id)
  BY <1>1, SettleKeeps DEF Expire
<1>2. CASE ~Open(id)
  <2>1. UNCHANGED <<promise, decision, grace, timer>>
    BY <1>2 DEF Expire
  <2>2. Types'
    BY <2>1 DEF IndInv, Types
  <2>3. MapSound'
    BY <2>1 DEF IndInv, MapSound, Types
  <2>4. MapComplete'
    BY <2>1 DEF IndInv, MapComplete
  <2>5. \A r \in Requests : Agree(r)'
    BY <2>1 DEF IndInv, Agree
  <2> QED
    BY <2>2, <2>3, <2>4, <2>5 DEF IndInv
<1> QED
  BY <1>1, <1>2

LEMMA StepIndInv == IndInv /\ [Next]_vars => IndInv'
<1> SUFFICES ASSUME IndInv, [Next]_vars PROVE IndInv'
  OBVIOUS
<1> USE DEF CallStates
<1>1. ASSUME NEW r \in Requests, Request(r) PROVE IndInv'
  <2> DEFINE id == IdOf[r]
  <2>1. /\ call[r] = "new" /\ id \in Ids
        /\ UNCHANGED <<promise, decision, grace, wait, consumed>>
        /\ promise[r] = "open" /\ timer[r] = Unset /\ grace[r] = Unset
    BY <1>1 DEF Request, IndInv, Agree, Registered, Ids
  <2>2. CASE pending[id] # "none"
    <3>1. call' = [call EXCEPT ![r] = "refused"] /\ UNCHANGED <<pending, timer>>
      BY <1>1, <2>2 DEF Request
    <3>2. \A s \in Requests : /\ Registered(s)' <=> Registered(s)
                              /\ call'[s] = "forwarding" => call[s] = "forwarding"
      BY <2>1, <3>1 DEF Registered, IndInv, Types
    <3>3. Types'
      BY <2>1, <3>1 DEF IndInv, Types
    <3>4. MapSound'
      BY <2>1, <3>1, <3>2 DEF IndInv, MapSound, Types
    <3>5. MapComplete'
      BY <2>1, <3>1, <3>2 DEF IndInv, MapComplete
    <3>6. \A s \in Requests : Agree(s)'
      BY <2>1, <3>1, <3>2 DEF IndInv, Agree
    <3> QED
      BY <3>3, <3>4, <3>5, <3>6 DEF IndInv
  <2>3. CASE pending[id] = "none"
    <3>1. /\ call' = [call EXCEPT ![r] = "forwarding"]
          /\ pending' = [pending EXCEPT ![id] = r]
          /\ timer' = [timer EXCEPT ![r] = Timeout]
      BY <1>1, <2>3 DEF Request
    <3>2. /\ Registered(r)'
          /\ \A s \in Requests \ {r} : /\ Registered(s)' <=> Registered(s)
                                       /\ call'[s] = call[s]
      BY <2>1, <3>1 DEF Registered, IndInv, Types
    <3>3. Types'
      BY <2>1, <3>1, ApprovalAssumption DEF IndInv, Types
    <3>4. MapSound'
      <4> SUFFICES ASSUME NEW k \in Ids, pending'[k] # "none"
                   PROVE  (IdOf[pending[k]] = k /\ Registered(pending[k]))'
        BY DEF MapSound
      <4>1. CASE k = id
        BY <4>1, <2>1, <3>1, <3>2 DEF IndInv, Types
      <4>2. CASE k # id
        <5>1. pending'[k] = pending[k] /\ pending[k] \in Requests
          BY <4>2, <2>1, <3>1 DEF IndInv, Types
        <5>2. IdOf[pending[k]] = k /\ Registered(pending[k])
          BY <5>1, ApprovalAssumption DEF IndInv, MapSound
        <5> QED
          BY <5>1, <5>2, <4>2, <3>2
      <4> QED
        BY <4>1, <4>2
    <3>5. MapComplete'
      <4> SUFFICES ASSUME NEW s \in Requests, Registered(s)',
                          promise'[s] = "open" \/ grace'[s] # Unset \/ call'[s] = "forwarding"
                   PROVE  pending'[IdOf[s]] = s
        BY DEF MapComplete
      <4>1. CASE s = r
        BY <4>1, <2>1, <3>1 DEF IndInv, Types
      <4>2. CASE s # r
        <5>1. pending[IdOf[s]] = s /\ IdOf[s] \in Ids
          BY <4>2, <2>1, <3>2 DEF IndInv, MapComplete, Ids
        <5>2. IdOf[s] # id
          BY <5>1, <2>3, ApprovalAssumption
        <5> QED
          BY <5>1, <5>2, <3>1 DEF IndInv, Types
      <4> QED
        BY <4>1, <4>2
    <3>6. \A s \in Requests : Agree(s)'
      <4> SUFFICES ASSUME NEW s \in Requests PROVE Agree(s)'
        OBVIOUS
      <4>1. CASE s = r
        <5>1. timer'[r] = Timeout /\ Timeout # Unset
          BY <3>1, ApprovalAssumption DEF IndInv, Types, Unset
        <5> QED
          BY <4>1, <5>1, <2>1, <3>2 DEF IndInv, Agree
      <4>2. CASE s # r
        BY <4>2, <2>1, <3>1, <3>2 DEF IndInv, Agree, Types
      <4> QED
        BY <4>1, <4>2
    <3> QED
      BY <3>3, <3>4, <3>5, <3>6 DEF IndInv
  <2> QED
    BY <2>2, <2>3
<1>2. ASSUME NEW r \in Requests, Forwarded(r) PROVE IndInv'
  <2>1. /\ call' = [call EXCEPT ![r] = "deciding"] /\ call[r] = "forwarding"
        /\ UNCHANGED <<pending, wait, consumed>>
        /\ Expire(IdOf[r]) \/ UNCHANGED <<promise, decision, grace, timer>>
    BY <1>2 DEF Forwarded
  <2>2. \A s \in Requests : /\ Registered(s)' <=> Registered(s)
                            /\ call'[s] = "forwarding" => call[s] = "forwarding"
    BY <2>1 DEF Registered, IndInv, Types
  <2>3. call' \in [Requests -> CallStates] /\ IdOf[r] \in Ids
    BY <2>1 DEF IndInv, Types, Ids
  <2>4. CASE Expire(IdOf[r])
    BY <2>1, <2>2, <2>3, <2>4, ExpireKeeps
  <2>5. CASE UNCHANGED <<promise, decision, grace, timer>>
    <3>1. Types'
      BY <2>1, <2>3, <2>5 DEF IndInv, Types
    <3>2. MapSound'
      BY <2>1, <2>2, <2>5 DEF IndInv, MapSound, Types
    <3>3. MapComplete'
      BY <2>1, <2>2, <2>5 DEF IndInv, MapComplete
    <3>4. \A s \in Requests : Agree(s)'
      BY <2>1, <2>2, <2>5 DEF IndInv, Agree
    <3> QED
      BY <3>1, <3>2, <3>3, <3>4 DEF IndInv
  <2> QED
    BY <2>1, <2>4, <2>5
<1>3. ASSUME NEW r \in Requests, Answer(r) PROVE IndInv'
  <2>1. /\ call' = [call EXCEPT ![r] = "answered"] /\ call[r] = "deciding"
        /\ UNCHANGED <<pending, promise, decision, timer, grace, wait, consumed>>
    BY <1>3 DEF Answer
  <2>2. \A s \in Requests : /\ Registered(s)' <=> Registered(s)
                            /\ call'[s] = "forwarding" => call[s] = "forwarding"
    BY <2>1 DEF Registered, IndInv, Types
  <2>3. Types'
    BY <2>1 DEF IndInv, Types
  <2>4. MapSound'
    BY <2>1, <2>2 DEF IndInv, MapSound, Types
  <2>5. MapComplete'
    BY <2>1, <2>2 DEF IndInv, MapComplete
  <2>6. \A s \in Requests : Agree(s)'
    BY <2>1, <2>2 DEF IndInv, Agree
  <2> QED
    BY <2>3, <2>4, <2>5, <2>6 DEF IndInv
<1>4. ASSUME UNCHANGED <<pending, promise, decision, timer, grace, call, consumed>>,
             wait' \in [Waits -> Requests \cup {"unused", "refused"}]
      PROVE  IndInv'
  <2>1. Types'
    BY <1>4 DEF IndInv, Types
  <2>2. \A s \in Requests : Registered(s)' <=> Registered(s)
    BY <1>4 DEF Registered
  <2>3. MapSound'
    BY <1>4, <2>2 DEF IndInv, MapSound, Types
  <2>4. MapComplete'
    BY <1>4, <2>2 DEF IndInv, MapComplete
  <2>5. \A s \in Requests : Agree(s)'
    BY <1>4, <2>2 DEF IndInv, Agree
  <2> QED
    BY <2>1, <2>3, <2>4, <2>5 DEF IndInv
<1>5. ASSUME NEW w \in Waits, NEW id \in Ids, Wait(w, id) PROVE IndInv'
  <2>1. wait' \in [Waits -> Requests \cup {"unused", "refused"}]
    BY <1>5 DEF Wait, IndInv, Types
  <2> QED
    BY <1>4, <1>5, <2>1 DEF Wait
<1>6. ASSUME NEW w \in Waits, WaitAnswered(w) PROVE IndInv'
  BY <1>4, <1>6 DEF WaitAnswered, IndInv, Types
<1>7. ASSUME NEW id \in Ids, NEW said \in Decisions, Resolve(id, said) PROVE IndInv'
  <2>1. call' \in [Requests -> CallStates] /\ \A s \in Requests : Registered(s)' <=> Registered(s)
    BY <1>7 DEF Resolve, Registered, IndInv, Types
  <2> QED
    BY <1>7, <2>1, SettleKeeps DEF Resolve
<1>8. ASSUME NEW id \in Ids, Consume(id) PROVE IndInv'
  <2> DEFINE e == pending[id]
  <2>1. /\ e \in Requests /\ decision[e] = "allow-once"
        /\ decision' = [decision EXCEPT ![e] = "none"]
        /\ consumed' = [consumed EXCEPT ![e] = @ + 1]
        /\ UNCHANGED <<pending, promise, timer, grace, call, wait>>
    BY <1>8 DEF Consume, IndInv, Types
  <2> HIDE DEF e
  <2>2. \A s \in Requests : Registered(s)' <=> Registered(s)
    BY <2>1 DEF Registered
  <2>3. Types'
    BY <2>1 DEF IndInv, Types
  <2>4. MapSound'
    BY <2>1, <2>2 DEF IndInv, MapSound, Types
  <2>5. MapComplete'
    BY <2>1, <2>2 DEF IndInv, MapComplete
  <2>6. \A s \in Requests : Agree(s)'
    <3> SUFFICES ASSUME NEW s \in Requests PROVE Agree(s)'
      OBVIOUS
    <3>1. CASE s = e
      <4>1. promise[e] = "allow-once" /\ consumed[e] = 0
        BY <2>1 DEF IndInv, Agree
      <4>2. decision'[e] = "none" /\ consumed'[e] = 1
        BY <2>1, <4>1 DEF IndInv, Types
      <4> QED
        BY <3>1, <4>1, <4>2, <2>1, <2>2 DEF IndInv, Agree
    <3>2. CASE s # e
      BY <3>2, <2>1, <2>2 DEF IndInv, Agree, Types
    <3> QED
      BY <3>1, <3>2
  <2> QED
    BY <2>3, <2>4, <2>5, <2>6 DEF IndInv
<1>9. ASSUME NEW r \in Requests, TimerFires(r) PROVE IndInv'
  <2>1. /\ call' \in [Requests -> CallStates] /\ IdOf[r] \in Ids
        /\ \A s \in Requests : Registered(s)' <=> Registered(s)
    BY <1>9 DEF TimerFires, Registered, IndInv, Types, Ids
  <2> QED
    BY <1>9, <2>1, ExpireKeeps DEF TimerFires
<1>10. ASSUME NEW r \in Requests, GraceEnds(r) PROVE IndInv'
  <2>1. /\ grace[r] = 0 /\ grace' = [grace EXCEPT ![r] = Unset]
        /\ pending' = IF pending[IdOf[r]] = r THEN [pending EXCEPT ![IdOf[r]] = "none"] ELSE pending
        /\ UNCHANGED <<promise, decision, timer, call, wait, consumed>>
        /\ \A s \in Requests : call[s] # "forwarding"
        /\ IdOf[r] \in Ids
    BY <1>10 DEF GraceEnds, Forwarding, Ids
  <2>2. promise[r] # "open"
    BY <2>1 DEF IndInv, Agree, Unset
  <2>3. \A s \in Requests : Registered(s)' <=> Registered(s)
    BY <2>1 DEF Registered
  <2>4. Types'
    BY <2>1 DEF IndInv, Types
  <2>5. MapSound'
    <3> SUFFICES ASSUME NEW k \in Ids, pending'[k] # "none"
                 PROVE  (IdOf[pending[k]] = k /\ Registered(pending[k]))'
      BY DEF MapSound
    <3>1. pending'[k] = pending[k] /\ pending[k] \in Requests
      BY <2>1 DEF IndInv, Types
    <3> QED
      BY <2>3, <3>1 DEF IndInv, MapSound
  <2>6. MapComplete'
    <3> SUFFICES ASSUME NEW s \in Requests, Registered(s)',
                        promise'[s] = "open" \/ grace'[s] # Unset \/ call'[s] = "forwarding"
                 PROVE  pending'[IdOf[s]] = s
      BY DEF MapComplete
    <3>1. s # r
      BY <2>1, <2>2 DEF IndInv, Types
    <3>2. pending[IdOf[s]] = s /\ IdOf[s] \in Ids
      BY <3>1, <2>1, <2>3 DEF IndInv, MapComplete, Types, Ids
    <3> QED
      BY <3>1, <3>2, <2>1 DEF IndInv, Types
  <2>7. \A s \in Requests : Agree(s)'
    <3> SUFFICES ASSUME NEW s \in Requests PROVE Agree(s)'
      OBVIOUS
    <3>1. promise[s] = "open" => grace'[s] = Unset
      BY <2>1 DEF IndInv, Agree, Types
    <3> QED
      BY <3>1, <2>1, <2>3 DEF IndInv, Agree
  <2> QED
    BY <2>4, <2>5, <2>6, <2>7 DEF IndInv
<1>11. ASSUME ClockTicks PROVE IndInv'
  <2>1. /\ timer' = [r \in Requests |-> Less(timer[r])]
        /\ grace' = [r \in Requests |-> Less(grace[r])]
        /\ UNCHANGED <<pending, promise, decision, call, wait, consumed>>
    BY <1>11 DEF ClockTicks
  <2>2. \A n \in Nat : \A k \in 0..n \cup {Unset} :
          /\ Less(k) \in 0..n \cup {Unset}
          /\ Less(k) = Unset <=> k = Unset
    BY DEF Less, Unset
  <2>3. /\ timer' \in [Requests -> 0..Timeout \cup {Unset}]
        /\ grace' \in [Requests -> 0..Grace \cup {Unset}]
        /\ \A r \in Requests : /\ timer'[r] = Unset <=> timer[r] = Unset
                               /\ grace'[r] = Unset <=> grace[r] = Unset
    <3>1. ASSUME NEW r \in Requests
          PROVE  /\ Less(timer[r]) \in 0..Timeout \cup {Unset}
                 /\ Less(grace[r]) \in 0..Grace \cup {Unset}
                 /\ Less(timer[r]) = Unset <=> timer[r] = Unset
                 /\ Less(grace[r]) = Unset <=> grace[r] = Unset
      <4>1. timer[r] \in 0..Timeout \cup {Unset} /\ grace[r] \in 0..Grace \cup {Unset}
        BY DEF IndInv, Types
      <4> QED
        BY <2>2, <4>1, ApprovalAssumption
    <3> QED
      BY <2>1, <3>1
  <2>4. \A s \in Requests : Registered(s)' <=> Registered(s)
    BY <2>1 DEF Registered
  <2>5. Types'
    BY <2>1, <2>3 DEF IndInv, Types
  <2>6. MapSound'
    BY <2>1, <2>4 DEF IndInv, MapSound, Types
  <2>7. MapComplete'
    BY <2>1, <2>3, <2>4 DEF IndInv, MapComplete
  <2>8. \A s \in Requests : Agree(s)'
    BY <2>1, <2>3, <2>4 DEF IndInv, Agree
  <2> QED
    BY <2>5, <2>6, <2>7, <2>8 DEF IndInv
<1>12. ASSUME UNCHANGED vars PROVE IndInv'
  BY <1>4, <1>12 DEF vars, IndInv, Types
<1> QED
  BY <1>1, <1>2, <1>3, <1>5, <1>6, <1>7, <1>8, <1>9, <1>10, <1>11, <1>12 DEF Next

(* The argument of the theorems below. *)
THEOREM Invariance == Spec => []IndInv
  BY InitIndInv, StepIndInv, PTL DEF Spec

-----------------------------------------------------------------------------

(* The variables hold values of their types, a timer runs exactly while its  *)
(* entry is open, and an entry is found by its id until its grace is over.   *)
THEOREM TypeCorrect == Spec => []TypeOK
<1>1. IndInv => TypeOK
  <2> SUFFICES ASSUME IndInv PROVE TypeOK
    OBVIOUS
  <2>1. \A id \in Ids : pending[id] = "none" \/ (pending[id] \in Requests /\ IdOf[pending[id]] = id)
    BY DEF IndInv, Types, MapSound
  <2>2. \A r \in Requests :
          /\ promise[r] \in Decisions \cup {"open", "null"}
          /\ decision[r] \in {promise[r], "none"}
          /\ timer[r] \in 0..Timeout \cup {Unset}
          /\ timer[r] # Unset <=> Registered(r) /\ promise[r] = "open"
          /\ grace[r] \in 0..Grace \cup {Unset}
          /\ consumed[r] \in Nat
          /\ call[r] \in CallStates
    BY DEF IndInv, Types, Agree, Outcomes
  <2>3. \A r \in Requests :
          Registered(r) /\ (promise[r] = "open" \/ grace[r] # Unset) => pending[IdOf[r]] = r
    BY DEF IndInv, MapComplete
  <2>4. \A w \in Waits : wait[w] \in Requests \cup {"unused", "refused"}
    BY DEF IndInv, Types
  <2> QED
    BY <2>1, <2>2, <2>3, <2>4 DEF TypeOK, CallStates
<1> QED
  BY <1>1, Invariance, PTL

(* No interleaving of decisions, expiries, retries under the same id and     *)
(* commands lets a one-time approval be used twice.                          *)
THEOREM UsedOnce == Spec => []ConsumedOnce
<1>1. IndInv => ConsumedOnce
  BY DEF IndInv, Agree, ConsumedOnce
<1> QED
  BY <1>1, Invariance, PTL

(* The timers find their entries by id, and yet expire only their own.       *)
THEOREM ExpiryIsOwn == Spec => NoForeignExpiry
<1> DEFINE Own(r) == promise[r] = "open" /\ promise'[r] = "null"
                       => timer[r] = 0 \/ (call[r] = "forwarding" /\ call'[r] = "deciding")
<1>1. ASSUME IndInv, [Next]_vars, NEW r \in Requests
      PROVE  Own(r)
  <2> SUFFICES ASSUME promise[r] = "open", promise'[r] = "null"
               PROVE  timer[r] = 0 \/ (call[r] = "forwarding" /\ call'[r] = "deciding")
    OBVIOUS
  <2>1. \A id \in Ids : Expire(id) => pending[id] = r
    BY <1>1 DEF IndInv, Types, Expire, Settle
  <2>2. ASSUME NEW s \in Requests, TimerFires(s) PROVE timer[r] = 0
    <3>1. pending[IdOf[s]] = r /\ timer[s] = 0 /\ IdOf[s] \in Ids
      BY <2>1, <2>2 DEF TimerFires, Ids
    <3>2. pending[IdOf[s]] = s
      BY <1>1, <3>1 DEF IndInv, Agree, MapComplete, Unset
    <3> QED
      BY <3>1, <3>2
  <2>3. ASSUME NEW s \in Requests, Forwarded(s)
        PROVE  call[r] = "forwarding" /\ call'[r] = "deciding"
    <3>1. /\ call[s] = "forwarding" /\ call' = [call EXCEPT ![s] = "deciding"]
          /\ IdOf[s] \in Ids /\ Expire(IdOf[s])
      BY <2>3 DEF Forwarded, Ids
    <3>2. pending[IdOf[s]] = s
      BY <1>1, <3>1 DEF IndInv, MapComplete, Registered
    <3> QED
      BY <1>1, <2>1, <3>1, <3>2 DEF IndInv, Types
  <2>4. ~\E id \in Ids, said \in Decisions : Resolve(id, said)
    <3> SUFFICES ASSUME NEW id \in Ids, NEW said \in Decisions, Resolve(id, said) PROVE FALSE
      OBVIOUS
    <3> QED
      BY <1>1, ApprovalAssumption DEF Resolve, Settle, IndInv, Types
  <2>5. ~UNCHANGED promise
    OBVIOUS
  <2>6. CASE \E s \in Requests : Request(s) \/ Answer(s) \/ GraceEnds(s)
    BY <2>5, <2>6 DEF Request, Answer, GraceEnds
  <2>7. CASE \E w \in Waits : WaitAnswered(w) \/ \E id \in Ids : Wait(w, id)
    BY <2>5, <2>7 DEF WaitAnswered, Wait
  <2>8. CASE ClockTicks \/ UNCHANGED vars \/ \E id \in Ids : Consume(id)
    BY <2>5, <2>8 DEF ClockTicks, vars, Consume
  <2> QED
    BY <1>1, <2>2, <2>3, <2>4, <2>6, <2>7, <2>8 DEF Next
<1>2. IndInv /\ [Next]_vars
        => [\A r \in Requests : promise[r] = "open" /\ promise'[r] = "null"
              => timer[r] = 0 \/ (call[r] = "forwarding" /\ call'[r] = "deciding")]_vars
  BY <1>1
<1> QED
  BY <1>2, Invariance, PTL DEF Spec, NoForeignExpiry
=============================================================================
