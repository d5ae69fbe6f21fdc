------------------------ MODULE DeliveryQueueProofs ------------------------
(* What the write-ahead queue promises, for any number of deliveries and     *)
(* payloads, all options, and any number of retries, crashes and restarts.   *)
EXTENDS DeliveryQueue, FiniteSetTheorems, TLAPS

CallType ==
  [pc : {"idle", "sending", "acking", "failing", "rewriting", "renaming", "done",
         "killed"},
   opt : [bestEffort : BOOLEAN, onError : BOOLEAN], next : Nat, partial : BOOLEAN, read : Entry]

RecoveryType ==
  [pc : {"off", "loading", "scan", "sending", "acking", "failing", "rewriting", "renaming",
         "moving", "ended"},
   todo : Seq(Deliveries), loaded : [Deliveries -> Entry], next : Nat, read : Entry]

(* An entry, on disk or read, carries the option it was accepted with.       *)
Fits(e, d) ==
  e.readable => e.present /\ accepted[d] = IF e.bestEffort THEN "bestEffort" ELSE "strict"

SentBefore(n, d) == \A k \in Payloads : k < n => k \in sent[d]

(* Nobody hears of the payloads that fail. *)
Unheard(opt) == opt.bestEffort /\ ~opt.onError

(* What a call knows of its delivery at each of its steps. *)
LiveOK(d) ==
  /\ live[d].next # 0
  /\ live[d].pc = "idle" => accepted[d] = "no" /\ live[d].next = 1 /\ ~live[d].partial
  /\ live[d].pc \notin {"idle", "killed"} =>
       accepted[d] = IF live[d].opt.bestEffort THEN "bestEffort" ELSE "strict"
  /\ live[d].pc = "killed" => ~live[d].opt.onError
  /\ live[d].partial => live[d].opt.bestEffort
  /\ live[d].pc = "sending" =>
       Unheard(live[d].opt) \/ live[d].partial \/ SentBefore(live[d].next, d)
  /\ live[d].pc = "acking" => Unheard(live[d].opt) \/ Reached(d) \/ d \in aborted
  /\ live[d].pc = "rewriting" =>
       live[d].read.readable /\ Fits(live[d].read, d)
  /\ live[d].pc \in {"idle", "done", "killed"} \/ up

(* A recovery is sure of the entries it has loaded, and of what it sent of   *)
(* the current one.                                                          *)
RecOK(r) ==
  /\ recovery[r].next # 0
  /\ recovery[r].pc \in {"off", "ended"} \/ up
  /\ r > boots => recovery[r].pc = "off"
  /\ recovery[r].pc \in {"off", "loading"} => \A d \in Deliveries : ~recovery[r].loaded[d].present
  /\ recovery[r].pc \in {"off", "loading", "scan"} => recovery[r].next = 1
  /\ \A i \in 1..Len(recovery[r].todo) : recovery[r].loaded[recovery[r].todo[i]].readable
  /\ \A d \in Deliveries : Fits(recovery[r].loaded[d], d)
  /\ recovery[r].pc \in Working => recovery[r].todo # <<>>
  /\ recovery[r].pc \in Working \ {"moving"} => Taken(r).retryCount < MaxRetries
  /\ recovery[r].pc = "sending" =>
       Taken(r).bestEffort \/ SentBefore(recovery[r].next, Current(r))
  /\ recovery[r].pc = "acking" => Taken(r).bestEffort \/ Reached(Current(r))
  /\ recovery[r].pc = "rewriting" => recovery[r].read.readable /\ Fits(recovery[r].read, Current(r))

(* A delivery whose failures come to somebody's notice. *)
Sure(d) ==
  \/ accepted[d] = "strict"
  \/ /\ accepted[d] = "bestEffort" /\ live[d].opt.onError
     /\ \A r \in Boots : ~recovery[r].loaded[d].present

FileOK(d) ==
  /\ Fits(file[d], d) /\ Fits(tmp[d], d)
  /\ Sure(d) => Kept(d)

IndInv ==
  /\ Types
  /\ \A d \in Deliveries : sent[d] \subseteq Payloads /\ LiveOK(d) /\ FileOK(d)
  /\ \A r \in Boots : RecOK(r)

-----------------------------------------------------------------------------

LEMMA InitIndInv == Init => IndInv
<1> SUFFICES ASSUME Init PROVE IndInv
  OBVIOUS
<1> USE DEF Init, IdleCall, NoRecovery, NoFile
<1>1. Types
  <2>1. NoFile \in Entry
    BY DEF Entry
  <2>2. IdleCall \in CallType
    BY <2>1 DEF CallType
  <2>3. NoRecovery \in RecoveryType
    BY <2>1 DEF RecoveryType
  <2>4. boots \in 0..MaxBoots
    BY BoundsAssumption
  <2> QED
    BY <2>1, <2>2, <2>3, <2>4 DEF Types, CallType, RecoveryType
<1>2. \A d \in Deliveries : sent[d] \subseteq Payloads /\ LiveOK(d) /\ FileOK(d)
  BY DEF LiveOK, FileOK, Fits, Sure
<1>3. \A r \in Boots : RecOK(r)
  BY DEF RecOK, Fits, Working
<1> QED
  BY <1>1, <1>2, <1>3 DEF IndInv

(* Nothing that was sent, accepted, failed or aborted is ever taken back.    *)
Grows ==
  /\ \A d \in Deliveries : sent[d] \subseteq sent'[d] /\ sent'[d] \subseteq Payloads
  /\ aborted \subseteq aborted' /\ failed \subseteq failed'
  /\ \A d \in Deliveries : accepted'[d] = accepted[d] \/ accepted[d] = "no"

LEMMA LiveFrame ==
  ASSUME NEW d \in Deliveries, LiveOK(d), Grows, up => up',
         live'[d] = live[d], accepted'[d] = accepted[d]
  PROVE  LiveOK(d)'
BY DEF LiveOK, Grows, SentBefore, Reached, Unheard, Fits

LEMMA RecFrame ==
  ASSUME Types, NEW r \in Boots, RecOK(r), Grows, recovery'[r] = recovery[r],
         r > boots' => r > boots, up => up'
  PROVE  RecOK(r)'
<1> DEFINE R == recovery[r]
<1>1. /\ R \in RecoveryType
      /\ R.todo # <<>> => Head(R.todo) \in Deliveries
  BY DEF Types, RecoveryType
<1>2. \A e \in Entry, d \in Deliveries : Fits(e, d) => Fits(e, d)'
  BY DEF Fits, Grows
<1>3. \A d \in Deliveries : /\ \A n \in Nat : SentBefore(n, d) => SentBefore(n, d)'
                            /\ Reached(d) => Reached(d)'
  BY DEF Grows, SentBefore, Reached
<1>4. /\ R.read \in Entry /\ R.next \in Nat
      /\ \A d \in Deliveries : R.loaded[d] \in Entry
  BY <1>1 DEF RecoveryType
<1>5. \A d \in Deliveries : Fits(R.loaded[d], d)'
  BY <1>2, <1>4 DEF RecOK
<1> QED
  BY <1>1, <1>2, <1>3, <1>4, <1>5 DEF RecOK, Taken, Current, Working

(* A step of one delivery's call. *)
LEMMA CallKeeps ==
  ASSUME IndInv, Types', Grows, NEW d \in Deliveries,
         UNCHANGED <<up, boots, failed, recovery>>,
         \A e \in Deliveries \ {d} :
            /\ live'[e] = live[e] /\ file'[e] = file[e] /\ tmp'[e] = tmp[e]
            /\ sent'[e] = sent[e] /\ accepted'[e] = accepted[e],
         LiveOK(d)', FileOK(d)'
  PROVE  IndInv'
<1>1. \A r \in Boots : RecOK(r)'
  BY RecFrame DEF IndInv
<1>2. \A e \in Deliveries \ {d} : LiveOK(e)'
  BY LiveFrame DEF IndInv
<1>3. \A e \in Deliveries \ {d} : FileOK(e)'
  BY DEF IndInv, FileOK, Fits, Sure, Kept, OnRecord, Reached, Grows
<1>4. \A e \in Deliveries : sent'[e] \subseteq Payloads
  BY DEF Grows
<1> QED
  BY <1>1, <1>2, <1>3, <1>4 DEF IndInv

(* A step of a recovery. *)
LEMMA RecoveryKeeps ==
  ASSUME IndInv, Types', Grows, NEW r \in Boots,
         UNCHANGED <<up, boots, live, accepted, aborted>>,
         \A s \in Boots \ {r} : recovery'[s] = recovery[s],
         RecOK(r)', \A d \in Deliveries : FileOK(d)'
  PROVE  IndInv'
<1>1. \A s \in Boots \ {r} : RecOK(s)'
  BY RecFrame DEF IndInv
<1>2. \A e \in Deliveries : LiveOK(e)'
  BY LiveFrame DEF IndInv
<1>3. \A e \in Deliveries : sent'[e] \subseteq Payloads
  BY DEF Grows
<1> QED
  BY <1>1, <1>2, <1>3 DEF IndInv

(* What failDelivery writes differs in the attempt only. *)
LEMMA FailedFacts ==
  ASSUME NEW e \in Entry
  PROVE  /\ Failed(e) \in Entry /\ Failed(e).attempted
         /\ Failed(e).present = e.present /\ Failed(e).readable = e.readable
         /\ Failed(e).bestEffort = e.bestEffort
<1> DEFINE f == [e EXCEPT !.retryCount = @ + 1]
<1>1. /\ f \in Entry /\ f.present = e.present /\ f.readable = e.readable
      /\ f.bestEffort = e.bestEffort
  BY DEF Entry
<1>2. Failed(e) = [f EXCEPT !.attempted = TRUE]
  BY DEF Failed
<1> HIDE DEF f
<1> QED
  BY <1>1, <1>2 DEF Entry

LEMMA NoFileFacts ==
  /\ NoFile \in Entry /\ ~NoFile.present /\ ~NoFile.readable
  /\ Garbled \in Entry /\ Garbled.present /\ ~Garbled.readable
BY DEF NoFile, Garbled, Entry

(* What a rewrite writes to the temporary file, or leaves there. *)
LEMMA WriteFacts ==
  ASSUME Types, NEW d \in Deliveries, Fits(tmp[d], d), NEW e \in Entry, Fits(e, d),
         NEW alone \in BOOLEAN, WritesTmp(d, e, alone) \/ WriteFails(d)
  PROVE  /\ tmp' \in [Deliveries -> Entry]
         /\ \A c \in Deliveries \ {d} : tmp'[c] = tmp[c]
         /\ Fits(tmp'[d], d)
         /\ UNCHANGED <<file, failed>>
         /\ \/ tmp'[d] \in {tmp[d], Garbled}
            \/ WritesTmp(d, e, alone) /\ tmp'[d] = e
<1>1. PICK content \in {e, tmp[d], Garbled} :
        /\ tmp' = [tmp EXCEPT ![d] = content]
        /\ content \in {tmp[d], Garbled} \/ WritesTmp(d, e, alone)
  BY DEF WritesTmp, WriteFails
<1>2. content \in Entry /\ Fits(content, d)
  BY NoFileFacts DEF Types, Fits
<1>3. UNCHANGED <<file, failed>>
  BY DEF WritesTmp, WriteFails
<1> QED
  BY <1>1, <1>2, <1>3 DEF Types

(* What the rename of it leaves: what was there, or the temporary file.      *)
LEMMA RenameFacts ==
  ASSUME Types, NEW d \in Deliveries, Fits(tmp[d], d), RenamesTmp(d)
  PROVE  /\ file' \in [Deliveries -> Entry] /\ tmp' \in [Deliveries -> Entry]
         /\ \A c \in Deliveries \ {d} : file'[c] = file[c] /\ tmp'[c] = tmp[c]
         /\ Fits(tmp'[d], d) /\ tmp'[d] \in {tmp[d], NoFile}
         /\ failed' = failed
         /\ \/ tmp[d].present /\ file'[d] = tmp[d]
            \/ file'[d] = file[d] /\ Swallowed(d)
<1>1. CASE UNCHANGED disk /\ Swallowed(d)
  BY <1>1 DEF disk, Types
<1>2. CASE /\ tmp[d].present
           /\ file' = [file EXCEPT ![d] = tmp[d]]
           /\ tmp' = [tmp EXCEPT ![d] = NoFile]
           /\ failed' = failed
  BY <1>2, NoFileFacts DEF Types, Fits
<1> QED
  BY <1>1, <1>2 DEF RenamesTmp

(* The types, from what becomes of one call or one recovery. *)
LEMMA CallTypes ==
  ASSUME Types, NEW d \in Deliveries, NEW L \in CallType,
         live' = [live EXCEPT ![d] = L],
         file' \in [Deliveries -> Entry], tmp' \in [Deliveries -> Entry],
         accepted' \in [Deliveries -> {"no", "strict", "bestEffort"}],
         sent' \in [Deliveries -> SUBSET Nat], aborted' \in SUBSET Deliveries,
         UNCHANGED <<up, boots, failed, recovery>>
  PROVE  Types'
<1>1. live' \in [Deliveries -> CallType]
  BY DEF Types, CallType
<1> QED
  BY <1>1 DEF Types, CallType

(* What is on disk is as good as before if only the call's place changed.    *)
LEMMA FileFrame ==
  ASSUME NEW d \in Deliveries, FileOK(d), Grows, sent[d] \subseteq Payloads,
         file'[d] = file[d], Fits(tmp'[d], d),
         accepted'[d] = accepted[d], Sure(d)' => Sure(d)
  PROVE  FileOK(d)'
BY DEF FileOK, Fits, Kept, OnRecord, Reached, Grows

(* A step of a call that writes no entry. *)
LEMMA CallMoves ==
  ASSUME IndInv, NEW d \in Deliveries, NEW L \in CallType, NEW k \in Payloads,
         live' = [live EXCEPT ![d] = L],
         L.opt = live[d].opt,
         sent' \in {sent, [sent EXCEPT ![d] = @ \cup {k}]},
         aborted' \in {aborted, aborted \cup {d}},
         tmp' \in [Deliveries -> Entry], Fits(tmp'[d], d),
         \A c \in Deliveries \ {d} : tmp'[c] = tmp[c],
         UNCHANGED <<up, boots, file, failed, recovery, accepted>>,
         LiveOK(d)'
  PROVE  IndInv'
<1>1. /\ Types /\ FileOK(d)
      /\ \A e \in Deliveries : sent[e] \subseteq Payloads
  BY DEF IndInv
<1>2. /\ live'[d] = L
      /\ \A e \in Deliveries \ {d} : live'[e] = live[e] /\ sent'[e] = sent[e]
      /\ sent' \in [Deliveries -> SUBSET Nat]
      /\ \A e \in Deliveries : sent[e] \subseteq sent'[e] /\ sent'[e] \subseteq Payloads
  <2>1. live \in [Deliveries -> CallType] /\ sent \in [Deliveries -> SUBSET Nat]
    BY <1>1 DEF Types, CallType
  <2>2. CASE sent' = sent
    BY <1>1, <2>1, <2>2
  <2>3. CASE sent' = [sent EXCEPT ![d] = @ \cup {k}]
    BY <1>1, <2>1, <2>3 DEF Payloads
  <2> QED
    BY <2>2, <2>3
<1>3. Types'
  <2>1. /\ file' \in [Deliveries -> Entry] /\ aborted' \in SUBSET Deliveries
        /\ accepted' \in [Deliveries -> {"no", "strict", "bestEffort"}]
    BY <1>1 DEF Types
  <2> QED
    BY <1>1, <1>2, <2>1, CallTypes
<1>4. Grows
  BY <1>2 DEF Grows
<1>5. Sure(d)' => Sure(d)
  BY <1>2 DEF Sure
<1>6. FileOK(d)'
  BY <1>1, <1>2, <1>4, <1>5, FileFrame
<1> QED
  BY <1>2, <1>3, <1>4, <1>6, CallKeeps

(* The record of a call that is over. *)
LEMMA DoneCall ==
  ASSUME NEW o \in [bestEffort : BOOLEAN, onError : BOOLEAN]
  PROVE  \E L \in CallType :
           /\ L = [IdleCall EXCEPT !.pc = "done", !.opt = o]
           /\ L.pc = "done" /\ L.opt = o /\ L.next # 0 /\ ~L.partial
<1> DEFINE A == [IdleCall EXCEPT !.pc = "done"]
           L == [A EXCEPT !.opt = o]
<1>1. L \in CallType /\ L.pc = "done" /\ L.opt = o /\ L.next # 0 /\ ~L.partial
  <2>1. IdleCall \in CallType /\ IdleCall.next = 1 /\ IdleCall.partial = FALSE
    BY NoFileFacts DEF IdleCall, CallType
  <2>2. A \in CallType /\ A.pc = "done" /\ A.next = 1 /\ A.partial = FALSE
    BY <2>1 DEF CallType
  <2> HIDE DEF A
  <2> QED
    BY <2>2 DEF CallType
<1>2. L = [IdleCall EXCEPT !.pc = "done", !.opt = o]
  OBVIOUS
<1> QED
  BY <1>1, <1>2

(* The end of a call that writes or removes its entry. *)
LEMMA CallWrites ==
  ASSUME IndInv, NEW d \in Deliveries, NEW L \in CallType,
         live[d].pc \notin {"idle", "killed"},
         L.pc = "done" /\ L.opt = live[d].opt /\ L.next # 0 /\ ~L.partial,
         live' = [live EXCEPT ![d] = L],
         file' \in [Deliveries -> Entry], tmp' \in [Deliveries -> Entry],
         \A c \in Deliveries \ {d} : file'[c] = file[c] /\ tmp'[c] = tmp[c],
         Fits(file'[d], d), Fits(tmp'[d], d),
         UNCHANGED <<up, boots, failed, recovery, accepted, sent, aborted>>,
         Sure(d) => Kept(d)'
  PROVE  IndInv'
<1>1. Types /\ LiveOK(d) /\ \A c \in Deliveries : sent[c] \subseteq Payloads
  BY DEF IndInv
<1>4. Types'
  <2>1. /\ aborted' \in SUBSET Deliveries /\ sent' \in [Deliveries -> SUBSET Nat]
        /\ accepted' \in [Deliveries -> {"no", "strict", "bestEffort"}]
    BY <1>1 DEF Types
  <2> QED
    BY <1>1, <2>1, CallTypes
<1>5. live'[d] = L /\ \A c \in Deliveries \ {d} : live'[c] = live[c]
  BY <1>1 DEF Types
<1>6. Grows
  BY <1>1 DEF Grows
<1>7. LiveOK(d)'
  BY <1>1, <1>5 DEF LiveOK
<1>8. Sure(d)' => Sure(d)
  BY <1>5 DEF Sure
<1>9. FileOK(d)'
  BY <1>5, <1>8 DEF FileOK, Fits
<1> QED
  BY <1>4, <1>5, <1>6, <1>7, <1>9, CallKeeps

(* ... nor the temporary file. *)
LEMMA CallStays ==
  ASSUME IndInv, NEW d \in Deliveries, NEW L \in CallType, NEW k \in Payloads,
         live' = [live EXCEPT ![d] = L],
         L.opt = live[d].opt,
         sent' \in {sent, [sent EXCEPT ![d] = @ \cup {k}]},
         aborted' \in {aborted, aborted \cup {d}},
         UNCHANGED <<up, boots, file, tmp, failed, recovery, accepted>>,
         LiveOK(d)'
  PROVE  IndInv'
<1>1. tmp' \in [Deliveries -> Entry] /\ Fits(tmp'[d], d)
  BY DEF IndInv, Types, FileOK
<1> QED
  BY <1>1, CallMoves

LEMMA CallStep ==
  ASSUME IndInv, NEW d \in Deliveries,
         LiveStep(d) \/ \E opt \in Options : Persist(d, opt)
  PROVE  IndInv'
<1> USE DEF disk, story
<1>1. /\ Types /\ live[d] \in CallType /\ LiveOK(d) /\ FileOK(d)
      /\ \A e \in Deliveries : sent[e] \subseteq Payloads
      /\ file \in [Deliveries -> Entry] /\ tmp \in [Deliveries -> Entry]
  BY DEF IndInv, Types, CallType
<1>2. 1 \in Payloads
  BY PayloadsAssumption DEF Payloads
<1>3. PICK over \in CallType :
        /\ over = [IdleCall EXCEPT !.pc = "done", !.opt = live[d].opt]
        /\ over.pc = "done" /\ over.opt = live[d].opt /\ over.next # 0 /\ ~over.partial
  <2>1. live[d].opt \in [bestEffort : BOOLEAN, onError : BOOLEAN]
    BY <1>1 DEF CallType
  <2> QED
    BY <2>1, DoneCall
(* A call that ends without its entry being touched. *)
<1>4. ASSUME live[d].pc \notin {"idle", "killed"}, LiveEnds(d),
             UNCHANGED <<up, boots, file, failed, recovery, accepted, sent, aborted>>,
             tmp' \in [Deliveries -> Entry], Fits(tmp'[d], d),
             \A c \in Deliveries \ {d} : tmp'[c] = tmp[c]
      PROVE  IndInv'
  <2>1. live' = [live EXCEPT ![d] = over]
    BY <1>3, <1>4 DEF LiveEnds
  <2>2. live'[d] = over
    BY <1>1, <2>1 DEF Types
  <2>3. LiveOK(d)'
    BY <1>1, <1>3, <1>4, <2>2 DEF LiveOK
  <2> QED
    BY <1>2, <1>3, <1>4, <2>1, <2>3, CallMoves
<1>5. ASSUME NEW opt \in Options, Persist(d, opt) PROVE IndInv'
  <2> DEFINE A == [live[d] EXCEPT !.pc = "sending"]
             L == [A EXCEPT !.opt = opt]
  <2>1. /\ live[d].pc = "idle" /\ up
        /\ file' = [file EXCEPT ![d] = NewFile(opt)]
        /\ accepted' = [accepted EXCEPT ![d] = IF opt.bestEffort THEN "bestEffort" ELSE "strict"]
        /\ live' = [live EXCEPT ![d].pc = "sending", ![d].opt = opt]
        /\ UNCHANGED <<up, boots, tmp, failed, recovery, sent, aborted>>
    BY <1>5 DEF Persist
  <2>2. /\ opt \in [bestEffort : BOOLEAN, onError : BOOLEAN]
        /\ NewFile(opt) \in Entry
        /\ NewFile(opt).present /\ NewFile(opt).bestEffort = opt.bestEffort
    BY NoFileFacts, OptionsAssumption DEF NewFile, NoFile, Entry
  <2>3. L \in CallType /\ L.pc = "sending" /\ L.opt = opt /\ L.next = 1 /\ ~L.partial
    BY <1>1, <2>1, <2>2 DEF CallType, LiveOK
  <2>4. live' = [live EXCEPT ![d] = L]
    BY <1>1, <2>1 DEF Types
  <2> HIDE DEF L
  <2>5. Types'
    <3>1. /\ accepted' \in [Deliveries -> {"no", "strict", "bestEffort"}]
          /\ sent' \in [Deliveries -> SUBSET Nat] /\ aborted' \in SUBSET Deliveries
          /\ file' \in [Deliveries -> Entry] /\ tmp' \in [Deliveries -> Entry]
      BY <1>1, <2>1, <2>2 DEF Types
    <3> QED
      BY <1>1, <2>1, <2>3, <2>4, <3>1, CallTypes
  <2>6. Grows
    BY <1>1, <2>1 DEF Types, Grows, LiveOK
  <2>7. /\ live'[d] = L /\ file'[d] = NewFile(opt)
        /\ accepted'[d] = IF opt.bestEffort THEN "bestEffort" ELSE "strict"
    BY <1>1, <2>1, <2>4 DEF Types
  <2>8. LiveOK(d)'
    <3>1. up'
      BY <2>1
    <3> QED
      BY <2>2, <2>3, <2>7, <3>1 DEF LiveOK, SentBefore, Payloads
  <2>9. ~tmp'[d].readable
    BY <1>1, <2>1 DEF FileOK, Fits, LiveOK
  <2>10. FileOK(d)'
    BY <2>2, <2>3, <2>7, <2>9 DEF FileOK, Fits, Kept, OnRecord
  <2>11. \A e \in Deliveries \ {d} :
            /\ live'[e] = live[e] /\ file'[e] = file[e] /\ tmp'[e] = tmp[e]
            /\ sent'[e] = sent[e] /\ accepted'[e] = accepted[e]
    BY <1>1, <2>1, <2>4 DEF Types
  <2> QED
    BY <2>1, <2>5, <2>6, <2>8, <2>10, <2>11, CallKeeps
<1>6. ASSUME LiveSends(d) PROVE IndInv'
  <2> DEFINE L == [live[d] EXCEPT !.next = @ + 1]
  <2>1. /\ live[d].pc = "sending" /\ live[d].next <= NumPayloads
        /\ sent' = [sent EXCEPT ![d] = @ \cup {live[d].next}]
        /\ live' = [live EXCEPT ![d].next = @ + 1]
        /\ UNCHANGED <<up, boots, file, tmp, failed, recovery, accepted, aborted>>
    BY <1>6 DEF LiveSends
  <2>2. /\ L \in CallType /\ L.pc = "sending" /\ L.opt = live[d].opt
        /\ L.partial = live[d].partial /\ L.next = live[d].next + 1 /\ live[d].next \in Nat
    BY <1>1, <2>1 DEF CallType
  <2>3. live' = [live EXCEPT ![d] = L]
    BY <2>1
  <2> HIDE DEF L
  <2>4. live'[d] = L /\ sent'[d] = sent[d] \cup {live[d].next}
    BY <1>1, <2>1, <2>3 DEF Types
  <2>5. live[d].next \in Payloads
    BY <1>1, <2>1, <2>2, PayloadsAssumption DEF LiveOK, Payloads
  <2>6. LiveOK(d)'
    BY <1>1, <2>1, <2>2, <2>4, <2>5 DEF LiveOK, SentBefore, Payloads
  <2> QED
    BY <2>1, <2>2, <2>3, <2>5, <2>6, CallStays
<1>7. ASSUME LiveSkips(d) PROVE IndInv'
  <2> DEFINE A == [live[d] EXCEPT !.next = @ + 1]
             L == [A EXCEPT !.partial = @ \/ live[d].opt.onError]
  <2>1. /\ live[d].pc = "sending" /\ live[d].opt.bestEffort
        /\ live' = [live EXCEPT ![d].next = @ + 1, ![d].partial = @ \/ live[d].opt.onError]
        /\ UNCHANGED <<up, boots, file, tmp, failed, recovery, accepted, sent, aborted>>
    BY <1>7 DEF LiveSkips
  <2>2. /\ L \in CallType /\ L.pc = "sending" /\ L.opt = live[d].opt
        /\ L.partial = (live[d].partial \/ live[d].opt.onError) /\ L.next # 0
    <3>1. /\ A \in CallType /\ A.pc = "sending" /\ A.opt = live[d].opt
          /\ A.partial = live[d].partial /\ A.next # 0
      BY <1>1, <2>1 DEF CallType
    <3>2. (A.partial \/ live[d].opt.onError) \in BOOLEAN
      OBVIOUS
    <3> HIDE DEF A
    <3> QED
      BY <3>1, <3>2 DEF CallType
  <2>3. live' = [live EXCEPT ![d] = L]
    BY <1>1, <2>1 DEF Types
  <2> HIDE DEF L
  <2>4. live'[d] = L
    BY <1>1, <2>3 DEF Types
  <2>5. LiveOK(d)'
    BY <1>1, <2>1, <2>2, <2>4 DEF LiveOK, Unheard
  <2> QED
    BY <1>2, <2>1, <2>2, <2>3, <2>5, CallStays
<1>8. ASSUME NEW pc \in {"failing", "acking"},
             live' = [live EXCEPT ![d].pc = pc],
             live[d].pc = "sending",
             aborted' \in {aborted, aborted \cup {d}},
             UNCHANGED <<up, boots, file, tmp, failed, recovery, accepted, sent>>,
             pc = "acking" => Unheard(live[d].opt) \/ Reached(d) \/ d \in aborted'
      PROVE  IndInv'
  <2> DEFINE L == [live[d] EXCEPT !.pc = pc]
  <2>1. /\ L \in CallType /\ L.pc = pc /\ L.opt = live[d].opt
        /\ L.partial = live[d].partial /\ L.next = live[d].next
    BY <1>1, <1>8 DEF CallType
  <2>2. live' = [live EXCEPT ![d] = L]
    BY <1>8
  <2> HIDE DEF L
  <2>3. live'[d] = L
    BY <1>1, <2>2 DEF Types
  <2>4. LiveOK(d)'
    BY <1>1, <1>8, <2>1, <2>3 DEF LiveOK, Reached
  <2> QED
    BY <1>2, <1>8, <2>1, <2>2, <2>4, CallStays
<1>9. ASSUME LiveThrows(d) \/ LiveAborts(d) PROVE IndInv'
  BY <1>8, <1>9 DEF LiveThrows, LiveAborts
<1>10. ASSUME LiveReturns(d) PROVE IndInv'
  <2> DEFINE pc == IF live[d].partial THEN "failing" ELSE "acking"
  <2>1. /\ live[d].pc = "sending" /\ live[d].next > NumPayloads /\ live[d].next \in Nat
        /\ live' = [live EXCEPT ![d].pc = pc]
        /\ UNCHANGED <<up, boots, file, tmp, failed, recovery, accepted, sent, aborted>>
    BY <1>1, <1>10 DEF LiveReturns, CallType
  <2>2. SentBefore(live[d].next, d) => Reached(d)
    <3>1. \A k \in Payloads : k < live[d].next
      BY <2>1, PayloadsAssumption DEF Payloads
    <3> QED
      BY <1>1, <3>1 DEF SentBefore, Reached
  <2>3. pc = "acking" => Unheard(live[d].opt) \/ Reached(d)
    BY <1>1, <2>1, <2>2 DEF LiveOK
  <2>4. pc \in {"failing", "acking"}
    OBVIOUS
  <2> HIDE DEF pc
  <2> QED
    BY <1>8, <2>1, <2>3, <2>4
<1>11. ASSUME LiveAcks(d) PROVE IndInv'
  <2>1. /\ live[d].pc = "acking" /\ LiveEnds(d)
        /\ UNCHANGED <<up, boots, tmp, failed, recovery, accepted, sent, aborted>>
        /\ file' \in {file, [file EXCEPT ![d] = NoFile]}
    BY <1>11 DEF LiveAcks
  <2>2. Sure(d) => Reached(d) \/ d \in aborted
    BY <1>1, <2>1 DEF Sure, LiveOK, Unheard
  <2>3. Sure(d) => Kept(d)'
    BY <2>1, <2>2 DEF Kept, Reached
  <2>4. /\ file' \in [Deliveries -> Entry] /\ Fits(file'[d], d)
        /\ \A c \in Deliveries \ {d} : file'[c] = file[c]
    BY <1>1, <2>1, NoFileFacts DEF FileOK, Fits
  <2>5. tmp' \in [Deliveries -> Entry] /\ Fits(tmp'[d], d)
    BY <1>1, <2>1 DEF FileOK
  <2>6. live' = [live EXCEPT ![d] = over]
    BY <1>3, <2>1 DEF LiveEnds
  <2> QED
    BY <1>3, <2>1, <2>3, <2>4, <2>5, <2>6, CallWrites
<1>12. ASSUME LiveReads(d) PROVE IndInv'
  <2>1. /\ live[d].pc = "failing"
        /\ UNCHANGED <<up, boots, file, tmp, failed, recovery, accepted, sent, aborted>>
        /\ \/ /\ file[d].readable
              /\ live' = [live EXCEPT ![d].pc = "rewriting", ![d].read = file[d]]
           \/ LiveEnds(d)
    BY <1>12 DEF LiveReads
  <2>2. CASE /\ file[d].readable
             /\ live' = [live EXCEPT ![d].pc = "rewriting", ![d].read = file[d]]
    <3> DEFINE A == [live[d] EXCEPT !.pc = "rewriting"]
               L == [A EXCEPT !.read = file[d]]
    <3>2. file[d] \in Entry
      BY <1>1
    <3>3. /\ L \in CallType /\ L.pc = "rewriting" /\ L.opt = live[d].opt
          /\ L.partial = live[d].partial /\ L.next = live[d].next /\ L.read = file[d]
      BY <1>1, <3>2 DEF CallType
    <3>4. live' = [live EXCEPT ![d] = L]
      BY <1>1, <2>2 DEF Types
    <3> HIDE DEF L
    <3>5. live'[d] = L
      BY <1>1, <3>4 DEF Types
    <3>6. Fits(live[d].read, d)'
      BY <1>1, <2>1, <3>3, <3>5 DEF FileOK, Fits
    <3>7. LiveOK(d)'
      BY <1>1, <2>1, <2>2, <3>3, <3>5, <3>6 DEF LiveOK
    <3> QED
      BY <1>2, <2>1, <3>3, <3>4, <3>7, CallStays
  <2>3. CASE LiveEnds(d)
    <3>1. tmp' \in [Deliveries -> Entry] /\ Fits(tmp'[d], d)
      BY <1>1, <2>1 DEF FileOK
    <3> QED
      BY <1>4, <2>1, <2>3, <3>1
  <2> QED
    BY <2>1, <2>2, <2>3
<1>13. ASSUME LiveWrites(d) PROVE IndInv'
  <2> DEFINE e == Failed(live[d].read)
             alone == Rewriters(d) = {}
  <2>1. /\ live[d].pc = "rewriting" /\ live[d].read \in Entry
        /\ live[d].read.readable /\ Fits(live[d].read, d)
    BY <1>1, <1>13 DEF LiveWrites, LiveOK, CallType
  <2>2. /\ \/ WritesTmp(d, e, alone) /\ live' = [live EXCEPT ![d].pc = "renaming"]
           \/ WriteFails(d) /\ LiveEnds(d)
        /\ UNCHANGED <<up, boots, recovery, accepted, sent, aborted>>
    BY <1>13 DEF LiveWrites
  <2>3. e \in Entry /\ Fits(e, d) /\ alone \in BOOLEAN
    BY <2>1, FailedFacts DEF Fits
  <2>4. Fits(tmp[d], d)
    BY <1>1 DEF FileOK
  <2> HIDE DEF e, alone
  <2>5. /\ tmp' \in [Deliveries -> Entry] /\ Fits(tmp'[d], d)
        /\ \A c \in Deliveries \ {d} : tmp'[c] = tmp[c]
        /\ UNCHANGED <<file, failed>>
    BY <1>1, <2>2, <2>3, <2>4, WriteFacts
  <2>6. CASE live' = [live EXCEPT ![d].pc = "renaming"]
    <3> DEFINE L == [live[d] EXCEPT !.pc = "renaming"]
    <3>1. /\ L \in CallType /\ L.pc = "renaming" /\ L.opt = live[d].opt
          /\ L.partial = live[d].partial /\ L.next = live[d].next
      BY <1>1 DEF CallType
    <3>2. live' = [live EXCEPT ![d] = L]
      BY <2>6
    <3> HIDE DEF L
    <3>3. live'[d] = L
      BY <1>1, <3>2 DEF Types
    <3>4. LiveOK(d)'
      BY <1>1, <2>1, <2>2, <3>1, <3>3 DEF LiveOK
    <3> QED
      BY <1>2, <2>2, <2>5, <3>1, <3>2, <3>4, CallMoves
  <2>7. CASE LiveEnds(d)
    BY <1>4, <2>1, <2>2, <2>5, <2>7
  <2> QED
    BY <2>2, <2>6, <2>7
<1>14. ASSUME LiveRenames(d) PROVE IndInv'
  <2>1. /\ live[d].pc = "renaming" /\ RenamesTmp(d) /\ LiveEnds(d)
        /\ UNCHANGED <<up, boots, recovery, accepted, sent, aborted>>
    BY <1>14 DEF LiveRenames
  <2>2. Fits(tmp[d], d) /\ Fits(file[d], d) /\ (Sure(d) => Kept(d))
    BY <1>1 DEF FileOK
  <2>3. /\ file' \in [Deliveries -> Entry] /\ tmp' \in [Deliveries -> Entry]
        /\ \A c \in Deliveries \ {d} : file'[c] = file[c] /\ tmp'[c] = tmp[c]
        /\ Fits(tmp'[d], d) /\ failed' = failed
        /\ (tmp[d].present /\ file'[d] = tmp[d]) \/ file'[d] = file[d]
    BY <1>1, <2>1, <2>2, RenameFacts
  <2>4. Fits(file'[d], d)
    BY <2>2, <2>3
  <2>5. Sure(d) => Kept(d)'
    BY <2>1, <2>2, <2>3 DEF Kept, OnRecord, Reached
  <2>6. live' = [live EXCEPT ![d] = over]
    BY <1>3, <2>1 DEF LiveEnds
  <2> QED
    BY <1>3, <2>1, <2>3, <2>4, <2>5, <2>6, CallWrites
<1> QED
  BY <1>5, <1>6, <1>7, <1>9, <1>10, <1>11, <1>12, <1>13, <1>14 DEF LiveStep

-----------------------------------------------------------------------------

(* A recovery's step away from its current entry: what it loaded stays.      *)
LEMMA RecoveryMovesOn ==
  ASSUME IndInv, NEW r \in Boots, NEW R \in RecoveryType,
         recovery' = [recovery EXCEPT ![r] = R], R.loaded = recovery[r].loaded,
         \A d \in Deliveries : sent[d] \subseteq sent'[d] /\ sent'[d] \subseteq Payloads,
         sent' \in [Deliveries -> SUBSET Nat],
         UNCHANGED <<up, boots, live, accepted, aborted>>,
         file' \in [Deliveries -> Entry], tmp' \in [Deliveries -> Entry],
         failed' \in SUBSET Deliveries, failed \subseteq failed',
         \A d \in Deliveries : Fits(tmp'[d], d),
         \A d \in Deliveries : file'[d] # file[d] =>
           /\ Fits(file'[d], d)
           /\ \/ recovery[r].loaded[d].present /\ accepted[d] # "strict"
              \/ file'[d].present \/ d \in failed' \/ Reached(d) \/ ~file[d].present,
         RecOK(r)'
  PROVE  IndInv'
<1>1. /\ Types /\ \A d \in Deliveries : FileOK(d) /\ sent[d] \subseteq Payloads
      /\ \A d \in Deliveries : Fits(tmp'[d], d)
      /\ recovery \in [Boots -> RecoveryType]
  BY DEF IndInv, Types, RecoveryType
<1>2. /\ recovery' \in [Boots -> RecoveryType] /\ recovery'[r] = R
      /\ \A s \in Boots \ {r} : recovery'[s] = recovery[s]
  BY <1>1
<1>3. Types'
  BY <1>1, <1>2 DEF Types, RecoveryType
<1>4. Grows
  BY <1>1 DEF Grows
<1>5. ASSUME NEW d \in Deliveries PROVE FileOK(d)'
  <2>1. /\ Sure(d)' => Sure(d)
        /\ Sure(d) => accepted[d] = "strict" \/ ~recovery[r].loaded[d].present
    BY <1>2 DEF Sure
  <2>2. Kept(d) => OnRecord(d) \/ Kept(d)'
    BY <1>1, <1>4 DEF Kept, Reached, Grows
  <2>3. CASE file'[d] = file[d]
    BY <1>1, <1>4, <2>1, <2>3 DEF FileOK, Fits, Kept, OnRecord, Reached, Grows
  <2>4. CASE file'[d] # file[d]
    <3>1. Fits(file[d], d)'
      BY <2>4 DEF Fits
    <3>2. ASSUME Sure(d) PROVE Kept(d)'
      <4>1. file'[d].present \/ d \in failed' \/ Reached(d) \/ ~file[d].present
        BY <2>1, <2>4, <3>2
      <4>2. OnRecord(d) \/ Kept(d)'
        BY <1>1, <2>2, <3>2 DEF FileOK
      <4> QED
        BY <1>1, <1>4, <4>1, <4>2 DEF Kept, OnRecord, Reached, Grows
    <3> QED
      BY <1>1, <2>1, <3>1, <3>2 DEF FileOK, Fits
  <2> QED
    BY <2>3, <2>4
<1> QED
  BY <1>2, <1>3, <1>4, <1>5, RecoveryKeeps

(* Advance: the entry is done with. *)
LEMMA AdvanceFacts ==
  ASSUME IndInv, NEW r \in Boots, recovery[r].pc \in Working \cup {"scan"},
         recovery[r].todo # <<>>, Advance(r), Grows, UNCHANGED <<up, boots, accepted>>
  PROVE  \E R \in RecoveryType :
           /\ recovery' = [recovery EXCEPT ![r] = R]
           /\ R.loaded = recovery[r].loaded
           /\ RecOK(r)'
<1> DEFINE T == recovery[r]
           A == [T EXCEPT !.pc = "scan"]
           B == [A EXCEPT !.todo = Tail(@)]
           C == [B EXCEPT !.next = 1]
           R == [C EXCEPT !.read = NoFile]
<1>1. Types /\ T \in RecoveryType /\ RecOK(r) /\ recovery \in [Boots -> RecoveryType]
  BY DEF IndInv, Types, RecoveryType
<1>2. /\ Tail(T.todo) \in Seq(Deliveries) /\ Len(Tail(T.todo)) = Len(T.todo) - 1
      /\ \A i \in 1..Len(Tail(T.todo)) : i + 1 \in 1..Len(T.todo) /\ Tail(T.todo)[i] = T.todo[i + 1]
  BY <1>1 DEF RecoveryType
<1>3. /\ R \in RecoveryType /\ R.pc = "scan" /\ R.todo = Tail(T.todo) /\ R.next = 1
      /\ R.loaded = T.loaded
  <2>1. A \in RecoveryType /\ A.pc = "scan" /\ A.todo = T.todo /\ A.loaded = T.loaded
    BY <1>1 DEF RecoveryType
  <2> HIDE DEF A
  <2>2. B \in RecoveryType /\ B.pc = "scan" /\ B.todo = Tail(T.todo) /\ B.loaded = T.loaded
    BY <1>2, <2>1 DEF RecoveryType
  <2> HIDE DEF B
  <2>3. /\ C \in RecoveryType /\ C.pc = "scan" /\ C.todo = Tail(T.todo) /\ C.loaded = T.loaded
        /\ C.next = 1
    BY <2>2 DEF RecoveryType
  <2> HIDE DEF C
  <2> QED
    BY <2>3, NoFileFacts DEF RecoveryType
<1>4. recovery' = [recovery EXCEPT ![r] = R]
  BY <1>1 DEF Advance
<1> HIDE DEF R
<1>5. recovery'[r] = R
  BY <1>1, <1>4
<1>6. \A i \in 1..Len(R.todo) : R.loaded[R.todo[i]].readable
  BY <1>1, <1>2, <1>3 DEF RecOK
<1>7. RecOK(r)'
  <2>1. \A d \in Deliveries : Fits(recovery[r].loaded[d], d)'
    BY <1>1, <1>3, <1>5 DEF RecOK, Fits
  <2>2. ~(r > boots) /\ boots' = boots /\ up'
    BY <1>1, BoundsAssumption DEF RecOK, Working, Types, Boots
  <2> QED
    <3>1. recovery'[r].pc = "scan" /\ recovery'[r].next = 1
      BY <1>3, <1>5
    <3>2. \A i \in 1..Len(recovery'[r].todo) : recovery'[r].loaded[recovery'[r].todo[i]].readable
      BY <1>5, <1>6
    <3> QED
      BY <3>1, <3>2, <2>1, <2>2 DEF RecOK, Working
<1> QED
  BY <1>3, <1>4, <1>7

(* The steps of a recovery. *)
LEMMA RecoveryStepKeeps ==
  ASSUME IndInv, NEW r \in Boots, RecoveryStep(r)
  PROVE  IndInv'
<1> USE DEF disk, story
<1> DEFINE T == recovery[r]
<1>1. /\ Types /\ T \in RecoveryType /\ RecOK(r)
      /\ recovery \in [Boots -> RecoveryType]
      /\ file \in [Deliveries -> Entry] /\ tmp \in [Deliveries -> Entry]
      /\ \A d \in Deliveries : /\ FileOK(d) /\ Fits(file[d], d) /\ Fits(tmp[d], d)
                               /\ file[d] \in Entry /\ T.loaded[d] \in Entry
                               /\ sent[d] \subseteq Payloads
  BY DEF IndInv, Types, RecoveryType, FileOK
<1>2. T.pc # "off" => r <= boots /\ ~(r > boots)
  BY <1>1, BoundsAssumption DEF RecOK, Types, Boots
<1>3. T.todo # <<>> => Current(r) \in Deliveries /\ Taken(r) \in Entry /\ Taken(r).readable
  BY <1>1 DEF Current, Taken, RecOK, RecoveryType
(* A step that changes only where the recovery is. *)
<1>4. ASSUME NEW R \in RecoveryType, recovery' = [recovery EXCEPT ![r] = R], R.loaded = T.loaded,
             UNCHANGED <<up, boots, file, tmp, failed, live, accepted, sent, aborted>>, RecOK(r)'
      PROVE  IndInv'
  <2>1. \A d \in Deliveries : sent[d] \subseteq sent'[d] /\ sent'[d] \subseteq Payloads
    BY <1>1, <1>4
  <2>2. /\ sent' \in [Deliveries -> SUBSET Nat] /\ failed' \in SUBSET Deliveries
        /\ file' \in [Deliveries -> Entry] /\ tmp' \in [Deliveries -> Entry]
        /\ \A d \in Deliveries : Fits(tmp'[d], d)
    BY <1>1, <1>4 DEF Types
  <2> QED
    BY <1>4, <2>1, <2>2, RecoveryMovesOn
<1>5. ASSUME NEW pc \in Working \cup {"ended"},
             recovery' = [recovery EXCEPT ![r].pc = pc], T.pc \notin {"off", "loading"},
             T.todo # <<>>,
             UNCHANGED <<up, boots, file, tmp, failed, live, accepted, sent, aborted>>,
             T.pc # "ended", pc = "sending" => T.next = 1, pc # "rewriting",
             pc \notin {"moving", "ended"} => Taken(r).retryCount < MaxRetries,
             pc = "acking" => Taken(r).bestEffort \/ Reached(Current(r))
      PROVE  IndInv'
  <2> DEFINE R == [T EXCEPT !.pc = pc]
  <2>1. /\ R \in RecoveryType /\ R.pc = pc /\ R.todo = T.todo /\ R.loaded = T.loaded
        /\ R.next = T.next
    BY <1>1 DEF RecoveryType, Working
  <2>2. recovery' = [recovery EXCEPT ![r] = R]
    BY <1>5
  <2> HIDE DEF R
  <2>3. recovery'[r] = R
    BY <1>1, <2>2
  <2>4. RecOK(r)'
    <3>1. /\ recovery'[r].pc = pc /\ recovery'[r].todo = T.todo /\ recovery'[r].loaded = T.loaded
          /\ recovery'[r].next = T.next
      BY <2>1, <2>3
    <3>2. Current(r)' = Current(r) /\ Taken(r)' = Taken(r)
      BY <3>1 DEF Current, Taken
    <3>3. \A d \in Deliveries : Fits(recovery[r].loaded[d], d)'
      BY <1>1, <1>5, <3>1 DEF RecOK, Fits
    <3>4. pc \notin {"off", "loading", "scan"} /\ T.next # 0 /\ up'
      BY <1>1, <1>5 DEF Working, RecOK
    <3>5. pc = "sending" => SentBefore(1, Current(r))
      BY DEF SentBefore, Payloads
    <3> QED
      BY <1>1, <1>2, <1>5, <3>1, <3>2, <3>3, <3>4, <3>5 DEF RecOK, SentBefore, Reached, Working
  <2> QED
    BY <1>4, <1>5, <2>1, <2>2, <2>4
(* A step that is over with its entry. *)
<1>6. ASSUME T.pc \in Working \cup {"scan"}, T.todo # <<>>, Advance(r),
             UNCHANGED <<up, boots, live, accepted, sent, aborted>>,
             file' \in [Deliveries -> Entry], tmp' \in [Deliveries -> Entry],
             failed' \in SUBSET Deliveries, failed \subseteq failed',
             \A d \in Deliveries : Fits(tmp'[d], d),
             \A d \in Deliveries : file'[d] # file[d] =>
               /\ Fits(file'[d], d)
               /\ \/ T.loaded[d].present /\ accepted[d] # "strict"
                  \/ file'[d].present \/ d \in failed' \/ Reached(d) \/ ~file[d].present
      PROVE  IndInv'
  <2>1. Grows
    BY <1>1, <1>6 DEF Grows
  <2>2. PICK R \in RecoveryType :
          recovery' = [recovery EXCEPT ![r] = R] /\ R.loaded = T.loaded /\ RecOK(r)'
    BY <1>6, <2>1, AdvanceFacts
  <2>3. /\ \A d \in Deliveries : sent[d] \subseteq sent'[d] /\ sent'[d] \subseteq Payloads
        /\ sent' \in [Deliveries -> SUBSET Nat]
    BY <1>1, <1>6 DEF Types
  <2> QED
    BY <1>6, <2>2, <2>3, RecoveryMovesOn
<1>7. ASSUME Load(r) PROVE IndInv'
  <2>1. /\ T.pc = "loading"
        /\ UNCHANGED <<up, boots, file, tmp, failed, live, accepted, sent, aborted>>
    BY <1>7 DEF Load
  <2>2. PICK S \in SUBSET {d \in Deliveries : file[d].readable} :
        \E order \in SetToSeqs(S) :
          recovery' = [recovery EXCEPT ![r].pc = "scan", ![r].todo = order,
            ![r].loaded = [d \in Deliveries |-> IF d \in S THEN file[d] ELSE NoFile]]
    BY <1>7 DEF Load
  <2> DEFINE loaded == [d \in Deliveries |-> IF d \in S THEN file[d] ELSE NoFile]
  <2>3. PICK order \in SetToSeqs(S) :
          recovery' = [recovery EXCEPT ![r].pc = "scan", ![r].todo = order, ![r].loaded = loaded]
    BY <2>2
  <2>4. /\ order \in Seq(Deliveries)
        /\ \A i \in 1..Len(order) : order[i] \in S
    <3>1. IsFiniteSet(S) /\ Cardinality(S) \in Nat
      BY <2>2, DeliveriesAssumption, FS_Subset, FS_CardinalityType
    <3>2. order \in [1..Cardinality(S) -> S]
      BY <2>3 DEF SetToSeqs
    <3>3. order \in Seq(S) /\ Len(order) = Cardinality(S)
      BY <3>1, <3>2
    <3>4. \A i \in 1..Len(order) : order[i] \in S
      BY <3>2, <3>3
    <3>5. S \subseteq Deliveries
      BY <2>2
    <3> QED
      BY <3>3, <3>4, <3>5
  <2>5. /\ loaded \in [Deliveries -> Entry]
        /\ \A d \in Deliveries : Fits(loaded[d], d)
        /\ \A i \in 1..Len(order) : loaded[order[i]].readable
    <3>1. \A d \in Deliveries : loaded[d] \in {file[d], NoFile} /\ (d \in S => loaded[d].readable)
      BY <2>2
    <3>2. \A i \in 1..Len(order) : order[i] \in Deliveries /\ order[i] \in S
      BY <2>2, <2>4
    <3>3. loaded \in [Deliveries -> Entry]
      BY <1>1, NoFileFacts
    <3> HIDE DEF loaded
    <3> QED
      BY <1>1, <3>1, <3>2, <3>3, NoFileFacts DEF Fits
  <2> HIDE DEF loaded
  <2> DEFINE A == [T EXCEPT !.pc = "scan"]
             B == [A EXCEPT !.todo = order]
             R == [B EXCEPT !.loaded = loaded]
  <2>6. /\ R \in RecoveryType /\ R.pc = "scan" /\ R.todo = order /\ R.loaded = loaded
        /\ R.next = T.next
    <3>1. A \in RecoveryType /\ A.pc = "scan" /\ A.next = T.next
      BY <1>1 DEF RecoveryType
    <3> HIDE DEF A
    <3>2. B \in RecoveryType /\ B.pc = "scan" /\ B.todo = order /\ B.next = T.next
      BY <2>4, <3>1 DEF RecoveryType
    <3> HIDE DEF B
    <3> QED
      BY <2>5, <3>2 DEF RecoveryType
  <2>7. recovery' = [recovery EXCEPT ![r] = R]
    BY <1>1, <2>3
  <2> HIDE DEF R
  <2>8. /\ recovery' \in [Boots -> RecoveryType] /\ recovery'[r] = R
        /\ \A s \in Boots \ {r} : recovery'[s] = recovery[s]
    BY <1>1, <2>6, <2>7
  <2>9. Types' /\ Grows
    BY <1>1, <2>1, <2>8 DEF Types, RecoveryType, Grows
  <2>10. RecOK(r)'
    <3>1. /\ recovery'[r].pc = "scan" /\ recovery'[r].todo = order
          /\ recovery'[r].loaded = loaded /\ recovery'[r].next = 1 /\ up'
      BY <1>1, <2>1, <2>6, <2>8 DEF RecOK
    <3>2. \A d \in Deliveries : Fits(recovery[r].loaded[d], d)'
      BY <2>1, <2>5, <3>1 DEF Fits
    <3> QED
      BY <1>2, <2>1, <2>5, <3>1, <3>2 DEF RecOK, Working
  <2>11. ASSUME NEW d \in Deliveries PROVE FileOK(d)'
    <3>1. ~T.loaded[d].present
      BY <1>1, <2>1 DEF RecOK
    <3>2. Sure(d)' => Sure(d)
      BY <2>1, <2>8, <3>1 DEF Sure
    <3>3. Fits(tmp'[d], d)
      BY <1>1, <2>1
    <3> QED
      BY <1>1, <2>1, <2>9, <3>2, <3>3, FileFrame
  <2> QED
    BY <2>1, <2>8, <2>9, <2>10, <2>11, RecoveryKeeps
<1>8. ASSUME EndRecovery(r) PROVE IndInv'
  <2> DEFINE R == [T EXCEPT !.pc = "ended"]
  <2>1. /\ T.pc = "scan"
        /\ recovery' = [recovery EXCEPT ![r].pc = "ended"]
        /\ UNCHANGED <<up, boots, file, tmp, failed, live, accepted, sent, aborted>>
    BY <1>8 DEF EndRecovery
  <2>2. R \in RecoveryType /\ R.pc = "ended" /\ R.todo = T.todo /\ R.loaded = T.loaded /\ R.next = T.next
    BY <1>1 DEF RecoveryType
  <2>3. recovery' = [recovery EXCEPT ![r] = R]
    BY <1>1, <2>1
  <2> HIDE DEF R
  <2>4. /\ recovery'[r].pc = "ended" /\ recovery'[r].todo = T.todo
        /\ recovery'[r].loaded = T.loaded /\ recovery'[r].next = T.next
    BY <1>1, <2>2, <2>3
  <2>5. RecOK(r)'
    <3>1. \A d \in Deliveries : Fits(recovery[r].loaded[d], d)'
      BY <1>1, <2>1, <2>4 DEF RecOK, Fits
    <3> QED
      BY <1>1, <1>2, <2>1, <2>4, <3>1 DEF RecOK, Working
  <2> QED
    BY <1>4, <2>1, <2>2, <2>3, <2>5
<1>9. ASSUME Defer(r) PROVE IndInv'
  <2>1. /\ T.pc = "scan" /\ T.todo # <<>> /\ Advance(r)
        /\ UNCHANGED <<up, boots, file, tmp, failed, live, accepted, sent, aborted>>
    BY <1>9 DEF Defer
  <2>2. failed' \in SUBSET Deliveries /\ failed \subseteq failed'
    BY <1>1, <2>1 DEF Types
  <2> QED
    BY <1>1, <1>6, <2>1, <2>2
<1>10. ASSUME Attempt(r) PROVE IndInv'
  <2> DEFINE pc == IF Taken(r).retryCount >= MaxRetries THEN "moving" ELSE "sending"
  <2>1. /\ T.pc = "scan" /\ T.todo # <<>> /\ pc \in {"moving", "sending"}
        /\ recovery' = [recovery EXCEPT ![r].pc = pc]
        /\ UNCHANGED <<up, boots, file, tmp, failed, live, accepted, sent, aborted>>
    BY <1>10 DEF Attempt
  <2>2. T.next = 1 /\ (pc # "moving" => Taken(r).retryCount < MaxRetries)
    <3>1. Taken(r).retryCount \in Nat
      BY <1>3, <2>1 DEF Entry
    <3> QED
      BY <1>1, <2>1, <3>1, BoundsAssumption DEF RecOK
  <2> HIDE DEF pc
  <2> QED
    BY <1>5, <2>1, <2>2 DEF Working
<1>11. ASSUME RecoverySends(r) \/ RecoverySkips(r) PROVE IndInv'
  <2> DEFINE R == [T EXCEPT !.next = @ + 1]
             c == Current(r)
  <2>1. /\ T.pc = "sending" /\ T.next <= NumPayloads /\ T.next \in Nat
        /\ recovery' = [recovery EXCEPT ![r].next = @ + 1]
        /\ UNCHANGED <<up, boots, file, tmp, failed, live, accepted, aborted>>
        /\ sent' \in {sent, [sent EXCEPT ![c] = @ \cup {T.next}]}
    BY <1>1, <1>11 DEF RecoverySends, RecoverySkips, RecoveryType
  <2>2. /\ T.todo # <<>> /\ c \in Deliveries /\ T.next \in Payloads
        /\ Taken(r).bestEffort \/ SentBefore(T.next, c)
    BY <1>1, <1>3, <2>1, PayloadsAssumption DEF RecOK, Working, Payloads
  <2>3. /\ R \in RecoveryType /\ R.pc = "sending" /\ R.todo = T.todo /\ R.loaded = T.loaded
        /\ R.next = T.next + 1
    <3>1. T.next + 1 \in Nat
      BY <2>1
    <3> QED
      BY <1>1, <2>1, <3>1 DEF RecoveryType
  <2>4. recovery' = [recovery EXCEPT ![r] = R]
    BY <2>1
  <2> HIDE DEF R
  <2>5. /\ recovery'[r].pc = "sending" /\ recovery'[r].todo = T.todo
        /\ recovery'[r].loaded = T.loaded /\ recovery'[r].next = T.next + 1
    BY <1>1, <2>3, <2>4
  <2> HIDE DEF c
  <2>6. /\ sent' \in [Deliveries -> SUBSET Nat]
        /\ \A d \in Deliveries : sent[d] \subseteq sent'[d] /\ sent'[d] \subseteq Payloads
    <3>1. sent \in [Deliveries -> SUBSET Nat]
      BY <1>1 DEF Types
    <3>2. CASE sent' = sent
      BY <1>1, <3>1, <3>2
    <3>3. CASE sent' = [sent EXCEPT ![c] = @ \cup {T.next}]
      BY <1>1, <2>1, <2>2, <3>1, <3>3
    <3> QED
      BY <2>1, <3>2, <3>3
  <2>7. Current(r)' = c /\ Taken(r)' = Taken(r)
    BY <2>5 DEF Current, Taken, c
  <2>8. Taken(r).bestEffort \/ \A k \in Payloads : k < T.next + 1 => k \in sent'[c]
    <3>1. CASE RecoverySkips(r)
      BY <3>1 DEF RecoverySkips
    <3>2. CASE RecoverySends(r) /\ SentBefore(T.next, c)
      <4>1. sent'[c] = sent[c] \cup {T.next}
        BY <1>1, <2>2, <3>2 DEF RecoverySends, Types, c
      <4>2. \A k \in Payloads : k < T.next + 1 => k < T.next \/ k = T.next
        BY <2>1, PayloadsAssumption DEF Payloads
      <4> QED
        BY <3>2, <4>1, <4>2 DEF SentBefore
    <3> QED
      BY <1>11, <2>2, <3>1, <3>2
  <2>9. RecOK(r)'
    <3>1. \A d \in Deliveries : Fits(recovery[r].loaded[d], d)'
      BY <1>1, <2>1, <2>5 DEF RecOK, Fits
    <3>2. Taken(r).bestEffort' \/ SentBefore(recovery[r].next, Current(r))'
      BY <2>5, <2>7, <2>8 DEF SentBefore
    <3>3. recovery'[r].next # 0 /\ up' /\ Taken(r)'.retryCount < MaxRetries
      BY <1>1, <2>1, <2>5, <2>7 DEF RecOK, Working
    <3> QED
      BY <1>1, <1>2, <2>1, <2>2, <2>5, <3>1, <3>2, <3>3 DEF RecOK, Working
  <2>10. /\ file' \in [Deliveries -> Entry] /\ tmp' \in [Deliveries -> Entry]
         /\ failed' \in SUBSET Deliveries /\ \A d \in Deliveries : Fits(tmp'[d], d)
    BY <1>1, <2>1 DEF Types
  <2> QED
    BY <2>1, <2>3, <2>4, <2>6, <2>9, <2>10, RecoveryMovesOn
<1>12. ASSUME RecoveryThrows(r) PROVE IndInv'
  <2>1. T.todo # <<>> /\ T.pc = "sending" /\ Taken(r).retryCount < MaxRetries
    BY <1>1, <1>12 DEF RecoveryThrows, RecOK, Working
  <2> QED
    BY <1>5, <1>12, <2>1 DEF RecoveryThrows, Working
<1>13. ASSUME RecoveryReturns(r) PROVE IndInv'
  <2>1. /\ T.pc = "sending" /\ T.next > NumPayloads /\ T.next \in Nat
        /\ recovery' = [recovery EXCEPT ![r].pc = "acking"]
        /\ UNCHANGED <<up, boots, file, tmp, failed, live, accepted, sent, aborted>>
    BY <1>1, <1>13 DEF RecoveryReturns, RecoveryType
  <2>2. /\ T.todo # <<>> /\ (Taken(r).bestEffort \/ SentBefore(T.next, Current(r)))
        /\ Taken(r).retryCount < MaxRetries
    BY <1>1, <2>1 DEF RecOK, Working
  <2>3. \A k \in Payloads : k < T.next
    BY <2>1, PayloadsAssumption DEF Payloads
  <2>4. Taken(r).bestEffort \/ Reached(Current(r))
    BY <1>1, <1>3, <2>2, <2>3 DEF SentBefore, Reached
  <2> QED
    BY <1>5, <2>1, <2>2, <2>4 DEF Working
<1>14. ASSUME RecoveryAcks(r) PROVE IndInv'
  <2> DEFINE c == Current(r)
  <2>1. /\ T.pc = "acking"
        /\ \/ file' = [file EXCEPT ![c] = NoFile] /\ Advance(r)
           \/ recovery' = [recovery EXCEPT ![r].pc = "failing"] /\ UNCHANGED file
        /\ UNCHANGED <<up, boots, tmp, failed, live, accepted, sent, aborted>>
    BY <1>14 DEF RecoveryAcks
  <2>2. /\ T.todo # <<>> /\ (Taken(r).bestEffort \/ Reached(c))
        /\ Taken(r).retryCount < MaxRetries
    BY <1>1, <2>1 DEF RecOK, Working
  <2>3. CASE file' = [file EXCEPT ![c] = NoFile] /\ Advance(r)
    <3>1. Taken(r).bestEffort => T.loaded[c].present /\ accepted[c] # "strict"
      BY <1>1, <1>3, <2>2 DEF RecOK, Fits, Taken
    <3>2. c \in Deliveries
      BY <1>3, <2>2
    <3> HIDE DEF c
    <3>3. /\ file' \in [Deliveries -> Entry] /\ tmp' \in [Deliveries -> Entry]
          /\ failed' \in SUBSET Deliveries /\ failed \subseteq failed'
          /\ \A d \in Deliveries : Fits(tmp'[d], d)
          /\ file'[c] = NoFile /\ \A d \in Deliveries \ {c} : file'[d] = file[d]
      BY <1>1, <2>1, <2>3, <3>2, NoFileFacts DEF Types
    <3>4. Fits(NoFile, c)
      BY NoFileFacts DEF Fits
    <3> QED
      BY <1>6, <2>1, <2>2, <2>3, <3>1, <3>3, <3>4 DEF Working
  <2>4. CASE recovery' = [recovery EXCEPT ![r].pc = "failing"] /\ UNCHANGED file
    BY <1>5, <2>1, <2>2, <2>4 DEF Working
  <2> QED
    BY <2>1, <2>3, <2>4
<1>15. ASSUME RecoveryMoves(r) PROVE IndInv'
  <2> DEFINE c == Current(r)
  <2>1. /\ T.pc = "moving" /\ Advance(r)
        /\ \/ /\ file' = [file EXCEPT ![c] = NoFile]
              /\ failed' = failed \cup {c}
           \/ UNCHANGED <<file, failed>>
        /\ UNCHANGED <<up, boots, tmp, live, accepted, sent, aborted>>
    BY <1>15 DEF RecoveryMoves
  <2>2. T.todo # <<>>
    BY <1>1, <2>1 DEF RecOK, Working
  <2>3. c \in Deliveries
    BY <1>3, <2>2
  <2> HIDE DEF c
  <2>4. /\ file' \in [Deliveries -> Entry] /\ tmp' \in [Deliveries -> Entry]
        /\ failed' \in SUBSET Deliveries /\ failed \subseteq failed'
        /\ \A d \in Deliveries : Fits(tmp'[d], d)
        /\ \A d \in Deliveries \ {c} : file'[d] = file[d]
        /\ file'[c] = file[c] \/ (file'[c] = NoFile /\ c \in failed')
    <3>1. CASE UNCHANGED <<file, failed>>
      BY <1>1, <2>1, <3>1 DEF Types
    <3>2. CASE file' = [file EXCEPT ![c] = NoFile] /\ failed' = failed \cup {c}
      BY <1>1, <2>1, <2>3, <3>2, NoFileFacts DEF Types
    <3> QED
      BY <2>1, <3>1, <3>2
  <2>5. Fits(NoFile, c)
    BY NoFileFacts DEF Fits
  <2> QED
    BY <1>6, <2>1, <2>2, <2>4, <2>5 DEF Working
(* A step that is over with its entry and leaves the files as they are.      *)
<1>16. ASSUME T.pc \in Working, T.todo # <<>>, Advance(r),
              UNCHANGED <<up, boots, file, failed, live, accepted, sent, aborted>>,
              tmp' \in [Deliveries -> Entry], \A d \in Deliveries : Fits(tmp'[d], d)
       PROVE  IndInv'
  <2>1. /\ failed' \in SUBSET Deliveries /\ failed \subseteq failed'
        /\ file' \in [Deliveries -> Entry] /\ \A d \in Deliveries : file'[d] = file[d]
    BY <1>1, <1>16 DEF Types
  <2> QED
    BY <1>6, <1>16, <2>1
<1>17. ASSUME RecoveryReads(r) PROVE IndInv'
  <2> DEFINE c == Current(r)
  <2>1. /\ T.pc = "failing"
        /\ \/ /\ file[c].readable
              /\ recovery' = [recovery EXCEPT ![r].pc = "rewriting", ![r].read = file[c]]
           \/ Advance(r)
        /\ UNCHANGED <<up, boots, file, tmp, failed, live, accepted, sent, aborted>>
    BY <1>17 DEF RecoveryReads
  <2>2. T.todo # <<>> /\ Taken(r).retryCount < MaxRetries
    BY <1>1, <2>1 DEF RecOK, Working
  <2>3. CASE Advance(r)
    <3>1. tmp' \in [Deliveries -> Entry] /\ \A d \in Deliveries : Fits(tmp'[d], d)
      BY <1>1, <2>1
    <3> QED
      BY <1>16, <2>1, <2>2, <2>3, <3>1 DEF Working
  <2>4. CASE /\ file[c].readable
             /\ recovery' = [recovery EXCEPT ![r].pc = "rewriting", ![r].read = file[c]]
    <3> DEFINE A == [T EXCEPT !.pc = "rewriting"]
               R == [A EXCEPT !.read = file[c]]
    <3>2. c \in Deliveries /\ file[c] \in Entry /\ Fits(file[c], c)
      BY <1>1, <1>3, <2>2
    <3> HIDE DEF c
    <3>3. /\ R \in RecoveryType /\ R.pc = "rewriting" /\ R.todo = T.todo /\ R.loaded = T.loaded
          /\ R.next = T.next /\ R.read = file[c]
      <4>1. /\ A \in RecoveryType /\ A.pc = "rewriting" /\ A.todo = T.todo
            /\ A.loaded = T.loaded /\ A.next = T.next
        BY <1>1 DEF RecoveryType
      <4> HIDE DEF A
      <4> QED
        BY <3>2, <4>1 DEF RecoveryType
    <3>4. recovery' = [recovery EXCEPT ![r] = R]
      BY <1>1, <2>4
    <3> HIDE DEF R
    <3>5. /\ recovery'[r].pc = "rewriting" /\ recovery'[r].todo = T.todo
          /\ recovery'[r].loaded = T.loaded /\ recovery'[r].next = T.next
          /\ recovery'[r].read = file[c]
      BY <1>1, <3>3, <3>4
    <3>6. Current(r)' = c /\ Taken(r)' = Taken(r)
      BY <3>5 DEF Current, Taken, c
    <3>7. RecOK(r)'
      <4>1. \A d \in Deliveries : Fits(recovery[r].loaded[d], d)'
        BY <1>1, <2>1, <3>5 DEF RecOK, Fits
      <4>2. Fits(recovery[r].read, Current(r))'
        BY <2>1, <3>2, <3>5, <3>6 DEF Fits
      <4> QED
        BY <1>1, <1>2, <2>1, <2>2, <2>4, <3>5, <3>6, <4>1, <4>2 DEF RecOK, Working
    <3> QED
      BY <1>4, <2>1, <3>3, <3>4, <3>7
  <2> QED
    BY <2>1, <2>3, <2>4
<1>18. ASSUME RecoveryWrites(r) PROVE IndInv'
  <2> DEFINE c == Current(r)
             e == Failed(T.read)
             alone == live[c].pc \notin {"rewriting", "renaming"} /\ Rewriters(c) = {r}
  <2>1. /\ T.pc = "rewriting"
        /\ \/ WritesTmp(c, e, alone) /\ recovery' = [recovery EXCEPT ![r].pc = "renaming"]
           \/ WriteFails(c) /\ Advance(r)
        /\ UNCHANGED <<up, boots, live, accepted, sent, aborted>>
    BY <1>18 DEF RecoveryWrites
  <2>2. /\ T.todo # <<>> /\ T.read.readable /\ Fits(T.read, c) /\ T.read \in Entry
        /\ Taken(r).retryCount < MaxRetries
    BY <1>1, <2>1 DEF RecOK, Working, RecoveryType
  <2>3. c \in Deliveries /\ alone \in BOOLEAN
    BY <1>3, <2>2
  <2>4. e \in Entry /\ Fits(e, c)
    BY <2>2, FailedFacts DEF Fits
  <2> HIDE DEF c, e, alone
  <2>5. /\ tmp' \in [Deliveries -> Entry] /\ Fits(tmp'[c], c)
        /\ \A d \in Deliveries \ {c} : tmp'[d] = tmp[d]
        /\ UNCHANGED <<file, failed>>
    BY <1>1, <2>1, <2>3, <2>4, WriteFacts
  <2>6. \A d \in Deliveries : Fits(tmp'[d], d)
    BY <1>1, <2>5
  <2>7. CASE Advance(r)
    BY <1>16, <2>1, <2>2, <2>5, <2>6, <2>7 DEF Working
  <2>8. CASE recovery' = [recovery EXCEPT ![r].pc = "renaming"]
    <3> DEFINE R == [T EXCEPT !.pc = "renaming"]
    <3>1. /\ R \in RecoveryType /\ R.pc = "renaming" /\ R.todo = T.todo /\ R.loaded = T.loaded
          /\ R.next = T.next
      BY <1>1 DEF RecoveryType
    <3>2. recovery' = [recovery EXCEPT ![r] = R]
      BY <2>8
    <3> HIDE DEF R
    <3>3. /\ recovery'[r].pc = "renaming" /\ recovery'[r].todo = T.todo
          /\ recovery'[r].loaded = T.loaded /\ recovery'[r].next = T.next
      BY <1>1, <3>1, <3>2
    <3>4. Taken(r)' = Taken(r)
      BY <3>3 DEF Current, Taken
    <3>5. RecOK(r)'
      <4>1. \A d \in Deliveries : Fits(recovery[r].loaded[d], d)'
        BY <1>1, <2>1, <3>3 DEF RecOK, Fits
      <4> QED
        BY <1>1, <1>2, <2>1, <2>2, <3>3, <3>4, <4>1 DEF RecOK, Working
    <3>6. /\ failed' \in SUBSET Deliveries /\ failed \subseteq failed'
          /\ file' \in [Deliveries -> Entry] /\ \A d \in Deliveries : file'[d] = file[d]
          /\ sent' \in [Deliveries -> SUBSET Nat]
          /\ \A d \in Deliveries : sent[d] \subseteq sent'[d] /\ sent'[d] \subseteq Payloads
      BY <1>1, <2>1, <2>5 DEF Types
    <3> QED
      BY <2>1, <2>5, <2>6, <3>1, <3>2, <3>5, <3>6, RecoveryMovesOn
  <2> QED
    BY <2>1, <2>7, <2>8
<1>19. ASSUME RecoveryRenames(r) PROVE IndInv'
  <2> DEFINE c == Current(r)
  <2>1. /\ T.pc = "renaming" /\ RenamesTmp(c) /\ Advance(r)
        /\ UNCHANGED <<up, boots, live, accepted, sent, aborted>>
    BY <1>19 DEF RecoveryRenames
  <2>2. T.todo # <<>>
    BY <1>1, <2>1 DEF RecOK, Working
  <2>3. c \in Deliveries /\ Fits(tmp[c], c)
    BY <1>1, <1>3, <2>2
  <2> HIDE DEF c
  <2>4. /\ file' \in [Deliveries -> Entry] /\ tmp' \in [Deliveries -> Entry]
        /\ \A d \in Deliveries \ {c} : file'[d] = file[d] /\ tmp'[d] = tmp[d]
        /\ Fits(tmp'[c], c) /\ failed' = failed
        /\ (tmp[c].present /\ file'[c] = tmp[c]) \/ file'[c] = file[c]
    BY <1>1, <2>1, <2>3, RenameFacts
  <2>5. /\ \A d \in Deliveries : Fits(tmp'[d], d)
        /\ failed' \in SUBSET Deliveries /\ failed \subseteq failed'
    BY <1>1, <2>4 DEF Types
  <2>6. \A d \in Deliveries : file'[d] # file[d] => Fits(file'[d], d) /\ file'[d].present
    BY <2>3, <2>4
  <2> QED
    BY <1>6, <2>1, <2>2, <2>4, <2>5, <2>6 DEF Working
<1> QED
  BY <1>7, <1>8, <1>9, <1>10, <1>11, <1>12, <1>13, <1>14, <1>15, <1>17, <1>18, <1>19 DEF RecoveryStep

-----------------------------------------------------------------------------

(* A start of the gateway beside what is under way. *)
LEMMA BootKeeps == IndInv /\ Boot => IndInv'
<1> SUFFICES ASSUME IndInv, Boot PROVE IndInv'
  OBVIOUS
<1>0. PICK r \in Boots : r = boots + 1
  BY BoundsAssumption DEF Boot, IndInv, Types, Boots
<1> DEFINE T == recovery[r]
           R == [T EXCEPT !.pc = "loading"]
<1>1. /\ boots < MaxBoots /\ boots' = boots + 1 /\ up' = TRUE
      /\ recovery' = [recovery EXCEPT ![r].pc = "loading"]
      /\ UNCHANGED <<file, tmp, failed, live, accepted, sent, aborted>>
  BY <1>0 DEF Boot, disk, story
<1>2. /\ Types /\ boots \in Nat /\ T \in RecoveryType /\ RecOK(r)
      /\ recovery \in [Boots -> RecoveryType]
      /\ \A d \in Deliveries : sent[d] \subseteq Payloads /\ FileOK(d) /\ LiveOK(d)
  BY <1>1, BoundsAssumption DEF IndInv, Types, RecoveryType, Boots
<1>3. T.pc = "off"
  BY <1>0, <1>2 DEF RecOK
<1>4. /\ R \in RecoveryType /\ R.pc = "loading" /\ R.todo = T.todo /\ R.loaded = T.loaded
      /\ R.next = T.next
  BY <1>2 DEF RecoveryType
<1>5. recovery' = [recovery EXCEPT ![r] = R]
  BY <1>1
<1> HIDE DEF R
<1>6. /\ recovery' \in [Boots -> RecoveryType]
      /\ recovery'[r] = R /\ \A s \in Boots \ {r} : recovery'[s] = recovery[s]
  BY <1>2, <1>4, <1>5
<1>7. boots' \in 0..MaxBoots /\ r <= boots' /\ \A s \in Boots : s > boots' => s > boots
  BY <1>0, <1>1, <1>2, BoundsAssumption DEF Boots
<1>8. Types'
  BY <1>1, <1>2, <1>6, <1>7 DEF Types, RecoveryType
<1>9. Grows
  BY <1>1, <1>2 DEF Grows
<1>10. \A s \in Boots : recovery'[s].loaded = recovery[s].loaded
  BY <1>4, <1>6
<1>11. RecOK(r)'
  <2>1. /\ recovery'[r].pc = "loading" /\ recovery'[r].todo = T.todo
        /\ recovery'[r].loaded = T.loaded /\ recovery'[r].next = T.next
    BY <1>4, <1>6
  <2>2. \A d \in Deliveries : Fits(recovery[r].loaded[d], d)'
    BY <1>1, <1>2, <2>1 DEF RecOK, Fits
  <2>3. ~(r > boots') /\ r = boots + 1
    BY <1>0, <1>1, <1>2, <1>7
  <2> QED
    BY <1>1, <1>2, <1>3, <2>1, <2>2, <2>3 DEF RecOK, Working
<1>12. \A s \in Boots \ {r} : RecOK(s)'
  BY <1>1, <1>2, <1>6, <1>7, <1>9, RecFrame DEF IndInv
<1>13. \A d \in Deliveries : LiveOK(d)' /\ sent'[d] \subseteq Payloads
  BY <1>1, <1>2, <1>9, LiveFrame
<1>14. ASSUME NEW d \in Deliveries PROVE FileOK(d)'
  <2>1. Sure(d)' => Sure(d)
    BY <1>1, <1>10 DEF Sure
  <2>2. Fits(tmp'[d], d)
    BY <1>1, <1>2 DEF FileOK
  <2> QED
    BY <1>1, <1>2, <1>9, <2>1, <2>2, FileFrame
<1> QED
  BY <1>8, <1>11, <1>12, <1>13, <1>14 DEF IndInv

(* A crash: calls and recoveries are gone, the files and what was sent stay. *)
LEMMA CrashKeeps == IndInv /\ Crash => IndInv'
<1> SUFFICES ASSUME IndInv, Crash PROVE IndInv'
  OBVIOUS
<1> DEFINE Killed == [IdleCall EXCEPT !.pc = "killed"]
           Ended == [NoRecovery EXCEPT !.pc = "ended"]
<1>1. /\ up' = FALSE
      /\ live' = [d \in Deliveries |-> IF live[d].pc = "idle" THEN IdleCall ELSE Killed]
      /\ recovery' = [r \in Boots |-> IF recovery[r].pc = "off" THEN NoRecovery ELSE Ended]
      /\ tmp' = [d \in Deliveries |-> NoFile]
      /\ UNCHANGED <<boots, file, failed, accepted, sent, aborted>>
  BY DEF Crash, disk, story
<1>2. /\ Types
      /\ \A d \in Deliveries : sent[d] \subseteq Payloads /\ FileOK(d) /\ LiveOK(d)
      /\ \A r \in Boots : RecOK(r)
  BY DEF IndInv
<1>3. /\ IdleCall \in CallType /\ IdleCall.pc = "idle" /\ IdleCall.next = 1
      /\ IdleCall.partial = FALSE /\ IdleCall.opt.onError = FALSE
  BY NoFileFacts DEF IdleCall, CallType
<1>4. /\ Killed \in CallType /\ Killed.pc = "killed" /\ Killed.next = 1
      /\ Killed.partial = FALSE /\ Killed.opt.onError = FALSE
  BY <1>3 DEF CallType
<1>5. /\ NoRecovery \in RecoveryType /\ NoRecovery.pc = "off" /\ NoRecovery.next = 1
      /\ NoRecovery.todo = <<>>
      /\ \A d \in Deliveries : ~NoRecovery.loaded[d].present /\ ~NoRecovery.loaded[d].readable
  BY NoFileFacts DEF NoRecovery, RecoveryType
<1>6. /\ Ended \in RecoveryType /\ Ended.pc = "ended" /\ Ended.next = 1
      /\ Ended.todo = <<>>
      /\ \A d \in Deliveries : ~Ended.loaded[d].present /\ ~Ended.loaded[d].readable
  BY <1>5 DEF RecoveryType
<1> HIDE DEF Killed, Ended
<1>7. Types'
  <2>1. live' \in [Deliveries -> CallType] /\ recovery' \in [Boots -> RecoveryType]
    BY <1>1, <1>3, <1>4, <1>5, <1>6
  <2> QED
    BY <1>1, <1>2, <2>1, NoFileFacts DEF Types, CallType, RecoveryType
<1>8. Grows
  BY <1>1, <1>2 DEF Grows
<1>9. ASSUME NEW r \in Boots PROVE RecOK(r)'
  <2>1. /\ recovery'[r].pc = "off" \/ (recovery[r].pc # "off" /\ recovery'[r].pc = "ended")
        /\ recovery'[r].next = 1 /\ recovery'[r].todo = <<>>
        /\ \A d \in Deliveries : ~recovery'[r].loaded[d].present
    BY <1>1, <1>5, <1>6
  <2>2. 1..Len(recovery'[r].todo) = {}
    BY <2>1
  <2>3. r > boots' => recovery'[r].pc = "off"
    BY <1>1, <1>2, <2>1 DEF RecOK
  <2> QED
    <3>1. /\ recovery'[r].pc \in {"off", "ended"}
          /\ \A d \in Deliveries : Fits(recovery[r].loaded[d], d)'
      BY <1>1, <1>5, <1>6, <2>1 DEF Fits
    <3> QED
      BY <2>1, <2>2, <2>3, <3>1 DEF RecOK, Working
<1>10. ASSUME NEW d \in Deliveries PROVE LiveOK(d)' /\ FileOK(d)'
  <2>1. /\ live'[d].pc \in {"idle", "killed"} /\ live'[d].next = 1
        /\ live'[d].partial = FALSE /\ live'[d].opt.onError = FALSE
        /\ live'[d].pc = "idle" => live[d].pc = "idle"
    BY <1>1, <1>3, <1>4
  <2>2. LiveOK(d)'
    BY <1>1, <1>2, <2>1 DEF LiveOK
  <2>3. Sure(d)' => Sure(d)
    BY <1>1, <2>1 DEF Sure
  <2>4. Fits(tmp'[d], d)
    BY <1>1, NoFileFacts DEF Fits
  <2>5. FileOK(d)'
    BY <1>1, <1>2, <1>8, <2>1, <2>3, <2>4, FileFrame
  <2> QED
    BY <2>2, <2>5
<1> QED
  BY <1>1, <1>2, <1>7, <1>9, <1>10 DEF IndInv

LEMMA StepIndInv == IndInv /\ [Next]_vars => IndInv'
<1> SUFFICES ASSUME IndInv, [Next]_vars PROVE IndInv'
  OBVIOUS
<1>1. CASE Boot \/ Crash
  BY <1>1, BootKeeps, CrashKeeps
<1>2. CASE \E d \in Deliveries : LiveStep(d) \/ \E opt \in Options : Persist(d, opt)
  BY <1>2, CallStep
<1>3. CASE \E r \in Boots : RecoveryStep(r)
  BY <1>3, RecoveryStepKeeps
<1>4. CASE UNCHANGED vars
  BY <1>4 DEF vars, disk, story, IndInv, Types, LiveOK, FileOK, RecOK, Fits, SentBefore, Sure,
              Kept, OnRecord, Reached, Taken, Current
<1> QED
  BY <1>1, <1>2, <1>3, <1>4 DEF Next

-----------------------------------------------------------------------------
(* The time of an attempt: no rename writes an entry without one, so that it *)
(* is on disk as long as a recovery that read it there can act on it.        *)

Timed(d) ==
  /\ tmp[d].readable => tmp[d].attempted
  /\ d \in handled => accepted[d] # "no"
  /\ d \in handled \ faulty /\ file[d].readable => file[d].attempted
  /\ \A r \in Boots :
       recovery[r].loaded[d].readable /\ recovery[r].loaded[d].attempted /\ file[d].readable
         => file[d].attempted

TimedInv ==
  /\ handled \in SUBSET Deliveries /\ faulty \in SUBSET Deliveries
  /\ \A d \in Deliveries : Timed(d)

(* A step that touches no entry. *)
LEMMA TimedFrame ==
  ASSUME TimedInv, UNCHANGED <<file, tmp, accepted, handled, faulty>>,
         \A r \in Boots, d \in Deliveries :
           recovery'[r].loaded[d] \in {recovery[r].loaded[d], file[d], NoFile}
  PROVE  TimedInv'
BY NoFileFacts DEF TimedInv, Timed

(* A step that touches one.  *)
LEMMA TimedTouch ==
  ASSUME TimedInv, NEW c \in Deliveries,
         \A d \in Deliveries \ {c} : file'[d] = file[d] /\ tmp'[d] = tmp[d],
         accepted' = accepted, \A r \in Boots : recovery'[r].loaded = recovery[r].loaded,
         handled' \in {handled, handled \cup {c}}, faulty' \in {faulty, faulty \cup {c}},
         tmp'[c] = tmp[c] \/ ~tmp'[c].readable \/ tmp'[c].attempted,
         file'[c] = file[c] \/ ~file'[c].readable \/ file'[c].attempted,
         handled' # handled =>
           /\ accepted[c] # "no"
           /\ c \in faulty' \/ ~file'[c].readable \/ file'[c].attempted
  PROVE  TimedInv'
<1>1. handled' \in SUBSET Deliveries /\ faulty' \in SUBSET Deliveries
  BY DEF TimedInv
<1>2. ASSUME NEW d \in Deliveries \ {c} PROVE Timed(d)'
  BY DEF TimedInv, Timed
<1>3. Timed(c)'
  BY DEF TimedInv, Timed
<1> QED
  BY <1>1, <1>2, <1>3 DEF TimedInv

(* An entry whose failed operation nobody hears of is not counted. *)
LEMMA SwallowedFacts ==
  ASSUME NEW d \in Deliveries, Fits(file[d], d), Swallowed(d)
  PROVE  faulty' \in {faulty, faulty \cup {d}} /\ (d \in faulty' \/ ~file[d].readable)
BY DEF Swallowed, Fits

LEMMA WriteTimed ==
  ASSUME Types, TimedInv, NEW d \in Deliveries, NEW e \in Entry, e.attempted,
         NEW alone \in BOOLEAN, WritesTmp(d, e, alone) \/ WriteFails(d)
  PROVE  /\ \A c \in Deliveries \ {d} : tmp'[c] = tmp[c]
         /\ ~tmp'[d].readable \/ tmp'[d].attempted
         /\ UNCHANGED file
<1>1. PICK content \in {e, tmp[d], Garbled} : tmp' = [tmp EXCEPT ![d] = content]
  BY DEF WritesTmp, WriteFails
<1> QED
  BY <1>1, NoFileFacts DEF Types, TimedInv, Timed, WritesTmp, WriteFails

LEMMA RenameTimed ==
  ASSUME Types, TimedInv, NEW d \in Deliveries, Fits(file[d], d), RenamesTmp(d)
  PROVE  /\ \A c \in Deliveries \ {d} : file'[c] = file[c] /\ tmp'[c] = tmp[c]
         /\ ~tmp'[d].readable \/ tmp'[d].attempted
         /\ faulty' \in {faulty, faulty \cup {d}}
         /\ \/ ~file'[d].readable \/ file'[d].attempted
            \/ file'[d] = file[d] /\ d \in faulty'
<1>1. CASE UNCHANGED disk /\ Swallowed(d)
  BY <1>1, SwallowedFacts DEF disk, TimedInv, Timed
<1>2. CASE /\ file' = [file EXCEPT ![d] = tmp[d]]
           /\ tmp' = [tmp EXCEPT ![d] = NoFile]
           /\ faulty' = faulty
  BY <1>2, NoFileFacts DEF Types, TimedInv, Timed
<1> QED
  BY <1>1, <1>2 DEF RenamesTmp

LEMMA TimedCall ==
  ASSUME IndInv, TimedInv, NEW d \in Deliveries,
         LiveStep(d) \/ \E opt \in Options : Persist(d, opt)
  PROVE  TimedInv'
<1> USE DEF disk, story, outcome
<1>1. /\ Types /\ LiveOK(d) /\ Fits(file[d], d)
      /\ file \in [Deliveries -> Entry]
      /\ \A r \in Boots : Fits(recovery[r].loaded[d], d)
  BY DEF IndInv, Types, FileOK, RecOK
<1>2. live[d].pc \notin {"idle", "killed"} => accepted[d] # "no"
  BY <1>1 DEF LiveOK
<1>3. ASSUME NEW opt \in Options, Persist(d, opt) PROVE TimedInv'
  <2>1. /\ accepted[d] = "no"
        /\ file' = [file EXCEPT ![d] = NewFile(opt)]
        /\ accepted' = [accepted EXCEPT ![d] = IF opt.bestEffort THEN "bestEffort" ELSE "strict"]
        /\ UNCHANGED <<tmp, recovery, handled, faulty>>
    BY <1>1, <1>3 DEF Persist, LiveOK
  <2>2. \A c \in Deliveries \ {d} : file'[c] = file[c] /\ accepted'[c] = accepted[c]
    BY <1>1, <2>1 DEF Types
  <2>3. ASSUME NEW c \in Deliveries \ {d} PROVE Timed(c)'
    BY <2>1, <2>2 DEF TimedInv, Timed
  <2>4. accepted'[d] # "no" /\ d \notin handled
        /\ \A r \in Boots : ~recovery[r].loaded[d].readable
    BY <1>1, <2>1 DEF TimedInv, Timed, Fits, Types
  <2>5. Timed(d)'
    BY <2>1, <2>4 DEF TimedInv, Timed
  <2> QED
    BY <2>1, <2>3, <2>5 DEF TimedInv
<1>4. ASSUME \/ LiveSends(d) \/ LiveSkips(d) \/ LiveThrows(d) \/ LiveAborts(d) \/ LiveReturns(d)
      PROVE  TimedInv'
  BY <1>4, TimedFrame DEF LiveSends, LiveSkips, LiveThrows, LiveAborts, LiveReturns
<1>5. ASSUME LiveAcks(d) PROVE TimedInv'
  <2>1. /\ handled' = handled \cup {d} /\ UNCHANGED <<tmp, recovery, accepted>>
        /\ \/ file' = [file EXCEPT ![d] = NoFile] /\ UNCHANGED faulty
           \/ UNCHANGED file /\ Swallowed(d)
        /\ accepted[d] # "no"
    BY <1>2, <1>5 DEF LiveAcks, LiveEnds
  <2>2. /\ \A c \in Deliveries \ {d} : file'[c] = file[c]
        /\ faulty' \in {faulty, faulty \cup {d}}
        /\ ~file'[d].readable \/ (file'[d] = file[d] /\ d \in faulty')
    BY <1>1, <2>1, NoFileFacts, SwallowedFacts
  <2> QED
    BY <2>1, <2>2, TimedTouch
<1>6. ASSUME LiveReads(d) PROVE TimedInv'
  <2>1. UNCHANGED <<file, tmp, recovery, accepted>> /\ accepted[d] # "no"
    BY <1>2, <1>6 DEF LiveReads
  <2>2. CASE UNCHANGED outcome
    BY <2>1, <2>2, TimedFrame
  <2>3. CASE LiveEnds(d) /\ Swallowed(d)
    <3>1. faulty' \in {faulty, faulty \cup {d}} /\ (d \in faulty' \/ ~file[d].readable)
      BY <1>1, <2>3, SwallowedFacts
    <3> QED
      BY <2>1, <2>3, <3>1, TimedTouch DEF LiveEnds
  <2> QED
    BY <1>6, <2>2, <2>3 DEF LiveReads
<1>7. ASSUME LiveWrites(d) PROVE TimedInv'
  <2> DEFINE e == Failed(live[d].read)
             alone == Rewriters(d) = {}
  <2>1. /\ UNCHANGED <<recovery, accepted>> /\ accepted[d] # "no"
        /\ \/ WritesTmp(d, e, alone) /\ UNCHANGED outcome
           \/ WriteFails(d) /\ LiveEnds(d)
    BY <1>2, <1>7 DEF LiveWrites
  <2>2. e \in Entry /\ e.attempted /\ alone \in BOOLEAN
    BY <1>1, FailedFacts DEF Types
  <2> HIDE DEF e, alone
  <2>3. /\ \A c \in Deliveries \ {d} : tmp'[c] = tmp[c]
        /\ ~tmp'[d].readable \/ tmp'[d].attempted
        /\ UNCHANGED file
    BY <1>1, <2>1, <2>2, WriteTimed
  <2>4. CASE UNCHANGED outcome
    BY <2>1, <2>3, <2>4, TimedTouch
  <2>5. CASE WriteFails(d) /\ LiveEnds(d)
    <3>1. faulty' \in {faulty, faulty \cup {d}} /\ (d \in faulty' \/ ~file[d].readable)
      BY <1>1, <2>5, SwallowedFacts DEF WriteFails
    <3> QED
      BY <2>1, <2>3, <2>5, <3>1, TimedTouch DEF LiveEnds
  <2> QED
    BY <2>1, <2>4, <2>5
<1>8. ASSUME LiveRenames(d) PROVE TimedInv'
  <2>1. /\ UNCHANGED <<recovery, accepted>> /\ accepted[d] # "no"
        /\ RenamesTmp(d) /\ LiveEnds(d)
    BY <1>2, <1>8 DEF LiveRenames
  <2>2. /\ \A c \in Deliveries \ {d} : file'[c] = file[c] /\ tmp'[c] = tmp[c]
        /\ ~tmp'[d].readable \/ tmp'[d].attempted
        /\ faulty' \in {faulty, faulty \cup {d}}
        /\ \/ ~file'[d].readable \/ file'[d].attempted
           \/ file'[d] = file[d] /\ d \in faulty'
    BY <1>1, <2>1, RenameTimed
  <2> QED
    BY <2>1, <2>2, TimedTouch DEF LiveEnds
<1> QED
  BY <1>3, <1>4, <1>5, <1>6, <1>7, <1>8 DEF LiveStep

LEMMA TimedRecovery ==
  ASSUME IndInv, TimedInv, NEW r \in Boots, RecoveryStep(r)
  PROVE  TimedInv'
<1> USE DEF disk, story, outcome
<1> DEFINE T == recovery[r]
           c == Current(r)
<1>1. /\ Types /\ T \in RecoveryType /\ RecOK(r)
      /\ recovery \in [Boots -> RecoveryType] /\ file \in [Deliveries -> Entry]
      /\ \A d \in Deliveries : Fits(file[d], d)
  BY DEF IndInv, Types, FileOK, RecoveryType
<1>2. T.todo # <<>> => c \in Deliveries /\ accepted[c] # "no" /\ Taken(r) = T.loaded[c] /\ Taken(r).readable
  BY <1>1 DEF Current, Taken, RecOK, RecoveryType, Fits
<1>3. T.pc \in Working => T.todo # <<>>
  BY <1>1 DEF RecOK
<1>4. ASSUME NEW pc, recovery' = [recovery EXCEPT ![r].pc = pc] PROVE \A s \in Boots : recovery'[s].loaded = recovery[s].loaded
  BY <1>1, <1>4 DEF RecoveryType
<1>5. ASSUME Advance(r)
      PROVE  /\ \A s \in Boots : recovery'[s].loaded = recovery[s].loaded
             /\ handled' = handled \cup {c}
  <2>1. PICK R : recovery' = [recovery EXCEPT ![r] = R] /\ R.loaded = T.loaded
    <3> DEFINE A == [T EXCEPT !.pc = "scan"]
               B == [A EXCEPT !.todo = Tail(@)]
               C == [B EXCEPT !.next = 1]
               R == [C EXCEPT !.read = NoFile]
    <3>1. recovery' = [recovery EXCEPT ![r] = R]
      BY <1>1, <1>5 DEF Advance
    <3>2. A.loaded = T.loaded /\ DOMAIN A = DOMAIN T /\ "loaded" \in DOMAIN T
      BY <1>1 DEF RecoveryType
    <3>3. R.loaded = T.loaded
      BY <1>1 DEF RecoveryType
    <3> QED
      BY <3>1, <3>3
  <2> QED
    BY <1>1, <1>5, <2>1 DEF Advance
<1>6. ASSUME Load(r) PROVE TimedInv'
  <2>1. UNCHANGED <<file, tmp, accepted, handled, faulty>>
    BY <1>6 DEF Load
  <2>2. PICK found \in SUBSET {d \in Deliveries : file[d].readable} :
        \E order \in SetToSeqs(found) :
          recovery' = [recovery EXCEPT ![r].pc = "scan", ![r].todo = order,
            ![r].loaded = [d \in Deliveries |-> IF d \in found THEN file[d] ELSE NoFile]]
    BY <1>6 DEF Load
  <2>3. \A d \in Deliveries : recovery'[r].loaded[d] \in {file[d], NoFile}
    BY <1>1, <2>2 DEF RecoveryType
  <2>4. \A s \in Boots \ {r} : recovery'[s] = recovery[s]
    BY <1>1, <2>2
  <2> QED
    BY <2>1, <2>3, <2>4, TimedFrame
<1>7. ASSUME UNCHANGED <<file, tmp, accepted, handled, faulty>>,
             \A s \in Boots : recovery'[s].loaded = recovery[s].loaded
      PROVE  TimedInv'
  BY <1>7, TimedFrame
<1>8. ASSUME \/ EndRecovery(r) \/ Attempt(r) \/ RecoveryThrows(r) \/ RecoveryReturns(r) PROVE TimedInv'
  BY <1>4, <1>7, <1>8 DEF EndRecovery, Attempt, RecoveryThrows, RecoveryReturns
<1>9. ASSUME RecoverySends(r) \/ RecoverySkips(r) PROVE TimedInv'
  <2>1. /\ UNCHANGED <<file, tmp, accepted, handled, faulty>>
        /\ recovery' = [recovery EXCEPT ![r].next = @ + 1]
    BY <1>9 DEF RecoverySends, RecoverySkips
  <2>2. \A s \in Boots : recovery'[s].loaded = recovery[s].loaded
    BY <1>1, <2>1 DEF RecoveryType
  <2> QED
    BY <1>7, <2>1, <2>2
<1>10. ASSUME Defer(r) PROVE TimedInv'
  <2>1. /\ T.todo # <<>> /\ Taken(r).attempted /\ Advance(r)
        /\ UNCHANGED <<file, tmp, accepted, faulty>>
    BY <1>10 DEF Defer
  <2>2. ~file[c].readable \/ file[c].attempted
    BY <1>2, <2>1 DEF TimedInv, Timed
  <2> QED
    BY <1>2, <1>5, <2>1, <2>2, TimedTouch
<1>11. ASSUME RecoveryAcks(r) PROVE TimedInv'
  <2>1. /\ T.todo # <<>> /\ UNCHANGED <<tmp, accepted, faulty>>
        /\ \/ file' = [file EXCEPT ![c] = NoFile] /\ Advance(r)
           \/ /\ recovery' = [recovery EXCEPT ![r].pc = "failing"]
              /\ UNCHANGED <<file, handled>>
    BY <1>3, <1>11 DEF RecoveryAcks, Working
  <2>2. CASE file' = [file EXCEPT ![c] = NoFile] /\ Advance(r)
    <3>1. ~file'[c].readable /\ \A d \in Deliveries \ {c} : file'[d] = file[d]
      BY <1>1, <1>2, <2>1, <2>2, NoFileFacts
    <3> QED
      BY <1>2, <1>5, <2>1, <2>2, <3>1, TimedTouch
  <2>3. CASE recovery' = [recovery EXCEPT ![r].pc = "failing"] /\ UNCHANGED <<file, handled>>
    BY <1>4, <1>7, <2>1, <2>3
  <2> QED
    BY <2>1, <2>2, <2>3
<1>12. ASSUME RecoveryMoves(r) PROVE TimedInv'
  <2>1. /\ T.todo # <<>> /\ UNCHANGED <<tmp, accepted>> /\ Advance(r)
        /\ \/ file' = [file EXCEPT ![c] = NoFile] /\ UNCHANGED faulty
           \/ UNCHANGED file /\ Swallowed(c)
    BY <1>3, <1>12 DEF RecoveryMoves, Working
  <2>2. /\ \A d \in Deliveries \ {c} : file'[d] = file[d]
        /\ faulty' \in {faulty, faulty \cup {c}}
        /\ ~file'[c].readable \/ (file'[c] = file[c] /\ c \in faulty')
    BY <1>1, <1>2, <2>1, NoFileFacts, SwallowedFacts
  <2> QED
    BY <1>2, <1>5, <2>1, <2>2, TimedTouch
<1>13. ASSUME RecoveryReads(r) PROVE TimedInv'
  <2>1. T.todo # <<>> /\ UNCHANGED <<file, tmp, accepted>>
    BY <1>3, <1>13 DEF RecoveryReads, Working
  <2>2. CASE /\ recovery' = [recovery EXCEPT ![r].pc = "rewriting", ![r].read = file[c]]
             /\ UNCHANGED outcome
    <3>1. \A s \in Boots : recovery'[s].loaded = recovery[s].loaded
      BY <1>1, <2>2 DEF RecoveryType
    <3> QED
      BY <1>7, <2>1, <2>2, <3>1
  <2>3. CASE Advance(r) /\ Swallowed(c)
    <3>1. faulty' \in {faulty, faulty \cup {c}} /\ (c \in faulty' \/ ~file[c].readable)
      BY <1>1, <1>2, <2>1, <2>3, SwallowedFacts
    <3> QED
      BY <1>2, <1>5, <2>1, <2>3, <3>1, TimedTouch
  <2> QED
    BY <1>13, <2>2, <2>3 DEF RecoveryReads
<1>14. ASSUME RecoveryWrites(r) PROVE TimedInv'
  <2> DEFINE e == Failed(T.read)
             alone == live[c].pc \notin {"rewriting", "renaming"} /\ Rewriters(c) = {r}
  <2>1. /\ T.todo # <<>> /\ UNCHANGED accepted
        /\ \/ /\ WritesTmp(c, e, alone) /\ UNCHANGED outcome
              /\ recovery' = [recovery EXCEPT ![r].pc = "renaming"]
           \/ WriteFails(c) /\ Advance(r)
    BY <1>3, <1>14 DEF RecoveryWrites, Working
  <2>2. e \in Entry /\ e.attempted /\ alone \in BOOLEAN
    BY <1>1, FailedFacts DEF RecoveryType
  <2> HIDE DEF e, alone, c
  <2>3. /\ \A d \in Deliveries \ {c} : tmp'[d] = tmp[d]
        /\ ~tmp'[c].readable \/ tmp'[c].attempted
        /\ UNCHANGED file
    BY <1>1, <1>2, <2>1, <2>2, WriteTimed
  <2>4. CASE recovery' = [recovery EXCEPT ![r].pc = "renaming"] /\ UNCHANGED outcome
    BY <1>2, <1>4, <2>1, <2>3, <2>4, TimedTouch
  <2>5. CASE WriteFails(c) /\ Advance(r)
    <3>1. faulty' \in {faulty, faulty \cup {c}} /\ (c \in faulty' \/ ~file[c].readable)
      BY <1>1, <1>2, <2>1, <2>5, SwallowedFacts DEF WriteFails
    <3> QED
      BY <1>2, <1>5, <2>1, <2>3, <2>5, <3>1, TimedTouch
  <2> QED
    BY <2>1, <2>4, <2>5
<1>15. ASSUME RecoveryRenames(r) PROVE TimedInv'
  <2>1. T.todo # <<>> /\ UNCHANGED accepted /\ RenamesTmp(c) /\ Advance(r)
    BY <1>3, <1>15 DEF RecoveryRenames, Working
  <2>2. /\ \A d \in Deliveries \ {c} : file'[d] = file[d] /\ tmp'[d] = tmp[d]
        /\ ~tmp'[c].readable \/ tmp'[c].attempted
        /\ faulty' \in {faulty, faulty \cup {c}}
        /\ \/ ~file'[c].readable \/ file'[c].attempted
           \/ file'[c] = file[c] /\ c \in faulty'
    BY <1>1, <1>2, <2>1, RenameTimed
  <2> QED
    BY <1>2, <1>5, <2>1, <2>2, TimedTouch
<1> QED
  BY <1>6, <1>8, <1>9, <1>10, <1>11, <1>12, <1>13, <1>14, <1>15 DEF RecoveryStep

LEMMA StepTimedInv == IndInv /\ TimedInv /\ [Next]_vars => TimedInv'
<1> SUFFICES ASSUME IndInv, TimedInv, [Next]_vars PROVE TimedInv'
  OBVIOUS
<1>1. CASE Boot
  <2>1. /\ UNCHANGED <<file, tmp, accepted, handled, faulty>>
        /\ recovery' = [recovery EXCEPT ![boots + 1].pc = "loading"]
    BY <1>1 DEF Boot, disk, story, outcome
  <2>2. \A r \in Boots : recovery'[r].loaded = recovery[r].loaded
    BY <2>1 DEF IndInv, Types
  <2> QED
    BY <2>1, <2>2, TimedFrame
<1>2. CASE Crash
  <2>1. /\ UNCHANGED <<file, accepted, handled, faulty>>
        /\ tmp' = [d \in Deliveries |-> NoFile]
        /\ recovery' = [r \in Boots |-> IF recovery[r].pc = "off" THEN NoRecovery
                                        ELSE [NoRecovery EXCEPT !.pc = "ended"]]
    BY <1>2 DEF Crash, story, outcome
  <2>2. /\ NoRecovery.loaded = [d \in Deliveries |-> NoFile]
        /\ [NoRecovery EXCEPT !.pc = "ended"].loaded = [d \in Deliveries |-> NoFile]
    BY DEF NoRecovery
  <2>3. \A r \in Boots, d \in Deliveries : recovery'[r].loaded[d] = NoFile
    BY <2>1, <2>2
  <2>4. ASSUME NEW d \in Deliveries PROVE Timed(d)'
    BY <2>1, <2>3, NoFileFacts DEF TimedInv, Timed
  <2> QED
    BY <2>1, <2>4 DEF TimedInv
<1>3. CASE \E d \in Deliveries : LiveStep(d) \/ \E opt \in Options : Persist(d, opt)
  BY <1>3, TimedCall
<1>4. CASE \E r \in Boots : RecoveryStep(r)
  BY <1>4, TimedRecovery
<1>5. CASE UNCHANGED vars
  BY <1>5, TimedFrame DEF vars, disk, story, outcome
<1> QED
  BY <1>1, <1>2, <1>3, <1>4, <1>5 DEF Next

-----------------------------------------------------------------------------

(* The argument of the theorems below. *)
THEOREM Invariance == Spec => [](IndInv /\ TimedInv)
<1>1. Init => TimedInv
  BY DEF Init, TimedInv, Timed, NoFile, NoRecovery
<1> QED
  BY <1>1, InitIndInv, StepIndInv, StepTimedInv, PTL DEF Spec

(* The variables hold values of their types; calls and recoveries are under  *)
(* way in a running process only, and a recovery works on an entry that it   *)
(* loaded, with retries left unless it moves it to failed/.                  *)
THEOREM TypeCorrect == Spec => []TypeOK
<1>1. IndInv /\ TimedInv => TypeOK
  <2> SUFFICES ASSUME IndInv, TimedInv PROVE TypeOK
    OBVIOUS
  <2>1. /\ Types /\ handled \in SUBSET Deliveries /\ faulty \in SUBSET Deliveries
        /\ \A d \in Deliveries : live[d].pc \in {"idle", "done", "killed"} \/ up
    BY DEF IndInv, TimedInv, LiveOK
  <2>2. ASSUME NEW r \in Boots
        PROVE  /\ recovery[r].pc \in {"off", "ended"} \/ (up /\ r <= boots)
               /\ recovery[r].pc \in Working =>
                    /\ recovery[r].todo # <<>>
                    /\ Taken(r).readable
                    /\ recovery[r].pc # "moving" => Taken(r).retryCount < MaxRetries
    <3>1. RecOK(r) /\ boots \in Nat /\ r \in Nat /\ recovery[r].todo \in Seq(Deliveries)
      BY BoundsAssumption DEF IndInv, Types, Boots
    <3>2. recovery[r].todo # <<>> => Taken(r).readable
      BY <3>1 DEF RecOK, Taken, Current
    <3> QED
      BY <3>1, <3>2 DEF RecOK
  <2> QED
    BY <2>1, <2>2 DEF TypeOK
<1> QED
  BY <1>1, Invariance, PTL

(* A strict delivery, and one whose failures its caller hears of, is on      *)
(* disk, in failed/, sent or called off, at every moment, whichever file     *)
(* operations fail and however writes of the shared temporary file mix.      *)
THEOREM DeliveryKept == Spec => []NothingLost
<1>1. IndInv => NothingLost
  <2> SUFFICES ASSUME IndInv, NEW d \in Deliveries,
                      accepted[d] = "strict" \/ ReportsFailures(d)
               PROVE  Kept(d)
    BY DEF NothingLost
  <2>1. Sure(d)
    BY DEF Sure, ReportsFailures
  <2> QED
    BY <2>1 DEF IndInv, FileOK
<1> QED
  BY <1>1, Invariance, PTL

(* What a call or a recovery was done with and is, or comes back, on disk    *)
(* has the time of an attempt, unless a file operation on it failed unheard. *)
THEOREM LeftoverTimed == Spec => []LeftoverIsTimed
<1>1. TimedInv => LeftoverIsTimed
  BY DEF TimedInv, Timed, LeftoverIsTimed
<1> QED
  BY <1>1, Invariance, PTL
=============================================================================
