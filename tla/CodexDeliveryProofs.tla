------------------------ MODULE CodexDeliveryProofs ------------------------
(***************************************************************************)
(* Proofs about CodexDelivery, for every value of its constants: types,    *)
(* that delivery loses nothing, keeps the order of the log and bounds its  *)
(* duplicates, what the dispatch, the no-start flag and a reuse guarantee, *)
(* and that it implements AtLeastOnceQueue.                                *)
(***************************************************************************)
EXTENDS CodexDelivery, TLAPS

----------------------------------------------------------------------------
(* Data. *)

(* The fields of a binding have the types arithmetic needs. *)
LEMMA BindingFields ==
  ASSUME NEW b \in Binding
  PROVE  /\ b.offset \in 0..MaxLog /\ b.offset \in Nat
         /\ b.id \in 0..MaxBind /\ b.id \in Nat
         /\ b.enabled \in BOOLEAN /\ b.noStart \in BOOLEAN
<1>1. b.offset \in 0..MaxLog /\ b.id \in 0..MaxBind
  BY DEF Binding
<1>2. b.enabled \in BOOLEAN /\ b.noStart \in BOOLEAN
  BY DEF Binding
<1> QED
  BY <1>1, <1>2, BoundsAssumption

(* What the four ways to rewrite a binding change and keep. *)
LEMMA AdvancedFields ==
  ASSUME NEW b \in Binding, NEW o \in 0..MaxLog
  PROVE  /\ Advanced(b, o) \in Binding
         /\ Advanced(b, o).offset = o /\ Advanced(b, o).id = b.id
         /\ Advanced(b, o).session = b.session /\ Advanced(b, o).route = b.route
         /\ Advanced(b, o).enabled = b.enabled /\ Advanced(b, o).noStart = b.noStart
<1>1. Advanced(b, o) \in Binding
  BY DEF Binding, Advanced
<1> QED
  BY <1>1 DEF Binding, Advanced

(* An acknowledgement moves the cursor and lifts the block. *)
LEMMA AcknowledgedFields ==
  ASSUME NEW b \in Binding, NEW o \in 0..MaxLog
  PROVE  /\ Acknowledged(b, o) \in Binding
         /\ Acknowledged(b, o).offset = o /\ Acknowledged(b, o).id = b.id
         /\ Acknowledged(b, o).session = b.session /\ Acknowledged(b, o).route = b.route
         /\ Acknowledged(b, o).enabled = b.enabled /\ ~Acknowledged(b, o).noStart
<1>1. Acknowledged(b, o) \in Binding
  BY DEF Binding, Acknowledged
<1> QED
  BY <1>1 DEF Binding, Acknowledged

(* A failure keeps the cursor and the route. *)
LEMMA BlockedFields ==
  ASSUME NEW b \in Binding, NEW kind
  PROVE  /\ Blocked(b, kind) \in Binding
         /\ Blocked(b, kind).offset = b.offset /\ Blocked(b, kind).id = b.id
         /\ Blocked(b, kind).session = b.session /\ Blocked(b, kind).route = b.route
         /\ Blocked(b, kind).enabled = b.enabled
<1>1. (b.noStart \/ kind = "steer") \in BOOLEAN
  BY DEF Binding
<1>2. Blocked(b, kind) \in Binding
  BY <1>1 DEF Binding, Blocked
<1> QED
  BY <1>2 DEF Binding, Blocked

(* An unbind clears nothing but the enabled flag. *)
LEMMA DisabledFields ==
  ASSUME NEW b \in Binding
  PROVE  /\ Disabled(b) \in Binding
         /\ Disabled(b).offset = b.offset /\ Disabled(b).id = b.id
         /\ Disabled(b).session = b.session /\ Disabled(b).route = b.route
         /\ ~Disabled(b).enabled /\ Disabled(b).noStart = b.noStart
<1>1. Disabled(b) \in Binding
  BY DEF Binding, Disabled
<1> QED
  BY <1>1 DEF Binding, Disabled

(* Counting an occurrence changes the count of that record alone. *)
LEMMA CountedFields ==
  ASSUME NEW count \in [Index -> Nat], NEW i \in Index
  PROVE  /\ CountedIn(count, i) \in [Index -> Nat]
         /\ CountedIn(count, i)[i] = count[i] + 1
         /\ \A j \in Index : CountedIn(count, i)[j] >= count[j]
         /\ \A j \in Index : j # i => CountedIn(count, i)[j] = count[j]
BY DEF CountedIn

(* Nothing has been counted at first. *)
LEMMA ZeroFields == Zero \in [Index -> Nat] /\ \A i \in Index : Zero[i] = 0
BY DEF Zero

(* The placeholders are members of the types they stand in for. *)
LEMMA EmptyMembers ==
  /\ NoBinding \in Binding /\ NoBinding.offset = 0 /\ NoBinding.id = 0
  /\ NoRequest \in Request /\ NoRequest.id = 0
  /\ NoProbe \in Probe /\ NoProbe.offset = 0 /\ ~NoProbe.held
<1>1. NoBinding \in Binding /\ NoBinding.offset = 0 /\ NoBinding.id = 0
  BY BoundsAssumption DEF NoBinding, Binding, NoRoute
<1>2. NoRequest \in Request /\ NoRequest.id = 0
  BY BoundsAssumption DEF NoRequest, Request
<1>3. NoProbe \in Probe /\ NoProbe.offset = 0 /\ ~NoProbe.held
  BY BoundsAssumption DEF NoProbe, Probe, NoRoute
<1> QED
  BY <1>1, <1>2, <1>3

(* A request for record i under binding id, and the bind in progress. *)
LEMMA RequestMember ==
  ASSUME NEW id \in 0..MaxBind, NEW index \in 0..MaxLog,
         NEW method \in {"", "turn/start", "turn/steer"}
  PROVE  LET r == [id |-> id, index |-> index, method |-> method]
         IN  r \in Request /\ r.id = id /\ r.index = index
BY DEF Request

(* The probe of a bind is a probe, at the offset it was given. *)
LEMMA ProbeMember ==
  ASSUME NEW route \in Routes, NEW required \in BOOLEAN, NEW reuse \in BOOLEAN,
         NEW offset \in 0..MaxLog
  PROVE  LET p == [held |-> TRUE, route |-> route, required |-> required,
                   reuse |-> reuse, offset |-> offset]
         IN  p \in Probe /\ p.offset = offset /\ p.held
BY DEF Probe

(* The fields of a probe have the types arithmetic needs. *)
LEMMA ProbeFields ==
  ASSUME NEW p \in Probe
  PROVE  /\ p.offset \in 0..MaxLog /\ p.offset \in Nat
         /\ p.route \in Routes \cup {NoRoute}
<1>1. p.offset \in 0..MaxLog
  BY DEF Probe
<1>2. p.route \in Routes \cup {NoRoute}
  BY DEF Probe
<1> QED
  BY <1>1, <1>2, BoundsAssumption

(* A bind that ends saves a binding with the next ID and its own cursor. *)
LEMMA NewBindingMember ==
  ASSUME NEW available \in BOOLEAN, probe \in Probe, session \in Session,
         file.id + 1 \in 0..MaxBind
  PROVE  /\ NewBinding(available) \in Binding
         /\ NewBinding(available).offset = probe.offset
         /\ NewBinding(available).id = file.id + 1
         /\ NewBinding(available).session = session
         /\ NewBinding(available).route = probe.route
<1>1. NewBinding(available) \in Binding
  BY ProbeFields DEF NewBinding, Binding
<1> QED
  BY <1>1 DEF NewBinding

----------------------------------------------------------------------------
(* Type correctness.  The types alone are not inductive: that the cursor
   stays inside the log needs that the worker's record is in its batch. *)

(* While the worker is at a record, that record is in its batch. *)
InBatch == pc \in AtRecord => w.offset < last

(* The pending request is about a record. *)
RequestInLog == pc = "sent" \/ request.id # 0 => request.index \in Index

(* A bind in progress has an ID left. *)
IdLeft == probe.held => file.id < MaxBind

TypeInv == TypeOK /\ InBatch /\ RequestInLog /\ IdLeft

(* The initial states have their types. *)
LEMMA TypeInit == Init => TypeInv
<1> SUFFICES ASSUME Init PROVE TypeInv
  OBVIOUS
<1>1. log \in Seq(Kind) /\ Len(log) = 0
  BY DEF Init
<1>2. pc = "wait" /\ pc \notin AtRecord /\ request = NoRequest /\ probe = NoProbe
  BY DEF Init, AtRecord, InDelivery
<1>3. InBatch /\ RequestInLog /\ IdLeft
  BY <1>2, EmptyMembers DEF InBatch, RequestInLog, IdLeft
<1>4. TypeOK
  BY <1>1, <1>2, EmptyMembers, ZeroFields, BoundsAssumption DEF Init, TypeOK
<1> QED
  BY <1>3, <1>4 DEF TypeInv

(* The record the worker is at exists. *)
LEMMA AtIsIndex ==
  ASSUME TypeInv, pc \in AtRecord
  PROVE  /\ At \in Index /\ At \in 0..MaxLog
         /\ At <= last /\ At <= Len(log) /\ At = w.offset + 1
<1>1. w.offset \in Nat
  BY BindingFields DEF TypeInv, TypeOK
<1>2. last \in 0..MaxLog /\ last <= Len(log) /\ w.offset < last
  BY BoundsAssumption DEF TypeInv, TypeOK, InBatch
<1> QED
  BY <1>1, <1>2, BoundsAssumption DEF At, Index

(* The two steps that advance the cursor in the file and in the copy. *)
LEMMA TypeAdvance ==
  ASSUME TypeInv, FilterRecord \/ SaveAck
  PROVE  TypeInv'
<1>1. pc \in AtRecord
  BY DEF FilterRecord, SaveAck, AtRecord, InDelivery
<1>2. At \in Index /\ At \in 0..MaxLog /\ At <= last /\ At <= Len(log)
  BY <1>1, AtIsIndex
<1>3. file \in Binding /\ w \in Binding
  BY DEF TypeInv, TypeOK
<1>4. UNCHANGED <<log, session, last, failure, lock, request, reply, probe,
                  accepted, late, origin, faults>>
  BY DEF FilterRecord, SaveAck, server
<1>5. \/ pc' = "wait" /\ UNCHANGED <<file, w>>
      \/ /\ file' \in Binding /\ file'.offset = At /\ file'.id = file.id
         /\ w' \in Binding /\ w'.offset = At
         /\ pc' = "wait" \/ (pc' = "next" /\ At < last)
  <2>1. CASE ~Savable
    BY <2>1 DEF FilterRecord, SaveAck, Goto
  <2>2. CASE Savable
    <3>1. /\ file' = Advanced(file, At) \/ file' = Acknowledged(file, At)
          /\ w' = Advanced(w, At)
          /\ pc' = AfterRecord(At)
      BY <2>2 DEF FilterRecord, SaveAck, Goto
    <3>2. /\ file' \in Binding /\ file'.offset = At /\ file'.id = file.id
          /\ w' \in Binding /\ w'.offset = At
      BY <3>1, <1>2, <1>3, AdvancedFields, AcknowledgedFields
    <3>3. pc' = "wait" \/ (pc' = "next" /\ At < last)
      BY <3>1 DEF AfterRecord
    <3> QED
      BY <3>2, <3>3
  <2> QED
    BY <2>1, <2>2
<1>6. CASE pc' = "wait" /\ UNCHANGED <<file, w>>
  BY <1>4, <1>6 DEF TypeInv, TypeOK, InBatch, RequestInLog, IdLeft, AtRecord, InDelivery
<1>7. CASE /\ file' \in Binding /\ file'.offset = At /\ file'.id = file.id
           /\ w' \in Binding /\ w'.offset = At
           /\ pc' = "wait" \/ (pc' = "next" /\ At < last)
  BY <1>2, <1>4, <1>7
  DEF TypeInv, TypeOK, InBatch, RequestInLog, IdLeft, AtRecord, InDelivery
<1> QED
  BY <1>5, <1>6, <1>7

(* Saving a failure keeps the types. *)
LEMMA TypeSaveFailure ==
  ASSUME TypeInv, SaveFailure
  PROVE  TypeInv'
<1>1. file' \in Binding /\ file'.offset = file.offset /\ file'.id = file.id
  <2>1. file \in Binding /\ (file' = file \/ file' = Blocked(file, failure))
    BY DEF TypeInv, TypeOK, SaveFailure
  <2> QED
    BY <2>1, BlockedFields
<1> QED
  BY <1>1 DEF TypeInv, TypeOK, InBatch, RequestInLog, IdLeft, SaveFailure, Goto,
              server, AtRecord, InDelivery

(* Sending a request keeps the types. *)
LEMMA TypeDispatch ==
  ASSUME TypeInv, Dispatch
  PROVE  TypeInv'
<1>1. pc \in AtRecord /\ pc' \in {"sent", "wait"} /\ lock' \in {lock, "free"}
  BY DEF Dispatch, Goto, AtRecord, InDelivery
<1>2. At \in Index /\ At \in 0..MaxLog /\ w.id \in 0..MaxBind
  BY <1>1, AtIsIndex, BindingFields DEF TypeInv, TypeOK
<1>3. MethodAt(pc) \in {"", "turn/start", "turn/steer"}
  BY DEF MethodAt
<1>4. /\ request' \in Request
      /\ pc' = "sent" \/ request'.id # 0 => request'.index \in Index
  <2>1. CASE Current
    <3>1. request' = [id |-> w.id, index |-> At, method |-> MethodAt(pc)]
      BY <2>1 DEF Dispatch
    <3>2. request' \in Request /\ request'.index = At
      BY <1>2, <1>3, <3>1, RequestMember
    <3> QED
      BY <1>2, <3>2
  <2>2. CASE ~Current
    BY <2>2, EmptyMembers DEF Dispatch, Goto
  <2> QED
    BY <2>1, <2>2
<1> QED
  BY <1>1, <1>4
  DEF TypeInv, TypeOK, InBatch, RequestInLog, IdLeft, Dispatch, server,
      AtRecord, InDelivery

(* Every way a delivery fails or ends with an acknowledgement. *)
LEMMA TypeDeliveryEnds ==
  ASSUME TypeInv,
         \/ pc \in {"inspect", "reinspect", "start", "steer", "fallback", "sent"}
            /\ (Fail("plain") \/ Fail("steer"))
         \/ pc = "sent" /\ pc' = "acked" /\ lock' = "free" /\ failure' = failure
            /\ request' = NoRequest /\ reply' = "none",
         UNCHANGED <<log, file, session, w, last, probe, accepted, origin>>,
         late' \in [Index -> Nat], faults' \in 0..MaxFaults
  PROVE  TypeInv'
BY EmptyMembers
DEF TypeInv, TypeOK, InBatch, RequestInLog, IdLeft, Fail, Goto, AtRecord, InDelivery

(* Giving up on an answer keeps the counts of late requests. *)
LEMMA TypeAbandon ==
  ASSUME TypeInv, Abandon
  PROVE  late' \in [Index -> Nat]
BY CountedFields DEF TypeInv, TypeOK, RequestInLog, Abandon

(* An acceptance keeps the counts of acceptances. *)
LEMMA TypeAccept ==
  ASSUME TypeInv, Accept, pc = "sent"
  PROVE  accepted' \in [Index -> Nat]
BY CountedFields DEF TypeInv, TypeOK, RequestInLog, Accept

(* Appending a record keeps the types. *)
LEMMA TypeStoreMessage ==
  ASSUME TypeInv, NEW k \in Kinds, StoreMessage(k)
  PROVE  TypeInv'
<1>1. log' \in Seq(Kind) /\ Len(log') = Len(log) + 1 /\ Len(log') \in 0..MaxLog
  BY KindsAssumption, BoundsAssumption DEF StoreMessage, TypeInv, TypeOK
<1>2. file.offset <= Len(log') /\ w.offset <= Len(log') /\ probe.offset <= Len(log')
      /\ last \in 0..Len(log')
  BY <1>1, BindingFields, ProbeFields DEF TypeInv, TypeOK
<1> QED
  BY <1>1, <1>2
  DEF StoreMessage, TypeInv, TypeOK, InBatch, RequestInLog, IdLeft, worker, server

(* The end of a bind keeps the types. *)
LEMMA TypeBind ==
  ASSUME TypeInv, NEW available \in BOOLEAN, BindSave(available)
  PROVE  TypeInv'
<1>1. file.id + 1 \in 0..MaxBind
  BY BindingFields, BoundsAssumption DEF TypeInv, TypeOK, IdLeft, BindSave
<1>2. /\ file' \in Binding /\ file'.offset = probe.offset
      /\ probe.offset \in 0..MaxLog
  BY <1>1, NewBindingMember, ProbeFields DEF BindSave, TypeInv, TypeOK
<1> QED
  BY <1>2, EmptyMembers, ZeroFields
  DEF BindSave, TypeInv, TypeOK, InBatch, RequestInLog, IdLeft, worker

(* The beginning of a bind or a reuse keeps the types. *)
LEMMA TypeBegin ==
  ASSUME TypeInv, NEW r \in Routes, NEW replay \in BOOLEAN,
         NEW required \in BOOLEAN, NEW reuse \in BOOLEAN,
         StartProbe(r, replay, required, reuse), file.id < MaxBind,
         UNCHANGED <<log, file, session, worker, server, faults>>
  PROVE  TypeInv'
<1>1. (IF replay THEN 0 ELSE Len(log)) \in 0..MaxLog
  BY BoundsAssumption DEF TypeInv, TypeOK
<1>2. probe' \in Probe /\ probe'.offset <= Len(log)
  BY <1>1, ProbeMember DEF StartProbe, TypeInv, TypeOK
<1> QED
  BY <1>2 DEF TypeInv, TypeOK, InBatch, RequestInLog, IdLeft, worker, server

(* Every step keeps the types. *)
LEMMA TypeStep == TypeInv /\ [Next]_vars => TypeInv'
<1> SUFFICES ASSUME TypeInv, [Next]_vars PROVE TypeInv'
  OBVIOUS
<1> USE DEF Goto, Fault, NoFault, worker, server
<1>a. faults \in 0..MaxFaults /\ MaxFaults \in Nat /\ late \in [Index -> Nat]
  BY BoundsAssumption DEF TypeInv, TypeOK
<1>1. CASE LoadBinding
  BY <1>1 DEF LoadBinding, TypeInv, TypeOK, InBatch, RequestInLog, IdLeft, AtRecord, InDelivery
<1>2. CASE ReadRecords
  <2>1. PICK m \in w.offset..Len(log) :
           last' = m /\ pc' = IF m = w.offset THEN "wait" ELSE "next"
    BY <1>2 DEF ReadRecords
  <2>2. w.offset \in Nat /\ Len(log) \in Nat /\ m \in 0..Len(log)
        /\ (m # w.offset => w.offset < m)
    BY BindingFields DEF TypeInv, TypeOK
  <2> QED
    BY <1>2, <2>1, <2>2 DEF ReadRecords, TypeInv, TypeOK, InBatch, RequestInLog, IdLeft, AtRecord, InDelivery
<1>3. CASE FilterRecord \/ SaveAck
  BY <1>3, TypeAdvance
<1>4. CASE GiveUpRecord
  BY <1>4, <1>a DEF GiveUpRecord, TypeInv, TypeOK, InBatch, RequestInLog, IdLeft, AtRecord, InDelivery
<1>5. CASE LockThread
  BY <1>5 DEF LockThread, TypeInv, TypeOK, InBatch, RequestInLog, IdLeft, AtRecord, InDelivery
<1>6. CASE Recheck
  BY <1>6 DEF Recheck, TypeInv, TypeOK, InBatch, RequestInLog, IdLeft, AtRecord, InDelivery
<1>7. CASE InspectIdle
  <2>1. CASE w.noStart
    BY <1>7, <2>1, <1>a, TypeDeliveryEnds DEF InspectIdle
  <2>2. CASE ~w.noStart
    BY <1>7, <2>2 DEF InspectIdle, TypeInv, TypeOK, InBatch, RequestInLog, IdLeft, AtRecord, InDelivery
  <2> QED
    BY <2>1, <2>2
<1>8. CASE InspectActive
  BY <1>8 DEF InspectActive, TypeInv, TypeOK, InBatch, RequestInLog, IdLeft, AtRecord, InDelivery
<1>9. CASE InspectFails
  BY <1>9, <1>a, TypeDeliveryEnds DEF InspectFails
<1>10. CASE ReinspectIdle
  BY <1>10 DEF ReinspectIdle, TypeInv, TypeOK, InBatch, RequestInLog, IdLeft, AtRecord, InDelivery
<1>11. CASE Dispatch
  BY <1>11, TypeDispatch
<1>12. CASE DispatchFails
  BY <1>12, <1>a, TypeDeliveryEnds DEF DispatchFails
<1>13. CASE ReceiveRace
  BY <1>13, EmptyMembers DEF ReceiveRace, TypeInv, TypeOK, InBatch, RequestInLog, IdLeft, AtRecord, InDelivery
<1>14. CASE ReceiveError
  BY <1>14, <1>a, TypeDeliveryEnds DEF ReceiveError
<1>15. CASE ReceiveAck
  BY <1>15, <1>a, TypeDeliveryEnds DEF ReceiveAck
<1>16. CASE ReplyLost
  BY <1>16, <1>a, TypeDeliveryEnds, TypeAbandon DEF ReplyLost
<1>17. CASE SaveFailure
  BY <1>17, TypeSaveFailure
<1>18. CASE SaveFails
  BY <1>18, <1>a DEF SaveFails, TypeInv, TypeOK, InBatch, RequestInLog, IdLeft, AtRecord, InDelivery
<1>19. CASE ServerAccepts \/ ServerAcceptsAndFails
  <2>1. accepted' \in [Index -> Nat]
    BY <1>19, TypeAccept DEF ServerAccepts, ServerAcceptsAndFails, Pending
  <2> QED
    BY <1>19, <1>a, <2>1 DEF ServerAccepts, ServerAcceptsAndFails, Pending, TypeInv, TypeOK, InBatch, RequestInLog, IdLeft, AtRecord, InDelivery
<1>20. CASE ServerFindsNoTurn
  BY <1>20 DEF ServerFindsNoTurn, Pending, TypeInv, TypeOK, InBatch, RequestInLog, IdLeft, AtRecord, InDelivery
<1>21. CASE ServerRefuses
  BY <1>21 DEF ServerRefuses, Pending, TypeInv, TypeOK, InBatch, RequestInLog, IdLeft, AtRecord, InDelivery
<1>22. ASSUME NEW i \in Index, LateRequest(i) PROVE TypeInv'
  <2>1. late' \in [Index -> Nat] /\ late' = [late EXCEPT ![i] = @ - 1]
    BY <1>22, <1>a DEF LateRequest
  <2>2. accepted' \in [Index -> Nat]
    BY <1>22, CountedFields DEF LateRequest, TypeInv, TypeOK
  <2> QED
    BY <1>22, <2>1, <2>2 DEF LateRequest, TypeInv, TypeOK, InBatch, RequestInLog, IdLeft, AtRecord, InDelivery
<1>23. ASSUME NEW k \in Kinds, StoreMessage(k) PROVE TypeInv'
  BY <1>23, TypeStoreMessage
<1>24. ASSUME NEW r \in Routes, NEW replay \in BOOLEAN, NEW required \in BOOLEAN,
            BindBegin(r, replay, required)
     PROVE  TypeInv'
  BY <1>24, TypeBegin DEF BindBegin
<1>25. ASSUME NEW r \in Routes, ReuseBegin(r) PROVE TypeInv'
  <2>1. file.enabled \in BOOLEAN
    BY BindingFields DEF TypeInv, TypeOK
  <2> QED
    BY <1>25, <2>1, TypeBegin DEF ReuseBegin
<1>26. ASSUME NEW available \in BOOLEAN, BindSave(available) PROVE TypeInv'
  BY <1>26, TypeBind
<1>27. CASE BindKeep
  BY <1>27, EmptyMembers DEF BindKeep, TypeInv, TypeOK, InBatch, RequestInLog, IdLeft, AtRecord, InDelivery
<1>28. CASE Unbind
  BY <1>28, DisabledFields DEF Unbind, TypeInv, TypeOK, InBatch, RequestInLog, IdLeft, AtRecord, InDelivery
<1>29. CASE OtherLocks
  BY <1>29 DEF OtherLocks, TypeInv, TypeOK, InBatch, RequestInLog, IdLeft, AtRecord, InDelivery
<1>30. CASE OtherUnlocks
  BY <1>30 DEF OtherUnlocks, TypeInv, TypeOK, InBatch, RequestInLog, IdLeft, AtRecord, InDelivery
<1>31. CASE SupervisorEnds
  <2>1. late' \in [Index -> Nat]
    BY <1>31, TypeAbandon DEF SupervisorEnds
  <2> QED
    BY <1>31, <1>a, <2>1, EmptyMembers DEF SupervisorEnds, TypeInv, TypeOK, InBatch, RequestInLog, IdLeft, AtRecord, InDelivery
<1>32. ASSUME NEW s \in Session, SupervisorStarts(s) PROVE TypeInv'
  BY <1>32 DEF SupervisorStarts, TypeInv, TypeOK, InBatch, RequestInLog, IdLeft, AtRecord, InDelivery
<1>33. CASE UNCHANGED vars
  BY <1>33 DEF vars, TypeInv, TypeOK, InBatch, RequestInLog, IdLeft, AtRecord, InDelivery
<1> QED
  BY <1>1, <1>2, <1>3, <1>4, <1>5, <1>6, <1>7, <1>8, <1>9, <1>10, <1>11,
     <1>12, <1>13, <1>14, <1>15, <1>16, <1>17, <1>18, <1>19, <1>20, <1>21, <1>22,
     <1>23, <1>24, <1>25, <1>26, <1>27, <1>28, <1>29, <1>30, <1>31, <1>32, <1>33
  DEF Next, WorkerStep, ServerStep, ControlStep, EnvironmentStep

(* No cursor, batch or request of any reachable state leaves the log. *)
THEOREM TypeCorrect == Spec => []TypeOK
<1>1. TypeInv => TypeOK
  BY DEF TypeInv
<1> QED
  BY TypeInit, TypeStep, <1>1, PTL DEF Spec

----------------------------------------------------------------------------
(* Nothing is lost.  The inductive invariant ties together the worker's
   stale copy, its batch, the pending request and the app server's counts. *)

Holding    == pc \in AtRecord \cup {"read"}
Delivering == pc \in InDelivery \cup {"acked", "failed"}

(* The worker's copy: never of a later binding than the file; of the same
   binding, it agrees on the route and, while in use, on the cursor. *)
CopyInv ==
  /\ w.id <= file.id
  /\ w.id = file.id /\ w.id # 0 => w.route = file.route /\ w.session = file.session
  /\ w.id = file.id /\ Holding => w.offset = file.offset
  /\ Holding => w.id # 0
  /\ file.enabled => file.id # 0

(* The batch decodes, and what is being delivered is wanted by the copy. *)
BatchInv ==
  /\ pc \in AtRecord => \A i \in Index : w.offset < i /\ i <= last => log[i] # "corrupt"
  /\ Delivering => AddressedTo(log[At], w.route) /\ log[At] # "legacy"

(* The pending request is for the record the worker is at; a positive answer
   means it was accepted. *)
PendingInv ==
  /\ pc = "sent" => request.id = w.id /\ request.index = At
  /\ pc # "sent" => reply = "none" /\ request.id = 0
  /\ reply = "ok" /\ request.id = file.id => accepted[request.index] > 0
  /\ pc = "acked" /\ w.id = file.id => accepted[At] > 0

(* What was accepted, or may be accepted late, is wanted by the binding in
   force, and everything it wants before it was accepted. *)
Countable(i) ==
  /\ origin < i /\ i <= Len(log)
  /\ AddressedTo(log[i], file.route)
  /\ \A j \in Wanted(origin, i - 1) : accepted[j] > 0

CountInv ==
  /\ origin <= file.offset
  /\ \A i \in Index : accepted[i] > 0 \/ late[i] > 0 => Countable(i)
  /\ NoLoss
  /\ PoisonHolds

IInv == TypeInv /\ CopyInv /\ BatchInv /\ PendingInv /\ CountInv

(* The inductive invariant holds at first. *)
LEMMA InvInit == Init => IInv
<1> SUFFICES ASSUME Init PROVE IInv
  OBVIOUS
<1>1. /\ pc = "wait" /\ pc \notin AtRecord /\ ~Holding /\ ~Delivering
      /\ w.id = 0 /\ w.offset = 0 /\ file.id = 0 /\ file.offset = 0
      /\ ~file.enabled /\ reply = "none" /\ request.id = 0
  BY EmptyMembers DEF Init, Holding, Delivering, AtRecord, InDelivery, NoBinding, NoRequest
<1>2. accepted = Zero /\ late = Zero /\ origin = 0 /\ Len(log) = 0
  BY DEF Init
<1>3. CopyInv
  BY <1>1 DEF CopyInv
<1>4. BatchInv
  BY <1>1 DEF BatchInv
<1>5. PendingInv
  BY <1>1 DEF PendingInv
<1>6. CountInv
  BY <1>1, <1>2, ZeroFields, BoundsAssumption DEF CountInv, NoLoss, PoisonHolds, Wanted, Index
<1> QED
  BY TypeInit, <1>3, <1>4, <1>5, <1>6 DEF IInv

(* The steps of the worker and of the app server that leave log, file, copy
   and counts alone only move the program counter. *)
LEMMA CopyKeeps ==
  ASSUME CopyInv, UNCHANGED <<file, w>>, Holding' => Holding
  PROVE  CopyInv'
BY DEF CopyInv

(* A step that leaves the batch alone keeps what is known of it. *)
LEMMA BatchKeeps ==
  ASSUME BatchInv, UNCHANGED <<log, w, last>>,
         pc' \in AtRecord => pc \in AtRecord, Delivering' => Delivering
  PROVE  BatchInv'
<1>1. At' = At
  BY DEF At
<1>2. pc' \in AtRecord => \A i \in Index : w'.offset < i /\ i <= last' => log'[i] # "corrupt"
  BY DEF BatchInv
<1>3. Delivering' => AddressedTo(log'[At'], w'.route) /\ log'[At'] # "legacy"
  BY <1>1 DEF BatchInv
<1> QED
  BY <1>2, <1>3 DEF BatchInv

(* Rewrites of the file that keep ID, route, cursor, and requests whose
   sender gives up, keep the counts. *)
LEMMA CountKeeps ==
  ASSUME CountInv, UNCHANGED <<log, accepted, origin>>,
         file'.route = file.route, file'.offset = file.offset,
         \A i \in Index : late'[i] > 0 => late[i] > 0 \/ Countable(i)
  PROVE  CountInv'
<1>1. \A m, n : Wanted(m, n)' = Wanted(m, n)
  BY DEF Wanted
<1>2. \A i \in Index : Countable(i) => Countable(i)'
  BY <1>1 DEF Countable
<1>3. NoLoss'
  BY <1>1 DEF CountInv, NoLoss
<1>4. PoisonHolds'
  BY <1>1 DEF CountInv, PoisonHolds
<1> QED
  BY <1>2, <1>3, <1>4 DEF CountInv


(* Identities, cursors and counts are numbers, for the provers' arithmetic. *)
LEMMA WorkerIDs ==
  ASSUME TypeInv
  PROVE  /\ file.id \in Nat /\ w.id \in Nat /\ file.offset \in Nat /\ w.offset \in Nat
         /\ file.offset \in 0..MaxLog /\ file.offset <= Len(log)
         /\ Len(log) \in Nat /\ last \in Nat /\ last <= Len(log) /\ origin \in Nat
         /\ accepted \in [Index -> Nat] /\ late \in [Index -> Nat]
<1>1. file \in Binding /\ w \in Binding /\ Len(log) \in Nat /\ file.offset <= Len(log)
  BY BoundsAssumption DEF TypeInv, TypeOK
<1>2. last \in Nat /\ last <= Len(log) /\ origin \in Nat
      /\ accepted \in [Index -> Nat] /\ late \in [Index -> Nat]
  BY <1>1, BoundsAssumption DEF TypeInv, TypeOK
<1> QED
  BY <1>1, <1>2, BindingFields

(* The pending request is for a record the binding in force wants next, if
   that binding sent it. *)
LEMMA PendingCountable ==
  ASSUME IInv, pc = "sent", request.id = file.id
  PROVE  request.index \in Index /\ Countable(request.index)
<1>1. pc \in AtRecord /\ Holding /\ Delivering
  BY DEF AtRecord, InDelivery, Holding, Delivering
<1>2. /\ At \in Index /\ At <= Len(log) /\ At = w.offset + 1
  BY <1>1, AtIsIndex DEF IInv
<1>3. /\ request.index = At /\ w.id = file.id /\ w.id # 0
      /\ w.offset = file.offset /\ w.route = file.route
  BY <1>1 DEF IInv, PendingInv, CopyInv
<1>4. origin <= file.offset /\ origin \in Nat /\ file.offset \in Nat
  BY WorkerIDs DEF IInv, CountInv
<1>5. AddressedTo(log[At], file.route)
  BY <1>1, <1>3 DEF IInv, BatchInv
<1>6. \A j \in Wanted(origin, At - 1) : accepted[j] > 0
  BY <1>2, <1>3, <1>4 DEF IInv, CountInv, NoLoss
<1> QED
  BY <1>2, <1>3, <1>4, <1>5, <1>6 DEF Countable

(* Giving up on an answer counts only a request that was countable. *)
LEMMA AbandonKeeps ==
  ASSUME IInv, Abandon, UNCHANGED <<log, file, accepted, origin>>
  PROVE  CountInv'
<1>1. ASSUME NEW i \in Index, late'[i] > 0 PROVE late[i] > 0 \/ Countable(i)
  <2>1. CASE request.id = file.id /\ request.id # 0 /\ reply = "none"
    <3>1. pc = "sent"
      BY <2>1 DEF IInv, PendingInv
    <3>2. request.index \in Index /\ Countable(request.index)
      BY <2>1, <3>1, PendingCountable
    <3>3. late' = CountedIn(late, request.index)
      BY <2>1 DEF Abandon
    <3>4. i # request.index => late'[i] = late[i]
      BY <3>2, <3>3, WorkerIDs, CountedFields DEF IInv
    <3> QED
      BY <1>1, <3>2, <3>4
  <2>2. CASE ~(request.id = file.id /\ request.id # 0 /\ reply = "none")
    BY <1>1, <2>2 DEF Abandon
  <2> QED
    BY <2>1, <2>2
<1> QED
  BY <1>1, CountKeeps DEF IInv

(* One more acceptance of a countable record keeps the counts. *)
LEMMA AcceptKeeps ==
  ASSUME TypeInv, CountInv, NEW n \in Index, Countable(n),
         accepted' = CountedIn(accepted, n),
         UNCHANGED <<log, file, origin>>,
         \A i \in Index : late'[i] > 0 => late[i] > 0
  PROVE  CountInv'
<1>1. \A i \in Index : accepted'[i] >= accepted[i] /\ (i # n => accepted'[i] = accepted[i])
  BY CountedFields, WorkerIDs
<1>2. \A i \in Index : accepted[i] > 0 => accepted'[i] > 0
  BY <1>1, WorkerIDs, CountedFields
<1>3. \A m, o : Wanted(m, o)' = Wanted(m, o)
  BY DEF Wanted
<1>4. \A m, o : Wanted(m, o) \subseteq Index
  BY DEF Wanted
<1>5. \A i \in Index : Countable(i) => Countable(i)'
  BY <1>2, <1>3, <1>4 DEF Countable
<1>6. \A i \in Index : accepted'[i] > 0 \/ late'[i] > 0 => Countable(i)
  BY <1>1 DEF CountInv
<1>7. NoLoss'
  BY <1>2, <1>3, <1>4 DEF CountInv, NoLoss
<1>8. PoisonHolds'
  BY <1>3 DEF CountInv, PoisonHolds
<1> QED
  BY <1>5, <1>6, <1>7, <1>8 DEF CountInv

(* A step that only moves the program counter or ends the delivery. *)
LEMMA QuietStep ==
  ASSUME IInv, TypeInv',
         UNCHANGED <<log, file, w, last, accepted, origin>>,
         Holding' => Holding, pc' \in AtRecord => pc \in AtRecord,
         Delivering' => Delivering,
         late' = late \/ Abandon,
         PendingInv'
  PROVE  IInv'
<1>1. CopyInv'
  BY CopyKeeps DEF IInv
<1>2. BatchInv'
  BY BatchKeeps DEF IInv
<1>3. CountInv'
  <2>1. CASE late' = late
    BY <2>1, CountKeeps DEF IInv
  <2>2. CASE Abandon
    BY <2>2, AbandonKeeps
  <2> QED
    BY <2>1, <2>2
<1> QED
  BY <1>1, <1>2, <1>3 DEF IInv


(* Appending a record keeps the invariant: it lies beyond every cursor. *)
LEMMA InvStoreMessage ==
  ASSUME IInv, TypeInv', NEW k \in Kinds, StoreMessage(k)
  PROVE  IInv'
<1>1. /\ log' = Append(log, k) /\ log \in Seq(Kind)
      /\ UNCHANGED <<file, pc, w, last, request, reply, accepted, late, origin>>
  BY DEF StoreMessage, worker, server, IInv, TypeInv, TypeOK
<1>2. /\ Len(log') = Len(log) + 1
      /\ \A i \in Index : i <= Len(log) => log'[i] = log[i]
  BY <1>1 DEF Index
<1>3. Holding' = Holding /\ Delivering' = Delivering /\ At' = At
      /\ (Delivering => pc \in AtRecord)
  BY <1>1 DEF Holding, Delivering, AtRecord, At
<1>4. CopyInv'
  BY <1>1, <1>3, CopyKeeps DEF IInv
<1>5. BatchInv'
  <2>0. /\ last \in Nat /\ last <= Len(log) /\ Len(log) \in Nat
        /\ \A i \in Index : i \in Nat
    BY WorkerIDs DEF IInv, Index
  <2>1. ASSUME pc \in AtRecord, NEW i \in Index, w.offset < i, i <= last
        PROVE  log'[i] # "corrupt"
    <3>1. log[i] # "corrupt"
      BY <2>1 DEF IInv, BatchInv
    <3>2. i <= Len(log)
      BY <2>0, <2>1
    <3> QED
      BY <1>2, <3>1, <3>2
  <2>2. Delivering => AddressedTo(log'[At], w.route) /\ log'[At] # "legacy"
    BY <1>2, <1>3, AtIsIndex DEF IInv, BatchInv
  <2> QED
    BY <1>1, <1>3, <2>1, <2>2 DEF BatchInv
<1>6. PendingInv'
  BY <1>1, <1>3 DEF IInv, PendingInv
<1>7. CountInv'
  <2>1. \A m, n : n <= Len(log) /\ n \in Int => Wanted(m, n)' = Wanted(m, n)
    BY <1>1, <1>2, WorkerIDs DEF IInv, Wanted, Index
  <2>2. \A i \in Index : Countable(i) => Countable(i)'
    BY <1>1, <1>2, <2>1, WorkerIDs DEF IInv, Countable, Index
  <2>3. NoLoss'
    BY <1>1, <2>1, WorkerIDs DEF IInv, CountInv, NoLoss
  <2>4. PoisonHolds'
    BY <1>1, <1>2, <2>1, WorkerIDs DEF IInv, CountInv, PoisonHolds, Index
  <2> QED
    BY <1>1, <2>2, <2>3, <2>4 DEF IInv, CountInv
<1> QED
  BY <1>4, <1>5, <1>6, <1>7 DEF IInv

(* Loading the binding makes the copy agree with the file. *)
LEMMA InvLoadBinding ==
  ASSUME IInv, TypeInv', LoadBinding
  PROVE  IInv'
<1>1. /\ w' = file /\ pc = "wait" /\ pc' = "read" /\ file.enabled
      /\ UNCHANGED <<log, file, last, request, reply, accepted, late, origin>>
  BY DEF LoadBinding, Goto, server
<1>2. pc' \notin AtRecord /\ ~Delivering'
  BY <1>1 DEF AtRecord, Delivering, InDelivery
<1>3. CopyInv'
  BY <1>1, WorkerIDs DEF IInv, CopyInv
<1>4. BatchInv'
  BY <1>2 DEF BatchInv
<1>5. PendingInv'
  BY <1>1 DEF IInv, PendingInv
<1>6. CountInv'
  BY <1>1, CountKeeps DEF IInv
<1> QED
  BY <1>3, <1>4, <1>5, <1>6 DEF IInv

(* Reading a batch stops before the first record that does not decode. *)
LEMMA InvReadRecords ==
  ASSUME IInv, TypeInv', ReadRecords
  PROVE  IInv'
<1>1. PICK n \in w.offset..Len(log) :
        /\ IsReadEnd(w.offset, n) /\ last' = n /\ pc' \in {"wait", "next"}
        /\ pc = "read"
        /\ UNCHANGED <<log, file, w, request, reply, accepted, late, origin>>
  BY DEF ReadRecords, Goto, server
<1>2. ~Delivering' /\ Holding
  BY <1>1 DEF AtRecord, Delivering, InDelivery, Holding
<1>3. CopyInv'
  BY <1>1, <1>2, CopyKeeps DEF IInv
<1>4. \A i \in Index : w'.offset < i /\ i <= last' => log'[i] # "corrupt"
  BY <1>1, WorkerIDs DEF IInv, IsReadEnd, Index
<1>5. BatchInv'
  BY <1>2, <1>4 DEF BatchInv
<1>6. PendingInv'
  BY <1>1 DEF IInv, PendingInv
<1>7. CountInv'
  BY <1>1, CountKeeps DEF IInv
<1> QED
  BY <1>3, <1>5, <1>6, <1>7 DEF IInv

(* The cursor passes a record: it is unwanted, or it was accepted. *)
LEMMA InvAdvance ==
  ASSUME IInv, TypeInv', FilterRecord \/ SaveAck
  PROVE  IInv'
<1>1. /\ pc \in AtRecord /\ pc # "sent" /\ pc' \in {"wait", "next"} /\ Holding
      /\ UNCHANGED <<log, last, request, reply, accepted, late, origin>>
  BY DEF FilterRecord, SaveAck, Goto, AfterRecord, server, AtRecord, InDelivery, Holding
<1>2. /\ At \in Index /\ At \in 0..MaxLog /\ At <= last /\ At <= Len(log)
      /\ At = w.offset + 1
  BY <1>1, AtIsIndex DEF IInv
<1>3. ~Delivering' /\ pc' # "sent" /\ pc' # "acked"
  BY <1>1 DEF Delivering, InDelivery
<1>4. PendingInv'
  BY <1>1, <1>3 DEF IInv, PendingInv
<1>5. CASE ~Savable
  <2>1. UNCHANGED <<file, w>> /\ pc' = "wait"
    BY <1>5 DEF FilterRecord, SaveAck, Goto
  <2>2. pc' \notin AtRecord
    BY <2>1 DEF AtRecord, InDelivery
  <2> QED
    BY <1>1, <1>3, <1>4, <2>1, <2>2, CopyKeeps, BatchKeeps, CountKeeps DEF IInv
<1>6. CASE Savable
  <2>1. /\ file' = Advanced(file, At) \/ file' = Acknowledged(file, At)
        /\ w' = Advanced(w, At)
    BY <1>6 DEF FilterRecord, SaveAck
  <2>2. file \in Binding /\ w \in Binding
    BY DEF IInv, TypeInv, TypeOK
  <2>3. /\ file'.offset = At /\ file'.id = file.id /\ file'.route = file.route
        /\ file'.enabled = file.enabled /\ file'.session = file.session
        /\ w'.offset = At /\ w'.id = w.id /\ w'.route = w.route
        /\ w'.session = w.session
    BY <1>2, <2>1, <2>2, AdvancedFields, AcknowledgedFields
  <2>4. /\ w.id = file.id /\ w.id # 0 /\ w.route = file.route
        /\ w.offset = file.offset
    BY <1>1, <1>6 DEF Savable, Matches, IInv, CopyInv
  <2>5. CopyInv'
    BY <2>3, <2>4 DEF IInv, CopyInv
  <2>6. BatchInv'
    <3>1. \A i \in Index : w.offset < i /\ i <= last => log[i] # "corrupt"
      BY <1>1 DEF IInv, BatchInv
    <3>2. \A i \in Index : w'.offset < i /\ i <= last' => log'[i] # "corrupt"
      BY <1>1, <1>2, <2>3, <3>1, WorkerIDs DEF IInv, Index
    <3> QED
      BY <1>3, <3>2 DEF BatchInv
  <2>7. AddressedTo(log[At], file.route) => accepted[At] > 0 /\ log[At] # "legacy"
    <3>1. CASE pc = "acked"
      BY <2>4, <3>1 DEF IInv, PendingInv, BatchInv, Delivering
    <3>2. CASE pc # "acked"
      BY <2>4, <3>2 DEF FilterRecord, SaveAck
    <3> QED
      BY <3>1, <3>2
  <2>8. log[At] # "corrupt"
    BY <1>1, <1>2, WorkerIDs DEF IInv, BatchInv
  <2>9. \A m, n : Wanted(m, n)' = Wanted(m, n)
    BY <1>1, <2>3 DEF Wanted
  <2>10. \A i \in Index : i <= At => i <= file.offset \/ i = At
    BY <1>2, <2>4, WorkerIDs DEF IInv, Index
  <2>11. \A i \in Index : Countable(i) => Countable(i)'
    BY <1>1, <2>3, <2>9 DEF Countable
  <2>12. NoLoss'
    BY <1>1, <2>3, <2>7, <2>9, <2>10 DEF IInv, CountInv, NoLoss, Wanted
  <2>13. PoisonHolds'
    <3>1. ASSUME NEW i \in Index, origin < i, i <= At
          PROVE  log[i] # "corrupt"
      BY <2>8, <2>10, <3>1 DEF IInv, CountInv, PoisonHolds
    <3>2. ASSUME NEW i \in Wanted(origin, At), log[i] = "legacy"
          PROVE  FALSE
      <4>1. i \in Index /\ origin < i /\ i <= At /\ AddressedTo(log[i], file.route)
            /\ i <= Len(log)
        BY <3>2 DEF Wanted
      <4>2. i <= file.offset
        BY <2>7, <2>10, <3>2, <4>1
      <4>3. i \in Wanted(origin, file.offset)
        BY <4>1, <4>2 DEF Wanted
      <4> QED
        BY <3>2, <4>1, <4>2, <4>3 DEF IInv, CountInv, PoisonHolds
    <3> QED
      BY <1>1, <2>3, <2>9, <3>1, <3>2 DEF PoisonHolds
  <2>14. origin' <= file'.offset
    BY <1>1, <1>2, <2>3, <2>4, WorkerIDs DEF IInv, CountInv
  <2>15. CountInv'
    BY <1>1, <2>11, <2>12, <2>13, <2>14 DEF IInv, CountInv
  <2> QED
    BY <1>4, <2>5, <2>6, <2>15 DEF IInv
<1> QED
  BY <1>5, <1>6


(* Saving a failure keeps the invariant: the cursor stays. *)
LEMMA InvSaveFailure ==
  ASSUME IInv, TypeInv', SaveFailure
  PROVE  IInv'
<1>1. /\ pc = "failed" /\ pc' = "wait"
      /\ file' = file \/ file' = Blocked(file, failure)
      /\ UNCHANGED <<log, w, last, request, reply, accepted, late, origin>>
  BY DEF SaveFailure, Goto, server
<1>2. /\ file'.offset = file.offset /\ file'.id = file.id
      /\ file'.route = file.route /\ file'.enabled = file.enabled
      /\ file'.session = file.session
  BY <1>1, BlockedFields DEF IInv, TypeInv, TypeOK
<1>3. pc' \notin AtRecord /\ ~Delivering' /\ ~Holding'
  BY <1>1 DEF AtRecord, Delivering, InDelivery, Holding
<1>4. CopyInv'
  BY <1>1, <1>2, <1>3 DEF IInv, CopyInv
<1>5. BatchInv'
  BY <1>3 DEF BatchInv
<1>6. PendingInv'
  BY <1>1 DEF IInv, PendingInv
<1>7. CountInv'
  BY <1>1, <1>2, CountKeeps DEF IInv
<1> QED
  BY <1>4, <1>5, <1>6, <1>7 DEF IInv

(* An unbind keeps the invariant: the cursor stays. *)
LEMMA InvUnbind ==
  ASSUME IInv, TypeInv', Unbind
  PROVE  IInv'
<1>1. /\ file' = Disabled(file)
      /\ UNCHANGED <<log, pc, w, last, request, reply, accepted, late, origin>>
  BY DEF Unbind, worker, server
<1>2. /\ file'.offset = file.offset /\ file'.id = file.id
      /\ file'.route = file.route /\ ~file'.enabled
      /\ file'.session = file.session
  BY <1>1, DisabledFields DEF IInv, TypeInv, TypeOK
<1>3. Holding' = Holding /\ Delivering' = Delivering /\ At' = At
  BY <1>1 DEF Holding, Delivering, At
<1>4. CopyInv'
  BY <1>1, <1>2, <1>3 DEF IInv, CopyInv
<1>5. BatchInv'
  BY <1>1, <1>3, BatchKeeps DEF IInv
<1>6. PendingInv'
  BY <1>1, <1>2, <1>3 DEF IInv, PendingInv
<1>7. CountInv'
  BY <1>1, <1>2, CountKeeps DEF IInv
<1> QED
  BY <1>4, <1>5, <1>6, <1>7 DEF IInv

(* A new binding starts with nothing accepted and nothing wanted behind its
   cursor; the worker's copy, if any, is of an older one. *)
LEMMA InvBindSave ==
  ASSUME IInv, TypeInv', NEW available \in BOOLEAN, BindSave(available)
  PROVE  IInv'
<1>1. /\ file' = NewBinding(available) /\ origin' = probe.offset
      /\ accepted' = Zero /\ late' = Zero
      /\ UNCHANGED <<log, pc, w, last, request, reply>>
  BY DEF BindSave, worker
<1>2. file'.id = file.id + 1 /\ file'.offset = probe.offset
  BY <1>1 DEF NewBinding
<1>3. /\ file.id \in Nat /\ w.id \in Nat /\ w.id <= file.id /\ probe.offset \in Nat
  BY WorkerIDs, ProbeFields DEF IInv, CopyInv, TypeInv, TypeOK
<1>4. w.id # file'.id /\ w.id <= file'.id /\ file'.id # 0
  BY <1>2, <1>3
<1>5. Holding' = Holding /\ Delivering' = Delivering /\ At' = At
  BY <1>1 DEF Holding, Delivering, At
<1>6. CopyInv'
  BY <1>1, <1>4, <1>5 DEF IInv, CopyInv
<1>7. BatchInv'
  BY <1>1, <1>5, BatchKeeps DEF IInv
<1>8. PendingInv'
  <2>1. reply = "ok" => request.id # file'.id
    BY <1>4 DEF IInv, PendingInv
  <2> QED
    BY <1>1, <1>4, <1>5, <2>1 DEF IInv, PendingInv
<1>9. CountInv'
  <2>1. Wanted(origin, file.offset)' = {}
    BY <1>1, <1>2, <1>3 DEF Wanted, Index
  <2>2. NoLoss' /\ PoisonHolds'
    BY <1>1, <1>2, <1>3, <2>1, BoundsAssumption DEF NoLoss, PoisonHolds, Index
  <2> QED
    BY <1>1, <1>2, <1>3, <2>2, ZeroFields DEF CountInv
<1> QED
  BY <1>6, <1>7, <1>8, <1>9 DEF IInv

(* What the app server accepts is the record at the cursor. *)
LEMMA InvServerAccepts ==
  ASSUME IInv, TypeInv', ServerAccepts \/ ServerAcceptsAndFails
  PROVE  IInv'
<1>1. /\ pc = "sent" /\ Accept /\ reply' \in {"ok", "error"}
      /\ UNCHANGED <<log, file, pc, w, last, request, late, origin>>
  BY DEF ServerAccepts, ServerAcceptsAndFails, Pending
<1>2. Holding' = Holding /\ Delivering' = Delivering /\ At' = At
  BY <1>1 DEF Holding, Delivering, At
<1>3. CopyInv' /\ BatchInv'
  BY <1>1, <1>2, CopyKeeps, BatchKeeps DEF IInv
<1>4. CASE request.id = file.id
  <2>1. /\ request.index \in Index /\ Countable(request.index)
        /\ accepted' = CountedIn(accepted, request.index)
    BY <1>1, <1>4, PendingCountable DEF Accept
  <2>2. CountInv'
    BY <1>1, <2>1, AcceptKeeps DEF IInv
  <2>3. accepted'[request.index] > 0
    BY <2>1, CountedFields, WorkerIDs DEF IInv
  <2>4. PendingInv'
    BY <1>1, <1>2, <2>3 DEF IInv, PendingInv
  <2> QED
    BY <1>3, <2>2, <2>4 DEF IInv
<1>5. CASE request.id # file.id
  <2>1. accepted' = accepted
    BY <1>1, <1>5 DEF Accept
  <2>2. CountInv'
    BY <1>1, <2>1, CountKeeps DEF IInv
  <2>3. PendingInv'
    BY <1>1, <1>2, <1>5, <2>1 DEF IInv, PendingInv
  <2> QED
    BY <1>3, <2>2, <2>3 DEF IInv
<1> QED
  BY <1>4, <1>5

(* What it accepts late was once the record at the cursor. *)
LEMMA InvLateRequest ==
  ASSUME IInv, TypeInv', NEW i \in Index, LateRequest(i)
  PROVE  IInv'
<1>1. /\ late[i] > 0 /\ late' = [late EXCEPT ![i] = @ - 1]
      /\ accepted' = CountedIn(accepted, i) \/ accepted' = accepted
      /\ UNCHANGED <<log, file, pc, w, last, request, reply, origin>>
  BY DEF LateRequest, worker
<1>2. Holding' = Holding /\ Delivering' = Delivering /\ At' = At
  BY <1>1 DEF Holding, Delivering, At
<1>3. CopyInv' /\ BatchInv'
  BY <1>1, <1>2, CopyKeeps, BatchKeeps DEF IInv
<1>4. Countable(i)
  BY <1>1 DEF IInv, CountInv
<1>5. \A j \in Index : late'[j] > 0 => late[j] > 0
  BY <1>1, WorkerIDs DEF IInv
<1>6. CountInv'
  BY <1>1, <1>4, <1>5, AcceptKeeps, CountKeeps DEF IInv
<1>7. \A j \in Index : accepted'[j] >= accepted[j]
  <2>1. \A j \in Index : accepted[j] \in Nat
    BY WorkerIDs DEF IInv
  <2>2. CASE accepted' = CountedIn(accepted, i)
    <3>1. \A j \in Index : CountedIn(accepted, i)[j] >= accepted[j]
      BY CountedFields, WorkerIDs DEF IInv
    <3> QED
      BY <2>2, <3>1
  <2>3. CASE accepted' = accepted
    BY <2>1, <2>3
  <2> QED
    BY <1>1, <2>2, <2>3
<1>8. PendingInv'
  <2>1. /\ reply = "ok" => request.index \in Index
        /\ pc = "acked" => At \in Index
    BY AtIsIndex DEF IInv, PendingInv, TypeInv, RequestInLog, AtRecord
  <2>2. /\ (reply = "ok" /\ request.id = file.id => accepted'[request.index] > 0)
        /\ (pc = "acked" /\ w.id = file.id => accepted'[At] > 0)
    <3>1. \A j \in Index : accepted[j] > 0 => accepted'[j] > 0
      BY <1>7, WorkerIDs DEF IInv, TypeInv, TypeOK
    <3> QED
      BY <2>1, <3>1 DEF IInv, PendingInv
  <2> QED
    BY <1>1, <1>2, <2>2 DEF IInv, PendingInv
<1> QED
  BY <1>3, <1>6, <1>8 DEF IInv

(* What a failed delivery leaves. *)
LEMMA InvFail ==
  ASSUME IInv, TypeInv',
         pc \in {"inspect", "reinspect", "start", "steer", "fallback", "sent"},
         Fail("plain") \/ Fail("steer"),
         UNCHANGED <<log, file, w, last, accepted, origin>>,
         late' = late \/ Abandon
  PROVE  IInv'
<1>1. pc' = "failed" /\ request' = NoRequest /\ reply' = "none"
  BY DEF Fail, Goto
<1>2. Holding /\ Delivering /\ pc \in AtRecord
  BY DEF Holding, Delivering, AtRecord, InDelivery
<1>3. PendingInv'
  BY <1>1, EmptyMembers DEF PendingInv
<1> QED
  BY <1>2, <1>3, QuietStep


(* Every step keeps the inductive invariant. *)
LEMMA InvStep == IInv /\ [Next]_vars => IInv'
<1> SUFFICES ASSUME IInv, [Next]_vars PROVE IInv'
  OBVIOUS
<1>t. TypeInv'
  BY TypeStep DEF IInv
<1> USE DEF worker, server
<1>1. CASE LoadBinding
  BY <1>t, <1>1, InvLoadBinding
<1>2. CASE ReadRecords
  BY <1>t, <1>2, InvReadRecords
<1>3. CASE FilterRecord \/ SaveAck
  BY <1>t, <1>3, InvAdvance
<1>4. CASE GiveUpRecord \/ SaveFails
  <2>1. /\ pc \in AtRecord /\ pc # "sent" /\ pc' = "wait"
        /\ UNCHANGED <<log, file, w, last, request, reply, accepted, late, origin>>
    BY <1>4 DEF GiveUpRecord, SaveFails, Goto, AtRecord, InDelivery
  <2>2. pc' \notin AtRecord /\ ~Holding' /\ ~Delivering'
    BY <2>1 DEF AtRecord, InDelivery, Holding, Delivering
  <2>3. PendingInv'
    BY <2>1 DEF IInv, PendingInv
  <2> QED
    BY <1>t, <2>1, <2>2, <2>3, QuietStep
<1>5. CASE LockThread
  <2>1. /\ pc = "next" /\ pc' = "locked"
        /\ AddressedTo(log[At], w.route) /\ log[At] # "legacy"
        /\ UNCHANGED <<log, file, w, last, request, reply, accepted, late, origin>>
    BY <1>5 DEF LockThread, Goto
  <2>2. Holding /\ pc \in AtRecord /\ At' = At
    BY <2>1 DEF AtRecord, Holding, At
  <2>3. CopyInv'
    BY <2>1, <2>2, CopyKeeps DEF IInv
  <2>4. BatchInv'
    BY <2>1, <2>2 DEF IInv, BatchInv
  <2>5. PendingInv'
    BY <2>1 DEF IInv, PendingInv
  <2>6. CountInv'
    BY <2>1, CountKeeps DEF IInv
  <2> QED
    BY <1>t, <2>3, <2>4, <2>5, <2>6 DEF IInv
<1>6. CASE Recheck \/ InspectActive \/ ReinspectIdle \/ (InspectIdle /\ ~w.noStart)
  <2>1. /\ pc \in {"locked", "inspect", "reinspect"}
        /\ pc' \in {"inspect", "wait", "steer", "fallback", "start"}
        /\ UNCHANGED <<log, file, w, last, request, reply, accepted, late, origin>>
    BY <1>6 DEF Recheck, InspectActive, ReinspectIdle, InspectIdle, Goto
  <2>2. pc \in AtRecord /\ Holding /\ Delivering
    BY <2>1 DEF AtRecord, InDelivery, Holding, Delivering
  <2>3. PendingInv'
    BY <2>1 DEF IInv, PendingInv
  <2> QED
    BY <1>t, <2>1, <2>2, <2>3, QuietStep
<1>7. CASE InspectIdle /\ w.noStart
  BY <1>t, <1>7, InvFail DEF InspectIdle
<1>8. CASE InspectFails \/ DispatchFails \/ ReceiveError
  BY <1>t, <1>8, InvFail DEF InspectFails, DispatchFails, ReceiveError
<1>9. CASE ReplyLost
  BY <1>t, <1>9, InvFail DEF ReplyLost
<1>10. CASE Dispatch
  <2>1. /\ pc \in {"start", "steer", "fallback"}
        /\ UNCHANGED <<log, file, w, last, reply, accepted, late, origin>>
    BY <1>10 DEF Dispatch
  <2>2. pc \in AtRecord /\ Holding /\ Delivering /\ At' = At
    BY <2>1 DEF AtRecord, InDelivery, Holding, Delivering, At
  <2>3. PendingInv'
    <3>1. CASE Current
      <4>1. pc' = "sent" /\ request' = [id |-> w.id, index |-> At, method |-> MethodAt(pc)]
        BY <1>10, <3>1 DEF Dispatch, Goto
      <4> QED
        BY <2>1, <2>2, <4>1 DEF IInv, PendingInv
    <3>2. CASE ~Current
      BY <1>10, <2>1, <3>2, EmptyMembers DEF Dispatch, Goto, IInv, PendingInv
    <3> QED
      BY <3>1, <3>2
  <2> QED
    BY <1>t, <2>1, <2>2, <2>3, QuietStep
<1>11. CASE ReceiveRace \/ ReceiveAck
  <2>1. /\ pc = "sent" /\ reply' = "none" /\ request' = NoRequest
        /\ (pc' = "reinspect" \/ (pc' = "acked" /\ reply = "ok"))
        /\ UNCHANGED <<log, file, w, last, accepted, late, origin>>
    BY <1>11 DEF ReceiveRace, ReceiveAck, Goto
  <2>2. pc \in AtRecord /\ Holding /\ Delivering /\ At' = At
    BY <2>1 DEF AtRecord, InDelivery, Holding, Delivering, At
  <2>3. PendingInv'
    BY <2>1, <2>2, EmptyMembers DEF IInv, PendingInv
  <2> QED
    BY <1>t, <2>1, <2>2, <2>3, QuietStep
<1>12. CASE SaveFailure
  BY <1>t, <1>12, InvSaveFailure
<1>13. CASE ServerAccepts \/ ServerAcceptsAndFails
  BY <1>t, <1>13, InvServerAccepts
<1>14. CASE ServerFindsNoTurn \/ ServerRefuses
  <2>1. /\ pc = "sent" /\ reply' \in {"race", "error"}
        /\ UNCHANGED <<log, file, pc, w, last, request, accepted, late, origin>>
    BY <1>14 DEF ServerFindsNoTurn, ServerRefuses, Pending
  <2>2. Holding' = Holding /\ Delivering' = Delivering /\ At' = At
    BY <2>1 DEF Holding, Delivering, At
  <2>3. PendingInv'
    BY <2>1, <2>2 DEF IInv, PendingInv
  <2> QED
    BY <1>t, <2>1, <2>2, <2>3, QuietStep
<1>15. ASSUME NEW i \in Index, LateRequest(i) PROVE IInv'
  BY <1>t, <1>15, InvLateRequest
<1>16. ASSUME NEW k \in Kinds, StoreMessage(k) PROVE IInv'
  BY <1>t, <1>16, InvStoreMessage
<1>17. ASSUME NEW available \in BOOLEAN, BindSave(available) PROVE IInv'
  BY <1>t, <1>17, InvBindSave
<1>18. CASE Unbind
  BY <1>t, <1>18, InvUnbind
<1>19. CASE UNCHANGED <<log, file, pc, w, last, request, reply, accepted, late, origin>>
  <2>1. Holding' = Holding /\ Delivering' = Delivering /\ At' = At
    BY <1>19 DEF Holding, Delivering, At
  <2>2. PendingInv'
    BY <1>19, <2>1 DEF IInv, PendingInv
  <2> QED
    BY <1>t, <1>19, <2>1, <2>2, QuietStep
<1>20. CASE SupervisorEnds
  <2>1. /\ pc' = "down" /\ request' = NoRequest /\ reply' = "none" /\ Abandon
        /\ UNCHANGED <<log, file, w, last, accepted, origin>>
    BY <1>20 DEF SupervisorEnds, Goto
  <2>2. pc' \notin AtRecord /\ ~Holding' /\ ~Delivering'
    BY <2>1 DEF AtRecord, InDelivery, Holding, Delivering
  <2>3. PendingInv'
    BY <2>1, EmptyMembers DEF PendingInv
  <2> QED
    BY <1>t, <2>1, <2>2, <2>3, QuietStep
<1>21. ASSUME NEW s \in Session, SupervisorStarts(s) PROVE IInv'
  <2>1. /\ pc = "down" /\ pc' = "wait"
        /\ UNCHANGED <<log, file, w, last, request, reply, accepted, late, origin>>
    BY <1>21 DEF SupervisorStarts, Goto
  <2>2. pc' \notin AtRecord /\ ~Holding' /\ ~Delivering'
    BY <2>1 DEF AtRecord, InDelivery, Holding, Delivering
  <2>3. PendingInv'
    BY <2>1 DEF IInv, PendingInv
  <2> QED
    BY <1>t, <2>1, <2>2, <2>3, QuietStep
<1>22. CASE OtherLocks \/ OtherUnlocks \/ BindKeep
  BY <1>19, <1>22 DEF OtherLocks, OtherUnlocks, BindKeep
<1>23. ASSUME NEW r \in Routes, NEW replay \in BOOLEAN, NEW required \in BOOLEAN,
            BindBegin(r, replay, required)
     PROVE  IInv'
  BY <1>19, <1>23 DEF BindBegin
<1>24. ASSUME NEW r \in Routes, ReuseBegin(r) PROVE IInv'
  BY <1>19, <1>24 DEF ReuseBegin
<1>25. CASE UNCHANGED vars
  BY <1>19, <1>25 DEF vars
<1>26. WorkerStep => IInv'
  BY <1>1, <1>2, <1>3, <1>4, <1>5, <1>6, <1>7, <1>8, <1>9, <1>10, <1>11, <1>12
  DEF WorkerStep
<1>27. ServerStep => IInv'
  BY <1>13, <1>14, <1>15 DEF ServerStep
<1>28. ControlStep => IInv'
  BY <1>17, <1>18, <1>22, <1>23, <1>24 DEF ControlStep
<1>29. EnvironmentStep => IInv'
  BY <1>16, <1>20, <1>21, <1>22 DEF EnvironmentStep
<1> QED
  BY <1>25, <1>26, <1>27, <1>28, <1>29 DEF Next

(* Every reachable state satisfies the inductive invariant. *)
LEMMA InvHolds == Spec => []IInv
BY InvInit, InvStep, PTL DEF Spec

(* The saved cursor passes a wanted record only after the app server
   accepted it (saveCodexProgress). *)
THEOREM NothingLost == Spec => []NoLoss
<1>1. IInv => NoLoss
  BY DEF IInv, CountInv
<1> QED
  BY InvHolds, <1>1, PTL

(* Records that cannot be delivered hold the cursor (runCodexWorker,
   ReadCompleteMessageRecords). *)
THEOREM PoisonAlwaysHolds == Spec => []PoisonHolds
<1>1. IInv => PoisonHolds
  BY DEF IInv, CountInv
<1> QED
  BY InvHolds, <1>1, PTL

(* Acceptances, and requests that may still be accepted, come in the order
   of the log (runCodexWorker). *)
THEOREM DeliveredInOrder == Spec => []InOrder
<1>1. IInv => InOrder
  <2> SUFFICES ASSUME IInv, NEW i \in Index,
                      \/ accepted[i] > 0 \/ late[i] > 0
                      \/ pc = "sent" /\ request.id = file.id /\ request.index = i
               PROVE  \A j \in Wanted(origin, i - 1) : accepted[j] > 0
    BY DEF InOrder
  <2>1. Countable(i)
    <3>1. CASE accepted[i] > 0 \/ late[i] > 0
      BY <3>1 DEF IInv, CountInv
    <3>2. CASE pc = "sent" /\ request.id = file.id /\ request.index = i
      BY <3>2, PendingCountable
    <3> QED
      BY <3>1, <3>2
  <2> QED
    BY <2>1 DEF Countable
<1> QED
  BY InvHolds, <1>1, PTL


----------------------------------------------------------------------------
(* What steps do. *)

(* The steps that rewrite the file, and how. *)
LEMMA FileSteps ==
  ASSUME IInv, [Next]_vars
  PROVE  \/ file' = file
         \/ /\ FilterRecord \/ SaveAck
            /\ MuFree /\ Savable /\ file'.id = file.id /\ file'.offset = file.offset + 1
            /\ file'.enabled = file.enabled /\ (file'.noStart => file.noStart)
            /\ file'.route = file.route
         \/ /\ SaveFailure /\ MuFree
            /\ file'.id = file.id /\ file'.offset = file.offset
            /\ file'.enabled = file.enabled /\ file'.route = file.route
         \/ /\ Unbind /\ MuFree
            /\ file'.id = file.id /\ file'.offset = file.offset
            /\ file'.noStart = file.noStart /\ ~file'.enabled
            /\ file'.route = file.route
         \/ /\ \E available \in BOOLEAN : BindSave(available)
            /\ file'.id = file.id + 1 /\ ~file'.noStart
<1>a. file \in Binding /\ w \in Binding
  BY DEF IInv, TypeInv, TypeOK
<1>1. CASE FilterRecord \/ SaveAck
  <2>1. CASE ~Savable
    BY <1>1, <2>1 DEF FilterRecord, SaveAck
  <2>2. CASE Savable
    <3>1. /\ pc \in AtRecord /\ Holding /\ MuFree
          /\ file' = Advanced(file, At) \/ file' = Acknowledged(file, At)
      BY <1>1, <2>2 DEF FilterRecord, SaveAck, AtRecord, Holding
    <3>2. At \in 0..MaxLog /\ At = file.offset + 1
      BY <2>2, <3>1, AtIsIndex DEF IInv, CopyInv, Savable, Matches
    <3> QED
      BY <1>1, <1>a, <2>2, <3>1, <3>2, AdvancedFields, AcknowledgedFields
  <2> QED
    BY <2>1, <2>2
<1>2. CASE SaveFailure
  BY <1>2, <1>a, BlockedFields DEF SaveFailure
<1>3. CASE Unbind
  BY <1>3, <1>a, DisabledFields DEF Unbind
<1>4. ASSUME NEW available \in BOOLEAN, BindSave(available)
      PROVE  file'.id = file.id + 1 /\ ~file'.noStart
  BY <1>4 DEF BindSave, NewBinding
<1>5. \/ file' = file \/ FilterRecord \/ SaveAck \/ SaveFailure \/ Unbind
      \/ \E available \in BOOLEAN : BindSave(available)
  <2>1. WorkerStep => file' = file \/ FilterRecord \/ SaveAck \/ SaveFailure
    BY DEF WorkerStep, LoadBinding, ReadRecords, GiveUpRecord, LockThread, Recheck,
           InspectIdle, InspectActive, InspectFails, ReinspectIdle, Dispatch,
           DispatchFails, ReceiveRace, ReceiveError, ReceiveAck, ReplyLost, SaveFails
  <2>2. ServerStep => file' = file
    BY DEF ServerStep, ServerAccepts, ServerFindsNoTurn, ServerRefuses,
           ServerAcceptsAndFails, LateRequest
  <2>3. ControlStep => \/ file' = file \/ Unbind
                       \/ \E available \in BOOLEAN : BindSave(available)
    BY DEF ControlStep, BindBegin, ReuseBegin, BindKeep
  <2>4. EnvironmentStep => file' = file
    BY DEF EnvironmentStep, StoreMessage, OtherLocks, OtherUnlocks,
           SupervisorEnds, SupervisorStarts
  <2>5. UNCHANGED vars => file' = file
    BY DEF vars
  <2> QED
    BY <2>1, <2>2, <2>3, <2>4, <2>5 DEF Next
<1> QED
  BY <1>1, <1>2, <1>3, <1>4, <1>5

(* The saved cursor of a binding never moves back, and no replaced binding
   comes back (codexBindingMatches). *)
THEOREM CursorNeverBack == Spec => CursorMonotone
<1>1. IInv /\ [Next]_vars =>
        /\ file'.id >= file.id
        /\ file'.id = file.id => file'.offset >= file.offset
  BY FileSteps, WorkerIDs DEF IInv
<1> QED
  BY InvHolds, <1>1, PTL DEF Spec, CursorMonotone


(* Only a bind enables a binding or moves the cursor back. *)
LEMMA FileMoves ==
  ASSUME IInv, [Next]_vars
  PROVE  \/ \E available \in BOOLEAN : BindSave(available)
         \/ /\ file'.enabled => file.enabled
            /\ file'.offset >= file.offset /\ file'.offset \in Nat
<1>1. file.offset \in Nat
  BY WorkerIDs DEF IInv
<1>2. CASE file' = file
  BY <1>1, <1>2
<1>3. CASE file'.offset = file.offset + 1 /\ file'.enabled = file.enabled
  BY <1>1, <1>3
<1>4. CASE file'.offset = file.offset /\ file'.enabled = file.enabled
  BY <1>1, <1>4
<1>5. CASE file'.offset = file.offset /\ ~file'.enabled
  BY <1>1, <1>5
<1> QED
  BY <1>2, <1>3, <1>4, <1>5, FileSteps

(* Only Dispatch writes a request. *)
LEMMA RequestSteps ==
  ASSUME [Next]_vars
  PROVE  request' = request \/ request' = NoRequest \/ (Dispatch /\ Current)
<1>1. WorkerStep => request' = request \/ request' = NoRequest \/ (Dispatch /\ Current)
  BY DEF WorkerStep, LoadBinding, ReadRecords, FilterRecord, GiveUpRecord,
         LockThread, Recheck, InspectIdle, InspectActive, InspectFails,
         ReinspectIdle, Dispatch, DispatchFails, ReceiveRace, ReceiveError,
         ReceiveAck, ReplyLost, SaveAck, SaveFailure, SaveFails, Fail
<1>2. ServerStep => request' = request
  BY DEF ServerStep, ServerAccepts, ServerFindsNoTurn, ServerRefuses,
         ServerAcceptsAndFails, LateRequest, worker
<1>3. ControlStep => request' = request
  BY DEF ControlStep, BindBegin, ReuseBegin, BindSave, BindKeep, Unbind, worker
<1>4. EnvironmentStep => request' = request \/ request' = NoRequest
  BY DEF EnvironmentStep, StoreMessage, OtherLocks, OtherUnlocks,
         SupervisorEnds, SupervisorStarts, worker
<1>5. UNCHANGED vars => request' = request
  BY DEF vars
<1> QED
  BY <1>1, <1>2, <1>3, <1>4, <1>5 DEF Next

(* Whatever happened since the worker copied the binding, a request only
   leaves for the head of the binding on disk (authorizeCodexDispatch). *)
THEOREM DispatchAlwaysHead == Spec => DispatchIsHead
<1>1. ASSUME IInv, [Next]_vars, request' # request, request' # NoRequest
      PROVE  /\ file.enabled /\ file.session = session
             /\ request'.id = file.id
             /\ request'.index = file.offset + 1
             /\ AddressedTo(log[request'.index], file.route)
             /\ log[request'.index] # "legacy"
  <2>1. Dispatch /\ Current
    BY <1>1, RequestSteps
  <2>2. /\ request' = [id |-> w.id, index |-> At, method |-> MethodAt(pc)]
        /\ pc \in {"start", "steer", "fallback"}
    BY <2>1 DEF Dispatch
  <2>3. Holding /\ Delivering
    BY <2>2 DEF Holding, Delivering, AtRecord, InDelivery
  <2>4. /\ w.id = file.id /\ w.id # 0 /\ w.offset = file.offset /\ w.route = file.route
    BY <1>1, <2>1, <2>3 DEF Current, Matches, IInv, CopyInv
  <2>5. AddressedTo(log[At], file.route) /\ log[At] # "legacy"
    BY <1>1, <2>3, <2>4 DEF IInv, BatchInv
  <2> QED
    BY <2>1, <2>2, <2>4, <2>5 DEF Current, At
<1> QED
  BY <1>1, InvHolds, PTL DEF Spec, DispatchIsHead

(* The flag the worker copied is never older than the file's, and a start
   from an idle reading has looked at it. *)
FlagInv ==
  /\ pc = "start" => ~w.noStart
  /\ Holding /\ w.id = file.id => (file.noStart => w.noStart)

(* Every step keeps what is known of the no-start flag. *)
LEMMA FlagStep == IInv /\ FlagInv /\ [Next]_vars => FlagInv'
<1> SUFFICES ASSUME IInv, FlagInv, [Next]_vars PROVE FlagInv'
  OBVIOUS
<1>a. /\ file \in Binding /\ w \in Binding /\ file.id \in Nat /\ w.id \in Nat
      /\ w.id <= file.id
  BY WorkerIDs DEF IInv, CopyInv, TypeInv, TypeOK
<1>1. \/ w' = w /\ (Holding' => Holding) /\ pc' # "start"
      \/ w' = w /\ (Holding' => Holding) /\ pc' = "start" /\ pc = "start"
      \/ w' = w /\ (Holding' => Holding) /\ pc' = "start" /\ ~w.noStart
      \/ LoadBinding
      \/ FilterRecord \/ SaveAck
  <2>1. WorkerStep => \/ w' = w /\ (Holding' => Holding) /\ pc' # "start"
                      \/ InspectIdle \/ LoadBinding \/ FilterRecord \/ SaveAck
    BY DEF WorkerStep, ReadRecords, GiveUpRecord,
           LockThread, Recheck, InspectActive, InspectFails,
           ReinspectIdle, Dispatch, DispatchFails, ReceiveRace, ReceiveError,
           ReceiveAck, ReplyLost, SaveFailure, SaveFails, Fail,
           Goto, Holding, AtRecord, InDelivery
  <2>2. InspectIdle => /\ w' = w /\ (Holding' => Holding)
                       /\ pc' # "start" \/ ~w.noStart
    BY DEF InspectIdle, Fail, Goto, Holding, AtRecord, InDelivery
  <2>3. ServerStep => w' = w /\ pc' = pc
    BY DEF ServerStep, ServerAccepts, ServerFindsNoTurn, ServerRefuses,
           ServerAcceptsAndFails, LateRequest, worker
  <2>4. ControlStep => w' = w /\ pc' = pc
    BY DEF ControlStep, BindBegin, ReuseBegin, BindSave, BindKeep, Unbind, worker
  <2>5. EnvironmentStep => w' = w /\ (pc' = pc \/ pc' \in {"down", "wait"})
    BY DEF EnvironmentStep, StoreMessage, OtherLocks, OtherUnlocks,
           SupervisorEnds, SupervisorStarts, Goto, worker
  <2>6. UNCHANGED vars => w' = w /\ pc' = pc
    BY DEF vars
  <2>7. /\ pc' = pc => Holding' = Holding
        /\ pc' \in {"down", "wait"} => ~Holding'
    BY DEF Holding, AtRecord, InDelivery
  <2> QED
    BY <2>1, <2>2, <2>3, <2>4, <2>5, <2>6, <2>7 DEF Next
<1>2. CASE LoadBinding
  BY <1>2 DEF LoadBinding, Goto, FlagInv
<1>3. CASE FilterRecord \/ SaveAck
  <2>1. /\ pc' # "start" /\ Holding /\ (Holding' => Savable)
        /\ Savable => w' = Advanced(w, At)
    BY <1>3 DEF FilterRecord, SaveAck, Goto, AfterRecord, Holding, AtRecord, InDelivery
  <2>2. CASE Savable
    <3>1. At \in 0..MaxLog
      BY <1>3, AtIsIndex DEF IInv, FilterRecord, SaveAck, AtRecord
    <3>2. w'.id = w.id /\ w'.noStart = w.noStart
      BY <1>a, <2>1, <2>2, <3>1, AdvancedFields
    <3>3. file'.id = file.id /\ (file'.noStart => file.noStart)
      BY <1>a, <1>3, <2>2, <3>1, AdvancedFields, AcknowledgedFields
      DEF FilterRecord, SaveAck
    <3> QED
      BY <2>1, <3>2, <3>3 DEF FlagInv
  <2>3. CASE ~Savable
    BY <2>1, <2>3 DEF FlagInv
  <2> QED
    BY <2>2, <2>3
<1>4. CASE /\ w' = w /\ (Holding' => Holding)
           /\ pc' # "start" \/ pc = "start" \/ ~w.noStart
  <2>1. pc' = "start" => ~w'.noStart
    BY <1>4 DEF FlagInv
  <2>2. Holding' /\ w'.id = file'.id => (file'.noStart => w'.noStart)
    <3>1. CASE file' = file
      BY <1>4, <3>1 DEF FlagInv
    <3>2. CASE SaveFailure
      BY <3>2 DEF SaveFailure, Goto, Holding, AtRecord, InDelivery
    <3>3. CASE file'.id = file.id /\ (file'.noStart => file.noStart)
      BY <1>4, <3>3 DEF FlagInv
    <3>4. CASE file'.id = file.id + 1
      BY <1>a, <1>4, <3>4
    <3> QED
      BY <3>1, <3>2, <3>3, <3>4, FileSteps
  <2> QED
    BY <2>1, <2>2 DEF FlagInv
<1> QED
  BY <1>1, <1>2, <1>3, <1>4

(* No turn is started from an idle reading while an unclassified steer
   failure is on disk (Deliver, saveCodexDeliveryFailure). *)
THEOREM NoStartOverFailure == Spec => NoStartWhileFlagged
<1>1. Init => FlagInv
  BY EmptyMembers DEF Init, FlagInv, Holding, AtRecord, InDelivery
<1>2. ASSUME IInv, FlagInv, [Next]_vars, pc = "start", pc' = "sent"
      PROVE  ~file.noStart
  <2>1. /\ WorkerStep => Dispatch /\ Current
        /\ ~ServerStep /\ ~ControlStep /\ ~EnvironmentStep /\ ~UNCHANGED vars
    BY <1>2
    DEF WorkerStep, LoadBinding, ReadRecords, FilterRecord, GiveUpRecord,
        LockThread, Recheck, InspectIdle, InspectActive, InspectFails,
        ReinspectIdle, Dispatch, DispatchFails, ReceiveRace, ReceiveError,
        ReceiveAck, ReplyLost, SaveAck, SaveFailure, SaveFails, Fail, Goto,
        ServerStep, ServerAccepts, ServerFindsNoTurn, ServerRefuses,
        ServerAcceptsAndFails, LateRequest, Pending, worker,
        ControlStep, BindBegin, ReuseBegin, BindSave, BindKeep, Unbind,
        EnvironmentStep, StoreMessage, OtherLocks, OtherUnlocks,
        SupervisorEnds, SupervisorStarts, vars
  <2>2. Current
    BY <1>2, <2>1 DEF Next
  <2> QED
    BY <1>2, <2>2 DEF Current, Matches, FlagInv, Holding, AtRecord, InDelivery
<1> QED
  BY <1>1, <1>2, FlagStep, InvHolds, PTL DEF Spec, NoStartWhileFlagged


(* A bind in progress dies with its supervisor. *)
ReuseInv == ReuseIsTruthful /\ (pc = "down" => ~probe.held)

(* Every step keeps what is known of a reuse in progress. *)
LEMMA ReuseStep == IInv /\ ReuseInv /\ [Next]_vars => ReuseInv'
<1> SUFFICES ASSUME IInv, ReuseInv, [Next]_vars PROVE ReuseInv'
  OBVIOUS
<1>1. ASSUME NEW r \in Routes, ReuseBegin(r) PROVE ReuseInv'
  <2>1. /\ UNCHANGED <<file, session, pc>> /\ Up
        /\ probe'.route = r /\ probe'.reuse = file.enabled
        /\ file.enabled => SameRoute(r)
    BY <1>1 DEF ReuseBegin, StartProbe, worker
  <2> QED
    BY <2>1 DEF ReuseInv, ReuseIsTruthful, SameRoute, Up
<1>2. ASSUME NEW r \in Routes, NEW replay \in BOOLEAN, NEW required \in BOOLEAN,
            BindBegin(r, replay, required)
      PROVE  ReuseInv'
  BY <1>2 DEF BindBegin, StartProbe, worker, ReuseInv, ReuseIsTruthful, Up
<1>3. CASE probe' = NoProbe
  BY <1>3, EmptyMembers DEF ReuseInv, ReuseIsTruthful
<1>4. CASE /\ probe' = probe /\ session' = session
           /\ file' = file \/ MuFree
           /\ pc' # "down" \/ pc = "down"
  BY <1>4 DEF ReuseInv, ReuseIsTruthful, SameRoute, MuFree
<1>5. ASSUME NEW s \in Session, SupervisorStarts(s) PROVE ReuseInv'
  BY <1>5 DEF SupervisorStarts, ReuseInv, ReuseIsTruthful
<1>6. WorkerStep => /\ probe' = probe /\ session' = session
                    /\ file' = file \/ MuFree
                    /\ pc' # "down" \/ pc = "down"
  BY DEF WorkerStep, LoadBinding, ReadRecords, FilterRecord, GiveUpRecord,
         LockThread, Recheck, InspectIdle, InspectActive, InspectFails,
         ReinspectIdle, Dispatch, DispatchFails, ReceiveRace, ReceiveError,
         ReceiveAck, ReplyLost, SaveAck, SaveFailure, SaveFails, Fail, Goto, AfterRecord
<1>7. ServerStep => probe' = probe /\ session' = session /\ file' = file /\ pc' = pc
  BY DEF ServerStep, ServerAccepts, ServerFindsNoTurn, ServerRefuses,
         ServerAcceptsAndFails, LateRequest, worker
<1>8. BindKeep \/ (\E available \in BOOLEAN : BindSave(available)) => probe' = NoProbe
  BY DEF BindKeep, BindSave
<1>9. Unbind => probe' = probe /\ session' = session /\ MuFree /\ pc' = pc
  BY DEF Unbind, worker
<1>10. EnvironmentStep => \/ probe' = probe /\ session' = session /\ file' = file /\ pc' = pc
                          \/ probe' = NoProbe
                          \/ \E s \in Session : SupervisorStarts(s)
  BY DEF EnvironmentStep, StoreMessage, OtherLocks, OtherUnlocks, SupervisorEnds, worker
<1>11. UNCHANGED vars => probe' = probe /\ session' = session /\ file' = file /\ pc' = pc
  BY DEF vars
<1> QED
  BY <1>1, <1>2, <1>3, <1>4, <1>5, <1>6, <1>7, <1>8, <1>9, <1>10, <1>11
  DEF Next, ControlStep

(* The binding that a bind --if-needed found stays in force with its route
   until its probe ends (bindCodexWithReuse). *)
THEOREM ReuseAlwaysTruthful == Spec => []ReuseIsTruthful
<1>1. Init => ReuseInv
  BY EmptyMembers DEF Init, ReuseInv, ReuseIsTruthful
<1>2. ReuseInv => ReuseIsTruthful
  BY DEF ReuseInv
<1> QED
  BY <1>1, <1>2, ReuseStep, InvHolds, PTL DEF Spec

----------------------------------------------------------------------------
(* How many copies of a record the app server may see. *)

Unanswered(i) ==
  pc = "sent" /\ reply = "none" /\ request.id = file.id /\ request.index = i

(* Copies of record i that were or may still be accepted. *)
Copies(i) == accepted[i] + late[i] + (IF Unanswered(i) THEN 1 ELSE 0)

(* The worker's present attempt may end in the acceptance of record i. *)
Attempted(i) ==
  /\ w.id = file.id /\ At = i
  /\ pc = "acked" \/ (pc = "sent" /\ reply \in {"none", "ok"})

(* Only the present attempt, and a record the cursor passed, may have a copy
   that no fault paid for. *)
CopyBound(i) ==
  /\ Copies(i) <= 1 + faults
  /\ file.enabled /\ i > file.offset /\ ~Attempted(i) => Copies(i) <= faults

CopiesInv == \A i \in Index : CopyBound(i)

(* There are no copies at first. *)
LEMMA CopiesInit == Init => CopiesInv
<1> SUFFICES ASSUME Init, NEW i \in Index PROVE CopyBound(i)
  BY DEF CopiesInv
<1>1. accepted[i] = 0 /\ late[i] = 0 /\ pc # "sent" /\ faults = 0
  BY ZeroFields DEF Init
<1>2. Copies(i) = 0
  BY <1>1 DEF Copies, Unanswered
<1> QED
  BY <1>1, <1>2 DEF CopyBound

(* The copies of a record are numbers, for the provers' arithmetic. *)
LEMMA CopiesType ==
  ASSUME TypeInv, NEW i \in Index
  PROVE  /\ accepted[i] \in Nat /\ late[i] \in Nat /\ faults \in Nat
         /\ Copies(i) \in Nat /\ accepted[i] <= Copies(i)
<1>1. accepted[i] \in Nat /\ late[i] \in Nat /\ faults \in Nat
  BY BoundsAssumption DEF TypeInv, TypeOK
<1> QED
  BY <1>1 DEF Copies

(* A fault pays for one copy more. *)
LEMMA CopiesFault ==
  ASSUME IInv, CopiesInv, NEW i \in Index, Fault, Copies(i)' \in Nat,
         Copies(i)' <= Copies(i)
  PROVE  CopyBound(i)'
<1>1. faults' = faults + 1 /\ faults \in Nat /\ Copies(i) \in Nat
  BY CopiesType DEF IInv, Fault
<1>2. Copies(i) <= 1 + faults
  BY DEF CopiesInv, CopyBound
<1> QED
  BY <1>1, <1>2 DEF CopyBound

(* Steps that neither add copies nor end an attempt with the record still
   ahead of the cursor. *)
LEMMA CopiesQuiet ==
  ASSUME IInv, CopiesInv, NEW i \in Index, faults' = faults,
         Copies(i)' \in Nat, Copies(i)' <= Copies(i),
         file'.enabled => file.enabled,
         i > file'.offset => i > file.offset,
         file'.enabled /\ i > file'.offset /\ Attempted(i) => Attempted(i)'
  PROVE  CopyBound(i)'
BY CopiesType DEF IInv, CopiesInv, CopyBound


(* Giving up on an answer turns an unanswered request into a late one. *)
LEMMA CopiesOfAbandon ==
  ASSUME IInv, NEW i \in Index, Abandon, UNCHANGED <<file, accepted>>,
         ~Unanswered(i)'
  PROVE  Copies(i)' = Copies(i)
<1>1. accepted[i] \in Nat /\ late[i] \in Nat /\ late \in [Index -> Nat]
  BY CopiesType, WorkerIDs DEF IInv
<1>2. CASE request.id = file.id /\ request.id # 0 /\ reply = "none"
  <2>1. pc = "sent" /\ request.index \in Index /\ late' = CountedIn(late, request.index)
    BY <1>2 DEF IInv, PendingInv, TypeInv, RequestInLog, Abandon
  <2>2. Unanswered(i) <=> i = request.index
    BY <1>2, <2>1 DEF Unanswered
  <2>3. late'[i] = IF i = request.index THEN late[i] + 1 ELSE late[i]
    BY <1>1, <2>1, CountedFields
  <2> QED
    BY <1>1, <2>2, <2>3 DEF Copies
<1>3. CASE ~(request.id = file.id /\ request.id # 0 /\ reply = "none")
  <2>1. ~Unanswered(i) /\ late' = late
    BY <1>3 DEF Unanswered, Abandon, IInv, PendingInv, CopyInv, Holding, AtRecord, InDelivery
  <2> QED
    BY <1>1, <2>1 DEF Copies
<1> QED
  BY <1>2, <1>3

(* An acceptance turns the pending request into an accepted one. *)
LEMMA CopiesOfAccept ==
  ASSUME IInv, TypeInv', NEW i \in Index, Accept, pc = "sent", reply = "none",
         UNCHANGED <<file, late>>, ~Unanswered(i)'
  PROVE  Copies(i)' = Copies(i)
<1>1. accepted[i] \in Nat /\ late[i] \in Nat /\ accepted \in [Index -> Nat]
  BY CopiesType, WorkerIDs DEF IInv
<1>2. request.index \in Index
  BY DEF IInv, TypeInv, RequestInLog
<1>3. accepted'[i] = IF Unanswered(i) THEN accepted[i] + 1 ELSE accepted[i]
  BY <1>1, <1>2, CountedFields DEF Accept, Unanswered
<1> QED
  BY <1>1, <1>3 DEF Copies

(* A request adds a copy only when every earlier one was paid for. *)
LEMMA CopiesDispatch ==
  ASSUME IInv, CopiesInv, NEW i \in Index, Dispatch
  PROVE  CopyBound(i)'
<1>1. /\ pc \in {"start", "steer", "fallback"} /\ Holding
      /\ UNCHANGED <<file, w, accepted, late, faults>> /\ At' = At
      /\ reply = "none" /\ reply' = "none"
  BY DEF Dispatch, server, Holding, AtRecord, InDelivery, At, IInv, PendingInv
<1>2. accepted[i] \in Nat /\ late[i] \in Nat /\ faults \in Nat
      /\ file.offset \in Nat
  BY CopiesType, WorkerIDs DEF IInv
<1>3. ~Unanswered(i) /\ ~Attempted(i) /\ Copies(i) = accepted[i] + late[i]
  BY <1>1, <1>2 DEF Unanswered, Attempted, Copies
<1>4. CASE Current /\ i = At
  <2>1. /\ pc' = "sent" /\ w.id = file.id /\ w.offset = file.offset
        /\ file.enabled
    BY <1>1, <1>4 DEF Dispatch, Goto, Current, Matches, IInv, CopyInv
  <2>2. Attempted(i)' /\ i > file.offset
    BY <1>1, <1>2, <1>4, <2>1 DEF Attempted, At
  <2>3. Copies(i) <= faults
    BY <1>3, <2>1, <2>2 DEF CopiesInv, CopyBound
  <2>4. Copies(i)' <= Copies(i) + 1
    BY <1>1, <1>2, <1>3 DEF Copies
  <2> QED
    BY <1>1, <1>2, <1>3, <2>2, <2>3, <2>4 DEF CopyBound, Copies
<1>5. CASE ~(Current /\ i = At)
  <2>1. ~Unanswered(i)'
    <3>1. CASE Current
      <4>1. request' = [id |-> w.id, index |-> At, method |-> MethodAt(pc)]
        BY <3>1 DEF Dispatch
      <4> QED
        BY <1>5, <3>1, <4>1 DEF Unanswered
    <3>2. CASE ~Current
      BY <3>2 DEF Dispatch, Goto, Unanswered
    <3> QED
      BY <3>1, <3>2
  <2>2. Copies(i)' = Copies(i) /\ Copies(i) \in Nat
    BY <1>1, <1>2, <1>3, <2>1 DEF Copies
  <2> QED
    BY <1>1, <1>3, <2>2, CopiesQuiet
<1> QED
  BY <1>4, <1>5

(* Every step keeps the bound on copies. *)
LEMMA CopiesStep == IInv /\ CopiesInv /\ [Next]_vars => CopiesInv'
<1> SUFFICES ASSUME IInv, CopiesInv, [Next]_vars, NEW i \in Index
             PROVE  CopyBound(i)'
  BY DEF CopiesInv
<1>t. TypeInv' /\ Copies(i)' \in Nat /\ Copies(i) \in Nat
  <2>1. IInv'
    BY InvStep
  <2>2. TypeInv /\ TypeInv' /\ accepted'[i] \in Nat /\ late'[i] \in Nat
    BY <2>1, WorkerIDs DEF IInv, TypeInv, TypeOK
  <2> QED
    BY <2>2, CopiesType DEF Copies
<1>a. accepted[i] \in Nat /\ late[i] \in Nat
  BY CopiesType DEF IInv
<1> USE DEF worker, server
<1>1. CASE Dispatch
  BY <1>1, CopiesDispatch
<1>2. CASE ReplyLost \/ SupervisorEnds
  <2>1. Abandon /\ Fault /\ UNCHANGED <<file, accepted>> /\ ~Unanswered(i)'
    BY <1>2 DEF ReplyLost, SupervisorEnds, Fail, Goto, Unanswered
  <2> QED
    BY <1>t, <2>1, CopiesOfAbandon, CopiesFault
<1>3. CASE ServerAcceptsAndFails
  <2>1. /\ Accept /\ Fault /\ pc = "sent" /\ reply = "none"
        /\ UNCHANGED <<file, late>> /\ ~Unanswered(i)'
    BY <1>3 DEF ServerAcceptsAndFails, Pending, Unanswered
  <2> QED
    BY <1>t, <2>1, CopiesOfAccept, CopiesFault
<1>4. CASE (GiveUpRecord /\ faults' # faults) \/ DispatchFails \/ SaveFails
  <2>1. /\ Fault /\ UNCHANGED <<file, accepted, late>> /\ ~Unanswered(i)'
        /\ ~Unanswered(i)
    BY <1>4 DEF GiveUpRecord, NoFault, DispatchFails, SaveFails, Fail, Goto, Unanswered
  <2> QED
    BY <1>t, <1>a, <2>1, CopiesFault DEF Copies
<1>5. CASE ServerAccepts
  <2>1. /\ Accept /\ pc = "sent" /\ reply = "none" /\ reply' = "ok" /\ pc' = pc
        /\ UNCHANGED <<file, w, late, faults>> /\ ~Unanswered(i)' /\ At' = At
    BY <1>5 DEF ServerAccepts, Pending, Unanswered, At
  <2>2. Attempted(i) => Attempted(i)'
    BY <2>1 DEF Attempted
  <2> QED
    BY <1>t, <2>1, <2>2, CopiesOfAccept, CopiesQuiet
<1>6. CASE ServerFindsNoTurn \/ ServerRefuses
  <2>1. /\ pc = "sent" /\ reply = "none" /\ reply' \in {"race", "error"}
        /\ UNCHANGED <<file, pc, w, request, accepted, late, faults>>
    BY <1>6 DEF ServerFindsNoTurn, ServerRefuses, Pending
  <2>2. CASE Unanswered(i)
    <3>1. Copies(i)' = Copies(i) - 1
      BY <1>a, <2>1, <2>2 DEF Copies, Unanswered
    <3>2. Copies(i) <= 1 + faults /\ faults \in Nat
      BY CopiesType DEF CopiesInv, CopyBound, IInv
    <3> QED
      BY <1>t, <2>1, <3>1, <3>2 DEF CopyBound
  <2>3. CASE ~Unanswered(i)
    <3>1. ~Attempted(i)
      BY <2>1, <2>3 DEF Attempted, Unanswered, IInv, PendingInv
    <3>2. Copies(i)' = Copies(i)
      BY <1>a, <2>1, <2>3 DEF Copies, Unanswered
    <3> QED
      BY <1>t, <2>1, <3>1, <3>2, CopiesQuiet
  <2> QED
    BY <2>2, <2>3
<1>7. CASE ReceiveRace \/ ReceiveError \/ ReceiveAck
  <2>1. /\ pc = "sent" /\ reply # "none" /\ pc' # "sent"
        /\ UNCHANGED <<file, w, accepted, late, faults>> /\ At' = At
        /\ reply = "ok" => pc' = "acked"
    BY <1>7 DEF ReceiveRace, ReceiveError, ReceiveAck, Fail, Goto, At
  <2>2. Copies(i)' = Copies(i)
    BY <1>a, <2>1 DEF Copies, Unanswered
  <2>3. Attempted(i) => Attempted(i)'
    BY <2>1 DEF Attempted
  <2> QED
    BY <1>t, <2>1, <2>2, <2>3, CopiesQuiet
<1>8. ASSUME NEW j \in Index, LateRequest(j) PROVE CopyBound(i)'
  <2>1. /\ late[j] > 0 /\ late' = [late EXCEPT ![j] = @ - 1]
        /\ accepted' = CountedIn(accepted, j) \/ accepted' = accepted
        /\ UNCHANGED <<file, pc, w, request, reply, faults>>
    BY <1>8 DEF LateRequest
  <2>2. accepted'[i] + late'[i] <= accepted[i] + late[i]
    <3>1. /\ accepted \in [Index -> Nat] /\ late \in [Index -> Nat]
          /\ accepted'[i] \in Nat /\ late'[i] \in Nat
      BY <1>t, WorkerIDs DEF IInv, TypeInv, TypeOK
    <3>2. i = j => late'[i] = late[i] - 1 /\ accepted'[i] <= accepted[i] + 1
      BY <1>a, <2>1, <3>1, CountedFields
    <3>3. i # j => late'[i] = late[i] /\ accepted'[i] = accepted[i]
      BY <2>1, <3>1, CountedFields
    <3> QED
      BY <1>a, <3>1, <3>2, <3>3
  <2>3. Unanswered(i)' = Unanswered(i) /\ Attempted(i)' = Attempted(i)
    BY <2>1 DEF Unanswered, Attempted, At
  <2>4. Copies(i)' <= Copies(i)
    <3>1. accepted'[i] \in Nat /\ late'[i] \in Nat
      BY <1>t DEF TypeInv, TypeOK
    <3> QED
      BY <1>a, <2>2, <2>3, <3>1 DEF Copies
  <2> QED
    BY <1>t, <2>1, <2>3, <2>4, CopiesQuiet
<1>9. ASSUME NEW available \in BOOLEAN, BindSave(available) PROVE CopyBound(i)'
  <2>1. /\ accepted' = Zero /\ late' = Zero /\ file'.id = file.id + 1
        /\ UNCHANGED <<pc, request, reply, faults>>
    BY <1>9 DEF BindSave, NewBinding
  <2>2. ~Unanswered(i)'
    BY <2>1, WorkerIDs DEF Unanswered, IInv, PendingInv, CopyInv
  <2>3. Copies(i)' = 0 /\ faults \in Nat
    BY <2>1, <2>2, ZeroFields, CopiesType DEF Copies, IInv
  <2> QED
    BY <2>1, <2>3 DEF CopyBound
<1>10. CASE SaveAck
  <2>1. /\ pc = "acked" /\ pc' # "sent" /\ pc' # pc /\ Holding
        /\ UNCHANGED <<request, reply, accepted, late, faults>>
    BY <1>10 DEF SaveAck, Goto, AfterRecord, Holding, AtRecord
  <2>2. Copies(i)' = Copies(i)
    BY <1>a, <2>1 DEF Copies, Unanswered
  <2>3. /\ file'.enabled => file.enabled
        /\ i > file'.offset => i > file.offset
    <3>1. ASSUME NEW available \in BOOLEAN, BindSave(available) PROVE FALSE
      BY <2>1, <3>1 DEF BindSave, SaveAck
    <3> QED
      BY <3>1, FileMoves, WorkerIDs DEF IInv
  <2>4. file'.enabled /\ i > file'.offset => ~Attempted(i)
    <3>1. CASE Savable
      <4>1. At \in 0..MaxLog /\ file \in Binding
        BY <2>1, AtIsIndex DEF IInv, TypeInv, TypeOK, AtRecord
      <4>2. file'.offset = At
        BY <1>10, <3>1, <4>1, AcknowledgedFields DEF SaveAck
      <4> QED
        BY <4>1, <4>2 DEF Attempted
    <3>2. CASE ~Savable
      <4>1. file' = file
        BY <1>10, <3>2 DEF SaveAck
      <4> QED
        BY <2>1, <3>2, <4>1 DEF Savable, Matches, Attempted, IInv, CopyInv
    <3> QED
      BY <3>1, <3>2
  <2> QED
    BY <1>t, <2>1, <2>2, <2>3, <2>4, CopiesQuiet
<1>11. CASE /\ pc \notin {"sent", "acked"} /\ pc' # "sent"
            /\ UNCHANGED <<accepted, late, faults>>
  <2>1. Copies(i)' = Copies(i) /\ ~Attempted(i)
    BY <1>a, <1>11 DEF Copies, Unanswered, Attempted
  <2>2. CASE \E available \in BOOLEAN : BindSave(available)
    BY <1>9, <2>2
  <2>3. CASE (file'.enabled => file.enabled) /\ file'.offset >= file.offset /\ file'.offset \in Nat
    <3>1. i > file'.offset => i > file.offset
      BY <2>3, WorkerIDs, BoundsAssumption DEF IInv, Index
    <3> QED
      BY <1>t, <1>11, <2>1, <2>3, <3>1, CopiesQuiet
  <2> QED
    BY <2>2, <2>3, FileMoves
<1>12. CASE UNCHANGED <<file, pc, w, request, reply, accepted, late, faults>>
  <2>1. Unanswered(i)' = Unanswered(i) /\ Attempted(i)' = Attempted(i)
    BY <1>12 DEF Unanswered, Attempted, At
  <2> QED
    BY <1>t, <1>12, <2>1, CopiesQuiet DEF Copies
<1>13. CASE Unbind
  <2>1. /\ UNCHANGED <<pc, w, request, reply, accepted, late, faults>>
        /\ file' = Disabled(file) /\ file \in Binding
    BY <1>13 DEF Unbind, IInv, TypeInv, TypeOK
  <2>2. file'.id = file.id /\ file'.offset = file.offset /\ ~file'.enabled
    BY <2>1, DisabledFields
  <2>3. Unanswered(i)' = Unanswered(i)
    BY <2>1, <2>2 DEF Unanswered
  <2> QED
    BY <1>t, <2>1, <2>2, <2>3, CopiesQuiet DEF Copies
<1>14. WorkerStep => CopyBound(i)'
  <2>1. LoadBinding \/ ReadRecords \/ FilterRecord \/ (GiveUpRecord /\ faults' = faults)
          \/ LockThread \/ Recheck \/ InspectIdle \/ InspectActive \/ InspectFails
          \/ ReinspectIdle \/ SaveFailure
        => /\ pc \notin {"sent", "acked"} /\ pc' # "sent"
           /\ UNCHANGED <<accepted, late, faults>>
    BY DEF LoadBinding, ReadRecords, FilterRecord, GiveUpRecord, LockThread,
           Recheck, InspectIdle, InspectActive, InspectFails, ReinspectIdle,
           SaveFailure, Fail, Goto, AfterRecord
  <2> QED
    BY <1>1, <1>2, <1>4, <1>7, <1>10, <1>11, <2>1 DEF WorkerStep
<1>15. ServerStep => CopyBound(i)'
  BY <1>3, <1>5, <1>6, <1>8 DEF ServerStep
<1>16. ControlStep => CopyBound(i)'
  BY <1>9, <1>12, <1>13 DEF ControlStep, BindBegin, ReuseBegin, BindKeep
<1>17. EnvironmentStep => CopyBound(i)'
  <2>1. ASSUME NEW s \in Session, SupervisorStarts(s) PROVE CopyBound(i)'
    BY <1>11, <2>1 DEF SupervisorStarts, Goto
  <2>2. ASSUME NEW k \in Kinds, StoreMessage(k) PROVE CopyBound(i)'
    BY <1>12, <2>2 DEF StoreMessage
  <2> QED
    BY <1>2, <1>12, <2>1, <2>2 DEF EnvironmentStep, OtherLocks, OtherUnlocks
<1> QED
  BY <1>12, <1>14, <1>15, <1>16, <1>17 DEF Next, vars

(* Every copy of a record beyond the first is paid for by a fault
   (callDispatched, saveCodexProgress). *)
THEOREM CopiesBounded == Spec => []BoundedCopies
<1>1. IInv /\ CopiesInv => BoundedCopies
  <2> SUFFICES ASSUME IInv, CopiesInv, NEW i \in Index PROVE accepted[i] <= 1 + faults
    BY DEF BoundedCopies
  <2>1. Copies(i) <= 1 + faults
    BY DEF CopiesInv, CopyBound
  <2> QED
    BY <2>1, CopiesType DEF IInv
<1> QED
  BY <1>1, CopiesInit, CopiesStep, InvHolds, PTL DEF Spec


----------------------------------------------------------------------------
(* Delivery implements the at-least-once queue. *)

(* The initial states are those of the queue. *)
LEMMA PromiseInit == Init => Queue!Init
<1> SUFFICES ASSUME Init PROVE Queue!Init
  OBVIOUS
<1>1. log = <<>> /\ origin = 0 /\ file.id = 0 /\ file.offset = 0
  BY EmptyMembers DEF Init
<1>2. {i \in Index : accepted[i] > 0} = {}
  BY ZeroFields DEF Init
<1> QED
  BY <1>1, <1>2 DEF Queue!Init

(* A bind that ends is a subscription, or changes nothing of the queue. *)
LEMMA PromiseSubscribe ==
  ASSUME IInv, IInv', NEW available \in BOOLEAN, BindSave(available)
  PROVE  Queue!Subscribe
<1>1. /\ log' = log /\ file'.id = file.id + 1 /\ file'.offset = probe.offset
      /\ origin' = probe.offset /\ accepted' = Zero
  BY DEF BindSave, NewBinding
<1>2. probe.offset \in Nat /\ probe.offset <= Len(log) /\ Len(log) \in Nat
  BY ProbeFields, WorkerIDs DEF IInv, TypeInv, TypeOK
<1>3. {i \in Index : accepted'[i] > 0} = {}
  BY <1>1, ZeroFields
<1> QED
  BY <1>1, <1>2, <1>3 DEF Queue!Subscribe

(* Moving the cursor of the binding in force moves the queue's. *)
LEMMA PromiseAdvance ==
  ASSUME IInv, IInv', FilterRecord \/ SaveAck, Savable,
         file'.id = file.id, file'.route = file.route,
         file'.offset = file.offset + 1
  PROVE  Queue!Advance
<1>1. UNCHANGED <<log, accepted, origin>>
  BY DEF FilterRecord, SaveAck, server
<1>2. file.offset < Len(log) /\ file.offset \in Nat
  BY <1>1, WorkerIDs DEF IInv, TypeInv, TypeOK
<1>3. ASSUME AddressedTo(log[file.offset + 1], file.route)
      PROVE  file.offset + 1 \in {i \in Index : accepted[i] > 0}
  <2>1. /\ file.offset + 1 \in Index /\ origin <= file.offset /\ origin \in Nat
    <3>1. Len(log) \in 0..MaxLog
      BY DEF IInv, TypeInv, TypeOK
    <3>2. file.offset + 1 \in Index
      BY <1>2, <3>1, BoundsAssumption DEF Index
    <3> QED
      BY <3>2, WorkerIDs DEF IInv, CountInv
  <2>2. file.offset + 1 \in Wanted(origin', file'.offset)
    BY <1>1, <1>2, <1>3, <2>1 DEF Wanted
  <2>3. file.offset + 1 \in Wanted(origin, file.offset)'
    BY <1>1, <2>2 DEF Wanted
  <2> QED
    BY <1>1, <2>1, <2>3 DEF IInv, CountInv, NoLoss
<1> QED
  BY <1>1, <1>2, <1>3 DEF Queue!Advance

(* An acceptance under the binding in force is one of the queue. *)
LEMMA PromiseAccept ==
  ASSUME IInv, NEW n \in Index, Countable(n), accepted' = CountedIn(accepted, n),
         UNCHANGED <<log, file, origin>>
  PROVE  Queue!Accept
<1>1. /\ origin < n /\ n <= Len(log) /\ AddressedTo(log[n], file.route)
      /\ \A j \in Wanted(origin, n - 1) : accepted[j] > 0
      /\ n \in 1..Len(log) /\ origin \in Nat /\ Len(log) \in 0..MaxLog
  BY WorkerIDs DEF Countable, Index, IInv, TypeInv, TypeOK
<1>2. ASSUME NEW j \in origin+1..n-1, AddressedTo(log[j], file.route)
      PROVE  j \in {i \in Index : accepted[i] > 0}
  <2>1. j \in Index /\ j \in Wanted(origin, n - 1)
    BY <1>1, <1>2, BoundsAssumption DEF Wanted, Index
  <2> QED
    BY <1>1, <2>1
<1>3. {i \in Index : accepted'[i] > 0} = {i \in Index : accepted[i] > 0} \cup {n}
  <2>1. accepted'[n] = accepted[n] + 1 /\ accepted[n] \in Nat
        /\ \A j \in Index : j # n => accepted'[j] = accepted[j]
    BY CountedFields, WorkerIDs DEF IInv
  <2> QED
    BY <2>1
<1> QED
  BY <1>1, <1>2, <1>3 DEF Queue!Accept

(* Every step is one of the queue or a stutter. *)
LEMMA PromiseStep == IInv /\ IInv' /\ [Next]_vars => [Queue!Next]_Queue!vars
<1> SUFFICES ASSUME IInv, IInv', [Next]_vars PROVE [Queue!Next]_Queue!vars
  OBVIOUS
<1> USE DEF worker, server
<1>1. ASSUME NEW available \in BOOLEAN, BindSave(available) PROVE Queue!Next
  BY <1>1, PromiseSubscribe DEF Queue!Next
<1>2. CASE /\ FilterRecord \/ SaveAck
           /\ Savable /\ file'.id = file.id /\ file'.offset = file.offset + 1
           /\ file'.route = file.route
  BY <1>2, PromiseAdvance DEF Queue!Next
<1>3. ASSUME NEW k \in Kinds, StoreMessage(k) PROVE Queue!Next
  BY <1>3, KindsAssumption DEF StoreMessage, Queue!Next, Queue!Publish
<1>4. CASE ServerAccepts \/ ServerAcceptsAndFails
  <2>1. Accept /\ pc = "sent" /\ UNCHANGED <<log, file, origin>>
    BY <1>4 DEF ServerAccepts, ServerAcceptsAndFails, Pending
  <2>2. CASE request.id = file.id
    BY <2>1, <2>2, PendingCountable, PromiseAccept DEF Accept, Queue!Next
  <2>3. CASE request.id # file.id
    BY <2>1, <2>3 DEF Accept, Queue!vars
  <2> QED
    BY <2>2, <2>3
<1>5. ASSUME NEW i \in Index, LateRequest(i) PROVE [Queue!Next]_Queue!vars
  <2>1. /\ late[i] > 0 /\ UNCHANGED <<log, file, origin>>
        /\ accepted' = CountedIn(accepted, i) \/ accepted' = accepted
    BY <1>5 DEF LateRequest
  <2>2. Countable(i)
    BY <2>1 DEF IInv, CountInv
  <2> QED
    BY <2>1, <2>2, PromiseAccept DEF Queue!Next, Queue!vars
<1>6. CASE /\ UNCHANGED <<log, origin, accepted>>
           /\ file'.id = file.id /\ file'.route = file.route /\ file'.offset = file.offset
  BY <1>6 DEF Queue!vars
<1>7. WorkerStep => UNCHANGED <<log, origin, accepted>>
  BY DEF WorkerStep, LoadBinding, ReadRecords, FilterRecord, GiveUpRecord,
         LockThread, Recheck, InspectIdle, InspectActive, InspectFails,
         ReinspectIdle, Dispatch, DispatchFails, ReceiveRace, ReceiveError,
         ReceiveAck, ReplyLost, SaveAck, SaveFailure, SaveFails
<1>8. ServerFindsNoTurn \/ ServerRefuses => UNCHANGED <<log, origin, accepted, file>>
  BY DEF ServerFindsNoTurn, ServerRefuses
<1>9. ControlStep => \/ UNCHANGED <<log, origin, accepted>>
                     \/ \E available \in BOOLEAN : BindSave(available)
  BY DEF ControlStep, BindBegin, ReuseBegin, BindKeep, Unbind
<1>10. EnvironmentStep => \/ UNCHANGED <<log, origin, accepted, file>>
                          \/ \E k \in Kinds : StoreMessage(k)
  BY DEF EnvironmentStep, OtherLocks, OtherUnlocks, SupervisorEnds, SupervisorStarts
<1>11. UNCHANGED vars => UNCHANGED <<log, origin, accepted, file>>
  BY DEF vars
<1>12. ServerStep => [Queue!Next]_Queue!vars
  BY <1>4, <1>5, <1>6, <1>8 DEF ServerStep
<1>13. CASE UNCHANGED <<log, origin, accepted>>
  BY <1>1, <1>2, <1>6, <1>13, FileSteps
<1> QED
  BY <1>1, <1>3, <1>7, <1>9, <1>10, <1>11, <1>12, <1>13 DEF Next

(* The worker, the binding operations and the restarts together keep the
   promise of the at-least-once queue. *)
THEOREM DeliveryIsQueue == Spec => Promise
BY PromiseInit, PromiseStep, InvHolds, PTL DEF Spec, Promise, Queue!Spec

=============================================================================
