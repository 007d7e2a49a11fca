---------------------- MODULE IntegrationBindingProofs ----------------------
(***************************************************************************)
(* Proofs about IntegrationBinding: the types, that a binding gets one     *)
(* external object, that its status never claims more than was delivered,  *)
(* and that an object never goes back to an older version of the Request.  *)
(*                                                                         *)
(* OneObject is not inductive: whether Deliver creates a second object     *)
(* depends on the copy of the binding it holds.  IInv adds what that copy  *)
(* is worth: who delivers a binding does so alone (Exclusive), its copy    *)
(* has the version and the external id that are stored (Fresh), it creates *)
(* only where there is no object (NextKept), and an object that exists is  *)
(* named by the binding or about to be (Recorded).                         *)
(* All this as long as nothing overtook the delivery, and, for what the    *)
(* requests controller might delete and create again, as long as the       *)
(* Request lives.  ClaimsInv, of the other two, makes no such exception.   *)
(***************************************************************************)
EXTENDS IntegrationBinding, SequenceTheorems, TLAPS

Exclusive ==
  \A t \in DeliveryThread : work[t].pc # "idle" =>
    /\ work[t].b \in inFlight
    /\ \A u \in DeliveryThread : work[u].pc # "idle" /\ work[u].b = work[t].b => u = t

Fresh ==
  \A t \in DeliveryThread :
    work[t].pc \in {"request", "deliver", "write"} /\ work[t].b \notin overtaken /\ live =>
      /\ binding[work[t].b].exists
      /\ binding[work[t].b].rv = work[t].item.rv
      /\ binding[work[t].b].external = work[t].item.external

\* The external id is kept, and there is no object yet when there is none.
NextKept ==
  \A t \in DeliveryThread : work[t].b \notin overtaken =>
    /\ work[t].pc = "deliver" => work[t].next.external = work[t].item.external
    /\ work[t].pc = "deliver" /\ work[t].next.external = 0 => object[work[t].b] = <<>>
    /\ work[t].pc = "write" /\ work[t].item.external # 0 => work[t].next.external # 0

\* A delivery works on a binding that exists.
CopyThere ==
  \A t \in DeliveryThread :
    /\ work[t].pc \in {"request", "deliver", "write"} => work[t].item.exists
    /\ work[t].pc \in {"deliver", "write"} => work[t].next.exists

AboutToName(b) ==
  \E t \in DeliveryThread : work[t].pc = "write" /\ work[t].b = b /\ work[t].next.external # 0

Recorded ==
  \A b \in Binding : b \notin overtaken /\ live /\ object[b] # <<>> =>
    binding[b].exists /\ (binding[b].external # 0 \/ AboutToName(b))

\* Bindings are deleted only once the Request is.
DropOK ==
  \/ ~live
  \/ /\ \A t \in RequestThread : ensure[t].pc # "drop"
     /\ \A i \in DOMAIN requestFeed : requestFeed[i] # "DELETE"

DeliveryInv == Exclusive /\ Fresh /\ NextKept /\ CopyThere /\ Recorded /\ OneObject

-----------------------------------------------------------------------------
(* Types, by the actor whose state they are.                               *)

VersionType == [status : {"PENDING", "APPROVED", "ENDED"}, step : 0 .. MaxStep]

RequestTypes ==
  /\ versions \in Seq(VersionType) /\ versions # <<>>
  /\ live \in BOOLEAN /\ enabled \in BOOLEAN
  /\ requestFeed \in Seq({"PUT", "DELETE"})
  /\ disturbances \in Nat

BindingTypes == binding \in [Binding -> BindingType] /\ events \in [Binding -> Nat]

EnsureTypes == ensure \in [RequestThread -> EnsureType]

DeliveryTypes ==
  /\ swept \subseteq Binding /\ inFlight \subseteq Binding /\ overtaken \subseteq Binding
  /\ work \in [DeliveryThread -> WorkType]
  /\ object \in [Binding -> Seq(Nat)]

Types == RequestTypes /\ BindingTypes /\ EnsureTypes /\ DeliveryTypes

IInv == Types /\ DropOK /\ DeliveryInv

LEMMA TypeParts == TypeOK <=> Types
BY DEF TypeOK, Types, RequestTypes, VersionType, BindingTypes, EnsureTypes, DeliveryTypes

\* What a new binding and idle goroutines hold has its type.
LEMMA StartTypes ==
  /\ NoBinding \in BindingType /\ NoEnsure \in EnsureType /\ NoWork \in WorkType
  /\ NoWork.pc = "idle" /\ NoEnsure.pc = "idle"
  /\ \A rev \in Nat : NewBinding(rev) \in BindingType
<1>1. \A rev \in Nat : NewBinding(rev) \in BindingType
  BY DEF NewBinding, BindingType, State
<1>2. NoBinding \in BindingType
  BY <1>1 DEF NoBinding, NewBinding, BindingType, State
<1>3. NoEnsure \in EnsureType /\ NoEnsure.pc = "idle"
  BY DEF NoEnsure, EnsureType
<1>4. (CHOOSE b \in Binding : TRUE) \in Binding
  BY BindingAssumption
<1>5. NoWork \in WorkType /\ NoWork.pc = "idle"
  BY <1>2, <1>4 DEF NoWork, WorkType
<1> QED BY <1>1, <1>2, <1>3, <1>5

\* There is always a current version of the Request.
LEMMA RevisionType ==
  ASSUME RequestTypes
  PROVE  Revision \in Nat \ {0} /\ versions[Revision] \in VersionType
<1>1. Len(versions) \in Nat /\ DOMAIN versions = 1 .. Len(versions)
  BY DEF RequestTypes
<1>2. Len(versions) # 0
  BY EmptySeq, <1>1 DEF RequestTypes
<1> QED BY <1>1, <1>2 DEF RequestTypes, Revision

\* A write of a binding of the right type.
LEMMA PutType ==
  ASSUME BindingTypes, NEW b \in Binding, NEW item \in BindingType, Put(b, item)
  PROVE  BindingTypes'
BY DEF BindingTypes, Put

\* What a goroutine of the requests controller has left to do.
LEMMA GoType ==
  ASSUME EnsureTypes, NEW t \in RequestThread,
         NEW create \in SUBSET Binding, NEW update \in SUBSET Binding, Go(t, create, update)
  PROVE  EnsureTypes'
BY StartTypes DEF EnsureTypes, Go, EnsureType

\* A binding whose desired revision is updated.
LEMMA DesiredType ==
  ASSUME NEW item \in BindingType, NEW rev \in Nat
  PROVE  [item EXCEPT !.desired = rev, !.rv = @ + 1] \in BindingType
<1>1. item.rv + 1 \in Nat
  BY DEF BindingType
<1>2. [item EXCEPT !.rv = item.rv + 1] \in BindingType
  BY <1>1 DEF BindingType
<1>3. [[item EXCEPT !.rv = item.rv + 1] EXCEPT !.desired = rev] \in BindingType
  BY <1>2 DEF BindingType
<1> QED BY <1>1, <1>3 DEF BindingType

LEMMA ReadType ==
  ASSUME RequestTypes, EnsureTypes, NEW t \in RequestThread, Read(t)
  PROVE  EnsureTypes'
<1>1. [NoEnsure EXCEPT !.pc = "list", !.rev = Revision] \in EnsureType
  BY StartTypes, RevisionType DEF EnsureType
<1> QED BY <1>1 DEF EnsureTypes, Read

\* A delivery goes on, starts or ends.
LEMMA WorkTypes ==
  ASSUME work \in [DeliveryThread -> WorkType], NEW t \in DeliveryThread, NEW w \in WorkType,
         work' = [work EXCEPT ![t] = w]
  PROVE  work' \in [DeliveryThread -> WorkType]
OBVIOUS

LEMMA ReleaseType ==
  ASSUME DeliveryTypes, NEW t \in DeliveryThread
  PROVE  Release(t) \in WorkType /\ Release(t).pc = "release" /\ Release(t).b = work[t].b
BY StartTypes DEF DeliveryTypes, Release, WorkType

LEMMA AcquireType ==
  ASSUME BindingTypes, DeliveryTypes, NEW t \in DeliveryThread, NEW b \in Binding, Acquire(t, b)
  PROVE  inFlight' \subseteq Binding /\ work' \in [DeliveryThread -> WorkType]
<1>1. [NoWork EXCEPT !.pc = "request", !.b = b, !.item = binding[b]] \in WorkType
  BY StartTypes DEF BindingTypes, WorkType
<1>2. CASE UNCHANGED <<inFlight, work>>
  BY <1>2 DEF DeliveryTypes
<1>3. CASE inFlight' = inFlight \union {b} /\ Start(t, b)
  BY <1>1, <1>3 DEF DeliveryTypes, Start
<1> QED BY <1>2, <1>3 DEF Acquire

\* The attempt is recorded with a state that bindings have.
LEMMA FailedType ==
  ASSUME NEW next \in BindingType
  PROVE  Failed(next) \in BindingType
BY DEF Failed, BindingType, State

\* A delivery leaves a sequence of revisions, which is longer by one when an
\* object is created and otherwise as long as it was.
LEMMA DeliveredType ==
  ASSUME DeliveryTypes, NEW b \in Binding, NEW external \in Nat, NEW rev \in Nat
  PROVE  /\ Delivered(b, external, rev) \in Seq(Nat)
         /\ external # 0 => Len(Delivered(b, external, rev)) = Len(object[b])
         /\ external = 0 => \/ Delivered(b, external, rev) = object[b]
                            \/ Delivered(b, external, rev) = Append(object[b], rev)
<1>1. object[b] \in Seq(Nat)
  BY DEF DeliveryTypes
<1>2. CASE external = 0
  BY <1>1, <1>2 DEF Delivered
<1>3. CASE external # 0
  <2>1. Delivered(b, external, rev) = [object[b] EXCEPT ![external] = rev]
    BY <1>3 DEF Delivered
  <2>2. CASE external \in 1 .. Len(object[b])
    BY <1>1, <1>3, <2>1, <2>2, ExceptSeq
  <2>3. CASE external \notin 1 .. Len(object[b])
    <3>1. DOMAIN object[b] = 1 .. Len(object[b])
      BY <1>1
    <3>2. [object[b] EXCEPT ![external] = rev] = object[b]
      BY <1>1, <2>3, <3>1
    <3> QED BY <1>1, <1>3, <2>1, <3>2
  <2> QED BY <2>2, <2>3
<1> QED BY <1>2, <1>3

-----------------------------------------------------------------------------
(* Every action keeps the types.                                           *)

\* The Request's own actions.
LEMMA RequestStepTypes ==
  ASSUME Types,
         \/ ChangeRequest \/ WriteBack \/ DeleteRequest \/ ToggleIntegration
         \/ TakeRequestEvent \/ TakeDeletion \/ TakeConfigEvent
  PROVE  Types'
<1> USE DEF Types
<1>1. ASSUME NEW status \in {"PENDING", "APPROVED", "ENDED"}, NEW step \in 0 .. MaxStep,
             NewVersion(status, step)
      PROVE  Types'
  <2>1. [status |-> status, step |-> step] \in VersionType
    BY DEF VersionType
  <2>2. RequestTypes'
    BY <1>1, <2>1, AppendProperties DEF NewVersion, RequestTypes
  <2> QED BY <1>1, <2>2 DEF NewVersion, bindings, deliveries, BindingTypes, EnsureTypes, DeliveryTypes
<1>2. CASE ChangeRequest
  <2>1. versions[Revision].step \in 0 .. MaxStep /\ MaxStep \in Nat
    BY RevisionType, BindingAssumption DEF VersionType
  <2>2. versions[Revision].step < MaxStep => versions[Revision].step + 1 \in 0 .. MaxStep
    BY <2>1
  <2>3. \E status \in {"PENDING", "APPROVED", "ENDED"}, step \in 0 .. MaxStep :
           NewVersion(status, step)
    BY <1>2, <2>1, <2>2 DEF ChangeRequest
  <2> QED BY <2>3, <1>1
<1>3. CASE WriteBack \/ DeleteRequest \/ ToggleIntegration
  <2>1. versions' \in Seq(VersionType) /\ versions' # <<>> /\ disturbances' \in Nat
    BY <1>3 DEF WriteBack, DeleteRequest, ToggleIntegration, Disturb, RequestTypes, requests
  <2>2. live' \in BOOLEAN /\ enabled' \in BOOLEAN
    BY <1>3 DEF WriteBack, DeleteRequest, ToggleIntegration, RequestTypes, requests
  <2>3. requestFeed' \in Seq({"PUT", "DELETE"})
    BY <1>3, AppendProperties
       DEF WriteBack, DeleteRequest, ToggleIntegration, RequestTypes, requests
  <2>4. RequestTypes'
    BY <2>1, <2>2, <2>3 DEF RequestTypes
  <2> QED BY <1>3, <2>4 DEF WriteBack, DeleteRequest, ToggleIntegration, bindings, deliveries,
                            BindingTypes, EnsureTypes, DeliveryTypes
<1>4. CASE TakeRequestEvent
  <2>1. RequestTypes'
    BY <1>4 DEF TakeRequestEvent, RequestTypes
  <2>2. EnsureTypes'
    BY <1>4, ReadType DEF TakeRequestEvent, EnsureTypes, RequestThread
  <2> QED BY <1>4, <2>1, <2>2 DEF TakeRequestEvent, bindings, deliveries, BindingTypes, DeliveryTypes
<1>5. CASE TakeDeletion
  <2>1. RequestTypes'
    BY <1>5 DEF TakeDeletion, RequestTypes
  <2>2. [NoEnsure EXCEPT !.pc = "drop", !.update = {b \in Binding : binding[b].exists}] \in EnsureType
    BY StartTypes DEF EnsureType
  <2>3. EnsureTypes'
    BY <1>5, <2>2 DEF TakeDeletion, EnsureTypes
  <2> QED BY <1>5, <2>1, <2>3 DEF TakeDeletion, bindings, deliveries, BindingTypes, DeliveryTypes
<1>6. CASE TakeConfigEvent
  <2>1. RequestTypes'
    BY <1>6 DEF TakeConfigEvent, Disturb, RequestTypes, requests
  <2>2. EnsureTypes'
    BY <1>6, ReadType DEF TakeConfigEvent, RequestThread
  <2> QED BY <1>6, <2>1, <2>2 DEF TakeConfigEvent, bindings, deliveries, BindingTypes, DeliveryTypes
<1> QED BY <1>2, <1>3, <1>4, <1>5, <1>6

\* Those of the requests controller, and the other writes of a binding.
LEMMA EnsureStepTypes ==
  ASSUME Types,
         \/ \E t \in RequestThread : Ensure(t) \/ FailEnsure(t)
         \/ \E b \in Binding : RecordEventID(b) \/ Elapse(b)
  PROVE  Types'
<1> USE DEF Types
<1>1. ASSUME NEW t \in RequestThread, ListBindings(t)
      PROVE  Types'
  <2>1. /\ ensure[t] \in EnsureType
        /\ [b \in Binding |-> binding[b].rv] \in [Binding -> Nat]
    BY DEF EnsureTypes, BindingTypes, BindingType
  <2>2. EnsureTypes'
    BY <1>1, <2>1, StartTypes DEF ListBindings, EnsureTypes, EnsureType, DesiredBindings
  <2> QED BY <1>1, <2>2 DEF ListBindings, requests, bindings, deliveries, RequestTypes, BindingTypes,
                            DeliveryTypes
<1>2. ASSUME NEW t \in RequestThread, NEW b \in Binding, CreateBinding(t, b)
      PROVE  Types'
  <2>1. ensure[t] \in EnsureType
    BY DEF EnsureTypes
  <2>2. EnsureTypes'
    BY <1>2, <2>1, GoType DEF CreateBinding, EnsureType
  <2>3. [NewBinding(ensure[t].rev) EXCEPT !.rv = binding[b].rv + 1] \in BindingType
    BY <2>1, StartTypes DEF EnsureType, BindingType, BindingTypes
  <2>4. BindingTypes'
    BY <1>2, <2>3, PutType DEF CreateBinding, bindings, BindingTypes
  <2> QED BY <1>2, <2>2, <2>4 DEF CreateBinding, requests, deliveries, RequestTypes, DeliveryTypes
<1>3. ASSUME NEW t \in RequestThread, NEW b \in Binding, UpdateDesired(t, b)
      PROVE  Types'
  <2>1. ensure[t] \in EnsureType
    BY DEF EnsureTypes
  <2>2. EnsureTypes'
    BY <1>3, <2>1, GoType DEF UpdateDesired, EnsureType
  <2>3. [binding[b] EXCEPT !.desired = ensure[t].rev, !.rv = @ + 1] \in BindingType
    BY <2>1, DesiredType DEF EnsureType, BindingTypes
  <2>4. BindingTypes'
    BY <1>3, <2>3, PutType DEF UpdateDesired, bindings, BindingTypes
  <2>5. overtaken' \subseteq Binding
    BY <1>3 DEF UpdateDesired, Overtake, DeliveryTypes
  <2> QED BY <1>3, <2>2, <2>4, <2>5 DEF UpdateDesired, requests, deliveries, RequestTypes, DeliveryTypes
<1>4. ASSUME NEW t \in RequestThread, NEW b \in Binding, DropBinding(t, b)
      PROVE  Types'
  <2>1. [binding[b] EXCEPT !.exists = FALSE] \in BindingType
    BY DEF BindingTypes, BindingType
  <2>2. BindingTypes'
    BY <1>4, <2>1 DEF DropBinding, BindingTypes
  <2>3. [ensure[t] EXCEPT !.update = @ \ {b}] \in EnsureType
    BY DEF EnsureTypes, EnsureType
  <2>4. EnsureTypes'
    BY <1>4, <2>3 DEF DropBinding, EnsureTypes
  <2>5. disturbances' \in Nat
    BY <1>4 DEF DropBinding, Disturb, RequestTypes
  <2> QED BY <1>4, <2>2, <2>4, <2>5 DEF DropBinding, requests, deliveries, RequestTypes, DeliveryTypes
<1>5. ASSUME NEW t \in RequestThread, DropDone(t) \/ FailEnsure(t)
      PROVE  Types'
  <2>1. EnsureTypes'
    BY <1>5, StartTypes DEF DropDone, FailEnsure, EnsureTypes
  <2>2. disturbances' \in Nat
    BY <1>5 DEF DropDone, FailEnsure, Disturb, RequestTypes
  <2> QED BY <1>5, <2>1, <2>2 DEF DropDone, FailEnsure, requests, bindings, deliveries, RequestTypes,
                                  BindingTypes, DeliveryTypes
<1>6. ASSUME NEW b \in Binding, RecordEventID(b)
      PROVE  Types'
  <2>1. [binding[b] EXCEPT !.rv = @ + 1] \in BindingType
    BY DEF BindingTypes, BindingType
  <2>2. BindingTypes'
    BY <1>6, <2>1, PutType DEF RecordEventID
  <2>3. overtaken' \subseteq Binding /\ disturbances' \in Nat
    BY <1>6 DEF RecordEventID, Overtake, Disturb, DeliveryTypes, RequestTypes
  <2> QED BY <1>6, <2>2, <2>3 DEF RecordEventID, requests, deliveries, RequestTypes, EnsureTypes,
                                  DeliveryTypes
<1>7. ASSUME NEW b \in Binding, Elapse(b)
      PROVE  Types'
  <2>1. [binding[b] EXCEPT !.waiting = FALSE] \in BindingType
    BY DEF BindingTypes, BindingType
  <2>2. BindingTypes'
    BY <1>7, <2>1 DEF Elapse, BindingTypes
  <2> QED BY <1>7, <2>2 DEF Elapse, requests, deliveries, RequestTypes, EnsureTypes, DeliveryTypes
<1> QED BY <1>1, <1>2, <1>3, <1>4, <1>5, <1>6, <1>7 DEF Ensure

\* Those of the integrationbindings controller, and its restart.
LEMMA DeliveryStepTypes ==
  ASSUME Types,
         \/ ListDue \/ TakeSwept \/ Crash
         \/ \E t \in DeliveryThread : Reconcile(t) \/ DeliverFails(t) \/ FailDelivery(t)
         \/ \E b \in Binding : TakeEvent(b)
  PROVE  Types'
<1> USE DEF Types
<1>1. CASE ListDue
  BY <1>1 DEF ListDue, requests, bindings, RequestTypes, BindingTypes, EnsureTypes, DeliveryTypes
<1>2. CASE TakeSwept
  <2>1. PICK b \in swept : swept' = swept \ {b} /\ Acquire("sweep", b)
    BY <1>2 DEF TakeSwept
  <2>2. b \in Binding /\ "sweep" \in DeliveryThread
    BY DEF DeliveryTypes, DeliveryThread
  <2>3. inFlight' \subseteq Binding /\ work' \in [DeliveryThread -> WorkType]
    BY <2>1, <2>2, AcquireType
  <2> QED BY <1>2, <2>1, <2>3 DEF TakeSwept, requests, bindings, RequestTypes, BindingTypes, EnsureTypes,
                                  DeliveryTypes
<1>3. CASE Crash
  <2>1. requestFeed' \in Seq({"PUT", "DELETE"})
    BY <1>3, EmptySeq DEF Crash, RequestTypes
  <2>2. RequestTypes'
    BY <1>3, <2>1 DEF Crash, Disturb, RequestTypes
  <2>3. BindingTypes'
    BY <1>3 DEF Crash, BindingTypes
  <2>4. EnsureTypes' /\ DeliveryTypes'
    BY <1>3, StartTypes DEF Crash, EnsureTypes, DeliveryTypes
  <2> QED BY <2>2, <2>3, <2>4
<1>4. ASSUME NEW b \in Binding, TakeEvent(b)
      PROVE  Types'
  <2>1. inFlight' \subseteq Binding /\ work' \in [DeliveryThread -> WorkType]
    BY <1>4, AcquireType DEF TakeEvent, DeliveryThread
  <2>2. BindingTypes'
    BY <1>4 DEF TakeEvent, BindingTypes
  <2> QED BY <1>4, <2>1, <2>2 DEF TakeEvent, requests, RequestTypes, EnsureTypes, DeliveryTypes
<1>5. ASSUME NEW t \in DeliveryThread
      PROVE  /\ work[t] \in WorkType /\ Release(t) \in WorkType
             /\ work[t].b \in Binding /\ work[t].item \in BindingType /\ work[t].next \in BindingType
  BY <1>5, ReleaseType DEF DeliveryTypes, WorkType
<1>6. ASSUME NEW t \in DeliveryThread, ReadRequest(t)
      PROVE  Types'
  <2>1. [work[t].item EXCEPT !.desired = Revision] \in BindingType
    BY <1>5, RevisionType DEF BindingType
  <2>2. \A pc \in {"deliver", "write"} :
           [work[t] EXCEPT !.pc = pc, !.next = [work[t].item EXCEPT !.desired = Revision]] \in WorkType
    BY <1>5, <2>1 DEF WorkType
  <2>3. \E w \in WorkType : work' = [work EXCEPT ![t] = w]
    BY <1>5, <1>6, <2>2 DEF ReadRequest
  <2>4. work' \in [DeliveryThread -> WorkType]
    BY <2>3, WorkTypes DEF DeliveryTypes
  <2> QED BY <1>6, <2>4 DEF ReadRequest, requests, bindings, RequestTypes, BindingTypes, EnsureTypes,
                            DeliveryTypes
<1>7. ASSUME NEW t \in DeliveryThread,
             Delivered(work[t].b, work[t].next.external, work[t].next.desired) \in Seq(Nat)
      PROVE  [object EXCEPT ![work[t].b] =
                Delivered(work[t].b, work[t].next.external, work[t].next.desired)]
               \in [Binding -> Seq(Nat)]
  BY <1>5, <1>7 DEF DeliveryTypes
<1>8. ASSUME NEW t \in DeliveryThread
      PROVE  Delivered(work[t].b, work[t].next.external, work[t].next.desired) \in Seq(Nat)
  BY <1>5, DeliveredType DEF BindingType
<1>9. ASSUME NEW t \in DeliveryThread, Deliver(t)
      PROVE  Types'
  <2> DEFINE b == work[t].b
             next == work[t].next
             shown == Delivered(b, next.external, next.desired)
             after == [next EXCEPT !.state = Goal(b, next.desired), !.applied = next.desired,
                         !.external = IF @ = 0 /\ shown # object[b] THEN Len(shown) ELSE @]
  <2>1. Len(shown) \in Nat /\ Goal(b, next.desired) \in State
    BY <1>8 DEF Goal, State
  <2>2. after \in BindingType
    <3> HIDE DEF b, next, shown
    <3> QED BY <1>5, <2>1 DEF BindingType, next
  <2>3. work' = [work EXCEPT ![t] = [work[t] EXCEPT !.pc = "write", !.next = after]]
    BY <1>9 DEF Deliver, DeliveryTypes
  <2>4. [work[t] EXCEPT !.pc = "write", !.next = after] \in WorkType
    <3> HIDE DEF after
    <3> QED BY <1>5, <2>2 DEF WorkType
  <2>5. work' \in [DeliveryThread -> WorkType]
    BY <2>3, <2>4, WorkTypes DEF DeliveryTypes
  <2>6. object' \in [Binding -> Seq(Nat)]
    BY <1>7, <1>8, <1>9 DEF Deliver
  <2> QED BY <1>9, <2>5, <2>6 DEF Deliver, requests, bindings, RequestTypes, BindingTypes, EnsureTypes,
                                  DeliveryTypes
<1>10. ASSUME NEW t \in DeliveryThread, DeliverFails(t)
      PROVE  Types'
  <2>1. object' \in [Binding -> Seq(Nat)]
    BY <1>7, <1>8, <1>10 DEF DeliverFails, DeliveryTypes
  <2>2. Failed(work[t].next) \in BindingType
    BY <1>5, FailedType
  <2>3. [work[t] EXCEPT !.pc = "write", !.next = Failed(work[t].next)] \in WorkType
    BY <1>5, <2>2 DEF WorkType
  <2>4. work' = [work EXCEPT ![t] = [work[t] EXCEPT !.pc = "write", !.next = Failed(work[t].next)]]
    BY <1>10 DEF DeliverFails, DeliveryTypes
  <2>5. work' \in [DeliveryThread -> WorkType]
    BY <2>3, <2>4, WorkTypes DEF DeliveryTypes
  <2>6. overtaken' \subseteq Binding /\ disturbances' \in Nat
    BY <1>5, <1>10 DEF DeliverFails, Disturb, DeliveryTypes, RequestTypes
  <2> QED BY <1>10, <2>1, <2>5, <2>6 DEF DeliverFails, requests, bindings, RequestTypes, BindingTypes,
                                         EnsureTypes, DeliveryTypes
<1>11. ASSUME NEW t \in DeliveryThread, WriteStatus(t)
      PROVE  Types'
  <2>1. [work[t].next EXCEPT !.rv = work[t].item.rv + 1] \in BindingType
    BY <1>5 DEF BindingType
  <2>2. BindingTypes'
    BY <1>5, <1>11, <2>1, PutType DEF WriteStatus, bindings, BindingTypes
  <2>3. work' \in [DeliveryThread -> WorkType]
    BY <1>5, <1>11, WorkTypes DEF WriteStatus, DeliveryTypes
  <2> QED BY <1>11, <2>2, <2>3 DEF WriteStatus, requests, RequestTypes, EnsureTypes, DeliveryTypes
<1>12. ASSUME NEW t \in DeliveryThread, ReleaseBinding(t) \/ FailDelivery(t)
      PROVE  Types'
  <2>1. work' \in [DeliveryThread -> WorkType]
    BY <1>5, <1>12, StartTypes, WorkTypes DEF ReleaseBinding, FailDelivery, DeliveryTypes
  <2>2. /\ inFlight' \subseteq Binding /\ overtaken' \subseteq Binding
        /\ disturbances' \in Nat
    BY <1>5, <1>12 DEF ReleaseBinding, FailDelivery, Disturb, DeliveryTypes, RequestTypes
  <2> QED BY <1>12, <2>1, <2>2 DEF ReleaseBinding, FailDelivery, requests, bindings, RequestTypes,
                                   BindingTypes, EnsureTypes, DeliveryTypes
<1> QED BY <1>1, <1>2, <1>3, <1>4, <1>6, <1>9, <1>10, <1>11, <1>12 DEF Reconcile

LEMMA TypesInit == Init => Types
<1> SUFFICES ASSUME Init PROVE Types
  OBVIOUS
<1>1. PICK status \in {"PENDING", "APPROVED"} : versions = <<[status |-> status, step |-> 0]>>
  BY DEF Init
<1>2. [status |-> status, step |-> 0] \in VersionType
  BY BindingAssumption DEF VersionType
<1>3. RequestTypes
  BY <1>1, <1>2 DEF Init, RequestTypes
<1>4. BindingTypes /\ EnsureTypes /\ DeliveryTypes
  BY StartTypes, EmptySeq DEF Init, BindingTypes, EnsureTypes, DeliveryTypes
<1> QED BY <1>3, <1>4 DEF Types

LEMMA TypesNext == Types /\ [Next]_vars => Types'
<1> SUFFICES ASSUME Types, [Next]_vars PROVE Types'
  OBVIOUS
<1>1. CASE UNCHANGED vars
  BY <1>1 DEF Types, vars, requests, bindings, deliveries, RequestTypes, BindingTypes, EnsureTypes,
              DeliveryTypes
<1>2. CASE Next
  BY <1>2, RequestStepTypes, EnsureStepTypes, DeliveryStepTypes DEF Next, Others, TakeRequest
<1> QED BY <1>1, <1>2

\* The variables keep their types, whatever the Disturbances and the bounds.
THEOREM BindingTypeCorrect == Spec => []TypeOK
<1>1. Init => Types
  BY TypesInit
<1>2. Types /\ [Next]_vars => Types'
  BY TypesNext
<1>3. Types => TypeOK
  BY TypeParts
<1> QED BY <1>1, <1>2, <1>3, PTL DEF Spec

-----------------------------------------------------------------------------
(* The deliveries.                                                         *)

LEMMA BusyOn ==
  ASSUME Types, NEW t \in DeliveryThread
  PROVE  work[t].b \in Binding
BY DEF Types, DeliveryTypes, WorkType

\* A delivery that goes on alone.
LEMMA StaysAlone ==
  ASSUME Exclusive, NEW t \in DeliveryThread, work[t].pc # "idle", work'[t].b = work[t].b,
         \A u \in DeliveryThread \ {t} : work'[u] = work[u], inFlight' = inFlight
  PROVE  /\ Exclusive'
         /\ \A u \in DeliveryThread \ {t} : work[u].pc # "idle" => work[u].b # work[t].b
<1>1. Exclusive'
  BY DEF Exclusive
<1>2. \A u \in DeliveryThread \ {t} : work[u].pc # "idle" => work[u].b # work[t].b
  BY DEF Exclusive
<1> QED BY <1>1, <1>2

\* A step that leaves to the deliveries what they look at.
LEMMA Quiet ==
  ASSUME Types, DeliveryInv, UNCHANGED <<work, inFlight, object, overtaken>>, live' => live,
         \A b \in Binding : /\ binding'[b].exists = binding[b].exists
                            /\ binding'[b].rv = binding[b].rv
                            /\ binding'[b].external = binding[b].external
  PROVE  DeliveryInv'
<1> USE DEF DeliveryInv
<1>1. Exclusive' /\ OneObject'
  BY DEF Exclusive, OneObject
<1>2. Fresh'
  BY BusyOn DEF Fresh
<1>3. NextKept' /\ CopyThere'
  BY DEF NextKept, CopyThere
<1>4. Recorded'
  BY DEF Recorded, AboutToName
<1> QED BY <1>1, <1>2, <1>3, <1>4

\* Another writer than the deliveries.
LEMMA WrittenByOther ==
  ASSUME Types, DeliveryInv, NEW b \in Binding, UNCHANGED <<work, inFlight, object, live>>, Overtake(b),
         \A c \in Binding \ {b} : binding'[c] = binding[c],
         binding[b].exists, binding'[b].exists, binding'[b].external = binding[b].external
  PROVE  DeliveryInv'
<1> USE DEF DeliveryInv
<1>1. Exclusive'
  BY DEF Exclusive
<1>2. OneObject'
  BY DEF OneObject, Overtake
<1>3. Fresh'
  BY BusyOn DEF Fresh, Overtake, Exclusive
<1>4. NextKept' /\ CopyThere'
  BY DEF NextKept, CopyThere, Overtake
<1>5. Recorded'
  BY DEF Recorded, AboutToName, Overtake
<1> QED BY <1>1, <1>2, <1>3, <1>4, <1>5

\* A binding that is created: nobody delivers it, and it has no object.
LEMMA Created ==
  ASSUME Types, DeliveryInv, NEW b \in Binding, UNCHANGED <<work, inFlight, object, live, overtaken>>,
         ~binding[b].exists, \A c \in Binding \ {b} : binding'[c] = binding[c]
  PROVE  DeliveryInv'
<1> USE DEF DeliveryInv
<1>1. Exclusive' /\ OneObject'
  BY DEF Exclusive, OneObject
<1>2. Fresh'
  BY BusyOn DEF Fresh
<1>3. NextKept' /\ CopyThere'
  BY DEF NextKept, CopyThere
<1>4. Recorded'
  BY DEF Recorded, AboutToName
<1> QED BY <1>1, <1>2, <1>3, <1>4

\* Without the Request only the number of objects matters.
LEMMA WithoutRequest ==
  ASSUME Types, DeliveryInv, ~live, ~live', UNCHANGED <<work, inFlight, object, overtaken>>
  PROVE  DeliveryInv'
BY DEF DeliveryInv, Exclusive, OneObject, Fresh, NextKept, CopyThere, Recorded

\* Who starts to deliver a binding is the only one who does.
LEMMA Acquired ==
  ASSUME Types, DeliveryInv, NEW t \in DeliveryThread, NEW b \in Binding, work[t].pc = "idle",
         Acquire(t, b), UNCHANGED <<binding, object, live, overtaken>>
  PROVE  DeliveryInv'
<1> USE DEF DeliveryInv
<1>1. CASE UNCHANGED <<inFlight, work>>
  BY <1>1, Quiet
<1>2. CASE b \notin inFlight /\ binding[b].exists /\ inFlight' = inFlight \union {b} /\ Start(t, b)
  <2>1. /\ \A u \in DeliveryThread \ {t} : work'[u] = work[u]
        /\ work'[t].pc = "request" /\ work'[t].b = b /\ work'[t].item = binding[b]
    BY <1>2 DEF Start, NoWork, Types, DeliveryTypes
  <2>2. \A u \in DeliveryThread : work[u].pc # "idle" => work[u].b # b
    BY <1>2 DEF Exclusive
  <2>3. Exclusive'
    BY <1>2, <2>1, <2>2 DEF Exclusive
  <2>4. Fresh'
    BY <1>2, <2>1 DEF Fresh
  <2>5. NextKept' /\ CopyThere'
    BY <1>2, <2>1 DEF NextKept, CopyThere
  <2>6. \A c \in Binding : AboutToName(c) => AboutToName(c)'
    BY <2>1 DEF AboutToName
  <2>7. Recorded'
    BY <2>6 DEF Recorded
  <2> QED BY <2>3, <2>4, <2>5, <2>7 DEF OneObject
<1> QED BY <1>1, <1>2 DEF Acquire

\* Reconcile reads the Request; what it will deliver, it names as before.
LEMMA RequestRead ==
  ASSUME Types, DeliveryInv, NEW t \in DeliveryThread, ReadRequest(t)
  PROVE  DeliveryInv'
<1> USE DEF DeliveryInv
<1> DEFINE b == work[t].b
           item == work[t].item
           wanted == [item EXCEPT !.desired = Revision]
<1>1. /\ work \in [DeliveryThread -> WorkType] /\ work[t] \in WorkType /\ b \in Binding
      /\ item \in BindingType /\ work[t].pc = "request"
  BY DEF ReadRequest, Types, DeliveryTypes, WorkType
<1>2. wanted.external = item.external /\ wanted.exists = item.exists
  BY <1>1 DEF BindingType
<1>3. /\ UNCHANGED <<binding, inFlight, object, live, overtaken>>
      /\ \A u \in DeliveryThread \ {t} : work'[u] = work[u]
  BY <1>1 DEF ReadRequest, requests, bindings
<1>4. \/ work'[t] = Release(t)
      \/ live /\ work'[t] = [work[t] EXCEPT !.pc = "deliver", !.next = wanted]
      \/ live /\ work'[t] = [work[t] EXCEPT !.pc = "write", !.next = wanted]
  BY <1>1 DEF ReadRequest
<1>5. /\ work'[t].b = b /\ work'[t].pc \in {"release", "deliver", "write"}
      /\ work'[t].pc # "release" => /\ live /\ work'[t].item = item
                                    /\ work'[t].next.external = item.external
                                    /\ work'[t].next.exists = item.exists
  <2> HIDE DEF wanted
  <2> QED BY <1>1, <1>2, <1>4, ReleaseType DEF WorkType, Types
<1>6. b \notin overtaken /\ live => binding[b].exists /\ binding[b].external = item.external
  BY <1>1 DEF Fresh
<1>7. b \notin overtaken /\ live /\ item.external = 0 => object[b] = <<>>
  <2> SUFFICES ASSUME b \notin overtaken, live, item.external = 0, object[b] # <<>> PROVE FALSE
    OBVIOUS
  <2>1. AboutToName(b)
    BY <1>1, <1>6 DEF Recorded
  <2> QED BY <1>1, <2>1 DEF AboutToName, Exclusive
<1> HIDE DEF b, item, wanted
<1>8. Exclusive'
  BY <1>1, <1>3, <1>5, StaysAlone DEF b
<1>9. Fresh'
  BY <1>1, <1>3, <1>5, <1>6 DEF Fresh, b, item
<1>10. NextKept' /\ CopyThere'
  BY <1>1, <1>3, <1>5, <1>7 DEF NextKept, CopyThere, b, item
<1>11. \A c \in Binding : AboutToName(c) => AboutToName(c)'
  BY <1>1, <1>3 DEF AboutToName
<1>12. Recorded'
  BY <1>3, <1>11 DEF Recorded
<1> QED BY <1>3, <1>8, <1>9, <1>10, <1>12 DEF OneObject

\* Only a delivery that has no object yet creates one.
LEMMA DeliveryDone ==
  ASSUME Types, DeliveryInv, NEW t \in DeliveryThread, Deliver(t)
  PROVE  DeliveryInv'
<1> USE DEF DeliveryInv
<1> DEFINE b == work[t].b
           item == work[t].item
           next == work[t].next
           shown == Delivered(b, next.external, next.desired)
           external == IF next.external = 0 /\ shown # object[b] THEN Len(shown) ELSE next.external
<1>1. /\ work \in [DeliveryThread -> WorkType] /\ work[t] \in WorkType /\ b \in Binding
      /\ item \in BindingType /\ next \in BindingType /\ work[t].pc = "deliver"
      /\ next.external \in Nat /\ next.desired \in Nat
      /\ object \in [Binding -> Seq(Nat)] /\ object[b] \in Seq(Nat)
  BY DEF Deliver, Types, DeliveryTypes, WorkType, BindingType
<1>2. /\ UNCHANGED <<binding, inFlight, live, overtaken>>
      /\ \A u \in DeliveryThread \ {t} : work'[u] = work[u]
      /\ object'[b] = shown /\ \A c \in Binding \ {b} : object'[c] = object[c]
  BY <1>1 DEF Deliver, requests, bindings
<1>3. /\ work'[t].pc = "write" /\ work'[t].b = b /\ work'[t].item = item
      /\ work'[t].next.external = external /\ work'[t].next.exists = next.exists
  BY <1>1 DEF Deliver, WorkType, BindingType
<1>4. /\ shown \in Seq(Nat) /\ Len(object[b]) \in Nat
      /\ next.external # 0 => Len(shown) = Len(object[b])
      /\ next.external = 0 => shown = object[b] \/ shown = Append(object[b], next.desired)
  <2> HIDE DEF b, next
  <2> QED BY <1>1, DeliveredType DEF Types
<1>5. Len(Append(object[b], next.desired)) = Len(object[b]) + 1
  BY <1>1, AppendProperties
<1>6. b \notin overtaken => /\ next.external = item.external
                            /\ next.external = 0 => object[b] = <<>>
  BY <1>1 DEF NextKept
<1>7. b \notin overtaken /\ live => binding[b].exists /\ binding[b].external = item.external
  BY <1>1 DEF Fresh
<1>8. b \notin overtaken /\ item.external # 0 => external # 0
  BY <1>6
<1>9. b \notin overtaken /\ shown # <<>> => external # 0
  BY <1>4, <1>5, <1>6
<1>10. b \notin overtaken => Len(shown) <= 1
  <2>1. CASE next.external # 0
    BY <1>1, <1>4, <2>1 DEF OneObject
  <2>2. CASE next.external = 0
    BY <1>4, <1>5, <1>6, <2>2, EmptySeq
  <2> QED BY <2>1, <2>2
<1> HIDE DEF b, item, next, shown, external
<1>11. \A u \in DeliveryThread \ {t} : work[u].pc # "idle" => work[u].b # b
  BY <1>1, <1>2, <1>3, StaysAlone DEF b
<1>12. Exclusive'
  BY <1>1, <1>2, <1>3, StaysAlone DEF b
<1>13. Fresh'
  <2>1. \A u \in DeliveryThread \ {t} : work'[u] = work[u]
    BY <1>2
  <2>2. work'[t].b = work[t].b /\ work'[t].item = work[t].item /\ work[t].pc = "deliver"
    BY <1>1, <1>3 DEF b, item
  <2>3. UNCHANGED <<binding, live, overtaken>>
    BY <1>2
  <2> QED BY <2>1, <2>2, <2>3 DEF Fresh
<1>14. NextKept' /\ CopyThere'
  <2>1. NextKept'
    BY <1>1, <1>2, <1>3, <1>8, <1>11, BusyOn DEF NextKept
  <2>2. CopyThere'
    BY <1>1, <1>2, <1>3 DEF CopyThere, item, next
  <2> QED BY <2>1, <2>2
<1>15. Recorded'
  <2> SUFFICES ASSUME NEW c \in Binding, c \notin overtaken, live, object'[c] # <<>>
               PROVE  binding[c].exists /\ (binding[c].external # 0 \/ AboutToName(c)')
    BY <1>2 DEF Recorded
  <2>1. CASE c = b
    BY <1>2, <1>3, <1>7, <1>9, <2>1 DEF AboutToName
  <2>2. CASE c # b
    <3>1. binding[c].exists /\ (binding[c].external # 0 \/ AboutToName(c))
      BY <1>2, <2>2 DEF Recorded
    <3>2. AboutToName(c) => AboutToName(c)'
      BY <1>1, <1>2 DEF AboutToName
    <3> QED BY <3>1, <3>2
  <2> QED BY <2>1, <2>2
<1>16. OneObject'
  BY <1>2, <1>10 DEF OneObject
<1> QED BY <1>12, <1>13, <1>14, <1>15, <1>16

\* What a failed delivery leaves is not claimed to be anything.
LEMMA DeliveryFailed ==
  ASSUME Types, DeliveryInv, NEW t \in DeliveryThread, DeliverFails(t)
  PROVE  DeliveryInv'
<1> USE DEF DeliveryInv
<1> DEFINE b == work[t].b
<1>1. /\ work \in [DeliveryThread -> WorkType] /\ work[t] \in WorkType /\ b \in Binding
      /\ work[t].pc = "deliver" /\ object \in [Binding -> Seq(Nat)]
  BY DEF DeliverFails, Types, DeliveryTypes, WorkType
<1>2. /\ UNCHANGED <<binding, inFlight, live>> /\ overtaken' = overtaken \union {b}
      /\ \A u \in DeliveryThread \ {t} : work'[u] = work[u]
      /\ \A c \in Binding \ {b} : object'[c] = object[c]
  BY <1>1 DEF DeliverFails, requests, bindings
<1>3. /\ work'[t].pc = "write" /\ work'[t].b = b /\ work'[t].item = work[t].item
      /\ work'[t].next.exists = work[t].next.exists
  BY <1>1 DEF DeliverFails, Failed, WorkType, BindingType
<1> HIDE DEF b
<1>4. Exclusive'
  BY <1>1, <1>2, <1>3, StaysAlone DEF b
<1>5. Fresh'
  BY <1>2, <1>3 DEF Fresh
<1>6. NextKept' /\ CopyThere'
  <2>1. NextKept'
    BY <1>2, <1>3, BusyOn DEF NextKept
  <2>2. CopyThere'
    BY <1>1, <1>2, <1>3 DEF CopyThere
  <2> QED BY <2>1, <2>2
<1>7. Recorded'
  <2> SUFFICES ASSUME NEW c \in Binding, c \notin overtaken, c # b, live, object[c] # <<>>
               PROVE  binding[c].exists /\ (binding[c].external # 0 \/ AboutToName(c)')
    BY <1>2 DEF Recorded
  <2>1. binding[c].exists /\ (binding[c].external # 0 \/ AboutToName(c))
    BY DEF Recorded
  <2>2. AboutToName(c) => AboutToName(c)'
    BY <1>2 DEF AboutToName, b
  <2> QED BY <2>1, <2>2
<1>8. OneObject'
  BY <1>2 DEF OneObject
<1> QED BY <1>4, <1>5, <1>6, <1>7, <1>8

\* The status that is written names the object that there is.
LEMMA StatusWritten ==
  ASSUME Types, DeliveryInv, NEW t \in DeliveryThread, WriteStatus(t)
  PROVE  DeliveryInv'
<1> USE DEF DeliveryInv
<1> DEFINE b == work[t].b
           item == work[t].item
           next == work[t].next
<1>1. /\ work \in [DeliveryThread -> WorkType] /\ work[t] \in WorkType /\ b \in Binding
      /\ next \in BindingType /\ work[t].pc = "write"
      /\ binding \in [Binding -> BindingType]
  BY DEF WriteStatus, Types, BindingTypes, DeliveryTypes, WorkType
<1>2. /\ UNCHANGED <<inFlight, object, live, overtaken>>
      /\ \A u \in DeliveryThread \ {t} : work'[u] = work[u]
      /\ \A c \in Binding \ {b} : binding'[c] = binding[c]
  BY <1>1 DEF WriteStatus, Put, requests, bindings
<1>3. work'[t].pc = "release" /\ work'[t].b = b
  BY <1>1, ReleaseType DEF WriteStatus, Types
<1>4. \/ binding[b].exists /\ binding[b].rv = item.rv /\ binding'[b] = [next EXCEPT !.rv = item.rv + 1]
      \/ ~(binding[b].exists /\ binding[b].rv = item.rv) /\ binding' = binding
  BY <1>1 DEF WriteStatus, Put, bindings
<1>5. b \notin overtaken /\ live => /\ binding[b].exists /\ binding[b].rv = item.rv
                                    /\ binding[b].external = item.external
                                    /\ item.external # 0 => next.external # 0
                                    /\ next.exists
  BY <1>1 DEF Fresh, NextKept, CopyThere
<1> HIDE DEF b, item, next
<1>6. \A u \in DeliveryThread \ {t} : work[u].pc # "idle" => work[u].b # b
  BY <1>1, <1>2, <1>3, StaysAlone DEF b
<1>7. Exclusive'
  BY <1>1, <1>2, <1>3, StaysAlone DEF b
<1>8. Fresh'
  BY <1>2, <1>3, <1>6, BusyOn DEF Fresh
<1>9. NextKept' /\ CopyThere'
  BY <1>2, <1>3 DEF NextKept, CopyThere
<1>10. Recorded'
  <2> SUFFICES ASSUME NEW c \in Binding, c \notin overtaken, live, object[c] # <<>>
               PROVE  binding'[c].exists /\ (binding'[c].external # 0 \/ AboutToName(c)')
    BY <1>2 DEF Recorded
  <2>1. CASE c = b
    <3>1. binding'[b] = [next EXCEPT !.rv = item.rv + 1]
      BY <1>4, <1>5, <2>1
    <3>2. binding'[b].exists = next.exists /\ binding'[b].external = next.external
      BY <1>1, <3>1 DEF BindingType
    <3>3. binding[b].external # 0 \/ next.external # 0
      BY <1>1, <1>6, <2>1 DEF Recorded, AboutToName, next, b
    <3> QED BY <1>1, <1>5, <2>1, <3>2, <3>3
  <2>2. CASE c # b
    BY <1>1, <1>2, <2>2 DEF Recorded, AboutToName, b
  <2> QED BY <2>1, <2>2
<1> QED BY <1>2, <1>7, <1>8, <1>9, <1>10 DEF OneObject

\* A goroutine lets a binding go.
LEMMA Released ==
  ASSUME Types, DeliveryInv, NEW t \in DeliveryThread, ReleaseBinding(t) \/ FailDelivery(t)
  PROVE  DeliveryInv'
<1> USE DEF DeliveryInv
<1> DEFINE b == work[t].b
<1>1. /\ work \in [DeliveryThread -> WorkType] /\ b \in Binding /\ work[t].pc # "idle"
      /\ UNCHANGED <<binding, object, live>>
      /\ \A u \in DeliveryThread \ {t} : work'[u] = work[u]
  BY BusyOn DEF ReleaseBinding, FailDelivery, Types, DeliveryTypes, requests, bindings
<1>2. \/ /\ work[t].pc = "release" /\ work'[t].pc = "idle"
         /\ inFlight' = inFlight \ {b} /\ overtaken' = overtaken
      \/ /\ work'[t].pc = "release" /\ work'[t].b = b
         /\ inFlight' = inFlight /\ overtaken' = overtaken \union {b}
  BY <1>1, StartTypes, ReleaseType DEF ReleaseBinding, FailDelivery, Types
<1> HIDE DEF b
<1>3. \A u \in DeliveryThread \ {t} : work[u].pc # "idle" => work[u].b # b
  BY <1>1 DEF Exclusive, b
<1>4. Exclusive'
  BY <1>1, <1>2, <1>3 DEF Exclusive, b
<1>5. Fresh' /\ CopyThere'
  BY <1>1, <1>2 DEF Fresh, CopyThere
<1>6. NextKept'
  BY <1>1, <1>2 DEF NextKept
<1>7. Recorded'
  <2> SUFFICES ASSUME NEW c \in Binding, c \notin overtaken', live, object[c] # <<>>
               PROVE  binding[c].exists /\ (binding[c].external # 0 \/ AboutToName(c)')
    BY <1>1 DEF Recorded
  <2>1. binding[c].exists /\ (binding[c].external # 0 \/ AboutToName(c))
    BY <1>2 DEF Recorded
  <2>2. AboutToName(c) => AboutToName(c)'
    BY <1>1, <1>2 DEF AboutToName, b
  <2> QED BY <2>1, <2>2
<1>8. OneObject'
  BY <1>1, <1>2 DEF OneObject
<1> QED BY <1>4, <1>5, <1>6, <1>7, <1>8

\* After a restart nobody delivers, and what was in flight is overtaken.
LEMMA Restarted ==
  ASSUME Types, DeliveryInv, Crash
  PROVE  DeliveryInv'
<1> USE DEF DeliveryInv
<1>1. /\ \A t \in DeliveryThread : work'[t].pc = "idle"
      /\ overtaken' = overtaken \union inFlight /\ UNCHANGED <<live, binding, object>>
  BY StartTypes DEF Crash
<1>2. Exclusive' /\ Fresh' /\ NextKept' /\ CopyThere' /\ OneObject'
  BY <1>1 DEF Exclusive, Fresh, NextKept, CopyThere, OneObject
<1>3. Recorded'
  BY <1>1 DEF Recorded, AboutToName, Exclusive
<1> QED BY <1>2, <1>3

-----------------------------------------------------------------------------
(* The theorem.                                                            *)

LEMMA DropOKInit == Init => DropOK
BY StartTypes DEF Init, DropOK

\* Who deletes the bindings found a DELETE in the feed, put there with the
\* deletion of the Request, which does not come back.
LEMMA DropOKNext == Types /\ DropOK /\ [Next]_vars => DropOK'
<1> SUFFICES ASSUME Types, DropOK, [Next]_vars, live' PROVE DropOK'
  BY DEF DropOK
<1> DEFINE NoDelete == \A i \in DOMAIN requestFeed : requestFeed[i] # "DELETE"
           NoDrop == \A t \in RequestThread : ensure[t].pc # "drop"
<1>1. requestFeed \in Seq({"PUT", "DELETE"}) /\ ensure \in [RequestThread -> EnsureType]
  BY DEF Types, RequestTypes, EnsureTypes
<1>2. NoEnsure.pc = "idle" /\ NoEnsure \in EnsureType
  BY StartTypes
<1>3. ASSUME NoDelete, NoDrop, requestFeed # <<>>, requestFeed' = Tail(requestFeed)
      PROVE  NoDelete'
  BY <1>1, <1>3
<1>4. ASSUME NoDelete, requestFeed' = Append(requestFeed, "PUT")
      PROVE  NoDelete'
  BY <1>1, <1>4, AppendProperties
<1>5. ASSUME NoDrop, NEW t \in RequestThread, NEW e \in EnsureType, e.pc # "drop",
             ensure' = [ensure EXCEPT ![t] = e]
      PROVE  NoDrop'
  BY <1>1, <1>5
<1>6. CASE UNCHANGED <<requests, ensure>>
  BY <1>6 DEF DropOK, requests
<1>7. CASE ChangeRequest \/ WriteBack
  <2>1. UNCHANGED <<live, ensure>> /\ requestFeed' = Append(requestFeed, "PUT")
    BY <1>7 DEF ChangeRequest, NewVersion, WriteBack
  <2>2. live /\ NoDelete /\ NoDrop
    BY <2>1 DEF DropOK
  <2> QED BY <2>1, <2>2, <1>4 DEF DropOK
<1>8. CASE TakeRequest
  <2>1. live /\ NoDelete /\ NoDrop
    BY <1>8 DEF TakeRequest, TakeRequestEvent, TakeDeletion, DropOK
  <2>2. TakeRequestEvent
    <3> SUFFICES ASSUME TakeDeletion PROVE FALSE
      BY <1>8 DEF TakeRequest
    <3> QED BY <1>1, <2>1 DEF TakeDeletion
  <2>3. NoDelete'
    BY <2>1, <2>2, <1>3 DEF TakeRequestEvent
  <2>4. ASSUME Read("request") PROVE NoDrop'
    BY <1>1, <1>2, <2>1, <2>4 DEF Read, RequestThread, EnsureType
  <2>5. NoDrop'
    BY <2>1, <2>2, <2>4 DEF TakeRequestEvent
  <2> QED BY <2>3, <2>5 DEF DropOK
<1>9. CASE TakeConfigEvent
  <2>1. live /\ NoDelete /\ NoDrop
    BY <1>9 DEF TakeConfigEvent, DropOK
  <2>2. NoDrop'
    BY <1>1, <1>2, <1>9, <2>1 DEF TakeConfigEvent, Read, RequestThread, EnsureType
  <2> QED BY <1>9, <2>1, <2>2 DEF TakeConfigEvent, DropOK, requests
<1>10. CASE Crash
  <2>1. live /\ NoDelete
    BY <1>10 DEF Crash, DropOK
  <2>2. NoDelete' /\ NoDrop'
    BY <1>2, <1>10, <2>1 DEF Crash
  <2> QED BY <2>2 DEF DropOK
<1>11. ASSUME NEW t \in RequestThread, Ensure(t) \/ FailEnsure(t)
      PROVE  DropOK'
  <2>1. UNCHANGED requests
    BY <1>11 DEF Ensure, FailEnsure, ListBindings, CreateBinding, UpdateDesired, DropBinding, DropDone
  <2>2. live /\ NoDelete /\ NoDrop
    BY <2>1 DEF DropOK, requests
  <2>3. ASSUME NEW create, NEW update, Go(t, create, update)
        PROVE  NoDrop'
    BY <1>1, <1>2, <2>2, <2>3 DEF Go, EnsureType
  <2>4. ASSUME ListBindings(t) PROVE NoDrop'
    BY <1>1, <1>2, <2>2, <2>4 DEF ListBindings, EnsureType
  <2>5. ASSUME NEW b \in Binding, CreateBinding(t, b) \/ UpdateDesired(t, b)
        PROVE  NoDrop'
    BY <2>3, <2>5 DEF CreateBinding, UpdateDesired
  <2>6. ASSUME DropDone(t) \/ FailEnsure(t) PROVE NoDrop'
    BY <1>2, <1>5, <2>2, <2>6 DEF DropDone, FailEnsure
  <2>7. ~ \E b \in Binding : DropBinding(t, b)
    BY <2>2 DEF DropBinding
  <2>8. NoDrop'
    BY <1>11, <2>4, <2>5, <2>6, <2>7 DEF Ensure
  <2> QED BY <2>1, <2>2, <2>8 DEF DropOK, requests
<1>12. ASSUME NEW t \in DeliveryThread, Reconcile(t) \/ DeliverFails(t) \/ FailDelivery(t)
      PROVE  UNCHANGED <<requests, ensure>>
  BY <1>12 DEF Reconcile, DeliverFails, FailDelivery, ReadRequest, Deliver, WriteStatus, ReleaseBinding
<1>13. ASSUME NEW b \in Binding, TakeEvent(b) \/ Elapse(b) \/ RecordEventID(b)
      PROVE  UNCHANGED <<requests, ensure>>
  BY <1>13 DEF TakeEvent, Elapse, RecordEventID
<1>14. CASE ListDue \/ TakeSwept \/ ToggleIntegration \/ UNCHANGED vars
  BY <1>6, <1>14 DEF ListDue, TakeSwept, ToggleIntegration, vars
<1>15. CASE DeleteRequest
  BY <1>15 DEF DeleteRequest
<1> QED BY <1>6, <1>7, <1>8, <1>9, <1>10, <1>11, <1>12, <1>13, <1>14, <1>15 DEF Next, Others

LEMMA DeliveryInvInit == Init => DeliveryInv
BY StartTypes, EmptySeq
   DEF Init, DeliveryInv, Exclusive, Fresh, NextKept, CopyThere, Recorded, OneObject

\* What one delivers stays the truth in every step.
LEMMA DeliveryInvNext ==
  ASSUME Types, DropOK, DeliveryInv, Next
  PROVE  DeliveryInv'
<1>1. CASE \/ ChangeRequest \/ WriteBack \/ DeleteRequest \/ ToggleIntegration
           \/ TakeRequest \/ TakeConfigEvent \/ ListDue
  <2>1. UNCHANGED <<binding, work, inFlight, object, overtaken>> /\ (live' => live)
    BY <1>1 DEF ChangeRequest, NewVersion, WriteBack, DeleteRequest, ToggleIntegration, TakeRequest,
                TakeRequestEvent, TakeDeletion, TakeConfigEvent, ListDue, requests, bindings, deliveries
  <2> QED BY <2>1, Quiet
<1>2. ASSUME NEW t \in RequestThread, ListBindings(t) \/ DropDone(t) \/ FailEnsure(t)
      PROVE  DeliveryInv'
  <2>1. UNCHANGED <<binding, work, inFlight, object, overtaken, live>>
    BY <1>2 DEF ListBindings, DropDone, FailEnsure, requests, bindings, deliveries
  <2> QED BY <2>1, Quiet
<1>3. ASSUME NEW t \in RequestThread, NEW b \in Binding, CreateBinding(t, b)
      PROVE  DeliveryInv'
  <2>1. UNCHANGED <<work, inFlight, object, overtaken, live>>
    BY <1>3 DEF CreateBinding, requests, deliveries
  <2>2. CASE binding[b].exists
    BY <1>3, <2>1, <2>2, Quiet DEF CreateBinding, bindings
  <2>3. CASE ~binding[b].exists
    <3>1. \A c \in Binding \ {b} : binding'[c] = binding[c]
      BY <1>3, <2>3 DEF CreateBinding, Put, Types, BindingTypes
    <3> QED BY <2>1, <2>3, <3>1, Created
  <2> QED BY <2>2, <2>3
<1>4. ASSUME NEW t \in RequestThread, NEW b \in Binding, UpdateDesired(t, b)
      PROVE  DeliveryInv'
  <2>1. UNCHANGED <<work, inFlight, object, live>>
    BY <1>4 DEF UpdateDesired, requests, deliveries
  <2>2. CASE UNCHANGED <<binding, overtaken>>
    BY <2>1, <2>2, Quiet
  <2>3. CASE ~UNCHANGED <<binding, overtaken>>
    <3>1. /\ Overtake(b) /\ binding[b].exists
          /\ binding' = [binding EXCEPT ![b] =
                           [binding[b] EXCEPT !.desired = ensure[t].rev, !.rv = @ + 1]]
      BY <1>4, <2>3 DEF UpdateDesired, Put, bindings
    <3>2. /\ binding'[b].exists /\ binding'[b].external = binding[b].external
          /\ \A c \in Binding \ {b} : binding'[c] = binding[c]
      BY <3>1 DEF Types, BindingTypes, BindingType
    <3> QED BY <2>1, <3>1, <3>2, WrittenByOther
  <2> QED BY <2>2, <2>3
<1>5. ASSUME NEW t \in RequestThread, NEW b \in Binding, DropBinding(t, b)
      PROVE  DeliveryInv'
  <2>1. ~live /\ UNCHANGED <<work, inFlight, object, live, overtaken>>
    BY <1>5 DEF DropBinding, DropOK, requests, deliveries
  <2> QED BY <2>1, WithoutRequest
<1>6. ASSUME NEW b \in Binding, RecordEventID(b)
      PROVE  DeliveryInv'
  <2>1. UNCHANGED <<work, inFlight, object, live>> /\ Overtake(b) /\ binding[b].exists
    BY <1>6 DEF RecordEventID, requests, deliveries
  <2>2. /\ binding'[b].exists /\ binding'[b].external = binding[b].external
        /\ \A c \in Binding \ {b} : binding'[c] = binding[c]
    BY <1>6, <2>1 DEF RecordEventID, Put, Types, BindingTypes, BindingType
  <2> QED BY <2>1, <2>2, WrittenByOther
<1>7. ASSUME NEW b \in Binding, Elapse(b)
      PROVE  DeliveryInv'
  <2>1. UNCHANGED <<work, inFlight, object, overtaken, live>>
    BY <1>7 DEF Elapse, requests, deliveries
  <2>2. \A c \in Binding : /\ binding'[c].exists = binding[c].exists
                           /\ binding'[c].rv = binding[c].rv
                           /\ binding'[c].external = binding[c].external
    BY <1>7 DEF Elapse, Types, BindingTypes, BindingType
  <2> QED BY <2>1, <2>2, Quiet
<1>8. ASSUME NEW b \in Binding, TakeEvent(b)
      PROVE  DeliveryInv'
  <2>1. /\ work["event"].pc = "idle" /\ Acquire("event", b) /\ "event" \in DeliveryThread
        /\ UNCHANGED <<binding, object, live, overtaken>>
    BY <1>8 DEF TakeEvent, requests, DeliveryThread
  <2> QED BY <2>1, Acquired
<1>9. CASE TakeSwept
  <2>1. PICK b \in swept : Acquire("sweep", b)
    BY <1>9 DEF TakeSwept
  <2>2. /\ work["sweep"].pc = "idle" /\ b \in Binding /\ "sweep" \in DeliveryThread
        /\ UNCHANGED <<binding, object, live, overtaken>>
    BY <1>9 DEF TakeSwept, requests, bindings, DeliveryThread, Types, DeliveryTypes
  <2> QED BY <2>1, <2>2, Acquired
<1>10. ASSUME NEW t \in DeliveryThread, Reconcile(t) \/ DeliverFails(t) \/ FailDelivery(t)
       PROVE  DeliveryInv'
  BY <1>10, RequestRead, DeliveryDone, StatusWritten, Released, DeliveryFailed DEF Reconcile
<1>11. CASE Crash
  BY <1>11, Restarted
<1> QED BY <1>1, <1>2, <1>3, <1>4, <1>5, <1>6, <1>7, <1>8, <1>9, <1>10, <1>11 DEF Next, Others, Ensure

LEMMA IInvInit == Init => IInv
BY TypesInit, DropOKInit, DeliveryInvInit DEF IInv

LEMMA IInvNext == IInv /\ [Next]_vars => IInv'
<1> SUFFICES ASSUME Types, DropOK, DeliveryInv, [Next]_vars PROVE IInv'
  BY DEF IInv
<1>1. Types' /\ DropOK'
  BY TypesNext, DropOKNext
<1>2. ASSUME UNCHANGED vars PROVE DeliveryInv'
  <2>1. UNCHANGED <<work, inFlight, object, overtaken, live, binding>>
    BY <1>2 DEF vars, requests, bindings, deliveries
  <2> QED BY <2>1, Quiet
<1>3. ASSUME Next PROVE DeliveryInv'
  BY <1>3, DeliveryInvNext
<1> QED BY <1>1, <1>2, <1>3 DEF IInv

\* A binding gets one external object however the goroutines that deliver it
\* interleave, unless a delivery of it failed, was cut short or was overtaken
\* by another write of the binding.
THEOREM OneObjectCorrect == Spec => []OneObject
<1>1. IInv => OneObject
  BY DEF IInv, DeliveryInv
<1> QED BY <1>1, IInvInit, IInvNext, PTL DEF Spec

-----------------------------------------------------------------------------
(* What a binding claims of its object, without any exception: also for a  *)
(* delivery that failed, was cut short or overtaken.  A copy of a binding  *)
(* claims nothing that is not so, and what is about to be delivered is no  *)
(* older than what any object shows, since nobody else delivers.           *)

Claims(shown, item) ==
  /\ item.external # 0 => item.external <= Len(shown) /\ shown[item.external] >= item.applied
  /\ item.state = "READY" => item.external # 0

ShowsAtMost(shown, rev) == \A i \in DOMAIN shown : shown[i] <= rev

\* The objects are all there as they were or show something newer.
Grows(old, new) ==
  /\ Len(new) >= Len(old)
  /\ \A i \in DOMAIN old : new[i] >= old[i]

CopiesClaim ==
  \A t \in DeliveryThread : LET w == work[t] IN
    /\ w.pc \in {"request", "deliver", "write"} => Claims(object[w.b], w.item)
    /\ w.pc \in {"deliver", "write"} => Claims(object[w.b], w.next)

\* What is delivered is not older than what is shown.
NewestDelivered ==
  /\ \A b \in Binding : ShowsAtMost(object[b], Revision)
  /\ \A t \in DeliveryThread : LET w == work[t] IN
       w.pc = "deliver" => w.next.desired <= Revision /\ ShowsAtMost(object[w.b], w.next.desired)

ClaimsInv == NeverOverclaims /\ CopiesClaim /\ NewestDelivered

LEMMA NeverOverclaimsIs == NeverOverclaims <=> \A b \in Binding : Claims(object[b], binding[b])
BY DEF NeverOverclaims, Claims

\* What was claimed remains true.
LEMMA ClaimsKept ==
  ASSUME NEW old \in Seq(Nat), NEW new \in Seq(Nat), Grows(old, new),
         NEW item \in BindingType, Claims(old, item)
  PROVE  Claims(new, item)
<1>1. item.external \in Nat /\ item.applied \in Nat
  BY DEF BindingType
<1>2. /\ Len(old) \in Nat /\ Len(new) \in Nat
      /\ DOMAIN old = 1 .. Len(old) /\ DOMAIN new = 1 .. Len(new)
  OBVIOUS
<1>3. CASE item.external = 0
  BY <1>3 DEF Claims
<1>4. CASE item.external # 0
  <2>1. item.external <= Len(old) /\ old[item.external] >= item.applied
    BY <1>4 DEF Claims
  <2>2. item.external \in DOMAIN old /\ item.external \in DOMAIN new
    BY <1>1, <1>2, <1>4, <2>1 DEF Grows
  <2>3. old[item.external] \in Nat /\ new[item.external] \in Nat
    BY <1>2, <2>2, ElementOfSeq
  <2>4. item.external <= Len(new) /\ new[item.external] >= item.applied
    BY <1>1, <1>2, <2>1, <2>2, <2>3 DEF Grows
  <2> QED BY <1>4, <2>4 DEF Claims
<1> QED BY <1>3, <1>4

\* So do the bounds.
LEMMA ShowsAtMostKept ==
  ASSUME NEW shown \in Seq(Nat), NEW old \in Nat, NEW new \in Nat, old <= new,
         ShowsAtMost(shown, old)
  PROVE  ShowsAtMost(shown, new)
<1>1. \A i \in DOMAIN shown : shown[i] \in Nat
  BY ElementOfSeq
<1> QED BY <1>1 DEF ShowsAtMost

\* The Request only gets newer.
LEMMA RevisionGrows ==
  ASSUME RequestTypes, [Next]_vars
  PROVE  Revision \in Nat /\ Revision' \in Nat /\ Revision' >= Revision
<1>1. versions \in Seq(VersionType) /\ Revision \in Nat
  BY DEF RequestTypes, Revision
<1>2. CASE UNCHANGED versions
  BY <1>1, <1>2 DEF Revision
<1>3. ASSUME NEW status, NEW step, NewVersion(status, step)
      PROVE  Revision' = Revision + 1
  BY <1>1, <1>3, AppendProperties DEF NewVersion, Revision
<1>4. CASE ChangeRequest
  BY <1>1, <1>3, <1>4 DEF ChangeRequest
<1>5. CASE ~ChangeRequest /\ Next
  <2>1. UNCHANGED versions
    BY <1>5 DEF Next, Others, WriteBack, DeleteRequest, ToggleIntegration, TakeConfigEvent, Crash,
                RecordEventID, FailEnsure, DeliverFails, FailDelivery, TakeRequest, TakeRequestEvent,
                TakeDeletion, ListDue, TakeSwept, Ensure, ListBindings, CreateBinding, UpdateDesired,
                DropBinding, DropDone, Reconcile, ReadRequest, Deliver, WriteStatus, ReleaseBinding,
                TakeEvent, Elapse, requests
  <2> QED BY <2>1, <1>2
<1> QED BY <1>2, <1>4, <1>5 DEF vars, requests

\* The objects are left alone, what is written of a binding is true, and a
\* delivery takes what is stored, lets go or goes on with its copy: its
\* claims are true, and if it is going to deliver, then the newest version.
LEMMA ClaimsOn ==
  ASSUME Types, Types', ClaimsInv, [Next]_vars, UNCHANGED object,
         \A b \in Binding : Claims(object[b], binding[b]) => Claims(object[b], binding'[b]),
         \A t \in DeliveryThread : LET w == work'[t] IN
           \/ w = work[t]
           \/ /\ w.pc \in {"request", "deliver", "write"} => Claims(object[w.b], w.item)
              /\ w.pc \in {"deliver", "write"} => Claims(object[w.b], w.next)
              /\ w.pc = "deliver" => w.next.desired = Revision
  PROVE  ClaimsInv'
<1> USE DEF ClaimsInv
<1>1. NeverOverclaims'
  BY NeverOverclaimsIs DEF NeverOverclaims, Claims
<1>2. CopiesClaim'
  BY DEF CopiesClaim
<1>3. Revision \in Nat /\ Revision' \in Nat /\ Revision' >= Revision
  BY RevisionGrows DEF Types
<1>4. object \in [Binding -> Seq(Nat)] /\ work \in [DeliveryThread -> WorkType]
      /\ work' \in [DeliveryThread -> WorkType]
  BY DEF Types, DeliveryTypes
<1>5. \A b \in Binding : ShowsAtMost(object[b], Revision) /\ ShowsAtMost(object[b], Revision')
  BY <1>3, <1>4, ShowsAtMostKept DEF NewestDelivered
<1>6. ASSUME NEW t \in DeliveryThread, work'[t].pc = "deliver"
      PROVE  /\ work'[t].next.desired <= Revision'
             /\ ShowsAtMost(object[work'[t].b], work'[t].next.desired)
  <2>1. work'[t].b \in Binding /\ work'[t].next.desired \in Nat
    BY <1>4 DEF WorkType, BindingType
  <2>2. CASE work'[t] = work[t]
    BY <1>3, <1>6, <2>1, <2>2 DEF NewestDelivered
  <2>3. CASE work'[t] # work[t]
    <3>1. work'[t].next.desired = Revision
      BY <1>6, <2>3
    <3> QED BY <1>3, <1>5, <2>1, <3>1
  <2> QED BY <2>2, <2>3
<1>7. NewestDelivered'
  BY <1>5, <1>6 DEF NewestDelivered
<1> QED BY <1>1, <1>2, <1>7

\* A delivery of a version that is not older than what is shown creates an
\* object that shows it, or makes the one it names show it, or does nothing.
LEMMA DeliveredGrows ==
  ASSUME DeliveryTypes, NEW b \in Binding, NEW external \in Nat, NEW rev \in Nat,
         ShowsAtMost(object[b], rev), external <= Len(object[b]),
         NEW new, new = Delivered(b, external, rev)
  PROVE  /\ Grows(object[b], new) /\ ShowsAtMost(new, rev)
         /\ external # 0 => external <= Len(new) /\ new[external] = rev
         /\ external = 0 /\ ~(b \in Surface /\ Closing(b, rev)) =>
              new # object[b] /\ Len(new) # 0 /\ new[Len(new)] = rev
<1> DEFINE old == object[b]
<1>1. old \in Seq(Nat) /\ Len(old) \in Nat /\ DOMAIN old = 1 .. Len(old)
  BY DEF DeliveryTypes
<1>2. \A i \in DOMAIN old : old[i] \in Nat /\ old[i] <= rev
  BY <1>1, ElementOfSeq DEF ShowsAtMost
<1>3. CASE external = 0 /\ ~(b \in Surface /\ Closing(b, rev))
  <2>1. new = Append(old, rev)
    BY <1>3 DEF Delivered
  <2> HIDE DEF old
  <2>2. /\ new \in Seq(Nat) /\ Len(new) = Len(old) + 1 /\ DOMAIN new = 1 .. Len(old) + 1
        /\ \A i \in 1 .. Len(old) : new[i] = old[i]
        /\ new[Len(old) + 1] = rev
    BY <1>1, <2>1, AppendProperties
  <2>3. \A i \in DOMAIN old : new[i] >= old[i]
    BY <1>1, <1>2, <2>2
  <2>4. \A i \in DOMAIN new : new[i] <= rev
    BY <1>1, <1>2, <2>2
  <2>5. new # old /\ Len(new) # 0 /\ Len(new) >= Len(old) /\ new[Len(new)] = rev
    BY <1>1, <2>2
  <2> QED BY <1>3, <2>3, <2>4, <2>5 DEF Grows, ShowsAtMost, old
<1>4. CASE external = 0 /\ b \in Surface /\ Closing(b, rev)
  <2>1. new = old
    BY <1>4 DEF Delivered
  <2>2. \A i \in DOMAIN old : new[i] >= old[i]
    BY <1>2, <2>1
  <2> QED BY <1>1, <1>2, <1>4, <2>1, <2>2 DEF Grows, ShowsAtMost
<1>5. CASE external # 0
  <2>1. new = [old EXCEPT ![external] = rev]
    BY <1>5 DEF Delivered
  <2>2. external \in DOMAIN old
    BY <1>1, <1>5
  <2> HIDE DEF old
  <2>3. /\ DOMAIN new = DOMAIN old /\ new[external] = rev
        /\ \A i \in DOMAIN old \ {external} : new[i] = old[i]
    BY <2>1, <2>2
  <2>4. new \in Seq(Nat) /\ Len(new) = Len(old)
    BY <1>1, <2>1, <2>2, ExceptSeq
  <2>5. \A i \in DOMAIN old : new[i] >= old[i] /\ new[i] <= rev
    BY <1>2, <2>3
  <2> QED BY <1>1, <1>5, <2>3, <2>4, <2>5 DEF Grows, ShowsAtMost, old
<1> QED BY <1>3, <1>4, <1>5

\* A delivery with or without effect: the objects of other bindings are as
\* they were, those of this one only grow, and what the delivery records of
\* them is true.
LEMMA ClaimsDelivered ==
  ASSUME Types, Types', Exclusive, ClaimsInv, NEW t \in DeliveryThread,
         work[t].pc = "deliver", work'[t].pc = "write",
         work'[t].b = work[t].b, work'[t].item = work[t].item,
         UNCHANGED <<binding, versions>>,
         \A u \in DeliveryThread \ {t} : work'[u] = work[u],
         \A c \in Binding \ {work[t].b} : object'[c] = object[c],
         Grows(object[work[t].b], object'[work[t].b]),
         ShowsAtMost(object'[work[t].b], work[t].next.desired),
         Claims(object'[work[t].b], work'[t].next)
  PROVE  ClaimsInv' /\ \A c \in Binding : Grows(object[c], object'[c])
<1> USE DEF ClaimsInv
<1>1. /\ work \in [DeliveryThread -> WorkType] /\ DeliveryTypes /\ DeliveryTypes'
      /\ work[t].b \in Binding /\ work[t].next.desired \in Nat
      /\ binding \in [Binding -> BindingType]
      /\ object \in [Binding -> Seq(Nat)] /\ object' \in [Binding -> Seq(Nat)]
  BY DEF Types, DeliveryTypes, BindingTypes, WorkType, BindingType
<1>2. ASSUME NEW c \in Binding PROVE Grows(object[c], object'[c])
  <2>1. CASE c = work[t].b
    BY <2>1
  <2>2. CASE c # work[t].b
    <3>1. object'[c] = object[c] /\ object[c] \in Seq(Nat)
      BY <1>1, <2>2
    <3>2. \A i \in DOMAIN object[c] : object[c][i] \in Nat
      BY <3>1, ElementOfSeq
    <3> QED BY <3>1, <3>2 DEF Grows
  <2> QED BY <2>1, <2>2
<1>3. ASSUME NEW c \in Binding, NEW item \in BindingType, Claims(object[c], item)
      PROVE  Claims(object'[c], item)
  BY <1>1, <1>2, <1>3, ClaimsKept
<1>4. NeverOverclaims'
  <2>1. \A c \in Binding : Claims(object'[c], binding[c])
    BY <1>1, <1>3, NeverOverclaimsIs
  <2> QED BY <2>1 DEF NeverOverclaims, Claims
<1>5. \A u \in DeliveryThread \ {t} : work[u].pc # "idle" => work[u].b # work[t].b
  BY DEF Exclusive
<1>6. CopiesClaim'
  <2> SUFFICES ASSUME NEW u \in DeliveryThread
               PROVE  LET w == work'[u] IN
                        /\ w.pc \in {"request", "deliver", "write"} => Claims(object'[w.b], w.item)
                        /\ w.pc \in {"deliver", "write"} => Claims(object'[w.b], w.next)
    BY DEF CopiesClaim
  <2>1. /\ work[u].b \in Binding /\ work[u].item \in BindingType /\ work[u].next \in BindingType
    BY <1>1 DEF WorkType
  <2>2. /\ work[u].pc \in {"request", "deliver", "write"} => Claims(object[work[u].b], work[u].item)
        /\ work[u].pc \in {"deliver", "write"} => Claims(object[work[u].b], work[u].next)
    BY DEF CopiesClaim
  <2>3. CASE u = t
    BY <1>3, <2>1, <2>2, <2>3
  <2>4. CASE u # t
    BY <1>3, <2>1, <2>2, <2>4
  <2> QED BY <2>3, <2>4
<1>7. UNCHANGED Revision /\ Revision \in Nat
  BY RevisionType DEF Revision, Types
<1>8. NewestDelivered'
  <2>1. work[t].next.desired <= Revision
    BY DEF NewestDelivered
  <2>2. ASSUME NEW c \in Binding PROVE ShowsAtMost(object'[c], Revision)
    <3>1. CASE c = work[t].b
      BY <1>1, <1>7, <2>1, <3>1, ShowsAtMostKept
    <3>2. CASE c # work[t].b
      BY <3>2 DEF NewestDelivered
    <3> QED BY <3>1, <3>2
  <2>3. ASSUME NEW u \in DeliveryThread, work'[u].pc = "deliver"
        PROVE  /\ work'[u].next.desired <= Revision
               /\ ShowsAtMost(object'[work'[u].b], work'[u].next.desired)
    <3>1. u # t /\ work'[u] = work[u] /\ work[u].b # work[t].b /\ work[u].b \in Binding
      BY <1>1, <1>5, <2>3 DEF WorkType
    <3> QED BY <2>3, <3>1 DEF NewestDelivered
  <2> QED BY <1>7, <2>2, <2>3 DEF NewestDelivered
<1> QED BY <1>2, <1>4, <1>6, <1>8

LEMMA ClaimsInvInit == Init => ClaimsInv
<1> SUFFICES ASSUME Init PROVE ClaimsInv
  OBVIOUS
<1>1. /\ object = [b \in Binding |-> <<>>]
      /\ \A b \in Binding : binding[b].external = 0 /\ binding[b].state = "PENDING"
  BY DEF Init, NoBinding, NewBinding
<1>2. NeverOverclaims
  BY <1>1 DEF NeverOverclaims
<1>3. \A t \in DeliveryThread : work[t].pc = "idle"
  BY StartTypes DEF Init
<1>4. \A b \in Binding : ShowsAtMost(object[b], Revision)
  BY <1>1 DEF ShowsAtMost
<1> QED BY <1>2, <1>3, <1>4 DEF ClaimsInv, CopiesClaim, NewestDelivered

\* What is claimed does not depend on the rest of a binding.
LEMMA SameClaims ==
  ASSUME NEW shown, NEW old, NEW new, Claims(shown, old), new.external = old.external,
         new.applied = old.applied, new.state = old.state
  PROVE  Claims(shown, new)
BY DEF Claims

LEMMA ObjectsGrow ==
  ASSUME Types, UNCHANGED object
  PROVE  \A b \in Binding : Grows(object[b], object'[b])
<1> SUFFICES ASSUME NEW b \in Binding PROVE Grows(object[b], object'[b])
  OBVIOUS
<1>1. object[b] \in Seq(Nat)
  BY DEF Types, DeliveryTypes
<1>2. \A i \in DOMAIN object[b] : object[b][i] \in Nat
  BY <1>1, ElementOfSeq
<1> QED BY <1>1, <1>2 DEF Grows

\* Who writes a binding and does not deliver it leaves its claims, or has it
\* claim nothing.
LEMMA WrittenClaims ==
  ASSUME Types, Types', ClaimsInv, [Next]_vars, NEW b \in Binding,
         \/ \E t \in RequestThread : CreateBinding(t, b) \/ UpdateDesired(t, b) \/ DropBinding(t, b)
         \/ RecordEventID(b) \/ Elapse(b)
  PROVE  ClaimsInv' /\ UNCHANGED object
<1>1. UNCHANGED <<work, object>>
  BY DEF CreateBinding, UpdateDesired, DropBinding, RecordEventID, Elapse, deliveries
<1>2. binding \in [Binding -> BindingType]
  BY DEF Types, BindingTypes
<1>3. \/ UNCHANGED binding
      \/ \E rev, rv : binding' = [binding EXCEPT ![b] = [NewBinding(rev) EXCEPT !.rv = rv]]
      \/ \E rev : binding' = [binding EXCEPT ![b] = [binding[b] EXCEPT !.desired = rev, !.rv = @ + 1]]
      \/ \E exists : binding' = [binding EXCEPT ![b] = [binding[b] EXCEPT !.exists = exists]]
      \/ \E rv : binding' = [binding EXCEPT ![b] = [binding[b] EXCEPT !.rv = rv]]
      \/ \E waiting : binding' = [binding EXCEPT ![b] = [binding[b] EXCEPT !.waiting = waiting]]
  BY DEF CreateBinding, UpdateDesired, DropBinding, RecordEventID, Elapse, Put, bindings
<1> DEFINE NoClaim(item) == item.external = 0 /\ item.state # "READY"
           Same(item) == item.external = binding[b].external /\ item.applied = binding[b].applied
                           /\ item.state = binding[b].state
<1>4. /\ \A c \in Binding \ {b} : binding'[c] = binding[c]
      /\ NoClaim(binding'[b]) \/ Same(binding'[b])
  <2>1. binding[b] \in BindingType
    BY <1>2
  <2>2. \A rev, rv : NoClaim([NewBinding(rev) EXCEPT !.rv = rv])
    BY DEF NewBinding
  <2>3. \A rev : Same([binding[b] EXCEPT !.desired = rev, !.rv = @ + 1])
    BY <2>1 DEF BindingType
  <2>4. \A e : /\ Same([binding[b] EXCEPT !.exists = e]) /\ Same([binding[b] EXCEPT !.rv = e])
               /\ Same([binding[b] EXCEPT !.waiting = e])
    BY <2>1 DEF BindingType
  <2>5. Same(binding[b])
    OBVIOUS
  <2> HIDE DEF NoClaim, Same
  <2>6. CASE UNCHANGED binding
    BY <2>5, <2>6
  <2>7. ASSUME ~UNCHANGED binding
        PROVE  \E item : binding' = [binding EXCEPT ![b] = item] /\ (NoClaim(item) \/ Same(item))
    BY <1>3, <2>2, <2>3, <2>4, <2>7, Zenon
  <2>8. ASSUME NEW item, binding' = [binding EXCEPT ![b] = item]
        PROVE  binding'[b] = item /\ \A c \in Binding \ {b} : binding'[c] = binding[c]
    BY <1>2, <2>8
  <2> QED BY <2>6, <2>7, <2>8
<1>5. \A c \in Binding : Claims(object[c], binding[c]) => Claims(object[c], binding'[c])
  BY <1>4 DEF Claims
<1> HIDE DEF NoClaim, Same
<1> QED BY <1>1, <1>5, ClaimsOn

\* A delivery that starts copies what is stored.
LEMMA AcquiredClaims ==
  ASSUME Types, Types', ClaimsInv, [Next]_vars, NEW t \in DeliveryThread, NEW b \in Binding,
         Acquire(t, b), UNCHANGED <<binding, object>>
  PROVE  ClaimsInv'
<1>1. CASE UNCHANGED work
  BY <1>1, ClaimsOn
<1>2. CASE Start(t, b)
  <2>1. work \in [DeliveryThread -> WorkType]
    BY DEF Types, DeliveryTypes
  <2>2. /\ \A u \in DeliveryThread \ {t} : work'[u] = work[u]
        /\ work'[t].pc = "request" /\ work'[t].b = b /\ work'[t].item = binding[b]
    BY <1>2, <2>1, StartTypes DEF Start, WorkType
  <2>3. Claims(object[b], binding[b])
    BY NeverOverclaimsIs DEF ClaimsInv
  <2> QED BY <2>2, <2>3, ClaimsOn
<1> QED BY <1>1, <1>2 DEF Acquire

\* What is going to be delivered or written names the object of the copy, and
\* is the Request as it is.
LEMMA ReadClaims ==
  ASSUME Types, Types', ClaimsInv, [Next]_vars, NEW t \in DeliveryThread, ReadRequest(t)
  PROVE  ClaimsInv' /\ UNCHANGED object
<1> DEFINE item == work[t].item
           wanted == [item EXCEPT !.desired = Revision]
<1>1. /\ work \in [DeliveryThread -> WorkType] /\ work[t] \in WorkType /\ work[t].pc = "request"
      /\ item \in BindingType /\ UNCHANGED <<binding, object>>
  BY DEF Types, DeliveryTypes, ReadRequest, WorkType, bindings
<1>2. Claims(object[work[t].b], item)
  BY <1>1 DEF ClaimsInv, CopiesClaim
<1>3. wanted.desired = Revision /\ Claims(object[work[t].b], wanted)
  BY <1>1, <1>2, SameClaims DEF BindingType
<1>4. \/ work' = [work EXCEPT ![t] = Release(t)]
      \/ work' = [work EXCEPT ![t] = [work[t] EXCEPT !.pc = "deliver", !.next = wanted]]
      \/ work' = [work EXCEPT ![t] = [work[t] EXCEPT !.pc = "write", !.next = wanted]]
  BY DEF ReadRequest
<1>5. Release(t).pc = "release"
  BY ReleaseType DEF Types
<1> HIDE DEF item, wanted
<1>6. \/ work'[t].pc = "release"
      \/ /\ work'[t].pc \in {"deliver", "write"} /\ work'[t].b = work[t].b
         /\ work'[t].item = item /\ work'[t].next = wanted
  <2>1. CASE work' = [work EXCEPT ![t] = Release(t)]
    BY <1>1, <1>5, <2>1
  <2>2. ASSUME NEW pc, work' = [work EXCEPT ![t] = [work[t] EXCEPT !.pc = pc, !.next = wanted]]
        PROVE  /\ work'[t].pc = pc /\ work'[t].b = work[t].b
               /\ work'[t].item = item /\ work'[t].next = wanted
    BY <1>1, <2>2 DEF WorkType, item
  <2> QED BY <1>4, <2>1, <2>2
<1>7. \A u \in DeliveryThread \ {t} : work'[u] = work[u]
  BY <1>1, <1>4
<1> QED BY <1>1, <1>2, <1>3, <1>6, <1>7, ClaimsOn

\* What is written is what the delivery knows.
LEMMA WriteClaims ==
  ASSUME Types, Types', ClaimsInv, [Next]_vars, NEW t \in DeliveryThread, WriteStatus(t)
  PROVE  ClaimsInv' /\ UNCHANGED object
<1> DEFINE b == work[t].b
           next == work[t].next
           rv == work[t].item.rv
<1>1. /\ work \in [DeliveryThread -> WorkType] /\ binding \in [Binding -> BindingType]
      /\ work[t].pc = "write" /\ next \in BindingType /\ UNCHANGED object
      /\ work' = [work EXCEPT ![t] = Release(t)]
  BY DEF Types, DeliveryTypes, BindingTypes, WriteStatus, WorkType
<1>2. Claims(object[b], next)
  BY <1>1 DEF ClaimsInv, CopiesClaim
<1>3. UNCHANGED binding \/ binding' = [binding EXCEPT ![b] = [next EXCEPT !.rv = rv + 1]]
  BY DEF WriteStatus, Put, bindings
<1> HIDE DEF b, next, rv
<1>4. Claims(object[b], [next EXCEPT !.rv = rv + 1])
  BY <1>1, <1>2, SameClaims DEF BindingType
<1>5. \A c \in Binding : Claims(object[c], binding[c]) => Claims(object[c], binding'[c])
  BY <1>1, <1>3, <1>4
<1>6. work'[t].pc = "release" /\ \A u \in DeliveryThread \ {t} : work'[u] = work[u]
  BY <1>1, ReleaseType DEF Types
<1> QED BY <1>1, <1>5, <1>6, ClaimsOn

\* A delivery that ends claims nothing any more.
LEMMA EndedClaims ==
  ASSUME Types, Types', ClaimsInv, [Next]_vars,
         Crash \/ \E t \in DeliveryThread : ReleaseBinding(t) \/ FailDelivery(t)
  PROVE  ClaimsInv' /\ UNCHANGED object
<1>1. UNCHANGED <<binding, object>>
  BY DEF Crash, ReleaseBinding, FailDelivery, bindings
<1>2. work \in [DeliveryThread -> WorkType]
  BY DEF Types, DeliveryTypes
<1>3. CASE Crash
  <2>1. \A t \in DeliveryThread : work'[t].pc = "idle"
    BY <1>3, StartTypes DEF Crash
  <2> QED BY <1>1, <2>1, ClaimsOn
<1>4. ASSUME NEW t \in DeliveryThread, ReleaseBinding(t) \/ FailDelivery(t)
      PROVE  ClaimsInv'
  <2>1. work'[t].pc \in {"idle", "release"} /\ \A u \in DeliveryThread \ {t} : work'[u] = work[u]
    BY <1>2, <1>4, StartTypes, ReleaseType DEF ReleaseBinding, FailDelivery, Types
  <2> QED BY <1>1, <2>1, ClaimsOn
<1> QED BY <1>1, <1>3, <1>4

\* What a delivery records is what it did, whether it knows of it or not.
LEMMA DeliverClaims ==
  ASSUME Types, Types', Exclusive, ClaimsInv, NEW t \in DeliveryThread,
         Deliver(t) \/ DeliverFails(t)
  PROVE  ClaimsInv' /\ \A b \in Binding : Grows(object[b], object'[b])
<1> DEFINE b == work[t].b
           next == work[t].next
           old == object[b]
           new == Delivered(b, next.external, next.desired)
           made == IF next.external = 0 /\ new # old THEN Len(new) ELSE next.external
           told == [next EXCEPT !.state = Goal(b, next.desired), !.applied = next.desired,
                                !.external = made]
<1>1. /\ work \in [DeliveryThread -> WorkType] /\ work[t] \in WorkType /\ work[t].pc = "deliver"
      /\ b \in Binding /\ next \in BindingType
      /\ object \in [Binding -> Seq(Nat)] /\ old \in Seq(Nat) /\ DeliveryTypes
      /\ UNCHANGED <<binding, versions>>
  BY DEF Types, DeliveryTypes, Deliver, DeliverFails, WorkType, requests, bindings
<1>2. /\ next.external \in Nat /\ next.desired \in Nat /\ next.applied \in Nat
      /\ Len(old) \in Nat
  BY <1>1 DEF BindingType
<1>3. Claims(old, next) /\ ShowsAtMost(old, next.desired)
  BY <1>1 DEF ClaimsInv, CopiesClaim, NewestDelivered
<1>4. next.external <= Len(old)
  BY <1>2, <1>3 DEF Claims
<1>5. /\ Grows(old, new) /\ ShowsAtMost(new, next.desired)
      /\ next.external # 0 => next.external <= Len(new) /\ new[next.external] = next.desired
      /\ next.external = 0 /\ ~(b \in Surface /\ Closing(b, next.desired)) =>
           new # old /\ Len(new) # 0 /\ new[Len(new)] = next.desired
  <2> HIDE DEF b, next, new
  <2> QED BY <1>1, <1>2, <1>3, <1>4, DeliveredGrows DEF old, new
<1>6. new \in Seq(Nat) /\ Len(new) \in Nat
  <2> HIDE DEF b, next
  <2> QED BY <1>1, <1>2, DeliveredType
<1>7. CASE Deliver(t)
  <2>1. /\ object' = [object EXCEPT ![b] = new]
        /\ work' = [work EXCEPT ![t].pc = "write", ![t].next = told]
    BY <1>7 DEF Deliver
  <2>2. /\ object'[b] = new /\ \A c \in Binding \ {b} : object'[c] = object[c]
        /\ \A u \in DeliveryThread \ {t} : work'[u] = work[u]
    BY <1>1, <2>1
  <2>3. /\ work'[t].pc = "write" /\ work'[t].b = work[t].b /\ work'[t].item = work[t].item
        /\ work'[t].next = told
    <3> HIDE DEF told, b, new
    <3> QED BY <1>1, <2>1 DEF WorkType
  <2>4. told.external = made /\ told.applied = next.desired /\ told.state = Goal(b, next.desired)
    <3> HIDE DEF made, b
    <3> QED BY <1>1 DEF BindingType
  <2>5. new = old \/ next.external # 0 \/ new[Len(new)] = next.desired
    BY <1>2, <1>5 DEF Delivered
  <2>6. Goal(b, next.desired) = "READY" => ~Closing(b, next.desired)
    BY DEF Goal
  <2> HIDE DEF new, old, b, next
  <2>7. made # 0 => made <= Len(new) /\ new[made] >= next.desired
    BY <1>2, <1>5, <1>6, <2>5
  <2>8. Goal(b, next.desired) = "READY" => made # 0
    BY <1>5, <2>6
  <2>9. Claims(new, told)
    <3> HIDE DEF told, made
    <3> QED BY <2>4, <2>7, <2>8 DEF Claims
  <2> HIDE DEF told
  <2> QED BY <1>1, <1>5, <2>2, <2>3, <2>9, ClaimsDelivered DEF b, next, old
<1>8. CASE DeliverFails(t)
  <2>1. /\ object' \in {object, [object EXCEPT ![b] = new]}
        /\ work' = [work EXCEPT ![t].pc = "write", ![t].next = Failed(next)]
    BY <1>8 DEF DeliverFails
  <2>2. /\ object'[b] \in {old, new} /\ \A c \in Binding \ {b} : object'[c] = object[c]
        /\ \A u \in DeliveryThread \ {t} : work'[u] = work[u]
    <3> HIDE DEF new
    <3> QED BY <1>1, <2>1
  <2>3. /\ work'[t].pc = "write" /\ work'[t].b = work[t].b /\ work'[t].item = work[t].item
        /\ work'[t].next = Failed(next)
    <3> HIDE DEF b, next, new
    <3> QED BY <1>1, <2>1 DEF WorkType
  <2>4. /\ Failed(next) \in BindingType /\ Failed(next).external = next.external
        /\ Failed(next).applied = next.applied /\ Failed(next).state # "READY"
    <3> HIDE DEF next
    <3> QED BY <1>1, FailedType DEF Failed, BindingType
  <2>5. Grows(old, old)
    BY <1>1, ElementOfSeq DEF Grows
  <2> HIDE DEF new, old, b, next
  <2>6. Claims(old, Failed(next))
    BY <1>3, <2>4 DEF Claims
  <2>7. Claims(new, Failed(next))
    BY <1>1, <1>5, <1>6, <2>4, <2>6, ClaimsKept
  <2> QED BY <1>1, <1>3, <1>5, <2>2, <2>3, <2>5, <2>6, <2>7, ClaimsDelivered DEF b, next, old
<1> QED BY <1>7, <1>8

LEMMA ClaimsInvNext ==
  ASSUME Types, Types', Exclusive, ClaimsInv, [Next]_vars
  PROVE  ClaimsInv' /\ \A b \in Binding : Grows(object[b], object'[b])
<1>1. CASE \/ ChangeRequest \/ WriteBack \/ DeleteRequest \/ ToggleIntegration
           \/ TakeRequest \/ TakeConfigEvent \/ ListDue \/ UNCHANGED vars
           \/ \E t \in RequestThread : ListBindings(t) \/ DropDone(t) \/ FailEnsure(t)
  <2>1. UNCHANGED <<binding, work, object>>
    BY <1>1 DEF ChangeRequest, NewVersion, WriteBack, DeleteRequest, ToggleIntegration, TakeRequest,
                TakeRequestEvent, TakeDeletion, TakeConfigEvent, ListDue, ListBindings, DropDone,
                FailEnsure, vars, bindings, deliveries
  <2> QED BY <2>1, ClaimsOn, ObjectsGrow
<1>2. ASSUME NEW b \in Binding,
             \/ \E t \in RequestThread : CreateBinding(t, b) \/ UpdateDesired(t, b) \/ DropBinding(t, b)
             \/ RecordEventID(b) \/ Elapse(b)
      PROVE  ClaimsInv' /\ \A c \in Binding : Grows(object[c], object'[c])
  BY <1>2, WrittenClaims, ObjectsGrow
<1>3. ASSUME NEW b \in Binding, TakeEvent(b)
      PROVE  ClaimsInv' /\ \A c \in Binding : Grows(object[c], object'[c])
  <2>1. Acquire("event", b) /\ "event" \in DeliveryThread /\ UNCHANGED <<binding, object>>
    BY <1>3 DEF TakeEvent, DeliveryThread
  <2> QED BY <2>1, AcquiredClaims, ObjectsGrow
<1>4. CASE TakeSwept
  <2>1. \E b \in swept : Acquire("sweep", b)
    BY <1>4 DEF TakeSwept
  <2>2. PICK b \in swept : Acquire("sweep", b)
    BY <2>1
  <2>3. b \in Binding /\ "sweep" \in DeliveryThread /\ UNCHANGED <<binding, object>>
    BY <1>4 DEF TakeSwept, DeliveryThread, bindings, Types, DeliveryTypes
  <2> QED BY <2>2, <2>3, AcquiredClaims, ObjectsGrow
<1>5. ASSUME NEW t \in DeliveryThread, Reconcile(t) \/ DeliverFails(t) \/ FailDelivery(t)
      PROVE  ClaimsInv' /\ \A b \in Binding : Grows(object[b], object'[b])
  BY <1>5, ReadClaims, DeliverClaims, WriteClaims, EndedClaims, ObjectsGrow DEF Reconcile
<1>6. CASE Crash
  BY <1>6, EndedClaims, ObjectsGrow
<1> QED BY <1>1, <1>2, <1>3, <1>4, <1>5, <1>6 DEF Next, Others, Ensure

LEMMA AllInit == Init => IInv /\ ClaimsInv
BY IInvInit, ClaimsInvInit

LEMMA AllNext ==
  IInv /\ ClaimsInv /\ [Next]_vars =>
    (IInv /\ ClaimsInv)' /\ \A b \in Binding : Grows(object[b], object'[b])
<1> SUFFICES ASSUME IInv, ClaimsInv, [Next]_vars
             PROVE  (IInv /\ ClaimsInv)' /\ \A b \in Binding : Grows(object[b], object'[b])
  OBVIOUS
<1>1. IInv' /\ Types /\ Types' /\ Exclusive
  BY IInvNext DEF IInv, DeliveryInv
<1> QED BY <1>1, ClaimsInvNext

\* The status of a binding never claims more than was delivered, whatever
\* failed, was lost, restarted or was written meanwhile.
THEOREM ClaimsCorrect == Spec => []NeverOverclaims
<1>1. ClaimsInv => NeverOverclaims
  BY DEF ClaimsInv
<1> QED BY <1>1, AllInit, AllNext, PTL DEF Spec

\* An object never goes back to an older version of the Request, although
\* each delivery reads it, is delayed and may have been started by another
\* goroutine than the last one.
THEOREM BackwardCorrect == Spec => NeverBackward
<1> DEFINE Onward == \A b \in Binding : \A i \in DOMAIN object[b] : object'[b][i] >= object[b][i]
<1>1. IInv /\ ClaimsInv /\ [Next]_vars => (IInv /\ ClaimsInv)'
  BY AllNext
<1>2. IInv /\ ClaimsInv /\ [Next]_vars => [Onward]_vars
  BY AllNext DEF Grows
<1> QED BY <1>1, <1>2, AllInit, PTL DEF Spec, NeverBackward

=============================================================================
