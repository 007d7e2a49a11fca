------------------------- MODULE IntegrationBinding -------------------------
(***************************************************************************)
(* How a Request is shown in other systems: for every message or issue     *)
(* that must show it there is an IntegrationBinding.  The requests         *)
(* controller creates the bindings and records the revision they have to   *)
(* show; the integrationbindings controller delivers the Request as it is  *)
(* then to Slack, Jira or a webhook and records what it delivered.         *)
(*                                                                         *)
(* Actors: the goroutine of the Request watch and, once the Request is     *)
(* APPROVED, the one of the ClusterConfig watch; the goroutine of the      *)
(* IntegrationBinding watch and the periodic watcher, which exclude each   *)
(* other on a binding; the inbound actions, which write bindings too; the  *)
(* external system.                                                        *)
(*                                                                         *)
(* One Request is enough, its bindings are its own.  A revision is the     *)
(* number of a version of the Request: the versions that a presentation    *)
(* does not tell apart are one version here, and so are the Reviews it     *)
(* lists.  0 is an unset revision or external id.                          *)
(***************************************************************************)
EXTENDS Naturals, Sequences, FiniteSets

CONSTANTS
  Binding,          \* the names of the bindings the Request may get
  Surface,          \* those of purpose REVIEW_SURFACE, the others notify
  StepOf,           \* b -> the Step whose reviewers the binding b is for
  MaxStep,          \* the last Step of the review
  MaxRevision,      \* bound of the versions of the Request
  Disturbances,     \* which of the kinds below happen
  MaxDisturbances   \* bound of how often they do

ASSUME BindingAssumption ==
  /\ Binding # {} /\ Surface \subseteq Binding
  /\ StepOf \in [Binding -> 0 .. MaxStep]
  /\ MaxStep \in Nat /\ MaxRevision \in Nat \ {0}

VARIABLES
  versions,      \* the versions of the Request
  live,          \* whether it is in the store
  requestFeed,   \* its watch events not handled yet
  enabled,       \* whether the Integration is there and enabled
  binding,       \* b -> the IntegrationBinding b
  events,        \* b -> how many of its watch events are not handled yet
  ensure,        \* t -> what the requests controller does in the goroutine t
  swept,         \* the bindings the watcher listed and has still to handle
  work,          \* t -> the delivery in the goroutine t
  inFlight,      \* the bindings being delivered
  object,        \* b -> the revisions shown by the objects created for b
  disturbances,  \* how many of the Disturbances there were
  overtaken      \* history: the bindings of which a delivery was disturbed

requests == <<versions, live, requestFeed>>
bindings == <<binding, events>>
deliveries == <<swept, work, inFlight, object>>
vars == <<requests, enabled, bindings, ensure, deliveries, disturbances, overtaken>>

RequestThread == {"request", "config"}
DeliveryThread == {"event", "sweep"}

State == {"PENDING", "READY", "DEGRADED", "CLOSED"}

\* Mutation of NewBinding: the state is left unset.
StatelessBinding(rev) ==
  [exists |-> TRUE, rv |-> 0, state |-> "STATE_UNSET", desired |-> rev, applied |-> 0,
   external |-> 0, waiting |-> FALSE]

\* newBinding of DesiredBindings.  waiting: NextAttemptAt is not reached.
NewBinding(rev) ==
  [exists |-> TRUE, rv |-> 0, state |-> "PENDING", desired |-> rev, applied |-> 0,
   external |-> 0, waiting |-> FALSE]

NoBinding == [NewBinding(0) EXCEPT !.exists = FALSE]

NoEnsure == [pc |-> "idle", rev |-> 0, create |-> {}, update |-> {}, rv |-> [b \in Binding |-> 0]]

NoWork == [pc |-> "idle", b |-> CHOOSE b \in Binding : TRUE, item |-> NoBinding, next |-> NoBinding]

\* A Request is first presented when a Rule was matched.
Init ==
  /\ \E status \in {"PENDING", "APPROVED"} : versions = <<[status |-> status, step |-> 0]>>
  /\ live = TRUE
  /\ requestFeed = <<"PUT">>
  /\ enabled = TRUE
  /\ binding = [b \in Binding |-> NoBinding]
  /\ events = [b \in Binding |-> 0]
  /\ ensure = [t \in RequestThread |-> NoEnsure]
  /\ swept = {}
  /\ work = [t \in DeliveryThread |-> NoWork]
  /\ inFlight = {}
  /\ object = [b \in Binding |-> <<>>]
  /\ disturbances = 0
  /\ overtaken = {}

Revision == Len(versions)

\* isClosed: the Request is decided, or in review at another Step.
Closing(b, rev) ==
  \/ versions[rev].status # "PENDING"
  \/ b \in Surface /\ versions[rev].step # StepOf[b]

Goal(b, rev) == IF Closing(b, rev) THEN "CLOSED" ELSE "READY"

\* DesiredBindings: the notifications, and the surfaces of the current Step.
DesiredBindings(rev) ==
  IF ~enabled THEN {}
  ELSE {b \in Binding : b \in Surface => ~Closing(b, rev)}

\* What the bound counts, by kind: a failed call (FAILURE), a restart
\* (RESTART), an inbound action (INBOUND), the deletion of the Request
\* (DELETE), a write of it that is not shown (WRITEBACK), a ClusterConfig
\* update (CONFIG), the Integration being disabled or enabled (TOGGLE).
Disturb(kind) ==
  /\ kind \in Disturbances /\ disturbances < MaxDisturbances
  /\ disturbances' = disturbances + 1

-----------------------------------------------------------------------------
(* The Request, see AccessGrant and AccessReview.                          *)

NewVersion(status, step) ==
  /\ live /\ Revision < MaxRevision
  /\ versions' = Append(versions, [status |-> status, step |-> step])
  /\ requestFeed' = Append(requestFeed, "PUT")
  /\ UNCHANGED <<live, enabled, bindings, ensure, deliveries, disturbances, overtaken>>

\* It is edited or reviewed, passes a Step, is decided, ends after that.
ChangeRequest ==
  LET last == versions[Revision]
  IN  \/ /\ last.status = "PENDING"
         /\ \/ NewVersion("PENDING", last.step)
            \/ last.step < MaxStep /\ NewVersion("PENDING", last.step + 1)
            \/ NewVersion("APPROVED", last.step)
      \/ last.status # "ENDED" /\ NewVersion("ENDED", last.step)

\* The requests controller writes the window or the PolicyTrigger into a
\* decided Request, which nothing presents.
WriteBack ==
  /\ Disturb("WRITEBACK") /\ live /\ versions[Revision].status # "PENDING"
  /\ requestFeed' = Append(requestFeed, "PUT")
  /\ UNCHANGED <<versions, live, enabled, bindings, ensure, deliveries, overtaken>>

DeleteRequest ==
  /\ Disturb("DELETE") /\ live
  /\ live' = FALSE
  /\ requestFeed' = Append(requestFeed, "DELETE")
  /\ UNCHANGED <<versions, enabled, bindings, ensure, deliveries, overtaken>>

ToggleIntegration ==
  /\ Disturb("TOGGLE")
  /\ enabled' = ~enabled
  /\ UNCHANGED <<requests, bindings, ensure, deliveries, overtaken>>

-----------------------------------------------------------------------------
(* The bindings in the store: every write is an event of their watch.      *)

Put(b, item) ==
  /\ binding' = [binding EXCEPT ![b] = item]
  /\ events' = [events EXCEPT ![b] = @ + 1]

\* Another writer than the delivery in flight makes its write fail.
Overtake(b) == overtaken' = overtaken \union ({b} \intersect inFlight)

\* appendEventID after an accepted inbound action.
RecordEventID(b) ==
  /\ Disturb("INBOUND") /\ binding[b].exists
  /\ Put(b, [binding[b] EXCEPT !.rv = @ + 1])
  /\ Overtake(b)
  /\ UNCHANGED <<requests, enabled, ensure, deliveries>>

\* NextAttemptAt is reached.
Elapse(b) ==
  /\ binding[b].waiting
  /\ binding' = [binding EXCEPT ![b].waiting = FALSE]
  /\ UNCHANGED <<requests, enabled, events, ensure, deliveries, disturbances, overtaken>>

-----------------------------------------------------------------------------
(* The requests controller: ensureIntegrationBindings after a reconcile,   *)
(* deleteIntegrationBindings after the deletion.                           *)

Read(t) == ensure' = [ensure EXCEPT ![t] = [NoEnsure EXCEPT !.pc = "list", !.rev = Revision]]

\* An event of the Request, which is read again.  Its reconcile may have
\* ended with a conflict when there is a later event.
TakeRequestEvent ==
  /\ ensure["request"].pc = "idle" /\ requestFeed # <<>> /\ Head(requestFeed) = "PUT"
  /\ requestFeed' = Tail(requestFeed)
  /\ \/ live /\ Read("request")
     \/ (~live \/ Len(requestFeed) > 1) /\ UNCHANGED ensure
  /\ UNCHANGED <<versions, live, enabled, bindings, deliveries, disturbances, overtaken>>

\* An APPROVED Request that OnClusterConfigUpdate listed.
TakeConfigEvent ==
  /\ Disturb("CONFIG")
  /\ ensure["config"].pc = "idle" /\ live /\ versions[Revision].status = "APPROVED"
  /\ Read("config")
  /\ UNCHANGED <<requests, enabled, bindings, deliveries, overtaken>>

Go(t, create, update) ==
  ensure' = [ensure EXCEPT ![t] =
    IF create \union update = {} THEN NoEnsure
    ELSE [@ EXCEPT !.pc = "apply", !.create = create, !.update = update]]

\* The existing bindings are listed and compared with those desired.
ListBindings(t) ==
  LET rev == ensure[t].rev
      existing == {b \in Binding : binding[b].exists}
      stale == {b \in existing : binding[b].desired # rev}
      create == DesiredBindings(rev) \ existing
  IN  /\ ensure[t].pc = "list"
      /\ ensure' = [ensure EXCEPT ![t] =
           IF create \union stale = {} THEN NoEnsure
           ELSE [@ EXCEPT !.pc = "apply", !.create = create, !.update = stale,
                          !.rv = [b \in Binding |-> binding[b].rv]]]
      /\ UNCHANGED <<requests, enabled, bindings, deliveries, disturbances, overtaken>>

CreateBinding(t, b) ==
  /\ ensure[t].pc = "apply" /\ b \in ensure[t].create
  /\ IF binding[b].exists THEN UNCHANGED bindings
     ELSE Put(b, [NewBinding(ensure[t].rev) EXCEPT !.rv = binding[b].rv + 1])
  /\ Go(t, ensure[t].create \ {b}, ensure[t].update)
  /\ UNCHANGED <<requests, enabled, deliveries, disturbances, overtaken>>

\* UpdateIntegrationBinding, a compare-and-swap whose conflict returns from
\* ensureIntegrationBindings: the bindings left are not updated.
UpdateDesired(t, b) ==
  LET rest == ensure[t].update \ {b}
  IN  /\ ensure[t].pc = "apply" /\ ensure[t].create = {} /\ b \in ensure[t].update
      /\ \/ /\ ~binding[b].exists
            /\ Go(t, {}, rest) /\ UNCHANGED <<bindings, overtaken>>
         \/ /\ binding[b].exists /\ binding[b].rv = ensure[t].rv[b]
            /\ Put(b, [binding[b] EXCEPT !.desired = ensure[t].rev, !.rv = @ + 1])
            /\ Overtake(b)
            /\ Go(t, {}, rest)
         \/ /\ binding[b].exists /\ binding[b].rv # ensure[t].rv[b]
            /\ Go(t, {}, {}) /\ UNCHANGED <<bindings, overtaken>>
      /\ UNCHANGED <<requests, enabled, deliveries, disturbances>>

\* OnDelete lists the bindings ...
TakeDeletion ==
  /\ ensure["request"].pc = "idle" /\ requestFeed # <<>> /\ Head(requestFeed) = "DELETE"
  /\ requestFeed' = Tail(requestFeed)
  /\ ensure' = [ensure EXCEPT !["request"] =
       [NoEnsure EXCEPT !.pc = "drop", !.update = {b \in Binding : binding[b].exists}]]
  /\ UNCHANGED <<versions, live, enabled, bindings, deliveries, disturbances, overtaken>>

\* ... and deletes them one by one; a failure is logged.
DropBinding(t, b) ==
  /\ ensure[t].pc = "drop" /\ b \in ensure[t].update
  /\ \/ /\ binding' = [binding EXCEPT ![b].exists = FALSE]
        /\ UNCHANGED disturbances
     \/ Disturb("FAILURE") /\ UNCHANGED binding
  /\ ensure' = [ensure EXCEPT ![t].update = @ \ {b}]
  /\ UNCHANGED <<requests, enabled, events, deliveries, overtaken>>

DropDone(t) ==
  /\ ensure[t].pc = "drop" /\ ensure[t].update = {}
  /\ ensure' = [ensure EXCEPT ![t] = NoEnsure]
  /\ UNCHANGED <<requests, enabled, bindings, deliveries, disturbances, overtaken>>

\* A call of ensureIntegrationBindings fails: it returns.
FailEnsure(t) ==
  /\ Disturb("FAILURE") /\ ensure[t].pc # "idle"
  /\ ensure' = [ensure EXCEPT ![t] = NoEnsure]
  /\ UNCHANGED <<requests, enabled, bindings, deliveries, overtaken>>

-----------------------------------------------------------------------------
(* The integrationbindings controller.                                     *)

Start(t, b) ==
  work' = [work EXCEPT ![t] = [NoWork EXCEPT !.pc = "request", !.b = b, !.item = binding[b]]]

\* Mutation of Acquire: nobody looks at what is in flight.
AcquireAnyway(t, b) ==
  IF ~binding[b].exists \/ binding[b].waiting THEN UNCHANGED <<inFlight, work>>
  ELSE inFlight' = inFlight \union {b} /\ Start(t, b)

\* Reconcile returns when the binding is in flight.  Otherwise it reads the
\* binding, which may be gone or not to be tried before long.  Who finds it
\* in flight before that read could as well find it so after.
Acquire(t, b) ==
  IF b \in inFlight \/ ~binding[b].exists \/ binding[b].waiting THEN UNCHANGED <<inFlight, work>>
  ELSE inFlight' = inFlight \union {b} /\ Start(t, b)

\* OnAdd, OnUpdate.
TakeEvent(b) ==
  /\ work["event"].pc = "idle" /\ events[b] > 0
  /\ events' = [events EXCEPT ![b] = @ - 1]
  /\ Acquire("event", b)
  /\ UNCHANGED <<requests, enabled, binding, ensure, swept, object, disturbances, overtaken>>

Applied(item) == item.state \in {"READY", "CLOSED"} /\ item.applied = item.desired

\* Mutation of Due: what could not be updated is not tried again.
DueUnlessDegraded(b) ==
  binding[b].exists /\ ~Applied(binding[b]) /\ ~binding[b].waiting /\ binding[b].state # "DEGRADED"

\* isIntegrationBindingDue.
Due(b) == binding[b].exists /\ ~Applied(binding[b]) /\ ~binding[b].waiting

\* The periodic watcher lists the bindings ...
ListDue ==
  /\ work["sweep"].pc = "idle" /\ swept = {}
  /\ swept' = {b \in Binding : Due(b)}
  /\ UNCHANGED <<requests, enabled, bindings, ensure, work, inFlight, object, disturbances, overtaken>>

\* ... and reconciles those that are due one by one.
TakeSwept ==
  /\ work["sweep"].pc = "idle"
  /\ \E b \in swept : swept' = swept \ {b} /\ Acquire("sweep", b)
  /\ UNCHANGED <<requests, enabled, bindings, ensure, object, disturbances, overtaken>>

Release(t) == [NoWork EXCEPT !.pc = "release", !.b = work[t].b]

\* Mutation of ReadRequest: the desired revision is delivered, not the
\* Request as it is.
ReadDesired(t) ==
  LET item == work[t].item
      rev == item.desired
      wanted == [item EXCEPT !.desired = rev]
  IN  /\ work[t].pc = "request"
      /\ work' = [work EXCEPT ![t] =
           IF ~enabled \/ ~live THEN Release(t)
           ELSE IF item.state # Goal(work[t].b, rev) \/ item.applied # rev
             THEN [@ EXCEPT !.pc = "deliver", !.next = wanted]
           ELSE IF item.desired # rev THEN [@ EXCEPT !.pc = "write", !.next = wanted]
           ELSE Release(t)]
      /\ UNCHANGED <<requests, enabled, bindings, ensure, swept, inFlight, object, disturbances, overtaken>>

\* The Integration and the Request are read, the presentation is built:
\* deliver it, unless it was; then only the desired revision may be wrong.
ReadRequest(t) ==
  LET item == work[t].item
      rev == Revision
      wanted == [item EXCEPT !.desired = rev]
  IN  /\ work[t].pc = "request"
      /\ work' = [work EXCEPT ![t] =
           IF ~enabled \/ ~live THEN Release(t)
           ELSE IF item.state # Goal(work[t].b, rev) \/ item.applied # rev
             THEN [@ EXCEPT !.pc = "deliver", !.next = wanted]
           ELSE IF item.desired # rev THEN [@ EXCEPT !.pc = "write", !.next = wanted]
           ELSE Release(t)]
      /\ UNCHANGED <<requests, enabled, bindings, ensure, swept, inFlight, object, disturbances, overtaken>>

\* deliver: a surface that was never shown and is to be closed is not shown;
\* an object is created, or the one there is updated or closed.
Delivered(b, external, rev) ==
  IF external = 0 /\ b \in Surface /\ Closing(b, rev) THEN object[b]
  ELSE IF external = 0 THEN Append(object[b], rev)
  ELSE [object[b] EXCEPT ![external] = rev]

Deliver(t) ==
  LET b == work[t].b
      next == work[t].next
      shown == Delivered(b, next.external, next.desired)
  IN  /\ work[t].pc = "deliver"
      /\ object' = [object EXCEPT ![b] = shown]
      /\ work' = [work EXCEPT ![t].pc = "write", ![t].next =
           [next EXCEPT !.state = Goal(b, next.desired), !.applied = next.desired,
                        !.external = IF @ = 0 /\ shown # object[b] THEN Len(shown) ELSE @]]
      /\ UNCHANGED <<requests, enabled, bindings, ensure, swept, inFlight, disturbances, overtaken>>

\* Mutation of Failed: the revision is taken to be applied.
FailedApplied(next) ==
  [next EXCEPT !.waiting = TRUE, !.applied = next.desired,
               !.state = IF next.external = 0 THEN "PENDING" ELSE "DEGRADED"]

\* What is recorded of a failed attempt.
Failed(next) ==
  [next EXCEPT !.waiting = TRUE,
               !.state = IF next.external = 0 THEN "PENDING" ELSE "DEGRADED"]

\* The call to the external system fails, maybe after it had its effect.
DeliverFails(t) ==
  LET b == work[t].b
      next == work[t].next
  IN  /\ Disturb("FAILURE") /\ work[t].pc = "deliver"
      /\ object' \in {object, [object EXCEPT ![b] = Delivered(b, next.external, next.desired)]}
      /\ overtaken' = overtaken \union {b}
      /\ work' = [work EXCEPT ![t].pc = "write", ![t].next = Failed(next)]
      /\ UNCHANGED <<requests, enabled, bindings, ensure, swept, inFlight>>

\* UpdateIntegrationBinding, a compare-and-swap: the status may be lost.
WriteStatus(t) ==
  LET b == work[t].b
      rv == work[t].item.rv
  IN  /\ work[t].pc = "write"
      /\ IF binding[b].exists /\ binding[b].rv = rv
           THEN Put(b, [work[t].next EXCEPT !.rv = rv + 1])
           ELSE UNCHANGED bindings
      /\ work' = [work EXCEPT ![t] = Release(t)]
      /\ UNCHANGED <<requests, enabled, ensure, swept, inFlight, object, disturbances, overtaken>>

ReleaseBinding(t) ==
  /\ work[t].pc = "release"
  /\ inFlight' = inFlight \ {work[t].b}
  /\ work' = [work EXCEPT ![t] = NoWork]
  /\ UNCHANGED <<requests, enabled, bindings, ensure, swept, object, disturbances, overtaken>>

\* Another call of Reconcile fails: it returns.
FailDelivery(t) ==
  /\ Disturb("FAILURE") /\ work[t].pc \in {"request", "write"}
  /\ overtaken' = overtaken \union {work[t].b}
  /\ work' = [work EXCEPT ![t] = Release(t)]
  /\ UNCHANGED <<requests, enabled, bindings, ensure, swept, inFlight, object>>

\* nocturne restarts; the watches may not deliver their events again.
Crash ==
  /\ Disturb("RESTART")
  /\ ensure' = [t \in RequestThread |-> NoEnsure]
  /\ work' = [t \in DeliveryThread |-> NoWork]
  /\ swept' = {}
  /\ inFlight' = {}
  /\ overtaken' = overtaken \union inFlight
  /\ requestFeed' \in {requestFeed, <<>>}
  /\ events' \in {events, [b \in Binding |-> 0]}
  /\ UNCHANGED <<versions, live, enabled, binding, object>>

-----------------------------------------------------------------------------
Ensure(t) ==
  \/ ListBindings(t)
  \/ \E b \in Binding : CreateBinding(t, b) \/ UpdateDesired(t, b) \/ DropBinding(t, b)
  \/ DropDone(t)

Reconcile(t) ==
  ReadRequest(t) \/ Deliver(t) \/ WriteStatus(t) \/ ReleaseBinding(t)

TakeRequest == TakeRequestEvent \/ TakeDeletion

Others ==
  \/ ChangeRequest \/ WriteBack \/ DeleteRequest \/ ToggleIntegration \/ TakeConfigEvent \/ Crash
  \/ \E b \in Binding : RecordEventID(b)
  \/ \E t \in RequestThread : FailEnsure(t)
  \/ \E t \in DeliveryThread : DeliverFails(t) \/ FailDelivery(t)

Next ==
  \/ TakeRequest \/ ListDue \/ TakeSwept \/ Others
  \/ \E t \in RequestThread : Ensure(t)
  \/ \E t \in DeliveryThread : Reconcile(t)
  \/ \E b \in Binding : TakeEvent(b) \/ Elapse(b)

Spec == Init /\ [][Next]_vars

\* The goroutines that deliver go on while they have something to do, the
\* watcher's ticker fires and time passes.
DeliverySpec ==
  /\ Spec
  /\ WF_vars((\E b \in Binding : TakeEvent(b)) \/ Reconcile("event"))
  /\ WF_vars(ListDue \/ TakeSwept \/ Reconcile("sweep"))
  /\ \A b \in Binding : WF_vars(Elapse(b))

\* So do those of the requests controller.  Nothing is promised of who changes
\* the Request.
FairSpec ==
  /\ DeliverySpec
  /\ WF_vars(TakeRequest \/ Ensure("request"))
  /\ WF_vars(Ensure("config"))

-----------------------------------------------------------------------------
BindingType ==
  [exists : BOOLEAN, rv : Nat, state : State, desired : Nat, applied : Nat,
   external : Nat, waiting : BOOLEAN]

EnsureType ==
  [pc : {"idle", "list", "apply", "drop"}, rev : Nat, create : SUBSET Binding,
   update : SUBSET Binding, rv : [Binding -> Nat]]

WorkType ==
  [pc : {"idle", "request", "deliver", "write", "release"}, b : Binding,
   item : BindingType, next : BindingType]

\* Every variable keeps its type.
TypeOK ==
  /\ versions \in Seq([status : {"PENDING", "APPROVED", "ENDED"}, step : 0 .. MaxStep])
  /\ versions # <<>>
  /\ live \in BOOLEAN /\ enabled \in BOOLEAN
  /\ requestFeed \in Seq({"PUT", "DELETE"})
  /\ binding \in [Binding -> BindingType]
  /\ events \in [Binding -> Nat]
  /\ ensure \in [RequestThread -> EnsureType]
  /\ swept \subseteq Binding /\ inFlight \subseteq Binding /\ overtaken \subseteq Binding
  /\ work \in [DeliveryThread -> WorkType]
  /\ object \in [Binding -> Seq(Nat)]
  /\ disturbances \in Nat

\* A binding gets one external object although two goroutines deliver it,
\* unless a delivery of it failed or was cut short, or something else wrote
\* the binding while it ran.
OneObject == \A b \in Binding : b \notin overtaken => Len(object[b]) <= 1

\* The status never claims more than was delivered: the object that a binding
\* names is there and shows the applied revision or a later one, and only a
\* surface that was closed before it was shown has none.
NeverOverclaims ==
  \A b \in Binding : LET item == binding[b] IN
    /\ item.external # 0 => /\ item.external <= Len(object[b])
                            /\ object[b][item.external] >= item.applied
    /\ item.state = "READY" => item.external # 0

\* An object never goes back to an older version of the Request, so what was
\* closed never offers a decision again.
NeverBackward ==
  [][\A b \in Binding : \A i \in DOMAIN object[b] : object'[b][i] >= object[b][i]]_vars

\* A binding whose last delivery is not recorded as the desired one is tried
\* until it is, whatever failed, was lost or was dropped as being in flight,
\* as long as the Request and the Integration are there.
RetriedUntilApplied ==
  \A b \in Binding :
    binding[b].exists ~> (Applied(binding[b]) \/ ~binding[b].exists \/ ~live \/ ~enabled)

-----------------------------------------------------------------------------
(* What the API's documentation says and the code does not keep.           *)

Final == versions[Revision].status = "ENDED"

\* "The Cluster [...] closes the outstanding presentations once the Request
\* reaches a final state": an object that offers a decision is closed in the
\* end.  The controller that updates several bindings returns at the first
\* conflict; a binding it did not reach is READY and not due.
OutstandingClosed ==
  \A b \in Surface : <>[](Final /\ binding[b].external # 0 => Closing(b, object[b][binding[b].external]))
=============================================================================
