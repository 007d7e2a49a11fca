---------------------------- MODULE AccessGrant ----------------------------
(***************************************************************************)
(* How an access Request is granted and how the grant ends: the requests   *)
(* controller of nocturne turns an APPROVED Request into a PolicyTrigger   *)
(* of the core API and removes it once the Request has ended.              *)
(*                                                                         *)
(* Actors: the API server (users and administrators), the review           *)
(* controller (here only its outcome, see AccessReview), the two watch     *)
(* goroutines that run the requests controller ("request" handles the      *)
(* events of the Requests one at a time, "config" those of the access      *)
(* ClusterConfig), and the periodic watcher.                               *)
(*                                                                         *)
(* The resource store is external.  An update is a compare-and-swap on     *)
(* the resource version, so a handler that reads an object, computes the   *)
(* next version from it and writes it has no effect or acts on what is     *)
(* stored: it is one action here.  A handler is cut into steps wherever it *)
(* acts on a copy it cannot compare: the event it was given, the list it   *)
(* read, the priority it read, the PolicyTrigger it saw.                   *)
(***************************************************************************)
EXTENDS AccessRequest

CONSTANTS
  Request,      \* uids of the Requests
  Rules,        \* the Rules that matchPolicyRule may return
  Durations,    \* values of spec.duration, Nil being unset
  Deadlines,    \* values of spec.deadline, Nil being unset
  Priorities,   \* values of the ClusterConfig's authorization priority
  MaxTime,      \* bound of the clock
  MaxVersion,   \* bound of the versions that user edits may reach
  MaxConfigs,   \* bound of the ClusterConfig updates
  MaxCrashes,   \* bound of the restarts of nocturne
  Failing       \* TRUE when a call of a handler may fail

Unset == 1   \* no priority in the ClusterConfig

\* The API server accepts only priorities in -4 .. 0 (validateClusterConfig).
ASSUME GrantAssumption ==
  /\ Request # {}
  /\ Nil \in Durations /\ Durations \subseteq Nat
  /\ Nil \in Deadlines /\ Deadlines \subseteq Nat
  /\ Priorities \subseteq (-4 .. 0) \union {Unset} /\ Priorities # {}
  /\ Failing \in BOOLEAN
  /\ \A rule \in Rules : rule.effect \in Effect /\ rule.max \in Nat

VARIABLES
  now,       \* the clock
  stored,    \* r -> "none" before CreateRequest, "live", "deleted"
  request,   \* r -> its latest version in the store
  version,   \* r -> the resource version of that version
  feed,      \* r -> the watch events not handled yet
  trigger,   \* r -> the PolicyTrigger named access-request-<r>, or NoTrigger
  created,   \* r -> how many PolicyTriggers were created for it
  priority,  \* the priority in the access ClusterConfig
  configs,   \* the ClusterConfig updates not handled yet
  updates,   \* how many ClusterConfig updates there were
  listed,    \* the listed Requests the config goroutine has still to handle
  work,      \* t -> what the goroutine t is doing
  crashes    \* how many times nocturne was restarted

store == <<stored, request, version, feed>>
triggers == <<trigger, created>>
config == <<priority, configs, updates>>
vars == <<now, store, triggers, config, listed, work, crashes>>

Thread == {"request", "config"}

NoTrigger == [uid |-> 0, rv |-> 0, notAfter |-> Nil, priority |-> 0]

\* A copy of a Request: an event, an item of a list.
Copy(kind, rv, req) == [kind |-> kind, rv |-> rv, req |-> req]

Idle == [pc |-> "idle", r |-> CHOOSE r \in Request : TRUE,
         copy |-> Copy("PUT", 0, NewRequest(Nil, Nil)),
         priority |-> 0, seen |-> NoTrigger]

\* getAccessRequestAllowPriority: the configured priority kept in -4 .. 0,
\* -1 when the ClusterConfig sets none.
AllowPriority(p) ==
  CASE p = Unset -> -1
    [] p < -4 -> -4
    [] p > 0 -> 0
    [] OTHER -> p

Init ==
  /\ now = 1
  /\ stored = [r \in Request |-> "none"]
  /\ request = [r \in Request |-> NewRequest(Nil, Nil)]
  /\ version = [r \in Request |-> 0]
  /\ feed = [r \in Request |-> <<>>]
  /\ trigger = [r \in Request |-> NoTrigger]
  /\ created = [r \in Request |-> 0]
  /\ priority \in Priorities
  /\ configs = <<>>
  /\ updates = 0
  /\ listed = {}
  /\ work = [t \in Thread |-> Idle]
  /\ crashes = 0

-----------------------------------------------------------------------------
(* The store: every successful write is a new version and a watch event.   *)

Live(r) == stored[r] = "live"

Write(r, req) ==
  /\ request' = [request EXCEPT ![r] = req]
  /\ version' = [version EXCEPT ![r] = @ + 1]
  /\ feed' = [feed EXCEPT ![r] = Append(@, Copy("PUT", version[r] + 1, req))]
  /\ UNCHANGED stored

\* UpdateRequest with the copy's resource version: it fails, changing
\* nothing, unless the copy is still the latest version.
CompareAndSwap(r, rv, req) ==
  IF Live(r) /\ version[r] = rv THEN Write(r, req) ELSE UNCHANGED store

-----------------------------------------------------------------------------
(* The API server and the review controller.                               *)

CreateRequest(r, duration, deadline) ==
  /\ stored[r] = "none"
  /\ stored' = [stored EXCEPT ![r] = "live"]
  /\ request' = [request EXCEPT ![r] = NewRequest(duration, deadline)]
  /\ version' = [version EXCEPT ![r] = 1]
  /\ feed' = [feed EXCEPT ![r] = <<Copy("PUT", 1, NewRequest(duration, deadline))>>]
  /\ UNCHANGED <<now, triggers, config, listed, work, crashes>>

UpdateRequest(r, duration, deadline) ==
  /\ Live(r) /\ request[r].status = "PENDING"
  /\ version[r] < MaxVersion
  /\ Write(r, [request[r] EXCEPT !.duration = duration, !.deadline = deadline])
  /\ UNCHANGED <<now, triggers, config, listed, work, crashes>>

CancelRequest(r) ==
  /\ Live(r) /\ request[r].status = "PENDING"
  /\ Write(r, SetState(request[r], "CANCELLED", now))
  /\ UNCHANGED <<now, triggers, config, listed, work, crashes>>

RevokeRequest(r) ==
  /\ Live(r) /\ request[r].status \in {"PENDING", "APPROVED"}
  /\ Write(r, SetState(request[r], "REVOKED", now))
  /\ UNCHANGED <<now, triggers, config, listed, work, crashes>>

DeleteRequest(r) ==
  /\ Live(r)
  /\ stored' = [stored EXCEPT ![r] = "deleted"]
  /\ feed' = [feed EXCEPT ![r] = Append(@, Copy("DELETE", version[r], request[r]))]
  /\ UNCHANGED <<now, request, version, triggers, config, listed, work, crashes>>

\* Mutation of Review: a Review is applied to a Request that has ended.
ReviewAnyStatus(r) ==
  /\ Live(r) /\ request[r].rule.effect = "REVIEW"
  /\ Write(r, GotoNextStepOr("APPROVED", request[r], now))
  /\ UNCHANGED <<now, triggers, config, listed, work, crashes>>

\* What the review controller makes of a Request in review: its current
\* Step is passed, or it is rejected.
Review(r) ==
  /\ Live(r) /\ request[r].status = "PENDING" /\ request[r].rule.effect = "REVIEW"
  /\ \/ Write(r, GotoNextStepOr("APPROVED", request[r], now))
     \/ Write(r, SetState(request[r], "REJECTED", now))
  /\ UNCHANGED <<now, triggers, config, listed, work, crashes>>

UpdateClusterConfig(p) ==
  /\ updates < MaxConfigs
  /\ p # priority
  /\ priority' = p
  /\ updates' = updates + 1
  /\ configs' = Append(configs, [new |-> p, old |-> priority])
  /\ UNCHANGED <<now, store, triggers, listed, work, crashes>>

-----------------------------------------------------------------------------
(* The requests controller.                                                *)

Do(t, pc) == work' = [work EXCEPT ![t].pc = pc]

Done(t) == work' = [work EXCEPT ![t] = Idle]

Reconcile(t, r, copy) ==
  work' = [work EXCEPT ![t] = [Idle EXCEPT !.pc = "reconcile", !.r = r, !.copy = copy]]

\* OnAdd, OnUpdate and OnDelete: the next event of the Request watch.
TakeEvent(r) ==
  /\ work["request"].pc = "idle" /\ feed[r] # <<>>
  /\ feed' = [feed EXCEPT ![r] = Tail(@)]
  /\ Reconcile("request", r, Head(feed[r]))
  /\ UNCHANGED <<now, stored, request, version, triggers, config, listed, crashes>>

\* OnClusterConfigUpdate: list the APPROVED Requests if the priority changed.
ListApproved ==
  /\ work["config"].pc = "idle" /\ listed = {} /\ configs # <<>>
  /\ configs' = Tail(configs)
  /\ listed' = IF AllowPriority(Head(configs).new) = AllowPriority(Head(configs).old) THEN {}
               ELSE {<<r, Copy("PUT", version[r], request[r])>> :
                       r \in {s \in Request : Live(s) /\ request[s].status = "APPROVED"}}
  /\ UNCHANGED <<now, store, triggers, priority, updates, work, crashes>>

\* The next Request of the list.
TakeListed ==
  /\ work["config"].pc = "idle"
  /\ \E item \in listed :
       /\ listed' = listed \ {item}
       /\ Reconcile("config", item[1], item[2])
  /\ UNCHANGED <<now, store, triggers, config, crashes>>

\* doReconcile when its copy is not what it should be: match a Rule if none
\* was matched, set the window, expire; write, and leave the rest to the
\* event of that write.  A review Rule that is not valid is an error.
Advance(t) ==
  LET r == work[t].r
      copy == work[t].copy
  IN  /\ work[t].pc = "reconcile" /\ copy.kind = "PUT"
      /\ \E rule \in IF NeedsRule(copy.req) THEN Rules \union {NoRule} ELSE {NoRule} :
           LET next == Reconciled(copy.req, rule, now)
           IN  /\ next # copy.req
               /\ IF rule.effect = "REVIEW" /\ ~ValidReview(rule) THEN UNCHANGED store
                  ELSE CompareAndSwap(r, copy.rv, next)
      /\ Done(t)
      /\ UNCHANGED <<now, triggers, config, listed, crashes>>

Settled(copy) == ~NeedsRule(copy.req) /\ Reconciled(copy.req, NoRule, now) = copy.req

\* buildPolicyTrigger of an APPROVED Request: read the priority.
BuildTrigger(t) ==
  LET copy == work[t].copy
  IN  /\ work[t].pc = "reconcile" /\ copy.kind = "PUT" /\ Settled(copy)
      /\ copy.req.status = "APPROVED" /\ copy.req.rule # NoRule
      /\ work' = [work EXCEPT ![t].pc = "get", ![t].priority = AllowPriority(priority)]
      /\ UNCHANGED <<now, store, triggers, config, listed, crashes>>

\* Mutation of Skip: whatever is settled needs nothing more.
SkipSettled(t) ==
  /\ work[t].pc = "reconcile" /\ work[t].copy.kind = "PUT" /\ Settled(work[t].copy)
  /\ Done(t)
  /\ UNCHANGED <<now, store, triggers, config, listed, crashes>>

\* Nothing to do for a Request in review.
Skip(t) ==
  LET copy == work[t].copy
  IN  /\ work[t].pc = "reconcile" /\ copy.kind = "PUT" /\ Settled(copy)
      /\ \/ copy.req.status = "PENDING"
         \/ copy.req.status = "APPROVED" /\ copy.req.rule = NoRule
      /\ Done(t)
      /\ UNCHANGED <<now, store, triggers, config, listed, crashes>>

GetTrigger(t) ==
  /\ work[t].pc = "get"
  /\ work' = [work EXCEPT ![t].pc = "put", ![t].seen = trigger[work[t].r]]
  /\ UNCHANGED <<now, store, triggers, config, listed, crashes>>

\* CreatePolicyTrigger when none was seen: AlreadyExists ends the handler.
CreateTrigger(t) ==
  LET r == work[t].r
  IN  /\ work[t].pc = "put" /\ work[t].seen = NoTrigger
      /\ IF trigger[r] = NoTrigger
           THEN /\ created' = [created EXCEPT ![r] = @ + 1]
                /\ trigger' = [trigger EXCEPT ![r] =
                     [uid |-> created[r] + 1, rv |-> 1, priority |-> work[t].priority,
                      notAfter |-> work[t].copy.req.accessEndsAt]]
                /\ work' = [work EXCEPT ![t].pc = "exists", ![t].seen = trigger'[r]]
           ELSE /\ Done(t)
                /\ UNCHANGED triggers
      /\ UNCHANGED <<now, store, config, listed, crashes>>

\* Mutation of CheckExists: the Request is taken to be there still.
AssumeExists(t) ==
  /\ work[t].pc = "exists"
  /\ Do(t, "ref")
  /\ UNCHANGED <<now, store, triggers, config, listed, crashes>>

\* Mutation of CheckExists: the new PolicyTrigger is not recorded.
ForgetRef(t) ==
  /\ work[t].pc = "exists"
  /\ Done(t)
  /\ UNCHANGED <<now, store, triggers, config, listed, crashes>>

\* requestExists after the creation: a Request deleted meanwhile gets its
\* PolicyTrigger deleted by uid.
CheckExists(t) ==
  LET r == work[t].r
  IN  /\ work[t].pc = "exists"
      /\ IF Live(r)
           THEN Do(t, "ref") /\ UNCHANGED triggers
           ELSE /\ Done(t)
                /\ trigger' = [trigger EXCEPT ![r] = IF @.uid = work[t].seen.uid THEN NoTrigger ELSE @]
                /\ UNCHANGED created
      /\ UNCHANGED <<now, store, config, listed, crashes>>

\* UpdatePolicyTrigger of the one that was seen, if it is not as desired: a
\* compare-and-swap, whose failure ends the handler.
UpdateTrigger(t) ==
  LET r == work[t].r
      desired == [work[t].seen EXCEPT !.priority = work[t].priority,
                                      !.notAfter = work[t].copy.req.accessEndsAt]
  IN  /\ work[t].pc = "put" /\ work[t].seen # NoTrigger
      /\ IF desired = work[t].seen THEN Do(t, "ref") /\ UNCHANGED trigger
         ELSE IF trigger[r] # work[t].seen THEN Done(t) /\ UNCHANGED trigger
         ELSE /\ trigger' = [trigger EXCEPT ![r] = [desired EXCEPT !.rv = @ + 1]]
              /\ Do(t, "ref")
      /\ UNCHANGED <<now, store, created, config, listed, crashes>>

\* ensureNoPolicyTrigger of a Request that has ended, and OnDelete: delete
\* by name.
DropTrigger(t) ==
  LET copy == work[t].copy
  IN  /\ work[t].pc = "reconcile"
      /\ \/ copy.kind = "DELETE"
         \/ Settled(copy) /\ copy.req.status \in Final
      /\ trigger' = [trigger EXCEPT ![work[t].r] = NoTrigger]
      /\ IF copy.kind = "DELETE" THEN Done(t)
         ELSE work' = [work EXCEPT ![t].pc = "ref", ![t].seen = NoTrigger]
      /\ UNCHANGED <<now, store, created, config, listed, crashes>>

\* The end of doReconcile: write the PolicyTriggerRef if it changed.
UpdateRef(t) ==
  LET r == work[t].r
      copy == work[t].copy
  IN  /\ work[t].pc = "ref"
      /\ IF copy.req.triggerRef = work[t].seen.uid THEN UNCHANGED store
         ELSE CompareAndSwap(r, copy.rv, [copy.req EXCEPT !.triggerRef = work[t].seen.uid])
      /\ Done(t)
      /\ UNCHANGED <<now, triggers, config, listed, crashes>>

\* A call of the handler fails (the store, the Catalog of the Request): the
\* handler returns the error, which is only logged.
Fail(t) ==
  /\ Failing /\ work[t].pc # "idle"
  /\ Done(t)
  /\ UNCHANGED <<now, store, triggers, config, listed, crashes>>

\* nocturne restarts.  The controllers list nothing when they start: an
\* event that the watch does not deliver again is lost.
Crash ==
  /\ crashes < MaxCrashes
  /\ crashes' = crashes + 1
  /\ work' = [t \in Thread |-> Idle]
  /\ listed' = {}
  /\ feed' \in {feed, [r \in Request |-> <<>>]}
  /\ configs' \in {configs, <<>>}
  /\ UNCHANGED <<now, stored, request, version, triggers, priority, updates>>

-----------------------------------------------------------------------------
(* The periodic watcher.                                                   *)

\* doCheckRequest of a listed Request.
SweepRequest(r) ==
  /\ Live(r) /\ Checked(request[r], now) # request[r]
  /\ Write(r, Checked(request[r], now))
  /\ UNCHANGED <<now, triggers, config, listed, work, crashes>>

\* Mutation of Orphan: the state of the Request is not looked at.
OrphanOfDeleted(r) ==
  \/ trigger[r].notAfter # Nil /\ trigger[r].notAfter <= now
  \/ ~Live(r)

\* isOrphanPolicyTrigger; it never becomes false again for a PolicyTrigger.
Orphan(r) ==
  \/ trigger[r].notAfter # Nil /\ trigger[r].notAfter <= now
  \/ ~Live(r)
  \/ request[r].status \in Final

\* doCheckPolicyTrigger: delete a listed orphan by uid.
SweepTrigger(r) ==
  /\ trigger[r] # NoTrigger /\ Orphan(r)
  /\ trigger' = [trigger EXCEPT ![r] = NoTrigger]
  /\ UNCHANGED <<now, store, created, config, listed, work, crashes>>

Tick ==
  /\ now < MaxTime
  /\ now' = now + 1
  /\ UNCHANGED <<store, triggers, config, listed, work, crashes>>

-----------------------------------------------------------------------------
Api ==
  \/ \E r \in Request, duration \in Durations, deadline \in Deadlines :
       CreateRequest(r, duration, deadline) \/ UpdateRequest(r, duration, deadline)
  \/ \E r \in Request :
       CancelRequest(r) \/ RevokeRequest(r) \/ DeleteRequest(r) \/ Review(r)
  \/ \E p \in Priorities : UpdateClusterConfig(p)

Step(t) ==
  \/ Advance(t) \/ BuildTrigger(t) \/ Skip(t) \/ GetTrigger(t) \/ CreateTrigger(t)
  \/ CheckExists(t) \/ UpdateTrigger(t) \/ DropTrigger(t) \/ UpdateRef(t)

Take == ListApproved \/ TakeListed \/ \E r \in Request : TakeEvent(r)

Sweep == \E r \in Request : SweepRequest(r) \/ SweepTrigger(r)

Next ==
  \/ Api \/ Take \/ Sweep \/ Tick \/ Crash
  \/ \E t \in Thread : Step(t) \/ Fail(t)

Spec == Init /\ [][Next]_vars

\* The goroutines run what they are given and the watcher's ticker fires for
\* as long as nocturne runs.  Nothing is promised of users or of the clock.
FairSpec ==
  /\ Spec
  /\ \A t \in Thread : WF_vars(Step(t))
  /\ WF_vars(ListApproved) /\ WF_vars(TakeListed)
  /\ \A r \in Request : WF_vars(TakeEvent(r)) /\ WF_vars(SweepRequest(r)) /\ WF_vars(SweepTrigger(r))

-----------------------------------------------------------------------------
RequestType ==
  [status : Status, rule : Rules \union {NoRule}, duration : Durations,
   deadline : Deadlines, effective : Nat, step : Nat, stepAt : Nat, startAt : Nat,
   endAt : Nat, accessEndsAt : Nat, triggerRef : Nat]

CopyType == [kind : {"PUT", "DELETE"}, rv : Nat, req : RequestType]

TriggerType == [uid : Nat, rv : Nat, notAfter : Nat, priority : -4 .. 0]

PC == {"idle", "reconcile", "get", "put", "exists", "ref"}

WorkType == [pc : PC, r : Request, copy : CopyType, priority : -4 .. 0, seen : TriggerType]

\* Every variable keeps its type: in particular a handler only ever writes a
\* priority that the core API accepts for an inline Policy.
TypeOK ==
  /\ now \in Nat /\ updates \in Nat /\ crashes \in Nat
  /\ stored \in [Request -> {"none", "live", "deleted"}]
  /\ request \in [Request -> RequestType]
  /\ version \in [Request -> Nat]
  /\ feed \in [Request -> Seq(CopyType)]
  /\ trigger \in [Request -> TriggerType]
  /\ created \in [Request -> Nat]
  /\ priority \in Priorities
  /\ configs \in Seq([new : Priorities, old : Priorities])
  /\ listed \subseteq Request \X CopyType
  /\ work \in [Thread -> WorkType]

\* Access is never given beyond the window of its Request: whatever stale
\* copy a handler built the PolicyTrigger from, its NotAfter is the
\* AccessEndsAt the Request has (or had when it was deleted), and there is
\* one.  buildPolicyTrigger itself would build one without NotAfter.
TriggerWithinWindow ==
  \A r \in Request : trigger[r] # NoTrigger =>
    /\ request[r].accessEndsAt # Nil
    /\ trigger[r].notAfter = request[r].accessEndsAt

\* The window is no longer than the Rule copied into the Request allows,
\* however its owner edited the duration before it was approved.
WindowCapped ==
  \A r \in Request : request[r].accessEndsAt # Nil =>
    request[r].accessEndsAt <=
      request[r].endAt + (IF request[r].rule.max > 0 THEN request[r].rule.max ELSE DefaultMaxAccess)

\* A handler that still has to look at r, or that will undo what it did.
Busy(r) ==
  \/ feed[r] # <<>>
  \/ \E item \in listed : item[1] = r
  \/ \E t \in Thread : work[t].pc # "idle" /\ work[t].r = r

\* The deletion of a Request is not undone by a late reconcile of it: once
\* every handler that knew of it has ended, no PolicyTrigger is left, without
\* any help of the periodic watcher.  requestExists is there for this.
DeletionNotUndone ==
  \A r \in Request : stored[r] = "deleted" /\ ~Busy(r) => trigger[r] = NoTrigger

\* An APPROVED Request whose window is open has its PolicyTrigger, and names
\* it, as soon as no handler is at work on it, however the two goroutines
\* that reconcile it interleaved (they may both create, and one of them may
\* lose its write of the reference).
ApprovedIsGranted ==
  \A r \in Request :
    Live(r) /\ request[r].status = "APPROVED" /\ ~WindowPassed(request[r], now) /\ ~Busy(r) =>
      trigger[r] # NoTrigger /\ request[r].triggerRef = trigger[r].uid

Ended(r) == stored[r] = "deleted" \/ request[r].status \in Final

\* No access outlives its Request for ever, even when handlers fail at any
\* point or nocturne restarts and loses events: the sweep of the
\* PolicyTriggers removes what the controller left behind.
EndedLosesAccess ==
  \A r \in Request : <>[](Ended(r) => trigger[r] = NoTrigger)

\* An approval leads to the access it grants (or the Request ends first)
\* when no call fails and no event is lost.
ApprovedGetsAccess ==
  \A r \in Request :
    request[r].status = "APPROVED" ~> (Ended(r) \/ trigger[r] # NoTrigger)

Overdue(r) ==
  /\ Live(r)
  /\ \/ request[r].status = "APPROVED" /\ WindowPassed(request[r], now)
     \/ request[r].status = "PENDING" /\ request[r].deadline # Nil /\ request[r].deadline <= now

\* A Request does not stay APPROVED past its window nor PENDING past its
\* deadline, even when handlers fail or events are lost: the sweep of the
\* Requests ends it (unless its owner moves the deadline).
OverdueEnds == \A r \in Request : Overdue(r) ~> ~Overdue(r)

\* The Request's life as the abstract specification has it.
Phase(r) ==
  IF stored[r] = "none" THEN "absent"
  ELSE IF Ended(r) THEN "closed"
  ELSE IF request[r].status = "PENDING" THEN "pending" ELSE "approved"

Lifecycle == INSTANCE AccessLifecycle WITH
  phase <- [r \in Request |-> Phase(r)],
  window <- [r \in Request |-> request[r].accessEndsAt],
  granted <- [r \in Request |-> trigger[r].notAfter]

\* The controllers implement the abstract life of a Request: decided once,
\* closed for good, one window, access for that window and only after an
\* approval.
ImplementsLifecycle == Lifecycle!Spec

-----------------------------------------------------------------------------
(* What the API's documentation says and the code does not keep.           *)

\* "RevokeRequest [...] the access that has been granted by it, if any, is
\* immediately terminated"; the PolicyTrigger "is removed once the Request is
\* no longer approved": when the controller has handled the end of a Request
\* there is no PolicyTrigger.  The config goroutine may still hold the
\* Request as it was listed, APPROVED, and ensurePolicyTrigger asks only
\* whether the Request exists.
RemovedOnceHandled ==
  \A r \in Request :
    /\ Live(r) /\ request[r].status \in Final
    /\ feed[r] = <<>> /\ work["request"].pc = "idle"
    => trigger[r] = NoTrigger

\* "A change [of the priority] applies to the already approved Requests as
\* well": once every update is handled, the PolicyTrigger of an APPROVED
\* Request has the configured priority.
PriorityApplied ==
  \A r \in Request :
    /\ Live(r) /\ request[r].status = "APPROVED" /\ trigger[r] # NoTrigger
    /\ configs = <<>> /\ ~Busy(r)
    => trigger[r].priority = AllowPriority(priority)
=============================================================================
