# A TLA+ verification of Octelium Enterprise

This directory holds TLA+ specifications of the parts of Octelium Enterprise
whose correctness depends on the order in which things happen, the TLC
configurations that model-check them on small instances, and the proofs of
their main theorems, checked by TLAPS. Paths below are relative to
`src/cluster/` unless they start with `src/`.

1. [The system](#the-system): inventory of the components
2. [The modules](#the-modules): what each module models and how it corresponds to the code
3. [Modelling decisions](#modelling-decisions)
4. [The runs](#the-runs): what TLC checks, the bounds, the fairness
5. [What the code does not keep](#what-the-code-does-not-keep)
6. [The proofs](#the-proofs)
7. [What is not modelled](#what-is-not-modelled)
8. [The plan](#the-plan)

## The system

Octelium Enterprise adds services to an Octelium Cluster. They are Go processes
(and one in TypeScript) that share one **resource store**: a service reached by
gRPC, which keeps typed resources with a uid, a resource version that every
update compares and increments, and a watch that delivers the changes of one
kind of resource to a handler in a goroutine of the watching process.

| Component | State it keeps | Operations | What is hard | What makes it correct |
|---|---|---|---|---|
| **Access Requests**: Request API (`apiserver/apiserver/access`), `common/accesscmd/request.go`, requests controller (`nocturne/.../controllers/requests`), watcher (`nocturne/.../watcher`) | the Request, its PolicyTrigger in the core API | create, edit, cancel, revoke, delete; reconcile; sweep of the Requests and of the PolicyTriggers | two goroutines reconcile the same Request from copies; errors are only logged; events may be lost in a restart | access only after an approval, only for the approved window, and gone in the end |
| **Reviews**: reviewer API, `common/accesscmd/review.go`, reviews controller | the Reviews, `lastSteps` and the current Step of the Request | create, change, withdraw, delete a Review; apply it to the Request | the API and the controller act on copies; several calls of one user; Steps time out | a Step is passed only by its quorum of eligible, distinct users; no decision is lost |
| **Integration bindings**: `controllers/integrationbindings`, `controllers/requests/integration.go` | an IntegrationBinding per Request, Integration and Step | create, deliver, update, close, retry with backoff | delivery to Slack, Jira or a webhook precedes the write of the status; the in-flight map drops events | what is delivered last is the last revision; what is closed stays closed |
| **Integrations**: `controllers/integrations`, `common/accessintg` | provider clients, inbound actions | verify, dispatch a decision to `SetReviewDecision` | duplicated inbound messages | an inbound decision is that of the mapped user |
| **Device bindings**: `controllers/devices`, `controllers/devicemanagers`, `watcher/devwatcher` | the binding of a Device to an entry of a DeviceManager's inventory, its last probe, the DeviceProof of the Session; in memory the Registry of the inventories | reconcile (accept, verify, suspend, lose), displace, reset, sweep, remove a DeviceManager | a claim lock with a TTL; the watch and the sweep work on copies; the proof is written before the binding | one Device per entry; only a lost binding is displaced; nothing is left of a deleted DeviceManager |
| **Sessions controller** | device probes of a Session | stamp, fail | races with the devices controller | a Session is bound to the Device that proved it |
| **ACME certificates**: `cloudman/.../acmec` | certificate status and Secret, an issuance attempt | claim, issue, persist, retry | stale takeover of an attempt | one live attempt; the Secret is that of the recorded attempt |
| **Console agent, runs and store**: `console-agent/src/runs`, `console-agent/src/store` | conversations on disk, active runs and their events | start, checkpoint, finish, cancel, delete, recover | a write that throws or a crash between two writes; a deletion that does not wait for its run; a title that comes late | one active run per conversation; no message lost or doubled; what is deleted stays deleted |
| **Console agent, streaming**: `console-agent/src/runs`, `console-agent/src/agent`, `console-agent/src/octelium`, `console/.../pages/Agent` | the answer under construction, its events and approvals; the view of the web client | emit, snapshot, replay, approve, cancel; load, subscribe, render | deltas that wait in a buffer; a stream that breaks; loads and events that cross | the view shows what the run did; nothing is carried out after a cancellation; an approval is decided once and shown |
| **Resource mirror**: `rscstore/.../reconciliation.go` | a SQL copy of the resources | event, full reconciliation | the listing races with the events | the copy converges to the store |
| **Secrets**: `secretman` | encrypted values, data keys | set, get, rotate | versions out of order, rewrapping in part | a value is decryptable by the key it names |
| **Directory sync**: `dirsync` | Users and Groups of a directory | list, create, update, prune | a listing that fails half way | nothing is pruned after a partial listing |
| **Others**: clusterman, genesis, collector, logstore, metricstore, API servers of the enterprise, visibility, portals | single resources | validated reads and writes, Kubernetes calls, SQL | I/O | not a matter of interleavings |

The chain that matters most is the one from a person asking for access to the
access being given and taken away:

    user --CreateRequest--> Request (PENDING)
      requests controller: matches a Rule      -> REJECTED | in review | APPROVED
      reviewers --SetReviewDecision--> Review
      reviews controller: Steps of the Request -> next Step | APPROVED | REJECTED
      requests controller: access window, PolicyTrigger (the access)
      watcher, owner, administrator            -> EXPIRED | CANCELLED | REVOKED | deleted
      requests controller, watcher: PolicyTrigger removed

All of it runs by messages through the store: the API writes a resource, the
controllers of `nocturne` get its event and write resources in turn. `nocturne`
starts one goroutine per watched kind (`nocturne/nocturne.go:148-159` for the
kinds of interest), and one that runs the periodic sweeps.

The console agent is apart from it: one Node.js process with its files, followed
by the web client through HTTP requests and one event stream per run.

## The modules

| Module | What it is |
|---|---|
| `AccessRequest` | The Request object and the pure functions that compute its next version: matching outcome, access window, expiry, Step timeouts. |
| `AccessGrant` | The requests controller, the Request API, the watcher and the PolicyTrigger of the core API: how a grant is given and withdrawn. |
| `AccessLifecycle` | The abstract specification of one Request's life: absent, pending, approved, closed; its window; until when access is granted. |
| `MCAccessGrant` | The values of the constants of `AccessGrant` for TLC. |
| `AccessGrantProofs` | Type correctness and `TriggerWithinWindow`, and that `AccessGrant` implements `AccessLifecycle`, proved. |
| `AccessWindowProofs` | `WindowCapped` and `DeletionNotUndone`, proved. |
| `AccessApprovalProofs` | `ApprovedIsGranted`, proved. |
| `AccessReview` | The reviewer API and the reviews controller: who decides a Step. |
| `MCAccessReview` | The values of the constants of `AccessReview` for TLC. |
| `AccessReviewProofs` | Every property of `AccessReview` that a run checks, proved. |
| `IntegrationBinding` | The bindings that show a Request in Slack, Jira or a webhook: who creates and updates them, who delivers them, what the external system then shows. |
| `MCIntegrationBinding` | The values of its constants for TLC. |
| `IntegrationBindingProofs` | Its type correctness, `OneObject`, `NeverOverclaims` and `NeverBackward`, proved. |
| `DeviceBinding` | The devices controller, called by the watch and by the sweep, the removal of a DeviceManager and the API that resets a binding. |
| `MCDeviceBinding` | The values of its constants for TLC. |
| `DeviceBindingProofs` | Its type correctness, `OneHolder`, `DisplacedWasLost` and `ProofIsKept`, proved. |
| `AgentRuns` | The runs of the console agent and the files of its conversations, with failed writes, deaths of the process and recovery. |
| `MCAgentRuns` | The values of its constants for TLC. |
| `AgentRunsProofs` | Its type correctness and all its safety properties, proved. |
| `AgentStream` | The answer of a run, its approvals and its events, and the web client that follows them by loads and an event stream. |
| `MCAgentStream` | The values of its constants for TLC. |
| `AgentStreamProofs` | Its type correctness and all its safety properties, proved. |

`AccessGrant` and `AccessReview` both extend `AccessRequest` and meet in one
place: `AccessGrant!Review` is everything `AccessGrant` lets the reviewers do to
a Request, and the property `AccessReview!OutcomeAsAssumed` says that the
reviews of the detailed model do no more than that.

**AccessGrant: state and code.**

| Variable | Code |
|---|---|
| `stored`, `request`, `version`, `feed` | the Request in the store, its resource version, and the events of its watch that the goroutine has not handled |
| `trigger`, `created` | the PolicyTrigger named `access-request-<uid>` and how many of them there were (its uid) |
| `priority`, `configs`, `updates` | the priority in the access ClusterConfig and the update events not handled |
| `listed` | what `OnClusterConfigUpdate` listed and has not reconciled yet |
| `work` | per goroutine: where `doReconcile` stands, and the copies it holds |
| `crashes`, `now` | restarts; the clock |

| Action | Code |
|---|---|
| `CreateRequest`, `UpdateRequest`, `CancelRequest`, `RevokeRequest`, `DeleteRequest`, `UpdateClusterConfig` | the methods of the same names, `accesscmd/request.go`, `userrequest.go`, `mainrequest.go`, `mainclusterconfig.go` |
| `Review` | what the reviews controller may do, see above |
| `TakeEvent` | `OnAdd`, `OnUpdate`, `OnDelete` of the requests controller |
| `ListApproved`, `TakeListed` | `OnClusterConfigUpdate` |
| `Advance` | the first part of `doReconcile`: match a Rule, set the window, expire, write and return |
| `BuildTrigger`, `GetTrigger`, `CreateTrigger`, `CheckExists`, `UpdateTrigger` | `ensurePolicyTrigger` cut at each call it makes |
| `DropTrigger` | `ensureNoPolicyTrigger`, `OnDelete` |
| `UpdateRef`, `Skip` | the end of `doReconcile` |
| `Fail` | any call of the handler returns an error |
| `Crash` | a restart of nocturne |
| `SweepRequest`, `SweepTrigger` | `doCheckRequest`, `doCheckPolicyTrigger` of the watcher |

**AccessReview: state and code.** `request`, `version` and `lastSteps` are the
Request; `review` the Reviews with their resource versions; `feed` the events of
the Review watch; `call` what each API call holds (`accesscmd.SetReviewDecision`:
the Step and the Review it read); `work` what the reviews controller holds (the
Review, the version of the Request, what it decided). `ReadReview`, `AddReview`,
`ChangeReview`, `KeepReview` and `ChangeMetadata` are the API methods cut at
their writes; `TakeEvent`, `ReadRequest`, `ListReviews`, `WriteRequest` the
controller cut at its reads. `approved` and `lapsed` are history variables: they
remember what was ever recorded and who was ever not active, and no action
reads them.

**IntegrationBinding: state and code.** It has one Request of its own, reduced to
what is shown of it: `ChangeRequest` appends a version wherever `AccessGrant` and
`AccessReview` write one that a presentation tells apart, so a revision (the
hash of a presentation) is the number of a version.

| Variable | Code |
|---|---|
| `versions`, `live`, `requestFeed` | the Request, whether it is stored, its watch events that the requests controller has not handled |
| `binding`, `events` | the IntegrationBindings and the number of their events not handled; `waiting` stands for a `NextAttemptAt` in the future |
| `ensure` | per goroutine of the requests controller: where `ensureIntegrationBindings` or `deleteIntegrationBindings` stands, with the items it listed |
| `inFlight`, `work`, `swept` | the controller's in-flight map; per goroutine the binding it read and the one it will write; what the watcher listed |
| `object` | the messages or issues in the external system: the revision each one shows |
| `enabled`, `disturbances`, `overtaken` | the Integration; the bound; a history of the deliveries that failed or lost their write, read by no action |

| Action | Code |
|---|---|
| `TakeRequestEvent`, `TakeConfigEvent`, `ListBindings`, `CreateBinding`, `UpdateDesired`, `FailEnsure` | `ensureIntegrationBindings` cut at its calls |
| `TakeDeletion`, `DropBinding`, `DropDone` | `OnDelete`, `deleteIntegrationBindings` |
| `TakeEvent`, `ListDue`, `TakeSwept` | `OnAdd`/`OnUpdate`, and `runIntegrationBindings` of the watcher; both call `Reconcile` |
| `Acquire`, `ReadRequest`, `Deliver`, `DeliverFails`, `WriteStatus`, `ReleaseBinding`, `FailDelivery` | `Reconcile` and `deliver` cut at each call |
| `RecordEventID` | an accepted inbound action, which writes the binding too |

**DeviceBinding: state and code.** One DeviceManager, whose inventory is the
relation `fits`: the entries whose serial number or addresses, and whose owner,
agree with a Device.

| Variable | Code |
|---|---|
| `device` | per Device its `Binding` (state, uid, entry, validity) and its `ProbeAttempt`. The validity `disabled` and `contradicted` are SUSPENDED with these reasons |
| `proof` | the `BindingUID` of the `DeviceProof` of the Session of each Device |
| `exists`, `registry`, `fits` | the DeviceManager in the store; its owner in the `Registry` (`ready`, `stale` for an inventory that is too old or not collected yet, `disabled`, `none`); what the last poll found |
| `lock` | the claim lock of each entry: the goroutine that has it, or a lease of a process that is gone |
| `act`, `stale` | per goroutine (watch, sweep) how far `doReconcileDevice` is with which Device, and whether its copy is outdated, so that `UpdateDevice` will conflict. `act[a].dev` is the mutex of `LockDevice` |
| `events`, `sweep`, `removal` | the watch events that `isReconcileRequired` lets through; what `doSweep` and `ResetBindingsForOwner` have listed |
| `changes`, `overrun`, `everLost` | the bound; history: the entries whose lock expired under its holder, the bindings that were LOST |

| Action | Code |
|---|---|
| `TakeEvent`, `SweepReconciles` | `reconcileDevice` up to its first call: `ReconcileAccepted` and `ReconcileUnbound` compute what `reconcileAccepted` and `reconcileUnbound` decide |
| `Claim`, `GiveUp`, `Supersede`, `Prove`, `Write`, `Retry` | `accept` cut at its calls: `lockClaim` with `getClaimHolder`, `supersede`, `setSessionProof`, `updateDevice`, and the retry of the whole handler after a conflict |
| `List`, `SweepResets` | `doSweep`, `sweepDevice` |
| `RemoveOwner`, `RemovalResets` | `doRemove`, `ResetBindingsForOwner` |
| `ResetDeviceBinding`, `DeleteManager` | the API of the same names, which takes no mutex |
| `SubmitProbe`, `DeleteDevice` | the core of Octelium, external |
| `Poll`, `SetOwner`, `Restart` | `worker.poll`; `sync` of the devicemanagers controller; a restart and `Resync` |
| `Fail`, `Expire` | a call that fails and its handler with it; a lease that ends |

**AgentRuns: state and code.**

| Variable | Code |
|---|---|
| `meta`, `log`, `torn`, `pending` | a conversation's `conversation.json`, the lines of its `messages.jsonl`, whether that ends in the middle of a line, and the run of the message in `pending.json` |
| `work` | whether `session/` or `results/` of the backend is in the directory of a conversation |
| `up`, `conv`, `run`, `active`, `deleting` | the process; `conversations` of the store; `runs` and `activeByConversation` of `RunManager`; the deletions that wait in `cancelConversation` |
| `job` | the handler at work and the writes it has still to make |
| `faults` | how often a write threw or the process died |
| `reported`, `saved`, `removing`, `deleted`, `outlived`, `named`, `everTorn` | history: what the clients were told, what was checkpointed, what was removed (and whether a run was still going then) or torn. `CreateConversation` reads `deleted` to pick a new id |

| Action | Code |
|---|---|
| `CreateConversation`, `StartRun`, `Launch` | `createConversation` and `startRun` with the calls of `generateTitle` and `execute` at its end |
| `Change`, `Persist` | `schedulePersist` and its timer |
| `WriteWork` | `createSession` makes the directory of the session (`backend.ts:438`); a tool writes a large answer or a download to the results (`octelium.ts:326`, `web.ts:281`) |
| `BackendReturns`, `Finish` | the two ends of `finalize` |
| `Cancel`, `Rename`, `TitleReturns`, `Delete`, `DeleteTimesOut` | `cancel`, `updateConversation`, `generateTitle`, `deleteConversation` with `cancelConversation` |
| `AppendUser`, `AppendAnswer`, `AppendRecovered`, `Save`, `New`, `Checkpoint`, `Clear`, `Forget`, `RemoveFile`, `Removed` | the writes of the store, in the order in which the handlers make them |
| `Throw`, `Crash` | a write throws, with what its handler does then; the process dies, also in the middle of an append |
| `Boot`, `Load`, `Serve`, `ThrowInit` | the start of the process and `init` of the store |

**AgentStream: state and code.**

| Variable | Code |
|---|---|
| `run` | `ActiveRun` and `MessageBuilder`: state, status, `pendingDeltas`, pending approvals, the message, the events |
| `stored`, `call`, `executed` | the answer in the store; how far the backend is with each tool call; history of the calls carried out |
| `chat`, `es` | the client's `ChatState`; the effect that subscribes, its `EventSource`, the last event received and the last one shown |
| `loads`, `posted` | the requests of `load` and of `startRun` under way |
| `inside`, `enters`, `faults` | whether the conversation is selected; the bounds |
| `overtaken` | history: an older load replaced a newer view; nothing is followed past it, see below |

| Action | Code |
|---|---|
| `TextStart`, `TextDelta`, `TextEnd`, `CallOffered`, `CallStarts`, `CallEnds` | the events that the backend maps (`agent/pi`) |
| `CallAsks`, `Decide` | the approval of a tool, `requestApproval` and `decideApproval` |
| `FlushTimer`, `Cancel`, `Finalize`, `Expire` | the timer of the deltas, `cancel`, `finalize`, the retention |
| `GetConversation`, `Connect` | `getConversation` with `getSnapshot`; `streamEvents` with `subscribe` |
| `Send`, `SendElsewhere`, `StartReturns` | `startRun`, of this client or of another one of the user, and its answer |
| `Enter`, `Leave`, `LoadReturns`, `Deliver`, `Frame` | `useConversation`: the selection, `load`, an event that arrives, the animation frame that applies the queue; `Render` is the state update with the effect that runs again when the run is another |
| `Drop`, `Refuse`, `LoadFails`, `StartLost`, `Restart` | a connection that breaks or is refused, requests that fail, the server's restart |

`requestApproval` of the code, its answer and the end of a run are one operator
each (`Requested`, `Answered`, `Finished`, `Finalized`) that pushes the events in
the order of the code; `AgentRuns` and `AgentStream` model the same
`RunManager` with different cuts, the first by its writes to the disk, the
second by its events.

## Modelling decisions

* **The store is external.** An update is a compare-and-swap on the resource
  version. A handler that reads an object, computes the next version and writes
  it therefore has no effect or acts on what is stored: it is one action.
  A handler is cut into several actions where it acts on a copy that nothing
  compares: an event, an item of a list, the priority, the PolicyTrigger it saw,
  the list of the Reviews.
* **Watches.** A watch delivers the events of one object in order; the events
  of different Requests in any order, one at a time. The Reviews have one
  queue. Nothing is delivered twice.
* **Errors.** The watch goroutines log the error of a handler and go on. It is
  not retried. `Fail` may end a handler at any point.
* **Restarts.** `Crash` ends the handlers and may lose the events that were not
  handled. The controllers of Requests and Reviews list nothing when they
  start, unlike those of Devices and certificates.
* **Time.** The clock is constant within one action and read by the write that
  stores it. Times are natural numbers, 0 being an unset message. Sub-second
  durations are not told apart from seconds.
* **Data.** The `lastStates` history, names, justification, urgency, origin and
  resource of a Request are left out: no property tells them apart. Which Rule
  matches a Request is any choice of `Rules`, or none; the evaluation of
  conditions is not modelled. A user is a reviewer directly or by a group: a
  Step has the set of them. The state `STATUS_UNKNOWN` cannot occur since
  `CreateRequest` sets `PENDING` (a mutant that removes this is caught).
* **The reviewer API.** `CreateReview`, `UpdateReview`, `CancelReview` and
  `SetReviewDecision` share the actions: their preconditions only restrict the
  Review that may be found. `HasReviewBeenApplied`
  (`common/accesscmd/review.go:128`, `402-420`) looks for the Review at an
  *earlier* Step while the Review was found by the *current* one, so it never
  refuses; the model has no guard for it. The decision of a call is chosen at
  its write, as nothing uses it before. The `setAt` of an applied Review is
  abstracted, so a write that changes only that may be skipped.
* **Cut off.** The maximum of 32 pending Requests is not reached. In
  `AccessGrant` the IntegrationBindings are left out, as no Request reads them;
  the failure of their deletion in `OnDelete` is a `Fail`. The check of an orphan PolicyTrigger and its deletion are one
  action, because an orphan stays one and the deletion is by uid.
* **Integration bindings.** The events of a binding are counted, since a handler
  reads the binding again. The number of attempts and the length of the backoff
  are abstracted: `Elapse` says that the wait ends. Errors of the provider
  before its call (`getProvider`, no recipient) are a `DeliverFails` without
  effect; a failed or interrupted call may have had its effect. A call to the
  external system that was made when nocturne stopped either happened
  (`Deliver`, then `Crash`) or did not. The reconcile of the Request that
  precedes `ensureIntegrationBindings` is merged with the event that causes it;
  when it fails, which it does on a conflict, a later event exists. The resolution of
  destinations and users and the cache of providers are left out: the
  destinations of a Request are a fixed set `Binding`. The Reviews that a
  presentation lists are read with the Request.
* **Device bindings.** A goroutine looks at what it holds only when it decides
  and when it writes, so a copy is a record and whether it is outdated. The uids
  of bindings are used again once nothing refers to them. `List` reads the
  Devices and the DeviceManagers in two steps, as the code does. Several
  DeviceManagers and their order, conditions, posture, assurance, the
  verification interval, probes that are still under way, which field of an entry
  disagrees (a mismatch of the owner is `ambiguous`), the linking status and a
  retry that is used up are left out.
* **The agent's process.** Node.js runs one handler to its end or to an `await`,
  so handlers do not interleave; they are cut at their writes because the process
  may die and each write may throw. `finalize` lets a deletion that waits go on
  before any other handler. The runs of other conversations are the choice of
  `CreateConversation` to be refused (429), after which the conversation that was
  just created is deleted again. An input always has a text and a conversation is
  created with a message and without a title; a user's titles are one value.
  A shutdown is `Cancel` of every run and a `Crash`.
* **The files of the backend.** What `session/` and `results/` contain is left
  out; `work` says whether one of them is there. They are made after an `await`,
  with the directories above them and without a look at the store, so `WriteWork`
  asks only that the backend has not returned; the tools of a run are taken to be
  over by then. The store removes them with the directory. Where the
  session file is recorded (`setSessionFile`) looks at the store first, and only
  writes `conversation.json` as it is in memory.
* **What the agent's code does, kept as it is.** A deletion that has waited 10 s
  goes on while its run is active. A `throw` after the run is in
  `activeByConversation` leaves it there: it is `stuck`, and the conversation can
  start no run until a restart.
* **The agent's stream.** The text of an answer is its length: what counts is
  whether a piece is repeated, lost or out of order. An answer has a text or
  calls; the model writes only while none of its calls is carried out, and makes
  a second call only while the client is away. User messages, activities, usage
  and error blocks are left out.
* **What `AgentStream` does not follow.** A view that an older load overtook
  (`overtaken`): the client keeps no order among the answers to its loads, and a
  behaviour is not followed past the first time this matters. A view whose
  `EventSource` was refused for good while the run goes on (`Detached`) and one
  that is empty because its load failed are followed, and excused by the liveness
  properties (`Disturbed`). The section on what the code does not keep lists them.

## The runs

| Run | Checks | Bounds |
|---|---|---|
| `grant_core` | `TypeOK`, `TriggerWithinWindow`, `WindowCapped`, `DeletionNotUndone`, `ApprovedIsGranted`, refinement of `AccessLifecycle`, `ApprovedGetsAccess` | one Request; Rules: deny, auto-approve (maximum 1), review without Steps (invalid), review of two timed Steps; durations unset and 3; 2 instants of the clock; edits up to version 2; one ClusterConfig update; no failures |
| `grant_faults` | `EndedLosesAccess`, `OverdueEnds` | one Request; auto-approve and a timed review; deadlines unset and 2; any call may fail; one restart that may lose events |
| `review_steps` | `TypeOK`, `LastStepsConsistent`, `OutcomeAsAssumed` | two users, one of them the requester and subject; ANY then ALL with a timeout, and ALL; one API call at a time; 3 Reviews of 2 versions; one disturbance of any kind |
| `review_race` | `DecisionsHandled`, `PassedByQuorum` | COUNT 2; two API calls in flight (symmetric), also of one user; 2 Reviews of 2 versions; one edit or deletion |
| `binding_delivery` | `TypeOK`, `OneObject`, `NeverOverclaims`, `NeverBackward`, `RetriedUntilApplied` | one binding of the first of two Steps; three versions of the Request; one disturbance of seven kinds (failure, restart, inbound action, deletion, a write that is not shown, ClusterConfig update, Integration switched) |
| `device_binding` | `TypeOK`, `OneHolder`, `DisplacedWasLost`, `ProofIsKept`, `BindingsSettle` | two Devices, two entries; an inventory in which both Devices fit one entry, and one in which each fits one of its own; any two changes of fifteen kinds: of users, of the provider, of the DeviceManager, faults |
| `agent_runs` | `TypeOK`, `ReportedIsStored`, `TranscriptInOrder`, `RepeatedOnlyByRecovery`, `CheckpointIsKept`, `OneRunAtATime`, `DeletedStaysDeleted`, `UserTitleIsKept`, `StoppingEnds` | one conversation, two runs, two faults |
| `agent_stream` | `TypeOK`, `LogExplainsMessage`, `ApprovalsAreTruthful`, `NothingExecutedAfterCancel`, `ViewIsTruthful`, `ViewSettles`, `ApprovalIsShown` | one run that is over and one that is followed; two tool calls or a text that grows twice; one event received between two frames; one return to the conversation; one fault |
| `doc_revoked`, `doc_priority`, `doc_decision` | one documented statement each, found violated | as small as the counterexample allows |
| `doc_closed` | `OutstandingClosed`, found violated | two bindings of the same Step, two versions, no disturbance |

Why the bounds are enough to be interesting: one Request suffices for
`AccessGrant`, since handlers of different Requests share nothing but their
goroutine; two goroutines, the sweep, the API and the review outcome already
interleave on it at every call. The default window is 2 and the clock reaches 2,
so that windows close before, while and after the trigger is created. In
`AccessReview` two users are the least that tell ANY, ALL and COUNT 2 apart,
three Reviews allow a duplicate and a Review of the next Step, two versions a
changed decision. `MaxDisturbances = 1` places one outside event anywhere in
every behaviour; each kind is allowed. In `IntegrationBinding` the bindings of a
Request share only the goroutine and the order in which
`ensureIntegrationBindings` goes through them: one binding shows everything
about a delivery, two are needed for `doc_closed`, where a conflict on one
leaves the other behind. Three versions allow one to be written while another
is delivered and a third is desired. In `DeviceBinding` two Devices are the
least that can hold or want one entry, and the second inventory takes the entry
from one of them, so that it is lost, displaced and bound anew. Two changes place
any two events anywhere, such as a lock that expires and a poll, a probe and a
failed write; with three, and without the liveness property, the safety
properties hold as well (9.4 million states of an earlier form of the model).
In `AgentRuns` the conversations share
nothing but the limit of runs; two runs are the least that can overlap or get
into each other's transcript, and two faults the least for a death in the
recovery from an earlier one, or for a restart after a torn line. In
`AgentStream` the run that is over gives the view something to be stale about,
the second one is followed from its start to its end; two calls are pending
together, two deltas may be split between a snapshot and the stream; one fault of
five kinds falls anywhere.

**What the properties say.** `TriggerWithinWindow`: a PolicyTrigger always ends
at the `accessEndsAt` of its Request, though it is built from copies and
`buildPolicyTrigger` itself would build one without end. `WindowCapped`: no
edit of the duration lengthens the window past the Rule's maximum.
`DeletionNotUndone`: a reconcile that is late does not leave a grant for a
deleted Request. `ApprovedIsGranted`: when no handler is busy with an approved
Request it has its PolicyTrigger and names it, although both goroutines may
create and either may lose. `ImplementsLifecycle`: decided once, closed for
good. `PassedByQuorum`: a Step is passed only on recorded approvals of enough
different eligible users. `LastStepsConsistent`: the account the Request keeps
of applied Reviews is that of its Steps. `DecisionsHandled`: when all events are
handled and nothing disturbed the review, the current Step is undecided. The
liveness properties say that an approval leads to access, that access goes away
and that overdue Requests end. `OneObject`: two goroutines never create two
messages for one binding while no delivery fails; `overtaken` names what
excuses a second one. `NeverOverclaims`: the recorded status is never ahead of
the external system, although the write of the status can be lost.
`NeverBackward`: an external object never shows an older version than it did,
whatever copy it is delivered from. `RetriedUntilApplied`: no event that was
dropped because the binding was in flight, no lost write and no failure leaves
a binding behind its desired revision forever.

Of the Devices: `OneHolder` says that the claim lock, the list of the holders
and the comparison of versions together keep an entry to one Device, whatever
the watch, the sweep, resets and restarts do, as long as the lock does not
expire under a handler that goes on; `DisplacedWasLost` that a claim takes an
entry only from a binding that was LOST, although it lists the holder first and
writes later; `ProofIsKept` that an attempt is not used up before the Session
that made it is proved for the very binding that is stored, although the proof
is written first and the write may conflict; `BindingsSettle` that once nothing
changes any more, nothing is bound to a deleted DeviceManager and a Device that
alone has an entry gets it, although events are lost in a restart and handlers
that decided before the removal write after it.

Of the agent's files: `ReportedIsStored` says that a run whose end the clients
were told has exactly one readable answer, with that outcome, whatever failed or
died since; `TranscriptInOrder`, `RepeatedOnlyByRecovery` and `CheckpointIsKept`
that a conversation is the account of its runs one after the other, that only
the recovery repeats an answer and that no checkpointed message is lost but to a
torn line, and that a conversation says it has an active run only while it has
it; `OneRunAtATime` that no fault lets two runs into one conversation;
`DeletedStaysDeleted` that
the store never has a conversation again whose deletion was acknowledged, neither
in memory nor on disk, although its run may outlive the deletion and has a
checkpoint, a title and an answer to store, and that its directory comes back
only with the session or the results of such a run; `UserTitleIsKept` that a
generated title never replaces the user's; `StoppingEnds` that cancellations
and deletions come to their end. Of the stream:
`LogExplainsMessage` says that the events and the deltas that wait replay to the
answer, so that a snapshot and a replay agree; `ApprovalsAreTruthful` that a run
says it waits for an approval exactly while one is pending;
`NothingExecutedAfterCancel` that a call approved late is not carried out;
`ViewIsTruthful` that the screen shows what the events up to the last one shown
give, without repetition or gap, and the stored answer once it shows the end; `ViewSettles` and `ApprovalIsShown` that the
view comes to the end of its run and to the approvals it waits for.

**Fairness.** `FairSpec` assumes weak fairness of each step of a handler, of
taking the next event or listed Request, and of the two sweeps per Request:
goroutines run until they return and the watcher is driven by a `time.Ticker`.
Each `Fail` also ends a handler. Nothing is assumed of users, of reviewers, of
the clock, or that calls succeed. `AccessReview` has no liveness property.
In `IntegrationBinding` `DeliverySpec` assumes it of each goroutine that
delivers, the watcher's driven by its ticker, and of the passing of time
(`Elapse`), and nothing of the requests controller: what it recorded is
delivered even if it stands still. `FairSpec`, for `doc_closed`, adds its
goroutines, so that the counterexample does not come from their rest.
In `DeviceBinding` weak fairness of the watch, of the sweep, which a
`time.Ticker` drives, of the removal, and of the end of a lease whose process is
gone. `Fail` ends a handler, a failed reset is not retried; nothing is assumed of
users and providers.
In `AgentRuns` a handler that began goes on and the process is started again
(weak fairness); a cancelled run comes back from the backend, whose library is
told to abort, and the timer of a deletion fires (strong fairness, as other
handlers may run in between; the event loop takes timers in their order). A run
that is not cancelled need not end. In `AgentStream` weak fairness of `Progress`:
timers fire, answers arrive, an `EventSource` connects again, frames are drawn.
Nothing is assumed of the backend, the model or the user.
`CHECK_DEADLOCK FALSE` is set because the system may rightly rest: nobody is
obliged to do anything, and the counters are bounded.

Every property is paired with a mutant: an operator (commented `Mutation of
...`) that changes one definition as a plausible bug would, and under which TLC
finds the property violated.

## What the code does not keep

Four runs end with a counterexample to what the documentation of the API says.

* `doc_decision`: a reviewer's decision can be lost. The reviews controller
  writes the Request it read by compare-and-swap
  (`controllers/reviews/ctl.go:175`); if the owner edits the Request in
  between, the conflict is logged and nothing applies the Review again, nor is
  there a sweep for it.
* `doc_revoked`: a revoked Request can be granted again for a while. The
  goroutine of the ClusterConfig still holds it as it was listed; after
  `CreatePolicyTrigger` only the *existence* of the Request is checked
  (`controllers/requests/ctl.go:457`). The sweep of the PolicyTriggers
  removes it later (`EndedLosesAccess`, checked).
* `doc_priority`: a handler that read the priority before it changed writes it
  after the update was handled (`controllers/requests/ctl.go:544`).
* `doc_closed`: a message can ask for a decision after the Request was
  cancelled. `ensureIntegrationBindings` returns at the first conflict with the
  delivery of another binding (`controllers/requests/integration.go:88`); the
  bindings it did not reach keep their old desired revision, which they show,
  so that they are not due, and a final Request has no further event.

Some of what the code does contradicts a comment or surprises, without a run of
its own:

* `UpdateRequest` changes the duration of a Request in review without computing
  `effectiveDuration` again (`apiserver/apiserver/access/userrequest.go:163`),
  although the API's comment calls it the Request's duration capped by the Rule;
  the window stays within the Rule's maximum (`WindowCapped`).
* Two Devices that hold one entry after a claim lock expired under its holder
  (`controllers/devices/ctl.go:1056`) both stay: `reconcileAccepted` does not look
  for other holders.
* A holder that was listed as LOST and verified again before `supersede` reads it
  is displaced although it is VALID (`ctl.go:621` compares the uid and the state).
* A binding that is LOST stays on its entry, and is not moved to the one its
  Device fits by now, until it is displaced or reset.
* That a probe contradicted a binding is forgotten when its DeviceManager is
  disabled and enabled, or its entry vanishes and returns: the reason is
  overwritten (`ctl.go:678`, `748`).
* After a conflict of the write the DeviceProof of a Session may name a binding
  that was never stored (`ctl.go:531`), until the Device is proved again.

* The directory of a deleted conversation may come back: a run that outlives the
  10 s wait of the deletion creates its session directory (`backend.ts:438`) or
  writes results (`octelium.ts:326`, `web.ts:281`) without asking whether the
  conversation is still there. The next `init` passes over a directory without
  `conversation.json` (`conversations.ts:124-130`), so that the conversation stays
  deleted (`DeletedStaysDeleted`), but nothing ever removes those files.

What the web client of the agent does not keep has no run: no documentation
promises it, and `AgentStream` excludes it by name where it would be met.

* A load that was answered before a run was started, or before another load, may
  arrive last and replace the newer view (`useConversation.ts:77`); events that
  are queued then are applied to it, so that text is doubled (`overtaken`).
* An answer to `startRun` that comes after events of that run sets `lastSeq` back
  to 0 (`useConversation.ts:229`), with the same effect (`overtaken`).
* An `EventSource` that gets an HTTP error is closed for good (`client.ts:256`);
  when the load that follows finds the run still active, nothing subscribes again
  (`useConversation.ts:163-185`, `Detached`).
* A load that fails empties the view (`useConversation.ts:93-97`), and a `startRun`
  whose answer is lost leaves the view idle while the run goes on (`Disturbed`).
* An event of another run than the one shown becomes the last event of the view
  (`reducer.ts:46`); a test marked as todo asks for the opposite
  (`agentProtocol.test.mjs:257`).
* A run cancelled while its session is synchronised is aborted before its prompt
  is sent (`backend.ts:591`); its calls that need an approval are refused all the
  same (`NothingExecutedAfterCancel`).

## The proofs

TLAPS proves, for every value of the constants (any Requests, Rules, users,
bindings, Devices, inventory entries, conversations, runs, and any number of disturbances or faults unless
the third column says otherwise):

| Theorem | Module | Property and assumption |
|---|---|---|
| `TypeCorrect`, `AccessBounded` | `AccessGrantProofs` | `TypeOK`, `TriggerWithinWindow` |
| `Refinement` | `AccessGrantProofs` | `ImplementsLifecycle` |
| `WindowCorrect` | `AccessWindowProofs` | `WindowCapped` |
| `DeletionCorrect` | `AccessWindowProofs` | `DeletionNotUndone`, if no call fails and nothing restarts |
| `ApprovalCorrect` | `AccessApprovalProofs` | `ApprovedIsGranted`, if no call fails and nothing restarts |
| `ReviewTypeCorrect`, `LastStepsCorrect`, `QuorumCorrect`, `OutcomeCorrect`, `DecisionsCorrect` | `AccessReviewProofs` | `TypeOK`, `LastStepsConsistent`, `PassedByQuorum`, `OutcomeAsAssumed`, `DecisionsHandled` |
| `BindingTypeCorrect`, `OneObjectCorrect`, `ClaimsCorrect`, `BackwardCorrect` | `IntegrationBindingProofs` | `TypeOK`, `OneObject`, `NeverOverclaims`, `NeverBackward` |
| `DeviceTypeCorrect`, `OneHolderCorrect`, `DisplacedCorrect`, `ProofKept` | `DeviceBindingProofs` | `TypeOK`, `OneHolder`, `DisplacedWasLost`, `ProofIsKept` |
| `RunsTypeCorrect`, `OneRunCorrect`, `ReportedCorrect`, `DeletedCorrect` | `AgentRunsProofs` | `TypeOK`, `OneRunAtATime`, `ReportedIsStored`, `DeletedStaysDeleted` |
| `RepeatCorrect`, `TitleCorrect`, `CheckpointCorrect`, `TranscriptCorrect` | `AgentRunsProofs` | `RepeatedOnlyByRecovery`, `UserTitleIsKept`, `CheckpointIsKept`, `TranscriptInOrder` |
| `StreamTypeCorrect`, `EventsExplainTheAnswer`, `ApprovalsAlwaysTruthful`, `NothingIsExecutedAfterCancel` | `AgentStreamProofs` | `TypeOK`, `LogExplainsMessage`, `ApprovalsAreTruthful`, `NothingExecutedAfterCancel` |
| `ViewsAreTruthful` | `AgentStreamProofs` | `ViewIsTruthful`, which is about views no load has overtaken |

The assumptions on the constants are named in the modules that declare them:
`DefaultMaxAccessAssumption` and `GrantAssumption` (the default maximum is
positive, times are natural numbers, the API server has accepted the
priorities), `ReviewAssumption` (finitely many users; the Rules have passed
`validateReviewAction`), `BindingAssumption` (there is a binding, Steps are
natural numbers), `DeviceAssumption` (finitely many Devices, uids are positive,
`None` is none of the other values), `RunsAssumption` (there is a conversation,
runs are numbered), `StreamAssumption` (runs are numbered from 1 and one of them
is the first, finitely many calls, a backend returns that a run completed or
failed). The bounds of the text, the queue, the returns and the faults are any
numbers.

`TriggerWithinWindow` is not inductive: a PolicyTrigger is built from a copy of
the Request, which may be old. The invariant `IInv` of `AccessGrantProofs` adds
what makes an old copy harmless: wherever a copy is held (`FeedOK` in the watch,
`ListedOK` in the list, `WorkOK` in a handler) it is never newer than what is
stored, equal to it when it has its version, and *if it has an access window it
is the window that is stored*: `ensureAccessEndsAt` sets the window once.
`BuiltOK` says that a handler past `BuildTrigger` holds a copy that has one.
The lemmas on `AccessRequest` (what each function does to the window and to the
type) are proved first, then one lemma per group of actions.

The refinement needs one more invariant, `PendingOK`: a pending Request has
neither an end of the wait nor a window. With it each function of
`AccessRequest` is shown to produce a version that *follows* the one it was
given (the relation `Follows` on single Requests), each action is classified as
`Quiet`, `Moved(r)` or `Granted(r)`, and each class is mapped to a step of
`AccessLifecycle` or to a stutter.

`WindowCapped`: the length of a window is decided when the Rule is matched and
the window is fixed later, from a copy. `Capped` follows the Rule, the duration
it gave and the window together. `DeletionNotUndone` and `ApprovedIsGranted` ask
*who still answers*. For a deletion (`Answered`) it is the event of the deletion
or a handler that created the PolicyTrigger and has not yet looked for the
Request. For an approval it is the event of the last version, a handler whose
copy is the last version (`Serving`), or nobody once the reference is stored;
`HeldOK` says that of the approved versions with a window only the last one is
without reference, so that a handler of an older copy cannot take the work from
the one that serves. Both need that no handler is cut off: a failed one is not
retried, which is why they assume it.

`AccessReview`: the controller decides from copies. `IInv` says what a copy is
good for: an approval it holds was recorded (`Backed`), it names a Review of the
same Step (`HeldOK`), and while the Request has the version that was read, what
the controller is about to write is right for it (`Current`). `DecisionsHandled`
needs more: `Settled` says that the decisions that are not *awaited*, because
neither an event nor the controller will still see to them, do not decide the
Step, unless the controller is about to write what they decide. That an event
which is not forced is enough rests on `FirstEvents` (it is the first of its
Review and comes before the Review is applied), and that passing over a Review
is safe on `Copies` (the controller's copy is what is stored, or an event says
that it is not).

`OneObject` is not inductive either: whether `Deliver` creates a second object
depends on the copy of the binding in hand. `DeliveryInv` says that who delivers
a binding does so alone (`Exclusive`, from the in-flight map), that its copy has
the version and the external id that are stored (`Fresh`), that it creates only
where there is no object (`NextKept`) and that an existing object is named by
the binding or about to be (`Recorded`). `Fresh` and `Recorded` hold only while
the Request lives, since its deletion deletes the bindings; `DropOK` says that
nothing deletes them before. Each action is then one of a few kinds of step
(`Quiet`, `WrittenByOther`, `Created`, `WithoutRequest`, `Acquired`) or one of
the five steps of a delivery, with a lemma each. `ClaimsInv`, for the other two,
says that no copy of a binding claims more than was delivered (`CopiesClaim`) and
that what is being delivered is not older than what is shown (`NewestDelivered`);
it needs no exception for a delivery that was disturbed.

`OneHolder` of `DeviceBinding` is about stored Devices, but what is written was
decided earlier. `IInv` of `DeviceBindingProofs` says for each handler what is
true until it writes: it has the lock of the entry it claims unless that expired
(`LockOK`), so that the entry is free or held only by the binding it is about to
displace (`ClearOK`); while its copy is not outdated, the Device is as its plan
assumes (`FreshOK`, `Sound`); the binding it displaces was LOST (`LostOK`); and
the Session is proved before the binding is written (`ProvedOK`). For the copies
of the sweep `SweepOK` says that what is not marked as outdated is what is
stored, and `Mutex` that two handlers are never at work on one Device. A step
changes at most one Device; `Bystander` shows once what a handler keeps while
others take steps, and only `Write` and `Supersede` need an argument of their
own: of two handlers that claim one entry the lock admits one. Only `OneHolder`
needs the exception for expired locks.

`ReportedIsStored` rests on the order of `finalize`. `IInv` of `AgentRunsProofs`
says for each handler what it has done, given what it has still to do (`JobOK`),
who holds a conversation (`OwnerOK`), whose the lines and the checkpoint may be
(`LogOK`) and what is stored of a run (`RunOK`). `DelOK` adds that a deleted
conversation is not in memory, that its deletion is not waited for, and that a
handler of it can only be the end of a run that stores nothing. `DirOK`, about
the files of the backend, says that a conversation whose run was over when its
deletion was acknowledged has no file and no run that goes on; it rests on
`DelOK`, which keeps a run of a deleted conversation from being launched.

The other four theorems about the agent each add a part to `IInv`. `RepeatOK`: a
run that may still be answered has no answer yet, until `finalize` is past its
answer. `TitleOK`: what is on disk and what is in memory of a named conversation
both have the user's title, and no handler is at work that still writes another.
`HeldOK`, for the checkpoints, relates the two copies of a conversation to the
run that holds it and to what a handler has still to do: a mark or a checkpoint
without a live run exists only while the process is down or `init` has its
removal to come. `SavedOK` says that what was checkpointed is in `pending.json`
or in the conversation, in `init` too, which takes the checkpoint away only
after it has appended the message. `OrderOK`, for the transcript, says that the
last line of a conversation is of the run that may still be answered and of its
checkpoint, and that a run whose message is still to be appended is later than
every line; it uses `HeldOK`, without which the recovery could append the
message of an old run behind a new one.

The invariant of `AgentStreamProofs` has two halves. `ServerInv` is about the
server alone: a run at work is `Good`, that is, its events and the deltas that
wait give its answer (`Explained`), it says that it waits exactly while an
approval is pending, and only the last event of a run that is over says that it
is over (`InShape`); a run that is over is `Over` and stored as it ended. Each
operator of `RunManager` (`SetTool`, `Requested`, `Finished`, `Dismissed`,
`Settled`, `Finalized`, ...) is shown to keep a run good and only to let its
events grow, and each action of the server to apply such an operator. Three
theorems follow from this half. `NothingIsExecutedAfterCancel` needs that a
cancelled run has no pending approval left, since a decision looks only there.

`ViewIsTruthful` is not inductive. A view is as good as the number of its last
event, but the events that are queued, the answers to loads under way and the
answer to `startRun` change it later, and its own run may end, restart and be
forgotten in between. `ClientInv` therefore says of the view *and of every
answer to a load under way* that it is what the events of its run give up to a
number (`ViewAt`); that what they have of other runs is nothing or what is
stored (`OthersOK`); that the subscription is the one the view wants and its
queue holds events of that run (`SourceOK`); and that the load an `EventSource`
asks for when it closes has at least what it brought (`LastLoadOK`), without
which the view could go back behind events it has shown. Of the server this uses
only that the events of a known run grow and that a run that is over stays as it
is (`Steps`), so `ClientStays` shows once that every step of the server keeps
the client right, and each step of the client is proved with a server at rest.
One case is weaker than it looks: a late answer to `startRun` shows a run that is
over already, with its stored answer, as running from its first event, and its
events come a second time. `Shows` admits this, and that the second event
replaces the answer is why it does no harm.
TLC found the invariant to hold in every reachable state of the instance of
`agent_stream`, and in the first eight million states of one with two followed
runs and two faults, before it was proved.

`Replay`, `Dismissed`, `Settled` and `Shown` walk over a list. They are functions
defined by recursion, and what they compute for a list of any length is proved by
induction over a *set* of numbers (`UpTo`, from `Least`, from the theorem that
`<` on the natural numbers is well-founded), which needs no operator as a
parameter.

Only model-checked: the liveness properties (`ApprovedGetsAccess`,
`EndedLosesAccess`, `OverdueEnds`, `RetriedUntilApplied`, `BindingsSettle`,
`StoppingEnds`, `ViewSettles`, `ApprovalIsShown`), which are beyond TLAPS. Every
invariant and every action property a passing run checks is proved.

## What is not modelled

`PROJECT.json` gives the reason for each component that is left out. Certificates, the resource mirror, the Secrets and the directory
synchronisation have interleavings of their own that are worth a model; the
others are I/O, data conversion or validated writes of single resources. Nearly
all lines of the repository's TypeScript are message types and clients generated
from the protobuf files (`src/apis`), which have no control flow: a model of the
program's behaviour covers a small share of the lines whatever it contains.

Within Access Requests: the evaluation of Policy conditions, the pending quota.
Within Reviews: the lookup of users and groups by name (a set of users), the
notification texts. Within Integration bindings: the choice of the destinations
and what the providers write. Within Device bindings: see the decisions above, and
the providers that collect an inventory. Within the console agent: the login sessions
(whose start and expiry are compared with the wall clock, `auth.ts:291`), the
cache of sessions of the backend (`backend.ts:216`; `forgetConversation` does not
look at a session that is still being created, `backend.ts:668`), what is in the
files under `session/` and `results/`, attachments,
the search, and the list of conversations.

## The plan

Done: Access Requests, Reviews, Integration bindings, Device bindings and the
console agent, each with its runs, and the theorems above. What is left, the most
important first:

1. `CertificateIssuance`: attempts, takeover, the Secret before the status.
2. The client's loads in `AgentStream` past `overtaken`, once their order is
   defined by the code.
3. `ResourceMirror` and `SecretValues`.
