--------------------------- MODULE DeviceBinding ---------------------------
(***************************************************************************)
(* How Devices are bound to the entries of a device manager's inventory:   *)
(* the devices controller of nocturne, which is called by the watch of the *)
(* Devices and by the sweep of devwatcher, the removal of a DeviceManager, *)
(* and the API that resets a binding.                                      *)
(*                                                                         *)
(* Watch and sweep work concurrently, on different Devices at one time (a  *)
(* mutex per Device).  A write of a Device fails if the copy it was made   *)
(* from is outdated.  To claim an entry takes a distributed lock, which    *)
(* expires.  The sweep works on copies it listed earlier.  nocturne may    *)
(* restart at any time, calls of the store may fail.                       *)
(*                                                                         *)
(* One DeviceManager.  An entry fits a Device if its serial number or its  *)
(* addresses and its owner agree; any other entry of the inventory belongs *)
(* to another User.  A probe adds one identifier.  Each Device has one     *)
(* Session.  Posture, assurance, verification intervals, conditions and    *)
(* probes under way are left out, and so are retries that are used up.     *)
(***************************************************************************)
EXTENDS Naturals, FiniteSets

CONSTANTS
  Device, Entry, None,
  Inventories,  \* what a poll may find: sets of pairs of Device and Entry
  First,        \* the first of them
  UID,          \* the uids of accepted bindings, used again when forgotten
  MaxChanges    \* bound of what users and providers do and of all faults

ASSUME DeviceAssumption ==
  /\ IsFiniteSet(Device) /\ None \notin Device \cup Entry \cup {"watch", "sweep", "lost"}
  /\ Inventories \subseteq SUBSET (Device \X Entry) /\ First \in Inventories
  /\ UID \subseteq Nat \ {0}
  /\ MaxChanges \in Nat

Actor == {"watch", "sweep"}

VARIABLES
  device,    \* d -> the binding and the probe attempt of a Device, or None
  proof,     \* d -> the binding the DeviceProof of its Session names, or 0
  exists,    \* whether the DeviceManager is in the store
  registry,  \* what the Registry of nocturne has of it
  fits,      \* the inventory: the entries that agree with each Device
  lock,      \* e -> who holds the claim lock: None, an actor, or a lost lease
  act,       \* a -> what the watch and the sweep are doing
  stale,     \* the actors whose copy is outdated
  events,    \* the Devices whose events the watch has not handled
  sweep,     \* the Devices a sweep listed and has not handled
  removal,   \* the bindings ResetBindingsForOwner listed and has not reset
  changes,   \* how much happened from outside
  overrun,   \* history: the entries whose lock expired under its holder
  everLost   \* history: the bindings that have been LOST, while they are in use

store == <<device, proof, exists>>
memory == <<registry, fits, act, stale, events, sweep, removal>>
history == <<overrun, everLost>>
vars == <<store, memory, lock, changes, history>>

\* setUnboundBinding.  The uids of these bindings are not told apart.
Unbound(state, e) == [state |-> state, uid |-> 0, entry |-> e, validity |-> "none"]

NoBinding == Unbound("none", None)

NoAttempt == [state |-> "none", id |-> None]

Accepted(uid, e) == [state |-> "accepted", uid |-> uid, entry |-> e, validity |-> "valid"]

\* What an actor does with a Device: the copy it works on and its plan.
At(pc, d, copy, plan) == [pc |-> pc, dev |-> d, copy |-> copy, plan |-> plan, holder |-> None, uid |-> 0]

Idle == At("idle", None, None, None)

Swept == [todo |-> {}, copy |-> [d \in Device |-> None], outdated |-> {}, owner |-> "unread"]

\* The Devices have just been created.
Init ==
  /\ device = [d \in Device |-> [binding |-> NoBinding, attempt |-> NoAttempt]]
  /\ proof = [d \in Device |-> 0]
  /\ exists = TRUE /\ registry = "ready" /\ fits = First
  /\ lock = [e \in Entry |-> None]
  /\ act = [a \in Actor |-> Idle] /\ stale = {} /\ events = Device /\ sweep = Swept /\ removal = {}
  /\ changes = 0
  /\ overrun = {} /\ everLost = {}

-----------------------------------------------------------------------------
(* What the controller decides for a copy of a Device and the inventory.   *)

Fitting(d) == {e \in Entry : <<d, e>> \in fits}

\* Whether the inventory has the entry a probe names.
Known(id) == \E d \in Device : <<d, id>> \in fits

\* What is to be written, the entry that has to be claimed first, and
\* whether the Session of the attempt is proved.
Plan(binding, attempt) ==
  [new |-> [binding |-> binding, attempt |-> attempt], claim |-> None, prove |-> FALSE]

Processed(attempt) ==
  IF attempt.state = "submitted" THEN [attempt EXCEPT !.state = "processed"] ELSE attempt

\* A probe that failed keeps a binding SUSPENDED until another one succeeds.
Kept(validity) == IF validity = "contradicted" THEN validity ELSE "valid"

\* reconcileAccepted, checkBinding and verifyBinding.  An attempt that began
\* before the binding and names an entry nobody knows says nothing.
ReconcileAccepted(d, rec) ==
  LET b == rec.binding
      id == IF rec.attempt.state = "submitted" THEN rec.attempt.id ELSE None
      As(validity) == Plan([b EXCEPT !.validity = validity], NoAttempt)
  IN  IF registry \in {"none", "stale"} THEN {Plan(b, rec.attempt)}
      ELSE IF registry = "disabled" THEN {As("disabled")}
      ELSE IF b.entry \notin Fitting(d) THEN {As("lost")}
      ELSE IF id = b.entry THEN {[As("valid") EXCEPT !.prove = TRUE]}
      ELSE {As("contradicted") : x \in {id} \ {None}}
           \cup {As(Kept(b.validity)) : x \in {id} \ {e \in Entry : Known(e)}}

\* reconcileUnbound, evaluateOwner and Fleet.Link.
ReconcileUnbound(d, rec) ==
  LET id == rec.attempt.id
      probed == IF Known(id) THEN {id} ELSE {}
      attempt == Processed(rec.attempt)
  IN  IF registry = "stale" THEN {Plan(rec.binding, rec.attempt)}
      ELSE IF registry \in {"none", "disabled"} \/ Fitting(d) \cup probed = {} THEN {Plan(NoBinding, attempt)}
      ELSE IF \E e \in Entry : Fitting(d) = {e} /\ probed \subseteq {e}
        THEN {[Plan(NoBinding, NoAttempt) EXCEPT !.claim = e, !.prove = (e \in probed)] : e \in Fitting(d)}
      ELSE {Plan(Unbound("ambiguous", None), attempt)}

\* doReconcileDevice
Plans(d, rec) ==
  IF rec.binding.state = "accepted" THEN ReconcileAccepted(d, rec) ELSE ReconcileUnbound(d, rec)

\* Mutation of WriteStep: only a verification proves the Session.
WriteStepOfVerification(plan) == IF plan.prove /\ plan.claim = None THEN "prove" ELSE "write"

\* Where the handler goes with a plan that needs no claim (any more).
WriteStep(plan) == IF plan.prove THEN "prove" ELSE "write"

-----------------------------------------------------------------------------
(* The store, the watch and the locks.                                     *)

\* isReconcileRequired
IsReconcileRequired(new, old) ==
  \/ new.attempt.state = "submitted" /\ new.attempt # old.attempt
  \/ old.binding.state # "none" /\ new.binding.state = "none"

\* UpdateDevice by the actor a, or by another client.
Store(d, rec, a) ==
  /\ device' = [device EXCEPT ![d] = rec]
  /\ stale' = stale \cup {x \in Actor \ {a} : act[x].dev = d}
  /\ events' = events \cup (IF IsReconcileRequired(rec, device[d]) THEN {d} ELSE {})

Outdate(d) == sweep' = [sweep EXCEPT !.outdated = @ \cup (sweep.todo \cap {d})]

\* LockDevice
Free(d) == \A a \in Actor : act[a].dev # d

\* The handler returns; release unlocks by the id of the lease.
Return(a) ==
  /\ act' = [act EXCEPT ![a] = Idle]
  /\ lock' = [e \in Entry |-> IF lock[e] = a THEN None ELSE lock[e]]
  /\ stale' = stale \ {a}

Decide(a, d, rec) ==
  \E plan \in Plans(d, rec) :
    act' = [act EXCEPT ![a] =
      IF plan.claim # None THEN At("claim", d, rec, plan)
      ELSE IF plan.new = rec THEN Idle ELSE At(WriteStep(plan), d, None, plan)]

SameUID(b, c) == b.uid = c.uid /\ b.state = c.state /\ b.entry = c.entry

\* ResetDeviceBinding of the controller: the binding is still the given one.
ResetBinding(d, binding) ==
  IF device[d] # None /\ SameUID(device[d].binding, binding)
    THEN Store(d, [binding |-> NoBinding, attempt |-> NoAttempt], None)
    ELSE UNCHANGED <<device, stale, events>>

-----------------------------------------------------------------------------
(* The watch and the sweep.                                                *)

\* OnAdd and OnUpdate: ReconcileDevice reads the Device under its mutex.
TakeEvent(d) ==
  /\ act["watch"].pc = "idle" /\ d \in events /\ Free(d)
  /\ events' = events \ {d}
  /\ IF device[d] = None THEN UNCHANGED act ELSE Decide("watch", d, device[d])
  /\ UNCHANGED <<store, registry, fits, stale, sweep, removal, lock, changes, history>>

\* doSweep: the Devices are listed, and then the DeviceManagers.
List ==
  /\ act["sweep"].pc = "idle"
  /\ \/ sweep.todo = {}
        /\ sweep' = [Swept EXCEPT !.todo = {d \in Device : device[d] # None}, !.copy = device]
     \/ sweep.todo # {} /\ sweep.owner = "unread"
        /\ sweep' = [sweep EXCEPT !.owner = IF exists THEN "listed" ELSE "gone"]
  /\ UNCHANGED <<store, registry, fits, act, stale, events, removal, lock, changes, history>>

\* Mutation of Orphaned: a binding that is VALID is left alone.
OrphanedInvalid(d) ==
  /\ sweep.owner = "gone"
  /\ sweep.copy[d].binding.state # "none" /\ sweep.copy[d].binding.validity # "valid"

\* sweepDevice: the binding belongs to a DeviceManager that is gone.
Orphaned(d) == sweep.owner = "gone" /\ sweep.copy[d].binding.state # "none"

Handled(d) ==
  IF sweep.todo = {d} THEN Swept
  ELSE [sweep EXCEPT !.todo = @ \ {d}, !.copy[d] = None, !.outdated = @ \ {d}]

SweepResets(d) ==
  /\ act["sweep"].pc = "idle" /\ d \in sweep.todo /\ Orphaned(d) /\ Free(d)
  /\ ResetBinding(d, sweep.copy[d].binding)
  /\ sweep' = Handled(d)
  /\ UNCHANGED <<proof, exists, registry, fits, act, removal, lock, changes, history>>

\* ReconcileDevices, after all resets, on the copies listed earlier.
SweepReconciles(d) ==
  /\ act["sweep"].pc = "idle" /\ d \in sweep.todo /\ sweep.owner # "unread" /\ Free(d)
  /\ \A x \in sweep.todo : ~Orphaned(x)
  /\ Decide("sweep", d, sweep.copy[d])
  /\ stale' = stale \cup {a \in {"sweep"} : d \in sweep.outdated}
  /\ sweep' = Handled(d)
  /\ UNCHANGED <<store, registry, fits, events, removal, lock, changes, history>>

\* Mutation of Holders: a suspended binding does not count.
ValidHolders(d, e) ==
  {h \in Device \ {d} : device[h] # None /\ device[h].binding.validity = "valid" /\ device[h].binding.entry = e}

\* getClaimHolder lists the other Devices whose accepted binding has the entry.
Holders(d, e) ==
  {h \in Device \ {d} : device[h] # None /\ device[h].binding.state = "accepted" /\ device[h].binding.entry = e}

\* Mutation of MayDisplace: a suspended binding gives way.
MayDisplaceSuspended(binding) == binding.validity # "valid"

\* accept: who holds the entry keeps it unless the binding is LOST.
MayDisplace(binding) == binding.validity = "lost"

\* newBindingUID: none that anything still refers to.
InUse ==
  {device[d].binding.uid : d \in {x \in Device : device[x] # None}} \cup {proof[d] : d \in Device}
  \cup {act[a].uid : a \in Actor} \cup {act[a].plan.new.binding.uid : a \in {x \in Actor : act[x].pc # "idle"}}
  \cup {sweep.copy[d].binding.uid : d \in sweep.todo} \cup {item[2].uid : item \in removal}

NewUID == CHOOSE u \in UID \ InUse : TRUE

\* accept: the new binding.  The uid is new, so nothing is known of it.
Bind(a, lost) ==
  /\ UID \ InUse # {}
  /\ act' = [act EXCEPT ![a] = At(WriteStep(@.plan), @.dev, None,
                [@.plan EXCEPT !.new.binding = Accepted(NewUID, act[a].plan.claim)])]
  /\ everLost' = lost \ {NewUID}

\* lockClaim fails, for the lock is not free within claimLockWaitSeconds.
GiveUp(a) ==
  /\ act[a].pc = "claim" /\ lock[act[a].plan.claim] # None /\ Return(a)
  /\ UNCHANGED <<store, registry, fits, events, sweep, removal, changes, history>>

\* lockClaim and getClaimHolder: with the lock, the entry is free, kept by the
\* Device that has it, or to be taken over.
Claim(a) ==
  LET d == act[a].dev  copy == act[a].copy  e == act[a].plan.claim
      conflict == [binding |-> Unbound("conflict", e), attempt |-> Processed(copy.attempt)]
  IN
  /\ act[a].pc = "claim" /\ lock[e] = None
  /\ IF Holders(d, e) = {} THEN Bind(a, everLost) /\ lock' = [lock EXCEPT ![e] = a]
     ELSE \E h \in Holders(d, e) :
       /\ UNCHANGED everLost
       /\ IF MayDisplace(device[h].binding)
            THEN /\ act' = [act EXCEPT ![a].pc = "supersede", ![a].copy = None,
                                       ![a].holder = h, ![a].uid = device[h].binding.uid]
                 /\ lock' = [lock EXCEPT ![e] = a]
          ELSE IF conflict = copy THEN act' = [act EXCEPT ![a] = Idle] /\ UNCHANGED lock
          ELSE /\ act' = [act EXCEPT ![a] = At("write", d, None, [@.plan EXCEPT !.new = conflict])]
               /\ lock' = [lock EXCEPT ![e] = a]
  /\ stale' = {x \in stale : act'[x].pc # "idle"}
  /\ UNCHANGED <<store, registry, fits, events, sweep, removal, changes, overrun>>

\* Mutation of Superseded: the uid and the validity stay.
SupersededOnlyState(rec) == [rec EXCEPT !.binding.state = "conflict"]

Superseded(rec) == [rec EXCEPT !.binding = Unbound("conflict", @.entry)]

\* supersede: the binding that was listed gives the entry up, whatever its
\* validity is by now.  The mutex of that Device is not taken.
Supersede(a) ==
  LET h == act[a].holder IN
  /\ act[a].pc = "supersede" /\ Bind(a, everLost)
  /\ IF device[h] # None /\ device[h].binding.uid = act[a].uid
       THEN Store(h, Superseded(device[h]), a) /\ Outdate(h)
       ELSE UNCHANGED <<device, stale, events, sweep>>
  /\ UNCHANGED <<proof, exists, registry, fits, removal, lock, changes, overrun>>

\* setSessionProof
Prove(a) ==
  LET d == act[a].dev IN
  /\ act[a].pc = "prove"
  /\ act' = [act EXCEPT ![a].pc = "write"]
  /\ proof' = [proof EXCEPT ![d] = act[a].plan.new.binding.uid]
  /\ UNCHANGED <<device, exists, registry, fits, stale, events, sweep, removal, lock, changes, history>>

\* updateDevice, and then release.
Write(a) ==
  LET d == act[a].dev IN
  /\ act[a].pc = "write" /\ a \notin stale
  /\ Store(d, act[a].plan.new, a)
  /\ Outdate(d)
  /\ everLost' = everLost \cup {b.uid : b \in {x \in {act[a].plan.new.binding} : x.validity = "lost"}}
  /\ act' = [act EXCEPT ![a] = Idle]
  /\ lock' = [e \in Entry |-> IF lock[e] = a THEN None ELSE lock[e]]
  /\ UNCHANGED <<proof, exists, registry, fits, removal, changes, overrun>>

\* The write conflicts: release, and the whole handler again from a new copy.
Retry(a) ==
  LET d == act[a].dev IN
  /\ act[a].pc = "write" /\ a \in stale
  /\ stale' = stale \ {a}
  /\ lock' = [e \in Entry |-> IF lock[e] = a THEN None ELSE lock[e]]
  /\ IF device[d] = None THEN act' = [act EXCEPT ![a] = Idle] ELSE Decide(a, d, device[d])
  /\ UNCHANGED <<store, registry, fits, events, sweep, removal, changes, history>>

Handle(a) ==
  \/ GiveUp(a) \/ Claim(a) \/ Supersede(a) \/ Prove(a) \/ Write(a) \/ Retry(a)

Watch == Handle("watch") \/ \E d \in Device : TakeEvent(d)

Sweep == Handle("sweep") \/ List \/ \E d \in Device : SweepResets(d) \/ SweepReconciles(d)

-----------------------------------------------------------------------------
(* The removal of the DeviceManager, users, providers and faults.          *)

Change == changes < MaxChanges /\ changes' = changes + 1

\* OnDelete or Resync of the devicemanagers controller: doRemove.
RemoveOwner ==
  /\ ~exists /\ registry # "none"
  /\ registry' = "none"
  /\ removal' = {<<d, device[d].binding>> : d \in {x \in Device : device[x] # None /\ device[x].binding.state # "none"}}
  /\ UNCHANGED <<store, fits, act, stale, events, sweep, lock, changes, history>>

\* ResetBindingsForOwner.  A conflict with another write is not retried.
RemovalResets ==
  \E item \in removal : \E done \in BOOLEAN :
    LET d == item[1] IN
    /\ Free(d) /\ removal' = removal \ {item}
    /\ IF done THEN UNCHANGED changes ELSE Change
    /\ IF done THEN ResetBinding(d, item[2]) /\ Outdate(d)
       ELSE UNCHANGED <<device, stale, events, sweep>>
    /\ UNCHANGED <<proof, exists, registry, fits, act, lock, history>>

Remove == RemoveOwner \/ RemovalResets

\* The API server does not take the mutex.
ResetDeviceBinding(d) ==
  /\ Change /\ device[d] # None /\ device[d].binding.state # "none"
  /\ ResetBinding(d, device[d].binding) /\ Outdate(d)
  /\ UNCHANGED <<proof, exists, registry, fits, act, removal, lock, history>>

\* A Session of the Device submits the result of a probe that was issued.
SubmitProbe(d) ==
  /\ Change /\ device[d] # None
  /\ \E e \in Entry : device' = [device EXCEPT ![d].attempt = [state |-> "submitted", id |-> e]]
  /\ stale' = stale \cup {a \in Actor : act[a].dev = d} /\ events' = events \cup {d}
  /\ Outdate(d)
  /\ UNCHANGED <<proof, exists, registry, fits, act, removal, lock, history>>

DeleteDevice(d) ==
  /\ Change /\ device[d] # None
  /\ device' = [device EXCEPT ![d] = None]
  /\ stale' = stale \cup {a \in Actor : act[a].dev = d}
  /\ Outdate(d)
  /\ UNCHANGED <<proof, exists, registry, fits, act, events, removal, lock, history>>

\* A poll of the provider finds what it found before or something else.
Poll ==
  /\ registry \in {"ready", "stale"} /\ registry' = "ready"
  /\ \/ registry = "stale" /\ UNCHANGED <<fits, changes>>
     \/ Change /\ fits' \in Inventories \ {fits}
  /\ UNCHANGED <<store, act, stale, events, sweep, removal, lock, history>>

\* The inventory expires, or the DeviceManager is disabled or enabled.
SetOwner ==
  /\ Change
  /\ \/ registry = "ready" /\ registry' = "stale"
     \/ exists /\ registry \in {"ready", "stale"} /\ registry' = "disabled"
     \/ exists /\ registry = "disabled" /\ registry' = "stale"
  /\ UNCHANGED <<store, fits, act, stale, events, sweep, removal, lock, history>>

DeleteManager ==
  /\ Change /\ exists /\ exists' = FALSE
  /\ UNCHANGED <<device, proof, memory, lock, history>>

\* A call of the store fails and with it the handler; an event is lost.
Fail(a) ==
  /\ Change
  /\ act[a].pc # "idle" /\ Return(a)
  /\ UNCHANGED <<store, registry, fits, events, sweep, removal, history>>

\* A claim lock expires, for its holder works longer than claimLockTTLSeconds
\* or is no longer alive.
Expire(e) ==
  /\ lock[e] # None /\ lock' = [lock EXCEPT ![e] = None]
  /\ IF lock[e] \in Actor
       THEN /\ Change
            /\ overrun' = overrun \cup {e}
       ELSE UNCHANGED <<changes, overrun>>
  /\ UNCHANGED <<store, memory, everLost>>

\* nocturne restarts: Resync registers the DeviceManager without inventory.
Restart ==
  /\ Change
  /\ registry' = IF ~exists THEN "none" ELSE IF registry = "disabled" THEN registry ELSE "stale"
  /\ act' = [a \in Actor |-> Idle] /\ stale' = {} /\ events' = {} /\ sweep' = Swept /\ removal' = {}
  /\ lock' = [e \in Entry |-> IF lock[e] = None THEN None ELSE "lost"]
  /\ UNCHANGED <<store, fits, history>>

Environment ==
  \/ \E d \in Device : ResetDeviceBinding(d) \/ SubmitProbe(d) \/ DeleteDevice(d)
  \/ Poll \/ SetOwner \/ DeleteManager \/ Restart
  \/ \E a \in Actor : Fail(a)
  \/ \E e \in Entry : Expire(e)

Next == Watch \/ Sweep \/ Remove \/ Environment

\* The watch, the sweep and the removal go on, and lost leases end.  Nothing
\* is assumed of users, providers and faults.
Fairness ==
  /\ WF_vars(Watch) /\ WF_vars(Sweep) /\ WF_vars(Remove)
  /\ WF_vars(\E e \in Entry : lock[e] = "lost" /\ Expire(e))

Spec == Init /\ [][Next]_vars /\ Fairness

-----------------------------------------------------------------------------
(* Properties.                                                             *)

Binding == [state : {"none", "ambiguous", "conflict", "accepted"}, uid : UID \cup {0}, entry : Entry \cup {None},
            validity : {"none", "valid", "disabled", "contradicted", "lost"}]

\* The stored Devices, the registry, the locks and the changes have their
\* types, and a binding has a uid and a validity if and only if it is accepted.
TypeOK ==
  /\ \A d \in Device : device[d] # None =>
       LET b == device[d].binding IN
       /\ b \in Binding /\ (b.state = "accepted" <=> b.uid > 0) /\ (b.uid > 0 <=> b.validity # "none")
       /\ device[d].attempt.state \in {"none", "submitted", "processed"}
       /\ device[d].attempt.id \in Entry \cup {None}
  /\ proof \in [Device -> UID \cup {0}] /\ exists \in BOOLEAN /\ fits \in Inventories
  /\ registry \in {"ready", "stale", "disabled", "none"}
  /\ lock \in [Entry -> Actor \cup {None, "lost"}]
  /\ stale \subseteq Actor /\ events \subseteq Device
  /\ everLost \subseteq UID /\ overrun \subseteq Entry /\ changes \in 0 .. MaxChanges

\* Two Devices never hold the same inventory entry, whatever watch, sweep,
\* resets and restarts do, unless its claim lock expired under a handler that
\* went on working.
OneHolder ==
  \A e \in Entry \ overrun : \A d, h \in Device :
    d # h /\ device[d] # None /\ device[d].binding.state = "accepted" /\ device[d].binding.entry = e
      => h \notin Holders(d, e)

\* An accepted binding is displaced by another Device only if it was LOST at
\* some time: a claim never takes away a binding made after the list it read.
DisplacedWasLost ==
  [][\A d \in Device :
       device[d] # None /\ device[d].binding.state = "accepted" /\ device'[d] # None
         /\ device'[d].binding.state = "conflict" => device[d].binding.uid \in everLost]_vars

\* An attempt that proved a binding is cleared only when the Session it came
\* from has its proof, for that very binding, whatever failed or was retried.
ProofIsKept ==
  [][\A d \in Device : device[d] # None /\ device'[d] # None =>
       LET b == device'[d].binding IN
       b.state = "accepted" /\ b.validity = "valid" /\ device[d].attempt.id = b.entry
         /\ device'[d].attempt = NoAttempt => proof[d] = b.uid]_vars

\* d is the only Device of the entry e and e the only entry of d.
Sole(d, e) ==
  /\ exists /\ registry = "ready" /\ device[d] # None 
  /\ device[d].attempt.id \in {None, e}
  /\ <<d, e>> \in fits /\ \A p \in fits : p[1] = d \/ p[2] = e => p = <<d, e>>

\* A binding that was LOST before stays so: it is not moved to another entry.
Follows(binding, e) ==
  binding.state = "accepted" /\ (binding.entry = e => binding.validity \in {"valid", "contradicted"})

\* Once nothing changes any more the bindings follow: none is left of a
\* DeviceManager that was deleted, although handlers may have accepted one
\* behind its removal, and a Device that alone has an entry is bound, although
\* events were lost and another Device held the entry.
BindingsSettle ==
  /\ ~exists ~> [](\A d \in Device : device[d] # None => device[d].binding.state = "none")
  /\ \A d \in Device : <>[](\E e \in Entry : Sole(d, e)) =>
       <>[](\E e \in Entry : Sole(d, e) /\ Follows(device[d].binding, e))
=============================================================================
