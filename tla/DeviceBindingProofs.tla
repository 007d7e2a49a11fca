------------------------ MODULE DeviceBindingProofs ------------------------
(***************************************************************************)
(* Proofs about DeviceBinding, for any Devices and entries, any            *)
(* inventories and any number of changes: the types, that an entry has one *)
(* holder, that only a lost binding is displaced, and that an attempt is   *)
(* used up only when its Session is proved.                                *)
(*                                                                         *)
(* A handler decides, and writes later.  ActorOK says what is true until   *)
(* then: it has the lock of the entry it claims (LockOK) and hence the     *)
(* entry is free, or held only by the binding it is about to displace      *)
(* (ClearOK); while its copy is not outdated the Device is as it was when  *)
(* it decided (FreshOK); and the Session of an attempt is proved before    *)
(* the binding is written (ProvedOK).  SweepOK says that a copy the sweep  *)
(* listed is the stored Device unless it is marked as outdated.            *)
(***************************************************************************)
EXTENDS DeviceBinding, TLAPS

-----------------------------------------------------------------------------
(* Types.                                                                  *)

Bindings ==
  {b \in Binding : /\ b.state = "accepted" <=> b.uid > 0
                   /\ b.uid > 0 <=> b.validity # "none"
                   /\ b.state = "accepted" => b.entry \in Entry}

Attempts == {NoAttempt} \cup [state : {"submitted", "processed"}, id : Entry]

Records ==
  {r \in [binding : Bindings, attempt : Attempts] :
     r.binding.state = "accepted" => r.attempt.state # "processed"}

Cleared == [binding |-> NoBinding, attempt |-> NoAttempt]

PlanType == [new : Records, claim : Entry \cup {None}, prove : BOOLEAN]

BusyType ==
  [pc : {"claim", "supersede", "prove", "write"}, dev : Device, copy : Records \cup {None},
   plan : PlanType, holder : Device \cup {None}, uid : UID \cup {0}]

StoreTypes ==
  /\ device \in [Device -> Records \cup {None}] /\ proof \in [Device -> UID \cup {0}]
  /\ exists \in BOOLEAN /\ fits \in Inventories
  /\ registry \in {"ready", "stale", "disabled", "none"}
  /\ changes \in 0 .. MaxChanges

ActorTypes ==
  /\ act \in [Actor -> BusyType \cup {Idle}] /\ lock \in [Entry -> Actor \cup {None, "lost"}]
  /\ \A a \in Actor :
       /\ act[a].pc = "claim" => act[a].copy \in Records
       /\ act[a].pc \in {"claim", "supersede"} => act[a].plan.claim \in Entry /\ act[a].plan.new = Cleared
       /\ act[a].pc = "supersede" => act[a].holder \in Device \ {act[a].dev}
  /\ stale \subseteq Actor /\ events \subseteq Device
  /\ overrun \subseteq Entry /\ everLost \subseteq UID

ListTypes ==
  /\ sweep \in [todo : SUBSET Device, copy : [Device -> Records \cup {None}], outdated : SUBSET Device,
                owner : {"unread", "listed", "gone"}]
  /\ \A d \in sweep.todo : sweep.copy[d] \in Records \ {None}
  /\ removal \subseteq Device \X Bindings

Types == StoreTypes /\ ActorTypes /\ ListTypes

-----------------------------------------------------------------------------
(* The invariant.                                                          *)

\* Who claims an entry has its lock, unless that has expired.
LockOK(a) ==
  LET e == act[a].plan.claim IN
  act[a].pc \in {"supersede", "prove", "write"} /\ e \in Entry \ overrun => lock[e] = a

\* No other Device has the entry a handler is about to accept.
ClearOK(a) ==
  LET e == act[a].plan.claim  new == act[a].plan.new.binding IN
  act[a].pc # "idle" /\ e \in Entry =>
    /\ act[a].pc \in {"prove", "write"} /\ new.state = "accepted" =>
         new.entry = e /\ (e \notin overrun => Holders(act[a].dev, e) = {})
    /\ act[a].pc = "supersede" /\ e \notin overrun =>
         \A h \in Holders(act[a].dev, e) : h = act[a].holder /\ device[h].binding.uid = act[a].uid

\* What the plan says of the record it was made from.
Sound(plan, rec) ==
  /\ plan.claim \in Entry =>
       rec.binding.state # "accepted" /\ (rec.attempt.id = plan.claim => plan.prove)
  /\ plan.claim = None =>
       IF rec.binding.state = "accepted"
         THEN /\ SameUID(plan.new.binding, rec.binding)
              /\ plan.new.binding.validity = "valid" /\ plan.new.attempt = NoAttempt
                   /\ rec.attempt.id = plan.new.binding.entry => plan.prove
         ELSE plan.new.binding.state \notin {"accepted", "conflict"}

FreshOK(a) ==
  act[a].pc # "idle" /\ a \notin stale =>
    device[act[a].dev] \in Records \ {None} /\ Sound(act[a].plan, device[act[a].dev])

ProvedOK(a) ==
  LET b == act[a].plan.new.binding IN
  act[a].pc = "write" /\ act[a].plan.prove /\ b.state = "accepted" => proof[act[a].dev] = b.uid

\* The binding to be displaced has been LOST.
LostOK(a) == act[a].pc = "supersede" => act[a].uid \in everLost

\* Watch and sweep work on different Devices.
Mutex ==
  \A a, b \in Actor : act[a].pc # "idle" /\ act[b].pc # "idle" /\ act[a].dev = act[b].dev => a = b

ActorOK(a) == LockOK(a) /\ ClearOK(a) /\ FreshOK(a) /\ ProvedOK(a) /\ LostOK(a)

SweepOK == \A d \in sweep.todo \ sweep.outdated : device[d] = sweep.copy[d]

LostKnown ==
  \A d \in Device : device[d] # None /\ device[d].binding.validity = "lost" => device[d].binding.uid \in everLost

IInv == Types /\ (\A a \in Actor : ActorOK(a)) /\ Mutex /\ SweepOK /\ LostKnown /\ OneHolder

-----------------------------------------------------------------------------
(* What the controller decides.                                            *)

LEMMA NoneApart == None \notin Device /\ None \notin Entry /\ None \notin Actor /\ None # "lost" /\ "lost" \notin Actor
BY DeviceAssumption DEF Actor

\* A handler at work has a Device and a plan.
LEMMA BusyTypes ==
  ASSUME Types
  PROVE  \A a \in Actor : act[a] \in BusyType \cup {Idle} /\ (act[a].pc # "idle" => act[a] \in BusyType /\ act[a].dev \in Device)
<1>1. \A a \in Actor : act[a] \in BusyType \cup {Idle}
  BY DEF Types, ActorTypes
<1> QED BY <1>1 DEF Idle, At, BusyType

LEMMA ValueTypes ==
  /\ NoBinding \in Bindings /\ NoAttempt \in Attempts /\ Unbound("ambiguous", None) \in Bindings
  /\ \A e \in Entry : Unbound("conflict", e) \in Bindings
  /\ \A u \in UID, e \in Entry : Accepted(u, e) \in Bindings
  /\ \A t \in Attempts : Processed(t) \in Attempts
<1>1. NoBinding \in Bindings
  BY DEF NoBinding, Unbound, Bindings, Binding
<1>2. Unbound("ambiguous", None) \in Bindings
  BY DEF Unbound, Bindings, Binding
<1>3. \A e \in Entry : Unbound("conflict", e) \in Bindings
  BY DEF Unbound, Bindings, Binding
<1>4. \A u \in UID, e \in Entry : Accepted(u, e) \in Bindings
  <2> SUFFICES ASSUME NEW u \in UID, NEW e \in Entry PROVE Accepted(u, e) \in Bindings
    OBVIOUS
  <2>1. u \in Nat /\ u > 0
    BY DeviceAssumption
  <2> QED BY <2>1 DEF Accepted, Bindings, Binding
<1>5. NoAttempt \in Attempts
  BY DEF Attempts
<1>6. \A t \in Attempts : Processed(t) \in Attempts
  BY DEF Processed, Attempts, NoAttempt
<1> QED BY <1>1, <1>2, <1>3, <1>4, <1>5, <1>6

\* A binding that is not accepted goes with any attempt.
LEMMA MakeRecord ==
  ASSUME NEW b \in Bindings, NEW t \in Attempts, b.state # "accepted" \/ t.state # "processed"
  PROVE  [binding |-> b, attempt |-> t] \in Records
BY DEF Records

\* An accepted binding with another validity.
LEMMA ValidityType ==
  ASSUME NEW b \in Bindings, b.state = "accepted",
         NEW v \in {"valid", "disabled", "contradicted", "lost"}
  PROVE  /\ [b EXCEPT !.validity = v] \in Bindings
         /\ [b EXCEPT !.validity = v].validity = v
         /\ SameUID([b EXCEPT !.validity = v], b)
BY DEF Bindings, Binding, SameUID

\* Which plans are carried out: they change the record, or claim an entry.
Effective(plan, rec) == ~(plan.claim = None /\ plan.new = rec)

Claiming(plan) == plan.claim \in Entry => plan.new = Cleared

LEMMA UnboundSound ==
  ASSUME NEW d \in Device, NEW rec \in Records, rec.binding.state # "accepted",
         NEW plan \in ReconcileUnbound(d, rec), Effective(plan, rec)
  PROVE  plan \in PlanType /\ Sound(plan, rec) /\ Claiming(plan)
<1> DEFINE id == rec.attempt.id
           probed == IF Known(id) THEN {id} ELSE {}
           attempt == Processed(rec.attempt)
<1>1. rec.binding \in Bindings /\ rec.attempt \in Attempts /\ attempt \in Attempts
  BY ValueTypes DEF Records
<1>2. CASE registry = "stale"
  <2>1. plan = Plan(rec.binding, rec.attempt)
    BY <1>2 DEF ReconcileUnbound
  <2>2. plan.claim = None /\ plan.new = rec
    BY <2>1 DEF Plan, Records
  <2> QED BY <2>2 DEF Effective
<1>3. CASE registry # "stale" /\ (registry \in {"none", "disabled"} \/ Fitting(d) \cup probed = {})
  <2>1. plan = Plan(NoBinding, attempt)
    BY <1>3 DEF ReconcileUnbound
  <2>2. NoBinding.state = "none" /\ [binding |-> NoBinding, attempt |-> attempt] \in Records
    BY <1>1, ValueTypes, MakeRecord DEF NoBinding, Unbound
  <2> QED BY <2>1, <2>2, NoneApart DEF Plan, PlanType, Sound, Claiming
<1>4. CASE /\ registry # "stale" /\ ~(registry \in {"none", "disabled"} \/ Fitting(d) \cup probed = {})
           /\ \E e \in Entry : Fitting(d) = {e} /\ probed \subseteq {e}
  <2>1. PICK e \in Fitting(d) : plan = [Plan(NoBinding, NoAttempt) EXCEPT !.claim = e, !.prove = (e \in probed)]
    BY <1>4 DEF ReconcileUnbound
  <2>2. e \in Entry /\ Known(e)
    BY DEF Fitting, Known
  <2>3. plan = [new |-> [binding |-> NoBinding, attempt |-> NoAttempt], claim |-> e, prove |-> (e \in probed)]
    BY <2>1 DEF Plan
  <2>4. NoBinding.state = "none" /\ [binding |-> NoBinding, attempt |-> NoAttempt] \in Records
    BY ValueTypes, MakeRecord DEF NoBinding, Unbound
  <2> DEFINE base == [binding |-> NoBinding, attempt |-> NoAttempt]
             proves == e \in probed
  <2>5. proves \in BOOLEAN /\ (id = e => proves)
    BY <2>2
  <2> HIDE DEF probed, id
  <2>6. /\ plan.new = base /\ plan.claim = e /\ plan.prove = proves
        /\ plan = [new |-> base, claim |-> e, prove |-> plan.prove]
    BY <2>3
  <2> HIDE DEF base, proves
  <2>7. plan \in PlanType /\ plan.claim = e /\ (id = e => plan.prove) /\ plan.new = Cleared
    <3>1. plan.prove \in BOOLEAN /\ (id = e => plan.prove)
      BY <2>5, <2>6
    <3>2. base \in Records /\ base = Cleared
      BY <2>4 DEF base, Cleared
    <3> QED BY <3>1, <3>2, <2>2, <2>6 DEF PlanType
  <2> USE DEF id
  <2> QED BY <2>7, <2>2, NoneApart DEF Sound, Claiming
<1>5. CASE /\ registry # "stale" /\ ~(registry \in {"none", "disabled"} \/ Fitting(d) \cup probed = {})
           /\ ~\E e \in Entry : Fitting(d) = {e} /\ probed \subseteq {e}
  <2>1. plan = Plan(Unbound("ambiguous", None), attempt)
    BY <1>5 DEF ReconcileUnbound
  <2>2. /\ Unbound("ambiguous", None).state = "ambiguous"
        /\ [binding |-> Unbound("ambiguous", None), attempt |-> attempt] \in Records
    BY <1>1, ValueTypes, MakeRecord DEF Unbound, NoBinding
  <2> QED BY <2>1, <2>2, NoneApart DEF Plan, PlanType, Sound, Claiming
<1> QED BY <1>2, <1>3, <1>4, <1>5

LEMMA AcceptedSound ==
  ASSUME NEW d \in Device, NEW rec \in Records, rec.binding.state = "accepted",
         NEW plan \in ReconcileAccepted(d, rec), Effective(plan, rec)
  PROVE  plan \in PlanType /\ Sound(plan, rec) /\ Claiming(plan)
<1> DEFINE b == rec.binding
           id == IF rec.attempt.state = "submitted" THEN rec.attempt.id ELSE None
           As(v) == Plan([b EXCEPT !.validity = v], NoAttempt)
<1>1. b \in Bindings /\ b.entry \in Entry /\ rec.attempt \in Attempts
  BY DEF Records, Bindings
<1>2. \A v \in {"valid", "disabled", "contradicted", "lost"} :
        /\ As(v) \in PlanType /\ As(v).claim = None /\ As(v).new.binding.validity = v
        /\ SameUID(As(v).new.binding, b)
  <2> SUFFICES ASSUME NEW v \in {"valid", "disabled", "contradicted", "lost"}
               PROVE  /\ As(v) \in PlanType /\ As(v).claim = None /\ As(v).new.binding.validity = v
                      /\ SameUID(As(v).new.binding, b)
    OBVIOUS
  <2> DEFINE c == [b EXCEPT !.validity = v]
  <2>1. c \in Bindings /\ c.validity = v /\ SameUID(c, b)
    BY <1>1, ValidityType
  <2>2. [binding |-> c, attempt |-> NoAttempt] \in Records
    BY <2>1, ValueTypes, MakeRecord DEF NoAttempt
  <2> HIDE DEF c
  <2>3. Plan(c, NoAttempt) \in PlanType /\ Plan(c, NoAttempt).claim = None /\ Plan(c, NoAttempt).new.binding = c
    BY <2>2 DEF Plan, PlanType
  <2> QED BY <2>1, <2>3 DEF c
\* Only a probe of the entry has its identifier.
<1>3. rec.attempt.id \in Entry => id = rec.attempt.id
  BY <1>1, NoneApart DEF Records, Attempts, NoAttempt
<1>4. \A v \in {"valid", "disabled", "contradicted", "lost"} :
        plan = As(v) /\ (v = "valid" => id # b.entry) => plan \in PlanType /\ Sound(plan, rec) /\ Claiming(plan)
  <2> SUFFICES ASSUME NEW v \in {"valid", "disabled", "contradicted", "lost"}, plan = As(v), v = "valid" => id # b.entry
               PROVE  plan \in PlanType /\ Sound(plan, rec) /\ Claiming(plan)
    OBVIOUS
  <2>1. plan.new.binding.entry = b.entry
    BY <1>2 DEF SameUID
  <2> QED BY <2>1, <1>1, <1>2, <1>3, NoneApart DEF Sound, Claiming
<1>5. CASE registry \in {"none", "stale"}
  <2>1. plan = Plan(b, rec.attempt)
    BY <1>5 DEF ReconcileAccepted
  <2>2. plan.claim = None /\ plan.new = rec
    BY <2>1 DEF Plan, Records
  <2> QED BY <2>2 DEF Effective
<1>6. CASE registry \notin {"none", "stale"} /\ registry = "disabled"
  <2>1. plan = As("disabled")
    BY <1>6 DEF ReconcileAccepted
  <2> QED BY <2>1, <1>4
<1>7. CASE registry \notin {"none", "stale", "disabled"} /\ b.entry \notin Fitting(d)
  <2>1. plan = As("lost")
    BY <1>7 DEF ReconcileAccepted
  <2> QED BY <2>1, <1>4
<1>8. CASE registry \notin {"none", "stale", "disabled"} /\ b.entry \in Fitting(d)
  <2>1. CASE id = b.entry
    <3>1. plan = [As("valid") EXCEPT !.prove = TRUE]
      BY <1>8, <2>1 DEF ReconcileAccepted
    <3>2. /\ plan \in PlanType /\ plan.claim = None /\ plan.prove
          /\ plan.new.binding = As("valid").new.binding
      BY <3>1, <1>2 DEF PlanType
    <3> QED BY <3>2, <1>2, NoneApart DEF Sound, Claiming
  <2>2. CASE id # b.entry
    <3>1. plan \in {As("contradicted") : x \in {id} \ {None}} \cup {As(Kept(b.validity)) : x \in {id} \ {e \in Entry : Known(e)}}
      BY <1>8, <2>2 DEF ReconcileAccepted
    <3>2. plan = As("contradicted") \/ plan = As(Kept(b.validity))
      BY <3>1
    <3>3. Kept(b.validity) \in {"valid", "contradicted"}
      BY DEF Kept
    <3> QED BY <3>2, <3>3, <2>2, <1>4
  <2> QED BY <2>1, <2>2
<1> QED BY <1>5, <1>6, <1>7, <1>8

LEMMA PlanSound ==
  ASSUME NEW d \in Device, NEW rec \in Records, NEW plan \in Plans(d, rec), Effective(plan, rec)
  PROVE  plan \in PlanType /\ Sound(plan, rec) /\ Claiming(plan)
BY UnboundSound, AcceptedSound DEF Plans

-----------------------------------------------------------------------------
(* What a step leaves alone.                                               *)

\* No Device is bound and no binding is lost by the step.
Mild ==
  \A h \in Device : device'[h] # None /\ device'[h].binding.state = "accepted" =>
    /\ device[h] # None /\ device[h].binding.state = "accepted"
    /\ device'[h].binding.entry = device[h].binding.entry /\ device'[h].binding.uid = device[h].binding.uid
    /\ device'[h].binding.validity = "lost" => device[h].binding.validity = "lost"

\* Nothing the actor a relies on is changed by the step.
Undisturbed(a) ==
  /\ act'[a] = act[a] /\ overrun \subseteq overrun'
  /\ \A e \in Entry \ overrun' : lock[e] = a => lock'[e] = a
  /\ act[a].pc # "idle" /\ a \notin stale' => a \notin stale /\ device'[act[a].dev] = device[act[a].dev]
  /\ act[a].pc = "write" => proof'[act[a].dev] = proof[act[a].dev]
  /\ act[a].pc = "supersede" /\ act[a].uid \in everLost => act[a].uid \in everLost'

\* No Device gets the entry the actor a claims.
Unrivalled(a) ==
  LET e == act[a].plan.claim IN
  act[a].pc \in {"supersede", "prove", "write"} /\ e \in Entry \ overrun' =>
    \A h \in Device \ {act[a].dev} :
      device'[h] # None /\ device'[h].binding.state = "accepted" /\ device'[h].binding.entry = e =>
        /\ device[h] # None /\ device[h].binding.state = "accepted" /\ device[h].binding.entry = e
        /\ device'[h].binding.uid = device[h].binding.uid

\* An actor that is idle relies on nothing.
LEMMA IdleOK ==
  ASSUME NEW a \in Actor, act'[a].pc = "idle"
  PROVE  ActorOK(a)'
BY DEF ActorOK, LockOK, ClearOK, FreshOK, ProvedOK, LostOK

\* An actor that is left alone keeps its part of the invariant, unless
\* another Device gets the entry it claims.
LEMMA Bystander ==
  ASSUME NEW a \in Actor, ActorOK(a), Undisturbed(a), Unrivalled(a)
  PROVE  ActorOK(a)'
<1>1. LockOK(a)'
  BY DEF ActorOK, LockOK, Undisturbed
<1>2. ClearOK(a)'
  <2>1. PICK c : c = act[a] /\ c = act'[a]
    BY DEF Undisturbed
  <2> DEFINE e == c.plan.claim
             new == c.plan.new.binding
             held(h) == device[h] # None /\ device[h].binding.state = "accepted" /\ device[h].binding.entry = e
  <2> SUFFICES ASSUME c.pc # "idle", e \in Entry
               PROVE  /\ c.pc \in {"prove", "write"} /\ new.state = "accepted" =>
                           new.entry = e /\ (e \notin overrun' => \A h \in Device \ {c.dev} : ~held(h)')
                      /\ c.pc = "supersede" /\ e \notin overrun' =>
                           \A h \in Device \ {c.dev} : held(h)' => h = c.holder /\ device'[h].binding.uid = c.uid
    BY <2>1 DEF ClearOK, Holders
  <2>2. e \notin overrun' => e \notin overrun
    BY DEF Undisturbed
  <2>3. /\ c.pc \in {"prove", "write"} /\ new.state = "accepted" =>
             new.entry = e /\ (e \notin overrun => \A h \in Device \ {c.dev} : ~held(h))
        /\ c.pc = "supersede" /\ e \notin overrun =>
             \A h \in Device \ {c.dev} : held(h) => h = c.holder /\ device[h].binding.uid = c.uid
    BY <2>1 DEF ActorOK, ClearOK, Holders
  <2>4. c.pc \in {"supersede", "prove", "write"} /\ e \notin overrun' =>
          \A h \in Device \ {c.dev} : held(h)' => held(h) /\ device'[h].binding.uid = device[h].binding.uid
    BY <2>1 DEF Unrivalled
  <2> HIDE DEF e, new, held
  <2> QED BY <2>2, <2>3, <2>4
<1>3. FreshOK(a)'
  BY DEF ActorOK, FreshOK, Undisturbed, Sound, SameUID
<1>4. ProvedOK(a)'
  BY DEF ActorOK, ProvedOK, Undisturbed
<1>5. LostOK(a)'
  BY DEF ActorOK, LostOK, Undisturbed
<1> QED BY <1>1, <1>2, <1>3, <1>4, <1>5 DEF ActorOK

LEMMA MildUnrivalled == ASSUME NEW a \in Actor, Mild PROVE Unrivalled(a)
BY DEF Mild, Unrivalled

LEMMA MildOneHolder ==
  ASSUME OneHolder, Mild, overrun \subseteq overrun'
  PROVE  OneHolder'
BY DEF OneHolder, Mild, Holders

\* An accepted binding alone can be lost.
LEMMA LostAccepted == ASSUME NEW b \in Bindings, b.validity = "lost" PROVE b.state = "accepted"
BY DEF Bindings

LEMMA MildLostKnown ==
  ASSUME Types', LostKnown, Mild,
         \A h \in Device : device[h] # None /\ device[h].binding.uid \in everLost => device[h].binding.uid \in everLost'
  PROVE  LostKnown'
<1> SUFFICES ASSUME NEW h \in Device, device'[h] # None, device'[h].binding.validity = "lost"
             PROVE  device'[h].binding.uid \in everLost'
  BY DEF LostKnown
<1>1. device'[h].binding \in Bindings
  BY DEF Types, StoreTypes, Records
<1>2. device'[h].binding.state = "accepted"
  BY <1>1, LostAccepted
<1> QED BY <1>2 DEF Mild, LostKnown

\* A step of users, of providers, of the removal and of time.
External ==
  /\ act' = act /\ proof' = proof /\ everLost' = everLost /\ overrun \subseteq overrun'
  /\ \A e \in Entry \ overrun', a \in Actor : lock[e] = a => lock'[e] = a
  /\ \A a \in Actor : act[a].pc # "idle" /\ a \notin stale' => a \notin stale /\ device'[act[a].dev] = device[act[a].dev]

LEMMA ExternalStep ==
  ASSUME IInv, Types', External, Mild
  PROVE  (\A a \in Actor : ActorOK(a)') /\ Mutex' /\ LostKnown' /\ OneHolder'
<1>1. ASSUME NEW a \in Actor PROVE ActorOK(a)'
  <2>1. Undisturbed(a)
    BY DEF External, Undisturbed
  <2> QED BY <2>1, Bystander, MildUnrivalled DEF IInv
<1>2. Mutex'
  BY DEF IInv, Mutex, External
<1>3. LostKnown'
  BY MildLostKnown DEF IInv, External
<1>4. OneHolder'
  BY MildOneHolder DEF IInv, External
<1> QED BY <1>1, <1>2, <1>3, <1>4

LEMMA SameDevices == ASSUME device' = device PROVE Mild
BY DEF Mild

-----------------------------------------------------------------------------
(* The effects of the operations on the store.                             *)

\* UpdateDevice: who else works on the Device has an outdated copy.
LEMMA Stored ==
  ASSUME Types, NEW d \in Device, NEW rec \in Records, NEW a, Store(d, rec, a)
  PROVE  /\ device' \in [Device -> Records \cup {None}] /\ device'[d] = rec
         /\ \A h \in Device \ {d} : device'[h] = device[h]
         /\ stale' \subseteq Actor /\ events' \subseteq Device /\ stale \subseteq stale'
         /\ \A x \in Actor \ {a} : act[x].dev = d => x \in stale'
<1>1. device \in [Device -> Records \cup {None}] /\ stale \subseteq Actor /\ events \subseteq Device
  BY DEF Types, StoreTypes, ActorTypes
<1>2. device' = [device EXCEPT ![d] = rec]
  BY DEF Store
<1>3. stale' = stale \cup {x \in Actor \ {a} : act[x].dev = d}
  BY DEF Store
<1>4. events' \subseteq events \cup {d}
  BY DEF Store
<1> QED BY <1>1, <1>2, <1>3, <1>4

LEMMA OutdatedSweep ==
  ASSUME ListTypes, SweepOK, NEW d \in Device, Outdate(d), \A h \in Device \ {d} : device'[h] = device[h],
         removal' \subseteq removal
  PROVE  ListTypes' /\ SweepOK'
<1> DEFINE S == [todo : SUBSET Device, copy : [Device -> Records \cup {None}], outdated : SUBSET Device,
                 owner : {"unread", "listed", "gone"}]
<1>1. sweep \in S
  BY DEF ListTypes
<1>2. /\ sweep' \in S /\ sweep'.todo = sweep.todo /\ sweep'.copy = sweep.copy
      /\ sweep'.outdated = sweep.outdated \cup (sweep.todo \cap {d})
  BY <1>1 DEF Outdate
<1>3. ListTypes'
  BY <1>2 DEF ListTypes
<1>4. SweepOK'
  BY <1>1, <1>2 DEF SweepOK
<1> QED BY <1>3, <1>4

\* The reset of a binding, and the deletion or the probe of a Device: another
\* client changes the Device d and binds nothing.
Changed(d) ==
  /\ \A h \in Device \ {d} : device'[h] = device[h]
  /\ \/ device'[d] = None
     \/ device'[d].binding = NoBinding
     \/ device'[d] = device[d]
     \/ device[d] # None /\ device'[d].binding = device[d].binding /\ device'[d].attempt.state = "submitted"
  /\ stale \subseteq stale' /\ (device'[d] = device[d] \/ \A a \in Actor : act[a].dev = d => a \in stale')

LEMMA ChangedMild == ASSUME NEW d \in Device, Changed(d) PROVE Mild
<1> SUFFICES ASSUME NEW h \in Device, device'[h] # None, device'[h].binding.state = "accepted"
             PROVE  device[h] # None /\ device'[h].binding = device[h].binding
  BY DEF Mild
<1>1. NoBinding.state # "accepted"
  BY DEF NoBinding, Unbound
<1> QED BY <1>1 DEF Changed

LEMMA ResetChanges ==
  ASSUME Types, NEW d \in Device, NEW b, ResetBinding(d, b)
  PROVE  /\ Changed(d) /\ device' \in [Device -> Records \cup {None}]
         /\ stale' \subseteq Actor /\ events' \subseteq Device
<1>1. CASE device[d] # None /\ SameUID(device[d].binding, b)
  <2> DEFINE rec == [binding |-> NoBinding, attempt |-> NoAttempt]
  <2>1. rec \in Records /\ rec.binding = NoBinding
    BY ValueTypes, MakeRecord DEF NoBinding, Unbound
  <2>2. Store(d, rec, None)
    BY <1>1 DEF ResetBinding
  <2> HIDE DEF rec
  <2>3. /\ device' \in [Device -> Records \cup {None}] /\ device'[d] = rec
        /\ \A h \in Device \ {d} : device'[h] = device[h]
        /\ stale' \subseteq Actor /\ events' \subseteq Device /\ stale \subseteq stale'
        /\ \A x \in Actor \ {None} : act[x].dev = d => x \in stale'
    BY <2>1, <2>2, Stored
  <2>4. \A a \in Actor : act[a].dev = d => a \in stale'
    BY <2>3, NoneApart
  <2> QED BY <2>1, <2>3, <2>4 DEF Changed
<1>2. CASE ~(device[d] # None /\ SameUID(device[d].binding, b))
  BY <1>2 DEF ResetBinding, Changed, Types, StoreTypes, ActorTypes
<1> QED BY <1>1, <1>2

LEMMA HandledSweep ==
  ASSUME ListTypes, SweepOK, NEW d \in sweep.todo, sweep' = Handled(d),
         \A h \in Device \ {d} : device'[h] = device[h], removal' = removal
  PROVE  ListTypes' /\ SweepOK'
<1> DEFINE S == [todo : SUBSET Device, copy : [Device -> Records \cup {None}], outdated : SUBSET Device,
                 owner : {"unread", "listed", "gone"}]
<1>1. sweep \in S
  BY DEF ListTypes
<1>2. CASE sweep.todo = {d}
  <2>1. sweep' = Swept
    BY <1>2 DEF Handled
  <2>2. Swept \in S /\ Swept.todo = {}
    BY DEF Swept
  <2> QED BY <2>1, <2>2 DEF ListTypes, SweepOK
<1>3. CASE sweep.todo # {d}
  <2>1. sweep' = [sweep EXCEPT !.todo = @ \ {d}, !.copy[d] = None, !.outdated = @ \ {d}]
    BY <1>3 DEF Handled
  <2> DEFINE copy == [sweep.copy EXCEPT ![d] = None]
  <2>a. copy \in [Device -> Records \cup {None}] /\ \A h \in Device \ {d} : copy[h] = sweep.copy[h]
    BY <1>1
  <2>b. sweep' = [todo |-> sweep.todo \ {d}, copy |-> copy, outdated |-> sweep.outdated \ {d}, owner |-> sweep.owner]
    BY <1>1, <2>1
  <2> HIDE DEF copy
  <2>2. /\ sweep' \in S /\ sweep'.todo = sweep.todo \ {d} /\ sweep'.outdated = sweep.outdated \ {d}
        /\ \A h \in Device \ {d} : sweep'.copy[h] = sweep.copy[h]
    BY <1>1, <2>a, <2>b
  <2>3. ListTypes'
    BY <1>1, <2>2 DEF ListTypes
  <2>4. SweepOK'
    BY <1>1, <2>2 DEF SweepOK
  <2> QED BY <2>3, <2>4
<1> QED BY <1>2, <1>3

LEMMA ChangeType == ASSUME Types, Change \/ UNCHANGED changes PROVE changes' \in 0 .. MaxChanges
BY DeviceAssumption DEF Types, StoreTypes, Change

-----------------------------------------------------------------------------
(* The steps of the environment and of the removal.                        *)

\* A Device is reset, deleted or probed by another client.
LEMMA ChangedStep ==
  ASSUME IInv, NEW d \in Device, Changed(d), device' \in [Device -> Records \cup {None}],
         stale' \subseteq Actor, events' \subseteq Device, ListTypes', SweepOK',
         Change \/ UNCHANGED changes, UNCHANGED <<proof, exists, registry, fits, act, lock, history>>
  PROVE  IInv'
<1>1. Types'
  <2>1. StoreTypes'
    BY ChangeType DEF IInv, Types, StoreTypes
  <2>2. ActorTypes'
    BY DEF IInv, Types, ActorTypes, history
  <2> QED BY <2>1, <2>2 DEF Types
<1>2. External
  <2>1. \A a \in Actor : act[a].pc # "idle" => act[a].dev \in Device
    BY BusyTypes DEF IInv
  <2>2. \A a \in Actor : act[a].pc # "idle" /\ a \notin stale' => a \notin stale /\ device'[act[a].dev] = device[act[a].dev]
    BY <2>1 DEF Changed
  <2> QED BY <2>2 DEF External, history
<1>3. Mild
  BY ChangedMild
<1> QED BY <1>1, <1>2, <1>3, ExternalStep DEF IInv

LEMMA ChangedLists ==
  ASSUME IInv, NEW d \in Device, Changed(d), Outdate(d), removal' \subseteq removal
  PROVE  ListTypes' /\ SweepOK'
BY OutdatedSweep DEF IInv, Types, Changed

LEMMA SweepResetsStep == ASSUME IInv, NEW d \in Device, SweepResets(d) PROVE IInv'
<1>1. /\ d \in sweep.todo /\ ResetBinding(d, sweep.copy[d].binding) /\ sweep' = Handled(d)
      /\ UNCHANGED <<proof, exists, registry, fits, act, removal, lock, changes, history>>
  BY DEF SweepResets
<1>2. /\ Changed(d) /\ device' \in [Device -> Records \cup {None}]
      /\ stale' \subseteq Actor /\ events' \subseteq Device
  BY <1>1, ResetChanges DEF IInv
<1>3. ListTypes' /\ SweepOK'
  BY <1>1, <1>2, HandledSweep DEF IInv, Types, Changed
<1> QED BY <1>1, <1>2, <1>3, ChangedStep

LEMMA ResetDeviceBindingStep == ASSUME IInv, NEW d \in Device, ResetDeviceBinding(d) PROVE IInv'
<1>1. /\ Change /\ ResetBinding(d, device[d].binding) /\ Outdate(d)
      /\ UNCHANGED <<proof, exists, registry, fits, act, removal, lock, history>>
  BY DEF ResetDeviceBinding
<1>2. /\ Changed(d) /\ device' \in [Device -> Records \cup {None}]
      /\ stale' \subseteq Actor /\ events' \subseteq Device
  BY <1>1, ResetChanges DEF IInv
<1>3. ListTypes' /\ SweepOK'
  BY <1>1, <1>2, ChangedLists
<1> QED BY <1>1, <1>2, <1>3, ChangedStep

LEMMA RemovalResetsStep == ASSUME IInv, RemovalResets PROVE IInv'
<1>1. PICK item \in removal, done \in BOOLEAN :
        /\ removal' = removal \ {item} /\ (IF done THEN UNCHANGED changes ELSE Change)
        /\ IF done THEN ResetBinding(item[1], item[2]) /\ Outdate(item[1])
           ELSE UNCHANGED <<device, stale, events, sweep>>
        /\ UNCHANGED <<proof, exists, registry, fits, act, lock, history>>
  BY DEF RemovalResets
<1> DEFINE d == item[1]
<1>2. d \in Device
  BY DEF IInv, Types, ListTypes
<1>3. CASE done
  <2>1. /\ Changed(d) /\ device' \in [Device -> Records \cup {None}]
        /\ stale' \subseteq Actor /\ events' \subseteq Device
    BY <1>1, <1>2, <1>3, ResetChanges DEF IInv
  <2>2. ListTypes' /\ SweepOK'
    BY <1>1, <1>2, <1>3, <2>1, ChangedLists
  <2> QED BY <1>1, <1>2, <1>3, <2>1, <2>2, ChangedStep
<1>4. CASE ~done
  <2>1. UNCHANGED <<device, stale, events, sweep>> /\ Change /\ removal' \subseteq removal
    BY <1>1, <1>4
  <2>2. Changed(d) /\ device' \in [Device -> Records \cup {None}] /\ stale' \subseteq Actor /\ events' \subseteq Device
    BY <2>1 DEF Changed, IInv, Types, StoreTypes, ActorTypes
  <2>3. ListTypes' /\ SweepOK'
    BY <2>1 DEF IInv, Types, ListTypes, SweepOK
  <2> QED BY <1>1, <1>2, <2>1, <2>2, <2>3, ChangedStep
<1> QED BY <1>3, <1>4

LEMMA ProbeChanges ==
  ASSUME IInv, NEW d \in Device, SubmitProbe(d)
  PROVE  /\ Changed(d) /\ device' \in [Device -> Records \cup {None}]
         /\ stale' \subseteq Actor /\ events' \subseteq Device
<1>1. PICK e \in Entry : device' = [device EXCEPT ![d].attempt = [state |-> "submitted", id |-> e]]
  BY DEF SubmitProbe
<1>2. /\ device[d] # None /\ stale' = stale \cup {a \in Actor : act[a].dev = d}
      /\ events' = events \cup {d}
  BY DEF SubmitProbe
<1> DEFINE attempt == [state |-> "submitted", id |-> e]
           rec == [device[d] EXCEPT !.attempt = attempt]
<1>3. device \in [Device -> Records \cup {None}] /\ stale \subseteq Actor /\ events \subseteq Device
  BY DEF IInv, Types, StoreTypes, ActorTypes
<1>4. attempt \in Attempts /\ attempt.state = "submitted"
  BY DEF Attempts
<1>5. rec \in Records /\ rec.binding = device[d].binding /\ rec.attempt.state = "submitted"
  <2>1. device[d] \in Records
    BY <1>2, <1>3
  <2> HIDE DEF attempt
  <2> QED BY <1>4, <2>1 DEF Records
<1>6. device' = [device EXCEPT ![d] = rec]
  BY <1>1, <1>3
<1> HIDE DEF rec
<1> QED BY <1>2, <1>3, <1>5, <1>6 DEF Changed

LEMMA SubmitProbeStep == ASSUME IInv, NEW d \in Device, SubmitProbe(d) PROVE IInv'
<1>1. Change /\ Outdate(d) /\ UNCHANGED <<proof, exists, registry, fits, act, removal, lock, history>>
  BY DEF SubmitProbe
<1>2. /\ Changed(d) /\ device' \in [Device -> Records \cup {None}]
      /\ stale' \subseteq Actor /\ events' \subseteq Device
  BY ProbeChanges
<1>3. ListTypes' /\ SweepOK'
  BY <1>1, <1>2, ChangedLists
<1> QED BY <1>1, <1>2, <1>3, ChangedStep

LEMMA DeleteChanges ==
  ASSUME IInv, NEW d \in Device, DeleteDevice(d)
  PROVE  /\ Changed(d) /\ device' \in [Device -> Records \cup {None}]
         /\ stale' \subseteq Actor /\ events' \subseteq Device
<1>1. /\ device' = [device EXCEPT ![d] = None] /\ stale' = stale \cup {a \in Actor : act[a].dev = d}
      /\ events' = events
  BY DEF DeleteDevice
<1>2. device \in [Device -> Records \cup {None}] /\ stale \subseteq Actor /\ events \subseteq Device
  BY DEF IInv, Types, StoreTypes, ActorTypes
<1>3. /\ device' \in [Device -> Records \cup {None}] /\ device'[d] = None
      /\ \A h \in Device \ {d} : device'[h] = device[h]
  BY <1>1, <1>2
<1> QED BY <1>1, <1>2, <1>3 DEF Changed

LEMMA DeleteDeviceStep == ASSUME IInv, NEW d \in Device, DeleteDevice(d) PROVE IInv'
<1>1. /\ Change /\ Outdate(d)
      /\ UNCHANGED <<proof, exists, registry, fits, act, removal, lock, history>>
  BY DEF DeleteDevice
<1>2. /\ Changed(d) /\ device' \in [Device -> Records \cup {None}]
      /\ stale' \subseteq Actor /\ events' \subseteq Device
  BY DeleteChanges
<1>3. ListTypes' /\ SweepOK'
  BY <1>1, <1>2, ChangedLists
<1> QED BY <1>1, <1>2, <1>3, ChangedStep

\* Nothing is written, and no handler takes a step.
LEMMA QuietStep ==
  ASSUME IInv, Types', SweepOK', UNCHANGED <<device, proof, act, stale, everLost>>, overrun \subseteq overrun',
         \A e \in Entry \ overrun', a \in Actor : lock[e] = a => lock'[e] = a
  PROVE  IInv'
<1>1. Mild
  BY SameDevices
<1>2. External
  BY DEF External
<1> QED BY <1>1, <1>2, ExternalStep DEF IInv

LEMMA ListStep == ASSUME IInv, List PROVE IInv'
<1> DEFINE S == [todo : SUBSET Device, copy : [Device -> Records \cup {None}], outdated : SUBSET Device,
                 owner : {"unread", "listed", "gone"}]
<1>1. UNCHANGED <<device, proof, exists, registry, fits, act, stale, events, removal, lock, changes, overrun, everLost>>
  BY DEF List, store, history
<1>2. sweep \in S /\ device \in [Device -> Records \cup {None}]
  BY DEF IInv, Types, ListTypes, StoreTypes
<1>3. /\ sweep' \in S /\ \A d \in sweep'.todo : sweep'.copy[d] \in Records \ {None}
      /\ SweepOK'
  <2>1. CASE sweep' = [Swept EXCEPT !.todo = {d \in Device : device[d] # None}, !.copy = device]
    <3>1. sweep' = [todo |-> {d \in Device : device[d] # None}, copy |-> device, outdated |-> {}, owner |-> "unread"]
      BY <2>1 DEF Swept
    <3> QED BY <1>1, <1>2, <3>1 DEF SweepOK
  <2>2. CASE sweep' = [sweep EXCEPT !.owner = IF exists THEN "listed" ELSE "gone"]
    <3>1. /\ sweep' \in S /\ sweep'.todo = sweep.todo /\ sweep'.copy = sweep.copy /\ sweep'.outdated = sweep.outdated
      BY <1>2, <2>2
    <3> QED BY <1>1, <3>1 DEF IInv, Types, ListTypes, SweepOK
  <2> QED BY <2>1, <2>2 DEF List
<1>4. Types'
  BY <1>1, <1>3 DEF IInv, Types, StoreTypes, ActorTypes, ListTypes
<1> QED BY <1>1, <1>3, <1>4, QuietStep

LEMMA RemoveOwnerStep == ASSUME IInv, RemoveOwner PROVE IInv'
<1>1. /\ UNCHANGED <<device, proof, exists, fits, act, stale, events, sweep, lock, changes, overrun, everLost>>
      /\ registry' = "none"
      /\ removal' = {<<d, device[d].binding>> : d \in {x \in Device : device[x] # None /\ device[x].binding.state # "none"}}
  BY DEF RemoveOwner, store, history
<1>2. \A d \in Device : device[d] # None => device[d].binding \in Bindings
  BY DEF IInv, Types, StoreTypes, Records
<1>3. removal' \subseteq Device \X Bindings
  BY <1>1, <1>2
<1>4. Types'
  BY <1>1, <1>3 DEF IInv, Types, StoreTypes, ActorTypes, ListTypes
<1>5. SweepOK'
  BY <1>1 DEF IInv, SweepOK
<1> QED BY <1>1, <1>4, <1>5, QuietStep

\* A step that changes only the DeviceManager and its inventory.
LEMMA OwnerStep ==
  ASSUME IInv, UNCHANGED <<device, proof, act, stale, events, sweep, removal, lock, overrun, everLost>>,
         exists' \in BOOLEAN, registry' \in {"ready", "stale", "disabled", "none"}, fits' \in Inventories,
         Change \/ UNCHANGED changes
  PROVE  IInv'
<1>1. Types'
  BY ChangeType DEF IInv, Types, StoreTypes, ActorTypes, ListTypes
<1>2. SweepOK'
  BY DEF IInv, SweepOK
<1> QED BY <1>1, <1>2, QuietStep

LEMMA PollStep == ASSUME IInv, Poll PROVE IInv'
BY OwnerStep DEF Poll, store, history, IInv, Types, StoreTypes

LEMMA SetOwnerStep == ASSUME IInv, SetOwner PROVE IInv'
BY OwnerStep DEF SetOwner, store, history, IInv, Types, StoreTypes

LEMMA DeleteManagerStep == ASSUME IInv, DeleteManager PROVE IInv'
BY OwnerStep DEF DeleteManager, memory, history, IInv, Types, StoreTypes

LEMMA StutterStep == ASSUME IInv, UNCHANGED vars PROVE IInv'
BY OwnerStep DEF vars, store, memory, history, IInv, Types, StoreTypes

LEMMA ExpireStep == ASSUME IInv, NEW e \in Entry, Expire(e) PROVE IInv'
<1>1. /\ UNCHANGED <<device, proof, exists, registry, fits, act, stale, events, sweep, removal, everLost>>
      /\ lock' = [lock EXCEPT ![e] = None]
      /\ Change \/ UNCHANGED changes
      /\ IF lock[e] \in Actor THEN overrun' = overrun \cup {e} ELSE overrun' = overrun
  BY DEF Expire, store, memory
<1>2. lock \in [Entry -> Actor \cup {None, "lost"}] /\ overrun \subseteq Entry
  BY DEF IInv, Types, ActorTypes
<1>3. lock' \in [Entry -> Actor \cup {None, "lost"}] /\ overrun' \subseteq Entry /\ overrun \subseteq overrun'
  BY <1>1, <1>2
<1>4. \A x \in Entry \ overrun', a \in Actor : lock[x] = a => lock'[x] = a
  BY <1>1, <1>2
<1>5. Types'
  BY <1>1, <1>3, ChangeType DEF IInv, Types, StoreTypes, ActorTypes, ListTypes
<1>6. SweepOK'
  BY <1>1 DEF IInv, SweepOK
<1> QED BY <1>1, <1>3, <1>4, <1>5, <1>6, QuietStep

\* A restart: nothing is left of what the handlers did.
LEMMA RestartStep == ASSUME IInv, Restart PROVE IInv'
<1>1. /\ UNCHANGED <<device, proof, exists, fits, overrun, everLost>> /\ Change
      /\ registry' = IF ~exists THEN "none" ELSE IF registry = "disabled" THEN registry ELSE "stale"
      /\ act' = [a \in Actor |-> Idle] /\ stale' = {} /\ events' = {} /\ sweep' = Swept /\ removal' = {}
      /\ lock' = [e \in Entry |-> IF lock[e] = None THEN None ELSE "lost"]
  BY DEF Restart, store, history
<1>2. \A a \in Actor : act'[a] = Idle /\ act'[a].pc = "idle"
  BY <1>1 DEF Idle, At
<1>3. Types'
  <2>1. StoreTypes'
    BY <1>1, ChangeType DEF IInv, Types, StoreTypes
  <2>2. ActorTypes'
    <3>1. lock' \in [Entry -> Actor \cup {None, "lost"}] /\ act' \in [Actor -> BusyType \cup {Idle}]
      BY <1>1
    <3> QED BY <1>1, <1>2, <3>1 DEF IInv, Types, ActorTypes
  <2>3. ListTypes'
    BY <1>1 DEF ListTypes, Swept
  <2> QED BY <2>1, <2>2, <2>3 DEF Types
<1>4. (\A a \in Actor : ActorOK(a)') /\ Mutex'
  BY <1>2, IdleOK DEF Mutex
<1>5. SweepOK'
  BY <1>1 DEF SweepOK, Swept
<1>6. LostKnown' /\ OneHolder'
  BY <1>1, SameDevices, MildOneHolder DEF IInv, LostKnown
<1> QED BY <1>3, <1>4, <1>5, <1>6 DEF IInv

-----------------------------------------------------------------------------
(* The steps of a handler that write no Device.                            *)

\* A step of the handler a: who else is at work is not concerned.
Local(a) ==
  /\ Mild /\ overrun' = overrun
  /\ \A b \in Actor \ {a} :
       /\ act'[b] = act[b] /\ \A e \in Entry : lock[e] = b => lock'[e] = b
       /\ act[b].pc # "idle" /\ b \notin stale' => b \notin stale /\ device'[act[b].dev] = device[act[b].dev]
       /\ act[b].pc = "write" => proof'[act[b].dev] = proof[act[b].dev]
       /\ act[b].uid \in everLost => act[b].uid \in everLost'
  /\ \A h \in Device : device[h] # None /\ device[h].binding.uid \in everLost => device[h].binding.uid \in everLost'
  /\ act'[a].pc # "idle" => \A b \in Actor \ {a} : act[b].dev # act'[a].dev

LEMMA LocalStep ==
  ASSUME IInv, Types', SweepOK', NEW a \in Actor, Local(a), ActorOK(a)'
  PROVE  IInv'
<1>1. ASSUME NEW b \in Actor \ {a} PROVE ActorOK(b)'
  <2>1. Undisturbed(b)
    BY DEF Local, Undisturbed
  <2> QED BY <2>1, Bystander, MildUnrivalled DEF IInv, Local
<1>2. \A b \in Actor : ActorOK(b)'
  BY <1>1
<1>3. Mutex'
  BY DEF IInv, Mutex, Local
<1>4. LostKnown'
  BY MildLostKnown DEF IInv, Local
<1>5. OneHolder'
  BY MildOneHolder DEF IInv, Local
<1> QED BY <1>2, <1>3, <1>4, <1>5 DEF IInv

\* While a handler works on a Device no other one does.
LEMMA MutexDev ==
  ASSUME IInv, NEW a \in Actor, act[a].pc # "idle"
  PROVE  \A b \in Actor \ {a} : act[b].dev # act[a].dev
<1> SUFFICES ASSUME NEW b \in Actor \ {a} PROVE act[b].dev # act[a].dev
  OBVIOUS
<1>1. act[a].dev \in Device
  BY BusyTypes DEF IInv
<1>2. CASE act[b].pc = "idle"
  <2>1. act[b] = Idle
    BY <1>2, BusyTypes DEF IInv, BusyType
  <2> QED BY <2>1, <1>1, NoneApart DEF Idle, At
<1>3. CASE act[b].pc # "idle"
  BY <1>3 DEF IInv, Mutex
<1> QED BY <1>2, <1>3

LEMMA Released ==
  ASSUME Types, NEW a \in Actor, lock' = [e \in Entry |-> IF lock[e] = a THEN None ELSE lock[e]]
  PROVE  /\ lock' \in [Entry -> Actor \cup {None, "lost"}]
         /\ \A b \in Actor \ {a}, e \in Entry : lock[e] = b => lock'[e] = b
BY DEF Types, ActorTypes

\* The handler returns without a write, because of a lock or of a fault.
LEMMA ReturnStep ==
  ASSUME IInv, NEW a \in Actor, Return(a), Change \/ UNCHANGED changes,
         UNCHANGED <<store, registry, fits, events, sweep, removal, history>>
  PROVE  IInv'
<1>1. /\ act' = [act EXCEPT ![a] = Idle] /\ stale' = stale \ {a}
      /\ lock' = [e \in Entry |-> IF lock[e] = a THEN None ELSE lock[e]]
  BY DEF Return
<1>2. act \in [Actor -> BusyType \cup {Idle}] /\ stale \subseteq Actor
  BY DEF IInv, Types, ActorTypes
<1>3. /\ act' \in [Actor -> BusyType \cup {Idle}] /\ act'[a].pc = "idle"
      /\ \A b \in Actor \ {a} : act'[b] = act[b]
  BY <1>1, <1>2 DEF Idle, At
<1>4. /\ lock' \in [Entry -> Actor \cup {None, "lost"}]
      /\ \A b \in Actor \ {a}, e \in Entry : lock[e] = b => lock'[e] = b
  BY <1>1, Released DEF IInv
<1>5. Types'
  <2>1. StoreTypes' /\ ListTypes'
    BY ChangeType DEF IInv, Types, StoreTypes, ListTypes, store
  <2>2. ActorTypes'
    BY <1>1, <1>2, <1>3, <1>4 DEF IInv, Types, ActorTypes, history
  <2> QED BY <2>1, <2>2 DEF Types
<1>6. SweepOK'
  BY DEF IInv, SweepOK, store
<1>7. Local(a)
  BY <1>1, <1>3, <1>4, SameDevices DEF Local, store, history
<1> QED BY <1>3, <1>5, <1>6, <1>7, LocalStep, IdleOK

LEMMA GiveUpStep == ASSUME IInv, NEW a \in Actor, GiveUp(a) PROVE IInv'
BY ReturnStep DEF GiveUp

LEMMA FailStep == ASSUME IInv, NEW a \in Actor, Fail(a) PROVE IInv'
BY ReturnStep DEF Fail

\* The handler a decided from the record rec of the Device d.
Decided(x, d, rec) ==
  /\ x.dev = d /\ x.pc \in {"claim", "prove", "write"} /\ Sound(x.plan, rec)
  /\ x.pc = "claim" => x.copy \in Records /\ x.plan.claim \in Entry /\ x.plan.new = Cleared
  /\ x.pc # "claim" => x.plan.claim = None
  /\ x.pc = "write" => ~x.plan.prove

LEMMA Decides ==
  ASSUME Types, NEW a \in Actor, NEW d \in Device, NEW rec \in Records, Decide(a, d, rec)
  PROVE  /\ act' \in [Actor -> BusyType \cup {Idle}] /\ \A b \in Actor \ {a} : act'[b] = act[b]
         /\ act'[a] = Idle \/ Decided(act'[a], d, rec)
<1>1. PICK plan \in Plans(d, rec) :
        act' = [act EXCEPT ![a] =
          IF plan.claim # None THEN At("claim", d, rec, plan)
          ELSE IF plan.new = rec THEN Idle ELSE At(WriteStep(plan), d, None, plan)]
  BY DEF Decide
<1>2. act \in [Actor -> BusyType \cup {Idle}]
  BY DEF Types, ActorTypes
<1>3. CASE plan.claim = None /\ plan.new = rec
  BY <1>1, <1>2, <1>3
<1>4. CASE ~(plan.claim = None /\ plan.new = rec)
  <2>1. plan \in PlanType /\ Sound(plan, rec) /\ Claiming(plan)
    BY <1>4, PlanSound DEF Effective
  <2>2. plan.claim \in Entry \cup {None} /\ plan.prove \in BOOLEAN
    BY <2>1 DEF PlanType
  <2>3. CASE plan.claim # None
    <3> DEFINE x == At("claim", d, rec, plan)
    <3>1. x \in BusyType
      BY <2>1 DEF At, BusyType
    <3>2. Decided(x, d, rec)
      BY <2>1, <2>2, <2>3 DEF At, Decided, Claiming
    <3>3. act' = [act EXCEPT ![a] = x]
      BY <1>1, <2>3
    <3> HIDE DEF x
    <3> QED BY <1>2, <3>1, <3>2, <3>3
  <2>4. CASE plan.claim = None
    <3> DEFINE x == At(WriteStep(plan), d, None, plan)
    <3>1. WriteStep(plan) \in {"prove", "write"} /\ (WriteStep(plan) = "write" => ~plan.prove)
      BY DEF WriteStep
    <3>2. x \in BusyType
      BY <2>1, <3>1 DEF At, BusyType
    <3>3. Decided(x, d, rec)
      BY <2>1, <2>2, <2>4, <3>1 DEF At, Decided
    <3>4. act' = [act EXCEPT ![a] = x]
      BY <1>1, <1>4, <2>4
    <3> HIDE DEF x
    <3> QED BY <1>2, <3>2, <3>3, <3>4
  <2> QED BY <2>3, <2>4
<1> QED BY <1>3, <1>4

LEMMA DecidedOK ==
  ASSUME NEW a \in Actor, NEW d \in Device, NEW rec \in Records \ {None},
         act'[a] = Idle \/ Decided(act'[a], d, rec), a \notin stale' => device'[d] = rec
  PROVE  ActorOK(a)'
<1>1. CASE act'[a] = Idle
  BY <1>1, IdleOK DEF Idle, At
<1>2. CASE Decided(act'[a], d, rec)
  <2>1. /\ act'[a].dev = d /\ act'[a].pc \in {"claim", "prove", "write"} /\ Sound(act'[a].plan, rec)
        /\ act'[a].pc # "claim" => act'[a].plan.claim \notin Entry
        /\ act'[a].pc = "write" => ~act'[a].plan.prove
    BY <1>2, NoneApart DEF Decided
  <2>2. LockOK(a)' /\ ClearOK(a)' /\ LostOK(a)' /\ ProvedOK(a)'
    BY <2>1 DEF LockOK, ClearOK, LostOK, ProvedOK
  <2>3. FreshOK(a)'
    <3> SUFFICES ASSUME a \notin stale'
                 PROVE  device'[act'[a].dev] \in Records \ {None} /\ Sound(act[a].plan, device[act[a].dev])'
      BY DEF FreshOK
    <3>1. device'[act'[a].dev] = rec
      BY <2>1
    <3> QED BY <2>1, <3>1 DEF Sound, SameUID
  <2> QED BY <2>2, <2>3 DEF ActorOK
<1> QED BY <1>1, <1>2

LEMMA DecideStep ==
  ASSUME IInv, NEW a \in Actor, NEW d \in Device, NEW rec \in Records \ {None}, Decide(a, d, rec),
         \A b \in Actor \ {a} : act[b].dev # d, a \notin stale' => device[d] = rec,
         lock' \in [Entry -> Actor \cup {None, "lost"}],
         \A b \in Actor \ {a}, e \in Entry : lock[e] = b => lock'[e] = b,
         stale' \subseteq Actor, stale \ {a} \subseteq stale', events' \subseteq Device, ListTypes', SweepOK',
         UNCHANGED <<store, registry, fits, changes, history>>
  PROVE  IInv'
<1>1. /\ act' \in [Actor -> BusyType \cup {Idle}] /\ \A b \in Actor \ {a} : act'[b] = act[b]
      /\ act'[a] = Idle \/ Decided(act'[a], d, rec)
  BY Decides DEF IInv
<1>2. act'[a].pc \in {"idle", "claim", "prove", "write"} /\ (act'[a].pc # "idle" => act'[a].dev = d)
  BY <1>1 DEF Idle, At, Decided
<1>3. act'[a].pc = "claim" =>
        act'[a].copy \in Records /\ act'[a].plan.claim \in Entry /\ act'[a].plan.new = Cleared
  BY <1>1 DEF Idle, At, Decided
<1>4. Types'
  <2>1. StoreTypes'
    BY DEF IInv, Types, StoreTypes, store
  <2>2. ActorTypes'
    BY <1>1, <1>2, <1>3 DEF IInv, Types, ActorTypes, history
  <2> QED BY <2>1, <2>2 DEF Types
<1>5. Local(a)
  BY <1>1, <1>2, SameDevices DEF Local, store, history
<1>6. ActorOK(a)'
  BY <1>1, DecidedOK DEF store
<1> QED BY <1>4, <1>5, <1>6, LocalStep

LEMMA TakeEventStep == ASSUME IInv, NEW d \in Device, TakeEvent(d) PROVE IInv'
<1>1. /\ Free(d) /\ events' = events \ {d} /\ "watch" \in Actor
      /\ UNCHANGED <<store, registry, fits, stale, sweep, removal, lock, changes, history>>
  BY DEF TakeEvent, Actor
<1>2. ListTypes' /\ SweepOK' /\ events' \subseteq Device
  BY <1>1 DEF IInv, Types, ActorTypes, ListTypes, SweepOK, store
<1>3. CASE device[d] = None
  <2>1. UNCHANGED act
    BY <1>3 DEF TakeEvent
  <2>2. Types'
    BY <1>1, <1>2, <2>1 DEF IInv, Types, StoreTypes, ActorTypes, store, history
  <2> QED BY <1>1, <1>2, <2>1, <2>2, QuietStep DEF store, history
<1>4. CASE device[d] # None
  <2>1. Decide("watch", d, device[d])
    BY <1>4 DEF TakeEvent
  <2>2. device[d] \in Records \ {None}
    BY <1>4 DEF IInv, Types, StoreTypes
  <2>3. stale \subseteq Actor /\ lock \in [Entry -> Actor \cup {None, "lost"}]
    BY DEF IInv, Types, ActorTypes
  <2> QED BY <1>1, <1>2, <2>1, <2>2, <2>3, DecideStep DEF Free
<1> QED BY <1>3, <1>4

LEMMA SweepReconcilesStep == ASSUME IInv, NEW d \in Device, SweepReconciles(d) PROVE IInv'
<1>1. /\ d \in sweep.todo /\ Free(d) /\ Decide("sweep", d, sweep.copy[d]) /\ "sweep" \in Actor
      /\ stale' = stale \cup {a \in {"sweep"} : d \in sweep.outdated} /\ sweep' = Handled(d)
      /\ UNCHANGED <<store, registry, fits, events, removal, lock, changes, history>>
  BY DEF SweepReconciles, Actor
<1>2. /\ sweep.copy[d] \in Records \ {None} /\ stale \subseteq Actor /\ events \subseteq Device
      /\ lock \in [Entry -> Actor \cup {None, "lost"}]
  BY <1>1 DEF IInv, Types, ActorTypes, ListTypes
<1>3. ListTypes' /\ SweepOK'
  BY <1>1, HandledSweep DEF IInv, Types, store
<1>4. "sweep" \notin stale' => device[d] = sweep.copy[d]
  BY <1>1 DEF IInv, SweepOK
<1> QED BY <1>1, <1>2, <1>3, <1>4, DecideStep DEF Free

LEMMA RetryStep == ASSUME IInv, NEW a \in Actor, Retry(a) PROVE IInv'
<1> DEFINE d == act[a].dev
<1>1. /\ act[a].pc = "write" /\ stale' = stale \ {a}
      /\ lock' = [e \in Entry |-> IF lock[e] = a THEN None ELSE lock[e]]
      /\ UNCHANGED <<store, registry, fits, events, sweep, removal, changes, history>>
  BY DEF Retry
<1>2. d \in Device /\ \A b \in Actor \ {a} : act[b].dev # d
  BY <1>1, BusyTypes, MutexDev DEF IInv
<1>3. CASE device[d] = None
  <2>1. Return(a)
    BY <1>1, <1>3 DEF Retry, Return
  <2> QED BY <1>1, <2>1, ReturnStep
<1>4. CASE device[d] # None
  <2>1. Decide(a, d, device[d])
    BY <1>4 DEF Retry
  <2>2. device[d] \in Records \ {None} /\ stale \subseteq Actor /\ events \subseteq Device
    BY <1>2, <1>4 DEF IInv, Types, StoreTypes, ActorTypes
  <2>3. /\ lock' \in [Entry -> Actor \cup {None, "lost"}]
        /\ \A b \in Actor \ {a}, e \in Entry : lock[e] = b => lock'[e] = b
    BY <1>1, Released DEF IInv
  <2>4. ListTypes' /\ SweepOK'
    BY <1>1 DEF IInv, Types, ListTypes, SweepOK, store
  <2> QED BY <1>1, <1>2, <2>1, <2>2, <2>3, <2>4, DecideStep
<1> QED BY <1>3, <1>4

LEMMA ProveStep == ASSUME IInv, NEW a \in Actor, Prove(a) PROVE IInv'
<1> DEFINE d == act[a].dev
           x == [act[a] EXCEPT !.pc = "write"]
<1>1. /\ act[a].pc = "prove" /\ act' = [act EXCEPT ![a].pc = "write"]
      /\ proof' = [proof EXCEPT ![d] = act[a].plan.new.binding.uid]
      /\ UNCHANGED <<device, exists, registry, fits, stale, events, sweep, removal, lock, changes, overrun, everLost>>
  BY DEF Prove, history
<1>2. act[a] \in BusyType /\ d \in Device /\ \A b \in Actor \ {a} : act[b].dev # d
  BY <1>1, BusyTypes, MutexDev DEF IInv
<1>3. act \in [Actor -> BusyType \cup {Idle}] /\ proof \in [Device -> UID \cup {0}]
  BY DEF IInv, Types, StoreTypes, ActorTypes
<1>4. /\ x \in BusyType /\ x.pc = "write" /\ x.dev = d /\ x.plan = act[a].plan /\ x.uid = act[a].uid
      /\ act[a].plan.new.binding.uid \in UID \cup {0}
  <2>1. x \in BusyType /\ x.pc = "write" /\ x.dev = d /\ x.plan = act[a].plan /\ x.uid = act[a].uid
    BY <1>2 DEF BusyType
  <2>2. act[a].plan.new.binding \in Binding
    BY <1>2 DEF BusyType, PlanType, Records, Bindings
  <2> QED BY <2>1, <2>2 DEF Binding
<1>5. act' = [act EXCEPT ![a] = x]
  BY <1>1, <1>3
<1> HIDE DEF x
<1>6. act' \in [Actor -> BusyType \cup {Idle}] /\ act'[a] = x /\ \A b \in Actor \ {a} : act'[b] = act[b]
  BY <1>3, <1>4, <1>5
<1>7. Types'
  <2>1. StoreTypes'
    BY <1>1, <1>3, <1>4 DEF IInv, Types, StoreTypes
  <2>2. ActorTypes'
    BY <1>1, <1>4, <1>6 DEF IInv, Types, ActorTypes
  <2>3. ListTypes'
    BY <1>1 DEF IInv, Types, ListTypes
  <2> QED BY <2>1, <2>2, <2>3 DEF Types
<1>8. SweepOK'
  BY <1>1 DEF IInv, SweepOK
<1>9. \A b \in Actor \ {a} : act[b].pc = "write" => proof'[act[b].dev] = proof[act[b].dev]
  <2> SUFFICES ASSUME NEW b \in Actor \ {a}, act[b].pc = "write" PROVE proof'[act[b].dev] = proof[act[b].dev]
    OBVIOUS
  <2>1. act[b].dev \in Device /\ act[b].dev # d
    BY <1>2, BusyTypes DEF IInv
  <2> QED BY <1>1, <1>3, <2>1
<1>10. Local(a)
  BY <1>1, <1>2, <1>4, <1>6, <1>9, SameDevices DEF Local
<1>11. ActorOK(a)'
  <2>1. LockOK(a) /\ ClearOK(a) /\ FreshOK(a)
    BY DEF IInv, ActorOK
  <2>2. LockOK(a)'
    BY <1>1, <1>4, <1>6, <2>1 DEF LockOK
  <2>3. ClearOK(a)'
    BY <1>1, <1>4, <1>6, <2>1 DEF ClearOK, Holders
  <2>4. FreshOK(a)'
    BY <1>1, <1>4, <1>6, <2>1 DEF FreshOK, Sound, SameUID
  <2>5. ProvedOK(a)'
    BY <1>1, <1>2, <1>3, <1>4, <1>6 DEF ProvedOK
  <2>6. LostOK(a)'
    BY <1>4, <1>6 DEF LostOK
  <2> QED BY <2>2, <2>3, <2>4, <2>5, <2>6 DEF ActorOK
<1> QED BY <1>7, <1>8, <1>10, <1>11, LocalStep

-----------------------------------------------------------------------------
(* Claims.                                                                 *)

\* A uid that is free names no binding that anything refers to.
LEMMA NewUIDFree ==
  ASSUME UID \ InUse # {}
  PROVE  /\ NewUID \in UID
         /\ \A h \in Device : device[h] # None => device[h].binding.uid # NewUID
         /\ \A b \in Actor : act[b].uid # NewUID
<1>1. NewUID \in UID \ InUse
  BY DEF NewUID
<1>2. \A h \in Device : device[h] # None => device[h].binding.uid \in InUse
  BY DEF InUse
<1>3. \A b \in Actor : act[b].uid \in InUse
  BY DEF InUse
<1> QED BY <1>1, <1>2, <1>3

\* The new plan of a handler that accepts the entry it claimed.
Bound(x, y) ==
  /\ y.dev = x.dev /\ y.pc \in {"prove", "write"} /\ (y.pc = "write" => ~y.plan.prove)
  /\ y.plan.claim = x.plan.claim /\ y.plan.prove = x.plan.prove
  /\ y.plan.new.binding.entry = x.plan.claim

LEMMA Binds ==
  ASSUME Types, NEW a \in Actor, act[a].pc \in {"claim", "supersede"}, Bind(a, everLost)
  PROVE  /\ act' \in [Actor -> BusyType \cup {Idle}] /\ \A b \in Actor \ {a} : act'[b] = act[b]
         /\ Bound(act[a], act'[a])
         /\ everLost' \subseteq UID
         /\ \A h \in Device : device[h] # None /\ device[h].binding.uid \in everLost => device[h].binding.uid \in everLost'
         /\ \A b \in Actor : act[b].uid \in everLost => act[b].uid \in everLost'
<1> DEFINE p == act[a].plan
           b == Accepted(NewUID, p.claim)
           new == [p.new EXCEPT !.binding = b]
           plan == [p EXCEPT !.new.binding = b]
           y == At(WriteStep(p), act[a].dev, None, plan)
<1>1. /\ UID \ InUse # {} /\ everLost' = everLost \ {NewUID}
      /\ act' = [act EXCEPT ![a] = At(WriteStep(@.plan), @.dev, None,
                   [@.plan EXCEPT !.new.binding = Accepted(NewUID, act[a].plan.claim)])]
  BY DEF Bind
<1>2. act \in [Actor -> BusyType \cup {Idle}] /\ everLost \subseteq UID
  BY DEF Types, ActorTypes
<1>3. act[a] \in BusyType /\ p.claim \in Entry /\ p.new = Cleared
  BY BusyTypes DEF Types, ActorTypes
<1>4. p \in PlanType /\ act[a].dev \in Device
  BY <1>3 DEF BusyType
<1>5. b \in Bindings /\ b.state = "accepted" /\ b.entry = p.claim
  BY <1>1, <1>3, NewUIDFree, ValueTypes DEF Accepted
<1>6. new \in Records /\ new.binding = b
  <2> HIDE DEF b
  <2>1. new = [binding |-> b, attempt |-> NoAttempt]
    BY <1>3 DEF Cleared
  <2>2. [binding |-> b, attempt |-> NoAttempt] \in Records
    BY <1>5, ValueTypes, MakeRecord DEF NoAttempt
  <2> QED BY <2>1, <2>2
<1>7. plan \in PlanType /\ plan.claim = p.claim /\ plan.prove = p.prove /\ plan.new.binding = b
  <2>1. plan = [p EXCEPT !.new = new]
    BY <1>4 DEF PlanType
  <2> HIDE DEF new, b, p
  <2> QED BY <1>4, <1>6, <2>1 DEF PlanType
<1>8. WriteStep(p) \in {"prove", "write"} /\ (WriteStep(p) = "write" => ~p.prove)
  BY DEF WriteStep
<1>9. y \in BusyType /\ Bound(act[a], y)
  <2> HIDE DEF plan, b
  <2> QED BY <1>4, <1>5, <1>7, <1>8 DEF At, BusyType, Bound
<1>10. act' = [act EXCEPT ![a] = y]
  BY <1>1, <1>2
<1> HIDE DEF y
<1>11. \A c \in Actor : act[c].uid \in everLost => act[c].uid \in everLost'
  BY <1>1, NewUIDFree
<1> QED BY <1>1, <1>2, <1>9, <1>10, <1>11, NewUIDFree

\* What holds of a handler that accepts an entry nobody else has now.
LEMMA BoundOK ==
  ASSUME NEW a \in Actor, Bound(act[a], act'[a]), FreshOK(a), act[a].pc # "idle",
         act[a].plan.claim \in Entry,
         act[a].plan.claim \notin overrun' => lock'[act[a].plan.claim] = a /\ (Holders(act[a].dev, act[a].plan.claim))' = {},
         a \notin stale' => a \notin stale /\ device'[act[a].dev] = device[act[a].dev]
  PROVE  ActorOK(a)'
<1> DEFINE e == act[a].plan.claim
<1>1. PICK x, y : x = act[a] /\ y = act'[a]
  OBVIOUS
<1>2. /\ y.dev = x.dev /\ y.pc \in {"prove", "write"} /\ (y.pc = "write" => ~y.plan.prove)
      /\ y.plan.claim = x.plan.claim /\ y.plan.prove = x.plan.prove
      /\ y.plan.new.binding.entry = x.plan.claim
  BY <1>1 DEF Bound
<1>3. LockOK(a)' /\ LostOK(a)' /\ ProvedOK(a)'
  BY <1>1, <1>2 DEF LockOK, LostOK, ProvedOK
<1>4. ClearOK(a)'
  <2>1. x.plan.claim \notin overrun' =>
          {h \in Device \ {x.dev} : device'[h] # None /\ device'[h].binding.state = "accepted" /\ device'[h].binding.entry = x.plan.claim} = {}
    BY <1>1, <1>2 DEF Holders
  <2> QED BY <1>1, <1>2, <2>1 DEF ClearOK, Holders
<1>5. FreshOK(a)'
  <2> SUFFICES ASSUME a \notin stale'
               PROVE  device'[y.dev] \in Records \ {None} /\ Sound(y.plan, device'[y.dev])
    BY <1>1 DEF FreshOK, Sound, SameUID
  <2>1. device'[y.dev] = device[x.dev] /\ device[x.dev] \in Records \ {None} /\ Sound(x.plan, device[x.dev])
    BY <1>1, <1>2 DEF FreshOK
  <2> QED BY <1>1, <1>2, <2>1, NoneApart DEF Sound
<1> QED BY <1>3, <1>4, <1>5 DEF ActorOK

LEMMA ClaimLock ==
  ASSUME Types, NEW a \in Actor, NEW e \in Entry, lock[e] = None, lock' = [lock EXCEPT ![e] = a]
  PROVE  /\ lock' \in [Entry -> Actor \cup {None, "lost"}] /\ lock'[e] = a
         /\ \A b \in Actor \ {a}, x \in Entry : lock[x] = b => lock'[x] = b
BY NoneApart DEF Types, ActorTypes

\* The frame of Claim: the types and the other handlers.
LEMMA ClaimFrame ==
  ASSUME IInv, NEW a \in Actor, Claim(a),
         act' \in [Actor -> BusyType \cup {Idle}], \A b \in Actor \ {a} : act'[b] = act[b],
         act'[a].pc # "idle" => act'[a].dev = act[a].dev, act'[a].pc \in {"idle", "supersede", "prove", "write"},
         act'[a].pc = "supersede" => /\ act'[a].plan.claim \in Entry /\ act'[a].plan.new = Cleared
                                     /\ act'[a].holder \in Device \ {act'[a].dev},
         lock' \in [Entry -> Actor \cup {None, "lost"}], \A b \in Actor \ {a}, x \in Entry : lock[x] = b => lock'[x] = b,
         everLost' \subseteq UID,
         \A h \in Device : device[h] # None /\ device[h].binding.uid \in everLost => device[h].binding.uid \in everLost',
         \A b \in Actor : act[b].uid \in everLost => act[b].uid \in everLost',
         ActorOK(a)'
  PROVE  IInv'
<1>1. /\ stale' = {x \in stale : act'[x].pc # "idle"} /\ act[a].pc = "claim"
      /\ UNCHANGED <<device, proof, exists, registry, fits, events, sweep, removal, changes, overrun>>
  BY DEF Claim, store
<1>2. Types'
  <2>1. StoreTypes' /\ ListTypes'
    BY <1>1 DEF IInv, Types, StoreTypes, ListTypes
  <2>2. ActorTypes'
    BY <1>1 DEF IInv, Types, ActorTypes
  <2> QED BY <2>1, <2>2 DEF Types
<1>3. SweepOK'
  BY <1>1 DEF IInv, SweepOK
<1>4. Local(a)
  <2>1. \A b \in Actor \ {a} : act[b].dev # act[a].dev
    BY <1>1, MutexDev
  <2> QED BY <1>1, <2>1, SameDevices DEF Local
<1> QED BY <1>2, <1>3, <1>4, LocalStep

LEMMA ClaimStep == ASSUME IInv, NEW a \in Actor, Claim(a) PROVE IInv'
<1> DEFINE d == act[a].dev
           e == act[a].plan.claim
           conflict == [binding |-> Unbound("conflict", e), attempt |-> Processed(act[a].copy.attempt)]
<1>1. /\ act[a].pc = "claim" /\ lock[e] = None /\ stale' = {x \in stale : act'[x].pc # "idle"}
      /\ UNCHANGED <<device, proof, overrun>>
  BY DEF Claim, store
<1>2. /\ act[a] \in BusyType /\ d \in Device /\ e \in Entry /\ act[a].plan.new = Cleared
      /\ act[a].copy \in Records
  BY <1>1, BusyTypes DEF IInv, Types, ActorTypes
<1>3. act \in [Actor -> BusyType \cup {Idle}] /\ everLost \subseteq UID /\ lock \in [Entry -> Actor \cup {None, "lost"}]
  BY DEF IInv, Types, ActorTypes
<1>4. FreshOK(a)
  BY DEF IInv, ActorOK
<1>5. CASE Holders(d, e) = {}
  <2>1. Bind(a, everLost) /\ lock' = [lock EXCEPT ![e] = a]
    BY <1>5 DEF Claim
  <2>2. /\ act' \in [Actor -> BusyType \cup {Idle}] /\ \A b \in Actor \ {a} : act'[b] = act[b]
        /\ Bound(act[a], act'[a])
        /\ everLost' \subseteq UID
        /\ \A h \in Device : device[h] # None /\ device[h].binding.uid \in everLost => device[h].binding.uid \in everLost'
        /\ \A b \in Actor : act[b].uid \in everLost => act[b].uid \in everLost'
    BY <1>1, <2>1, Binds DEF IInv
  <2>3. /\ lock' \in [Entry -> Actor \cup {None, "lost"}] /\ lock'[e] = a
        /\ \A b \in Actor \ {a}, x \in Entry : lock[x] = b => lock'[x] = b
    BY <1>1, <1>2, <2>1, ClaimLock DEF IInv
  <2>4. act'[a].dev = d /\ act'[a].pc \in {"prove", "write"} /\ act'[a].plan.claim = e
    BY <2>2 DEF Bound
  <2>5. (Holders(act[a].dev, act[a].plan.claim))' = {}
    BY <1>1, <1>5, <2>4 DEF Holders
  <2>6. a \notin stale' => a \notin stale /\ device'[d] = device[d]
    BY <1>1, <2>4
  <2>7. ActorOK(a)'
    BY <1>1, <1>2, <1>4, <2>2, <2>3, <2>5, <2>6, BoundOK
  <2> QED BY <2>2, <2>3, <2>4, <2>7, ClaimFrame
<1>6. CASE Holders(d, e) # {}
  <2>1. PICK h \in Holders(d, e) :
          /\ UNCHANGED everLost
          /\ IF MayDisplace(device[h].binding)
               THEN /\ act' = [act EXCEPT ![a].pc = "supersede", ![a].copy = None,
                                          ![a].holder = h, ![a].uid = device[h].binding.uid]
                    /\ lock' = [lock EXCEPT ![e] = a]
             ELSE IF conflict = act[a].copy THEN act' = [act EXCEPT ![a] = Idle] /\ UNCHANGED lock
             ELSE /\ act' = [act EXCEPT ![a] = At("write", d, None, [@.plan EXCEPT !.new = conflict])]
                  /\ lock' = [lock EXCEPT ![e] = a]
    BY <1>6 DEF Claim
  <2>2. h \in Device \ {d} /\ device[h] # None /\ device[h].binding \in Bindings
    BY DEF Holders, IInv, Types, StoreTypes, Records
  <2> HIDE DEF conflict
  <2>3. CASE MayDisplace(device[h].binding)
    <3> DEFINE uid == device[h].binding.uid
               y == [act[a] EXCEPT !.pc = "supersede", !.copy = None, !.holder = h, !.uid = uid]
    <3>1. uid \in UID \cup {0} /\ uid \in everLost
      BY <2>2, <2>3 DEF MayDisplace, IInv, LostKnown, Bindings, Binding
    <3> HIDE DEF uid
    <3>2. /\ y \in BusyType /\ y.pc = "supersede" /\ y.dev = d /\ y.plan = act[a].plan
          /\ y.holder = h /\ y.uid = uid
      BY <1>2, <2>2, <3>1 DEF BusyType
    <3>3. act' = [act EXCEPT ![a] = y]
      BY <1>3, <2>1, <2>3 DEF uid
    <3>4. /\ lock' \in [Entry -> Actor \cup {None, "lost"}] /\ lock'[e] = a
          /\ \A b \in Actor \ {a}, x \in Entry : lock[x] = b => lock'[x] = b
      BY <1>1, <1>2, <2>1, <2>3, ClaimLock DEF IInv
    <3> HIDE DEF y
    <3>5. /\ act' \in [Actor -> BusyType \cup {Idle}] /\ \A b \in Actor \ {a} : act'[b] = act[b]
          /\ act'[a] = y
      BY <1>3, <3>2, <3>3
    <3>6. e \notin overrun => \A x \in Holders(d, e) : x = h
      BY <1>2 DEF IInv, OneHolder, Holders
    <3>7. LockOK(a)' /\ LostOK(a)' /\ ProvedOK(a)'
      BY <2>1, <3>1, <3>2, <3>4, <3>5 DEF LockOK, LostOK, ProvedOK
    <3>8. ClearOK(a)'
      BY <1>1, <3>2, <3>5, <3>6 DEF ClearOK, Holders, uid
    <3>9. FreshOK(a)'
      BY <1>1, <1>4, <3>2, <3>5 DEF FreshOK, Sound, SameUID
    <3>10. ActorOK(a)'
      BY <3>7, <3>8, <3>9 DEF ActorOK
    <3> QED BY <1>2, <1>3, <2>1, <2>2, <3>2, <3>4, <3>5, <3>10, ClaimFrame
  <2>4. CASE ~MayDisplace(device[h].binding) /\ conflict = act[a].copy
    <3>1. act' = [act EXCEPT ![a] = Idle] /\ UNCHANGED lock
      BY <2>1, <2>4
    <3>2. /\ act' \in [Actor -> BusyType \cup {Idle}] /\ \A b \in Actor \ {a} : act'[b] = act[b]
          /\ act'[a].pc = "idle"
      BY <1>3, <3>1 DEF Idle, At
    <3> QED BY <1>3, <2>1, <3>1, <3>2, IdleOK, ClaimFrame
  <2>5. CASE ~MayDisplace(device[h].binding) /\ conflict # act[a].copy
    <3> DEFINE plan == [act[a].plan EXCEPT !.new = conflict]
               y == At("write", d, None, plan)
    <3>1. conflict \in Records /\ conflict.binding.state = "conflict"
      <4>1. Unbound("conflict", e).state = "conflict"
        BY DEF Unbound
      <4>2. Processed(act[a].copy.attempt) \in Attempts
        BY <1>2, ValueTypes DEF Records
      <4> QED BY <1>2, <4>1, <4>2, ValueTypes, MakeRecord DEF conflict
    <3>2. /\ plan \in PlanType /\ plan.claim = e /\ plan.prove = act[a].plan.prove /\ plan.new = conflict
      BY <1>2, <3>1 DEF BusyType, PlanType
    <3> HIDE DEF plan
    <3>3. y \in BusyType /\ y.pc = "write" /\ y.dev = d /\ y.plan = plan
      BY <1>2, <3>2 DEF At, BusyType
    <3>4. act' = [act EXCEPT ![a] = y]
      BY <1>3, <2>1, <2>5 DEF plan
    <3>5. /\ lock' \in [Entry -> Actor \cup {None, "lost"}] /\ lock'[e] = a
          /\ \A b \in Actor \ {a}, x \in Entry : lock[x] = b => lock'[x] = b
      BY <1>1, <1>2, <2>1, <2>5, ClaimLock DEF IInv
    <3> HIDE DEF y
    <3>6. /\ act' \in [Actor -> BusyType \cup {Idle}] /\ \A b \in Actor \ {a} : act'[b] = act[b]
          /\ act'[a] = y
      BY <1>3, <3>3, <3>4
    <3>7. LockOK(a)' /\ LostOK(a)' /\ ProvedOK(a)' /\ ClearOK(a)'
      BY <3>1, <3>2, <3>3, <3>5, <3>6 DEF LockOK, LostOK, ProvedOK, ClearOK
    <3>8. FreshOK(a)'
      BY <1>1, <1>2, <1>4, <3>2, <3>3, <3>6, NoneApart DEF FreshOK, Sound, SameUID
    <3>9. ActorOK(a)'
      BY <3>7, <3>8 DEF ActorOK
    <3> QED BY <1>3, <2>1, <3>3, <3>5, <3>6, <3>9, ClaimFrame
  <2> QED BY <2>3, <2>4, <2>5
<1> QED BY <1>5, <1>6

LEMMA SupersedeStep == ASSUME IInv, NEW a \in Actor, Supersede(a) PROVE IInv'
<1> DEFINE d == act[a].dev
           e == act[a].plan.claim
           h == act[a].holder
           rec == Superseded(device[h])
           taken == device[h] # None /\ device[h].binding.uid = act[a].uid
<1>1. /\ act[a].pc = "supersede" /\ Bind(a, everLost)
      /\ IF taken THEN Store(h, rec, a) /\ Outdate(h) ELSE UNCHANGED <<device, stale, events, sweep>>
      /\ UNCHANGED <<proof, exists, registry, fits, removal, lock, changes, overrun>>
  BY DEF Supersede
<1>2. /\ act[a] \in BusyType /\ d \in Device /\ e \in Entry /\ h \in Device \ {d}
      /\ \A b \in Actor \ {a} : act[b].dev # d
  BY <1>1, BusyTypes, MutexDev DEF IInv, Types, ActorTypes
<1>3. LockOK(a) /\ ClearOK(a) /\ FreshOK(a)
  BY DEF IInv, ActorOK
<1>4. /\ act' \in [Actor -> BusyType \cup {Idle}] /\ \A b \in Actor \ {a} : act'[b] = act[b]
      /\ Bound(act[a], act'[a])
      /\ everLost' \subseteq UID
      /\ \A x \in Device : device[x] # None /\ device[x].binding.uid \in everLost => device[x].binding.uid \in everLost'
      /\ \A b \in Actor : act[b].uid \in everLost => act[b].uid \in everLost'
  BY <1>1, Binds DEF IInv
\* What is written: only the Device that was listed changes.
<1>5. /\ device' \in [Device -> Records \cup {None}] /\ stale' \subseteq Actor /\ events' \subseteq Device
      /\ stale \subseteq stale' /\ \A x \in Device \ {h} : device'[x] = device[x]
      /\ device'[h] # None /\ device'[h].binding.state = "accepted" => device'[h] = device[h] /\ ~taken
      /\ \A b \in Actor \ {a} : act[b].dev = h => b \in stale' \/ device'[h] = device[h]
      /\ ListTypes' /\ SweepOK'
  <2>1. CASE taken
    <3>1. device[h] \in Records
      BY <1>2, <2>1 DEF IInv, Types, StoreTypes
    <3> DEFINE b == Unbound("conflict", device[h].binding.entry)
    <3>2. b \in Bindings /\ b.state = "conflict"
      BY <3>1 DEF Records, Bindings, Binding, Unbound
    <3>3. rec = [device[h] EXCEPT !.binding = b]
      BY <3>1 DEF Superseded, Records
    <3> HIDE DEF b, rec
    <3>4. rec \in Records /\ rec.binding.state = "conflict"
      BY <3>1, <3>2, <3>3 DEF Records
    <3>5. Store(h, rec, a) /\ Outdate(h) /\ removal' = removal
      BY <1>1, <2>1
    <3>6. /\ device' \in [Device -> Records \cup {None}] /\ device'[h] = rec
          /\ \A x \in Device \ {h} : device'[x] = device[x]
          /\ stale' \subseteq Actor /\ events' \subseteq Device /\ stale \subseteq stale'
          /\ \A b_1 \in Actor \ {a} : act[b_1].dev = h => b_1 \in stale'
      BY <1>2, <3>4, <3>5, Stored DEF IInv
    <3>7. ListTypes' /\ SweepOK'
      BY <1>2, <3>5, <3>6, OutdatedSweep DEF IInv, Types
    <3> QED BY <3>4, <3>6, <3>7
  <2>2. CASE ~taken
    <3>1. UNCHANGED <<device, stale, events, sweep, removal>>
      BY <1>1, <2>2
    <3> HIDE DEF taken
    <3> QED BY <3>1, <2>2 DEF IInv, Types, StoreTypes, ActorTypes, ListTypes, SweepOK
  <2> QED BY <2>1, <2>2
<1> HIDE DEF rec
<1>6. Mild
  BY <1>5 DEF Mild
<1>7. Types'
  <2>1. StoreTypes'
    BY <1>1, <1>5 DEF IInv, Types, StoreTypes
  <2>2. ActorTypes'
    BY <1>1, <1>4, <1>5 DEF IInv, Types, ActorTypes, Bound
  <2> QED BY <1>5, <2>1, <2>2 DEF Types
<1>8. Local(a)
  <2>1. \A b \in Actor \ {a} : act[b].pc # "idle" /\ b \notin stale' => b \notin stale /\ device'[act[b].dev] = device[act[b].dev]
    <3> SUFFICES ASSUME NEW b \in Actor \ {a}, act[b].pc # "idle", b \notin stale'
                 PROVE  b \notin stale /\ device'[act[b].dev] = device[act[b].dev]
      OBVIOUS
    <3>1. act[b].dev \in Device
      BY BusyTypes DEF IInv
    <3> QED BY <1>5, <3>1
  <2>2. act'[a].dev = d
    BY <1>4 DEF Bound
  <2> HIDE DEF h, taken
  <2> QED BY <1>1, <1>2, <1>4, <1>6, <2>1, <2>2 DEF Local
\* The entry is free now.
<1>9. e \notin overrun' => lock'[e] = a /\ (Holders(act[a].dev, act[a].plan.claim))' = {}
  <2> SUFFICES ASSUME e \notin overrun
               PROVE  lock[e] = a /\ (Holders(act[a].dev, act[a].plan.claim))' = {}
    BY <1>1
  <2>1. lock[e] = a
    BY <1>1, <1>2, <1>3 DEF LockOK
  <2>2. \A x \in Holders(d, e) : x = h /\ device[x].binding.uid = act[a].uid
    BY <1>1, <1>2, <1>3 DEF ClearOK
  <2>3. ASSUME NEW x \in Device \ {d}, device'[x] # None, device'[x].binding.state = "accepted", device'[x].binding.entry = e
        PROVE  FALSE
    <3>1. device'[x] = device[x] /\ (x = h => ~taken)
      BY <1>5, <2>3
    <3>2. x \in Holders(d, e)
      BY <2>3, <3>1 DEF Holders
    <3>3. x = h /\ device[h].binding.uid = act[a].uid
      BY <2>2, <3>2
    <3> QED BY <2>3, <3>1, <3>3
  <2>4. act'[a].dev = d /\ act'[a].plan.claim = e
    BY <1>4 DEF Bound
  <2>5. (Holders(act[a].dev, act[a].plan.claim))' = {}
    BY <2>3, <2>4 DEF Holders
  <2> QED BY <2>1, <2>5
<1>10. ActorOK(a)'
  <2>1. a \notin stale' => a \notin stale /\ device'[d] = device[d]
    BY <1>2, <1>5
  <2> QED BY <1>1, <1>2, <1>3, <1>4, <1>9, <2>1, BoundOK
<1> QED BY <1>5, <1>7, <1>8, <1>10, LocalStep

-----------------------------------------------------------------------------
(* The write of a handler.                                                 *)

\* What is written binds nothing that was not bound, but for an entry that
\* was claimed and that no other Device has.
Written(a) ==
  LET d == act[a].dev  e == act[a].plan.claim  b == act[a].plan.new.binding IN
  b.state = "accepted" =>
    \/ /\ device[d].binding.state = "accepted" /\ device[d].binding.entry = b.entry
       /\ device[d].binding.uid = b.uid
    \/ e \in Entry /\ b.entry = e /\ (e \notin overrun => lock[e] = a /\ Holders(d, e) = {})

LEMMA WriteFacts ==
  ASSUME IInv, NEW a \in Actor, act[a].pc = "write", a \notin stale
  PROVE  /\ act[a].dev \in Device /\ act[a].plan \in PlanType /\ act[a].plan.new \in Records
         /\ device[act[a].dev] \in Records \ {None} /\ Sound(act[a].plan, device[act[a].dev])
         /\ Written(a)
<1>1. /\ act[a].dev \in Device /\ act[a].plan \in PlanType /\ act[a].plan.new \in Records
      /\ act[a].plan.claim \in Entry \cup {None}
  BY BusyTypes DEF IInv, BusyType, PlanType
<1>2. LockOK(a) /\ ClearOK(a) /\ FreshOK(a)
  BY DEF IInv, ActorOK
<1>3. device[act[a].dev] \in Records \ {None} /\ Sound(act[a].plan, device[act[a].dev])
  BY <1>2 DEF FreshOK
<1>4. Written(a)
  <2> SUFFICES ASSUME act[a].plan.new.binding.state = "accepted" PROVE Written(a)
    BY DEF Written
  <2>1. CASE act[a].plan.claim = None
    BY <1>3, <2>1 DEF Sound, SameUID, Written
  <2>2. CASE act[a].plan.claim \in Entry
    BY <1>2, <2>2 DEF LockOK, ClearOK, Written
  <2> QED BY <1>1, <2>1, <2>2
<1> QED BY <1>1, <1>3, <1>4

LEMMA WriteStepKeeps == ASSUME IInv, NEW a \in Actor, Write(a) PROVE IInv'
<1> DEFINE d == act[a].dev
           new == act[a].plan.new
           b == new.binding
<1>1. /\ act[a].pc = "write" /\ a \notin stale /\ Store(d, new, a) /\ Outdate(d)
      /\ everLost' = everLost \cup {x.uid : x \in {y \in {b} : y.validity = "lost"}}
      /\ act' = [act EXCEPT ![a] = Idle]
      /\ lock' = [e \in Entry |-> IF lock[e] = a THEN None ELSE lock[e]]
      /\ UNCHANGED <<proof, exists, registry, fits, removal, changes, overrun>>
  BY DEF Write
<1>2. d \in Device /\ new \in Records /\ device[d] \in Records \ {None} /\ Written(a)
  BY <1>1, WriteFacts
<1>3. /\ device' \in [Device -> Records \cup {None}] /\ device'[d] = new
      /\ \A h \in Device \ {d} : device'[h] = device[h]
      /\ stale' \subseteq Actor /\ events' \subseteq Device /\ stale \subseteq stale'
      /\ \A x \in Actor \ {a} : act[x].dev = d => x \in stale'
  BY <1>1, <1>2, Stored DEF IInv
<1>4. ListTypes' /\ SweepOK'
  BY <1>1, <1>2, <1>3, OutdatedSweep DEF IInv, Types
<1>5. b.validity = "lost" => b.uid \in UID /\ b.uid \in everLost'
  <2>1. b \in Bindings
    BY <1>2 DEF Records
  <2>2. b.validity = "lost" => b.uid \in UID
    BY <2>1 DEF Bindings, Binding
  <2> QED BY <1>1, <2>2
<1>6. everLost \subseteq everLost' /\ everLost' \subseteq UID
  BY <1>1, <1>5 DEF IInv, Types, ActorTypes
<1>7. /\ act' \in [Actor -> BusyType \cup {Idle}] /\ act'[a] = Idle /\ \A x \in Actor \ {a} : act'[x] = act[x]
  BY <1>1 DEF IInv, Types, ActorTypes
<1>8. /\ lock' \in [Entry -> Actor \cup {None, "lost"}]
      /\ \A x \in Actor \ {a}, e \in Entry : lock[e] = x => lock'[e] = x
  BY <1>1, Released DEF IInv
<1>9. act'[a].pc = "idle"
  BY <1>7 DEF Idle, At
<1>10. Types'
  <2>1. StoreTypes'
    BY <1>1, <1>3 DEF IInv, Types, StoreTypes
  <2>2. ActorTypes'
    BY <1>1, <1>3, <1>6, <1>7, <1>8, <1>9 DEF IInv, Types, ActorTypes
  <2> QED BY <1>4, <2>1, <2>2 DEF Types
<1>11. ASSUME NEW x \in Actor \ {a} PROVE ActorOK(x)'
  <2> DEFINE e == act[x].plan.claim
  <2>1. ActorOK(x) /\ LockOK(x)
    BY DEF IInv, ActorOK
  <2>2. Undisturbed(x)
    <3>1. act[x].pc # "idle" => act[x].dev \in Device
      BY BusyTypes DEF IInv
    <3>2. act[x].pc # "idle" /\ x \notin stale' => x \notin stale /\ device'[act[x].dev] = device[act[x].dev]
      BY <1>3, <3>1
    <3> QED BY <1>1, <1>6, <1>7, <1>8, <3>2 DEF Undisturbed
  <2>3. Unrivalled(x)
    <3> SUFFICES ASSUME act[x].pc \in {"supersede", "prove", "write"}, e \in Entry, e \notin overrun, NEW h \in Device \ {act[x].dev},
                        device'[h] # None, device'[h].binding.state = "accepted", device'[h].binding.entry = e
                 PROVE  /\ device[h] # None /\ device[h].binding.state = "accepted" /\ device[h].binding.entry = e
                        /\ device'[h].binding.uid = device[h].binding.uid
      BY <1>1 DEF Unrivalled
    <3>1. CASE h # d
      BY <1>3, <3>1
    <3>2. CASE h = d
      <4>1. b.state = "accepted" /\ b.entry = e
        BY <1>3, <3>2
      <4>2. lock[e] = x
        BY <2>1 DEF LockOK
      <4>3. lock[e] # a
        BY <4>2
      <4>4. device[d].binding.state = "accepted" /\ device[d].binding.entry = b.entry /\ device[d].binding.uid = b.uid
        BY <1>2, <4>1, <4>3 DEF Written
      <4>5. device[d] # None
        BY <1>2
      <4> QED BY <1>3, <3>2, <4>1, <4>4, <4>5
    <3> QED BY <3>1, <3>2
  <2> QED BY <2>1, <2>2, <2>3, Bystander
<1>12. ActorOK(a)'
  BY <1>9, IdleOK
<1>13. Mutex'
  BY <1>7, <1>9 DEF IInv, Mutex
<1>14. LostKnown'
  BY <1>3, <1>5, <1>6 DEF IInv, LostKnown
<1>15. OneHolder'
  <2> DEFINE holds(x, e) == device[x] # None /\ device[x].binding.state = "accepted" /\ device[x].binding.entry = e
  <2> SUFFICES ASSUME NEW e \in Entry \ overrun, NEW x \in Device, NEW y \in Device, x # y, holds(x, e)', holds(y, e)'
               PROVE  FALSE
    BY <1>1 DEF OneHolder, Holders
  <2>1. \A u, v \in Device : u # v /\ holds(u, e) => ~holds(v, e)
    BY DEF IInv, OneHolder, Holders
  <2>2. \A u \in Device \ {d} : holds(u, e)' => holds(u, e)
    BY <1>3
  <2>3. ASSUME NEW z \in Device, z = d, holds(z, e)'
        PROVE  holds(z, e) \/ \A u \in Device \ {z} : ~holds(u, e)
    <3>1. b.state = "accepted" /\ b.entry = e
      BY <1>3, <2>3
    <3>2. device[z] # None
      BY <1>2, <2>3
    <3> QED BY <1>2, <2>3, <3>1, <3>2 DEF Written, Holders
  <2> HIDE DEF holds
  <2> QED BY <2>1, <2>2, <2>3, <1>2
<1> QED BY <1>4, <1>10, <1>11, <1>12, <1>13, <1>14, <1>15 DEF IInv

-----------------------------------------------------------------------------
(* The theorems.                                                           *)

LEMMA InitIInv == ASSUME Init PROVE IInv
<1>1. \A a \in Actor : act[a] = Idle /\ act[a].pc = "idle"
  BY DEF Init, Idle, At
<1>2. StoreTypes
  <2>1. [binding |-> NoBinding, attempt |-> NoAttempt] \in Records
    BY ValueTypes, MakeRecord DEF NoBinding, Unbound
  <2> QED BY <2>1, DeviceAssumption DEF Init, StoreTypes
<1>3. ActorTypes
  BY <1>1 DEF Init, ActorTypes
<1>4. ListTypes
  BY DEF Init, ListTypes, Swept
<1>5. (\A a \in Actor : ActorOK(a)) /\ Mutex
  BY <1>1 DEF ActorOK, LockOK, ClearOK, FreshOK, ProvedOK, LostOK, Mutex
<1>6. SweepOK
  BY DEF Init, SweepOK, Swept
<1>7. \A d \in Device : device[d].binding = NoBinding
  BY DEF Init
<1>8. LostKnown /\ OneHolder
  BY <1>7 DEF LostKnown, OneHolder, NoBinding, Unbound
<1> QED BY <1>2, <1>3, <1>4, <1>5, <1>6, <1>8 DEF IInv, Types

LEMMA NextIInv == IInv /\ [Next]_vars => IInv'
<1> SUFFICES ASSUME IInv, [Next]_vars PROVE IInv'
  OBVIOUS
<1>1. ASSUME NEW a \in Actor, Handle(a) PROVE IInv'
  BY <1>1, GiveUpStep, ClaimStep, SupersedeStep, ProveStep, WriteStepKeeps, RetryStep DEF Handle
<1>2. CASE Watch
  BY <1>1, <1>2, TakeEventStep DEF Watch, Actor
<1>3. CASE Sweep
  BY <1>1, <1>3, ListStep, SweepResetsStep, SweepReconcilesStep DEF Sweep, Actor
<1>4. CASE Remove
  BY <1>4, RemoveOwnerStep, RemovalResetsStep DEF Remove
<1>5. CASE Environment
  BY <1>5, ResetDeviceBindingStep, SubmitProbeStep, DeleteDeviceStep, PollStep, SetOwnerStep, DeleteManagerStep,
     RestartStep, FailStep, ExpireStep DEF Environment
<1>6. CASE UNCHANGED vars
  BY <1>6, StutterStep
<1> QED BY <1>2, <1>3, <1>4, <1>5, <1>6 DEF Next

LEMMA SpecIInv == Spec => []IInv
<1>1. Init => IInv
  BY InitIInv
<1> QED BY <1>1, NextIInv, PTL DEF Spec

\* What an accepted binding may turn into, and when an attempt is used up.
Displaced(d) ==
  device[d] # None /\ device[d].binding.state = "accepted" /\ device'[d] # None
    /\ device'[d].binding.state = "conflict" => device[d].binding.uid \in everLost

UsedUp(d) ==
  device[d] # None /\ device'[d] # None =>
    LET b == device'[d].binding IN
    b.state = "accepted" /\ b.validity = "valid" /\ device[d].attempt.id = b.entry
      /\ device'[d].attempt = NoAttempt => proof[d] = b.uid

\* Only these steps write Devices.
LEMMA DeviceSteps ==
  ASSUME IInv, [Next]_vars
  PROVE  \/ device' = device
         \/ \E d \in Device : Changed(d)
         \/ \E a \in Actor : Supersede(a) \/ Write(a)
<1>1. CASE Watch
  BY <1>1 DEF Watch, Handle, Actor, GiveUp, Claim, Prove, Retry, TakeEvent, store
<1>2. CASE Sweep
  <2>1. ASSUME NEW d \in Device, SweepResets(d) PROVE Changed(d)
    BY <2>1, ResetChanges DEF SweepResets, IInv
  <2> QED BY <1>2, <2>1 DEF Sweep, Handle, Actor, GiveUp, Claim, Prove, Retry, List, SweepReconciles, store
<1>3. CASE Remove
  <2>1. ASSUME RemovalResets PROVE device' = device \/ \E d \in Device : Changed(d)
    <3>1. PICK item \in removal, done \in BOOLEAN :
            IF done THEN ResetBinding(item[1], item[2]) ELSE UNCHANGED device
      BY <2>1 DEF RemovalResets
    <3>2. item[1] \in Device
      BY DEF IInv, Types, ListTypes
    <3> QED BY <3>1, <3>2, ResetChanges DEF IInv
  <2> QED BY <1>3, <2>1 DEF Remove, RemoveOwner, store
<1>4. CASE Environment
  <2>1. ASSUME NEW d \in Device, ResetDeviceBinding(d) PROVE Changed(d)
    BY <2>1, ResetChanges DEF ResetDeviceBinding, IInv
  <2>2. ASSUME NEW d \in Device, SubmitProbe(d) PROVE Changed(d)
    BY <2>2, ProbeChanges
  <2>3. ASSUME NEW d \in Device, DeleteDevice(d) PROVE Changed(d)
    BY <2>3, DeleteChanges
  <2> QED BY <1>4, <2>1, <2>2, <2>3 DEF Environment, Poll, SetOwner, DeleteManager, Restart, Fail, Expire, store
<1>5. CASE UNCHANGED vars
  BY <1>5 DEF vars, store
<1> QED BY <1>1, <1>2, <1>3, <1>4, <1>5 DEF Next

\* An entry is never that of an attempt that was cleared.
LEMMA EntryApart ==
  ASSUME NEW rec \in Records, rec.binding.state = "accepted"
  PROVE  rec.binding.entry # NoAttempt.id
BY NoneApart DEF Records, Bindings, NoAttempt

LEMMA ChangedKeeps ==
  ASSUME IInv, device' = device \/ \E d \in Device : Changed(d), NEW x \in Device
  PROVE  Displaced(x) /\ UsedUp(x)
<1>1. \/ device'[x] = None
      \/ device'[x].binding = NoBinding
      \/ device'[x] = device[x]
      \/ device[x] # None /\ device'[x].binding = device[x].binding /\ device'[x].attempt.state = "submitted"
  BY DEF Changed
<1>2. NoBinding.state = "none" /\ NoAttempt.state # "submitted"
  BY DEF NoBinding, Unbound, NoAttempt
<1>3. Displaced(x)
  BY <1>1, <1>2 DEF Displaced
<1>4. UsedUp(x)
  <2> SUFFICES ASSUME device[x] # None, device'[x] # None, device'[x].binding.state = "accepted",
                      device[x].attempt.id = device'[x].binding.entry, device'[x].attempt = NoAttempt
               PROVE  FALSE
    BY DEF UsedUp
  <2>1. device'[x] = device[x] /\ device[x] \in Records
    BY <1>1, <1>2 DEF IInv, Types, StoreTypes
  <2> QED BY <2>1, EntryApart
<1> QED BY <1>3, <1>4

LEMMA SupersedeKeeps ==
  ASSUME IInv, NEW a \in Actor, Supersede(a), NEW x \in Device
  PROVE  Displaced(x) /\ UsedUp(x)
<1> DEFINE h == act[a].holder
<1>1. /\ device \in [Device -> Records \cup {None}] /\ act[a].uid \in everLost
  BY DEF Supersede, IInv, Types, StoreTypes, ActorOK, LostOK
<1>2. CASE device'[x] = device[x]
  <2>1. Displaced(x)
    BY <1>2 DEF Displaced
  <2>2. UsedUp(x)
    BY <1>1, <1>2, EntryApart DEF UsedUp
  <2> QED BY <2>1, <2>2
<1>3. CASE device'[x] # device[x]
  <2>1. /\ device[h] # None /\ device[h].binding.uid = act[a].uid
        /\ device' = [device EXCEPT ![h] = Superseded(device[h])]
    BY <1>3 DEF Supersede, Store
  <2>2. x = h
    BY <1>1, <1>3, <2>1
  <2>3. device'[x] = [device[x] EXCEPT !.binding = Unbound("conflict", @.entry)] /\ device[x] \in Records
    BY <1>1, <2>1, <2>2 DEF Superseded
  <2>4. device'[x].binding.state = "conflict"
    BY <2>3 DEF Records, Unbound
  <2> QED BY <1>1, <2>1, <2>2, <2>4 DEF Displaced, UsedUp
<1> QED BY <1>2, <1>3

LEMMA WriteKeeps ==
  ASSUME IInv, NEW a \in Actor, Write(a), NEW x \in Device
  PROVE  Displaced(x) /\ UsedUp(x)
<1> DEFINE d == act[a].dev
           plan == act[a].plan
           rec == device[d]
           new == plan.new
<1>1. /\ d \in Device /\ plan \in PlanType /\ new \in Records
      /\ rec \in Records \ {None} /\ Sound(plan, rec)
  BY WriteFacts DEF Write
<1>2. ProvedOK(a) /\ ClearOK(a) /\ act[a].pc = "write"
  BY DEF IInv, ActorOK, Write
<1>3. device' = [device EXCEPT ![d] = new] /\ device \in [Device -> Records \cup {None}]
  BY DEF Write, Store, IInv, Types, StoreTypes
<1>4. CASE x # d
  <2>1. device'[x] = device[x]
    BY <1>3, <1>4
  <2>2. Displaced(x)
    BY <2>1 DEF Displaced
  <2>3. UsedUp(x)
    BY <1>3, <2>1, EntryApart DEF UsedUp
  <2> QED BY <2>2, <2>3
<1>5. CASE x = d
  <2>1. device'[x] = new /\ device[x] = rec /\ plan.claim \in Entry \cup {None}
    BY <1>1, <1>3, <1>5 DEF PlanType
  <2>2. rec.binding.state = "accepted" => new.binding.state = "accepted"
    BY <1>1, <2>1 DEF Sound, SameUID
  <2>3. Displaced(x)
    BY <2>1, <2>2 DEF Displaced
  <2>4. UsedUp(x)
    <3> SUFFICES ASSUME new.binding.state = "accepted", new.binding.validity = "valid",
                        rec.attempt.id = new.binding.entry, new.attempt = NoAttempt
                 PROVE  proof[d] = new.binding.uid
      BY <1>5, <2>1 DEF UsedUp
    <3>1. plan.prove
      <4>1. CASE plan.claim = None
        BY <1>1, <4>1 DEF Sound
      <4>2. CASE plan.claim \in Entry
        BY <1>1, <1>2, <4>2 DEF Sound, ClearOK
      <4> QED BY <2>1, <4>1, <4>2
    <3> QED BY <1>2, <3>1 DEF ProvedOK
  <2> QED BY <2>3, <2>4
<1> QED BY <1>4, <1>5

LEMMA StepKeeps ==
  ASSUME IInv, [Next]_vars, NEW x \in Device
  PROVE  Displaced(x) /\ UsedUp(x)
<1>1. ASSUME device' = device \/ \E d \in Device : Changed(d) PROVE Displaced(x) /\ UsedUp(x)
  BY <1>1, ChangedKeeps
<1>2. ASSUME NEW a \in Actor, Supersede(a) \/ Write(a) PROVE Displaced(x) /\ UsedUp(x)
  BY <1>2, SupersedeKeeps, WriteKeeps
<1> QED BY <1>1, <1>2, DeviceSteps

\* Whatever the watch, the sweep, the removal, users, providers and faults do:
\* the Devices, locks and counters in the store have their types, and a stored
\* binding has a uid and a validity exactly if it is accepted.
THEOREM DeviceTypeCorrect == Spec => []TypeOK
<1>1. ASSUME IInv PROVE TypeOK
  <2>1. ASSUME NEW d \in Device, device[d] # None
        PROVE  LET b == device[d].binding IN
               /\ b \in Binding /\ (b.state = "accepted" <=> b.uid > 0) /\ (b.uid > 0 <=> b.validity # "none")
               /\ device[d].attempt.state \in {"none", "submitted", "processed"}
               /\ device[d].attempt.id \in Entry \cup {None}
    <3>1. device[d] \in Records
      BY <1>1, <2>1 DEF IInv, Types, StoreTypes
    <3> QED BY <3>1 DEF Records, Bindings, Attempts, NoAttempt
  <2> QED BY <1>1, <2>1 DEF TypeOK, IInv, Types, StoreTypes, ActorTypes
<1> QED BY <1>1, SpecIInv, PTL

\* For any number of Devices and entries, no two Devices hold one entry, as
\* long as its claim lock does not expire under a handler that goes on.
THEOREM OneHolderCorrect == Spec => []OneHolder
<1>1. IInv => OneHolder
  BY DEF IInv
<1> QED BY <1>1, SpecIInv, PTL

\* A claim takes an entry away only from a binding that has been LOST, also if
\* the lock expired, and whatever happened since the holder was listed.
THEOREM DisplacedCorrect == Spec => DisplacedWasLost
<1> DEFINE A == \A d \in Device :
             device[d] # None /\ device[d].binding.state = "accepted" /\ device'[d] # None
               /\ device'[d].binding.state = "conflict" => device[d].binding.uid \in everLost
<1>1. IInv /\ [Next]_vars => A
  BY StepKeeps DEF Displaced
<1> QED BY <1>1, SpecIInv, PTL DEF Spec, DisplacedWasLost

\* An attempt that proves the binding is cleared only behind the proof of its
\* Session, whatever was retried, lost or restarted between the two writes.
THEOREM ProofKept == Spec => ProofIsKept
<1> DEFINE A == \A d \in Device : device[d] # None /\ device'[d] # None =>
             LET b == device'[d].binding IN
             b.state = "accepted" /\ b.validity = "valid" /\ device[d].attempt.id = b.entry
               /\ device'[d].attempt = NoAttempt => proof[d] = b.uid
<1>1. IInv /\ [Next]_vars => A
  BY StepKeeps DEF UsedUp
<1> QED BY <1>1, SpecIInv, PTL DEF Spec, ProofIsKept
=============================================================================
