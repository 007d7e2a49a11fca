------------------------- MODULE AccessWindowProofs -------------------------
(***************************************************************************)
(* Two more proofs about AccessGrant, for any Requests, Rules and bounds:  *)
(* no window is longer than its Rule allows, whatever fails; and, when no  *)
(* handler fails, a deletion is not undone by a late reconcile.            *)
(*                                                                         *)
(* The length of a window is decided when the Rule is matched, from the    *)
(* duration of that time, and the window is fixed later, from a copy: the  *)
(* invariant Capped follows the Rule, the duration it gave and the window  *)
(* together.  A deletion is safe as long as somebody answers for a         *)
(* PolicyTrigger that is still there (Answered): the event of the deletion *)
(* or the handler that created it and has not looked yet.                  *)
(***************************************************************************)
EXTENDS AccessGrantProofs

\* The longest access that a Rule gives.
Cap(rule) == IF rule.max > 0 THEN rule.max ELSE DefaultMaxAccess

Capped(req) ==
  /\ req.rule = NoRule => req.effective = Nil /\ req.accessEndsAt = Nil
  /\ req.effective <= Cap(req.rule)
  /\ req.accessEndsAt # Nil => req.accessEndsAt <= req.endAt + Cap(req.rule)

CapOK == \A r \in Request : Capped(request[r])

LEMMA CapType == \A rule \in AnyRule : Cap(rule) \in Nat \ {0}
BY RuleMax, DefaultMaxAccessAssumption DEF Cap

\* The asked duration is cut to the Rule's maximum.
LEMMA DurationCapped ==
  ASSUME NEW duration \in Nat, NEW rule \in AnyRule
  PROVE  AccessDuration(duration, rule) <= Cap(rule)
BY RuleMax, DefaultMaxAccessAssumption DEF AccessDuration, Cap, Nil

LEMMA Fields ==
  ASSUME NEW req \in RequestType
  PROVE  /\ req.rule \in AnyRule /\ req.duration \in Nat /\ req.effective \in Nat
         /\ req.endAt \in Nat /\ req.accessEndsAt \in Nat /\ Cap(req.rule) \in Nat
BY CapType, GrantAssumption DEF RequestType, AnyRule

\* A step that leaves the Rule, its duration and the window alone and does
\* not move the end of the wait back.
LEMMA CappedAlike ==
  ASSUME NEW req \in RequestType, NEW next \in RequestType, Capped(req),
         next.rule = req.rule, next.effective = req.effective,
         next.accessEndsAt = req.accessEndsAt, next.endAt >= req.endAt
  PROVE  Capped(next)
BY Fields DEF Capped

LEMMA SetStateCapped ==
  ASSUME NEW req \in RequestType, NEW status \in Status, NEW t \in Nat, Capped(req)
  PROVE  Capped(SetState(req, status, t))
<1>1. SetState(req, status, t) \in RequestType
  BY SetStateType
<1>2. /\ SetState(req, status, t).rule = req.rule
      /\ SetState(req, status, t).effective = req.effective
      /\ SetState(req, status, t).accessEndsAt = req.accessEndsAt
      /\ SetState(req, status, t).endAt >= req.endAt
  BY DEF SetState, RequestType, Nil
<1> QED BY <1>1, <1>2, CappedAlike

LEMMA GotoNextCapped ==
  ASSUME NEW req \in RequestType, NEW status \in Status, NEW t \in Nat, Capped(req)
  PROVE  Capped(GotoNextStepOr(status, req, t))
<1>1. CASE req.step + 1 >= Len(req.rule.steps)
  BY <1>1, SetStateCapped DEF GotoNextStepOr
<1>2. CASE ~(req.step + 1 >= Len(req.rule.steps))
  <2> DEFINE next == GotoNextStepOr(status, req, t)
  <2>1. next = [req EXCEPT !.step = @ + 1, !.stepAt = t]
    BY <1>2 DEF GotoNextStepOr
  <2>2. next.rule = req.rule /\ next.effective = req.effective /\ next.endAt = req.endAt
        /\ next.accessEndsAt = req.accessEndsAt
    BY <2>1 DEF RequestType
  <2>3. next \in RequestType
    BY GotoNextType
  <2> HIDE DEF next
  <2>4. next.endAt >= req.endAt
    BY <2>2, Fields
  <2>5. Capped(next)
    BY <2>2, <2>3, <2>4, CappedAlike
  <2> QED BY <2>5 DEF next
<1> QED BY <1>1, <1>2

\* The watcher.
LEMMA CheckedCapped ==
  ASSUME NEW req \in RequestType, NEW t \in Nat, Capped(req)
  PROVE  Capped(Checked(req, t))
<1>1. Capped(SetState(req, "EXPIRED", t)) /\ Capped(SetState(req, "REJECTED", t))
      /\ Capped(GotoNextStepOr("EXPIRED", req, t))
  BY SetStateCapped, GotoNextCapped DEF Status, Final
<1> HIDE DEF Capped
<1>2. Capped(CheckPending(req, t)) /\ Capped(ExpireIfNeeded(req, t))
  BY <1>1 DEF CheckPending, ExpireIfNeeded
<1> QED BY <1>2 DEF Checked

\* A Rule that is matched gives a duration within its own maximum.
LEMMA InitializeCapped ==
  ASSUME NEW req \in RequestType, NEW rule \in AnyRule, NEW t \in Nat, Capped(req), req.rule = NoRule
  PROVE  Capped(InitializeRequest(req, rule, t))
<1>1. CASE rule = NoRule
  <2>1. InitializeRequest(req, rule, t) = SetState(req, "REJECTED", t)
    BY <1>1 DEF InitializeRequest, NoRule
  <2> QED BY <2>1, SetStateCapped DEF Status, Final
<1>2. CASE rule # NoRule
  <2> DEFINE ruled == [req EXCEPT !.rule = rule]
             begun == Begun(req, rule, t)
  <2>1. rule \in Rules /\ rule.effect \in Effect /\ Cap(rule) \in Nat
    BY <1>2, GrantAssumption, CapType DEF AnyRule
  <2>2. req.accessEndsAt = Nil /\ req.effective = Nil /\ req.duration \in Nat
    BY Fields DEF Capped
  <2>3. AccessDuration(req.duration, rule) \in Nat /\ AccessDuration(req.duration, rule) <= Cap(rule)
    BY <2>2, AccessDurationType, DurationCapped
  <2>4. ruled \in RequestType /\ Capped(ruled)
    <3>1. ruled \in RequestType /\ ruled.rule = rule /\ ruled.effective = Nil /\ ruled.accessEndsAt = Nil
      BY <2>1, <2>2 DEF RequestType
    <3> HIDE DEF ruled
    <3> QED BY <2>1, <3>1, <1>2 DEF Capped, Nil
  <2>5. begun \in RequestType /\ Capped(begun)
    <3>1. begun \in RequestType /\ begun.rule = rule /\ begun.accessEndsAt = Nil
          /\ begun.effective = AccessDuration(req.duration, rule)
      BY <2>1, <2>2, <2>3 DEF RequestType, Begun, Nil
    <3> HIDE DEF begun
    <3> QED BY <2>3, <3>1, <1>2 DEF Capped, Nil
  <2> HIDE DEF ruled, begun
  <2>6. CASE rule.effect = "DENY"
    <3>1. InitializeRequest(req, rule, t) = SetState(ruled, "REJECTED", t)
      BY <1>2, <2>6 DEF InitializeRequest, ruled
    <3> QED BY <2>4, <3>1, SetStateCapped DEF Status, Final
  <2>7. CASE rule.effect = "REVIEW"
    <3> DEFINE next == [begun EXCEPT !.stepAt = t]
    <3>1. InitializeRequest(req, rule, t) = next
      BY <1>2, <2>7 DEF InitializeRequest, begun
    <3>2. /\ next \in RequestType /\ next.rule = begun.rule /\ next.effective = begun.effective
          /\ next.endAt = begun.endAt /\ next.accessEndsAt = begun.accessEndsAt
      BY <2>5 DEF RequestType
    <3> HIDE DEF next
    <3>3. next.endAt >= begun.endAt
      BY <2>5, <3>2, Fields
    <3> QED BY <2>5, <3>1, <3>2, <3>3, CappedAlike
  <2>8. CASE rule.effect = "AUTO_APPROVE"
    <3>1. InitializeRequest(req, rule, t) = SetState(begun, "APPROVED", t)
      BY <1>2, <2>8 DEF InitializeRequest, begun
    <3> QED BY <2>5, <3>1, SetStateCapped DEF Status
  <2> QED BY <2>1, <2>6, <2>7, <2>8 DEF Effect
<1> QED BY <1>1, <1>2

\* The window takes the duration that the Rule gave.
LEMMA EnsureCapped ==
  ASSUME NEW req \in RequestType, NEW t \in Nat, Capped(req)
  PROVE  Capped(EnsureAccessEndsAt(req, t))
<1>1. CASE req.accessEndsAt # Nil \/ req.rule = NoRule
  BY <1>1 DEF EnsureAccessEndsAt
<1>2. CASE ~(req.accessEndsAt # Nil \/ req.rule = NoRule)
  <2> DEFINE length == IF req.effective > 0 THEN req.effective
                       ELSE AccessDuration(req.duration, req.rule)
             anchor == IF req.endAt = Nil THEN t ELSE req.endAt
             next == [req EXCEPT !.endAt = anchor, !.accessEndsAt = anchor + length]
  <2>1. length \in Nat /\ length <= Cap(req.rule) /\ anchor \in Nat
    BY Fields, AccessDurationType, DurationCapped DEF Capped
  <2>2. EnsureAccessEndsAt(req, t) = next
    BY <1>2 DEF EnsureAccessEndsAt
  <2> HIDE DEF length, anchor
  <2>3. next.rule = req.rule /\ next.effective = req.effective /\ next.endAt = anchor
        /\ next.accessEndsAt = anchor + length
    BY DEF RequestType
  <2> HIDE DEF next
  <2>4. Capped(next)
    BY <1>2, <2>1, <2>3, Fields DEF Capped
  <2> QED BY <2>2, <2>4
<1> QED BY <1>1, <1>2

\* The requests controller.
LEMMA ReconciledCapped ==
  ASSUME NEW req \in RequestType, NEW rule \in AnyRule, NEW t \in Nat, Capped(req)
  PROVE  Capped(Reconciled(req, rule, t))
<1> DEFINE init == IF NeedsRule(req) THEN InitializeRequest(req, rule, t) ELSE req
           ensured == EnsureAccessEndsAt(init, t)
<1>1. init \in RequestType /\ Capped(init)
  BY InitializeType, InitializeCapped DEF NeedsRule
<1>2. Reconciled(req, rule, t) = IF init.status # "APPROVED" THEN init ELSE ExpireIfNeeded(ensured, t)
  BY DEF Reconciled
<1> HIDE DEF init
<1>3. ensured \in RequestType /\ Capped(ensured)
  BY <1>1, EnsureWindow, EnsureCapped
<1> HIDE DEF ensured
<1>4. Capped(ExpireIfNeeded(ensured, t))
  BY <1>3, SetStateCapped DEF ExpireIfNeeded, Status, Final
<1> QED BY <1>1, <1>2, <1>4
-----------------------------------------------------------------------------
(* The windows of the stored Requests.                                     *)

LEMMA WriteCapped ==
  ASSUME IInv, CapOK, NEW r \in Request, NEW req, Write(r, req), Capped(req)
  PROVE  CapOK'
<1>1. request' = [request EXCEPT ![r] = req] /\ request \in [Request -> RequestType]
  BY DEF Write, IInv, TypeOK
<1> QED BY <1>1 DEF CapOK

\* A compare-and-swap acts on the stored version or not at all.
LEMMA SwapCapped ==
  ASSUME IInv, CapOK, NEW r \in Request, NEW copy \in CopyType, CopyOK(r, copy),
         NEW req, CompareAndSwap(r, copy.rv, req), Capped(copy.req) => Capped(req)
  PROVE  CapOK'
<1>1. CASE Live(r) /\ version[r] = copy.rv
  <2>1. copy.req = request[r] /\ Write(r, req)
    BY <1>1 DEF CopyOK, CompareAndSwap
  <2> QED BY <2>1, WriteCapped DEF CapOK
<1>2. CASE ~(Live(r) /\ version[r] = copy.rv)
  <2>1. request' = request
    BY <1>2 DEF CompareAndSwap, store
  <2> QED BY <2>1 DEF CapOK
<1> QED BY <1>1, <1>2

LEMMA ApiCapped ==
  ASSUME IInv, CapOK, Api
  PROVE  CapOK'
<1>0. request \in [Request -> RequestType] /\ now \in Nat
  BY DEF IInv, TypeOK
<1>1. ASSUME NEW r \in Request, NEW duration \in Durations, NEW deadline \in Deadlines,
             CreateRequest(r, duration, deadline)
      PROVE  CapOK'
  <2> DEFINE req == NewRequest(duration, deadline)
  <2>1. request' = [request EXCEPT ![r] = req]
    BY <1>1 DEF CreateRequest
  <2>2. Capped(req)
    <3>1. req.rule = NoRule /\ req.effective = 0 /\ req.accessEndsAt = 0
      BY DEF NewRequest, Nil
    <3>2. Cap(NoRule) \in Nat
      BY CapType DEF AnyRule
    <3> HIDE DEF req
    <3> QED BY <3>1, <3>2 DEF Capped, Nil
  <2> HIDE DEF req
  <2> QED BY <1>0, <2>1, <2>2 DEF CapOK
<1>2. ASSUME NEW r \in Request, NEW duration \in Durations, NEW deadline \in Deadlines,
             UpdateRequest(r, duration, deadline)
      PROVE  CapOK'
  <2> DEFINE req == [request[r] EXCEPT !.duration = duration, !.deadline = deadline]
  <2>1. Write(r, req)
    BY <1>2 DEF UpdateRequest
  <2>2. /\ req \in RequestType /\ req.rule = request[r].rule /\ req.effective = request[r].effective
        /\ req.endAt = request[r].endAt /\ req.accessEndsAt = request[r].accessEndsAt
    BY <1>0 DEF RequestType
  <2> HIDE DEF req
  <2>3. req.endAt >= request[r].endAt
    BY <1>0, <2>2, Fields
  <2>4. Capped(req)
    BY <1>0, <2>2, <2>3, CappedAlike DEF CapOK
  <2> QED BY <2>1, <2>4, WriteCapped
<1>3. ASSUME NEW r \in Request, CancelRequest(r) \/ RevokeRequest(r)
      PROVE  CapOK'
  <2>1. PICK status \in Status : Write(r, SetState(request[r], status, now))
    BY <1>3 DEF CancelRequest, RevokeRequest, Status, Final
  <2> QED BY <1>0, <2>1, SetStateCapped, WriteCapped DEF CapOK
<1>4. ASSUME NEW r \in Request, Review(r)
      PROVE  CapOK'
  <2>1. \/ Write(r, GotoNextStepOr("APPROVED", request[r], now))
        \/ Write(r, SetState(request[r], "REJECTED", now))
    BY <1>4 DEF Review
  <2>2. /\ Capped(GotoNextStepOr("APPROVED", request[r], now))
        /\ Capped(SetState(request[r], "REJECTED", now))
    BY <1>0, GotoNextCapped, SetStateCapped DEF CapOK, Status, Final
  <2> QED BY <2>1, <2>2, WriteCapped
<1>5. ASSUME request' = request
      PROVE  CapOK'
  BY <1>5 DEF CapOK
<1>6. CASE \E p \in Priorities : UpdateClusterConfig(p)
  BY <1>5, <1>6 DEF UpdateClusterConfig, store
<1>7. CASE \E r \in Request : DeleteRequest(r)
  BY <1>5, <1>7 DEF DeleteRequest
<1> QED BY <1>1, <1>2, <1>3, <1>4, <1>6, <1>7 DEF Api

LEMMA HandlerCapped ==
  ASSUME IInv, CapOK, NEW t \in Thread, Step(t)
  PROVE  CapOK'
<1> DEFINE r == work[t].r
           copy == work[t].copy
<1>0. /\ r \in Request /\ copy \in CopyType /\ copy.req \in RequestType /\ now \in Nat
      /\ work[t].seen.uid \in Nat
  BY DEF IInv, TypeOK, WorkType, CopyType, TriggerType
<1>1. work[t].pc # "idle" => CopyOK(r, copy)
  BY DEF IInv, WorkOK
<1>2. ASSUME request' = request
      PROVE  CapOK'
  BY <1>2 DEF CapOK
<1>3. CASE Advance(t)
  <2>1. PICK rule \in AnyRule :
          IF rule.effect = "REVIEW" /\ ~ValidReview(rule) THEN UNCHANGED store
          ELSE CompareAndSwap(r, copy.rv, Reconciled(copy.req, rule, now))
    BY <1>3 DEF Advance, AnyRule
  <2>2. CopyOK(r, copy)
    BY <1>1, <1>3 DEF Advance
  <2>3. Capped(copy.req) => Capped(Reconciled(copy.req, rule, now))
    BY <1>0, ReconciledCapped
  <2>4. CASE CompareAndSwap(r, copy.rv, Reconciled(copy.req, rule, now))
    BY <1>0, <2>2, <2>3, <2>4, SwapCapped
  <2>5. CASE UNCHANGED store
    BY <1>2, <2>5 DEF store
  <2> QED BY <2>1, <2>4, <2>5
<1>4. CASE UpdateRef(t)
  <2> DEFINE req == [copy.req EXCEPT !.triggerRef = work[t].seen.uid]
  <2>1. CopyOK(r, copy)
    BY <1>1, <1>4 DEF UpdateRef
  <2>2. /\ req \in RequestType /\ req.rule = copy.req.rule /\ req.effective = copy.req.effective
        /\ req.endAt = copy.req.endAt /\ req.accessEndsAt = copy.req.accessEndsAt
    BY <1>0 DEF RequestType
  <2>3. UNCHANGED store \/ CompareAndSwap(r, copy.rv, req)
    BY <1>4 DEF UpdateRef
  <2> HIDE DEF req
  <2>4. req.endAt >= copy.req.endAt
    BY <1>0, <2>2, Fields
  <2>5. Capped(copy.req) => Capped(req)
    BY <1>0, <2>2, <2>4, CappedAlike
  <2>6. CASE CompareAndSwap(r, copy.rv, req)
    BY <1>0, <2>1, <2>5, <2>6, SwapCapped
  <2>7. CASE UNCHANGED store
    BY <1>2, <2>7 DEF store
  <2> QED BY <2>3, <2>6, <2>7
<1>5. CASE Skip(t) \/ BuildTrigger(t) \/ GetTrigger(t) \/ CreateTrigger(t) \/ CheckExists(t)
           \/ UpdateTrigger(t) \/ DropTrigger(t)
  BY <1>2, <1>5 DEF Skip, BuildTrigger, GetTrigger, CreateTrigger, CheckExists, UpdateTrigger,
                    DropTrigger, store
<1> QED BY <1>3, <1>4, <1>5 DEF Step

LEMMA NextCapped ==
  ASSUME IInv, CapOK, [Next]_vars
  PROVE  CapOK'
<1>1. ASSUME request' = request
      PROVE  CapOK'
  BY <1>1 DEF CapOK
<1>2. CASE Take \/ Tick \/ Crash \/ UNCHANGED vars
  BY <1>1, <1>2 DEF Take, ListApproved, TakeListed, TakeEvent, Tick, Crash, store, vars
<1>3. CASE \E t \in Thread : Fail(t)
  BY <1>1, <1>3 DEF Fail, store
<1>4. ASSUME NEW r \in Request, SweepRequest(r)
      PROVE  CapOK'
  <2>1. Write(r, Checked(request[r], now)) /\ request[r] \in RequestType /\ now \in Nat
    BY <1>4 DEF SweepRequest, IInv, TypeOK
  <2>2. Capped(Checked(request[r], now))
    BY <2>1, CheckedCapped DEF CapOK
  <2> QED BY <2>1, <2>2, WriteCapped
<1>5. CASE \E r \in Request : SweepTrigger(r)
  BY <1>1, <1>5 DEF SweepTrigger, store
<1> QED BY <1>2, <1>3, <1>4, <1>5, ApiCapped, HandlerCapped DEF Next, Sweep

\* No edit of the duration and no stale copy gives a window that is longer
\* than the Rule of the Request allows, also when handlers fail or nocturne
\* restarts.
THEOREM WindowCorrect == Spec => []WindowCapped
<1>1. Init => CapOK
  <2> SUFFICES ASSUME Init, NEW r \in Request PROVE Capped(request[r])
    BY DEF CapOK
  <2>1. request[r] = NewRequest(Nil, Nil)
    BY DEF Init
  <2>2. request[r].rule = NoRule /\ request[r].effective = 0 /\ request[r].accessEndsAt = 0
    BY <2>1 DEF NewRequest, Nil
  <2>3. Cap(NoRule) \in Nat
    BY CapType DEF AnyRule
  <2> QED BY <2>2, <2>3 DEF Capped, Nil
<1>2. IInv /\ CapOK /\ [Next]_vars => CapOK'
  BY NextCapped
<1>3. CapOK => WindowCapped
  BY DEF CapOK, Capped, WindowCapped, Cap
<1> QED BY <1>1, <1>2, <1>3, InitIInv, NextIInv, PTL DEF Spec
-----------------------------------------------------------------------------
(* The deletion of a Request, when no handler fails and nocturne does not  *)
(* restart.                                                                *)

\* The event of the deletion is still to come.
ToCome(r) == \E i \in 1 .. Len(feed[r]) : feed[r][i].kind = "DELETE"

\* A handler has the event of the deletion.
Deleting(t, r) ==
  work[t].pc = "reconcile" /\ work[t].r = r /\ work[t].copy.kind = "DELETE"

\* A handler has created the PolicyTrigger and will look for the Request.
Looking(t, r) ==
  work[t].pc = "exists" /\ work[t].r = r /\ work[t].seen.uid = trigger[r].uid

Answered ==
  \A r \in Request : stored[r] = "deleted" /\ trigger[r] # NoTrigger =>
    ToCome(r) \/ \E t \in Thread : Deleting(t, r) \/ Looking(t, r)

\* A new version adds an event, and none of a deleted Request is written.
LEMMA WriteAnswered ==
  ASSUME TypeOK, Answered, NEW s \in Request, NEW req, Write(s, req), UNCHANGED trigger,
         \A r \in Request, t \in Thread :
           stored[r] = "deleted" /\ trigger[r] # NoTrigger /\ (Deleting(t, r) \/ Looking(t, r))
             => Deleting(t, r)' \/ Looking(t, r)'
  PROVE  Answered'
<1> SUFFICES ASSUME NEW r \in Request, stored'[r] = "deleted", trigger'[r] # NoTrigger
             PROVE  ToCome(r)' \/ \E t \in Thread : Deleting(t, r)' \/ Looking(t, r)'
  BY DEF Answered
<1>1. stored[r] = "deleted" /\ trigger[r] # NoTrigger
  BY DEF Write
<1>2. CASE ToCome(r)
  <2>1. PICK i \in 1 .. Len(feed[r]) : feed[r][i].kind = "DELETE"
    BY <1>2 DEF ToCome
  <2>2. feed[r] \in Seq(CopyType) /\ feed \in [Request -> Seq(CopyType)]
    BY DEF TypeOK
  <2> DEFINE event == Copy("PUT", version[s] + 1, req)
  <2>3. feed'[r] = feed[r] \/ feed'[r] = Append(feed[r], event)
    BY <2>2 DEF Write
  <2> HIDE DEF event
  <2>4. i \in 1 .. Len(feed'[r]) /\ feed'[r][i] = feed[r][i]
    BY <2>2, <2>3
  <2> QED BY <2>1, <2>4 DEF ToCome
<1>3. CASE \E t \in Thread : Deleting(t, r) \/ Looking(t, r)
  BY <1>1, <1>3
<1> QED BY <1>1, <1>2, <1>3 DEF Answered

\* Nothing that Answered looks at changes, but for the handler t, which
\* answered for nothing.
LEMMA HandlerOther ==
  ASSUME TypeOK, Answered, NEW t \in Thread, UNCHANGED <<stored, feed, trigger>>,
         \A s \in Thread : s # t => work'[s] = work[s],
         \A r \in Request : ~Deleting(t, r) /\ ~Looking(t, r)
  PROVE  Answered'
BY DEF Answered, ToCome, Deleting, Looking

LEMMA ApiAnswered ==
  ASSUME TypeOK, Answered, Api
  PROVE  Answered'
<1>0. /\ stored \in [Request -> {"none", "live", "deleted"}]
      /\ feed \in [Request -> Seq(CopyType)]
  BY DEF TypeOK
<1>1. ASSUME NEW s \in Request, NEW req, Write(s, req), UNCHANGED <<trigger, work>>
      PROVE  Answered'
  BY <1>1, WriteAnswered DEF Deleting, Looking
<1>2. ASSUME NEW s \in Request, NEW duration \in Durations, NEW deadline \in Deadlines,
             CreateRequest(s, duration, deadline)
      PROVE  Answered'
  <2> SUFFICES ASSUME NEW r \in Request, stored'[r] = "deleted", trigger'[r] # NoTrigger
               PROVE  ToCome(r)' \/ \E t \in Thread : Deleting(t, r)' \/ Looking(t, r)'
    BY DEF Answered
  <2>1. /\ r # s /\ stored[r] = "deleted" /\ feed'[r] = feed[r]
        /\ trigger' = trigger /\ work' = work
    BY <1>0, <1>2 DEF CreateRequest, triggers
  <2> QED BY <2>1 DEF Answered, ToCome, Deleting, Looking
<1>3. ASSUME NEW s \in Request, DeleteRequest(s)
      PROVE  Answered'
  <2> SUFFICES ASSUME NEW r \in Request, stored'[r] = "deleted", trigger'[r] # NoTrigger
               PROVE  ToCome(r)' \/ \E t \in Thread : Deleting(t, r)' \/ Looking(t, r)'
    BY DEF Answered
  <2>1. trigger' = trigger /\ work' = work
    BY <1>3 DEF DeleteRequest, triggers
  <2>2. CASE r = s
    <3> DEFINE event == Copy("DELETE", version[s], request[s])
    <3>1. feed'[r] = Append(feed[r], event)
      BY <1>0, <1>3, <2>2 DEF DeleteRequest
    <3>2. event.kind = "DELETE"
      BY DEF Copy
    <3> HIDE DEF event
    <3>3. /\ Len(feed'[r]) \in 1 .. Len(feed'[r])
          /\ feed'[r][Len(feed'[r])] = event
      BY <1>0, <3>1
    <3> QED BY <3>2, <3>3 DEF ToCome
  <2>3. CASE r # s
    <3>1. stored[r] = "deleted" /\ feed'[r] = feed[r]
      BY <1>0, <1>3, <2>3 DEF DeleteRequest
    <3> QED BY <2>1, <3>1 DEF Answered, ToCome, Deleting, Looking
  <2> QED BY <2>2, <2>3
<1>4. CASE \E p \in Priorities : UpdateClusterConfig(p)
  BY <1>4 DEF UpdateClusterConfig, store, triggers, Answered, ToCome, Deleting, Looking
<1>5. ASSUME NEW s \in Request, NEW duration \in Durations, NEW deadline \in Deadlines,
             UpdateRequest(s, duration, deadline)
      PROVE  Answered'
  BY <1>1, <1>5 DEF UpdateRequest, triggers
<1>6. ASSUME NEW s \in Request, CancelRequest(s) \/ RevokeRequest(s) \/ Review(s)
      PROVE  Answered'
  <2>1. UNCHANGED <<trigger, work>>
    BY <1>6 DEF CancelRequest, RevokeRequest, Review, triggers
  <2>2. \E req : Write(s, req)
    BY <1>6 DEF CancelRequest, RevokeRequest, Review
  <2> QED BY <1>1, <2>1, <2>2
<1> QED BY <1>2, <1>3, <1>4, <1>5, <1>6 DEF Api

\* The watches: the event of a deletion passes from the feed to its handler.
LEMMA TakeAnswered ==
  ASSUME TypeOK, Answered, Take
  PROVE  Answered'
<1>0. /\ work \in [Thread -> WorkType] /\ feed \in [Request -> Seq(CopyType)]
      /\ "request" \in Thread /\ "config" \in Thread
  BY DEF TypeOK, Thread
<1>1. CASE ListApproved
  BY <1>1 DEF ListApproved, store, triggers, Answered, ToCome, Deleting, Looking
<1>2. CASE TakeListed
  <2>1. PICK item \in listed : Reconcile("config", item[1], item[2])
    BY <1>2 DEF TakeListed
  <2>2. \A t \in Thread : t # "config" => work'[t] = work[t]
    BY <1>0, <2>1 DEF Reconcile
  <2>3. \A r \in Request : ~Deleting("config", r) /\ ~Looking("config", r)
    BY <1>2 DEF TakeListed, Deleting, Looking
  <2>4. UNCHANGED <<stored, feed, trigger>>
    BY <1>2 DEF TakeListed, store, triggers
  <2> QED BY <1>0, <2>2, <2>3, <2>4, HandlerOther
<1>3. ASSUME NEW s \in Request, TakeEvent(s)
      PROVE  Answered'
  <2> SUFFICES ASSUME NEW r \in Request, stored'[r] = "deleted", trigger'[r] # NoTrigger
               PROVE  ToCome(r)' \/ \E t \in Thread : Deleting(t, r)' \/ Looking(t, r)'
    BY DEF Answered
  <2>1. /\ UNCHANGED <<stored, trigger>> /\ work["request"].pc = "idle" /\ feed[s] # <<>>
        /\ feed' = [feed EXCEPT ![s] = Tail(@)]
        /\ Reconcile("request", s, Head(feed[s]))
    BY <1>3 DEF TakeEvent, triggers
  <2>2. \A t \in Thread : t # "request" => work'[t] = work[t]
    BY <1>0, <2>1 DEF Reconcile
  <2>3. /\ work'["request"].pc = "reconcile" /\ work'["request"].r = s
        /\ work'["request"].copy = Head(feed[s])
    BY <1>0, <2>1 DEF Reconcile, Idle
  <2>4. CASE \E t \in Thread : Deleting(t, r) \/ Looking(t, r)
    <3>1. PICK t \in Thread : Deleting(t, r) \/ Looking(t, r)
      BY <2>4
    <3>2. t # "request"
      BY <2>1, <3>1 DEF Deleting, Looking
    <3> QED BY <2>1, <2>2, <3>1, <3>2 DEF Deleting, Looking
  <2>5. CASE ToCome(r) /\ r # s
    <3>1. feed'[r] = feed[r]
      BY <1>0, <2>1, <2>5
    <3> QED BY <2>5, <3>1 DEF ToCome
  <2>6. CASE ToCome(r) /\ r = s
    <3>1. PICK i \in 1 .. Len(feed[r]) : feed[r][i].kind = "DELETE"
      BY <2>6 DEF ToCome
    <3>2. CASE i = 1
      <4>1. Head(feed[s]).kind = "DELETE"
        BY <1>0, <2>1, <2>6, <3>1, <3>2
      <4> QED BY <1>0, <2>3, <2>6, <4>1 DEF Deleting
    <3>3. CASE i # 1
      <4>1. feed'[r] = Tail(feed[r]) /\ feed[r] \in Seq(CopyType)
        BY <1>0, <2>1, <2>6
      <4>2. i - 1 \in 1 .. Len(feed'[r]) /\ feed'[r][i - 1] = feed[r][i]
        BY <3>1, <3>3, <4>1
      <4> QED BY <3>1, <4>2 DEF ToCome
    <3> QED BY <3>2, <3>3
  <2> QED BY <2>1, <2>4, <2>5, <2>6 DEF Answered
<1> QED BY <1>1, <1>2, <1>3 DEF Take

\* Dropping the PolicyTrigger of r leaves nothing to answer for.
LEMMA DropAnswered ==
  ASSUME TypeOK, Answered, NEW t \in Thread, NEW s \in Request, UNCHANGED <<stored, feed>>,
         \A r \in Request : r # s => trigger'[r] = trigger[r],
         trigger'[s] = NoTrigger,
         \A u \in Thread : u # t => work'[u] = work[u],
         work[t].r = s
  PROVE  Answered'
BY DEF Answered, ToCome, Deleting, Looking

LEMMA HandlerAnswered ==
  ASSUME TypeOK, Answered, NEW t \in Thread, Step(t)
  PROVE  Answered'
<1> DEFINE s == work[t].r
<1>0. /\ s \in Request /\ work \in [Thread -> WorkType]
      /\ trigger \in [Request -> TriggerType]
  BY DEF TypeOK, WorkType
<1>1. \A u \in Thread : u # t => work'[u] = work[u]
  BY <1>0 DEF Step, Advance, BuildTrigger, Skip, GetTrigger, CreateTrigger, CheckExists,
              UpdateTrigger, DropTrigger, UpdateRef, Do, Done
<1>2. CASE Advance(t) \/ UpdateRef(t)
  <2>1. \A r \in Request : ~Deleting(t, r) /\ ~Looking(t, r)
    BY <1>2 DEF Advance, UpdateRef, Deleting, Looking
  <2>2. UNCHANGED trigger
    BY <1>2 DEF Advance, UpdateRef, triggers
  <2>3. UNCHANGED store \/ \E req : Write(s, req)
    BY <1>2 DEF Advance, UpdateRef, CompareAndSwap
  <2>4. CASE UNCHANGED store
    BY <1>1, <2>1, <2>2, <2>4, HandlerOther DEF store
  <2>5. ASSUME NEW req, Write(s, req)
        PROVE  Answered'
    <3>1. \A r \in Request, u \in Thread : Deleting(u, r) \/ Looking(u, r)
            => Deleting(u, r)' \/ Looking(u, r)'
      BY <1>1, <2>1, <2>2 DEF Deleting, Looking
    <3> QED BY <1>0, <2>2, <2>5, <3>1, WriteAnswered
  <2> QED BY <2>3, <2>4, <2>5
<1>3. CASE Skip(t) \/ BuildTrigger(t) \/ GetTrigger(t)
  <2>1. \A r \in Request : ~Deleting(t, r) /\ ~Looking(t, r)
    BY <1>3 DEF Skip, BuildTrigger, GetTrigger, Deleting, Looking
  <2>2. UNCHANGED <<stored, feed, trigger>>
    BY <1>3 DEF Skip, BuildTrigger, GetTrigger, store, triggers
  <2> QED BY <1>1, <2>1, <2>2, HandlerOther
<1>4. CASE CreateTrigger(t)
  <2>1. UNCHANGED <<stored, feed>> /\ work[t].pc = "put"
    BY <1>4 DEF CreateTrigger, store
  <2>2. CASE trigger[s] = NoTrigger
    <3> DEFINE new == [uid |-> created[s] + 1, rv |-> 1, priority |-> work[t].priority,
                       notAfter |-> work[t].copy.req.accessEndsAt]
    <3>1. trigger' = [trigger EXCEPT ![s] = new]
      BY <1>4, <2>2 DEF CreateTrigger
    <3>2. work' = [work EXCEPT ![t].pc = "exists", ![t].seen = trigger'[s]]
      BY <1>4, <2>2 DEF CreateTrigger
    <3> HIDE DEF new
    <3>3. work'[t].pc = "exists" /\ work'[t].r = s /\ work'[t].seen = trigger'[s]
      BY <1>0, <3>2 DEF WorkType
    <3>4. \A r \in Request : r = s => Looking(t, r)'
      BY <3>3 DEF Looking
    <3>5. \A r \in Request : r # s => trigger'[r] = trigger[r]
      BY <1>0, <3>1
    <3>6. \A r \in Request : ~Deleting(t, r) /\ ~Looking(t, r)
      BY <2>1 DEF Deleting, Looking
    <3> HIDE DEF s
    <3>7. ASSUME NEW r \in Request, stored'[r] = "deleted", trigger'[r] # NoTrigger, r # s
          PROVE  ToCome(r)' \/ \E u \in Thread : Deleting(u, r)' \/ Looking(u, r)'
      BY <1>1, <2>1, <3>5, <3>6, <3>7 DEF Answered, ToCome, Deleting, Looking
    <3> QED BY <3>4, <3>7 DEF Answered
  <2>3. CASE trigger[s] # NoTrigger
    <3>1. UNCHANGED trigger
      BY <1>4, <2>3 DEF CreateTrigger, triggers
    <3> QED BY <1>1, <2>1, <3>1, HandlerOther DEF Deleting, Looking
  <2> QED BY <2>2, <2>3
<1>5. CASE CheckExists(t)
  <2>1. UNCHANGED <<stored, feed>> /\ work[t].pc = "exists"
    BY <1>5 DEF CheckExists, store
  <2>2. CASE Live(s)
    <3>1. UNCHANGED trigger
      BY <1>5, <2>2 DEF CheckExists, triggers
    <3>2. ASSUME NEW r \in Request, stored'[r] = "deleted", trigger'[r] # NoTrigger
          PROVE  ToCome(r)' \/ \E u \in Thread : Deleting(u, r)' \/ Looking(u, r)'
      <4>1. r # s /\ stored[r] = "deleted" /\ trigger[r] # NoTrigger
        BY <2>1, <2>2, <3>1, <3>2 DEF Live
      <4>2. ~Deleting(t, r) /\ ~Looking(t, r)
        BY <4>1 DEF Deleting, Looking
      <4> QED BY <1>1, <2>1, <3>1, <4>1, <4>2 DEF Answered, ToCome, Deleting, Looking
    <3> QED BY <3>2 DEF Answered
  <2>3. CASE ~Live(s) /\ trigger[s].uid = work[t].seen.uid
    <3>1. trigger' = [trigger EXCEPT ![s] = NoTrigger]
      BY <1>5, <2>3 DEF CheckExists
    <3>2. trigger'[s] = NoTrigger /\ \A r \in Request : r # s => trigger'[r] = trigger[r]
      BY <1>0, <3>1
    <3> QED BY <1>0, <1>1, <2>1, <3>2, DropAnswered
  <2>4. CASE ~Live(s) /\ trigger[s].uid # work[t].seen.uid
    <3>1. UNCHANGED trigger
      BY <1>0, <1>5, <2>4 DEF CheckExists
    <3>2. \A r \in Request : ~Deleting(t, r) /\ ~Looking(t, r)
      BY <2>1, <2>4 DEF Deleting, Looking
    <3> QED BY <1>1, <2>1, <3>1, <3>2, HandlerOther
  <2> QED BY <2>2, <2>3, <2>4
<1>6. CASE UpdateTrigger(t)
  <2>1. UNCHANGED <<stored, feed>> /\ work[t].pc = "put" /\ work[t].seen # NoTrigger
    BY <1>6 DEF UpdateTrigger, store
  <2>2. \A r \in Request : trigger'[r].uid = trigger[r].uid /\ (trigger[r] = NoTrigger => trigger'[r] = NoTrigger)
    <3> DEFINE desired == [work[t].seen EXCEPT !.priority = work[t].priority,
                                               !.notAfter = work[t].copy.req.accessEndsAt]
               new == [desired EXCEPT !.rv = @ + 1]
    <3>1. CASE UNCHANGED trigger
      BY <3>1
    <3>2. CASE trigger[s] = work[t].seen /\ trigger' = [trigger EXCEPT ![s] = new]
      <4>1. new.uid = trigger[s].uid
        BY <1>0, <3>2 DEF TriggerType
      <4> HIDE DEF new, s
      <4>2. \A r \in Request : trigger'[r] = IF r = s THEN new ELSE trigger[r]
        BY <1>0, <3>2
      <4> QED BY <2>1, <3>2, <4>1, <4>2
    <3> QED BY <1>6, <3>1, <3>2 DEF UpdateTrigger
  <2>3. \A r \in Request : ~Deleting(t, r) /\ ~Looking(t, r)
    BY <2>1 DEF Deleting, Looking
  <2> QED BY <1>1, <2>1, <2>2, <2>3 DEF Answered, ToCome, Deleting, Looking
<1>7. CASE DropTrigger(t)
  <2>1. UNCHANGED <<stored, feed>> /\ trigger' = [trigger EXCEPT ![s] = NoTrigger]
    BY <1>7 DEF DropTrigger, store
  <2>2. trigger'[s] = NoTrigger /\ \A r \in Request : r # s => trigger'[r] = trigger[r]
    BY <1>0, <2>1
  <2> QED BY <1>0, <1>1, <2>1, <2>2, DropAnswered
<1> QED BY <1>2, <1>3, <1>4, <1>5, <1>6, <1>7 DEF Step

LEMMA NextAnswered ==
  ASSUME TypeOK, Answered, Failing = FALSE, MaxCrashes = 0, [Next]_vars
  PROVE  Answered'
<1>1. CASE Tick \/ UNCHANGED vars
  BY <1>1 DEF Tick, vars, store, triggers, Answered, ToCome, Deleting, Looking
<1>2. ~Crash /\ ~\E t \in Thread : Fail(t)
  BY DEF Crash, Fail, TypeOK
<1>3. ASSUME NEW s \in Request, SweepRequest(s)
      PROVE  Answered'
  <2>1. UNCHANGED <<trigger, work>> /\ \E req : Write(s, req)
    BY <1>3 DEF SweepRequest, triggers
  <2> QED BY <2>1, WriteAnswered DEF Deleting, Looking
<1>4. ASSUME NEW s \in Request, SweepTrigger(s)
      PROVE  Answered'
  <2>1. UNCHANGED <<stored, feed, work>> /\ trigger' = [trigger EXCEPT ![s] = NoTrigger]
    BY <1>4 DEF SweepTrigger, store
  <2>2. \A r \in Request : trigger'[r] # NoTrigger => trigger'[r] = trigger[r]
    BY <2>1 DEF TypeOK
  <2> QED BY <2>1, <2>2 DEF Answered, ToCome, Deleting, Looking
<1> QED BY <1>1, <1>2, <1>3, <1>4, ApiAnswered, TakeAnswered, HandlerAnswered DEF Next, Sweep

\* Once every handler that knew of a deleted Request has ended, no
\* PolicyTrigger of it is left, whatever copies the handlers held, provided
\* that none of them fails or is cut off by a restart.
THEOREM DeletionCorrect ==
  ASSUME Failing = FALSE, MaxCrashes = 0
  PROVE  Spec => []DeletionNotUndone
<1>1. Init => Answered
  BY DEF Init, Answered
<1>2. IInv /\ Answered /\ [Next]_vars => Answered'
  BY NextAnswered DEF IInv
<1>3. IInv /\ Answered => DeletionNotUndone
  <2> SUFFICES ASSUME TypeOK, Answered, NEW r \in Request, stored[r] = "deleted", ~Busy(r)
               PROVE  trigger[r] = NoTrigger
    BY DEF IInv, DeletionNotUndone
  <2>1. ~ToCome(r)
    BY DEF Busy, ToCome
  <2>2. \A t \in Thread : ~Deleting(t, r) /\ ~Looking(t, r)
    BY DEF Busy, Deleting, Looking
  <2> QED BY <2>1, <2>2 DEF Answered
<1> QED BY <1>1, <1>2, <1>3, InitIInv, NextIInv, PTL DEF Spec
=============================================================================
