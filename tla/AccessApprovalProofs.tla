------------------------ MODULE AccessApprovalProofs ------------------------
(***************************************************************************)
(* Proof about AccessGrant, for any Requests, Rules and bounds: when no    *)
(* handler fails and nocturne does not restart, an approved Request whose  *)
(* window is open has its PolicyTrigger and names it as soon as no handler *)
(* is at work on it, however the two goroutines interleave.                *)
(*                                                                         *)
(* The invariant names who still answers for the Request: the event of its *)
(* last version, or a handler whose copy is the last version (Serving), or *)
(* nobody any more, once the reference is stored (GrantedOK).  A handler   *)
(* of an older copy may create or update the PolicyTrigger too, which      *)
(* takes the work away from the one that serves; HeldOK says that this     *)
(* cannot be: of the approved versions with a window only the last one is  *)
(* without reference.                                                      *)
(***************************************************************************)
EXTENDS AccessGrantProofs, SequenceTheorems

\* A stored Request: without decision it has no window and no reference, and
\* an approval came from a Rule.
Sound(req) ==
  /\ Waiting(req)
  /\ req.status = "PENDING" => req.triggerRef = Nil
  /\ req.status = "APPROVED" => req.rule # NoRule

\* What a function that computes the next version does not touch: the
\* reference, and an approved Request with a window, unless it ends it.
Settles(req, next) ==
  /\ next.triggerRef = req.triggerRef
  /\ next.status = "APPROVED" => next.rule # NoRule
  /\ req.status = "APPROVED" /\ req.accessEndsAt # Nil => next = req \/ next.status \in Final

LEMMA SetStateSettles ==
  ASSUME NEW req \in RequestType, NEW status \in Final, NEW t \in Nat, Sound(req)
  PROVE  Settles(req, SetState(req, status, t))
BY DEF Settles, SetState, RequestType, Final, Sound

LEMMA GotoNextSettles ==
  ASSUME NEW req \in RequestType, NEW status \in Status, NEW t \in Nat, req.status = "PENDING",
         status = "APPROVED" => req.rule # NoRule
  PROVE  Settles(req, GotoNextStepOr(status, req, t))
<1>1. CASE req.step + 1 >= Len(req.rule.steps)
  BY <1>1 DEF GotoNextStepOr, SetState, Settles, RequestType
<1>2. CASE ~(req.step + 1 >= Len(req.rule.steps))
  BY <1>2 DEF GotoNextStepOr, Settles, RequestType
<1> QED BY <1>1, <1>2

LEMMA StaySettles ==
  ASSUME NEW req \in RequestType, Sound(req)
  PROVE  Settles(req, req)
BY DEF Settles, Sound

\* The watcher.
LEMMA CheckedSettles ==
  ASSUME NEW req \in RequestType, NEW t \in Nat, Sound(req)
  PROVE  Settles(req, Checked(req, t))
<1>1. Settles(req, req) /\ Settles(req, SetState(req, "EXPIRED", t))
      /\ Settles(req, SetState(req, "REJECTED", t))
  BY StaySettles, SetStateSettles DEF Final
<1>2. req.status = "PENDING" => Settles(req, GotoNextStepOr("EXPIRED", req, t))
  BY GotoNextSettles DEF Status, Final
<1> HIDE DEF Settles
<1>3. req.status = "PENDING" => Settles(req, CheckPending(req, t))
  BY <1>1, <1>2 DEF CheckPending
<1>4. Settles(req, ExpireIfNeeded(req, t))
  BY <1>1 DEF ExpireIfNeeded
<1> QED BY <1>1, <1>3, <1>4 DEF Checked

\* The requests controller.
LEMMA InitializeSettles ==
  ASSUME NEW req \in RequestType, NEW rule \in AnyRule, NEW t \in Nat, req.status = "PENDING"
  PROVE  LET init == InitializeRequest(req, rule, t)
         IN  /\ init.triggerRef = req.triggerRef
             /\ init.status = "APPROVED" => init.rule # NoRule
<1> DEFINE init == InitializeRequest(req, rule, t)
<1>1. CASE rule = NoRule
  <2>1. init = SetState(req, "REJECTED", t)
    BY <1>1 DEF InitializeRequest, NoRule
  <2> QED BY <2>1 DEF SetState, RequestType
<1>2. CASE rule # NoRule
  <2>1. rule.effect \in Effect
    BY <1>2, GrantAssumption DEF AnyRule
  <2>2. CASE rule.effect = "DENY"
    <3>1. init = SetState([req EXCEPT !.rule = rule], "REJECTED", t)
      BY <1>2, <2>2 DEF InitializeRequest
    <3> QED BY <3>1 DEF SetState, RequestType
  <2>3. CASE rule.effect = "REVIEW"
    <3>1. init = [Begun(req, rule, t) EXCEPT !.stepAt = t]
      BY <1>2, <2>3 DEF InitializeRequest
    <3> QED BY <3>1 DEF Begun, RequestType
  <2>4. CASE rule.effect = "AUTO_APPROVE"
    <3>1. init = SetState(Begun(req, rule, t), "APPROVED", t)
      BY <1>2, <2>4 DEF InitializeRequest
    <3> QED BY <1>2, <3>1 DEF Begun, SetState, RequestType
  <2> QED BY <2>1, <2>2, <2>3, <2>4 DEF Effect
<1> QED BY <1>1, <1>2

LEMMA ReconciledSettles ==
  ASSUME NEW req \in RequestType, NEW rule \in AnyRule, NEW t \in Nat, Sound(req)
  PROVE  Settles(req, Reconciled(req, rule, t))
<1> DEFINE init == IF NeedsRule(req) THEN InitializeRequest(req, rule, t) ELSE req
           ensured == EnsureAccessEndsAt(init, t)
<1>1. /\ init \in RequestType /\ init.triggerRef = req.triggerRef
      /\ init.status = "APPROVED" => init.rule # NoRule
      /\ req.status = "APPROVED" => init = req
  BY InitializeType, InitializeSettles DEF NeedsRule, Sound
<1>2. Reconciled(req, rule, t) = IF init.status # "APPROVED" THEN init ELSE ExpireIfNeeded(ensured, t)
  BY DEF Reconciled
<1>3. CASE init.status # "APPROVED"
  BY <1>1, <1>2, <1>3 DEF Settles
<1> HIDE DEF init
<1>4. CASE init.status = "APPROVED"
  <2>1. /\ ensured \in RequestType /\ ensured.rule = init.rule
        /\ init.accessEndsAt # Nil => ensured = init
    BY <1>1, EnsureWindow
  <2>2. ensured.triggerRef = init.triggerRef /\ ensured.status = "APPROVED"
    BY <1>1, <1>4 DEF EnsureAccessEndsAt, RequestType
  <2> HIDE DEF ensured
  <2> DEFINE next == ExpireIfNeeded(ensured, t)
  <2>3. next = ensured \/ next = SetState(ensured, "EXPIRED", t)
    BY DEF ExpireIfNeeded
  <2>4. next.triggerRef = ensured.triggerRef
        /\ (next = ensured \/ next.status \in Final)
    BY <2>1, <2>3 DEF SetState, RequestType, Final
  <2> HIDE DEF next
  <2>5. Settles(req, next)
    BY <1>1, <1>4, <2>1, <2>2, <2>4 DEF Settles, Final
  <2> QED BY <1>2, <1>4, <2>5 DEF next
<1> QED BY <1>3, <1>4
-----------------------------------------------------------------------------
(* The invariant.                                                          *)

\* What a copy of r that somebody holds says about the stored version: it is
\* not ahead of it, and an approved version with a window is the last one, or
\* is followed by one with the reference or by the end.
HeldOK(r, copy) ==
  /\ stored[r] # "none"
  /\ copy.kind = "DELETE" => stored[r] = "deleted"
  /\ copy.req.status \in Final => request[r].status \in Final
  /\ copy.req.status = "APPROVED" => request[r].status # "PENDING"
  /\ copy.req.status = "APPROVED" /\ copy.req.accessEndsAt # Nil /\ copy.rv < version[r] =>
       request[r].status \in Final \/ request[r].triggerRef # Nil

\* An approved Request whose window is open.
Open(r) == Live(r) /\ request[r].status = "APPROVED" /\ ~WindowPassed(request[r], now)

Named(seen) == seen = NoTrigger \/ seen.uid # 0

\* What a handler has done so far: it is about the PolicyTrigger only with an
\* approved version that has a window, or it has dropped it; the PolicyTrigger
\* that it saw is still there.
HandlerOK(w) ==
  /\ w.pc # "idle" => HeldOK(w.r, w.copy)
  /\ w.pc \in {"get", "put", "exists"} => w.copy.req.status = "APPROVED"
  /\ w.pc = "put" => Named(w.seen)
  /\ w.pc = "exists" => w.seen.uid # 0 /\ w.copy.req.accessEndsAt # Nil
  /\ w.pc = "ref" =>
       \/ w.copy.req.status \in Final /\ w.seen = NoTrigger
       \/ w.copy.req.status = "APPROVED" /\ w.copy.req.accessEndsAt # Nil /\ w.seen.uid # 0
  /\ w.pc \in {"put", "exists", "ref"} /\ Open(w.r) /\ w.seen.uid # 0 =>
       trigger[w.r].uid = w.seen.uid

SoundOK == \A r \in Request : Sound(request[r])

FeedHeld == \A r \in Request : \A i \in 1 .. Len(feed[r]) : HeldOK(r, feed[r][i])

ListedHeld == \A item \in listed : HeldOK(item[1], item[2])

HandlersHold == \A t \in Thread : HandlerOK(work[t])

\* The last event is that of the last version.
LastEventOK ==
  \A r \in Request : Live(r) /\ feed[r] # <<>> => feed[r][Len(feed[r])].rv = version[r]

NamedOK == \A r \in Request : Named(trigger[r])

RefOK == \A r \in Request : Open(r) /\ request[r].triggerRef # Nil =>
           trigger[r].uid = request[r].triggerRef

\* The handler t works on the last version of r and nobody has forestalled it.
Serving(t, r) ==
  /\ work[t].pc # "idle" /\ work[t].r = r /\ work[t].copy.rv = version[r]
  /\ work[t].pc = "put" => work[t].seen = trigger[r]

GrantedOK ==
  \A r \in Request : Open(r) =>
    feed[r] # <<>> \/ request[r].triggerRef # Nil \/ \E t \in Thread : Serving(t, r)

ApprovalInv ==
  SoundOK /\ FeedHeld /\ ListedHeld /\ HandlersHold /\ LastEventOK /\ NamedOK /\ RefOK /\ GrantedOK
-----------------------------------------------------------------------------
(* Steps that write a Request.                                             *)

\* What the written version has to be.
Successor(r, req) ==
  /\ Sound(req)
  /\ request[r].status \in Final => req.status \in Final
  /\ request[r].status = "APPROVED" => req.status # "PENDING"
  /\ request[r].status = "APPROVED" /\ request[r].accessEndsAt # Nil =>
       req.status \in Final \/ req.triggerRef # Nil
  /\ request[r].accessEndsAt # Nil => req.accessEndsAt = request[r].accessEndsAt
  /\ req.status = "APPROVED" /\ ~WindowPassed(req, now) /\ req.triggerRef # Nil =>
       trigger[r].uid = req.triggerRef

\* The functions that compute a version give a successor.
LEMMA SettledSuccessor ==
  ASSUME IInv, ApprovalInv, NEW r \in Request, NEW req, Live(r), Follows(request[r], req),
         Settles(request[r], req), req # request[r] \/ request[r].status = "PENDING"
  PROVE  req \in RequestType /\ Successor(r, req)
<1>0. /\ Sound(request[r]) /\ request[r] \in RequestType /\ req \in RequestType
      /\ Waiting(request[r]) /\ RefOK
  BY DEF ApprovalInv, SoundOK, IInv, TypeOK, Follows, Sound
<1>1. /\ request[r].status \in Final => req.status \in Final
      /\ request[r].status = "APPROVED" => req.status # "PENDING"
      /\ request[r].accessEndsAt # Nil => req.accessEndsAt = request[r].accessEndsAt
  BY <1>0 DEF Follows, SamePhase, Ends, IsApproved, GetsWindow, Final, Waiting
<1>2. Sound(req)
  <2>1. Waiting(req)
    BY <1>0, FollowsWaiting
  <2>2. req.status = "PENDING" => request[r].status = "PENDING"
    BY <1>0 DEF Follows, SamePhase, Ends, IsApproved, GetsWindow, Final
  <2> QED BY <1>0, <2>1, <2>2 DEF Sound, Settles
<1>3. request[r].status = "APPROVED" /\ request[r].accessEndsAt # Nil => req.status \in Final
  BY DEF Settles
<1>4. ASSUME req.status = "APPROVED", ~WindowPassed(req, now), req.triggerRef # Nil
      PROVE  trigger[r].uid = req.triggerRef
  <2>1. req.triggerRef = request[r].triggerRef
    BY DEF Settles
  <2>2. request[r].status = "APPROVED"
    BY <1>0, <1>1, <1>4, <2>1 DEF Sound, RequestType, Status, Final
  <2>3. Open(r)
    BY <1>1, <1>4, <2>2 DEF Open, WindowPassed
  <2> QED BY <1>0, <1>4, <2>1, <2>3 DEF RefOK
<1> QED BY <1>0, <1>1, <1>2, <1>3, <1>4 DEF Successor

\* A write takes no copy further than the stored version.
LEMMA WriteHeld ==
  ASSUME IInv, NEW r \in Request, NEW req \in RequestType, Live(r), Write(r, req),
         Successor(r, req), NEW s \in Request, NEW copy \in CopyType, CopyOK(s, copy), HeldOK(s, copy)
  PROVE  HeldOK(s, copy)'
<1>0. /\ request' = [request EXCEPT ![r] = req] /\ version' = [version EXCEPT ![r] = @ + 1]
      /\ stored' = stored /\ request \in [Request -> RequestType] /\ version \in [Request -> Nat]
      /\ copy.rv \in Nat
  BY DEF Write, IInv, TypeOK, CopyType
<1>1. CASE s # r
  <2>1. request'[s] = request[s] /\ version'[s] = version[s] /\ stored'[s] = stored[s]
    BY <1>0, <1>1
  <2> QED BY <2>1 DEF HeldOK
<1>2. CASE s = r
  <2>1. request'[s] = req /\ version'[s] = version[s] + 1 /\ stored'[s] = stored[s] /\ version[s] \in Nat
    BY <1>0, <1>2
  <2>2. copy.req.status = "APPROVED" => req.status # "PENDING"
    <3>1. request[r].status \in Status
      BY <1>0 DEF RequestType
    <3> QED BY <1>2, <3>1 DEF HeldOK, Successor, Status, Final
  <2>3. ASSUME copy.req.status = "APPROVED", copy.req.accessEndsAt # Nil, copy.rv < version'[s]
        PROVE  req.status \in Final \/ req.triggerRef # Nil
    <3>1. request[r].accessEndsAt # Nil /\ copy.rv <= version[r]
      BY <1>2, <2>3 DEF CopyOK
    <3>2. request[r].status \in Final \/ request[r].status = "APPROVED"
      BY <1>0, <1>2, <2>3 DEF HeldOK, RequestType, Status
    <3> QED BY <3>1, <3>2 DEF Successor
  <2> QED BY <1>2, <2>1, <2>2, <2>3 DEF HeldOK, Successor
<1> QED BY <1>1, <1>2

LEMMA WriteApproval ==
  ASSUME IInv, ApprovalInv, NEW r \in Request, NEW req \in RequestType, Live(r), Write(r, req),
         Successor(r, req), UNCHANGED <<now, trigger, listed>>,
         \A t \in Thread : work'[t] = work[t] \/ (work'[t].pc = "idle" /\ work[t].r = r)
  PROVE  ApprovalInv'
<1>1. PICK event \in CopyType :
        /\ event = Copy("PUT", version[r] + 1, req)
        /\ event.kind = "PUT" /\ event.rv = version[r] + 1 /\ event.req = req
  <2>1. version[r] + 1 \in Nat
    BY DEF IInv, TypeOK
  <2> DEFINE put == Copy("PUT", version[r] + 1, req)
  <2>2. put \in CopyType /\ put.rv = version[r] + 1 /\ put.req = req
    BY <2>1, CopyFields
  <2>3. put.kind = "PUT"
    BY DEF Copy
  <2> QED BY <2>2, <2>3
<1>0. /\ request' = [request EXCEPT ![r] = req] /\ version' = [version EXCEPT ![r] = @ + 1]
      /\ feed' = [feed EXCEPT ![r] = Append(@, event)] /\ stored' = stored
      /\ request \in [Request -> RequestType] /\ version \in [Request -> Nat]
      /\ feed \in [Request -> Seq(CopyType)]
      /\ listed \subseteq Request \X CopyType /\ now \in Nat
      /\ \A t \in Thread : work[t] \in WorkType
  BY <1>1 DEF Write, IInv, TypeOK
<1>2. /\ request'[r] = req /\ version'[r] = version[r] + 1 /\ feed'[r] = Append(feed[r], event)
      /\ \A s \in Request : s # r =>
           request'[s] = request[s] /\ version'[s] = version[s] /\ feed'[s] = feed[s]
  BY <1>0
<1>3. SoundOK'
  BY <1>2 DEF ApprovalInv, SoundOK, Successor
<1>4. FeedHeld'
  <2> SUFFICES ASSUME NEW s \in Request, NEW i \in 1 .. Len(feed'[s])
               PROVE  HeldOK(s, feed[s][i])'
    BY DEF FeedHeld
  <2>1. feed[s] \in Seq(CopyType) /\ feed[r] \in Seq(CopyType) /\ i \in Nat
    BY <1>0
  <2>2. CASE s = r /\ i = Len(feed[r]) + 1
    <3>1. feed'[s][i] = event
      BY <1>1, <1>2, <2>1, <2>2
    <3>2. stored'[s] # "none" /\ version[r] \in Nat
      BY <1>0, <2>2 DEF Live
    <3>3. HeldOK(s, event)'
      BY <1>1, <1>2, <2>2, <3>2 DEF HeldOK, Final
    <3> QED BY <3>1, <3>3 DEF HeldOK
  <2>3. CASE ~(s = r /\ i = Len(feed[r]) + 1)
    <3>1. i \in 1 .. Len(feed[s]) /\ feed'[s][i] = feed[s][i]
      BY <1>1, <1>2, <2>1, <2>3
    <3>2. PICK c \in CopyType : c = feed[s][i]
      BY <2>1, <3>1
    <3>3. CopyOK(s, c) /\ HeldOK(s, c)
      BY <3>1, <3>2 DEF IInv, FeedOK, ApprovalInv, FeedHeld
    <3>4. HeldOK(s, c)'
      BY <3>3, WriteHeld
    <3> QED BY <3>1, <3>2, <3>4 DEF HeldOK
  <2> QED BY <2>2, <2>3
<1>5. ListedHeld'
  <2> SUFFICES ASSUME NEW item \in listed
               PROVE  HeldOK(item[1], item[2])'
    BY DEF ListedHeld
  <2>1. PICK s \in Request, c \in CopyType : s = item[1] /\ c = item[2]
    BY <1>0
  <2>2. CopyOK(s, c) /\ HeldOK(s, c)
    BY <2>1 DEF IInv, ListedOK, ApprovalInv, ListedHeld
  <2>3. HeldOK(s, c)'
    BY <2>2, WriteHeld
  <2> QED BY <2>1, <2>3 DEF HeldOK
<1>6. HandlersHold'
  <2> SUFFICES ASSUME NEW t \in Thread
               PROVE  HandlerOK(work[t])'
    BY DEF HandlersHold
  <2>1. CASE work'[t].pc = "idle"
    BY <2>1 DEF HandlerOK
  <2>2. CASE work'[t] = work[t] /\ work[t].pc # "idle"
    <3>1. PICK w \in WorkType : w = work[t]
      BY <1>0
    <3>2. w.r \in Request /\ w.copy \in CopyType /\ CopyOK(w.r, w.copy) /\ HandlerOK(w)
      BY <2>2, <3>1 DEF IInv, WorkOK, WorkType, ApprovalInv, HandlersHold
    <3>3. HeldOK(w.r, w.copy)
      BY <2>2, <3>1, <3>2 DEF HandlerOK
    <3>4. HeldOK(w.r, w.copy)'
      BY <3>2, <3>3, WriteHeld
    <3>5. ASSUME w.pc \in {"put", "exists", "ref"}, Open(w.r)', w.seen.uid # 0
          PROVE  trigger'[w.r].uid = w.seen.uid
      <4>1. CASE Open(w.r)
        BY <3>2, <3>5, <4>1 DEF HandlerOK
      <4>2. CASE ~Open(w.r)
        <5>1. w.r = r
          BY <1>0, <1>2, <3>2, <3>5, <4>2 DEF Open, Live
        <5>2. req.status = "APPROVED" /\ ~WindowPassed(req, now)
          BY <1>2, <3>5, <5>1 DEF Open
        <5>3. request[r].status = "PENDING"
          BY <1>0, <4>2, <5>1, <5>2 DEF Open, Successor, RequestType, Status, WindowPassed, Final
        <5>4. w.copy.req.status \in {"APPROVED"} \union Final
          BY <3>2, <3>5 DEF HandlerOK
        <5> QED BY <3>3, <5>1, <5>3, <5>4 DEF HeldOK, Final
      <4> QED BY <4>1, <4>2
    <3>6. HandlerOK(w)'
      BY <3>2, <3>4, <3>5 DEF HandlerOK
    <3> QED BY <2>2, <3>1, <3>6 DEF HandlerOK
  <2> QED BY <2>1, <2>2
<1>7. LastEventOK'
  <2> SUFFICES ASSUME NEW s \in Request, Live(s)', feed'[s] # <<>>
               PROVE  feed'[s][Len(feed'[s])].rv = version'[s]
    BY DEF LastEventOK
  <2>1. CASE s = r
    BY <1>0, <1>1, <1>2, <2>1
  <2>2. CASE s # r
    BY <1>0, <1>2, <2>2 DEF ApprovalInv, LastEventOK, Live
  <2> QED BY <2>1, <2>2
<1>8. NamedOK'
  BY DEF ApprovalInv, NamedOK
<1>9. RefOK'
  <2> SUFFICES ASSUME NEW s \in Request, Open(s)', request'[s].triggerRef # Nil
               PROVE  trigger'[s].uid = request'[s].triggerRef
    BY DEF RefOK
  <2>1. CASE s = r
    BY <1>2, <2>1 DEF Open, Successor
  <2>2. CASE s # r
    BY <1>0, <1>2, <2>2 DEF ApprovalInv, RefOK, Open, Live
  <2> QED BY <2>1, <2>2
<1>10. GrantedOK'
  <2> SUFFICES ASSUME NEW s \in Request, Open(s)'
               PROVE  feed'[s] # <<>> \/ request'[s].triggerRef # Nil \/ \E t \in Thread : Serving(t, s)'
    BY DEF GrantedOK
  <2>1. CASE s = r
    <3>1. feed[r] \in Seq(CopyType)
      BY <1>0
    <3> QED BY <1>1, <1>2, <2>1, <3>1
  <2>2. CASE s # r
    <3>1. feed'[s] = feed[s] /\ request'[s] = request[s] /\ version'[s] = version[s] /\ Open(s)
      BY <1>0, <1>2, <2>2 DEF Open, Live
    <3>2. ASSUME NEW t \in Thread, Serving(t, s)
          PROVE  Serving(t, s)'
      BY <2>2, <3>1, <3>2 DEF Serving
    <3> QED BY <3>1, <3>2 DEF ApprovalInv, GrantedOK
  <2> QED BY <2>1, <2>2
<1> QED BY <1>3, <1>4, <1>5, <1>6, <1>7, <1>8, <1>9, <1>10 DEF ApprovalInv
-----------------------------------------------------------------------------
(* Steps that write no Request.                                            *)

\* What a step of the handler t on a PolicyTrigger may do.
KeepsTriggers ==
  \A r \in Request :
    /\ Named(trigger'[r])
    /\ Open(r) /\ trigger[r].uid # 0 => trigger'[r].uid = trigger[r].uid

LEMMA HandlerApproval ==
  ASSUME IInv, ApprovalInv, NEW t \in Thread, UNCHANGED <<store, now>>, listed' \subseteq listed,
         \A u \in Thread : u # t => work'[u] = work[u], HandlerOK(work[t])', KeepsTriggers, GrantedOK'
  PROVE  ApprovalInv'
<1>0. \A u \in Thread : work[u] \in WorkType /\ work[u].r \in Request
  BY DEF IInv, TypeOK, WorkType
<1>1. SoundOK' /\ FeedHeld' /\ ListedHeld' /\ LastEventOK'
  BY DEF ApprovalInv, SoundOK, FeedHeld, ListedHeld, LastEventOK, HeldOK, Live, store
<1>2. NamedOK'
  BY DEF NamedOK, KeepsTriggers, Named
<1>3. RefOK'
  <2> SUFFICES ASSUME NEW r \in Request, Open(r)', request'[r].triggerRef # Nil
               PROVE  trigger'[r].uid = request'[r].triggerRef
    BY DEF RefOK
  <2>1. Open(r) /\ request' = request
    BY DEF Open, Live, store
  <2> QED BY <2>1 DEF ApprovalInv, RefOK, KeepsTriggers, Nil
<1>4. HandlersHold'
  <2> SUFFICES ASSUME NEW u \in Thread, u # t
               PROVE  HandlerOK(work[u])'
    BY DEF HandlersHold
  <2>1. PICK w \in WorkType : w = work[u] /\ w.r \in Request
    BY <1>0
  <2>2. HandlerOK(w)
    BY <2>1 DEF ApprovalInv, HandlersHold
  <2>3. HeldOK(w.r, w.copy) => HeldOK(w.r, w.copy)'
    BY DEF HeldOK, store
  <2>4. w.pc \in {"put", "exists", "ref"} /\ Open(w.r)' /\ w.seen.uid # 0
          => trigger'[w.r].uid = w.seen.uid
    <3>1. Open(w.r)' => Open(w.r)
      BY DEF Open, Live, store
    <3> QED BY <2>1, <2>2, <3>1 DEF HandlerOK, KeepsTriggers
  <2>5. HandlerOK(w)'
    BY <2>2, <2>3, <2>4 DEF HandlerOK
  <2> QED BY <2>1, <2>5 DEF HandlerOK
<1> QED BY <1>1, <1>2, <1>3, <1>4 DEF ApprovalInv

\* A step without effect on the store or the PolicyTriggers, after which the
\* handler still serves what it served.
LEMMA QuietApproval ==
  ASSUME IInv, ApprovalInv, NEW t \in Thread, UNCHANGED <<store, now, trigger>>,
         listed' \subseteq listed,
         \A u \in Thread : u # t => work'[u] = work[u], HandlerOK(work[t])',
         \A r \in Request : Open(r) /\ Serving(t, r) => Serving(t, r)' \/ request[r].triggerRef # Nil
  PROVE  ApprovalInv'
<1>1. KeepsTriggers
  BY DEF KeepsTriggers, ApprovalInv, NamedOK
<1>2. GrantedOK'
  <2> SUFFICES ASSUME NEW r \in Request, Open(r)'
               PROVE  feed'[r] # <<>> \/ request'[r].triggerRef # Nil \/ \E u \in Thread : Serving(u, r)'
    BY DEF GrantedOK
  <2>1. Open(r) /\ feed' = feed /\ request' = request /\ version' = version
    BY DEF Open, Live, store
  <2>2. ASSUME NEW u \in Thread, u # t, Serving(u, r)
        PROVE  Serving(u, r)'
    BY <2>1, <2>2 DEF Serving
  <2> QED BY <2>1, <2>2 DEF ApprovalInv, GrantedOK
<1> QED BY <1>1, <1>2, HandlerApproval

\* The handler t creates or updates the PolicyTrigger of the Request r that it
\* works on: from now on it serves r, or the reference is there already.
LEMMA ServesNow ==
  ASSUME IInv, ApprovalInv, NEW t \in Thread, UNCHANGED store, NEW r \in Request, work[t].r = r,
         work[t].pc = "put", Open(r),
         work'[t].pc \in {"exists", "ref"}, work'[t].r = r, work'[t].copy = work[t].copy
  PROVE  request[r].triggerRef # Nil \/ Serving(t, r)'
<1>0. /\ work[t].copy \in CopyType /\ work[t].copy.rv \in Nat /\ version[r] \in Nat
      /\ work[t].copy.req.accessEndsAt # Nil /\ CopyOK(r, work[t].copy)
  BY DEF IInv, TypeOK, WorkType, CopyType, BuiltOK, WorkOK
<1>1. HeldOK(r, work[t].copy) /\ work[t].copy.req.status = "APPROVED"
  BY DEF ApprovalInv, HandlersHold, HandlerOK
<1>2. request[r].status = "APPROVED"
  BY DEF Open
<1>3. work[t].copy.rv = version[r] \/ request[r].triggerRef # Nil
  BY <1>0, <1>1, <1>2 DEF HeldOK, CopyOK, Final
<1> QED BY <1>3 DEF Serving, store

\* What happens to the PolicyTrigger of one Request does not concern those
\* who serve another one.
LEMMA OthersServed ==
  ASSUME ApprovalInv, NEW t \in Thread, UNCHANGED <<store, now>>, NEW s \in Request, work[t].r = s,
         \A r \in Request : r # s => trigger'[r] = trigger[r],
         \A u \in Thread : u # t => work'[u] = work[u],
         Open(s) => request[s].triggerRef # Nil \/ Serving(t, s)'
  PROVE  GrantedOK'
<1> SUFFICES ASSUME NEW r \in Request, Open(r)'
             PROVE  feed'[r] # <<>> \/ request'[r].triggerRef # Nil \/ \E u \in Thread : Serving(u, r)'
  BY DEF GrantedOK
<1>1. Open(r) /\ feed' = feed /\ request' = request /\ version' = version
  BY DEF Open, Live, store
<1>2. ASSUME NEW u \in Thread, r # s, Serving(u, r)
      PROVE  Serving(u, r)'
  BY <1>1, <1>2 DEF Serving
<1> QED BY <1>1, <1>2 DEF ApprovalInv, GrantedOK
-----------------------------------------------------------------------------
(* The actions.                                                            *)

\* A write of what a function of AccessRequest computed.
LEMMA SettledWrite ==
  ASSUME IInv, ApprovalInv, NEW r \in Request, NEW req, Live(r), Write(r, req),
         Follows(request[r], req), Settles(request[r], req),
         req # request[r] \/ request[r].status = "PENDING",
         UNCHANGED <<now, trigger, listed>>,
         \A t \in Thread : work'[t] = work[t] \/ (work'[t].pc = "idle" /\ work[t].r = r)
  PROVE  ApprovalInv'
<1>1. req \in RequestType /\ Successor(r, req)
  BY SettledSuccessor
<1> QED BY <1>1, WriteApproval

LEMMA CreateApproval ==
  ASSUME IInv, ApprovalInv, NEW r \in Request, NEW duration \in Durations, NEW deadline \in Deadlines,
         CreateRequest(r, duration, deadline)
  PROVE  ApprovalInv'
<1>1. PICK req \in RequestType : req = NewRequest(duration, deadline)
  BY NewRequestType
<1>2. PICK copy \in CopyType : copy = Copy("PUT", 1, req) /\ copy.rv = 1 /\ copy.req = req
  BY CopyFields
<1>3. /\ stored[r] = "none" /\ stored' = [stored EXCEPT ![r] = "live"]
      /\ request' = [request EXCEPT ![r] = req] /\ version' = [version EXCEPT ![r] = 1]
      /\ feed' = [feed EXCEPT ![r] = <<copy>>]
      /\ UNCHANGED <<now, trigger, listed, work>>
  BY <1>1, <1>2 DEF CreateRequest, triggers
<1>4. /\ stored \in [Request -> {"none", "live", "deleted"}] /\ request \in [Request -> RequestType]
      /\ version \in [Request -> Nat] /\ feed \in [Request -> Seq(CopyType)]
      /\ listed \subseteq Request \X CopyType /\ \A t \in Thread : work[t] \in WorkType
  BY DEF IInv, TypeOK
<1>5. /\ stored'[r] = "live" /\ request'[r] = req /\ version'[r] = 1 /\ feed'[r] = <<copy>>
      /\ \A s \in Request : s # r => /\ stored'[s] = stored[s] /\ request'[s] = request[s]
                                     /\ version'[s] = version[s] /\ feed'[s] = feed[s]
  BY <1>3, <1>4
<1>6. req.status = "PENDING" /\ Sound(req) /\ copy.kind = "PUT"
  BY <1>1, <1>2 DEF NewRequest, Sound, Waiting, Copy
<1>7. ~Open(r) /\ ~Open(r)' /\ \A s \in Request : s # r => (Open(s)' <=> Open(s))
  BY <1>3, <1>5, <1>6 DEF Open, Live
<1>8. \A s \in Request, c \in CopyType : HeldOK(s, c) => HeldOK(s, c)'
  BY <1>3, <1>5 DEF HeldOK
<1>9. FeedHeld'
  <2> SUFFICES ASSUME NEW s \in Request, NEW i \in 1 .. Len(feed'[s])
               PROVE  HeldOK(s, feed[s][i])'
    BY DEF FeedHeld
  <2>1. CASE s = r
    <3>1. feed'[s][i] = copy
      BY <1>5, <2>1
    <3>2. HeldOK(r, copy)'
      BY <1>2, <1>5, <1>6 DEF HeldOK, Final
    <3> QED BY <2>1, <3>1, <3>2 DEF HeldOK
  <2>2. CASE s # r
    <3>1. feed'[s] = feed[s] /\ i \in 1 .. Len(feed[s]) /\ feed[s] \in Seq(CopyType)
      BY <1>4, <1>5, <2>2
    <3>2. PICK c \in CopyType : c = feed[s][i]
      BY <3>1
    <3>3. HeldOK(s, c)'
      BY <1>8, <3>1, <3>2 DEF ApprovalInv, FeedHeld
    <3> QED BY <3>1, <3>2, <3>3 DEF HeldOK
  <2> QED BY <2>1, <2>2
<1>10. ListedHeld'
  <2> SUFFICES ASSUME NEW item \in listed
               PROVE  HeldOK(item[1], item[2])'
    BY <1>3 DEF ListedHeld
  <2>1. PICK s \in Request, c \in CopyType : s = item[1] /\ c = item[2]
    BY <1>4
  <2>2. HeldOK(s, c)'
    BY <1>8, <2>1 DEF ApprovalInv, ListedHeld
  <2> QED BY <2>1, <2>2 DEF HeldOK
<1>11. HandlersHold'
  <2> SUFFICES ASSUME NEW t \in Thread
               PROVE  HandlerOK(work[t])'
    BY DEF HandlersHold
  <2>1. PICK w \in WorkType : w = work[t]
    BY <1>4
  <2>2. HandlerOK(w) /\ w.r \in Request /\ w.copy \in CopyType
    BY <2>1 DEF ApprovalInv, HandlersHold, WorkType
  <2>3. HandlerOK(w)'
    BY <1>3, <1>7, <1>8, <2>2 DEF HandlerOK
  <2> QED BY <1>3, <2>1, <2>3 DEF HandlerOK
<1>12. SoundOK' /\ LastEventOK' /\ NamedOK' /\ RefOK'
  <2>1. LastEventOK'
    <3> SUFFICES ASSUME NEW s \in Request, Live(s)', feed'[s] # <<>>
                 PROVE  feed'[s][Len(feed'[s])].rv = version'[s]
      BY DEF LastEventOK
    <3> QED BY <1>2, <1>5 DEF ApprovalInv, LastEventOK, Live
  <2>2. SoundOK' /\ NamedOK' /\ RefOK'
    BY <1>3, <1>5, <1>6, <1>7 DEF ApprovalInv, SoundOK, NamedOK, RefOK
  <2> QED BY <2>1, <2>2
<1>13. GrantedOK'
  <2> SUFFICES ASSUME NEW s \in Request, Open(s)', s # r
               PROVE  feed'[s] # <<>> \/ request'[s].triggerRef # Nil \/ \E t \in Thread : Serving(t, s)'
    BY <1>7 DEF GrantedOK
  <2> QED BY <1>3, <1>5, <1>7 DEF ApprovalInv, GrantedOK, Serving
<1> QED BY <1>9, <1>10, <1>11, <1>12, <1>13 DEF ApprovalInv

LEMMA DeleteApproval ==
  ASSUME IInv, ApprovalInv, NEW r \in Request, DeleteRequest(r)
  PROVE  ApprovalInv'
<1>1. PICK copy \in CopyType : copy = Copy("DELETE", version[r], request[r]) /\ copy.rv = version[r]
        /\ copy.req = request[r]
  <2>1. version[r] \in Nat /\ request[r] \in RequestType
    BY DEF IInv, TypeOK
  <2> QED BY <2>1, CopyFields
<1>2. /\ stored[r] = "live" /\ stored' = [stored EXCEPT ![r] = "deleted"]
      /\ feed' = [feed EXCEPT ![r] = Append(@, copy)]
      /\ UNCHANGED <<now, request, version, trigger, listed, work>>
  BY <1>1 DEF DeleteRequest, Live, triggers
<1>3. /\ stored \in [Request -> {"none", "live", "deleted"}] /\ feed \in [Request -> Seq(CopyType)]
      /\ version \in [Request -> Nat]
      /\ listed \subseteq Request \X CopyType /\ \A t \in Thread : work[t] \in WorkType
  BY DEF IInv, TypeOK
<1>4. /\ stored'[r] = "deleted" /\ feed'[r] = Append(feed[r], copy)
      /\ \A s \in Request : s # r => stored'[s] = stored[s] /\ feed'[s] = feed[s]
  BY <1>2, <1>3
<1>5. ~Open(r)' /\ ~Live(r)' /\ \A s \in Request : s # r => (Open(s)' <=> Open(s)) /\ (Live(s)' <=> Live(s))
  BY <1>2, <1>4 DEF Open, Live
<1>6. \A s \in Request, c \in CopyType : HeldOK(s, c) => HeldOK(s, c)'
  BY <1>2, <1>4 DEF HeldOK
<1>7. FeedHeld'
  <2> SUFFICES ASSUME NEW s \in Request, NEW i \in 1 .. Len(feed'[s])
               PROVE  HeldOK(s, feed[s][i])'
    BY DEF FeedHeld
  <2>1. feed[s] \in Seq(CopyType) /\ feed[r] \in Seq(CopyType) /\ i \in Nat
    BY <1>3
  <2>2. CASE s = r /\ i = Len(feed[r]) + 1
    <3>1. feed'[s][i] = copy
      BY <1>4, <2>1, <2>2
    <3>2. HeldOK(r, copy)'
      BY <1>1, <1>2, <1>3, <1>4 DEF HeldOK
    <3> QED BY <2>2, <3>1, <3>2 DEF HeldOK
  <2>3. CASE ~(s = r /\ i = Len(feed[r]) + 1)
    <3>1. i \in 1 .. Len(feed[s]) /\ feed'[s][i] = feed[s][i]
      BY <1>4, <2>1, <2>3
    <3>2. PICK c \in CopyType : c = feed[s][i]
      BY <2>1, <3>1
    <3>3. HeldOK(s, c)'
      BY <1>6, <3>1, <3>2 DEF ApprovalInv, FeedHeld
    <3> QED BY <3>1, <3>2, <3>3 DEF HeldOK
  <2> QED BY <2>2, <2>3
<1>8. ListedHeld'
  <2> SUFFICES ASSUME NEW item \in listed
               PROVE  HeldOK(item[1], item[2])'
    BY <1>2 DEF ListedHeld
  <2>1. PICK s \in Request, c \in CopyType : s = item[1] /\ c = item[2]
    BY <1>3
  <2>2. HeldOK(s, c)'
    BY <1>6, <2>1 DEF ApprovalInv, ListedHeld
  <2> QED BY <2>1, <2>2 DEF HeldOK
<1>9. HandlersHold'
  <2> SUFFICES ASSUME NEW t \in Thread
               PROVE  HandlerOK(work[t])'
    BY DEF HandlersHold
  <2>1. PICK w \in WorkType : w = work[t]
    BY <1>3
  <2>2. HandlerOK(w) /\ w.r \in Request /\ w.copy \in CopyType
    BY <2>1 DEF ApprovalInv, HandlersHold, WorkType
  <2>3. HandlerOK(w)'
    BY <1>2, <1>5, <1>6, <2>2 DEF HandlerOK
  <2> QED BY <1>2, <2>1, <2>3 DEF HandlerOK
<1>10. SoundOK' /\ LastEventOK' /\ NamedOK' /\ RefOK'
  BY <1>2, <1>4, <1>5 DEF ApprovalInv, SoundOK, LastEventOK, NamedOK, RefOK
<1>11. GrantedOK'
  <2> SUFFICES ASSUME NEW s \in Request, Open(s)', s # r
               PROVE  feed'[s] # <<>> \/ request'[s].triggerRef # Nil \/ \E t \in Thread : Serving(t, s)'
    BY <1>5 DEF GrantedOK
  <2> QED BY <1>2, <1>4, <1>5 DEF ApprovalInv, GrantedOK, Serving
<1> QED BY <1>7, <1>8, <1>9, <1>10, <1>11 DEF ApprovalInv

LEMMA ApiApproval ==
  ASSUME IInv, ApprovalInv, Api
  PROVE  ApprovalInv'
<1>0. request \in [Request -> RequestType] /\ now \in Nat
  BY DEF IInv, TypeOK
<1>1. ASSUME NEW r \in Request, NEW duration \in Durations, NEW deadline \in Deadlines,
             UpdateRequest(r, duration, deadline)
      PROVE  ApprovalInv'
  <2> DEFINE req == [request[r] EXCEPT !.duration = duration, !.deadline = deadline]
  <2>1. /\ Live(r) /\ Write(r, req) /\ request[r].status = "PENDING"
        /\ UNCHANGED <<now, trigger, listed, work>>
    BY <1>1 DEF UpdateRequest, triggers
  <2>2. Follows(request[r], req)
    BY <1>0 DEF Follows, SamePhase, RequestType, ApprovalInv, SoundOK, Sound, Waiting
  <2>3. Settles(request[r], req)
    BY <1>0, <2>1 DEF Settles, RequestType
  <2>9. UNCHANGED <<now, trigger, listed>>
        /\ \A t \in Thread : work'[t] = work[t] \/ (work'[t].pc = "idle" /\ work[t].r = r)
    BY <2>1
  <2> HIDE DEF req
  <2> QED BY <2>1, <2>2, <2>3, <2>9, SettledWrite
<1>2. ASSUME NEW r \in Request, CancelRequest(r) \/ RevokeRequest(r)
      PROVE  ApprovalInv'
  <2>1. PICK status \in Final :
          /\ Live(r) /\ request[r].status \in {"PENDING", "APPROVED"}
          /\ Write(r, SetState(request[r], status, now))
          /\ UNCHANGED <<now, trigger, listed, work>>
    BY <1>2 DEF CancelRequest, RevokeRequest, Final, triggers
  <2> DEFINE req == SetState(request[r], status, now)
  <2>2. Follows(request[r], req) /\ Settles(request[r], req)
    BY <1>0, <2>1, EndFollows, SetStateSettles DEF ApprovalInv, SoundOK
  <2>3. req # request[r]
    BY <1>0, <2>1 DEF SetState, RequestType, Final
  <2>9. UNCHANGED <<now, trigger, listed>>
        /\ \A t \in Thread : work'[t] = work[t] \/ (work'[t].pc = "idle" /\ work[t].r = r)
    BY <2>1
  <2>8. Live(r) /\ Write(r, req)
    BY <2>1
  <2> HIDE DEF req
  <2> QED BY <2>2, <2>3, <2>8, <2>9, SettledWrite
<1>3. ASSUME NEW r \in Request, Review(r)
      PROVE  ApprovalInv'
  <2>1. /\ Live(r) /\ request[r].status = "PENDING" /\ request[r].rule.effect = "REVIEW"
        /\ UNCHANGED <<now, trigger, listed, work>>
        /\ \/ Write(r, GotoNextStepOr("APPROVED", request[r], now))
           \/ Write(r, SetState(request[r], "REJECTED", now))
    BY <1>3 DEF Review, triggers
  <2>2. request[r].rule # NoRule /\ Sound(request[r]) /\ Waiting(request[r])
    BY <2>1 DEF NoRule, ApprovalInv, SoundOK, Sound
  <2>3. /\ Follows(request[r], GotoNextStepOr("APPROVED", request[r], now))
        /\ Follows(request[r], SetState(request[r], "REJECTED", now))
    BY <1>0, <2>1, <2>2, GotoNextFollows, EndFollows DEF Final
  <2>4. /\ Settles(request[r], GotoNextStepOr("APPROVED", request[r], now))
        /\ Settles(request[r], SetState(request[r], "REJECTED", now))
    BY <1>0, <2>1, <2>2, GotoNextSettles, SetStateSettles DEF Status, Final
  <2>9. UNCHANGED <<now, trigger, listed>>
        /\ \A t \in Thread : work'[t] = work[t] \/ (work'[t].pc = "idle" /\ work[t].r = r)
    BY <2>1
  <2> QED BY <2>1, <2>3, <2>4, <2>9, SettledWrite
<1>4. ASSUME NEW p \in Priorities, UpdateClusterConfig(p)
      PROVE  ApprovalInv'
  BY <1>4 DEF UpdateClusterConfig, store, triggers, ApprovalInv, SoundOK, FeedHeld, ListedHeld,
              HandlersHold, LastEventOK, NamedOK, RefOK, GrantedOK, HeldOK, HandlerOK, Serving,
              Open, Live
<1> QED BY <1>1, <1>2, <1>3, <1>4, CreateApproval, DeleteApproval DEF Api
\* What is left when the first event is taken.
LEMMA TailOfFeed ==
  ASSUME NEW seq \in Seq(CopyType), seq # <<>>
  PROVE  /\ Len(Tail(seq)) = Len(seq) - 1
         /\ \A i \in 1 .. Len(Tail(seq)) : i + 1 \in 1 .. Len(seq) /\ Tail(seq)[i] = seq[i + 1]
         /\ Tail(seq) = <<>> => Len(seq) = 1
         /\ Tail(seq) # <<>> => Len(Tail(seq)) > 0 /\ Tail(seq)[Len(Tail(seq))] = seq[Len(seq)]
<1>0. Len(seq) \in Nat \ {0}
  BY EmptySeq
<1>1. /\ Tail(seq) \in Seq(CopyType) /\ Len(Tail(seq)) = Len(seq) - 1
      /\ \A i \in 1 .. Len(Tail(seq)) : Tail(seq)[i] = seq[i + 1]
  BY HeadTailProperties
<1> DEFINE rest == Tail(seq)
<1> HIDE DEF rest
<1>2. \A i \in 1 .. Len(rest) : i + 1 \in 1 .. Len(seq)
  BY <1>0, <1>1 DEF rest
<1>3. rest = <<>> => Len(seq) = 1
  BY <1>0, <1>1 DEF rest
<1>4. rest # <<>> => Len(rest) > 0 /\ Len(rest) \in 1 .. Len(rest) /\ Len(rest) + 1 = Len(seq)
  <2>1. rest # <<>> => Len(rest) \in Nat \ {0}
    BY <1>1, EmptySeq DEF rest
  <2> QED BY <1>0, <1>1, <2>1 DEF rest
<1> QED BY <1>1, <1>2, <1>3, <1>4 DEF rest

\* The watches: an event, or a listed Request, passes to its handler.
LEMMA TakeApproval ==
  ASSUME IInv, ApprovalInv, Take
  PROVE  ApprovalInv'
<1>0. /\ work \in [Thread -> WorkType] /\ feed \in [Request -> Seq(CopyType)]
      /\ listed \subseteq Request \X CopyType /\ version \in [Request -> Nat]
      /\ request \in [Request -> RequestType]
      /\ "request" \in Thread /\ "config" \in Thread
  BY DEF IInv, TypeOK, Thread
<1>1. CASE ListApproved
  <2>1. UNCHANGED <<now, store, trigger, work>>
    BY <1>1 DEF ListApproved, triggers
  <2>2. ListedHeld'
    <3> SUFFICES ASSUME NEW item \in listed'
                 PROVE  HeldOK(item[1], item[2])'
      BY DEF ListedHeld
    <3>1. PICK r \in Request : /\ item = <<r, Copy("PUT", version[r], request[r])>>
                               /\ Live(r)
      BY <1>1 DEF ListApproved
    <3>2. HeldOK(r, Copy("PUT", version[r], request[r]))'
      <4>1. version[r] \in Nat /\ request[r].status \in Status
        BY <1>0 DEF RequestType
      <4> QED BY <2>1, <3>1, <4>1 DEF HeldOK, Copy, Live, store, Final
    <3> QED BY <2>1, <3>1, <3>2 DEF HeldOK, store
  <2> QED BY <2>1, <2>2 DEF store, ApprovalInv, SoundOK, FeedHeld, HandlersHold, LastEventOK, NamedOK,
             RefOK, GrantedOK, HeldOK, HandlerOK, Serving, Open, Live
<1>2. CASE TakeListed
  <2>1. PICK item \in listed : Reconcile("config", item[1], item[2]) /\ listed' = listed \ {item}
    BY <1>2 DEF TakeListed
  <2>2. work["config"].pc = "idle" /\ UNCHANGED <<store, now, trigger>>
    BY <1>2 DEF TakeListed, triggers
  <2>3. PICK r \in Request, copy \in CopyType : r = item[1] /\ copy = item[2]
    BY <1>0
  <2>4. /\ work'["config"].pc = "reconcile" /\ work'["config"].r = r /\ work'["config"].copy = copy
        /\ \A u \in Thread : u # "config" => work'[u] = work[u]
    BY <1>0, <2>1, <2>3 DEF Reconcile
  <2>5. HeldOK(r, copy)'
    BY <2>1, <2>2, <2>3 DEF ApprovalInv, ListedHeld, HeldOK, store
  <2>6. HandlerOK(work["config"])'
    BY <2>4, <2>5 DEF HandlerOK, HeldOK
  <2>7. \A s \in Request : ~Serving("config", s)
    BY <2>2 DEF Serving
  <2> QED BY <1>0, <2>1, <2>2, <2>4, <2>6, <2>7, QuietApproval
<1>3. ASSUME NEW r \in Request, TakeEvent(r)
      PROVE  ApprovalInv'
  <2>1. /\ work["request"].pc = "idle" /\ feed[r] # <<>>
        /\ feed' = [feed EXCEPT ![r] = Tail(@)]
        /\ Reconcile("request", r, Head(feed[r]))
        /\ UNCHANGED <<now, stored, request, version, trigger, listed>>
    BY <1>3 DEF TakeEvent, triggers
  <2>2. /\ feed'[r] = Tail(feed[r]) /\ feed[r] \in Seq(CopyType) /\ Head(feed[r]) = feed[r][1]
        /\ Len(feed[r]) \in Nat \ {0} /\ Head(feed[r]) \in CopyType
        /\ \A s \in Request : s # r => feed'[s] = feed[s]
    BY <1>0, <2>1
  <2>3. PICK copy \in CopyType : copy = Head(feed[r])
    BY <2>2
  <2>4. /\ work'["request"].pc = "reconcile" /\ work'["request"].r = r /\ work'["request"].copy = copy
        /\ \A u \in Thread : u # "request" => work'[u] = work[u]
    BY <1>0, <2>1, <2>3 DEF Reconcile
  <2>5. HeldOK(r, copy)
    BY <2>2, <2>3 DEF ApprovalInv, FeedHeld
  <2>6. \A s \in Request, c \in CopyType : HeldOK(s, c) => HeldOK(s, c)'
    BY <2>1 DEF HeldOK
  <2>7. FeedHeld'
    <3> SUFFICES ASSUME NEW s \in Request, NEW i \in 1 .. Len(feed'[s])
                 PROVE  HeldOK(s, feed[s][i])'
      BY DEF FeedHeld
    <3>1. PICK j \in 1 .. Len(feed[s]) : feed'[s][i] = feed[s][j]
      <4>1. CASE s = r
        <5>1. i + 1 \in 1 .. Len(feed[r]) /\ feed'[r][i] = feed[r][i + 1]
          BY <2>1, <2>2, <4>1, TailOfFeed
        <5> QED BY <4>1, <5>1
      <4>2. CASE s # r
        BY <2>2, <4>2
      <4> QED BY <4>1, <4>2
    <3>2. feed[s] \in Seq(CopyType)
      BY <1>0
    <3>3. PICK c \in CopyType : c = feed[s][j]
      BY <3>2
    <3>4. HeldOK(s, c)'
      BY <2>6, <3>3 DEF ApprovalInv, FeedHeld
    <3> QED BY <3>1, <3>3, <3>4 DEF HeldOK
  <2>8. ListedHeld' /\ SoundOK' /\ NamedOK' /\ RefOK'
    BY <2>1 DEF ApprovalInv, ListedHeld, SoundOK, NamedOK, RefOK, HeldOK, Open, Live
  <2>9. HandlersHold'
    <3> SUFFICES ASSUME NEW t \in Thread
                 PROVE  HandlerOK(work[t])'
      BY DEF HandlersHold
    <3>1. CASE t = "request"
      <4>1. HeldOK(r, copy)'
        BY <2>5, <2>6
      <4> QED BY <2>4, <3>1, <4>1 DEF HandlerOK, HeldOK
    <3>2. CASE t # "request"
      BY <2>1, <2>4, <3>2 DEF ApprovalInv, HandlersHold, HandlerOK, HeldOK, Open, Live
    <3> QED BY <3>1, <3>2
  <2>10. LastEventOK'
    <3> SUFFICES ASSUME NEW s \in Request, Live(s)', feed'[s] # <<>>
                 PROVE  feed'[s][Len(feed'[s])].rv = version'[s]
      BY DEF LastEventOK
    <3>1. Live(s) /\ version' = version
      BY <2>1 DEF Live
    <3>2. CASE s = r
      <4>1. feed[r][Len(feed[r])].rv = version[r]
        BY <2>1, <3>1, <3>2 DEF ApprovalInv, LastEventOK
      <4>2. feed'[r][Len(feed'[r])] = feed[r][Len(feed[r])]
        BY <2>1, <2>2, <3>2, TailOfFeed
      <4> QED BY <3>1, <3>2, <4>1, <4>2
    <3>3. CASE s # r
      BY <2>2, <3>1, <3>3 DEF ApprovalInv, LastEventOK
    <3> QED BY <3>2, <3>3
  <2>11. GrantedOK'
    <3> SUFFICES ASSUME NEW s \in Request, Open(s)'
                 PROVE  feed'[s] # <<>> \/ request'[s].triggerRef # Nil \/ \E t \in Thread : Serving(t, s)'
      BY DEF GrantedOK
    <3>1. Open(s) /\ Live(s) /\ UNCHANGED <<request, version, trigger>>
      BY <2>1 DEF Open, Live
    <3>2. CASE s = r
      <4>1. CASE feed'[r] = <<>>
        <5>1. Len(feed[r]) = 1
          BY <2>1, <2>2, <4>1, TailOfFeed
        <5>2. copy.rv = version[r]
          BY <2>1, <2>2, <2>3, <3>1, <3>2, <5>1 DEF ApprovalInv, LastEventOK
        <5>3. Serving("request", s)'
          BY <2>4, <3>1, <3>2, <5>2 DEF Serving
        <5> QED BY <1>0, <5>3
      <4>2. CASE feed'[r] # <<>>
        BY <3>2, <4>2
      <4> QED BY <4>1, <4>2
    <3>3. CASE s # r
      <4>1. ASSUME NEW t \in Thread, Serving(t, s)
            PROVE  Serving(t, s)'
        <5>1. t # "request"
          BY <2>1, <4>1 DEF Serving
        <5> QED BY <2>4, <3>1, <4>1, <5>1 DEF Serving
      <4> QED BY <2>2, <3>1, <3>3, <4>1 DEF ApprovalInv, GrantedOK
    <3> QED BY <3>2, <3>3
  <2> QED BY <2>7, <2>8, <2>9, <2>10, <2>11 DEF ApprovalInv
<1> QED BY <1>1, <1>2, <1>3 DEF Take
\* The end of a handler that served nothing, or served what has the reference.
LEMMA DoneApproval ==
  ASSUME IInv, ApprovalInv, NEW t \in Thread, Done(t), UNCHANGED <<store, now, trigger, listed>>,
         \A r \in Request : Open(r) /\ Serving(t, r) => request[r].triggerRef # Nil
  PROVE  ApprovalInv'
<1>1. work'[t].pc = "idle" /\ \A u \in Thread : u # t => work'[u] = work[u]
  BY IdleType DEF Done, IInv, TypeOK
<1>2. HandlerOK(work[t])'
  BY <1>1 DEF HandlerOK
<1> QED BY <1>1, <1>2, QuietApproval

\* A compare-and-swap by a handler, which then ends: if its copy is the last
\* version the write succeeds, otherwise the handler served nothing.
LEMMA SwapApproval ==
  ASSUME IInv, ApprovalInv, NEW t \in Thread, work[t].pc # "idle", work[t].pc # "put", NEW req,
         CompareAndSwap(work[t].r, work[t].copy.rv, req), Done(t), UNCHANGED <<now, trigger, listed>>,
         Live(work[t].r) /\ work[t].copy.req = request[work[t].r] =>
           req \in RequestType /\ Successor(work[t].r, req)
  PROVE  ApprovalInv'
<1>1. PICK r \in Request, copy \in CopyType : r = work[t].r /\ copy = work[t].copy
  BY DEF IInv, TypeOK, WorkType
<1>2. CopyOK(r, copy) /\ work \in [Thread -> WorkType]
  BY <1>1 DEF IInv, TypeOK, WorkOK
<1>3. CASE Live(r) /\ version[r] = copy.rv
  <2>1. copy.req = request[r] /\ Write(r, req)
    BY <1>1, <1>2, <1>3 DEF CopyOK, CompareAndSwap
  <2>2. req \in RequestType /\ Successor(r, req)
    BY <1>1, <1>3, <2>1
  <2>3. \A u \in Thread : work'[u] = work[u] \/ (work'[u].pc = "idle" /\ work[u].r = r)
    BY <1>1, <1>2, IdleType DEF Done
  <2> QED BY <1>3, <2>1, <2>2, <2>3, WriteApproval
<1>4. CASE ~(Live(r) /\ version[r] = copy.rv)
  <2>1. UNCHANGED store
    BY <1>1, <1>4 DEF CompareAndSwap
  <2>2. \A s \in Request : Open(s) => ~Serving(t, s)
    BY <1>1, <1>4 DEF Open, Serving
  <2> QED BY <2>1, <2>2, DoneApproval
<1> QED BY <1>3, <1>4

\* A handler that has a PolicyTrigger to drop works on a Request that is over.
LEMMA DropsEnded ==
  ASSUME IInv, ApprovalInv, NEW t \in Thread, DropTrigger(t)
  PROVE  ~Open(work[t].r)
<1>1. HeldOK(work[t].r, work[t].copy)
  BY DEF DropTrigger, ApprovalInv, HandlersHold, HandlerOK
<1> QED BY <1>1 DEF DropTrigger, HeldOK, Open, Live, Final

LEMMA HandlersApproval ==
  ASSUME IInv, ApprovalInv, NEW t \in Thread, Step(t)
  PROVE  ApprovalInv'
<1> USE DEF ApprovalInv
<1>0. PICK r \in Request, copy \in CopyType : r = work[t].r /\ copy = work[t].copy
  BY DEF IInv, TypeOK, WorkType
<1>1. /\ work \in [Thread -> WorkType] /\ work[t] \in WorkType
      /\ trigger \in [Request -> TriggerType] /\ created \in [Request -> Nat]
      /\ copy.req \in RequestType /\ now \in Nat /\ Sound(request[r]) /\ Named(trigger[r])
      /\ HandlerOK(work[t])
  BY <1>0 DEF IInv, TypeOK, CopyType, SoundOK, NamedOK, HandlersHold
<1>2. work[t].pc # "idle" => CopyOK(r, copy)
  BY <1>0 DEF IInv, WorkOK
<1>3. ASSUME NEW s \in Request, Serving(t, s), Open(s)
      PROVE  s = r /\ copy.req = request[r] /\ Live(r) /\ copy.rv = version[r]
             /\ request[r].status = "APPROVED"
  BY <1>0, <1>2, <1>3 DEF Serving, CopyOK, Open
<1>4. CASE Advance(t)
  <2>1. PICK rule \in AnyRule :
          /\ rule \in IF NeedsRule(copy.req) THEN Rules \union {NoRule} ELSE {NoRule}
          /\ Reconciled(copy.req, rule, now) # copy.req
          /\ IF rule.effect = "REVIEW" /\ ~ValidReview(rule) THEN UNCHANGED store
             ELSE CompareAndSwap(r, copy.rv, Reconciled(copy.req, rule, now))
    BY <1>0, <1>4 DEF Advance, AnyRule
  <2>2. work[t].pc = "reconcile" /\ Done(t) /\ UNCHANGED <<now, trigger, listed>>
    BY <1>4 DEF Advance, triggers
  <2>3. CASE rule.effect = "REVIEW" /\ ~ValidReview(rule)
    <3>1. UNCHANGED store
      BY <2>1, <2>3
    <3>2. copy.req.status = "PENDING"
      BY <2>1, <2>3 DEF NeedsRule, NoRule
    <3>3. \A s \in Request : Open(s) => ~Serving(t, s)
      BY <1>3, <3>2
    <3> QED BY <2>2, <3>1, <3>3, DoneApproval
  <2>4. CASE ~(rule.effect = "REVIEW" /\ ~ValidReview(rule))
    <3> DEFINE req == Reconciled(copy.req, rule, now)
    <3>1. CompareAndSwap(r, copy.rv, req) /\ req # copy.req
      BY <2>1, <2>4
    <3>2. Sound(copy.req) => Follows(copy.req, req) /\ Settles(copy.req, req)
      BY <1>1, ReconciledFollows, ReconciledSettles DEF Sound
    <3> HIDE DEF req
    <3>3. Live(r) /\ copy.req = request[r] => req \in RequestType /\ Successor(r, req)
      BY <1>1, <3>1, <3>2, SettledSuccessor
    <3> QED BY <1>0, <2>2, <3>1, <3>3, SwapApproval
  <2> QED BY <2>3, <2>4
<1>5. CASE UpdateRef(t)
  <2> DEFINE req == [copy.req EXCEPT !.triggerRef = work[t].seen.uid]
  <2>1. /\ work[t].pc = "ref" /\ Done(t) /\ UNCHANGED <<now, trigger, listed>>
        /\ IF copy.req.triggerRef = work[t].seen.uid THEN UNCHANGED store
           ELSE CompareAndSwap(r, copy.rv, req)
    BY <1>0, <1>5 DEF UpdateRef, triggers
  <2>2. \/ copy.req.status \in Final
        \/ copy.req.status = "APPROVED" /\ copy.req.accessEndsAt # Nil /\ work[t].seen.uid # 0
    BY <1>0, <1>1, <2>1 DEF HandlerOK
  <2>3. CASE copy.req.triggerRef = work[t].seen.uid
    <3>1. UNCHANGED store
      BY <2>1, <2>3
    <3>2. \A s \in Request : Open(s) /\ Serving(t, s) => request[s].triggerRef # Nil
      BY <1>3, <2>2, <2>3 DEF Nil, Final
    <3> QED BY <2>1, <3>1, <3>2, DoneApproval
  <2>4. CASE copy.req.triggerRef # work[t].seen.uid
    <3>1. CompareAndSwap(r, copy.rv, req)
      BY <2>1, <2>4
    <3>2. /\ req \in RequestType /\ req.status = copy.req.status /\ req.endAt = copy.req.endAt
          /\ req.accessEndsAt = copy.req.accessEndsAt /\ req.rule = copy.req.rule
          /\ req.triggerRef = work[t].seen.uid
      BY <1>1 DEF RequestType, WorkType, TriggerType
    <3> HIDE DEF req
    <3>3. ASSUME Live(r), copy.req = request[r]
          PROVE  req \in RequestType /\ Successor(r, req)
      <4>1. Sound(req)
        BY <1>1, <2>2, <3>2, <3>3 DEF Sound, Waiting, Final
      <4>2. ASSUME req.status = "APPROVED", ~WindowPassed(req, now)
            PROVE  trigger[r].uid = req.triggerRef
        <5>1. Open(r) /\ work[t].seen.uid # 0
          BY <2>2, <3>2, <3>3, <4>2 DEF Open, WindowPassed, Final
        <5> QED BY <1>0, <1>1, <2>1, <3>2, <5>1 DEF HandlerOK
      <4> QED BY <2>2, <3>2, <3>3, <4>1, <4>2 DEF Successor, Final, Nil
    <3> QED BY <1>0, <2>1, <3>1, <3>3, SwapApproval
  <2> QED BY <2>3, <2>4
<1>6. CASE Skip(t)
  <2>1. Done(t) /\ UNCHANGED <<store, now, trigger, listed>>
    BY <1>6 DEF Skip, triggers
  <2>2. copy.req.status = "PENDING" \/ (copy.req.status = "APPROVED" /\ copy.req.rule = NoRule)
    BY <1>0, <1>6 DEF Skip
  <2>3. \A s \in Request : Open(s) => ~Serving(t, s)
    BY <1>1, <1>3, <2>2 DEF Sound
  <2> QED BY <2>1, <2>3, DoneApproval
<1>7. CASE BuildTrigger(t)
  <2>1. /\ UNCHANGED <<store, now, trigger, listed>> /\ work[t].pc = "reconcile"
        /\ copy.req.status = "APPROVED"
        /\ work' = [work EXCEPT ![t].pc = "get", ![t].priority = AllowPriority(priority)]
    BY <1>0, <1>7 DEF BuildTrigger, triggers
  <2>2. /\ work'[t].pc = "get" /\ work'[t].r = r /\ work'[t].copy = copy
        /\ \A u \in Thread : u # t => work'[u] = work[u]
    BY <1>0, <1>1, <2>1 DEF WorkType
  <2>3. HandlerOK(work[t])'
    BY <1>0, <1>1, <2>1, <2>2 DEF HandlerOK, HeldOK, store
  <2>4. \A s \in Request : Serving(t, s) => Serving(t, s)'
    BY <1>0, <2>1, <2>2 DEF Serving, store
  <2> QED BY <2>1, <2>2, <2>3, <2>4, QuietApproval
<1>8. CASE GetTrigger(t)
  <2>1. /\ UNCHANGED <<store, now, trigger, listed>> /\ work[t].pc = "get"
        /\ work' = [work EXCEPT ![t].pc = "put", ![t].seen = trigger[r]]
    BY <1>0, <1>8 DEF GetTrigger, triggers
  <2>2. /\ work'[t].pc = "put" /\ work'[t].r = r /\ work'[t].copy = copy
        /\ work'[t].seen = trigger[r] /\ \A u \in Thread : u # t => work'[u] = work[u]
    BY <1>0, <1>1, <2>1 DEF WorkType
  <2>3. HandlerOK(work[t])'
    BY <1>0, <1>1, <2>1, <2>2 DEF HandlerOK, HeldOK, Named, store
  <2>4. \A s \in Request : Serving(t, s) => Serving(t, s)'
    BY <1>0, <2>1, <2>2 DEF Serving, store
  <2> QED BY <2>1, <2>2, <2>3, <2>4, QuietApproval
<1>9. CASE CreateTrigger(t)
  <2>1. UNCHANGED <<store, now, listed>> /\ work[t].pc = "put" /\ work[t].seen = NoTrigger
    BY <1>9 DEF CreateTrigger
  <2>2. CASE trigger[r] = NoTrigger
    <3>1. PICK new \in TriggerType :
            /\ new = [uid |-> created[r] + 1, rv |-> 1, priority |-> work[t].priority,
                      notAfter |-> work[t].copy.req.accessEndsAt]
            /\ new.uid = created[r] + 1
      <4>1. /\ created[r] + 1 \in Nat /\ work[t].priority \in -4 .. 0
            /\ work[t].copy.req.accessEndsAt \in Nat
        BY <1>0, <1>1 DEF WorkType, RequestType
      <4> DEFINE built == [uid |-> created[r] + 1, rv |-> 1, priority |-> work[t].priority,
                           notAfter |-> work[t].copy.req.accessEndsAt]
      <4>2. built \in TriggerType /\ built.uid = created[r] + 1
        BY <4>1 DEF TriggerType
      <4> QED BY <4>2
    <3>2. /\ trigger' = [trigger EXCEPT ![r] = new]
          /\ work' = [work EXCEPT ![t].pc = "exists", ![t].seen = trigger'[r]]
      BY <1>0, <1>9, <2>2, <3>1 DEF CreateTrigger
    <3>3. /\ trigger'[r] = new /\ \A s \in Request : s # r => trigger'[s] = trigger[s]
          /\ new.uid # 0
      BY <1>1, <3>1, <3>2
    <3>4. /\ work'[t].pc = "exists" /\ work'[t].r = r /\ work'[t].copy = copy /\ work'[t].seen = new
          /\ \A u \in Thread : u # t => work'[u] = work[u]
      BY <1>0, <1>1, <3>2, <3>3 DEF WorkType
    <3>5. KeepsTriggers
      BY <2>2, <3>3 DEF KeepsTriggers, NamedOK, Named, NoTrigger
    <3>6. HandlerOK(work[t])'
      <4>1. work[t].copy.req.accessEndsAt # Nil
        BY <2>1 DEF IInv, BuiltOK
      <4> QED BY <1>0, <1>1, <2>1, <3>3, <3>4, <4>1 DEF HandlerOK, HeldOK, store
    <3>7. Open(r) => request[r].triggerRef # Nil \/ Serving(t, r)'
      BY <1>0, <2>1, <3>4, ServesNow
    <3>8. GrantedOK'
      BY <1>0, <2>1, <3>3, <3>4, <3>7, OthersServed
    <3> QED BY <2>1, <3>4, <3>5, <3>6, <3>8, HandlerApproval
  <2>3. CASE trigger[r] # NoTrigger
    <3>1. Done(t) /\ UNCHANGED trigger
      BY <1>0, <1>9, <2>3 DEF CreateTrigger, triggers
    <3>2. \A s \in Request : ~Serving(t, s)
      BY <1>0, <2>1, <2>3 DEF Serving
    <3> QED BY <2>1, <3>1, <3>2, DoneApproval
  <2> QED BY <2>2, <2>3
<1>10. CASE CheckExists(t)
  <2>1. UNCHANGED <<store, now, listed>> /\ work[t].pc = "exists"
    BY <1>10 DEF CheckExists
  <2>2. CASE Live(r)
    <3>1. Do(t, "ref") /\ UNCHANGED trigger
      BY <1>0, <1>10, <2>2 DEF CheckExists, triggers
    <3>2. /\ work'[t].pc = "ref" /\ work'[t].r = r /\ work'[t].copy = copy
          /\ work'[t].seen = work[t].seen /\ \A u \in Thread : u # t => work'[u] = work[u]
      BY <1>0, <1>1, <3>1 DEF Do, WorkType
    <3>3. HandlerOK(work[t])'
      BY <1>0, <1>1, <2>1, <3>1, <3>2 DEF HandlerOK, HeldOK, store, Open, Live
    <3>4. \A s \in Request : Serving(t, s) => Serving(t, s)'
      BY <1>0, <2>1, <3>2 DEF Serving, store
    <3> QED BY <2>1, <3>1, <3>2, <3>3, <3>4, QuietApproval
  <2>3. CASE ~Live(r)
    <3>1. /\ Done(t)
          /\ trigger' = [trigger EXCEPT ![r] = IF @.uid = work[t].seen.uid THEN NoTrigger ELSE @]
      BY <1>0, <1>10, <2>3 DEF CheckExists
    <3>2. /\ \A s \in Request : s # r => trigger'[s] = trigger[s]
          /\ trigger'[r] \in {trigger[r], NoTrigger}
      BY <1>1, <3>1
    <3>3. work'[t].pc = "idle" /\ \A u \in Thread : u # t => work'[u] = work[u]
      BY <1>1, <3>1, IdleType DEF Done
    <3>4. HandlerOK(work[t])' /\ ~Open(r)
      BY <2>3, <3>3 DEF HandlerOK, Open
    <3>5. KeepsTriggers
      BY <3>2, <3>4 DEF KeepsTriggers, NamedOK, Named
    <3>6. GrantedOK'
      BY <1>0, <2>1, <3>2, <3>3, <3>4, OthersServed
    <3> QED BY <2>1, <3>3, <3>4, <3>5, <3>6, HandlerApproval
  <2> QED BY <2>2, <2>3
<1>11. CASE UpdateTrigger(t)
  <2> DEFINE desired == [work[t].seen EXCEPT !.priority = work[t].priority,
                                             !.notAfter = work[t].copy.req.accessEndsAt]
             new == [desired EXCEPT !.rv = @ + 1]
  <2>1. UNCHANGED <<store, now, listed>> /\ work[t].pc = "put" /\ work[t].seen # NoTrigger
    BY <1>11 DEF UpdateTrigger
  <2>2. /\ new.uid = work[t].seen.uid /\ work[t].seen.uid # 0
        /\ work[t].copy.req.accessEndsAt # Nil
    BY <1>1, <2>1 DEF HandlerOK, Named, WorkType, TriggerType, IInv, BuiltOK
  <2>3. \/ Do(t, "ref") /\ UNCHANGED trigger
        \/ trigger[r] # work[t].seen /\ Done(t) /\ UNCHANGED trigger
        \/ trigger[r] = work[t].seen /\ trigger' = [trigger EXCEPT ![r] = new] /\ Do(t, "ref")
    BY <1>0, <1>11 DEF UpdateTrigger
  <2> HIDE DEF desired, new
  <2>4. ASSUME Do(t, "ref")
        PROVE  /\ work'[t].pc = "ref" /\ work'[t].r = r /\ work'[t].copy = copy
               /\ work'[t].seen = work[t].seen /\ \A u \in Thread : u # t => work'[u] = work[u]
    BY <1>0, <1>1, <2>4 DEF Do, WorkType
  <2>5. CASE Do(t, "ref") /\ UNCHANGED trigger
    <3>1. HandlerOK(work[t])'
      BY <1>0, <1>1, <2>1, <2>2, <2>4, <2>5 DEF HandlerOK, HeldOK, store, Open, Live
    <3>2. \A s \in Request : Serving(t, s) => Serving(t, s)'
      BY <1>0, <2>1, <2>4, <2>5 DEF Serving, store
    <3> QED BY <2>1, <2>4, <2>5, <3>1, <3>2, QuietApproval
  <2>6. CASE trigger[r] # work[t].seen /\ Done(t) /\ UNCHANGED trigger
    <3>1. \A s \in Request : ~Serving(t, s)
      BY <1>0, <2>1, <2>6 DEF Serving
    <3> QED BY <2>1, <2>6, <3>1, DoneApproval
  <2>7. CASE trigger[r] = work[t].seen /\ trigger' = [trigger EXCEPT ![r] = new] /\ Do(t, "ref")
    <3>1. /\ \A s \in Request : s # r => trigger'[s] = trigger[s]
          /\ trigger'[r].uid = trigger[r].uid /\ trigger'[r].uid # 0
      BY <1>1, <2>2, <2>7
    <3>2. KeepsTriggers
      BY <3>1 DEF KeepsTriggers, NamedOK, Named
    <3>3. HandlerOK(work[t])'
      BY <1>0, <1>1, <2>1, <2>2, <2>4, <2>7, <3>1 DEF HandlerOK, HeldOK, store, Open, Live
    <3>4. Open(r) => request[r].triggerRef # Nil \/ Serving(t, r)'
      BY <1>0, <2>1, <2>4, <2>7, ServesNow
    <3>5. GrantedOK'
      BY <1>0, <2>1, <2>4, <2>7, <3>1, <3>4, OthersServed
    <3> QED BY <2>1, <2>4, <2>7, <3>2, <3>3, <3>5, HandlerApproval
  <2> QED BY <2>3, <2>5, <2>6, <2>7
<1>12. CASE DropTrigger(t)
  <2>1. /\ UNCHANGED <<store, now, listed>> /\ trigger' = [trigger EXCEPT ![r] = NoTrigger]
        /\ work[t].pc = "reconcile" /\ ~Open(r)
    BY <1>0, <1>12, DropsEnded DEF DropTrigger
  <2>2. trigger'[r] = NoTrigger /\ \A s \in Request : s # r => trigger'[s] = trigger[s]
    BY <1>1, <2>1
  <2>3. /\ \A u \in Thread : u # t => work'[u] = work[u]
        /\ \/ work'[t].pc = "idle"
           \/ /\ work'[t].pc = "ref" /\ work'[t].seen = NoTrigger /\ work'[t].r = r
              /\ work'[t].copy = copy /\ copy.req.status \in Final
    BY <1>0, <1>1, <1>12, IdleType DEF DropTrigger, Done, WorkType
  <2>4. HandlerOK(work[t])'
    BY <1>0, <1>1, <2>1, <2>3 DEF HandlerOK, HeldOK, store, NoTrigger
  <2>5. KeepsTriggers
    BY <2>1, <2>2 DEF KeepsTriggers, NamedOK, Named
  <2>6. GrantedOK'
    BY <1>0, <2>1, <2>2, <2>3, OthersServed
  <2> QED BY <2>1, <2>3, <2>4, <2>5, <2>6, HandlerApproval
<1> QED BY <1>4, <1>5, <1>6, <1>7, <1>8, <1>9, <1>10, <1>11, <1>12 DEF Step
\* The watcher drops a PolicyTrigger only when its window has passed or its
\* Request is over.
LEMMA SweepApproval ==
  ASSUME IInv, ApprovalInv, Sweep
  PROVE  ApprovalInv'
<1>0. /\ request \in [Request -> RequestType] /\ now \in Nat /\ trigger \in [Request -> TriggerType]
      /\ "request" \in Thread
  BY DEF IInv, TypeOK, Thread
<1>1. ASSUME NEW r \in Request, SweepRequest(r)
      PROVE  ApprovalInv'
  <2> DEFINE req == Checked(request[r], now)
  <2>1. /\ Live(r) /\ req # request[r] /\ Write(r, req) /\ UNCHANGED <<now, trigger, listed>>
        /\ \A t \in Thread : work'[t] = work[t] \/ (work'[t].pc = "idle" /\ work[t].r = r)
    BY <1>1 DEF SweepRequest, triggers
  <2>2. Follows(request[r], req) /\ Settles(request[r], req)
    BY <1>0, CheckedFollows, CheckedSettles DEF ApprovalInv, SoundOK, Sound
  <2> HIDE DEF req
  <2> QED BY <2>1, <2>2, SettledWrite
<1>2. ASSUME NEW r \in Request, SweepTrigger(r)
      PROVE  ApprovalInv'
  <2>1. /\ trigger[r] # NoTrigger /\ Orphan(r) /\ UNCHANGED <<store, now, listed, work>>
        /\ trigger' = [trigger EXCEPT ![r] = NoTrigger]
    BY <1>2 DEF SweepTrigger
  <2>2. ~Open(r)
    BY <2>1 DEF Orphan, Open, Live, WindowPassed, IInv, TriggerWithinWindow, Final
  <2>3. trigger'[r] = NoTrigger /\ \A s \in Request : s # r => trigger'[s] = trigger[s]
    BY <1>0, <2>1
  <2>4. KeepsTriggers
    BY <2>2, <2>3 DEF KeepsTriggers, ApprovalInv, NamedOK, Named
  <2>5. ASSUME NEW t \in Thread
        PROVE  HandlerOK(work[t])'
    <3>1. HandlerOK(work[t]) /\ work[t].r \in Request
      BY DEF ApprovalInv, HandlersHold, IInv, TypeOK, WorkType
    <3>2. Open(work[t].r)' => Open(work[t].r)
      BY <2>1 DEF Open, Live, store
    <3> QED BY <2>1, <2>4, <3>1, <3>2 DEF HandlerOK, HeldOK, store, KeepsTriggers
  <2>6. GrantedOK'
    <3> SUFFICES ASSUME NEW s \in Request, Open(s)'
                 PROVE  feed'[s] # <<>> \/ request'[s].triggerRef # Nil \/ \E t \in Thread : Serving(t, s)'
      BY DEF GrantedOK
    <3>1. Open(s) /\ s # r /\ feed' = feed /\ request' = request /\ version' = version
      BY <2>1, <2>2 DEF Open, Live, store
    <3>2. \A t \in Thread : Serving(t, s) => Serving(t, s)'
      BY <2>1, <2>3, <3>1 DEF Serving
    <3> QED BY <3>1, <3>2 DEF ApprovalInv, GrantedOK
  <2> QED BY <1>0, <2>1, <2>4, <2>5, <2>6, HandlerApproval
<1> QED BY <1>1, <1>2 DEF Sweep

\* As time passes windows only close.
LEMMA TickApproval ==
  ASSUME IInv, ApprovalInv, Tick \/ UNCHANGED vars
  PROVE  ApprovalInv'
<1>1. /\ UNCHANGED <<stored, request, version, feed, trigger, listed, work>>
      /\ now \in Nat /\ now' \in Nat /\ now' >= now /\ request \in [Request -> RequestType]
      /\ \A t \in Thread : work[t].r \in Request
  BY DEF Tick, vars, store, triggers, IInv, TypeOK, WorkType
<1>2. \A r \in Request : request[r].accessEndsAt \in Nat
  BY <1>1 DEF RequestType
<1>3. ASSUME NEW r \in Request, Open(r)'
      PROVE  Open(r)
  BY <1>1, <1>2, <1>3 DEF Open, Live, WindowPassed
<1>4. SoundOK' /\ FeedHeld' /\ ListedHeld' /\ LastEventOK' /\ NamedOK'
  BY <1>1 DEF ApprovalInv, SoundOK, FeedHeld, ListedHeld, LastEventOK, NamedOK, HeldOK, Live
<1>5. RefOK' /\ GrantedOK'
  BY <1>1, <1>3 DEF ApprovalInv, RefOK, GrantedOK, Serving
<1>6. HandlersHold'
  BY <1>1, <1>3 DEF ApprovalInv, HandlersHold, HandlerOK, HeldOK
<1> QED BY <1>4, <1>5, <1>6 DEF ApprovalInv

LEMMA NextApproval ==
  ASSUME IInv, ApprovalInv, Failing = FALSE, MaxCrashes = 0, [Next]_vars
  PROVE  ApprovalInv'
<1>1. ~Crash /\ ~\E t \in Thread : Fail(t)
  BY DEF Crash, Fail, IInv, TypeOK
<1> QED BY <1>1, ApiApproval, TakeApproval, SweepApproval, TickApproval, HandlersApproval DEF Next

LEMMA InitApproval == Init => ApprovalInv
<1> SUFFICES ASSUME Init PROVE ApprovalInv
  OBVIOUS
<1>1. \A r \in Request : /\ request[r] = NewRequest(Nil, Nil) /\ ~Open(r) /\ ~Live(r)
                         /\ feed[r] = <<>> /\ trigger[r] = NoTrigger
  BY DEF Init, Open, Live
<1>2. SoundOK
  BY <1>1 DEF SoundOK, Sound, Waiting, NewRequest
<1>3. HandlersHold
  BY IdleType DEF Init, HandlersHold, HandlerOK
<1>4. listed = {}
  BY DEF Init
<1> QED BY <1>1, <1>2, <1>3, <1>4 DEF ApprovalInv, FeedHeld, ListedHeld, LastEventOK, NamedOK, Named,
           RefOK, GrantedOK

\* An approved Request whose window is open has its PolicyTrigger, and names
\* it, once no handler is at work on it, provided that no handler fails or is
\* cut off by a restart.
THEOREM ApprovalCorrect ==
  ASSUME Failing = FALSE, MaxCrashes = 0
  PROVE  Spec => []ApprovedIsGranted
<1>1. IInv /\ ApprovalInv /\ [Next]_vars => ApprovalInv'
  BY NextApproval
<1>2. ApprovalInv => ApprovedIsGranted
  <2> SUFFICES ASSUME ApprovalInv, NEW r \in Request, Open(r), ~Busy(r)
               PROVE  trigger[r] # NoTrigger /\ request[r].triggerRef = trigger[r].uid
    BY DEF ApprovedIsGranted, Open
  <2>1. feed[r] = <<>> /\ \A t \in Thread : ~Serving(t, r)
    BY DEF Busy, Serving
  <2>2. request[r].triggerRef # Nil
    BY <2>1 DEF ApprovalInv, GrantedOK
  <2>3. trigger[r].uid = request[r].triggerRef
    BY <2>2 DEF ApprovalInv, RefOK
  <2> QED BY <2>2, <2>3 DEF NoTrigger, Nil
<1> QED BY <1>1, <1>2, InitIInv, NextIInv, InitApproval, PTL DEF Spec
=============================================================================
