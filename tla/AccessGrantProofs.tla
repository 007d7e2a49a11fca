------------------------- MODULE AccessGrantProofs -------------------------
(***************************************************************************)
(* Proofs about AccessGrant, for any number of Requests, any Rules, any    *)
(* bounds, with failures and restarts: its variables keep their types, a   *)
(* PolicyTrigger never gives access beyond the window of its Request, and  *)
(* AccessGrant implements AccessLifecycle: a Request is decided once and   *)
(* closed for good, its window is fixed once, and access is granted for    *)
(* that window only.                                                       *)
(*                                                                         *)
(* TriggerWithinWindow is not inductive: the window a handler writes into  *)
(* a PolicyTrigger is that of its copy.  The inductive invariant says how  *)
(* copies relate to what is stored: a copy is never newer, it is the       *)
(* stored version when its resource version is, and a window it has is the *)
(* window the stored version has.                                          *)
(*                                                                         *)
(* For the refinement, a step of AccessGrant either moves one Request      *)
(* (Moved), or changes the PolicyTrigger of one (Granted), or does neither *)
(* (Quiet).  What a move may do is stated on the Request alone (Follows):  *)
(* the stored version and its successor, for every function of             *)
(* AccessRequest that computes one.                                        *)
(***************************************************************************)
EXTENDS AccessGrant, TLAPS

CopyOK(r, copy) ==
  /\ copy.rv <= version[r]
  /\ copy.rv = version[r] => copy.req = request[r]
  /\ copy.req.accessEndsAt # Nil => copy.req.accessEndsAt = request[r].accessEndsAt

\* A Request that was not created has no version and no window.
AbsentOK ==
  \A r \in Request : stored[r] = "none" => version[r] = 0 /\ request[r].accessEndsAt = Nil

FeedOK == \A r \in Request : \A i \in 1 .. Len(feed[r]) : CopyOK(r, feed[r][i])

ListedOK == \A item \in listed : CopyOK(item[1], item[2])

WorkOK == \A t \in Thread : work[t].pc # "idle" => CopyOK(work[t].r, work[t].copy)

\* A handler builds a PolicyTrigger from a copy that has a window.
BuiltOK ==
  \A t \in Thread : work[t].pc \in {"get", "put"} => work[t].copy.req.accessEndsAt # Nil

IInv == TypeOK /\ AbsentOK /\ FeedOK /\ ListedOK /\ WorkOK /\ BuiltOK /\ TriggerWithinWindow
-----------------------------------------------------------------------------
(* The operators of AccessRequest.                                         *)

AnyRule == Rules \union {NoRule}

\* The controllers' transitions of a Request keep its type.
LEMMA RuleMax == \A rule \in AnyRule : rule.max \in Nat
BY GrantAssumption DEF AnyRule, NoRule, Nil

\* setState keeps everything but the status and the end of the wait.
LEMMA SetStateType ==
  ASSUME NEW req \in RequestType, NEW status \in Status, NEW t \in Nat
  PROVE  /\ SetState(req, status, t) \in RequestType
         /\ SetState(req, status, t).accessEndsAt = req.accessEndsAt
BY DEF SetState, RequestType, Nil

\* A granted access lasts for a positive time.
LEMMA AccessDurationType ==
  ASSUME NEW duration \in Nat, NEW rule \in AnyRule
  PROVE  AccessDuration(duration, rule) \in Nat \ {0}
BY RuleMax, DefaultMaxAccessAssumption DEF AccessDuration, Nil

LEMMA NewRequestType ==
  ASSUME NEW duration \in Durations, NEW deadline \in Deadlines
  PROVE  /\ NewRequest(duration, deadline) \in RequestType
         /\ NewRequest(duration, deadline).accessEndsAt = Nil
BY DEF NewRequest, RequestType, Nil, Status

\* initializeRequest keeps the type and gives no window.
LEMMA InitializeType ==
  ASSUME NEW req \in RequestType, NEW rule \in AnyRule, NEW t \in Nat
  PROVE  /\ InitializeRequest(req, rule, t) \in RequestType
         /\ InitializeRequest(req, rule, t).accessEndsAt = req.accessEndsAt
<1>1. CASE rule = NoRule
  <2>1. rule.effect = "NONE"
    BY <1>1 DEF NoRule
  <2>2. InitializeRequest(req, rule, t) = SetState(req, "REJECTED", t)
    BY <1>1, <2>1 DEF InitializeRequest
  <2> QED BY <2>2, SetStateType DEF Status, Final
<1>2. CASE rule # NoRule
  <2>1. rule \in Rules /\ rule.effect \in Effect
    BY <1>2, GrantAssumption DEF AnyRule
  <2>2. req.duration \in Nat
    BY GrantAssumption DEF RequestType
  <2> DEFINE ruled == [req EXCEPT !.rule = rule]
             begun == Begun(req, rule, t)
  <2>3. ruled \in RequestType /\ ruled.accessEndsAt = req.accessEndsAt
    BY <2>1 DEF RequestType
  <2>4. AccessDuration(req.duration, rule) \in Nat
    BY <2>2, AccessDurationType
  <2>5. begun \in RequestType /\ begun.accessEndsAt = req.accessEndsAt
    BY <2>1, <2>4 DEF RequestType, Begun, Nil
  <2>6. CASE rule.effect = "DENY"
    BY <1>2, <2>3, <2>6, SetStateType DEF InitializeRequest, Status, Final
  <2>7. CASE rule.effect = "REVIEW"
    <3>1. InitializeRequest(req, rule, t) = [begun EXCEPT !.stepAt = t]
      BY <1>2, <2>7 DEF InitializeRequest
    <3> QED BY <3>1, <2>5 DEF RequestType
  <2>8. CASE rule.effect = "AUTO_APPROVE"
    <3>1. InitializeRequest(req, rule, t) = SetState(begun, "APPROVED", t)
      BY <1>2, <2>8 DEF InitializeRequest
    <3> QED BY <3>1, <2>5, SetStateType DEF Status
  <2> QED BY <2>1, <2>6, <2>7, <2>8 DEF Effect
<1> QED BY <1>1, <1>2

\* ensureAccessEndsAt never moves a window, and gives one to every Request
\* that has a Rule.
LEMMA EnsureWindow ==
  ASSUME NEW req \in RequestType, NEW t \in Nat
  PROVE  LET next == EnsureAccessEndsAt(req, t)
         IN  /\ next \in RequestType
             /\ req.accessEndsAt # Nil => next = req
             /\ req.rule # NoRule => next.accessEndsAt # Nil
             /\ next.rule = req.rule
<1>1. CASE req.accessEndsAt # Nil \/ req.rule = NoRule
  BY <1>1 DEF EnsureAccessEndsAt
<1>2. CASE ~(req.accessEndsAt # Nil \/ req.rule = NoRule)
  <2>1. req.rule \in AnyRule /\ req.duration \in Nat /\ req.effective \in Nat /\ req.endAt \in Nat
    BY GrantAssumption DEF RequestType, AnyRule
  <2> DEFINE length == IF req.effective > 0 THEN req.effective
                       ELSE AccessDuration(req.duration, req.rule)
             anchor == IF req.endAt = Nil THEN t ELSE req.endAt
  <2>2. length \in Nat \ {0} /\ anchor \in Nat
    BY <2>1, AccessDurationType
  <2>3. EnsureAccessEndsAt(req, t) = [req EXCEPT !.endAt = anchor, !.accessEndsAt = anchor + length]
    BY <1>2 DEF EnsureAccessEndsAt
  <2> HIDE DEF length, anchor
  <2>4. anchor + length \in Nat \ {0}
    BY <2>2
  <2>5. [req EXCEPT !.endAt = anchor, !.accessEndsAt = anchor + length] \in RequestType
    BY <2>2, <2>4 DEF RequestType
  <2> QED BY <1>2, <2>3, <2>4, <2>5 DEF RequestType, Nil
<1> QED BY <1>1, <1>2

LEMMA ExpireType ==
  ASSUME NEW req \in RequestType, NEW t \in Nat
  PROVE  /\ ExpireIfNeeded(req, t) \in RequestType
         /\ ExpireIfNeeded(req, t).accessEndsAt = req.accessEndsAt
BY SetStateType DEF ExpireIfNeeded, Status, Final

\* What doReconcile makes of a Request: a window that is there stays, and a
\* Request that it leaves APPROVED under a Rule has one.
LEMMA ReconciledWindow ==
  ASSUME NEW req \in RequestType, NEW rule \in AnyRule, NEW t \in Nat
  PROVE  LET next == Reconciled(req, rule, t)
         IN  /\ next \in RequestType
             /\ req.accessEndsAt # Nil => next.accessEndsAt = req.accessEndsAt
             /\ next = req /\ ~NeedsRule(req) /\ req.status = "APPROVED" /\ req.rule # NoRule
                  => req.accessEndsAt # Nil
<1> DEFINE init == IF NeedsRule(req) THEN InitializeRequest(req, rule, t) ELSE req
           ensured == EnsureAccessEndsAt(init, t)
<1>1. init \in RequestType /\ init.accessEndsAt = req.accessEndsAt
  BY InitializeType
<1>2. Reconciled(req, rule, t) = IF init.status # "APPROVED" THEN init ELSE ExpireIfNeeded(ensured, t)
  BY DEF Reconciled
<1>3. ~NeedsRule(req) => init = req
  OBVIOUS
<1> HIDE DEF init
<1>4. /\ ensured \in RequestType
      /\ init.accessEndsAt # Nil => ensured = init
      /\ init.rule # NoRule => ensured.accessEndsAt # Nil
  BY <1>1, EnsureWindow
<1> HIDE DEF ensured
<1>5. /\ ExpireIfNeeded(ensured, t) \in RequestType
      /\ ExpireIfNeeded(ensured, t).accessEndsAt = ensured.accessEndsAt
  BY <1>4, ExpireType
<1> QED BY <1>1, <1>2, <1>3, <1>4, <1>5

LEMMA GotoNextType ==
  ASSUME NEW req \in RequestType, NEW status \in Status, NEW t \in Nat
  PROVE  /\ GotoNextStepOr(status, req, t) \in RequestType
         /\ GotoNextStepOr(status, req, t).accessEndsAt = req.accessEndsAt
<1>1. CASE req.step + 1 >= Len(req.rule.steps)
  BY <1>1, SetStateType DEF GotoNextStepOr
<1>2. CASE ~(req.step + 1 >= Len(req.rule.steps))
  <2>1. GotoNextStepOr(status, req, t) = [req EXCEPT !.step = @ + 1, !.stepAt = t]
    BY <1>2 DEF GotoNextStepOr
  <2>2. req.step + 1 \in Nat
    BY DEF RequestType
  <2> QED BY <2>1, <2>2 DEF RequestType
<1> QED BY <1>1, <1>2

\* The periodic watcher never touches a window.
LEMMA CheckedType ==
  ASSUME NEW req \in RequestType, NEW t \in Nat
  PROVE  /\ Checked(req, t) \in RequestType
         /\ Checked(req, t).accessEndsAt = req.accessEndsAt
<1> DEFINE Kept(next) == next \in RequestType /\ next.accessEndsAt = req.accessEndsAt
<1>1. Kept(req) /\ Kept(SetState(req, "EXPIRED", t)) /\ Kept(SetState(req, "REJECTED", t))
  BY SetStateType DEF Status, Final
<1>2. Kept(GotoNextStepOr("EXPIRED", req, t)) /\ Kept(ExpireIfNeeded(req, t))
  BY GotoNextType, ExpireType DEF Status, Final
<1> HIDE DEF Kept
<1>3. Kept(CheckPending(req, t))
  BY <1>1, <1>2 DEF CheckPending
<1>4. Kept(Checked(req, t))
  BY <1>1, <1>2, <1>3 DEF Checked
<1> QED BY <1>4 DEF Kept
-----------------------------------------------------------------------------
(* The steps of the store.                                                 *)

StoreOK ==
  /\ stored \in [Request -> {"none", "live", "deleted"}]
  /\ request \in [Request -> RequestType]
  /\ version \in [Request -> Nat]
  /\ feed \in [Request -> Seq(CopyType)]
  /\ AbsentOK /\ FeedOK

LEMMA CopyFields ==
  ASSUME NEW kind \in {"PUT", "DELETE"}, NEW rv \in Nat, NEW req \in RequestType
  PROVE  Copy(kind, rv, req) \in CopyType /\ Copy(kind, rv, req).rv = rv /\ Copy(kind, rv, req).req = req
BY DEF Copy, CopyType

\* What the holders of copies and of PolicyTriggers need of a step of the
\* store: copies stay good copies, and windows do not move.
KeepsCopies == \A s \in Request, copy \in CopyType : CopyOK(s, copy) => CopyOK(s, copy)'

KeepsWindows ==
  \A s \in Request : request[s].accessEndsAt # Nil => request'[s].accessEndsAt = request[s].accessEndsAt

LEMMA StoreHolds == IInv => StoreOK
BY DEF IInv, TypeOK, StoreOK

\* A write that keeps the window of the stored version is a good step.
LEMMA WriteStep ==
  ASSUME StoreOK, NEW r \in Request, NEW req \in RequestType, Live(r), Write(r, req),
         request[r].accessEndsAt # Nil => req.accessEndsAt = request[r].accessEndsAt
  PROVE  StoreOK' /\ KeepsCopies /\ KeepsWindows
<1>0. Copy("PUT", version[r] + 1, req) \in CopyType
  BY DEF StoreOK, Copy, CopyType
<1>1. PICK copy \in CopyType : copy = Copy("PUT", version[r] + 1, req)
  BY <1>0
<1>2. /\ request' = [request EXCEPT ![r] = req]
      /\ version' = [version EXCEPT ![r] = @ + 1]
      /\ feed' = [feed EXCEPT ![r] = Append(@, copy)]
      /\ stored' = stored
      /\ copy.rv = version[r] + 1 /\ copy.req = req
  BY <1>1 DEF Write, Copy
<1>3. /\ request' \in [Request -> RequestType] /\ version' \in [Request -> Nat]
      /\ feed' \in [Request -> Seq(CopyType)]
      /\ request'[r] = req /\ version'[r] = version[r] + 1
      /\ feed'[r] = Append(feed[r], copy)
      /\ \A s \in Request \ {r} :
           request'[s] = request[s] /\ version'[s] = version[s] /\ feed'[s] = feed[s]
  BY <1>2 DEF StoreOK
<1>4. KeepsWindows
  BY <1>3 DEF KeepsWindows
<1>5. KeepsCopies
  <2> SUFFICES ASSUME NEW s \in Request, NEW c \in CopyType, CopyOK(s, c)
               PROVE  CopyOK(s, c)'
    BY DEF KeepsCopies
  <2>1. c.rv \in Nat /\ version[r] \in Nat
    BY DEF CopyType, StoreOK
  <2> QED BY <1>3, <1>4, <2>1 DEF CopyOK, KeepsWindows
<1>6. CopyOK(r, copy)'
  BY <1>2, <1>3 DEF CopyOK
<1>7. FeedOK'
  <2> SUFFICES ASSUME NEW s \in Request, NEW i \in 1 .. Len(feed'[s])
               PROVE  CopyOK(s, feed[s][i])'
    BY DEF FeedOK
  <2>1. feed[s] \in Seq(CopyType) /\ i \in Nat
    BY DEF StoreOK
  <2>2. CASE s = r /\ i = Len(feed[r]) + 1
    <3>1. feed'[s][i] = copy
      BY <2>1, <2>2, <1>3
    <3> QED BY <3>1, <2>2, <1>6 DEF CopyOK
  <2>3. CASE ~(s = r /\ i = Len(feed[r]) + 1)
    <3>1. i \in 1 .. Len(feed[s]) /\ feed'[s][i] = feed[s][i]
      BY <2>1, <2>3, <1>3
    <3>2. PICK c \in CopyType : c = feed[s][i]
      BY <2>1, <3>1
    <3>3. CopyOK(s, c)
      BY <3>1, <3>2 DEF StoreOK, FeedOK
    <3>4. CopyOK(s, c)'
      BY <1>5, <3>3 DEF KeepsCopies
    <3> QED BY <3>1, <3>2, <3>4 DEF CopyOK
  <2> QED BY <2>2, <2>3
<1>8. AbsentOK'
  BY <1>2, <1>3 DEF StoreOK, AbsentOK, Live
<1> QED BY <1>2, <1>3, <1>4, <1>5, <1>7, <1>8 DEF StoreOK

LEMMA UnchangedStore ==
  ASSUME StoreOK, UNCHANGED store
  PROVE  StoreOK' /\ KeepsCopies /\ KeepsWindows
BY DEF StoreOK, store, AbsentOK, FeedOK, KeepsCopies, KeepsWindows, CopyOK

\* A compare-and-swap of a version made from a good copy is a good step: if
\* it succeeds the copy is the stored version.
LEMMA SwapStep ==
  ASSUME StoreOK, NEW r \in Request, NEW copy \in CopyType, CopyOK(r, copy),
         NEW req \in RequestType, CompareAndSwap(r, copy.rv, req),
         copy.req.accessEndsAt # Nil => req.accessEndsAt = copy.req.accessEndsAt
  PROVE  StoreOK' /\ KeepsCopies /\ KeepsWindows
<1>1. CASE Live(r) /\ version[r] = copy.rv
  <2>1. copy.req = request[r] /\ Write(r, req)
    BY <1>1 DEF CopyOK, CompareAndSwap
  <2> QED BY <1>1, <2>1, WriteStep
<1>2. CASE ~(Live(r) /\ version[r] = copy.rv)
  BY <1>2, UnchangedStore DEF CompareAndSwap
<1> QED BY <1>1, <1>2
-----------------------------------------------------------------------------
(* Every step keeps the inductive invariant: first the steps that write    *)
(* Requests, then those of the two goroutines.                             *)

OthersOK ==
  /\ now \in Nat /\ updates \in Nat /\ crashes \in Nat
  /\ trigger \in [Request -> TriggerType]
  /\ created \in [Request -> Nat]
  /\ priority \in Priorities
  /\ configs \in Seq([new : Priorities, old : Priorities])

ListOK == listed \subseteq Request \X CopyType /\ ListedOK

HandlersOK == work \in [Thread -> WorkType] /\ WorkOK /\ BuiltOK

LEMMA IInvParts == IInv <=> StoreOK /\ OthersOK /\ ListOK /\ HandlersOK /\ TriggerWithinWindow
BY DEF IInv, TypeOK, StoreOK, OthersOK, ListOK, HandlersOK

LEMMA IdleType == Idle \in WorkType /\ Idle.pc = "idle"
<1>1. NewRequest(Nil, Nil) \in RequestType
  BY NewRequestType, GrantAssumption
<1>2. Copy("PUT", 0, NewRequest(Nil, Nil)) \in CopyType
  BY <1>1 DEF Copy, CopyType
<1>3. NoTrigger \in TriggerType
  BY DEF NoTrigger, TriggerType, Nil
<1>4. (CHOOSE r \in Request : TRUE) \in Request
  BY GrantAssumption
<1> QED BY <1>2, <1>3, <1>4 DEF Idle, WorkType, PC

\* Handlers that go on, or end, while the store makes a good step.
LEMMA HandlersStep ==
  ASSUME HandlersOK, KeepsCopies, work' \in [Thread -> WorkType],
         \A t \in Thread : work'[t] = work[t] \/ work'[t].pc = "idle"
  PROVE  HandlersOK'
<1>1. ASSUME NEW t \in Thread, work'[t].pc # "idle"
      PROVE  CopyOK(work[t].r, work[t].copy)'
  <2>1. work'[t] = work[t] /\ work[t] \in WorkType
    BY <1>1 DEF HandlersOK
  <2>2. PICK w \in WorkType : w = work[t]
    BY <2>1
  <2>3. w.r \in Request /\ w.copy \in CopyType /\ CopyOK(w.r, w.copy)
    BY <1>1, <2>1, <2>2 DEF HandlersOK, WorkOK, WorkType
  <2>4. CopyOK(w.r, w.copy)'
    BY <2>3 DEF KeepsCopies
  <2> QED BY <2>1, <2>2, <2>4 DEF CopyOK
<1>2. WorkOK'
  BY <1>1 DEF WorkOK
<1>3. BuiltOK'
  BY DEF HandlersOK, BuiltOK
<1> QED BY <1>2, <1>3 DEF HandlersOK

LEMMA ListStep ==
  ASSUME ListOK, KeepsCopies, listed' \subseteq listed
  PROVE  ListOK'
<1>1. ASSUME NEW item \in listed'
      PROVE  CopyOK(item[1], item[2])'
  <2>1. item[1] \in Request /\ item[2] \in CopyType /\ CopyOK(item[1], item[2])
    BY <1>1 DEF ListOK, ListedOK
  <2>2. PICK r \in Request, c \in CopyType : r = item[1] /\ c = item[2]
    BY <2>1
  <2>3. CopyOK(r, c)'
    BY <2>1, <2>2 DEF KeepsCopies
  <2> QED BY <2>2, <2>3
<1> QED BY <1>1 DEF ListOK, ListedOK

LEMMA TriggerStep ==
  ASSUME TriggerWithinWindow, KeepsWindows, UNCHANGED trigger
  PROVE  TriggerWithinWindow'
BY DEF TriggerWithinWindow, KeepsWindows

\* A good step of the store that touches nothing else but ending handlers.
LEMMA StoreStep ==
  ASSUME IInv, StoreOK', KeepsCopies, KeepsWindows,
         UNCHANGED <<now, triggers, config, listed, crashes>>,
         work' = work \/ \E t \in Thread : Done(t)
  PROVE  IInv'
<1>1. StoreOK /\ OthersOK /\ ListOK /\ HandlersOK /\ TriggerWithinWindow
  BY IInvParts
<1>2. /\ work' \in [Thread -> WorkType]
      /\ \A t \in Thread : work'[t] = work[t] \/ work'[t].pc = "idle"
  BY <1>1, IdleType DEF HandlersOK, Done
<1>3. HandlersOK'
  BY <1>1, <1>2, HandlersStep
<1>4. ListOK'
  BY <1>1, ListStep
<1>5. TriggerWithinWindow'
  BY <1>1, TriggerStep DEF triggers
<1>6. OthersOK'
  BY <1>1 DEF OthersOK, triggers, config
<1> QED BY <1>3, <1>4, <1>5, <1>6, IInvParts, PTL

LEMMA ApiSteps ==
  ASSUME IInv, Api
  PROVE  IInv'
<1>1. StoreOK /\ OthersOK /\ ListOK /\ HandlersOK /\ TriggerWithinWindow
  BY IInvParts
<1>2. ASSUME NEW r \in Request, NEW duration \in Durations, NEW deadline \in Deadlines,
             CreateRequest(r, duration, deadline)
      PROVE  IInv'
  <2>1. PICK req \in RequestType : req = NewRequest(duration, deadline) /\ req.accessEndsAt = Nil
    BY NewRequestType
  <2>2. PICK copy \in CopyType : copy = Copy("PUT", 1, req) /\ copy.rv = 1 /\ copy.req = req
    BY CopyFields
  <2>3. /\ request' = [request EXCEPT ![r] = req] /\ version' = [version EXCEPT ![r] = 1]
        /\ feed' = [feed EXCEPT ![r] = <<copy>>] /\ stored' = [stored EXCEPT ![r] = "live"]
        /\ version[r] = 0 /\ request[r].accessEndsAt = Nil
    BY <1>1, <1>2, <2>1, <2>2 DEF CreateRequest, StoreOK, AbsentOK
  <2>4. KeepsWindows
    BY <1>1, <2>3 DEF KeepsWindows, StoreOK
  <2>5. KeepsCopies
    BY <1>1, <2>3, <2>4 DEF KeepsCopies, KeepsWindows, CopyOK, CopyType, StoreOK
  <2>6. FeedOK'
    <3> SUFFICES ASSUME NEW s \in Request, NEW i \in 1 .. Len(feed'[s])
                 PROVE  CopyOK(s, feed[s][i])'
      BY DEF FeedOK
    <3>1. CASE s = r
      <4>1. feed'[s][i] = copy
        BY <1>1, <2>3, <3>1 DEF StoreOK
      <4> QED BY <1>1, <2>2, <2>3, <3>1, <4>1 DEF CopyOK, StoreOK
    <3>2. CASE s # r
      <4>1. feed'[s] = feed[s] /\ request'[s] = request[s] /\ version'[s] = version[s]
        BY <1>1, <2>3, <3>2 DEF StoreOK
      <4> QED BY <1>1, <4>1 DEF CopyOK, StoreOK, FeedOK
    <3> QED BY <3>1, <3>2
  <2>7. AbsentOK'
    BY <1>1, <2>3 DEF StoreOK, AbsentOK
  <2>8. StoreOK'
    BY <1>1, <2>3, <2>6, <2>7 DEF StoreOK
  <2> QED BY <1>2, <2>4, <2>5, <2>8, StoreStep DEF CreateRequest
<1>3. ASSUME NEW r \in Request, NEW duration \in Durations, NEW deadline \in Deadlines,
             UpdateRequest(r, duration, deadline)
      PROVE  IInv'
  <2> DEFINE next == [request[r] EXCEPT !.duration = duration, !.deadline = deadline]
  <2>1. next \in RequestType /\ next.accessEndsAt = request[r].accessEndsAt
    BY <1>1 DEF StoreOK, RequestType
  <2>2. Live(r) /\ Write(r, next) /\ UNCHANGED <<now, triggers, config, listed, work, crashes>>
    BY <1>3 DEF UpdateRequest
  <2> HIDE DEF next
  <2> QED BY <1>1, <2>1, <2>2, WriteStep, StoreStep
<1>4. ASSUME NEW r \in Request, CancelRequest(r) \/ RevokeRequest(r)
      PROVE  IInv'
  <2>1. PICK status \in Status :
          /\ Live(r) /\ Write(r, SetState(request[r], status, now))
          /\ UNCHANGED <<now, triggers, config, listed, work, crashes>>
    BY <1>4 DEF CancelRequest, RevokeRequest, Status, Final
  <2>2. request[r] \in RequestType /\ now \in Nat
    BY <1>1 DEF StoreOK, OthersOK
  <2> QED BY <1>1, <2>1, <2>2, SetStateType, WriteStep, StoreStep
<1>5. ASSUME NEW r \in Request, Review(r)
      PROVE  IInv'
  <2>1. request[r] \in RequestType /\ now \in Nat
    BY <1>1 DEF StoreOK, OthersOK
  <2>2. PICK req \in RequestType :
          /\ req.accessEndsAt = request[r].accessEndsAt
          /\ Live(r) /\ Write(r, req)
          /\ UNCHANGED <<now, triggers, config, listed, work, crashes>>
    BY <1>5, <2>1, SetStateType, GotoNextType DEF Review, Status, Final
  <2> QED BY <1>1, <2>2, WriteStep, StoreStep
<1>6. ASSUME NEW r \in Request, DeleteRequest(r)
      PROVE  IInv'
  <2>1. PICK copy \in CopyType : copy = Copy("DELETE", version[r], request[r])
                                 /\ copy.rv = version[r] /\ copy.req = request[r]
    <3>1. version[r] \in Nat /\ request[r] \in RequestType
      BY <1>1 DEF StoreOK
    <3> QED BY <3>1, CopyFields
  <2>2. /\ stored' = [stored EXCEPT ![r] = "deleted"] /\ stored[r] = "live"
        /\ feed' = [feed EXCEPT ![r] = Append(@, copy)]
        /\ UNCHANGED <<request, version>>
    BY <1>6, <2>1 DEF DeleteRequest, Live
  <2>3. KeepsWindows /\ KeepsCopies
    BY <2>2 DEF KeepsWindows, KeepsCopies, CopyOK
  <2>4. FeedOK'
    <3> SUFFICES ASSUME NEW s \in Request, NEW i \in 1 .. Len(feed'[s])
                 PROVE  CopyOK(s, feed[s][i])'
      BY DEF FeedOK
    <3>1. feed[s] \in Seq(CopyType) /\ feed[r] \in Seq(CopyType) /\ version[r] \in Nat
      BY <1>1 DEF StoreOK
    <3>2. CASE s = r /\ i = Len(feed[r]) + 1
      <4>1. feed'[s][i] = copy
        BY <1>1, <2>2, <3>1, <3>2 DEF StoreOK
      <4> QED BY <2>1, <2>2, <3>1, <3>2, <4>1 DEF CopyOK
    <3>3. CASE ~(s = r /\ i = Len(feed[r]) + 1)
      <4>1. i \in 1 .. Len(feed[s]) /\ feed'[s][i] = feed[s][i]
        BY <1>1, <2>2, <3>1, <3>3 DEF StoreOK
      <4> QED BY <1>1, <2>2, <4>1 DEF CopyOK, StoreOK, FeedOK
    <3> QED BY <3>2, <3>3
  <2>5. AbsentOK'
    BY <1>1, <2>2 DEF StoreOK, AbsentOK
  <2>6. StoreOK'
    BY <1>1, <2>2, <2>4, <2>5 DEF StoreOK
  <2> QED BY <1>6, <2>3, <2>6, StoreStep DEF DeleteRequest
<1>7. ASSUME NEW p \in Priorities, UpdateClusterConfig(p)
      PROVE  IInv'
  <2>1. UNCHANGED <<store, triggers, listed, work>>
    BY <1>7 DEF UpdateClusterConfig
  <2>2. StoreOK' /\ KeepsCopies /\ KeepsWindows
    BY <1>1, <2>1, UnchangedStore
  <2>3. OthersOK'
    BY <1>1, <1>7 DEF UpdateClusterConfig, OthersOK, triggers
  <2>4. HandlersOK' /\ ListOK' /\ TriggerWithinWindow'
    BY <1>1, <2>1, <2>2, HandlersStep, ListStep, TriggerStep DEF triggers, HandlersOK
  <2> QED BY <2>2, <2>3, <2>4, IInvParts, PTL
<1> QED BY <1>2, <1>3, <1>4, <1>5, <1>6, <1>7 DEF Api

\* One handler goes on with w.
LEMMA HandlerMoves ==
  ASSUME HandlersOK, KeepsCopies, NEW t \in Thread, NEW w \in WorkType,
         work' = [work EXCEPT ![t] = w],
         w.pc # "idle" => CopyOK(w.r, w.copy),
         w.pc \in {"get", "put"} => w.copy.req.accessEndsAt # Nil
  PROVE  HandlersOK'
<1>1. work' \in [Thread -> WorkType] /\ work'[t] = w /\ \A u \in Thread \ {t} : work'[u] = work[u]
  BY DEF HandlersOK
<1>2. ASSUME NEW u \in Thread, work'[u].pc # "idle"
      PROVE  CopyOK(work[u].r, work[u].copy)'
  <2>1. PICK v \in WorkType : v = work'[u]
    BY <1>1
  <2>2. v.r \in Request /\ v.copy \in CopyType /\ CopyOK(v.r, v.copy)
    BY <1>1, <1>2, <2>1 DEF HandlersOK, WorkOK, WorkType
  <2>3. CopyOK(v.r, v.copy)'
    BY <2>2 DEF KeepsCopies
  <2> QED BY <2>1, <2>3 DEF CopyOK
<1>3. WorkOK'
  BY <1>2 DEF WorkOK
<1>4. BuiltOK'
  BY <1>1 DEF HandlersOK, BuiltOK
<1> QED BY <1>1, <1>3, <1>4 DEF HandlersOK

\* The next Request of an event or a list: a good copy of it.
LEMMA ReconcileStep ==
  ASSUME HandlersOK, KeepsCopies, NEW t \in Thread, NEW r \in Request, NEW copy \in CopyType,
         CopyOK(r, copy), Reconcile(t, r, copy)
  PROVE  HandlersOK'
<1>1. [Idle EXCEPT !.pc = "reconcile", !.r = r, !.copy = copy] \in WorkType
  BY IdleType DEF WorkType, PC
<1>2. PICK w \in WorkType : /\ w = [Idle EXCEPT !.pc = "reconcile", !.r = r, !.copy = copy]
                            /\ w.pc = "reconcile" /\ w.r = r /\ w.copy = copy
  BY <1>1, IdleType DEF WorkType
<1>3. work' = [work EXCEPT ![t] = w]
  BY <1>2 DEF Reconcile
<1> QED BY <1>2, <1>3, HandlerMoves

LEMMA TakeSteps ==
  ASSUME IInv, Take
  PROVE  IInv'
<1>1. StoreOK /\ OthersOK /\ ListOK /\ HandlersOK /\ TriggerWithinWindow
  BY IInvParts
<1>2. ASSUME NEW r \in Request, TakeEvent(r)
      PROVE  IInv'
  <2>1. PICK copy \in CopyType : copy = Head(feed[r]) /\ CopyOK(r, copy)
    <3>1. feed[r] \in Seq(CopyType) /\ feed[r] # <<>>
      BY <1>1, <1>2 DEF TakeEvent, StoreOK
    <3>2. Head(feed[r]) \in CopyType /\ 1 \in 1 .. Len(feed[r]) /\ feed[r][1] = Head(feed[r])
      BY <3>1
    <3> QED BY <1>1, <3>2 DEF StoreOK, FeedOK
  <2>2. /\ UNCHANGED <<stored, request, version>> /\ feed' = [feed EXCEPT ![r] = Tail(@)]
        /\ feed[r] # <<>>
    BY <1>2 DEF TakeEvent
  <2>3. KeepsCopies /\ KeepsWindows
    BY <2>2 DEF KeepsCopies, KeepsWindows, CopyOK
  <2>4. /\ feed' \in [Request -> Seq(CopyType)]
        /\ feed'[r] = Tail(feed[r]) /\ \A s \in Request \ {r} : feed'[s] = feed[s]
    BY <1>1, <2>2 DEF StoreOK
  <2>5. FeedOK'
    <3> SUFFICES ASSUME NEW s \in Request, NEW i \in 1 .. Len(feed'[s])
                 PROVE  CopyOK(s, feed[s][i])'
      BY DEF FeedOK
    <3>1. \E j \in 1 .. Len(feed[s]) : feed'[s][i] = feed[s][j]
      <4>1. feed[s] \in Seq(CopyType) /\ feed[r] \in Seq(CopyType)
        BY <1>1 DEF StoreOK
      <4>2. CASE s = r
        BY <2>2, <2>4, <4>1, <4>2
      <4>3. CASE s # r
        BY <2>4, <4>3
      <4> QED BY <4>2, <4>3
    <3> QED BY <1>1, <2>2, <3>1 DEF StoreOK, FeedOK, CopyOK
  <2>6. StoreOK'
    BY <1>1, <2>2, <2>4, <2>5 DEF StoreOK, AbsentOK
  <2>7. HandlersOK'
    BY <1>1, <1>2, <2>1, <2>3, ReconcileStep DEF TakeEvent, Thread
  <2>8. OthersOK' /\ ListOK' /\ TriggerWithinWindow'
    BY <1>1, <1>2, <2>3, ListStep, TriggerStep DEF TakeEvent, OthersOK, triggers, config
  <2> QED BY <2>6, <2>7, <2>8, IInvParts, PTL
<1>3. CASE ListApproved
  <2>1. StoreOK' /\ KeepsCopies /\ KeepsWindows
    BY <1>1, <1>3, UnchangedStore DEF ListApproved
  <2>2. HandlersOK' /\ TriggerWithinWindow'
    BY <1>1, <1>3, <2>1, HandlersStep, TriggerStep DEF ListApproved, triggers, HandlersOK
  <2>3. ASSUME NEW item \in listed'
        PROVE  item \in Request \X CopyType /\ CopyOK(item[1], item[2])'
    <3>1. PICK r \in Request : item = <<r, Copy("PUT", version[r], request[r])>>
      BY <1>3, <2>3 DEF ListApproved
    <3>2. version[r] \in Nat /\ request[r] \in RequestType
      BY <1>1 DEF StoreOK
    <3>3. PICK copy \in CopyType : /\ copy = Copy("PUT", version[r], request[r])
                                   /\ copy.rv = version[r] /\ copy.req = request[r]
      BY <3>2, CopyFields
    <3>4. CopyOK(r, copy)
      BY <3>2, <3>3 DEF CopyOK
    <3>5. CopyOK(r, copy)'
      BY <2>1, <3>4 DEF KeepsCopies
    <3> QED BY <3>1, <3>3, <3>5 DEF CopyOK
  <2>4. ListOK'
    BY <2>3 DEF ListOK, ListedOK
  <2>5. OthersOK'
    BY <1>1, <1>3 DEF ListApproved, OthersOK, triggers
  <2> QED BY <2>1, <2>2, <2>4, <2>5, IInvParts, PTL
<1>4. CASE TakeListed
  <2>1. StoreOK' /\ KeepsCopies /\ KeepsWindows
    BY <1>1, <1>4, UnchangedStore DEF TakeListed
  <2>2. PICK item \in listed : listed' = listed \ {item} /\ Reconcile("config", item[1], item[2])
    BY <1>4 DEF TakeListed
  <2>3. PICK r \in Request, copy \in CopyType : r = item[1] /\ copy = item[2] /\ CopyOK(r, copy)
    BY <1>1, <2>2 DEF ListOK, ListedOK
  <2>4. HandlersOK'
    BY <1>1, <2>1, <2>2, <2>3, ReconcileStep DEF Thread
  <2>5. ListOK' /\ TriggerWithinWindow' /\ OthersOK'
    BY <1>1, <1>4, <2>1, <2>2, ListStep, TriggerStep DEF TakeListed, OthersOK, triggers, config
  <2> QED BY <2>1, <2>4, <2>5, IInvParts, PTL
<1> QED BY <1>2, <1>3, <1>4 DEF Take

\* A step of a handler that leaves the store alone.
LEMMA TriggerSteps ==
  ASSUME IInv, NEW t \in Thread, UNCHANGED <<now, store, config, listed, crashes>>,
         NEW w \in WorkType, work' = [work EXCEPT ![t] = w],
         w.pc # "idle" => CopyOK(w.r, w.copy),
         w.pc \in {"get", "put"} => w.copy.req.accessEndsAt # Nil,
         trigger' \in [Request -> TriggerType], created' \in [Request -> Nat],
         TriggerWithinWindow'
  PROVE  IInv'
<1>1. StoreOK /\ OthersOK /\ ListOK /\ HandlersOK
  BY IInvParts
<1>2. StoreOK' /\ KeepsCopies /\ KeepsWindows
  BY <1>1, UnchangedStore
<1>3. HandlersOK' /\ ListOK'
  BY <1>1, <1>2, HandlerMoves, ListStep
<1>4. OthersOK'
  BY <1>1 DEF OthersOK, config
<1> QED BY <1>2, <1>3, <1>4, IInvParts, PTL

\* A handler that ends, the PolicyTriggers and the store being left alone.
LEMMA DoneStep ==
  ASSUME IInv, NEW t \in Thread, Done(t), UNCHANGED <<now, store, triggers, config, listed, crashes>>
  PROVE  IInv'
<1>1. StoreOK
  BY IInvParts
<1>2. StoreOK' /\ KeepsCopies /\ KeepsWindows
  BY <1>1, UnchangedStore
<1> QED BY <1>2, StoreStep

LEMMA HandlerSteps ==
  ASSUME IInv, NEW t \in Thread, Step(t)
  PROVE  IInv'
<1> DEFINE r == work[t].r
           copy == work[t].copy
<1>1. StoreOK /\ OthersOK /\ ListOK /\ HandlersOK /\ TriggerWithinWindow
  BY IInvParts
<1>2. /\ work[t] \in WorkType /\ r \in Request /\ copy \in CopyType /\ copy.req \in RequestType
      /\ copy.rv \in Nat /\ work[t].seen \in TriggerType /\ work[t].priority \in -4 .. 0
      /\ work \in [Thread -> WorkType]
  BY <1>1 DEF HandlersOK, WorkType, CopyType
<1>3. work[t].pc # "idle" => CopyOK(r, copy)
  BY <1>1 DEF HandlersOK, WorkOK
<1>4. work[t].pc \in {"get", "put"} => copy.req.accessEndsAt # Nil
  BY <1>1 DEF HandlersOK, BuiltOK
<1>5. trigger \in [Request -> TriggerType] /\ created \in [Request -> Nat] /\ now \in Nat
  BY <1>1 DEF OthersOK
<1>6. NoTrigger \in TriggerType
  BY DEF NoTrigger, TriggerType, Nil
\* What a handler that goes on without writing a Request needs.
<1>7. ASSUME NEW w \in WorkType, work' = [work EXCEPT ![t] = w],
             w.r = r, w.copy = copy, work[t].pc # "idle",
             w.pc \in {"get", "put"} => copy.req.accessEndsAt # Nil,
             UNCHANGED <<now, store, config, listed, crashes>>,
             trigger' \in [Request -> TriggerType], created' \in [Request -> Nat],
             TriggerWithinWindow'
      PROVE  IInv'
  BY <1>3, <1>7, TriggerSteps
<1>8. ASSUME NEW pc \in PC
      PROVE  /\ [work EXCEPT ![t].pc = pc] = [work EXCEPT ![t] = [work[t] EXCEPT !.pc = pc]]
             /\ [work[t] EXCEPT !.pc = pc] \in WorkType
  BY <1>2 DEF WorkType
<1>9. UNCHANGED <<store, trigger>> => TriggerWithinWindow'
  BY <1>1, UnchangedStore, TriggerStep
<1>10. CASE Advance(t)
  <2>1. PICK rule \in AnyRule :
          IF rule.effect = "REVIEW" /\ ~ValidReview(rule) THEN UNCHANGED store
          ELSE CompareAndSwap(r, copy.rv, Reconciled(copy.req, rule, now))
    BY <1>10 DEF Advance, AnyRule
  <2>2. PICK req \in RequestType :
          /\ req = Reconciled(copy.req, rule, now)
          /\ copy.req.accessEndsAt # Nil => req.accessEndsAt = copy.req.accessEndsAt
    BY <1>2, <1>5, ReconciledWindow
  <2>3. work[t].pc # "idle" /\ Done(t) /\ UNCHANGED <<now, triggers, config, listed, crashes>>
    BY <1>10 DEF Advance
  <2>4. StoreOK' /\ KeepsCopies /\ KeepsWindows
    BY <1>1, <1>2, <1>3, <2>1, <2>2, <2>3, SwapStep, UnchangedStore
  <2> QED BY <2>3, <2>4, StoreStep
<1>11. CASE Skip(t)
  BY <1>11, DoneStep DEF Skip
<1>12. CASE BuildTrigger(t)
  <2>1. /\ work[t].pc # "idle" /\ UNCHANGED <<now, store, triggers, config, listed, crashes>>
        /\ work' = [work EXCEPT ![t].pc = "get", ![t].priority = AllowPriority(priority)]
    BY <1>12 DEF BuildTrigger
  <2>2. AllowPriority(priority) \in -4 .. 0
    BY <1>1, GrantAssumption DEF OthersOK, AllowPriority, Unset
  <2>3. copy.req.accessEndsAt # Nil
    <3>1. /\ ~NeedsRule(copy.req) /\ Reconciled(copy.req, NoRule, now) = copy.req
          /\ copy.req.status = "APPROVED" /\ copy.req.rule # NoRule
      BY <1>12 DEF BuildTrigger, Settled
    <3> QED BY <1>2, <1>5, <3>1, ReconciledWindow DEF AnyRule
  <2>4. PICK w \in WorkType :
          /\ w = [work[t] EXCEPT !.pc = "get", !.priority = AllowPriority(priority)]
          /\ w.r = r /\ w.copy = copy
    <3>1. [work[t] EXCEPT !.pc = "get", !.priority = AllowPriority(priority)] \in WorkType
      BY <1>2, <2>2 DEF WorkType, PC
    <3> QED BY <1>2, <3>1 DEF WorkType
  <2>5. work' = [work EXCEPT ![t] = w]
    BY <1>2, <2>1, <2>4
  <2> QED BY <1>5, <1>7, <1>9, <2>1, <2>3, <2>4, <2>5 DEF triggers
<1>13. CASE GetTrigger(t)
  <2>1. /\ work[t].pc = "get" /\ UNCHANGED <<now, store, triggers, config, listed, crashes>>
        /\ work' = [work EXCEPT ![t].pc = "put", ![t].seen = trigger[r]]
    BY <1>13 DEF GetTrigger
  <2>2. PICK w \in WorkType :
          /\ w = [work[t] EXCEPT !.pc = "put", !.seen = trigger[r]]
          /\ w.r = r /\ w.copy = copy
    <3>1. [work[t] EXCEPT !.pc = "put", !.seen = trigger[r]] \in WorkType
      BY <1>2, <1>5 DEF WorkType, PC
    <3> QED BY <1>2, <3>1 DEF WorkType
  <2>3. work' = [work EXCEPT ![t] = w]
    BY <1>2, <2>1, <2>2
  <2> QED BY <1>4, <1>5, <1>7, <1>9, <2>1, <2>2, <2>3 DEF triggers
<1>14. CASE CreateTrigger(t)
  <2>1. /\ work[t].pc = "put" /\ UNCHANGED <<now, store, config, listed, crashes>>
        /\ copy.req.accessEndsAt \in Nat \ {Nil}
    BY <1>2, <1>4, <1>14 DEF CreateTrigger, RequestType, Nil
  <2>2. CASE trigger[r] = NoTrigger
    <3>1. PICK new \in TriggerType :
            /\ new = [uid |-> created[r] + 1, rv |-> 1, priority |-> work[t].priority,
                      notAfter |-> copy.req.accessEndsAt]
            /\ new.notAfter = copy.req.accessEndsAt
      <4>1. [uid |-> created[r] + 1, rv |-> 1, priority |-> work[t].priority,
             notAfter |-> copy.req.accessEndsAt] \in TriggerType
        BY <1>2, <1>5, <2>1 DEF TriggerType
      <4> QED BY <4>1
    <3>2. /\ created' = [created EXCEPT ![r] = @ + 1] /\ trigger' = [trigger EXCEPT ![r] = new]
          /\ work' = [work EXCEPT ![t].pc = "exists", ![t].seen = new]
      BY <1>2, <1>5, <1>14, <2>2, <3>1 DEF CreateTrigger
    <3>3. PICK w \in WorkType :
            /\ w = [work[t] EXCEPT !.pc = "exists", !.seen = new]
            /\ w.r = r /\ w.copy = copy /\ w.pc = "exists"
      <4>1. [work[t] EXCEPT !.pc = "exists", !.seen = new] \in WorkType
        BY <1>2, <3>1 DEF WorkType, PC
      <4> QED BY <1>2, <4>1 DEF WorkType
    <3>4. work' = [work EXCEPT ![t] = w]
      BY <1>2, <3>2, <3>3
    <3>5. trigger' \in [Request -> TriggerType] /\ created' \in [Request -> Nat]
      BY <1>2, <1>5, <3>1, <3>2
    <3>6. TriggerWithinWindow'
      BY <1>1, <1>2, <1>3, <1>5, <2>1, <3>1, <3>2 DEF TriggerWithinWindow, store, CopyOK
    <3> QED BY <1>7, <2>1, <3>3, <3>4, <3>5, <3>6
  <2>3. CASE trigger[r] # NoTrigger
    BY <1>14, <2>1, <2>3, DoneStep DEF CreateTrigger
  <2> QED BY <2>2, <2>3
<1>15. CASE CheckExists(t)
  <2>1. work[t].pc = "exists" /\ UNCHANGED <<now, store, created, config, listed, crashes>>
    BY <1>15 DEF CheckExists, triggers
  <2>2. CASE Live(r)
    <3>1. work' = [work EXCEPT ![t].pc = "ref"] /\ UNCHANGED trigger
      BY <1>15, <2>2 DEF CheckExists, Do, triggers
    <3>2. PICK w \in WorkType : /\ w = [work[t] EXCEPT !.pc = "ref"]
                                /\ w.r = r /\ w.copy = copy /\ w.pc = "ref"
      <4>1. [work[t] EXCEPT !.pc = "ref"] \in WorkType
        BY <1>2 DEF WorkType, PC
      <4> QED BY <1>2, <4>1 DEF WorkType
    <3>3. work' = [work EXCEPT ![t] = w]
      BY <1>2, <3>1, <3>2
    <3> QED BY <1>5, <1>7, <1>9, <2>1, <3>1, <3>2, <3>3
  <2>3. CASE ~Live(r)
    <3>1. Done(t) /\ (trigger' = trigger \/ trigger' = [trigger EXCEPT ![r] = NoTrigger])
      BY <1>2, <1>5, <1>15, <2>3 DEF CheckExists
    <3>2. TriggerWithinWindow' /\ trigger' \in [Request -> TriggerType]
      BY <1>1, <1>5, <1>6, <2>1, <3>1 DEF TriggerWithinWindow, store
    <3>3. work' = [work EXCEPT ![t] = Idle]
      BY <3>1 DEF Done
    <3> QED BY <1>5, <2>1, <3>2, <3>3, IdleType, TriggerSteps
  <2> QED BY <2>2, <2>3
<1>16. CASE UpdateTrigger(t)
  <2> DEFINE desired == [work[t].seen EXCEPT !.priority = work[t].priority,
                                             !.notAfter = copy.req.accessEndsAt]
  <2>1. /\ work[t].pc = "put" /\ UNCHANGED <<now, store, created, config, listed, crashes>>
        /\ copy.req.accessEndsAt \in Nat \ {Nil}
    BY <1>2, <1>4, <1>16 DEF UpdateTrigger, RequestType, Nil
  <2>2. CASE Done(t) /\ UNCHANGED trigger
    BY <2>1, <2>2, DoneStep DEF triggers
  <2>3. CASE Do(t, "ref") /\ (trigger' = trigger \/ trigger' = [trigger EXCEPT ![r] = [desired EXCEPT !.rv = @ + 1]])
    <3>1. work' = [work EXCEPT ![t].pc = "ref"]
      BY <2>3 DEF Do
    <3>2. PICK w \in WorkType : /\ w = [work[t] EXCEPT !.pc = "ref"]
                                /\ w.r = r /\ w.copy = copy /\ w.pc = "ref"
      <4>1. [work[t] EXCEPT !.pc = "ref"] \in WorkType
        BY <1>2 DEF WorkType, PC
      <4> QED BY <1>2, <4>1 DEF WorkType
    <3>3. work' = [work EXCEPT ![t] = w]
      BY <1>2, <3>1, <3>2
    <3>4. PICK new \in TriggerType : /\ new = [desired EXCEPT !.rv = @ + 1]
                                     /\ new.notAfter = copy.req.accessEndsAt
      <4>1. desired \in TriggerType /\ desired.notAfter = copy.req.accessEndsAt
        BY <1>2, <2>1 DEF TriggerType
      <4> HIDE DEF desired
      <4>2. [desired EXCEPT !.rv = @ + 1] \in TriggerType
        BY <4>1 DEF TriggerType
      <4> QED BY <4>1, <4>2 DEF TriggerType
    <3>5. trigger' = trigger \/ trigger' = [trigger EXCEPT ![r] = new]
      BY <2>3, <3>4
    <3>6. TriggerWithinWindow' /\ trigger' \in [Request -> TriggerType]
      BY <1>1, <1>2, <1>3, <1>5, <2>1, <3>4, <3>5 DEF TriggerWithinWindow, store, CopyOK
    <3> QED BY <1>5, <1>7, <2>1, <3>2, <3>3, <3>6
  <2>4. \/ Done(t) /\ UNCHANGED trigger
        \/ Do(t, "ref") /\ (trigger' = trigger \/ trigger' = [trigger EXCEPT ![r] = [desired EXCEPT !.rv = @ + 1]])
    BY <1>16 DEF UpdateTrigger
  <2> QED BY <2>2, <2>3, <2>4
<1>17. CASE DropTrigger(t)
  <2>1. /\ work[t].pc = "reconcile" /\ UNCHANGED <<now, store, created, config, listed, crashes>>
        /\ trigger' = [trigger EXCEPT ![r] = NoTrigger]
        /\ \/ Done(t)
           \/ work' = [work EXCEPT ![t].pc = "ref", ![t].seen = NoTrigger]
    BY <1>17 DEF DropTrigger
  <2>2. TriggerWithinWindow' /\ trigger' \in [Request -> TriggerType]
    BY <1>1, <1>5, <1>6, <2>1 DEF TriggerWithinWindow, store
  <2>3. CASE Done(t)
    <3>1. work' = [work EXCEPT ![t] = Idle]
      BY <2>3 DEF Done
    <3> QED BY <1>5, <2>1, <2>2, <3>1, IdleType, TriggerSteps
  <2>4. CASE work' = [work EXCEPT ![t].pc = "ref", ![t].seen = NoTrigger]
    <3>1. PICK w \in WorkType : /\ w = [work[t] EXCEPT !.pc = "ref", !.seen = NoTrigger]
                                /\ w.r = r /\ w.copy = copy /\ w.pc = "ref"
      <4>1. [work[t] EXCEPT !.pc = "ref", !.seen = NoTrigger] \in WorkType
        BY <1>2, <1>6 DEF WorkType, PC
      <4> QED BY <1>2, <4>1 DEF WorkType
    <3>2. work' = [work EXCEPT ![t] = w]
      BY <1>2, <2>4, <3>1
    <3> QED BY <1>5, <1>7, <2>1, <2>2, <3>1, <3>2
  <2> QED BY <2>1, <2>3, <2>4
<1>18. CASE UpdateRef(t)
  <2>1. /\ work[t].pc = "ref" /\ Done(t) /\ UNCHANGED <<now, triggers, config, listed, crashes>>
        /\ IF copy.req.triggerRef = work[t].seen.uid THEN UNCHANGED store
           ELSE CompareAndSwap(r, copy.rv, [copy.req EXCEPT !.triggerRef = work[t].seen.uid])
    BY <1>18 DEF UpdateRef
  <2>2. PICK req \in RequestType : /\ req = [copy.req EXCEPT !.triggerRef = work[t].seen.uid]
                                   /\ req.accessEndsAt = copy.req.accessEndsAt
    <3>1. [copy.req EXCEPT !.triggerRef = work[t].seen.uid] \in RequestType
      BY <1>2 DEF RequestType, TriggerType
    <3> QED BY <1>2, <3>1 DEF RequestType
  <2>3. StoreOK' /\ KeepsCopies /\ KeepsWindows
    BY <1>1, <1>2, <1>3, <2>1, <2>2, SwapStep, UnchangedStore
  <2> QED BY <2>1, <2>3, StoreStep
<1> QED BY <1>10, <1>11, <1>12, <1>13, <1>14, <1>15, <1>16, <1>17, <1>18 DEF Step

LEMMA CrashStep ==
  ASSUME IInv, Crash
  PROVE  IInv'
<1>1. StoreOK /\ OthersOK /\ ListOK /\ HandlersOK /\ TriggerWithinWindow
  BY IInvParts
<1>2. /\ UNCHANGED <<now, stored, request, version, triggers, priority, updates>>
      /\ crashes' = crashes + 1 /\ work' = [t \in Thread |-> Idle] /\ listed' = {}
      /\ \/ feed' = feed
         \/ feed' = [r \in Request |-> <<>>]
      /\ \/ configs' = configs
         \/ configs' = <<>>
  BY DEF Crash
<1>3. KeepsCopies /\ KeepsWindows
  BY <1>2 DEF KeepsCopies, KeepsWindows, CopyOK
<1>4. FeedOK' /\ feed' \in [Request -> Seq(CopyType)]
  <2>1. CASE feed' = feed
    BY <1>1, <1>2, <2>1 DEF StoreOK, FeedOK, CopyOK
  <2>2. CASE feed' = [r \in Request |-> <<>>]
    <3>1. \A r \in Request : feed'[r] = <<>> /\ Len(feed'[r]) = 0
      BY <2>2
    <3>2. FeedOK'
      BY <3>1 DEF FeedOK
    <3> QED BY <2>2, <3>2
  <2> QED BY <1>2, <2>1, <2>2
<1>5. StoreOK'
  BY <1>1, <1>2, <1>4 DEF StoreOK, AbsentOK
<1>6. \A t \in Thread : work'[t] = Idle
  BY <1>2
<1>7. HandlersOK'
  BY <1>1, <1>2, <1>3, <1>6, IdleType, HandlersStep
<1>8. ListOK' /\ TriggerWithinWindow'
  BY <1>1, <1>2, <1>3, ListStep, TriggerStep DEF triggers
<1>9. OthersOK'
  <2> DEFINE Config == [new : Priorities, old : Priorities]
  <2>1. configs' \in Seq(Config)
    <3>1. configs \in Seq(Config)
      BY <1>1 DEF OthersOK
    <3> HIDE DEF Config
    <3>2. <<>> \in Seq(Config)
      OBVIOUS
    <3> QED BY <1>2, <3>1, <3>2
  <2>2. crashes' \in Nat
    BY <1>1, <1>2 DEF OthersOK
  <2> QED BY <1>1, <1>2, <2>1, <2>2 DEF OthersOK, triggers
<1> QED BY <1>5, <1>7, <1>8, <1>9, IInvParts, PTL

LEMMA SweepSteps ==
  ASSUME IInv, Sweep
  PROVE  IInv'
<1>1. StoreOK /\ OthersOK /\ ListOK /\ HandlersOK /\ TriggerWithinWindow
  BY IInvParts
<1>2. ASSUME NEW r \in Request, SweepRequest(r)
      PROVE  IInv'
  <2>1. request[r] \in RequestType /\ now \in Nat
    BY <1>1 DEF StoreOK, OthersOK
  <2>2. PICK req \in RequestType : req = Checked(request[r], now) /\ req.accessEndsAt = request[r].accessEndsAt
    BY <2>1, CheckedType
  <2>3. Live(r) /\ Write(r, req) /\ UNCHANGED <<now, triggers, config, listed, work, crashes>>
    BY <1>2, <2>2 DEF SweepRequest
  <2> QED BY <1>1, <2>2, <2>3, WriteStep, StoreStep
<1>3. ASSUME NEW r \in Request, SweepTrigger(r)
      PROVE  IInv'
  <2>1. /\ trigger' = [trigger EXCEPT ![r] = NoTrigger]
        /\ UNCHANGED <<now, store, created, config, listed, work, crashes>>
    BY <1>3 DEF SweepTrigger
  <2>2. NoTrigger \in TriggerType
    BY DEF NoTrigger, TriggerType, Nil
  <2>3. StoreOK' /\ KeepsCopies
    BY <1>1, <2>1, UnchangedStore
  <2>4. HandlersOK' /\ ListOK'
    BY <1>1, <2>1, <2>3, HandlersStep, ListStep DEF HandlersOK
  <2>5. OthersOK' /\ TriggerWithinWindow'
    BY <1>1, <2>1, <2>2 DEF OthersOK, TriggerWithinWindow, store, config
  <2> QED BY <2>3, <2>4, <2>5, IInvParts, PTL
<1> QED BY <1>2, <1>3 DEF Sweep

LEMMA TickStep ==
  ASSUME IInv, Tick \/ UNCHANGED vars
  PROVE  IInv'
<1>1. StoreOK /\ OthersOK /\ ListOK /\ HandlersOK /\ TriggerWithinWindow
  BY IInvParts
<1>2. UNCHANGED <<store, triggers, config, listed, work, crashes>> /\ now' \in Nat
  BY <1>1 DEF Tick, vars, OthersOK
<1>3. StoreOK' /\ KeepsCopies /\ KeepsWindows
  BY <1>1, <1>2, UnchangedStore
<1>4. HandlersOK' /\ ListOK' /\ TriggerWithinWindow'
  BY <1>1, <1>2, <1>3, HandlersStep, ListStep, TriggerStep DEF HandlersOK, triggers
<1>5. OthersOK'
  BY <1>1, <1>2 DEF OthersOK, triggers, config
<1> QED BY <1>3, <1>4, <1>5, IInvParts, PTL
-----------------------------------------------------------------------------
LEMMA InitIInv == Init => IInv
<1> SUFFICES ASSUME Init
             PROVE  IInv
  OBVIOUS
<1>1. /\ NewRequest(Nil, Nil) \in RequestType /\ NewRequest(Nil, Nil).accessEndsAt = Nil
  BY NewRequestType, GrantAssumption
<1>2. NoTrigger \in TriggerType
  BY DEF NoTrigger, TriggerType, Nil
<1>3. StoreOK
  <2>1. \A r \in Request : feed[r] = <<>> /\ Len(feed[r]) = 0
    BY DEF Init
  <2>2. FeedOK
    BY <2>1 DEF FeedOK
  <2>3. AbsentOK
    BY <1>1 DEF Init, AbsentOK
  <2> QED BY <1>1, <2>2, <2>3 DEF Init, StoreOK
<1>4. OthersOK /\ ListOK /\ TriggerWithinWindow
  BY <1>2 DEF Init, OthersOK, ListOK, ListedOK, TriggerWithinWindow
<1>5. HandlersOK
  BY IdleType DEF Init, HandlersOK, WorkOK, BuiltOK
<1> QED BY <1>3, <1>4, <1>5, IInvParts

LEMMA NextIInv == IInv /\ [Next]_vars => IInv'
<1> SUFFICES ASSUME IInv, [Next]_vars
             PROVE  IInv'
  OBVIOUS
<1>1. CASE Api
  BY <1>1, ApiSteps
<1>2. CASE Take
  BY <1>2, TakeSteps
<1>3. ASSUME NEW t \in Thread, Step(t)
      PROVE  IInv'
  BY <1>3, HandlerSteps
<1>4. ASSUME NEW t \in Thread, Fail(t)
      PROVE  IInv'
  BY <1>4, DoneStep DEF Fail
<1>5. CASE Crash
  BY <1>5, CrashStep
<1>6. CASE Sweep
  BY <1>6, SweepSteps
<1>7. CASE Tick \/ UNCHANGED vars
  BY <1>7, TickStep
<1> QED BY <1>1, <1>2, <1>3, <1>4, <1>5, <1>6, <1>7 DEF Next

THEOREM Invariance == Spec => []IInv
<1> QED BY InitIInv, NextIInv, PTL DEF Spec

\* Every variable keeps its type in every behaviour.
THEOREM TypeCorrect == Spec => []TypeOK
<1>1. IInv => TypeOK
  BY DEF IInv
<1> QED BY <1>1, Invariance, PTL

\* A PolicyTrigger never gives access beyond the window of its Request,
\* whatever copies the handlers act on, whatever fails and however often
\* nocturne restarts.
THEOREM AccessBounded == Spec => []TriggerWithinWindow
<1>1. IInv => TriggerWithinWindow
  BY DEF IInv
<1> QED BY <1>1, Invariance, PTL

-----------------------------------------------------------------------------
(* AccessGrant implements AccessLifecycle.                                 *)

\* A Request that waits for a decision has no end of the wait, no window.
Waiting(req) == req.status = "PENDING" => req.endAt = Nil /\ req.accessEndsAt = Nil

PendingOK == \A r \in Request : Waiting(request[r])

SamePhase(req, next) ==
  /\ next.status = req.status /\ next.accessEndsAt = req.accessEndsAt
  /\ next.status = "PENDING" => next.endAt = Nil

Ends(req, next) ==
  /\ req.status \in {"PENDING", "APPROVED"} /\ next.status \in Final
  /\ next.accessEndsAt = req.accessEndsAt

IsApproved(req, next) == req.status = "PENDING" /\ next.status = "APPROVED"

GetsWindow(req, next) ==
  /\ req.status = "APPROVED" /\ req.accessEndsAt = Nil
  /\ next.status \in {"APPROVED", "EXPIRED"}

\* What the next version of a Request may be.
Follows(req, next) ==
  /\ next \in RequestType
  /\ SamePhase(req, next) \/ Ends(req, next) \/ IsApproved(req, next) \/ GetsWindow(req, next)

\* A successor that waits for a decision is still without a window.
LEMMA FollowsWaiting ==
  ASSUME NEW req, NEW next, Waiting(req), Follows(req, next)
  PROVE  Waiting(next)
BY DEF Waiting, Follows, SamePhase, Ends, IsApproved, GetsWindow, Final

\* What ends a Request, and what it is when it has ended.
LEMMA EndFollows ==
  ASSUME NEW req \in RequestType, NEW t \in Nat, NEW status \in Final,
         req.status \in {"PENDING", "APPROVED"}
  PROVE  Follows(req, SetState(req, status, t))
<1>1. SetState(req, status, t) \in RequestType /\ SetState(req, status, t).accessEndsAt = req.accessEndsAt
  BY SetStateType DEF Status
<1>2. SetState(req, status, t).status = status
  BY DEF SetState, RequestType, Final
<1> QED BY <1>1, <1>2 DEF Follows, Ends

LEMMA StayFollows ==
  ASSUME NEW req \in RequestType, Waiting(req)
  PROVE  Follows(req, req)
BY DEF Waiting, Follows, SamePhase

\* The next Step of the review, or the end of it.
LEMMA GotoNextFollows ==
  ASSUME NEW req \in RequestType, NEW t \in Nat, NEW status \in {"APPROVED", "EXPIRED"},
         Waiting(req), req.status = "PENDING"
  PROVE  Follows(req, GotoNextStepOr(status, req, t))
<1>1. GotoNextStepOr(status, req, t) \in RequestType
      /\ GotoNextStepOr(status, req, t).accessEndsAt = req.accessEndsAt
  BY GotoNextType DEF Status, Final
<1>2. CASE req.step + 1 >= Len(req.rule.steps)
  <2>1. GotoNextStepOr(status, req, t).status = status
    BY <1>2 DEF GotoNextStepOr, SetState, RequestType
  <2> QED BY <1>1, <2>1 DEF Follows, IsApproved, Ends, Final
<1>3. CASE ~(req.step + 1 >= Len(req.rule.steps))
  <2>1. /\ GotoNextStepOr(status, req, t).status = req.status
        /\ GotoNextStepOr(status, req, t).endAt = req.endAt
    BY <1>3 DEF GotoNextStepOr, RequestType
  <2> QED BY <1>1, <2>1 DEF Follows, SamePhase, Waiting
<1> QED BY <1>2, <1>3

LEMMA ExpireFollows ==
  ASSUME NEW req \in RequestType, NEW t \in Nat, req.status = "APPROVED"
  PROVE  Follows(req, ExpireIfNeeded(req, t))
BY EndFollows, StayFollows DEF ExpireIfNeeded, Final, Waiting

\* The periodic watcher.
LEMMA CheckedFollows ==
  ASSUME NEW req \in RequestType, NEW t \in Nat, Waiting(req)
  PROVE  Follows(req, Checked(req, t))
<1>1. Follows(req, req)
  BY StayFollows
<1>2. CASE req.status = "PENDING"
  <2>1. Follows(req, SetState(req, "EXPIRED", t)) /\ Follows(req, SetState(req, "REJECTED", t))
    BY <1>2, EndFollows DEF Final
  <2>2. Follows(req, GotoNextStepOr("EXPIRED", req, t))
    BY <1>2, GotoNextFollows
  <2>3. Follows(req, CheckPending(req, t))
    BY <1>1, <2>1, <2>2 DEF CheckPending
  <2> QED BY <1>2, <2>3 DEF Checked
<1>3. CASE req.status = "APPROVED"
  BY <1>3, ExpireFollows DEF Checked
<1>4. CASE req.status \notin {"PENDING", "APPROVED"}
  BY <1>1, <1>4 DEF Checked
<1> QED BY <1>2, <1>3, <1>4

\* An automatic approval gives a window that is still open.
LEMMA AutoApproved ==
  ASSUME NEW req \in RequestType, NEW rule \in Rules, NEW t \in Nat,
         NeedsRule(req), Waiting(req), rule.effect = "AUTO_APPROVE"
  PROVE  Follows(req, Reconciled(req, rule, t))
<1> DEFINE init == InitializeRequest(req, rule, t)
           begun == Begun(req, rule, t)
           ensured == EnsureAccessEndsAt(init, t)
<1>0. rule \in AnyRule /\ rule # NoRule
  BY DEF AnyRule, NoRule
<1>1. init \in RequestType /\ init = SetState(begun, "APPROVED", t)
  BY <1>0, InitializeType DEF InitializeRequest
<1>2. begun.status = "PENDING" /\ begun.endAt = Nil
  BY DEF Begun, NeedsRule, Waiting, RequestType
<1>3. init.status = "APPROVED" /\ init.endAt \in {t, Nil} /\ init.rule = rule
      /\ init.effective = AccessDuration(req.duration, rule)
  BY <1>1, <1>2 DEF SetState, Begun, RequestType
<1>4. AccessDuration(req.duration, rule) \in Nat \ {0}
  BY <1>0, AccessDurationType, GrantAssumption DEF RequestType
<1>5. init.accessEndsAt = Nil
  BY <1>0, InitializeType DEF Waiting, NeedsRule
<1> HIDE DEF init
<1>6. ensured \in RequestType
  BY <1>1, EnsureWindow
<1>7. ensured.accessEndsAt = t + init.effective /\ ensured.status = "APPROVED"
  BY <1>0, <1>1, <1>3, <1>4, <1>5 DEF EnsureAccessEndsAt, RequestType, Nil
<1>8. Reconciled(req, rule, t) = ExpireIfNeeded(ensured, t)
  BY <1>3 DEF Reconciled, init
<1> HIDE DEF ensured
<1>9. Reconciled(req, rule, t) = ensured
  BY <1>3, <1>4, <1>7, <1>8 DEF ExpireIfNeeded, WindowPassed
<1> QED BY <1>6, <1>7, <1>9 DEF Follows, IsApproved, NeedsRule

\* The requests controller.
LEMMA ReconciledFollows ==
  ASSUME NEW req \in RequestType, NEW rule \in AnyRule, NEW t \in Nat, Waiting(req)
  PROVE  Follows(req, Reconciled(req, rule, t))
<1> DEFINE init == InitializeRequest(req, rule, t)
<1>1. CASE NeedsRule(req)
  <2>1. init \in RequestType /\ init.accessEndsAt = req.accessEndsAt /\ req.status = "PENDING"
    BY <1>1, InitializeType DEF NeedsRule
  <2>2. CASE rule = NoRule
    <3>1. init = SetState(req, "REJECTED", t)
      BY <2>2 DEF InitializeRequest, NoRule
    <3>2. Follows(req, init)
      BY <2>1, <3>1, EndFollows DEF Final
    <3>3. init.status # "APPROVED"
      BY <2>1, <3>1 DEF SetState, RequestType
    <3> QED BY <1>1, <3>2, <3>3 DEF Reconciled
  <2>3. CASE rule # NoRule
    <3>1. rule \in Rules /\ rule.effect \in Effect
      BY <2>3, GrantAssumption DEF AnyRule
    <3>2. CASE rule.effect = "DENY"
      <4>1. init = SetState([req EXCEPT !.rule = rule], "REJECTED", t)
        BY <2>3, <3>2 DEF InitializeRequest
      <4>2. init.status = "REJECTED"
        BY <2>1, <4>1 DEF SetState, RequestType
      <4> QED BY <1>1, <2>1, <4>2 DEF Reconciled, Follows, Ends, Final
    <3>3. CASE rule.effect = "REVIEW"
      <4>1. init = [Begun(req, rule, t) EXCEPT !.stepAt = t]
        BY <2>3, <3>3 DEF InitializeRequest
      <4>2. init.status = "PENDING" /\ init.endAt = Nil
        BY <2>1, <4>1 DEF Begun, RequestType, Waiting
      <4> QED BY <1>1, <2>1, <4>2 DEF Reconciled, Follows, SamePhase
    <3>4. CASE rule.effect = "AUTO_APPROVE"
      BY <1>1, <3>1, <3>4, AutoApproved
    <3> QED BY <3>1, <3>2, <3>3, <3>4 DEF Effect
  <2> QED BY <2>2, <2>3
<1>2. CASE ~NeedsRule(req)
  <2>1. CASE req.status # "APPROVED"
    BY <1>2, <2>1, StayFollows DEF Reconciled
  <2>2. CASE req.status = "APPROVED"
    <3> DEFINE ensured == EnsureAccessEndsAt(req, t)
    <3>1. Reconciled(req, rule, t) = ExpireIfNeeded(ensured, t)
      BY <1>2, <2>2 DEF Reconciled
    <3>2. ensured \in RequestType /\ (req.accessEndsAt # Nil => ensured = req)
      BY EnsureWindow
    <3>3. ensured.status = "APPROVED"
      BY <2>2 DEF EnsureAccessEndsAt, RequestType
    <3> HIDE DEF ensured
    <3>4. ExpireIfNeeded(ensured, t) \in RequestType
          /\ ExpireIfNeeded(ensured, t).status \in {"APPROVED", "EXPIRED"}
      BY <3>2, <3>3, ExpireType DEF ExpireIfNeeded, SetState, RequestType
    <3>5. CASE req.accessEndsAt = Nil
      BY <2>2, <3>1, <3>4, <3>5 DEF Follows, GetsWindow
    <3>6. CASE req.accessEndsAt # Nil
      BY <2>2, <3>1, <3>2, <3>6, ExpireFollows
    <3> QED BY <3>5, <3>6
  <2> QED BY <2>1, <2>2
<1> QED BY <1>1, <1>2
-----------------------------------------------------------------------------
(* The steps of AccessGrant.                                               *)

Quiet == UNCHANGED <<stored, request, trigger>>

\* What a step may do to the Request it moves.
Moves(r) ==
  \/ stored[r] = "none" /\ stored'[r] = "live" /\ request'[r].status = "PENDING"
     /\ Waiting(request'[r])
  \/ stored[r] = "live" /\ stored'[r] = "deleted" /\ request'[r] = request[r]
  \/ stored[r] = "live" /\ stored'[r] = "live" /\ Follows(request[r], request'[r])

Moved(r) ==
  /\ Moves(r)
  /\ \A s \in Request \ {r} : stored'[s] = stored[s] /\ request'[s] = request[s]
  /\ UNCHANGED trigger

Granted(r) ==
  /\ \A s \in Request \ {r} : trigger'[s] = trigger[s]
  /\ UNCHANGED <<stored, request>>

Classified == Quiet \/ (\E r \in Request : Moved(r) \/ Granted(r))

LEMMA WriteMoves ==
  ASSUME IInv, NEW r \in Request, NEW req, Live(r), Write(r, req), UNCHANGED trigger,
         Follows(request[r], req)
  PROVE  Classified
<1>1. request' = [request EXCEPT ![r] = req] /\ stored' = stored /\ stored[r] = "live"
  BY DEF Write, Live
<1>2. stored \in [Request -> {"none", "live", "deleted"}] /\ request \in [Request -> RequestType]
  BY DEF IInv, TypeOK
<1>3. Moves(r)
  BY <1>1, <1>2 DEF Moves
<1> QED BY <1>1, <1>2, <1>3 DEF Classified, Moved

\* A compare-and-swap acts on the stored version or not at all.
LEMMA SwapMoves ==
  ASSUME IInv, PendingOK, NEW r \in Request, NEW copy \in CopyType, CopyOK(r, copy),
         NEW req, CompareAndSwap(r, copy.rv, req), UNCHANGED trigger,
         Waiting(copy.req) => Follows(copy.req, req)
  PROVE  Classified
<1>1. CASE Live(r) /\ version[r] = copy.rv
  <2>1. copy.req = request[r] /\ Write(r, req)
    BY <1>1 DEF CopyOK, CompareAndSwap
  <2>2. Waiting(copy.req)
    BY <2>1 DEF PendingOK
  <2> QED BY <1>1, <2>1, <2>2, WriteMoves
<1>2. CASE ~(Live(r) /\ version[r] = copy.rv)
  BY <1>2 DEF CompareAndSwap, store, Classified, Quiet
<1> QED BY <1>1, <1>2

LEMMA ApiMoves ==
  ASSUME IInv, PendingOK, Api
  PROVE  Classified
<1>0. /\ stored \in [Request -> {"none", "live", "deleted"}]
      /\ request \in [Request -> RequestType] /\ now \in Nat
  BY DEF IInv, TypeOK
<1>1. ASSUME NEW r \in Request, NEW duration \in Durations, NEW deadline \in Deadlines,
             CreateRequest(r, duration, deadline)
      PROVE  Classified
  <2>1. /\ stored[r] = "none" /\ stored' = [stored EXCEPT ![r] = "live"]
        /\ request' = [request EXCEPT ![r] = NewRequest(duration, deadline)]
        /\ trigger' = trigger
    BY <1>1 DEF CreateRequest, triggers
  <2>2. NewRequest(duration, deadline).status = "PENDING" /\ Waiting(NewRequest(duration, deadline))
    BY DEF NewRequest, Waiting
  <2>3. Moves(r)
    BY <1>0, <2>1, <2>2 DEF Moves
  <2> QED BY <1>0, <2>1, <2>3 DEF Classified, Moved
<1>2. ASSUME NEW r \in Request, NEW duration \in Durations, NEW deadline \in Deadlines,
             UpdateRequest(r, duration, deadline)
      PROVE  Classified
  <2> DEFINE req == [request[r] EXCEPT !.duration = duration, !.deadline = deadline]
  <2>1. Live(r) /\ Write(r, req) /\ trigger' = trigger
    BY <1>2 DEF UpdateRequest, triggers
  <2>2. Follows(request[r], req)
    BY <1>0 DEF Follows, SamePhase, RequestType, PendingOK, Waiting
  <2> QED BY <2>1, <2>2, WriteMoves
<1>3. ASSUME NEW r \in Request, CancelRequest(r) \/ RevokeRequest(r)
      PROVE  Classified
  <2>1. PICK status \in Final :
          /\ Live(r) /\ request[r].status \in {"PENDING", "APPROVED"}
          /\ Write(r, SetState(request[r], status, now)) /\ trigger' = trigger
    BY <1>3 DEF CancelRequest, RevokeRequest, Final, triggers
  <2> QED BY <1>0, <2>1, EndFollows, WriteMoves
<1>4. ASSUME NEW r \in Request, DeleteRequest(r)
      PROVE  Classified
  <2>1. /\ stored[r] = "live" /\ stored' = [stored EXCEPT ![r] = "deleted"]
        /\ request' = request /\ trigger' = trigger
    BY <1>4 DEF DeleteRequest, Live, triggers
  <2>2. Moves(r)
    BY <1>0, <2>1 DEF Moves
  <2> QED BY <1>0, <2>1, <2>2 DEF Classified, Moved
<1>5. ASSUME NEW r \in Request, Review(r)
      PROVE  Classified
  <2>1. /\ Live(r) /\ request[r].status = "PENDING" /\ trigger' = trigger
        /\ \/ Write(r, GotoNextStepOr("APPROVED", request[r], now))
           \/ Write(r, SetState(request[r], "REJECTED", now))
    BY <1>5 DEF Review, triggers
  <2>2. Waiting(request[r])
    BY DEF PendingOK
  <2>3. /\ Follows(request[r], GotoNextStepOr("APPROVED", request[r], now))
        /\ Follows(request[r], SetState(request[r], "REJECTED", now))
    BY <1>0, <2>1, <2>2, GotoNextFollows, EndFollows DEF Final
  <2> QED BY <2>1, <2>3, WriteMoves
<1>6. ASSUME NEW p \in Priorities, UpdateClusterConfig(p)
      PROVE  Classified
  BY <1>6 DEF UpdateClusterConfig, store, triggers, Classified, Quiet
<1> QED BY <1>1, <1>2, <1>3, <1>4, <1>5, <1>6 DEF Api

LEMMA HandlerMoved ==
  ASSUME IInv, PendingOK, NEW t \in Thread, Step(t)
  PROVE  Classified
<1> DEFINE r == work[t].r
           copy == work[t].copy
<1>0. /\ work[t] \in WorkType /\ r \in Request /\ copy \in CopyType
      /\ copy.req \in RequestType /\ now \in Nat /\ work[t].seen.uid \in Nat
      /\ trigger \in [Request -> TriggerType]
  BY DEF IInv, TypeOK, WorkType, CopyType, TriggerType
<1>1. work[t].pc # "idle" => CopyOK(r, copy)
  BY DEF IInv, WorkOK
<1>2. CASE Advance(t)
  <2>1. PICK rule \in AnyRule :
          IF rule.effect = "REVIEW" /\ ~ValidReview(rule) THEN UNCHANGED store
          ELSE CompareAndSwap(r, copy.rv, Reconciled(copy.req, rule, now))
    BY <1>2 DEF Advance, AnyRule
  <2>2. work[t].pc # "idle" /\ UNCHANGED trigger
    BY <1>2 DEF Advance, triggers
  <2>3. Waiting(copy.req) => Follows(copy.req, Reconciled(copy.req, rule, now))
    BY <1>0, ReconciledFollows
  <2>4. CASE CompareAndSwap(r, copy.rv, Reconciled(copy.req, rule, now))
    BY <1>0, <1>1, <2>2, <2>3, <2>4, SwapMoves
  <2>5. CASE UNCHANGED store
    BY <2>2, <2>5 DEF Classified, Quiet, store
  <2> QED BY <2>1, <2>4, <2>5
<1>3. CASE Skip(t) \/ BuildTrigger(t) \/ GetTrigger(t)
  BY <1>3 DEF Skip, BuildTrigger, GetTrigger, store, triggers, Classified, Quiet
<1>4. CASE CreateTrigger(t) \/ CheckExists(t) \/ UpdateTrigger(t) \/ DropTrigger(t)
  <2>1. UNCHANGED <<stored, request>>
    BY <1>4 DEF CreateTrigger, CheckExists, UpdateTrigger, DropTrigger, store
  <2>2. ASSUME NEW s \in Request \ {r}
        PROVE  trigger'[s] = trigger[s]
    BY <1>0, <1>4 DEF CreateTrigger, CheckExists, UpdateTrigger, DropTrigger, triggers
  <2> QED BY <1>0, <2>1, <2>2 DEF Classified, Granted
<1>5. CASE UpdateRef(t)
  <2> DEFINE req == [copy.req EXCEPT !.triggerRef = work[t].seen.uid]
  <2>1. work[t].pc # "idle" /\ UNCHANGED trigger
    BY <1>5 DEF UpdateRef, triggers
  <2>2. Waiting(copy.req) => Follows(copy.req, req)
    BY <1>0 DEF Follows, SamePhase, RequestType, Waiting
  <2>3. CASE CompareAndSwap(r, copy.rv, req)
    BY <1>0, <1>1, <2>1, <2>2, <2>3, SwapMoves
  <2>4. CASE UNCHANGED store
    BY <2>1, <2>4 DEF Classified, Quiet, store
  <2> QED BY <1>5, <2>3, <2>4 DEF UpdateRef
<1> QED BY <1>2, <1>3, <1>4, <1>5 DEF Step

LEMMA SweepMoves ==
  ASSUME IInv, PendingOK, Sweep
  PROVE  Classified
<1>0. request \in [Request -> RequestType] /\ now \in Nat /\ trigger \in [Request -> TriggerType]
  BY DEF IInv, TypeOK
<1>1. ASSUME NEW r \in Request, SweepRequest(r)
      PROVE  Classified
  <2>1. Live(r) /\ Write(r, Checked(request[r], now)) /\ UNCHANGED trigger
    BY <1>1 DEF SweepRequest, triggers
  <2>2. Follows(request[r], Checked(request[r], now))
    BY <1>0, CheckedFollows DEF PendingOK
  <2> QED BY <2>1, <2>2, WriteMoves
<1>2. ASSUME NEW r \in Request, SweepTrigger(r)
      PROVE  Classified
  BY <1>0, <1>2 DEF SweepTrigger, store, Classified, Granted
<1> QED BY <1>1, <1>2 DEF Sweep

\* Every step moves one Request, or changes one PolicyTrigger, or neither.
LEMMA StepMoves ==
  ASSUME IInv, PendingOK, [Next]_vars
  PROVE  Classified
<1>1. CASE Take \/ Tick \/ Crash \/ UNCHANGED vars
  BY <1>1 DEF Take, ListApproved, TakeListed, TakeEvent, Tick, Crash, store, triggers, vars,
              Classified, Quiet
<1>2. ASSUME NEW t \in Thread, Fail(t)
      PROVE  Classified
  BY <1>2 DEF Fail, store, triggers, Classified, Quiet
<1> QED BY <1>1, <1>2, ApiMoves, HandlerMoved, SweepMoves DEF Next

LEMMA NextPending ==
  ASSUME IInv, PendingOK, Classified
  PROVE  PendingOK'
<1> SUFFICES ASSUME NEW s \in Request
             PROVE  Waiting(request'[s])
  BY DEF PendingOK
<1>1. Waiting(request[s])
  BY DEF PendingOK
<1>2. CASE request'[s] = request[s]
  BY <1>1, <1>2
<1>3. CASE request'[s] # request[s]
  <2>1. Moved(s)
    BY <1>3 DEF Classified, Quiet, Granted, Moved
  <2> QED BY <1>1, <2>1, FollowsWaiting DEF Moved, Moves
<1> QED BY <1>2, <1>3
-----------------------------------------------------------------------------
(* The refinement mapping.                                                 *)

LEMMA InitRefines == Init => Lifecycle!Init
BY DEF Init, Lifecycle!Init, Phase, NoTrigger, NewRequest, Nil

LEMMA MoveRefines ==
  ASSUME IInv, IInv', PendingOK, NEW r \in Request, Moved(r)
  PROVE  [Lifecycle!Next]_(Lifecycle!vars)
<1> DEFINE phase == [s \in Request |-> Phase(s)]
           window == [s \in Request |-> request[s].accessEndsAt]
           granted == [s \in Request |-> trigger[s].notAfter]
<1>1. \A s \in Request : phase[s] = Phase(s) /\ phase'[s] = Phase(s)'
                        /\ window[s] = request[s].accessEndsAt /\ window'[s] = request'[s].accessEndsAt
  OBVIOUS
<1>2. granted' = granted
  BY DEF Moved
<1>3. \A s \in Request \ {r} : phase'[s] = phase[s] /\ window'[s] = window[s]
  BY DEF Moved, Phase, Ended
<1>4. phase' = [phase EXCEPT ![r] = phase'[r]] /\ window' = [window EXCEPT ![r] = window'[r]]
  BY <1>3
<1>5. /\ request[r] \in RequestType /\ request'[r] \in RequestType
      /\ window[r] \in Nat /\ window'[r] \in Nat
  BY <1>1 DEF IInv, TypeOK, RequestType
<1>7. /\ Lifecycle!Open(r) <=> /\ phase[r] = "absent" /\ phase' = [phase EXCEPT ![r] = "pending"]
                            /\ UNCHANGED <<window, granted>>
      /\ Lifecycle!Close(r) <=> /\ phase[r] \in {"pending", "approved"}
                             /\ phase' = [phase EXCEPT ![r] = "closed"]
                             /\ UNCHANGED <<window, granted>>
      /\ Lifecycle!Approve(r) <=> /\ phase[r] = "pending" /\ phase' = [phase EXCEPT ![r] = "approved"]
                               /\ window'[r] \in Nat /\ window' = [window EXCEPT ![r] = window'[r]]
                               /\ UNCHANGED granted
      /\ Lifecycle!FixWindow(r) <=> /\ phase[r] = "approved" /\ window[r] = 0
                                 /\ \E next \in {"approved", "closed"} : phase' = [phase EXCEPT ![r] = next]
                                 /\ window'[r] \in Nat /\ window' = [window EXCEPT ![r] = window'[r]]
                                 /\ UNCHANGED granted
  BY DEF Lifecycle!Open, Lifecycle!Close, Lifecycle!Approve, Lifecycle!FixWindow, Lifecycle!NewWindow
<1>8. \/ Lifecycle!Open(r) \/ Lifecycle!Close(r) \/ Lifecycle!Approve(r) \/ Lifecycle!FixWindow(r)
      \/ UNCHANGED <<phase, window, granted>>
     => [Lifecycle!Next]_(Lifecycle!vars)
  <2>1. CASE UNCHANGED <<phase, window, granted>>
    BY <2>1 DEF Lifecycle!vars
  <2>2. CASE Lifecycle!Open(r) \/ Lifecycle!Close(r) \/ Lifecycle!Approve(r) \/ Lifecycle!FixWindow(r)
    <3>1. Lifecycle!Next
      BY <2>2 DEF Lifecycle!Next
    <3> QED BY <3>1
  <2> QED BY <2>1, <2>2
<1>9. phase[r] = Phase(r) /\ phase'[r] = Phase(r)'
  BY <1>1
<1>10. window[r] = request[r].accessEndsAt /\ window'[r] = request'[r].accessEndsAt
  BY <1>1
<1>11. window'[r] = window[r] => UNCHANGED window
  BY <1>3
<1>12. phase'[r] = phase[r] => UNCHANGED phase
  BY <1>3
<1> HIDE DEF phase, window, granted
<1>13. CASE stored[r] = "none" /\ stored'[r] = "live" /\ request'[r].status = "PENDING"
           /\ Waiting(request'[r])
  <2>1. phase[r] = "absent" /\ phase'[r] = "pending"
    BY <1>9, <1>13 DEF Phase, Ended, Final
  <2>2. window'[r] = window[r]
    BY <1>10, <1>13 DEF IInv, AbsentOK, Waiting
  <2> QED BY <1>2, <1>4, <1>7, <1>8, <1>11, <2>1, <2>2
<1>14. CASE stored[r] = "live" /\ stored'[r] = "deleted" /\ request'[r] = request[r]
  <2>1. phase[r] \in {"pending", "approved", "closed"} /\ phase'[r] = "closed"
    BY <1>9, <1>14 DEF Phase, Ended
  <2>2. window'[r] = window[r]
    BY <1>10, <1>14
  <2> QED BY <1>2, <1>4, <1>7, <1>8, <1>11, <1>12, <2>1, <2>2
<1>15. CASE stored[r] = "live" /\ stored'[r] = "live" /\ Follows(request[r], request'[r])
  <2>0. /\ phase[r] = IF request[r].status \in Final THEN "closed"
                      ELSE IF request[r].status = "PENDING" THEN "pending" ELSE "approved"
        /\ phase'[r] = IF request'[r].status \in Final THEN "closed"
                       ELSE IF request'[r].status = "PENDING" THEN "pending" ELSE "approved"
    BY <1>9, <1>15 DEF Phase, Ended
  <2>1. CASE SamePhase(request[r], request'[r])
    <3>1. phase'[r] = phase[r] /\ window'[r] = window[r]
      BY <1>10, <2>0, <2>1 DEF SamePhase
    <3> QED BY <1>2, <1>8, <1>11, <1>12, <3>1
  <2>2. CASE Ends(request[r], request'[r])
    <3>1. phase[r] \in {"pending", "approved"} /\ phase'[r] = "closed" /\ window'[r] = window[r]
      BY <1>10, <2>0, <2>2 DEF Ends, Final
    <3> QED BY <1>2, <1>4, <1>7, <1>8, <1>11, <3>1
  <2>3. CASE IsApproved(request[r], request'[r])
    <3>1. phase[r] = "pending" /\ phase'[r] = "approved"
      BY <2>0, <2>3 DEF IsApproved, Final
    <3> QED BY <1>2, <1>4, <1>5, <1>7, <1>8, <3>1
  <2>4. CASE GetsWindow(request[r], request'[r])
    <3>1. phase[r] = "approved" /\ phase'[r] \in {"approved", "closed"} /\ window[r] = 0
      BY <1>10, <2>0, <2>4 DEF GetsWindow, Final, Nil
    <3> QED BY <1>2, <1>4, <1>5, <1>7, <1>8, <3>1
  <2> QED BY <1>15, <2>1, <2>2, <2>3, <2>4 DEF Follows
<1> QED BY <1>13, <1>14, <1>15 DEF Moved, Moves

LEMMA GrantRefines ==
  ASSUME IInv, IInv', NEW r \in Request, Granted(r)
  PROVE  [Lifecycle!Next]_(Lifecycle!vars)
<1> DEFINE phase == [s \in Request |-> Phase(s)]
           window == [s \in Request |-> request[s].accessEndsAt]
           granted == [s \in Request |-> trigger[s].notAfter]
<1>1. phase' = phase /\ window' = window
  BY DEF Granted, Phase, Ended
<1>2. granted' = [granted EXCEPT ![r] = trigger'[r].notAfter]
  BY DEF Granted
<1>3. CASE trigger'[r] = NoTrigger
  <2>1. trigger'[r].notAfter = 0
    BY <1>3 DEF NoTrigger, Nil
  <2>2. Lifecycle!Withdraw(r)
    BY <1>1, <1>2, <2>1 DEF Lifecycle!Withdraw
  <2> QED BY <2>2 DEF Lifecycle!Next
<1>4. CASE trigger'[r] # NoTrigger
  <2>1. trigger'[r].notAfter = window[r] /\ window[r] # 0
    BY <1>4 DEF IInv, TriggerWithinWindow, Granted, Nil
  <2>2. Lifecycle!Grant(r)
    BY <1>1, <1>2, <2>1 DEF Lifecycle!Grant
  <2> QED BY <2>2 DEF Lifecycle!Next
<1> QED BY <1>3, <1>4

LEMMA StepRefines ==
  ASSUME IInv, IInv', PendingOK, [Next]_vars
  PROVE  [Lifecycle!Next]_(Lifecycle!vars)
<1>1. Classified
  BY StepMoves
<1>2. CASE Quiet
  BY <1>2 DEF Quiet, Lifecycle!vars, Phase, Ended
<1> QED BY <1>1, <1>2, MoveRefines, GrantRefines DEF Classified

\* The controllers, the API and the watcher together implement the abstract
\* life of a Request, whatever fails and however often nocturne restarts.
THEOREM Refinement == Spec => ImplementsLifecycle
<1>1. Init => PendingOK
  BY DEF Init, PendingOK, Waiting, NewRequest
<1>2. IInv /\ PendingOK /\ [Next]_vars => PendingOK'
  BY StepMoves, NextPending
<1>3. Spec => [](IInv /\ PendingOK)
  BY <1>1, <1>2, InitIInv, NextIInv, PTL DEF Spec
<1>4. IInv /\ IInv' /\ PendingOK /\ [Next]_vars => [Lifecycle!Next]_(Lifecycle!vars)
  BY StepRefines
<1> QED BY <1>3, <1>4, InitRefines, PTL DEF Spec, ImplementsLifecycle, Lifecycle!Spec
=============================================================================
