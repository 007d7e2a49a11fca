------------------------- MODULE AgentStreamProofs -------------------------
(***************************************************************************)
(* Proofs about AgentStream, for any runs, calls, results and bounds, with *)
(* lost connections, late answers and restarts: the events of a run give   *)
(* its answer, approvals are truthful, nothing is carried out after a      *)
(* cancellation, and the client shows what the events give.                *)
(*                                                                         *)
(* ServerInv is about the server alone.  A run at work is Good: its events *)
(* explain its answer (Explained), it says that it waits exactly while an  *)
(* approval is pending, and only the last event of a run says that it is   *)
(* over (InShape).  What RunManager does to a run keeps it Good and only   *)
(* lets its events grow (Goes).                                            *)
(*                                                                         *)
(* ClientInv is about the client as long as no load has overtaken the      *)
(* stream: the view of the run it follows, and the answer to each load     *)
(* under way, are what the events of that run give up to a number          *)
(* (ViewAt); what it has of other runs is nothing or the answer stored     *)
(* (OthersOK); the subscription is the one the view wants (SourceOK).  It  *)
(* uses of the server only that the events of a known run grow and that a  *)
(* run that is over stays as it is (Steps), so a step of the server keeps  *)
(* it whatever the step is (ClientStays).                                  *)
(*                                                                         *)
(* Handlers that walk over a list are functions defined by recursion; what *)
(* these compute is shown by induction over the length of the list, which  *)
(* is stated on sets of numbers (UpTo) and follows from the least element  *)
(* of such a set.                                                          *)
(***************************************************************************)
EXTENDS AgentStream, SequenceTheorems, FiniteSetTheorems, WellFoundedInduction, TLAPS

-----------------------------------------------------------------------------
(* Induction over a set of numbers.                                        *)

\* A set of numbers has a least one.
LEMMA Least ==
  ASSUME NEW T, T \subseteq Nat, T # {}
  PROVE  \E x \in T : \A y \in T : x <= y
<1>1. PICK x \in T : \A y \in T : ~(<<y, x>> \in OpToRel(<, Nat))
  BY WFMin, NatLessThanWellFounded
<1>2. \A y \in T : ~ (y < x)
  BY <1>1 DEF OpToRel
<1> QED BY <1>2

\* Induction up to n.
LEMMA UpTo ==
  ASSUME NEW n \in Nat, NEW G, 0 \in G, \A i \in 1 .. n : i - 1 \in G => i \in G
  PROVE  0 .. n \subseteq G
<1> DEFINE T == (0 .. n) \ G
<1>1. SUFFICES ASSUME T # {} PROVE FALSE
  OBVIOUS
<1>2. PICK k \in T : \A j \in T : k <= j
  <2>1. T \subseteq Nat
    OBVIOUS
  <2> HIDE DEF T
  <2> QED BY <2>1, <1>1, Least
<1>3. k \in 1 .. n /\ k - 1 \in 0 .. n /\ k - 1 \notin T
  BY <1>2
<1> QED BY <1>2, <1>3

\* Induction over all numbers.
LEMMA ForAllNat ==
  ASSUME NEW G, 0 \in G, \A i \in Nat \ {0} : i - 1 \in G => i \in G
  PROVE  Nat \subseteq G
<1>1. ASSUME NEW n \in Nat PROVE n \in G
  <2>1. 0 .. n \subseteq G
    BY UpTo
  <2> QED BY <2>1
<1> QED BY <1>1

-----------------------------------------------------------------------------
(* The functions that are defined by recursion exist.                      *)

\* g(0), g(1), ... are what more and more of the events give.
Replays(g, events, n) ==
  g = [i \in 0 .. n |-> IF i = 0 THEN Blank ELSE Apply(g[i - 1], events[i])]

\* The recursion of Replay defines a function.
LEMMA ReplaysExist ==
  ASSUME NEW events, NEW n \in Nat
  PROVE  \E g : Replays(g, events, n)
<1> DEFINE G == {k \in Nat : \E g : Replays(g, events, k)}
<1>1. 0 \in G
  <2>1. Replays([i \in 0 .. 0 |-> Blank], events, 0)
    BY DEF Replays
  <2> QED BY <2>1
<1>2. ASSUME NEW k \in Nat \ {0}, k - 1 \in G PROVE k \in G
  <2>1. PICK g : Replays(g, events, k - 1)
    BY <1>2
  <2> DEFINE h == [i \in 0 .. k |-> IF i = k THEN Apply(g[k - 1], events[k]) ELSE g[i]]
  <2>2. Replays(h, events, k)
    BY <2>1 DEF Replays
  <2> HIDE DEF h
  <2> QED BY <2>2
<1> HIDE DEF G
<1>3. Nat \subseteq G
  BY <1>1, <1>2, ForAllNat
<1> QED BY <1>3 DEF G

\* Replay is the last value of that function.
LEMMA ReplayIs ==
  ASSUME NEW events, NEW n \in Nat
  PROVE  \E g : Replays(g, events, n) /\ Replay(events, n) = g[n]
<1> DEFINE f == CHOOSE g : Replays(g, events, n)
<1>1. Replays(f, events, n)
  BY ReplaysExist
<1>2. Replay(events, n) = f[n]
  BY DEF Replay, Replays
<1> QED BY <1>1, <1>2

\* The first events alone decide what they give.
LEMMA ReplaysAgree ==
  ASSUME NEW a, NEW b, NEW m \in Nat, NEW k \in Nat, k <= m, \A i \in 1 .. k : a[i] = b[i],
         NEW f, NEW g, Replays(f, a, m), Replays(g, b, k)
  PROVE  f[k] = g[k]
<1> DEFINE G == {i \in 0 .. k : f[i] = g[i]}
<1>1. 0 \in G
  BY DEF Replays
<1>2. ASSUME NEW i \in 1 .. k, i - 1 \in G PROVE i \in G
  <2>1. f[i] = Apply(f[i - 1], a[i]) /\ g[i] = Apply(g[i - 1], b[i])
    BY DEF Replays
  <2> QED BY <1>2, <2>1
<1> HIDE DEF G
<1>3. 0 .. k \subseteq G
  BY <1>1, <1>2, UpTo
<1> QED BY <1>3 DEF G

\* More events behind them change nothing of what the first ones give.
LEMMA ReplayPrefix ==
  ASSUME NEW a, NEW b, NEW n \in Nat, \A i \in 1 .. n : a[i] = b[i]
  PROVE  Replay(a, n) = Replay(b, n)
<1>1. PICK f : Replays(f, a, n) /\ Replay(a, n) = f[n]
  BY ReplayIs
<1>2. PICK g : Replays(g, b, n) /\ Replay(b, n) = g[n]
  BY ReplayIs
<1>3. f[n] = g[n]
  BY <1>1, <1>2, ReplaysAgree
<1> QED BY <1>1, <1>2, <1>3

\* One event after the other.
LEMMA ReplayNext ==
  ASSUME NEW events
  PROVE  /\ Replay(events, 0) = Blank
         /\ \A n \in Nat \ {0} : Replay(events, n) = Apply(Replay(events, n - 1), events[n])
<1>1. Replay(events, 0) = Blank
  <2>1. PICK g : Replays(g, events, 0) /\ Replay(events, 0) = g[0]
    BY ReplayIs
  <2> QED BY <2>1 DEF Replays
<1>2. ASSUME NEW n \in Nat \ {0} PROVE Replay(events, n) = Apply(Replay(events, n - 1), events[n])
  <2>1. PICK f : Replays(f, events, n) /\ Replay(events, n) = f[n]
    BY ReplayIs
  <2>2. PICK g : Replays(g, events, n - 1) /\ Replay(events, n - 1) = g[n - 1]
    BY ReplayIs
  <2>3. f[n - 1] = g[n - 1]
    <3> DEFINE k == n - 1
    <3>1. n \in Nat /\ k \in Nat /\ k <= n /\ \A i \in 1 .. k : events[i] = events[i]
      OBVIOUS
    <3>2. Replays(g, events, k)
      BY <2>2
    <3> HIDE DEF k
    <3>3. f[k] = g[k]
      BY <2>1, <3>1, <3>2, ReplaysAgree, SMTT(60)
    <3> QED BY <3>3 DEF k
  <2>4. f[n] = Apply(f[n - 1], events[n])
    BY <2>1 DEF Replays
  <2> QED BY <2>1, <2>2, <2>3, <2>4
<1> QED BY <1>1, <1>2

\* The approvals of a run are dismissed one after the other.
LEMMA DismissedIs ==
  ASSUME NEW s, SetToSeq(s.approvals) \in Seq(Call)
  PROVE  LET q == SetToSeq(s.approvals) IN
         \E g : /\ g[0] = s /\ Dismissed(s) = g[Len(q)]
                /\ \A i \in 1 .. Len(q) : g[i] = Finished(g[i - 1], q[i], "cancelled")
<1> DEFINE q == SetToSeq(s.approvals)
           Is(g, n) == g = [i \in 0 .. n |-> IF i = 0 THEN s ELSE Finished(g[i - 1], q[i], "cancelled")]
           G == {k \in Nat : \E g : Is(g, k)}
           f == CHOOSE g : Is(g, Len(q))
<1>1. Len(q) \in Nat
  OBVIOUS
<1>2. Dismissed(s) = f[Len(q)]
  BY DEF Dismissed
<1> HIDE DEF q
<1>3. 0 \in G
  <2>1. Is([i \in 0 .. 0 |-> s], 0)
    OBVIOUS
  <2> QED BY <2>1
<1>4. ASSUME NEW k \in Nat \ {0}, k - 1 \in G PROVE k \in G
  <2>1. PICK g : Is(g, k - 1)
    BY <1>4
  <2> DEFINE h == [i \in 0 .. k |-> IF i = k THEN Finished(g[k - 1], q[k], "cancelled") ELSE g[i]]
  <2>2. Is(h, k)
    BY <2>1
  <2> HIDE DEF h
  <2> QED BY <2>2
<1>5. \E g : Is(g, Len(q))
  <2> HIDE DEF G
  <2>1. Nat \subseteq G
    BY <1>3, <1>4, ForAllNat
  <2> QED BY <1>1, <2>1 DEF G
<1>6. Is(f, Len(q))
  <2> HIDE DEF Is
  <2> QED BY <1>5
<1>7. f[0] = s /\ \A i \in 1 .. Len(q) : f[i] = Finished(f[i - 1], q[i], "cancelled")
  <2> HIDE DEF f
  <2> QED BY <1>1, <1>6
<1> HIDE DEF f
<1> QED BY <1>2, <1>7 DEF q

\* The tools of a run are settled one after the other.
LEMMA SettledIs ==
  ASSUME NEW s, SetToSeq({c \in Call : s.message.tool[c] \in Open}) \in Seq(Call)
  PROVE  LET q == SetToSeq({c \in Call : s.message.tool[c] \in Open})
             end == IF s.aborted THEN "cancelled" ELSE "failed"
         IN \E g : /\ g[0] = s /\ Settled(s) = g[Len(q)]
                   /\ \A i \in 1 .. Len(q) : g[i] = SetTool(g[i - 1], q[i], end)
<1> DEFINE q == SetToSeq({c \in Call : s.message.tool[c] \in Open})
           end == IF s.aborted THEN "cancelled" ELSE "failed"
           Is(g, n) == g = [i \in 0 .. n |-> IF i = 0 THEN s ELSE SetTool(g[i - 1], q[i], end)]
           G == {k \in Nat : \E g : Is(g, k)}
           f == CHOOSE g : Is(g, Len(q))
<1>1. Len(q) \in Nat
  OBVIOUS
<1>2. Settled(s) = f[Len(q)]
  BY DEF Settled
<1> HIDE DEF q, end
<1>3. 0 \in G
  <2>1. Is([i \in 0 .. 0 |-> s], 0)
    OBVIOUS
  <2> QED BY <2>1
<1>4. ASSUME NEW k \in Nat \ {0}, k - 1 \in G PROVE k \in G
  <2>1. PICK g : Is(g, k - 1)
    BY <1>4
  <2> DEFINE h == [i \in 0 .. k |-> IF i = k THEN SetTool(g[k - 1], q[k], end) ELSE g[i]]
  <2>2. Is(h, k)
    BY <2>1
  <2> HIDE DEF h
  <2> QED BY <2>2
<1>5. \E g : Is(g, Len(q))
  <2> HIDE DEF G
  <2>1. Nat \subseteq G
    BY <1>3, <1>4, ForAllNat
  <2> QED BY <1>1, <2>1 DEF G
<1>6. Is(f, Len(q))
  <2> HIDE DEF Is
  <2> QED BY <1>5
<1>7. f[0] = s /\ \A i \in 1 .. Len(q) : f[i] = SetTool(f[i - 1], q[i], end)
  <2> HIDE DEF f
  <2> QED BY <1>1, <1>6
<1> HIDE DEF f
<1> QED BY <1>2, <1>7 DEF q, end

\* The events of a queue are applied one after the other.
LEMMA ShownIs ==
  ASSUME NEW state, NEW e, NEW n \in Nat, n = e.recv - e.seen
  PROVE  \E g : /\ g[0] = state /\ Shown(state, e) = g[n]
                /\ \A i \in 1 .. n : g[i] = applyEvent(g[i - 1], e.sub, e.seen + i)
<1> DEFINE Is(g, m) == g = [i \in 0 .. m |-> IF i = 0 THEN state ELSE applyEvent(g[i - 1], e.sub, e.seen + i)]
           G == {k \in Nat : \E g : Is(g, k)}
           f == CHOOSE g : Is(g, n)
<1>2. Shown(state, e) = f[n]
  BY DEF Shown
<1>3. 0 \in G
  <2>1. Is([i \in 0 .. 0 |-> state], 0)
    OBVIOUS
  <2> QED BY <2>1
<1>4. ASSUME NEW k \in Nat \ {0}, k - 1 \in G PROVE k \in G
  <2>1. PICK g : Is(g, k - 1)
    BY <1>4
  <2> DEFINE h == [i \in 0 .. k |-> IF i = k THEN applyEvent(g[k - 1], e.sub, e.seen + k) ELSE g[i]]
  <2>2. Is(h, k)
    BY <2>1
  <2> HIDE DEF h
  <2> QED BY <2>2
<1>5. \E g : Is(g, n)
  <2> HIDE DEF G
  <2>1. Nat \subseteq G
    BY <1>3, <1>4, ForAllNat
  <2> QED BY <2>1 DEF G
<1>6. Is(f, n)
  <2> HIDE DEF Is
  <2> QED BY <1>5
<1>7. f[0] = state /\ \A i \in 1 .. n : f[i] = applyEvent(f[i - 1], e.sub, e.seen + i)
  <2> HIDE DEF f
  <2> QED BY <1>6
<1> HIDE DEF f
<1> QED BY <1>2, <1>7

\* The elements of a finite set of calls, in some order.
LEMMA CallsInSeq ==
  ASSUME NEW S \in SUBSET Call
  PROVE  /\ SetToSeq(S) \in Seq(Call)
         /\ \A c : c \in S <=> \E i \in 1 .. Len(SetToSeq(S)) : SetToSeq(S)[i] = c
         /\ \A i, j \in 1 .. Len(SetToSeq(S)) : SetToSeq(S)[i] = SetToSeq(S)[j] => i = j
<1>1. IsFiniteSet(S)
  BY StreamAssumption, FS_Subset
<1>2. Cardinality(S) \in Nat /\ ExistsBijection(1 .. Cardinality(S), S)
  BY <1>1, FS_CardinalityType
<1>3. \E f \in [1 .. Cardinality(S) -> S] : IsInjective(f)
  BY <1>2 DEF ExistsBijection, Bijection, Injection
<1>4. SetToSeq(S) \in [1 .. Cardinality(S) -> S] /\ IsInjective(SetToSeq(S))
  BY <1>3 DEF SetToSeq
<1>5. SetToSeq(S) \in Injection(1 .. Cardinality(S), S)
  BY <1>4 DEF Injection
<1>6. SetToSeq(S) \in Surjection(1 .. Cardinality(S), S)
  <2>1. IsFiniteSet(1 .. Cardinality(S)) /\ Cardinality(1 .. Cardinality(S)) = Cardinality(S)
    BY <1>2, FS_Interval
  <2> QED BY <1>1, <1>5, <2>1, FS_Injection
<1>7. SetToSeq(S) \in Seq(S) /\ Len(SetToSeq(S)) = Cardinality(S)
  BY <1>2, <1>4
<1>8. SetToSeq(S) \in Seq(Call)
  BY <1>2, <1>4
<1> QED BY <1>4, <1>6, <1>7, <1>8 DEF Surjection, IsInjective

-----------------------------------------------------------------------------
(* Types.                                                                  *)

RunStatus == Outcome \cup {"running", "awaiting_approval"}

ToolStatus == Outcome \cup Open \cup {"none", "rejected"}

ApprovalStatus == {"none", "pending", "approved", "rejected", "cancelled"}

MessageType ==
  [there : BOOLEAN, status : Outcome \cup {"streaming", "interrupted"}, text : Nat,
   tool : [Call -> ToolStatus], approval : [Call -> ApprovalStatus]]

EventType ==
  [kind : {"run"}, status : RunStatus] \cup [kind : {"message"}, message : MessageType]
  \cup [kind : {"text created"}] \cup [kind : {"text updated", "delta"}, text : Nat]
  \cup [kind : {"tool"}, call : Call, status : ToolStatus]
  \cup [kind : {"approval"}, call : Call, status : ApprovalStatus]

RunType ==
  [st : {"unused", "active", "done", "gone"}, status : RunStatus, aborted : BOOLEAN, buffered : Nat,
   approvals : SUBSET Call, message : MessageType, events : Seq(EventType)]

-----------------------------------------------------------------------------
(* Events and the answer they give.                                        *)

\* What an event carries, by its kind.
LEMMA EventKinds ==
  ASSUME NEW e \in EventType
  PROVE  \/ e.kind = "run" /\ e.status \in RunStatus
         \/ e.kind = "message" /\ e.message \in MessageType
         \/ e.kind = "text created"
         \/ e.kind \in {"text updated", "delta"} /\ e.text \in Nat
         \/ e.kind = "tool" /\ e.call \in Call /\ e.status \in ToolStatus
         \/ e.kind = "approval" /\ e.call \in Call /\ e.status \in ApprovalStatus
BY DEF EventType

\* An answer that is not there has its type.
LEMMA BlankType == Blank \in MessageType
BY DEF Blank, MessageType, ToolStatus, ApprovalStatus, Outcome

\* An event makes an answer of an answer.
LEMMA ApplyType ==
  ASSUME NEW m \in MessageType, NEW e \in EventType
  PROVE  Apply(m, e) \in MessageType
<1>1. CASE e.kind = "run"
  BY <1>1 DEF Apply
<1>2. CASE e.kind = "message" /\ e.message \in MessageType
  BY <1>2 DEF Apply
<1>3. CASE e.kind = "text created"
  BY <1>3 DEF Apply, MessageType
<1>4. CASE e.kind \in {"text updated", "delta"} /\ e.text \in Nat
  <2>1. m.text + e.text \in Nat
    <3>1. m.text \in Nat
      BY DEF MessageType
    <3>2. e.text \in Nat
      BY <1>4
    <3> QED BY <3>1, <3>2
  <2>2. \A n \in Nat : [m EXCEPT !.text = n] \in MessageType
    BY DEF MessageType
  <2>3. Apply(m, e) \in {m, [m EXCEPT !.text = e.text], [m EXCEPT !.text = m.text + e.text]}
    BY <1>4 DEF Apply
  <2> QED BY <1>4, <2>1, <2>2, <2>3
<1>5. CASE e.kind = "tool" /\ e.call \in Call /\ e.status \in ToolStatus
  <2>1. [m EXCEPT !.tool[e.call] = e.status] \in MessageType
    BY <1>5 DEF MessageType
  <2>2. Apply(m, e) \in {m, [m EXCEPT !.tool[e.call] = e.status]}
    BY <1>5 DEF Apply
  <2> QED BY <2>1, <2>2
<1>6. CASE e.kind = "approval" /\ e.call \in Call /\ e.status \in ApprovalStatus
  BY <1>6 DEF Apply, MessageType
<1> QED BY <1>1, <1>2, <1>3, <1>4, <1>5, <1>6, EventKinds

\* Events give an answer.
LEMMA ReplayType ==
  ASSUME NEW events \in Seq(EventType), NEW n \in 0 .. Len(events)
  PROVE  Replay(events, n) \in MessageType
<1> DEFINE G == {i \in 0 .. n : Replay(events, i) \in MessageType}
<1>1. 0 \in G
  BY ReplayNext, BlankType
<1>2. ASSUME NEW i \in 1 .. n, i - 1 \in G PROVE i \in G
  <2>1. events[i] \in EventType /\ i \in Nat \ {0}
    OBVIOUS
  <2> QED BY <1>2, <2>1, ReplayNext, ApplyType
<1> HIDE DEF G
<1>3. 0 .. n \subseteq G
  BY <1>1, <1>2, UpTo
<1> QED BY <1>3 DEF G

\* b begins with the events of a.
Extends(a, b) == Len(a) <= Len(b) /\ \A i \in 1 .. Len(a) : b[i] = a[i]

\* Sequences of events that grow twice have grown.
LEMMA ExtendsTransitive ==
  ASSUME NEW a \in Seq(EventType), NEW b \in Seq(EventType), NEW c \in Seq(EventType), Extends(a, b), Extends(b, c)
  PROVE  Extends(a, c)
BY DEF Extends

\* Events behind the first n change nothing of what these give.
LEMMA ExtendsReplay ==
  ASSUME NEW a \in Seq(EventType), NEW b \in Seq(EventType), Extends(a, b), NEW n \in 0 .. Len(a)
  PROVE  Replay(b, n) = Replay(a, n)
<1>1. n \in Nat /\ \A i \in 1 .. n : a[i] = b[i]
  BY DEF Extends
<1> QED BY <1>1, ReplayPrefix

\* An event behind the others.
LEMMA ReplayAppend ==
  ASSUME NEW events \in Seq(EventType), NEW e \in EventType
  PROVE  /\ Append(events, e) \in Seq(EventType) /\ Extends(events, Append(events, e))
         /\ Len(Append(events, e)) = Len(events) + 1 /\ Append(events, e)[Len(events) + 1] = e
         /\ Replay(Append(events, e), Len(events) + 1) = Apply(Replay(events, Len(events)), e)
<1> DEFINE b == Append(events, e)
<1>1. /\ b \in Seq(EventType) /\ Extends(events, b)
      /\ Len(b) = Len(events) + 1 /\ b[Len(events) + 1] = e
  BY DEF Extends
<1> HIDE DEF b
<1>2. Replay(b, Len(events)) = Replay(events, Len(events))
  BY <1>1, ExtendsReplay
<1>3. Len(events) + 1 \in Nat \ {0} /\ (Len(events) + 1) - 1 = Len(events)
  OBVIOUS
<1>4. Replay(b, Len(events) + 1) = Apply(Replay(b, Len(events)), b[Len(events) + 1])
  BY <1>3, ReplayNext
<1> QED BY <1>1, <1>2, <1>4 DEF b

-----------------------------------------------------------------------------
(* What emits events.                                                      *)

\* The events and the deltas that wait give the answer.
Explained(s) ==
  LET m == Replay(s.events, Len(s.events)) IN
  /\ s.message = [m EXCEPT !.text = @ + s.buffered] /\ m.there
  /\ s.buffered > 0 => m.text > 0

\* The runs s and t differ in their events and deltas only.
SameFields(s, t) ==
  /\ t.st = s.st /\ t.status = s.status /\ t.aborted = s.aborted
  /\ t.approvals = s.approvals /\ t.message = s.message

\* t has more events than s, none of them the last of a run.
GoesOn(s, t) ==
  /\ Extends(s.events, t.events)
  /\ \A n \in Len(s.events) + 1 .. Len(t.events) : ~Terminal(t.events[n])

\* The events RunManager makes have their type.
LEMMA EventTypes ==
  /\ \A status \in RunStatus : RunIs(status) \in EventType
  /\ \A m \in MessageType : MessageIs(m) \in EventType
  /\ TextCreated \in EventType /\ \A n \in Nat : TextUpdated(n) \in EventType /\ Delta(n) \in EventType
  /\ \A c \in Call, status \in ToolStatus : ToolIs(c, status) \in EventType
  /\ \A c \in Call, status \in ApprovalStatus : ApprovalIs(c, status) \in EventType
BY DEF RunIs, MessageIs, TextCreated, TextUpdated, Delta, ToolIs, ApprovalIs, EventType

\* push adds one event.
LEMMA PushKeeps ==
  ASSUME NEW s \in RunType, NEW e \in EventType
  PROVE  /\ Push(s, e) \in RunType /\ SameFields(s, Push(s, e)) /\ Push(s, e).buffered = s.buffered
         /\ Push(s, e).events = Append(s.events, e) /\ Extends(s.events, Push(s, e).events)
         /\ ~Terminal(e) => GoesOn(s, Push(s, e))
         /\ Replay(Push(s, e).events, Len(Push(s, e).events)) = Apply(Replay(s.events, Len(s.events)), e)
<1>1. s.events \in Seq(EventType)
  BY DEF RunType
<1>2. Append(s.events, e) \in Seq(EventType)
  BY <1>1
<1>3. /\ Push(s, e) \in RunType /\ SameFields(s, Push(s, e)) /\ Push(s, e).buffered = s.buffered
      /\ Push(s, e).events = Append(s.events, e)
  BY <1>2 DEF Push, RunType, SameFields
<1>4. /\ Extends(s.events, Push(s, e).events)
      /\ Len(Push(s, e).events) = Len(s.events) + 1 /\ Push(s, e).events[Len(s.events) + 1] = e
      /\ Replay(Push(s, e).events, Len(Push(s, e).events)) = Apply(Replay(s.events, Len(s.events)), e)
  BY <1>1, <1>3, ReplayAppend
<1>5. ~Terminal(e) => GoesOn(s, Push(s, e))
  BY <1>1, <1>4 DEF GoesOn
<1> QED BY <1>3, <1>4, <1>5

\* flushDeltas leaves no delta waiting and changes nothing of the answer.
LEMMA FlushedKeeps ==
  ASSUME NEW s \in RunType, Explained(s)
  PROVE  /\ Flushed(s) \in RunType /\ SameFields(s, Flushed(s)) /\ Flushed(s).buffered = 0
         /\ GoesOn(s, Flushed(s))
         /\ Replay(Flushed(s).events, Len(Flushed(s).events)) = s.message
<1> DEFINE m == Replay(s.events, Len(s.events))
<1>1. s.events \in Seq(EventType) /\ s.buffered \in Nat
  BY DEF RunType
<1>2. m \in MessageType
  BY <1>1, ReplayType
<1>3. CASE s.buffered = 0
  <2>1. Flushed(s) = s
    BY <1>3 DEF Flushed
  <2>2. s.message = m
    BY <1>2, <1>3 DEF Explained, MessageType
  <2>3. GoesOn(s, s)
    BY <1>1 DEF GoesOn, Extends
  <2> QED BY <1>3, <2>1, <2>2, <2>3 DEF SameFields
<1>4. CASE s.buffered > 0
  <2> DEFINE d == Delta(s.buffered)
             t == Push(s, d)
  <2>1. d \in EventType /\ ~Terminal(d)
    BY <1>1, EventTypes DEF Terminal, Delta
  <2>2. Flushed(s) = [t EXCEPT !.buffered = 0]
    BY <1>4 DEF Flushed
  <2> HIDE DEF d
  <2>3. /\ t \in RunType /\ SameFields(s, t) /\ GoesOn(s, t)
        /\ Replay(t.events, Len(t.events)) = Apply(m, d)
    BY <2>1, PushKeeps
  <2> HIDE DEF t, m
  <2>4. Apply(m, d) = [m EXCEPT !.text = @ + s.buffered]
    BY <1>4 DEF Apply, d, Delta, Explained, m
  <2>5. s.message = [m EXCEPT !.text = @ + s.buffered]
    BY DEF Explained, m
  <2>6. /\ Flushed(s) \in RunType /\ Flushed(s).buffered = 0
        /\ Flushed(s).events = t.events /\ SameFields(t, Flushed(s))
    BY <2>2, <2>3 DEF RunType, SameFields
  <2> QED BY <2>3, <2>4, <2>5, <2>6 DEF SameFields, GoesOn
<1> QED BY <1>1, <1>3, <1>4

\* A change of the answer and the event that says so.
LEMMA EmitKeeps ==
  ASSUME NEW s \in RunType, Explained(s), NEW u \in RunType, u.events = s.events, u.buffered = s.buffered,
         NEW e \in EventType, u.message = Apply(s.message, e), u.message.there, ~Terminal(e)
  PROVE  /\ Emit(u, e) \in RunType /\ SameFields(u, Emit(u, e)) /\ Emit(u, e).buffered = 0
         /\ GoesOn(s, Emit(u, e)) /\ Explained(Emit(u, e))
<1> DEFINE f == Flushed(s)
           g == Flushed(u)
           t == Emit(u, e)
<1>1. /\ f \in RunType /\ f.buffered = 0 /\ GoesOn(s, f)
      /\ Replay(f.events, Len(f.events)) = s.message
  BY FlushedKeeps
<1>2. g \in RunType /\ g.buffered = 0 /\ g.events = f.events /\ SameFields(u, g)
  BY <1>1 DEF Flushed, Push, RunType, SameFields
<1>3. t = Push(g, e)
  BY DEF Emit
<1> HIDE DEF f, g, t
<1>4. /\ t \in RunType /\ SameFields(g, t) /\ t.buffered = g.buffered
      /\ GoesOn(g, t) /\ Replay(t.events, Len(t.events)) = Apply(Replay(g.events, Len(g.events)), e)
  BY <1>2, <1>3, PushKeeps
<1>5. t.message = Replay(t.events, Len(t.events))
  BY <1>1, <1>2, <1>4 DEF SameFields
<1>6. Explained(t)
  <2>1. t.message \in MessageType
    BY <1>4 DEF RunType
  <2> QED BY <1>2, <1>4, <1>5, <2>1 DEF Explained, MessageType, SameFields
<1>7. GoesOn(s, t)
  <2>1. s.events \in Seq(EventType) /\ f.events \in Seq(EventType) /\ t.events \in Seq(EventType)
    BY <1>1, <1>4 DEF RunType
  <2>2. Extends(s.events, t.events)
    BY <1>1, <1>2, <1>4, <2>1, ExtendsTransitive DEF GoesOn
  <2>3. ASSUME NEW n \in Len(s.events) + 1 .. Len(t.events) PROVE ~Terminal(t.events[n])
    <3>1. CASE n \in Len(s.events) + 1 .. Len(f.events)
      <4>1. t.events[n] = f.events[n]
        BY <1>2, <1>4, <2>1, <3>1 DEF GoesOn, Extends
      <4> QED BY <1>1, <3>1, <4>1 DEF GoesOn
    <3>2. CASE n \in Len(f.events) + 1 .. Len(t.events)
      BY <1>2, <1>4, <3>2 DEF GoesOn
    <3> QED BY <2>1, <3>1, <3>2
  <2> QED BY <2>2, <2>3 DEF GoesOn
<1> QED BY <1>2, <1>4, <1>6, <1>7 DEF SameFields, t

-----------------------------------------------------------------------------
(* What RunManager and MessageBuilder do to a run.                         *)

\* How the events of a run begin, and that the last one is the last.
InShape(s) ==
  /\ Len(s.events) >= 2 /\ s.events[1].kind = "run" /\ s.events[2].kind = "message"
  /\ \A n \in 1 .. Len(s.events) : Terminal(s.events[n]) => n = Len(s.events) /\ s.st = "done"

\* A run at work, in the middle of a handler.
Base(s) ==
  /\ s \in RunType /\ s.st = "active" /\ Explained(s) /\ InShape(s)
  /\ s.message.text <= MaxText + 1

\* A run at work.
Good(s) ==
  /\ Base(s)
  /\ s.status = (IF s.approvals = {} THEN "running" ELSE "awaiting_approval")
  /\ s.approvals = {c \in Call : s.message.approval[c] = "pending"}

\* A run that is over.
Over(s) ==
  /\ s \in RunType /\ s.st = "done" /\ Explained(s) /\ InShape(s) /\ s.buffered = 0
  /\ \A c \in Call : s.message.tool[c] \notin Open /\ s.message.approval[c] # "pending"

\* A run at work whose events grow keeps the shape of its events.
LEMMA ShapeGoesOn ==
  ASSUME NEW s \in RunType, InShape(s), s.st = "active", NEW t \in RunType, t.st = "active", GoesOn(s, t)
  PROVE  InShape(t)
<1>1. s.events \in Seq(EventType) /\ t.events \in Seq(EventType)
  BY DEF RunType
<1>2. ASSUME NEW n \in 1 .. Len(t.events) PROVE ~Terminal(t.events[n])
  <2>1. CASE n \in 1 .. Len(s.events)
    BY <2>1 DEF InShape, GoesOn, Extends
  <2>2. CASE n \in Len(s.events) + 1 .. Len(t.events)
    BY <2>2 DEF GoesOn
  <2> QED BY <1>1, <2>1, <2>2
<1> QED BY <1>1, <1>2 DEF InShape, GoesOn, Extends

\* A run that goes on twice has gone on.
LEMMA GoesOnTransitive ==
  ASSUME NEW s \in RunType, NEW t \in RunType, NEW u \in RunType, GoesOn(s, t), GoesOn(t, u)
  PROVE  GoesOn(s, u)
<1>1. s.events \in Seq(EventType) /\ t.events \in Seq(EventType) /\ u.events \in Seq(EventType)
  BY DEF RunType
<1>2. Extends(s.events, u.events)
  BY <1>1, ExtendsTransitive DEF GoesOn
<1>3. ASSUME NEW n \in Len(s.events) + 1 .. Len(u.events) PROVE ~Terminal(u.events[n])
  <2>1. CASE n \in Len(s.events) + 1 .. Len(t.events)
    <3>1. u.events[n] = t.events[n]
      BY <1>1, <2>1 DEF GoesOn, Extends
    <3> QED BY <2>1, <3>1 DEF GoesOn
  <2>2. CASE n \in Len(t.events) + 1 .. Len(u.events)
    BY <2>2 DEF GoesOn
  <2> QED BY <1>1, <2>1, <2>2
<1> QED BY <1>2, <1>3 DEF GoesOn

\* A run that stays as it is goes on.
LEMMA GoesOnReflexive == \A s \in RunType : GoesOn(s, s)
BY DEF GoesOn, Extends, RunType

\* A run at work emits an event.
LEMMA BaseEmits ==
  ASSUME NEW s, Base(s), NEW u \in RunType, u.events = s.events, u.buffered = s.buffered, u.st = "active",
         NEW e \in EventType, ~Terminal(e),
         u.message = Apply(s.message, e), u.message.there, u.message.text <= MaxText + 1
  PROVE  Base(Emit(u, e)) /\ SameFields(u, Emit(u, e)) /\ GoesOn(s, Emit(u, e)) /\ Emit(u, e).buffered = 0
<1> DEFINE t == Emit(u, e)
<1>1. s \in RunType /\ Explained(s)
  BY DEF Base
<1>2. t \in RunType /\ SameFields(u, t) /\ GoesOn(s, t) /\ Explained(t) /\ t.buffered = 0
  BY <1>1, EmitKeeps
<1> HIDE DEF t
<1>3. InShape(t)
  BY <1>1, <1>2, ShapeGoesOn DEF Base, SameFields
<1> QED BY <1>2, <1>3 DEF Base, SameFields, t

\* The answer of a run at work is there, and longer than the deltas that wait.
LEMMA BaseMessage ==
  ASSUME NEW s, Base(s)
  PROVE  s.message \in MessageType /\ s.message.there /\ s.buffered <= MaxText /\ s.events \in Seq(EventType)
         /\ (s.buffered > 0 => s.message.text > s.buffered)
<1> DEFINE m == Replay(s.events, Len(s.events))
<1>1. s \in RunType /\ s.events \in Seq(EventType) /\ s.message \in MessageType
  BY DEF Base, RunType
<1>2. m \in MessageType
  BY <1>1, ReplayType
<1> HIDE DEF m
<1>3. s.message = [m EXCEPT !.text = @ + s.buffered] /\ m.there /\ (s.buffered > 0 => m.text > 0)
  BY DEF Base, Explained, m
<1>4. s.message.there /\ s.message.text = m.text + s.buffered /\ m.text \in Nat /\ s.buffered \in Nat
  BY <1>1, <1>2, <1>3 DEF MessageType, RunType
<1> QED BY <1>1, <1>3, <1>4, StreamAssumption DEF Base

\* The status of a tool changes, and the event says so.
LEMMA SetToolKeeps ==
  ASSUME NEW s, Base(s), NEW c \in Call, NEW status \in ToolStatus
  PROVE  LET t == SetTool(s, c, status) IN
         /\ Base(t) /\ GoesOn(s, t)
         /\ t.status = s.status /\ t.aborted = s.aborted /\ t.approvals = s.approvals
         /\ t.message = [s.message EXCEPT !.tool[c] = status]
<1> DEFINE e == ToolIs(c, status)
           u == [s EXCEPT !.message.tool[c] = status]
           m == [s.message EXCEPT !.tool[c] = status]
<1>1. s \in RunType /\ s.message \in MessageType /\ s.message.there
  BY BaseMessage DEF Base
<1>2. m \in MessageType /\ m.there /\ m.text = s.message.text
  BY <1>1 DEF MessageType
<1>3. u = [s EXCEPT !.message = m]
  BY <1>1 DEF RunType
<1>4. e \in EventType /\ ~Terminal(e) /\ Apply(s.message, e) = m
  BY <1>1, EventTypes DEF ToolIs, Terminal, Apply
<1>5. SetTool(s, c, status) = Emit(u, e)
  BY DEF SetTool
<1> HIDE DEF e, u, m
<1>6. u \in RunType /\ u.events = s.events /\ u.buffered = s.buffered /\ u.st = s.st /\ u.status = s.status
      /\ u.aborted = s.aborted /\ u.approvals = s.approvals /\ u.message = m
  BY <1>1, <1>2, <1>3 DEF RunType
<1>7. Base(Emit(u, e)) /\ SameFields(u, Emit(u, e)) /\ GoesOn(s, Emit(u, e))
  BY <1>2, <1>4, <1>6, BaseEmits DEF Base
<1> QED BY <1>5, <1>6, <1>7 DEF SameFields, m

\* The status of an approval changes, and the event says so.
LEMMA SetApprovalKeeps ==
  ASSUME NEW s, Base(s), NEW c \in Call, NEW status \in ApprovalStatus
  PROVE  LET t == SetApproval(s, c, status) IN
         /\ Base(t) /\ GoesOn(s, t)
         /\ t.status = s.status /\ t.aborted = s.aborted /\ t.approvals = s.approvals
         /\ t.message = [s.message EXCEPT !.approval[c] = status]
<1> DEFINE e == ApprovalIs(c, status)
           u == [s EXCEPT !.message.approval[c] = status]
           m == [s.message EXCEPT !.approval[c] = status]
<1>1. s \in RunType /\ s.message \in MessageType /\ s.message.there
  BY BaseMessage DEF Base
<1>2. m \in MessageType /\ m.there /\ m.text = s.message.text
  BY <1>1 DEF MessageType
<1>3. u = [s EXCEPT !.message = m]
  BY <1>1 DEF RunType
<1>4. e \in EventType /\ ~Terminal(e) /\ Apply(s.message, e) = m
  BY <1>1, EventTypes DEF ApprovalIs, Terminal, Apply
<1>5. SetApproval(s, c, status) = Emit(u, e)
  BY DEF SetApproval
<1> HIDE DEF e, u, m
<1>6. u \in RunType /\ u.events = s.events /\ u.buffered = s.buffered /\ u.st = s.st /\ u.status = s.status
      /\ u.aborted = s.aborted /\ u.approvals = s.approvals /\ u.message = m
  BY <1>1, <1>2, <1>3 DEF RunType
<1>7. Base(Emit(u, e)) /\ SameFields(u, Emit(u, e)) /\ GoesOn(s, Emit(u, e))
  BY <1>2, <1>4, <1>6, BaseEmits DEF Base
<1> QED BY <1>5, <1>6, <1>7 DEF SameFields, m

\* The status of the run changes, and the event says so.
LEMMA SetStatusKeeps ==
  ASSUME NEW s, Base(s), NEW status \in {"running", "awaiting_approval"}
  PROVE  LET t == SetStatus(s, status) IN
         /\ Base(t) /\ GoesOn(s, t)
         /\ t.status = status /\ t.aborted = s.aborted /\ t.approvals = s.approvals /\ t.message = s.message
<1> DEFINE e == RunIs(status)
           u == [s EXCEPT !.status = status]
<1>1. s \in RunType /\ s.message.there
  BY BaseMessage DEF Base
<1>2. e \in EventType /\ ~Terminal(e) /\ Apply(s.message, e) = s.message
  BY EventTypes DEF RunIs, Terminal, Apply, RunStatus, Outcome
<1>3. SetStatus(s, status) = IF s.status = status THEN s ELSE Emit(u, e)
  BY DEF SetStatus
<1>4. u \in RunType /\ u.events = s.events /\ u.buffered = s.buffered /\ u.st = s.st /\ u.status = status
      /\ u.aborted = s.aborted /\ u.approvals = s.approvals /\ u.message = s.message
  BY <1>1 DEF RunType, RunStatus
<1> HIDE DEF e, u
<1>5. Base(Emit(u, e)) /\ SameFields(u, Emit(u, e)) /\ GoesOn(s, Emit(u, e))
  BY <1>1, <1>2, <1>4, BaseEmits DEF Base
<1>6. GoesOn(s, s)
  BY <1>1, GoesOnReflexive
<1> QED BY <1>3, <1>4, <1>5, <1>6 DEF SameFields

\* The approvals are no part of the events.
LEMMA ApprovalsOnly ==
  ASSUME NEW s, Base(s), NEW A \in SUBSET Call
  PROVE  LET t == [s EXCEPT !.approvals = A] IN
         /\ Base(t) /\ GoesOn(s, t) /\ t.events = s.events
         /\ t.status = s.status /\ t.aborted = s.aborted /\ t.approvals = A /\ t.message = s.message
<1>1. s \in RunType
  BY DEF Base
<1>2. [s EXCEPT !.approvals = A] \in RunType
  BY <1>1 DEF RunType
<1> QED BY <1>1, <1>2, GoesOnReflexive DEF Base, Explained, InShape, RunType, GoesOn

\* A run that asks for an approval.
LEMMA RequestedKeeps ==
  ASSUME NEW s, Good(s), NEW c \in Call
  PROVE  LET t == Requested(s, c) IN
         /\ Good(t) /\ GoesOn(s, t) /\ t.aborted = s.aborted
         /\ s.aborted => t = s
<1>1. CASE s.aborted
  BY <1>1, GoesOnReflexive DEF Requested, Good, Base
<1>2. CASE ~s.aborted
  <2> DEFINE u == SetTool(s, c, "awaiting_approval")
             v == SetApproval(u, c, "pending")
             w == SetStatus(v, "awaiting_approval")
             A == w.approvals \cup {c}
             t == [w EXCEPT !.approvals = A]
  <2>1. Requested(s, c) = t
    BY <1>2 DEF Requested
  <2>2. "awaiting_approval" \in ToolStatus /\ "pending" \in ApprovalStatus
    BY DEF ToolStatus, Open, ApprovalStatus
  <2>3. /\ Base(u) /\ GoesOn(s, u) /\ u.aborted = s.aborted /\ u.approvals = s.approvals
        /\ u.message = [s.message EXCEPT !.tool[c] = "awaiting_approval"]
    <3>1. Base(s)
      BY DEF Good
    <3> QED BY <2>2, <3>1, SetToolKeeps
  <2> HIDE DEF u
  <2>4. /\ Base(v) /\ GoesOn(u, v) /\ v.aborted = u.aborted /\ v.approvals = u.approvals
        /\ v.message = [u.message EXCEPT !.approval[c] = "pending"]
    <3>1. Base(u)
      BY <2>3
    <3> QED BY <2>2, <3>1, SetApprovalKeeps
  <2> HIDE DEF v
  <2>5. /\ Base(w) /\ GoesOn(v, w) /\ w.aborted = v.aborted /\ w.approvals = v.approvals
        /\ w.message = v.message /\ w.status = "awaiting_approval"
    <3>1. Base(v)
      BY <2>4
    <3> QED BY <3>1, SetStatusKeeps
  <2> HIDE DEF w
  <2>6. A \subseteq Call
    BY <2>5 DEF Base, RunType
  <2>7. /\ Base(t) /\ GoesOn(w, t) /\ t.aborted = w.aborted /\ t.approvals = A
        /\ t.message = w.message /\ t.status = w.status
    <3> HIDE DEF A
    <3>1. Base(w)
      BY <2>5
    <3> QED BY <2>6, <3>1, ApprovalsOnly
  <2>8. s \in RunType /\ u \in RunType /\ v \in RunType /\ w \in RunType /\ t \in RunType
    <3> HIDE DEF t
    <3> QED BY <2>3, <2>4, <2>5, <2>7 DEF Base, Good
  <2>9. GoesOn(s, t)
    <3> HIDE DEF t
    <3>1. GoesOn(s, v)
      BY <2>3, <2>4, <2>8, GoesOnTransitive
    <3>2. GoesOn(s, w)
      BY <3>1, <2>5, <2>8, GoesOnTransitive
    <3> QED BY <3>2, <2>7, <2>8, GoesOnTransitive
  <2>10. t.message.approval = [s.message.approval EXCEPT ![c] = "pending"]
    <3> HIDE DEF t
    <3>1. s.message \in MessageType
      BY <2>8 DEF RunType
    <3> QED BY <2>3, <2>4, <2>5, <2>7, <3>1 DEF MessageType
  <2>11. t.approvals = {d \in Call : t.message.approval[d] = "pending"}
    <3>1. s.message.approval \in [Call -> ApprovalStatus]
      BY <2>8 DEF RunType, MessageType
    <3>2. t.approvals = s.approvals \cup {c}
      BY <2>3, <2>4, <2>5, <2>7
    <3> HIDE DEF t
    <3> QED BY <2>10, <3>1, <3>2 DEF Good
  <2> HIDE DEF t
  <2> QED BY <1>2, <2>1, <2>3, <2>4, <2>5, <2>7, <2>9, <2>11 DEF Good, A
<1> QED BY <1>1, <1>2 DEF Good, Base, RunType

\* An approval of a run is finished.
LEMMA FinishedKeeps ==
  ASSUME NEW s, Good(s), NEW c \in s.approvals, NEW status \in {"approved", "rejected", "cancelled"}
  PROVE  LET t == Finished(s, c, status) IN
         /\ Good(t) /\ GoesOn(s, t) /\ t.aborted = s.aborted /\ t.approvals = s.approvals \ {c}
<1> DEFINE A == s.approvals \ {c}
           u == [s EXCEPT !.approvals = A]
           v == SetApproval(u, c, status)
           end == IF status = "approved" THEN "running" ELSE "rejected"
           w == IF status = "cancelled" THEN v ELSE SetTool(v, c, end)
           t == IF w.approvals = {} THEN SetStatus(w, "running") ELSE w
<1>1. Base(s) /\ s \in RunType /\ c \in Call /\ A \subseteq Call /\ s.message \in MessageType
  BY DEF Good, Base, RunType
<1>2. Finished(s, c, status) = t
  <2>1. u = [s EXCEPT !.approvals = @ \ {c}]
    BY <1>1 DEF RunType
  <2> QED BY <2>1 DEF Finished, Answered
<1>3. /\ Base(u) /\ GoesOn(s, u) /\ u.aborted = s.aborted /\ u.approvals = A
      /\ u.message = s.message /\ u.status = s.status
  <2>1. Base(s)
    BY <1>1
  <2> HIDE DEF A
  <2> QED BY <1>1, <2>1, ApprovalsOnly
<1> HIDE DEF u
<1>4. /\ Base(v) /\ GoesOn(u, v) /\ v.aborted = u.aborted /\ v.approvals = u.approvals
      /\ v.message = [u.message EXCEPT !.approval[c] = status] /\ v.status = u.status
  <2>1. Base(u)
    BY <1>3
  <2>2. status \in ApprovalStatus
    BY DEF ApprovalStatus
  <2> QED BY <1>1, <2>1, <2>2, SetApprovalKeeps
<1> HIDE DEF v
<1>5. /\ Base(w) /\ GoesOn(v, w) /\ w.aborted = v.aborted /\ w.approvals = v.approvals
      /\ w.message.approval = v.message.approval /\ w.status = v.status
  <2>1. Base(v) /\ v \in RunType
    BY <1>4 DEF Base
  <2>2. CASE status = "cancelled"
    BY <2>1, <2>2, GoesOnReflexive
  <2>3. CASE status # "cancelled"
    <3>1. end \in ToolStatus
      BY DEF ToolStatus, Open
    <3> DEFINE x == SetTool(v, c, end)
    <3>2. /\ Base(x) /\ GoesOn(v, x) /\ x.status = v.status /\ x.aborted = v.aborted
          /\ x.approvals = v.approvals /\ x.message = [v.message EXCEPT !.tool[c] = end]
      <4>1. Base(v)
        BY <2>1
      <4> HIDE DEF end
      <4> QED BY <1>1, <3>1, <4>1, SetToolKeeps
    <3>3. v.message \in MessageType
      BY <2>1 DEF RunType
    <3>4. w = x
      BY <2>3
    <3> HIDE DEF x, end, w
    <3>5. x.message.approval = v.message.approval
      BY <3>2, <3>3 DEF MessageType
    <3> QED BY <3>2, <3>4, <3>5
  <2> QED BY <2>2, <2>3
<1> HIDE DEF w
<1>6. w.approvals = A /\ w.message.approval = [s.message.approval EXCEPT ![c] = status] /\ w.status = s.status
      /\ w.aborted = s.aborted
  BY <1>1, <1>3, <1>4, <1>5 DEF MessageType
<1>7. A = {d \in Call : w.message.approval[d] = "pending"}
  <2>1. s.message.approval \in [Call -> ApprovalStatus] /\ s.approvals = {d \in Call : s.message.approval[d] = "pending"}
    BY <1>1 DEF MessageType, Good
  <2> QED BY <1>6, <2>1
<1>8. w \in RunType /\ v \in RunType /\ u \in RunType
  BY <1>3, <1>4, <1>5 DEF Base
<1>9. GoesOn(s, w)
  <2>1. GoesOn(s, v)
    BY <1>1, <1>3, <1>4, <1>8, GoesOnTransitive
  <2> QED BY <1>1, <1>5, <1>8, <2>1, GoesOnTransitive
<1> HIDE DEF A
<1>10. CASE A = {}
  <2>1. Base(w) /\ t = SetStatus(w, "running")
    BY <1>5, <1>6, <1>10
  <2>2. /\ Base(t) /\ GoesOn(w, t) /\ t.status = "running" /\ t.aborted = w.aborted
        /\ t.approvals = w.approvals /\ t.message = w.message
    <3>1. Base(w)
      BY <2>1
    <3>2. "running" \in {"running", "awaiting_approval"}
      OBVIOUS
    <3> HIDE DEF t
    <3> QED BY <2>1, <3>1, <3>2, SetStatusKeeps
  <2> HIDE DEF t
  <2>3. GoesOn(s, t)
    <3>1. t \in RunType
      BY <2>2 DEF Base
    <3> QED BY <1>1, <1>8, <1>9, <2>2, <3>1, GoesOnTransitive
  <2>4. Good(t)
    BY <1>6, <1>7, <1>10, <2>2 DEF Good
  <2>5. t.aborted = s.aborted /\ t.approvals = A
    BY <1>6, <2>2
  <2> QED BY <1>2, <2>3, <2>4, <2>5 DEF A
<1>11. CASE A # {}
  <2>1. t = w
    BY <1>6, <1>11
  <2> HIDE DEF t
  <2>2. s.status = "awaiting_approval"
    BY DEF Good
  <2>3. Good(w)
    BY <1>5, <1>6, <1>7, <1>11, <2>2 DEF Good
  <2>4. Finished(s, c, status) = w
    BY <1>2, <2>1
  <2> QED BY <1>6, <1>9, <2>3, <2>4 DEF A
<1> QED BY <1>10, <1>11

\* The approvals that are left when the first i of q are finished.
LEMMA DismissedKeeps ==
  ASSUME NEW s, Good(s)
  PROVE  LET t == Dismissed(s) IN
         Good(t) /\ GoesOn(s, t) /\ t.aborted = s.aborted /\ t.approvals = {}
<1> DEFINE q == SetToSeq(s.approvals)
<1>1. s \in RunType /\ s.approvals \subseteq Call
  BY DEF Good, Base, RunType
<1>2. q \in Seq(Call) /\ \A c : c \in s.approvals <=> \E i \in 1 .. Len(q) : q[i] = c
  BY <1>1, CallsInSeq
<1>2a. \A i, j \in 1 .. Len(q) : q[i] = q[j] => i = j
  BY <1>1, CallsInSeq
<1>3. PICK g : /\ g[0] = s /\ Dismissed(s) = g[Len(q)]
               /\ \A i \in 1 .. Len(q) : g[i] = Finished(g[i - 1], q[i], "cancelled")
  BY <1>2, DismissedIs
<1> HIDE DEF q
<1> DEFINE G == {i \in 0 .. Len(q) :
                   /\ Good(g[i]) /\ GoesOn(s, g[i]) /\ g[i].aborted = s.aborted
                   /\ g[i].approvals = {q[j] : j \in i + 1 .. Len(q)}}
<1>4. 0 \in G
  BY <1>1, <1>2, <1>3, GoesOnReflexive
<1>5. ASSUME NEW i \in 1 .. Len(q), i - 1 \in G PROVE i \in G
  <2> DEFINE h == g[i - 1]
             t == g[i]
  <2>1. /\ Good(h) /\ GoesOn(s, h) /\ h.aborted = s.aborted
        /\ h.approvals = {q[j] : j \in i .. Len(q)}
    BY <1>5
  <2>2. q[i] \in h.approvals /\ t = Finished(h, q[i], "cancelled")
    BY <1>3, <2>1
  <2> HIDE DEF h, t
  <2>3. Good(t) /\ GoesOn(h, t) /\ t.aborted = h.aborted /\ t.approvals = h.approvals \ {q[i]}
    <3>1. Good(h)
      BY <2>1
    <3> QED BY <2>2, <3>1, FinishedKeeps
  <2>4. h \in RunType /\ t \in RunType
    BY <2>1, <2>3 DEF Good, Base
  <2>5. GoesOn(s, t)
    BY <1>1, <2>1, <2>3, <2>4, GoesOnTransitive
  <2>6. t.approvals = {q[j] : j \in i + 1 .. Len(q)}
    BY <1>2a, <2>1, <2>3
  <2> QED BY <2>1, <2>3, <2>5, <2>6 DEF t
<1> HIDE DEF G
<1>6. Len(q) \in G
  <2>1. Len(q) \in Nat
    BY <1>2
  <2>2. 0 .. Len(q) \subseteq G
    BY <1>4, <1>5, <2>1, UpTo
  <2> QED BY <2>1, <2>2
<1>7. {q[j] : j \in Len(q) + 1 .. Len(q)} = {}
  BY <1>2
<1> QED BY <1>3, <1>6, <1>7 DEF G

\* A run is cancelled.
LEMMA CancelledKeeps ==
  ASSUME NEW s, Good(s), ~s.aborted
  PROVE  LET t == Cancelled(s) IN
         Good(t) /\ GoesOn(s, t) /\ t.aborted /\ t.approvals = {}
<1> DEFINE u == [s EXCEPT !.aborted = TRUE]
           t == Dismissed(u)
<1>1. s \in RunType
  BY DEF Good, Base
<1>2. /\ u \in RunType /\ u.events = s.events /\ u.st = s.st /\ u.status = s.status /\ u.aborted
      /\ u.approvals = s.approvals /\ u.message = s.message /\ u.buffered = s.buffered
  BY <1>1 DEF RunType
<1>3. Cancelled(s) = t
  BY DEF Cancelled
<1> HIDE DEF u
<1>4. Good(u)
  BY <1>2 DEF Good, Base, Explained, InShape
<1>5. Good(t) /\ GoesOn(u, t) /\ t.aborted = u.aborted /\ t.approvals = {}
  BY <1>4, DismissedKeeps
<1> QED BY <1>2, <1>3, <1>5 DEF GoesOn

\* The tools of a run that did not end are settled.
LEMMA SettledKeeps ==
  ASSUME NEW s, Base(s)
  PROVE  LET t == Settled(s) IN
         /\ Base(t) /\ GoesOn(s, t) /\ t.aborted = s.aborted /\ t.approvals = s.approvals
         /\ t.message.approval = s.message.approval
         /\ \A c \in Call : t.message.tool[c] \notin Open
<1> DEFINE q == SetToSeq({c \in Call : s.message.tool[c] \in Open})
           end == IF s.aborted THEN "cancelled" ELSE "failed"
<1>1. s \in RunType /\ s.message \in MessageType
  BY DEF Base, RunType
<1>2. q \in Seq(Call) /\ \A c : c \in {d \in Call : s.message.tool[d] \in Open} <=> \E i \in 1 .. Len(q) : q[i] = c
  BY CallsInSeq
<1>3. PICK g : /\ g[0] = s /\ Settled(s) = g[Len(q)]
               /\ \A i \in 1 .. Len(q) : g[i] = SetTool(g[i - 1], q[i], end)
  BY <1>2, SettledIs
<1>4. end \in ToolStatus /\ end \notin Open
  BY DEF ToolStatus, Open, Outcome
<1> HIDE DEF q, end
<1> DEFINE G == {i \in 0 .. Len(q) :
                   /\ Base(g[i]) /\ GoesOn(s, g[i]) /\ g[i].aborted = s.aborted /\ g[i].approvals = s.approvals
                   /\ g[i].message.approval = s.message.approval
                   /\ \A c \in Call : \/ g[i].message.tool[c] = s.message.tool[c]
                                      \/ g[i].message.tool[c] = end
                   /\ \A j \in 1 .. i : g[i].message.tool[q[j]] = end}
<1>5. 0 \in G
  BY <1>1, <1>2, <1>3, GoesOnReflexive
<1>6. ASSUME NEW i \in 1 .. Len(q), i - 1 \in G PROVE i \in G
  <2> DEFINE h == g[i - 1]
             t == g[i]
  <2>1. /\ Base(h) /\ GoesOn(s, h) /\ h.aborted = s.aborted /\ h.approvals = s.approvals
        /\ h.message.approval = s.message.approval
        /\ \A c \in Call : h.message.tool[c] = s.message.tool[c] \/ h.message.tool[c] = end
        /\ \A j \in 1 .. i - 1 : h.message.tool[q[j]] = end
    BY <1>6
  <2>2. q[i] \in Call /\ t = SetTool(h, q[i], end)
    BY <1>2, <1>3
  <2> HIDE DEF h, t
  <2>3. /\ Base(t) /\ GoesOn(h, t) /\ t.aborted = h.aborted /\ t.approvals = h.approvals
        /\ t.message = [h.message EXCEPT !.tool[q[i]] = end]
    <3>1. Base(h)
      BY <2>1
    <3> QED BY <1>4, <2>2, <3>1, SetToolKeeps
  <2>4. h \in RunType /\ t \in RunType /\ h.message \in MessageType
    BY <2>1, <2>3 DEF Base, RunType
  <2>5. GoesOn(s, t)
    BY <1>1, <2>1, <2>3, <2>4, GoesOnTransitive
  <2>6. t.message.tool = [h.message.tool EXCEPT ![q[i]] = end] /\ t.message.approval = h.message.approval
        /\ h.message.tool \in [Call -> ToolStatus]
    BY <2>3, <2>4 DEF MessageType
  <2>7. \A c \in Call : t.message.tool[c] = s.message.tool[c] \/ t.message.tool[c] = end
    BY <2>1, <2>6
  <2>8. \A j \in 1 .. i : t.message.tool[q[j]] = end
    <3>1. \A j \in 1 .. i : q[j] \in Call /\ (j \in 1 .. i - 1 \/ j = i)
      BY <1>2
    <3> QED BY <2>1, <2>2, <2>6, <3>1
  <2>9. /\ Base(t) /\ GoesOn(s, t) /\ t.aborted = s.aborted /\ t.approvals = s.approvals
        /\ t.message.approval = s.message.approval
    BY <2>1, <2>3, <2>5, <2>6
  <2>10. i \in 0 .. Len(q)
    BY <1>2
  <2> QED BY <2>7, <2>8, <2>9, <2>10 DEF t
<1> HIDE DEF G
<1>7. Len(q) \in G
  <2>1. Len(q) \in Nat
    BY <1>2
  <2>2. 0 .. Len(q) \subseteq G
    BY <1>5, <1>6, <2>1, UpTo
  <2> QED BY <2>1, <2>2
<1> DEFINE t == g[Len(q)]
<1>8. /\ Base(t) /\ GoesOn(s, t) /\ t.aborted = s.aborted /\ t.approvals = s.approvals
      /\ t.message.approval = s.message.approval
      /\ \A c \in Call : t.message.tool[c] = s.message.tool[c] \/ t.message.tool[c] = end
      /\ \A j \in 1 .. Len(q) : t.message.tool[q[j]] = end
  BY <1>7 DEF G
<1> HIDE DEF t
<1>9. ASSUME NEW c \in Call PROVE t.message.tool[c] \notin Open
  BY <1>2, <1>4, <1>8
<1> QED BY <1>3, <1>8, <1>9 DEF t

\* A run goes on that asks for nothing new.
Goes(s, t) == Good(t) /\ GoesOn(s, t) /\ t.aborted = s.aborted /\ t.approvals = s.approvals

\* A tool may change in a run that waits for approvals or does not.
LEMMA SetToolGoes ==
  ASSUME NEW s, Good(s), NEW c \in Call, NEW status \in ToolStatus
  PROVE  Goes(s, SetTool(s, c, status))
<1> DEFINE t == SetTool(s, c, status)
<1>1. Base(s) /\ s.message \in MessageType
  BY DEF Good, Base, RunType
<1>2. /\ Base(t) /\ GoesOn(s, t)
      /\ t.status = s.status /\ t.aborted = s.aborted /\ t.approvals = s.approvals
      /\ t.message = [s.message EXCEPT !.tool[c] = status]
  <2>1. Base(s)
    BY <1>1
  <2> QED BY <2>1, SetToolKeeps
<1> HIDE DEF t
<1>3. t.message.approval = s.message.approval
  BY <1>1, <1>2 DEF MessageType
<1> QED BY <1>2, <1>3 DEF Good, Goes, t

\* A change of the text that is emitted.
LEMMA TextEmits ==
  ASSUME NEW s, Good(s), NEW n \in Nat, n <= MaxText + 1, NEW e \in EventType, ~Terminal(e),
         Apply(s.message, e) = [s.message EXCEPT !.text = n]
  PROVE  Goes(s, Emit([s EXCEPT !.message.text = n], e))
<1> DEFINE m == [s.message EXCEPT !.text = n]
           u == [s EXCEPT !.message.text = n]
           t == Emit(u, e)
<1>1. Base(s) /\ s \in RunType /\ s.message \in MessageType
  BY DEF Good, Base, RunType
<1>2. s.message.there
  BY <1>1, BaseMessage
<1>3. m \in MessageType /\ m.there /\ m.text = n /\ m.approval = s.message.approval
  BY <1>1, <1>2 DEF MessageType
<1>4. u = [s EXCEPT !.message = m]
  BY <1>1 DEF RunType
<1>5. Apply(s.message, e) = m
  OBVIOUS
<1> HIDE DEF u, m
<1>6. u \in RunType /\ u.events = s.events /\ u.buffered = s.buffered /\ u.st = s.st /\ u.status = s.status
      /\ u.aborted = s.aborted /\ u.approvals = s.approvals /\ u.message = m
  BY <1>1, <1>3, <1>4 DEF RunType
<1>7. u.st = "active" /\ u.message = Apply(s.message, e) /\ u.message.there /\ u.message.text <= MaxText + 1
  BY <1>1, <1>3, <1>5, <1>6 DEF Base
<1>8. Base(t) /\ SameFields(u, t) /\ GoesOn(s, t)
  <2>1. Base(s)
    BY <1>1
  <2> QED BY <1>6, <1>7, <2>1, BaseEmits
<1> HIDE DEF t
<1> QED BY <1>3, <1>6, <1>8 DEF Good, Goes, SameFields, t, u

\* The text of the answer begins.
LEMMA TextStartGoes ==
  ASSUME NEW s, Good(s)
  PROVE  Goes(s, Emit([s EXCEPT !.message.text = 1], TextCreated))
<1>1. Base(s)
  BY DEF Good
<1>2. s.message.there
  BY <1>1, BaseMessage
<1>3. TextCreated \in EventType /\ ~Terminal(TextCreated)
  BY EventTypes DEF TextCreated, Terminal
<1>4. Apply(s.message, TextCreated) = [s.message EXCEPT !.text = 1]
  BY <1>2 DEF Apply, TextCreated
<1>5. 1 \in Nat /\ 1 <= MaxText + 1
  BY StreamAssumption
<1> QED BY <1>3, <1>4, <1>5, TextEmits

\* The text of the answer is replaced by a longer one.
LEMMA TextEndGoes ==
  ASSUME NEW s, Good(s), s.message.text \in 1 .. MaxText
  PROVE  Goes(s, Emit([s EXCEPT !.message.text = @ + 1], TextUpdated(s.message.text + 1)))
<1> DEFINE n == s.message.text + 1
           e == TextUpdated(n)
<1>1. n \in Nat /\ n <= MaxText + 1
  BY StreamAssumption
<1>2. [s EXCEPT !.message.text = @ + 1] = [s EXCEPT !.message.text = n]
  <2>1. s \in RunType /\ s.message \in MessageType
    BY DEF Good, Base, RunType
  <2> QED BY <2>1 DEF RunType, MessageType
<1> HIDE DEF n
<1>3. e \in EventType /\ ~Terminal(e)
  BY <1>1, EventTypes DEF TextUpdated, Terminal
<1>4. Apply(s.message, e) = [s.message EXCEPT !.text = n]
  BY DEF Apply, TextUpdated
<1> HIDE DEF e
<1>5. Goes(s, Emit([s EXCEPT !.message.text = n], e))
  BY <1>1, <1>3, <1>4, TextEmits
<1> QED BY <1>2, <1>5 DEF e, n

\* A delta waits.
LEMMA TextDeltaGoes ==
  ASSUME NEW s, Good(s), s.message.text \in 1 .. MaxText
  PROVE  Goes(s, [s EXCEPT !.message.text = @ + 1, !.buffered = @ + 1])
<1> DEFINE m == Replay(s.events, Len(s.events))
           x == [s.message EXCEPT !.text = @ + 1]
           t == [s EXCEPT !.message.text = @ + 1, !.buffered = @ + 1]
<1>1. s \in RunType /\ s.message \in MessageType /\ s.events \in Seq(EventType) /\ s.buffered \in Nat
  BY DEF Good, Base, RunType
<1>2. m \in MessageType
  BY <1>1, ReplayType
<1>3. s.message = [m EXCEPT !.text = @ + s.buffered] /\ m.there /\ (s.buffered > 0 => m.text > 0)
  BY DEF Good, Base, Explained
<1>4. x \in MessageType /\ x.text = s.message.text + 1 /\ x.text <= MaxText + 1 /\ x.approval = s.message.approval
  <2>1. s.message.text + 1 \in Nat /\ s.message.text + 1 <= MaxText + 1
    BY StreamAssumption
  <2> QED BY <1>1, <2>1 DEF MessageType
<1>5. t = [s EXCEPT !.message = x, !.buffered = s.buffered + 1]
  BY <1>1 DEF RunType, MessageType
<1> HIDE DEF m
<1>6. m.text > 0 /\ x = [m EXCEPT !.text = @ + (s.buffered + 1)]
  <2>1. m.text \in Nat
    BY <1>2 DEF MessageType
  <2>2. s.message.text = m.text + s.buffered
    BY <1>2, <1>3 DEF MessageType
  <2>3. m.text > 0 /\ s.message.text + 1 = m.text + (s.buffered + 1)
    BY <1>1, <1>3, <2>1, <2>2
  <2>4. x = [m EXCEPT !.text = s.message.text + 1]
    BY <1>2, <1>3 DEF MessageType
  <2> QED BY <2>3, <2>4
<1> HIDE DEF x, t
<1>7. /\ t \in RunType /\ t.st = s.st /\ t.status = s.status /\ t.aborted = s.aborted
      /\ t.approvals = s.approvals /\ t.events = s.events /\ t.message = x /\ t.buffered = s.buffered + 1
  <2>1. s.buffered + 1 \in Nat
    BY <1>1
  <2> QED BY <1>1, <1>4, <1>5, <2>1 DEF RunType
<1>8. Explained(t)
  BY <1>3, <1>6, <1>7 DEF Explained, m
<1>9. InShape(t)
  BY <1>7 DEF InShape, Good, Base
<1>10. GoesOn(s, t)
  BY <1>1, <1>7, GoesOnReflexive DEF GoesOn
<1> QED BY <1>4, <1>7, <1>8, <1>9, <1>10 DEF Goes, Good, Base, t

\* The deltas that wait are flushed, by the timer, a snapshot or a subscription.
LEMMA FlushedGoes ==
  ASSUME NEW s, Good(s)
  PROVE  /\ Goes(s, Flushed(s)) /\ Flushed(s).message = s.message
         /\ Replay(Flushed(s).events, Len(Flushed(s).events)) = s.message
<1> DEFINE t == Flushed(s)
<1>1. s \in RunType /\ Explained(s)
  BY DEF Good, Base
<1>2. /\ t \in RunType /\ SameFields(s, t) /\ t.buffered = 0 /\ GoesOn(s, t)
      /\ Replay(t.events, Len(t.events)) = s.message
  BY <1>1, FlushedKeeps
<1> HIDE DEF t
<1>3. t.st = "active" /\ s.st = "active" /\ InShape(s)
  BY <1>2 DEF SameFields, Good, Base
<1>4. InShape(t)
  BY <1>1, <1>2, <1>3, ShapeGoesOn
<1>5. s.message.there
  <2>1. Base(s)
    BY DEF Good
  <2> QED BY <2>1, BaseMessage
<1>6. Explained(t)
  <2>1. t.message = s.message /\ s.message \in MessageType
    BY <1>1, <1>2 DEF SameFields, RunType
  <2> QED BY <1>2, <1>5, <2>1 DEF Explained, MessageType
<1> QED BY <1>2, <1>4, <1>6 DEF Goes, Good, Base, SameFields, t

\* A run begins.
LEMMA NewRunIsGood == Good(NewRun) /\ NewRun.approvals = {} /\ ~NewRun.aborted
<1> DEFINE m == [Blank EXCEPT !.there = TRUE]
           e == <<RunIs("running"), MessageIs(m)>>
<1>1. m \in MessageType /\ m.there /\ m.text = 0 /\ \A c \in Call : m.approval[c] = "none"
  BY BlankType DEF Blank, MessageType
<1> HIDE DEF m
<1>2. e \in Seq(EventType) /\ Len(e) = 2 /\ e[1] = RunIs("running") /\ e[2] = MessageIs(m)
  BY <1>1, EventTypes DEF RunStatus
<1> HIDE DEF e
<1>3. Replay(e, 2) = m
  <2>1. Replay(e, 1) = Apply(Replay(e, 0), e[1]) /\ Replay(e, 2) = Apply(Replay(e, 1), e[2])
    <3>1. \A n \in Nat \ {0} : Replay(e, n) = Apply(Replay(e, n - 1), e[n])
      BY ReplayNext
    <3>2. 1 - 1 = 0 /\ 2 - 1 = 1
      OBVIOUS
    <3> QED BY <3>1, <3>2
  <2>2. \A z : Apply(z, MessageIs(m)) = m
    BY DEF Apply, MessageIs
  <2> QED BY <1>2, <2>1, <2>2
<1> DEFINE s == NewRun
<1>4. s = [NoRun EXCEPT !.st = "active", !.message = m, !.events = e]
  BY DEF NewRun, m, e
<1> HIDE DEF s
<1>5. /\ s.st = "active" /\ s.status = "running" /\ s.aborted = FALSE /\ s.buffered = 0 /\ s.approvals = {}
      /\ s.message = m /\ s.events = e /\ s \in RunType
  BY <1>1, <1>2, <1>4 DEF NoRun, RunType, RunStatus
<1> HIDE DEF s
<1>6. Explained(s)
  <2>1. m = [m EXCEPT !.text = @ + 0]
    BY <1>1 DEF MessageType
  <2>2. Replay(s.events, Len(s.events)) = m
    BY <1>2, <1>3, <1>5
  <2> QED BY <1>1, <1>5, <2>1, <2>2 DEF Explained
<1>7. InShape(s)
  <2>1. \A n \in 1 .. Len(e) : n = 1 \/ n = 2
    BY <1>2
  <2>2. e[1].kind = "run" /\ e[2].kind = "message" /\ ~Terminal(e[1]) /\ ~Terminal(e[2])
    BY <1>2 DEF RunIs, MessageIs, Terminal, Outcome
  <2>3. \A n \in 1 .. Len(e) : ~Terminal(e[n])
    BY <2>1, <2>2
  <2>4. s.events = e /\ Len(e) >= 2
    BY <1>2, <1>5
  <2> QED BY <2>2, <2>3, <2>4 DEF InShape
<1>8. s.message.text <= MaxText + 1
  BY <1>1, <1>5, StreamAssumption
<1>9. s.approvals = {c \in Call : s.message.approval[c] = "pending"}
  BY <1>1, <1>5
<1>10. Base(s)
  BY <1>5, <1>6, <1>7, <1>8 DEF Base
<1>11. s.status = (IF s.approvals = {} THEN "running" ELSE "awaiting_approval")
  BY <1>5
<1>12. Good(s)
  BY <1>9, <1>10, <1>11 DEF Good
<1> QED BY <1>5, <1>12 DEF s

\* A run ends.
LEMMA FinalizedKeeps ==
  ASSUME NEW s, Good(s), NEW result \in Result
  PROVE  LET t == Finalized(s, result) IN
         Over(t) /\ Extends(s.events, t.events)
<1> DEFINE d == Dismissed(s)
           e == Settled(d)
           final == IF s.aborted THEN "cancelled" ELSE result
           m == [e.message EXCEPT !.status = final]
           u == [e EXCEPT !.message.status = final, !.status = final]
           f == Flushed(u)
           p == Push(f, MessageIs(f.message))
           w == Push(p, RunIs(final))
           t == [w EXCEPT !.st = "done"]
<1>1. Finalized(s, result) = t
  BY DEF Finalized
<1>2. final \in Outcome /\ final \in RunStatus
  BY StreamAssumption DEF Outcome, RunStatus
<1> HIDE DEF final
<1>3. Good(d) /\ GoesOn(s, d) /\ d.approvals = {}
  BY DismissedKeeps
<1> HIDE DEF d
<1>4. Base(d) /\ d.approvals = {c \in Call : d.message.approval[c] = "pending"}
  BY <1>3 DEF Good
<1>5. /\ Base(e) /\ GoesOn(d, e) /\ e.approvals = d.approvals /\ e.message.approval = d.message.approval
      /\ \A c \in Call : e.message.tool[c] \notin Open
  <2>1. Base(d)
    BY <1>4
  <2> QED BY <2>1, SettledKeeps
<1> HIDE DEF e
<1>6. s \in RunType /\ d \in RunType /\ e \in RunType /\ e.message \in MessageType /\ Explained(e) /\ e.st = "active"
  BY <1>3, <1>5 DEF Good, Base, RunType
<1>7. GoesOn(s, e)
  BY <1>3, <1>5, <1>6, GoesOnTransitive
<1>8. e.message.there
  <2>1. Base(e)
    BY <1>5
  <2> QED BY <2>1, BaseMessage
<1>9. /\ m \in MessageType /\ m.there /\ m.text = e.message.text
      /\ m.tool = e.message.tool /\ m.approval = e.message.approval
  BY <1>2, <1>6, <1>8 DEF MessageType
<1>10. u = [e EXCEPT !.message = m, !.status = final]
  BY <1>6 DEF RunType
<1> HIDE DEF m, u
<1>11. /\ u \in RunType /\ u.events = e.events /\ u.buffered = e.buffered /\ u.st = e.st
       /\ u.approvals = e.approvals /\ u.message = m /\ u.status = final
  BY <1>2, <1>6, <1>9, <1>10 DEF RunType
<1> DEFINE h == Flushed(e)
<1>12. h \in RunType /\ SameFields(e, h) /\ h.buffered = 0 /\ GoesOn(e, h)
  BY <1>6, FlushedKeeps
<1>13. f \in RunType /\ f.buffered = 0 /\ f.events = h.events /\ SameFields(u, f)
  BY <1>11, <1>12 DEF Flushed, Push, RunType, SameFields
<1> HIDE DEF h, f
<1>14. GoesOn(s, f)
  <2>1. GoesOn(e, f)
    BY <1>12, <1>13 DEF GoesOn
  <2> QED BY <1>6, <1>7, <1>13, <2>1, GoesOnTransitive
<1>15. f.message = m /\ MessageIs(m) \in EventType /\ ~Terminal(MessageIs(m))
  BY <1>9, <1>11, <1>13, EventTypes DEF SameFields, MessageIs, Terminal
<1>16. /\ p \in RunType /\ SameFields(f, p) /\ p.buffered = 0 /\ p.events = Append(f.events, MessageIs(m))
       /\ GoesOn(f, p) /\ Replay(p.events, Len(p.events)) = m
  <2> DEFINE y == MessageIs(m)
  <2>1. p = Push(f, y) /\ y \in EventType /\ ~Terminal(y)
    BY <1>15
  <2>2. \A z : Apply(z, y) = m
    BY DEF Apply, MessageIs
  <2> HIDE DEF p, y
  <2>3. /\ p \in RunType /\ SameFields(f, p) /\ p.buffered = f.buffered /\ p.events = Append(f.events, y)
        /\ GoesOn(f, p) /\ Replay(p.events, Len(p.events)) = Apply(Replay(f.events, Len(f.events)), y)
    BY <1>13, <2>1, PushKeeps
  <2> QED BY <1>13, <2>2, <2>3 DEF y
<1> HIDE DEF p
<1>17. /\ w \in RunType /\ SameFields(p, w) /\ w.buffered = 0 /\ w.events = Append(p.events, RunIs(final))
       /\ Extends(p.events, w.events) /\ Replay(w.events, Len(w.events)) = m
  <2> DEFINE y == RunIs(final)
  <2>1. w = Push(p, y) /\ y \in EventType
    BY <1>2, EventTypes
  <2>2. \A z : Apply(z, y) = z
    BY DEF Apply, RunIs
  <2> HIDE DEF w, y
  <2>3. /\ w \in RunType /\ SameFields(p, w) /\ w.buffered = p.buffered /\ w.events = Append(p.events, y)
        /\ Extends(p.events, w.events)
        /\ Replay(w.events, Len(w.events)) = Apply(Replay(p.events, Len(p.events)), y)
    BY <1>16, <2>1, PushKeeps
  <2> QED BY <1>16, <2>2, <2>3 DEF y
<1> HIDE DEF w
<1>18. /\ t \in RunType /\ t.st = "done" /\ t.buffered = 0 /\ t.events = w.events /\ t.message = m
  BY <1>13, <1>15, <1>16, <1>17 DEF RunType, SameFields
<1> HIDE DEF t
<1>19. GoesOn(s, p) /\ s.events \in Seq(EventType) /\ p.events \in Seq(EventType) /\ w.events \in Seq(EventType)
  BY <1>6, <1>13, <1>14, <1>16, <1>17, GoesOnTransitive DEF RunType
<1>20. Extends(s.events, w.events)
  BY <1>17, <1>19, ExtendsTransitive DEF GoesOn
<1>21. Explained(t)
  BY <1>9, <1>17, <1>18 DEF Explained, MessageType
<1>22. InShape(t)
  <2>1. InShape(s) /\ s.st = "active"
    BY DEF Good, Base
  <2>2. \A n \in 1 .. Len(p.events) : ~Terminal(p.events[n])
    <3>1. ASSUME NEW n \in 1 .. Len(s.events) PROVE ~Terminal(p.events[n])
      BY <1>19, <2>1 DEF InShape, GoesOn, Extends
    <3>2. ASSUME NEW n \in Len(s.events) + 1 .. Len(p.events) PROVE ~Terminal(p.events[n])
      BY <1>19 DEF GoesOn
    <3> QED BY <1>19, <3>1, <3>2
  <2>3. Len(w.events) = Len(p.events) + 1
    BY <1>17, <1>19
  <2>4. \A n \in 1 .. Len(w.events) : Terminal(w.events[n]) => n = Len(w.events)
    <3>1. ASSUME NEW n \in 1 .. Len(p.events) PROVE ~Terminal(w.events[n])
      BY <1>17, <2>2 DEF Extends
    <3> QED BY <1>19, <2>3, <3>1
  <2> QED BY <1>18, <1>19, <1>20, <2>1, <2>4 DEF InShape, Extends
<1>23. ASSUME NEW c \in Call PROVE t.message.tool[c] \notin Open /\ t.message.approval[c] # "pending"
  BY <1>3, <1>4, <1>5, <1>9, <1>18
<1> QED BY <1>1, <1>18, <1>20, <1>21, <1>22, <1>23 DEF Over

-----------------------------------------------------------------------------
(* The server, given the runs R and the answers S that are stored.         *)

\* The run s and the answer m that is stored of it.
RunOK(s, m) ==
  /\ s.buffered <= MaxText
  /\ s.st = "active" => Good(s) /\ m = Blank /\ (s.aborted => s.approvals = {})
  /\ s.st = "done" => Over(s) /\ m = s.message
  /\ s.st = "unused" => s = NoRun /\ m = Blank

Server(R, S) ==
  /\ R \in [Run -> RunType] /\ S \in [Run -> MessageType]
  /\ \A r \in Run : RunOK(R[r], S[r])
  /\ \A r, s \in Run : R[r].st = "active" /\ R[s].st = "active" => r = s

Known(s) == s.st \in {"active", "done"}

\* What a step of the server may do to a run: its events grow, as long as it
\* is known or the client has events of it in its queue.
RunStep(s, m, t, n, queued) ==
  /\ s.st # "unused" => t.st # "unused"
  /\ Known(t) \/ queued => Extends(s.events, t.events)
  /\ Known(t) /\ s.st # "unused" => Known(s)
  /\ Known(t) /\ s.st = "done" => t = s /\ n = m

Steps(R, S, R2, S2, sub) == \A r \in Run : RunStep(R[r], S[r], R2[r], S2[r], sub = r)

\* A run that stays as it is.
LEMMA RunStepStays ==
  ASSUME NEW s \in RunType, NEW m, NEW queued
  PROVE  RunStep(s, m, s, m, queued)
BY DEF RunStep, Extends, RunType

\* The server stays as it is.
LEMMA StepsStay ==
  ASSUME NEW R, NEW S, Server(R, S), NEW sub
  PROVE  Steps(R, S, R, S, sub)
BY RunStepStays DEF Steps, Server

\* One run is changed.
LEMMA OneSteps ==
  ASSUME NEW R, NEW S, Server(R, S), NEW sub, NEW r \in Run,
         NEW t \in RunType, NEW m \in MessageType, RunOK(t, m), RunStep(R[r], S[r], t, m, sub = r),
         t.st = "active" => \A q \in Run : R[q].st = "active" => q = r
  PROVE  LET R2 == [R EXCEPT ![r] = t]
             S2 == [S EXCEPT ![r] = m]
         IN Server(R2, S2) /\ Steps(R, S, R2, S2, sub)
<1> DEFINE R2 == [R EXCEPT ![r] = t]
           S2 == [S EXCEPT ![r] = m]
<1>1. R \in [Run -> RunType] /\ S \in [Run -> MessageType]
  BY DEF Server
<1>2. /\ R2 \in [Run -> RunType] /\ S2 \in [Run -> MessageType] /\ R2[r] = t /\ S2[r] = m
      /\ \A q \in Run \ {r} : R2[q] = R[q] /\ S2[q] = S[q]
  BY <1>1
<1> HIDE DEF R2, S2
<1>3. ASSUME NEW q \in Run PROVE RunOK(R2[q], S2[q]) /\ RunStep(R[q], S[q], R2[q], S2[q], sub = q)
  <2>1. CASE q = r
    BY <1>2, <2>1
  <2>2. CASE q # r
    <3>1. RunOK(R[q], S[q]) /\ RunStep(R[q], S[q], R[q], S[q], sub = q)
      BY <1>1, RunStepStays DEF Server
    <3> QED BY <1>2, <2>2, <3>1
  <2> QED BY <2>1, <2>2
<1>4. ASSUME NEW q \in Run, NEW s \in Run, R2[q].st = "active", R2[s].st = "active" PROVE q = s
  BY <1>2, <1>4 DEF Server
<1>5. Server(R2, S2)
  BY <1>2, <1>3, <1>4 DEF Server
<1>6. Steps(R, S, R2, S2, sub)
  BY <1>3 DEF Steps
<1> QED BY <1>5, <1>6 DEF R2, S2

\* A run at work goes on.
LEMMA GoodSteps ==
  ASSUME NEW R, NEW S, Server(R, S), NEW sub, NEW r \in Run, R[r].st = "active",
         NEW t, Good(t), GoesOn(R[r], t), t.aborted => t.approvals = {}
  PROVE  LET R2 == [R EXCEPT ![r] = t] IN Server(R2, S) /\ Steps(R, S, R2, S, sub)
<1>1. RunOK(R[r], S[r]) /\ S \in [Run -> MessageType]
  BY DEF Server
<1>2. S[r] = Blank /\ S[r] \in MessageType
  BY <1>1 DEF RunOK
<1>3. t \in RunType /\ t.st = "active" /\ t.buffered <= MaxText
  <2>1. Base(t)
    BY DEF Good
  <2> QED BY <2>1, BaseMessage DEF Base
<1>4. RunOK(t, S[r])
  BY <1>2, <1>3 DEF RunOK
<1>5. RunStep(R[r], S[r], t, S[r], sub = r)
  BY <1>3 DEF RunStep, GoesOn, Known
<1>6. \A q \in Run : R[q].st = "active" => q = r
  BY DEF Server
<1>7. [S EXCEPT ![r] = S[r]] = S
  BY <1>1
<1> DEFINE R2 == [R EXCEPT ![r] = t]
           S2 == [S EXCEPT ![r] = S[r]]
<1>8. Server(R2, S2) /\ Steps(R, S, R2, S2, sub)
  BY <1>2, <1>3, <1>4, <1>5, <1>6, OneSteps
<1> QED BY <1>7, <1>8

\* A run at work goes on and asks for nothing new.
LEMMA GoesSteps ==
  ASSUME NEW R, NEW S, Server(R, S), NEW sub, NEW r \in Run, R[r].st = "active",
         NEW t, Goes(R[r], t)
  PROVE  LET R2 == [R EXCEPT ![r] = t] IN Server(R2, S) /\ Steps(R, S, R2, S, sub)
<1>1. RunOK(R[r], S[r])
  BY DEF Server
<1>2. Good(t) /\ GoesOn(R[r], t) /\ (t.aborted => t.approvals = {})
  BY <1>1 DEF RunOK, Goes
<1> QED BY <1>2, GoodSteps

\* A run at work is good, nothing of it is stored, and it waits for nothing when it is cancelled.
LEMMA ActiveIsGood ==
  ASSUME NEW R, NEW S, Server(R, S), NEW r \in Run, R[r].st = "active"
  PROVE  Good(R[r]) /\ S[r] = Blank /\ (R[r].aborted => R[r].approvals = {})
BY DEF Server, RunOK

\* A run begins.
LEMMA NewRunSteps ==
  ASSUME NEW R, NEW S, Server(R, S), NEW sub, NEW r \in Run, R[r].st = "unused",
         \A q \in Run : R[q].st # "active"
  PROVE  LET R2 == [R EXCEPT ![r] = NewRun] IN Server(R2, S) /\ Steps(R, S, R2, S, sub)
<1> DEFINE t == NewRun
<1>1. RunOK(R[r], S[r]) /\ S \in [Run -> MessageType]
  BY DEF Server
<1>2. S[r] = Blank /\ S[r] \in MessageType /\ R[r] = NoRun
  BY <1>1 DEF RunOK
<1>3. Good(t) /\ t.approvals = {} /\ ~t.aborted
  BY NewRunIsGood
<1> HIDE DEF t
<1>4. t \in RunType /\ t.st = "active" /\ t.buffered <= MaxText
  <2>1. Base(t)
    BY <1>3 DEF Good
  <2> QED BY <2>1, BaseMessage DEF Base
<1>5. RunOK(t, S[r])
  BY <1>2, <1>3, <1>4 DEF RunOK
<1>6. RunStep(R[r], S[r], t, S[r], sub = r)
  <2>1. Len(NoRun.events) = 0
    BY DEF NoRun
  <2>2. Extends(R[r].events, t.events)
    BY <1>2, <1>4, <2>1 DEF Extends, RunType
  <2>3. R[r].st = "unused"
    OBVIOUS
  <2> QED BY <1>4, <2>2, <2>3 DEF RunStep
<1>7. [S EXCEPT ![r] = S[r]] = S
  BY <1>1
<1> DEFINE R2 == [R EXCEPT ![r] = t]
           S2 == [S EXCEPT ![r] = S[r]]
<1>8. Server(R2, S2) /\ Steps(R, S, R2, S2, sub)
  BY <1>2, <1>4, <1>5, <1>6, OneSteps
<1> QED BY <1>7, <1>8 DEF t

\* A run ends.
LEMMA OverSteps ==
  ASSUME NEW R, NEW S, Server(R, S), NEW sub, NEW r \in Run, R[r].st = "active",
         NEW t, Over(t), Extends(R[r].events, t.events)
  PROVE  LET R2 == [R EXCEPT ![r] = t]
             S2 == [S EXCEPT ![r] = t.message]
         IN Server(R2, S2) /\ Steps(R, S, R2, S2, sub)
<1> DEFINE m == t.message
<1>1. t \in RunType /\ t.st = "done" /\ t.buffered <= MaxText /\ m \in MessageType
  BY StreamAssumption DEF Over, RunType
<1>2. RunOK(t, m)
  BY <1>1 DEF RunOK
<1>3. RunStep(R[r], S[r], t, m, sub = r)
  BY <1>1 DEF RunStep, Known
<1> HIDE DEF m
<1>4. LET R2 == [R EXCEPT ![r] = t]
          S2 == [S EXCEPT ![r] = m]
      IN Server(R2, S2) /\ Steps(R, S, R2, S2, sub)
  BY <1>1, <1>2, <1>3, OneSteps
<1> QED BY <1>4 DEF m

\* The deltas of a run are flushed, also of one that is not at work.
LEMMA FlushedSteps ==
  ASSUME NEW R, NEW S, Server(R, S), NEW r \in Run, R[r].st # "gone", NEW queued
  PROVE  LET t == Flushed(R[r]) IN
         /\ t \in RunType /\ RunOK(t, S[r]) /\ t.st = R[r].st /\ t.buffered = 0 /\ t.message = R[r].message
         /\ RunStep(R[r], S[r], t, S[r], queued)
<1>1. R[r] \in RunType /\ RunOK(R[r], S[r])
  BY DEF Server
<1>2. CASE R[r].st = "active"
  <2> DEFINE t == Flushed(R[r])
  <2>1. Good(R[r]) /\ S[r] = Blank /\ (R[r].aborted => R[r].approvals = {})
    BY <1>2, ActiveIsGood
  <2>2. Goes(R[r], t) /\ t.message = R[r].message
    BY <2>1, FlushedGoes
  <2>3. t.buffered = 0
    <3>1. Explained(R[r])
      BY <2>1 DEF Good, Base
    <3> QED BY <1>1, <3>1, FlushedKeeps
  <2> HIDE DEF t
  <2>4. t \in RunType /\ t.st = "active" /\ t.buffered <= MaxText
    BY <2>2, <2>3, StreamAssumption DEF Goes, Good, Base
  <2>5. RunOK(t, S[r])
    BY <2>1, <2>2, <2>4 DEF RunOK, Goes
  <2>6. RunStep(R[r], S[r], t, S[r], queued)
    BY <1>2, <2>2, <2>4 DEF RunStep, Goes, GoesOn, Known
  <2> QED BY <1>2, <2>2, <2>3, <2>4, <2>5, <2>6 DEF t
<1>3. CASE R[r].st # "active"
  <2>1. R[r].buffered = 0
    BY <1>1, <1>3 DEF RunOK, RunType, Over, NoRun
  <2>2. Flushed(R[r]) = R[r]
    BY <2>1 DEF Flushed
  <2> QED BY <1>1, <2>1, <2>2, RunStepStays
<1> QED BY <1>2, <1>3

\* A run that was not started has its type.
LEMMA NoRunType == NoRun \in RunType /\ NoRun.st = "unused" /\ NoRun.buffered = 0 /\ NoRun.events = <<>>
<1>1. <<>> \in Seq(EventType)
  OBVIOUS
<1> QED BY <1>1, BlankType DEF NoRun, RunType, RunStatus

\* A run that is forgotten has its type.
LEMMA PastType == Past \in RunType /\ Past.st = "gone" /\ Past.buffered = 0
BY NoRunType DEF Past, RunType

\* A run is forgotten.
LEMMA GoneSteps ==
  ASSUME NEW s \in RunType, s.buffered <= MaxText, NEW m, NEW n, NEW t, NEW queued \in BOOLEAN,
         t = IF queued THEN [s EXCEPT !.st = "gone"] ELSE Past
  PROVE  t \in RunType /\ t.st = "gone" /\ RunOK(t, n) /\ RunStep(s, m, t, n, queued)
<1>1. CASE queued
  <2>1. t \in RunType /\ t.st = "gone" /\ t.events = s.events /\ t.buffered = s.buffered
    BY <1>1 DEF RunType
  <2>2. Extends(s.events, t.events)
    BY <2>1 DEF Extends, RunType
  <2> QED BY <2>1, <2>2 DEF RunOK, RunStep, Known
<1>2. CASE ~queued
  <2>1. t = Past
    BY <1>2
  <2> QED BY <1>2, <2>1, PastType, StreamAssumption DEF RunOK, RunStep, Known
<1> QED BY <1>1, <1>2

-----------------------------------------------------------------------------
(* The steps of the server.                                                *)

\* A tool call and how far it is.
CallType == [run : Run \cup {0}, phase : {"none", "offered", "started", "asking", "answered", "ended"}]

\* The invariant of the server.
ServerInv ==
  /\ Server(run, stored)
  /\ call \in [Call -> CallType] /\ executed \subseteq Call
  /\ \A c \in Call : call[c].phase # "none" => call[c].run \in Run

\* What every step does to the server.
ServerGoesOn == Server(run', stored') /\ Steps(run, stored, run', stored', es.sub)

\* A step changes one run, which goes on.
LEMMA ChangeSteps ==
  ASSUME ServerInv, NEW r \in Run, Active(r), NEW t, Goes(run[r], t), Change(r, t), UNCHANGED stored
  PROVE  ServerGoesOn
<1>1. LET R2 == [run EXCEPT ![r] = t] IN Server(R2, stored) /\ Steps(run, stored, R2, stored, es.sub)
  BY GoesSteps DEF ServerInv, Active
<1> QED BY <1>1 DEF ServerGoesOn, Change

\* A call of a run at work was made.
LEMMA CallIsIn ==
  ASSUME ServerInv, NEW c \in Call, NEW phase, phase # "none", In(c, phase)
  PROVE  call[c].run \in Run /\ run[call[c].run].st = "active" /\ Good(run[call[c].run])
<1>1. call[c].run \in Run /\ run[call[c].run].st = "active"
  BY DEF ServerInv, In, Active
<1> QED BY <1>1, ActiveIsGood DEF ServerInv

\* The backend writes, or a timer flushes.
LEMMA TextSteps ==
  ASSUME ServerInv, NEW r \in Run, TextStart(r) \/ TextDelta(r) \/ TextEnd(r) \/ FlushTimer(r)
  PROVE  ServerGoesOn
<1>1. Active(r) /\ UNCHANGED stored
  BY DEF TextStart, TextDelta, TextEnd, FlushTimer, Writing
<1>2. Good(run[r])
  BY <1>1, ActiveIsGood DEF ServerInv, Active
<1>3. CASE TextStart(r)
  <2>1. Change(r, Emit([run[r] EXCEPT !.message.text = 1], TextCreated))
    BY <1>3 DEF TextStart
  <2>2. Goes(run[r], Emit([run[r] EXCEPT !.message.text = 1], TextCreated))
    BY <1>2, TextStartGoes
  <2> QED BY <1>1, <2>1, <2>2, ChangeSteps
<1>4. CASE TextDelta(r)
  <2> DEFINE t == [run[r] EXCEPT !.message.text = @ + 1, !.buffered = @ + 1]
  <2>1. Change(r, t) /\ run[r].message.text \in 1 .. MaxText
    BY <1>4 DEF TextDelta
  <2>2. Goes(run[r], t)
    BY <1>2, <2>1, TextDeltaGoes
  <2> HIDE DEF t
  <2> QED BY <1>1, <2>1, <2>2, ChangeSteps
<1>5. CASE TextEnd(r)
  <2> DEFINE t == Emit([run[r] EXCEPT !.message.text = @ + 1], TextUpdated(run[r].message.text + 1))
  <2>1. Change(r, t) /\ run[r].message.text \in 1 .. MaxText
    BY <1>5 DEF TextEnd
  <2>2. Goes(run[r], t)
    BY <1>2, <2>1, TextEndGoes
  <2> HIDE DEF t
  <2> QED BY <1>1, <2>1, <2>2, ChangeSteps
<1>6. CASE FlushTimer(r)
  <2>1. Change(r, Flushed(run[r]))
    BY <1>6 DEF FlushTimer
  <2>2. Goes(run[r], Flushed(run[r]))
    BY <1>2, FlushedGoes
  <2> QED BY <1>1, <2>1, <2>2, ChangeSteps
<1> QED BY <1>3, <1>4, <1>5, <1>6

\* A tool call goes on.
LEMMA CallSteps ==
  ASSUME ServerInv, NEW c \in Call,
         (\E r \in Run : CallOffered(r, c)) \/ CallStarts(c) \/ \E status \in Result : CallEnds(c, status)
  PROVE  ServerGoesOn
<1>1. ASSUME NEW r \in Run, Active(r), NEW status \in ToolStatus,
             Change(r, SetTool(run[r], c, status)), UNCHANGED stored
      PROVE  ServerGoesOn
  <2>1. Good(run[r])
    BY <1>1, ActiveIsGood DEF ServerInv, Active
  <2>2. Goes(run[r], SetTool(run[r], c, status))
    BY <2>1, SetToolGoes
  <2> QED BY <1>1, <2>2, ChangeSteps
<1>2. {"pending", "running", "rejected"} \cup Result \subseteq ToolStatus
  BY StreamAssumption DEF ToolStatus, Open, Outcome
<1>3. ASSUME NEW r \in Run, CallOffered(r, c) PROVE ServerGoesOn
  <2>1. Active(r) /\ Change(r, SetTool(run[r], c, "pending")) /\ UNCHANGED stored
    BY <1>3 DEF CallOffered, Writing
  <2> QED BY <1>1, <1>2, <2>1
<1>4. CASE CallStarts(c)
  <2>1. In(c, "offered") /\ Change(call[c].run, SetTool(run[call[c].run], c, "running")) /\ UNCHANGED stored
    BY <1>4 DEF CallStarts
  <2>2. call[c].run \in Run /\ Active(call[c].run)
    BY <2>1, CallIsIn DEF Active
  <2> QED BY <1>1, <1>2, <2>1, <2>2
<1>5. ASSUME NEW status \in Result, CallEnds(c, status) PROVE ServerGoesOn
  <2> DEFINE s == run[call[c].run]
             end == IF s.message.tool[c] = "rejected" THEN "rejected" ELSE status
  <2>1. (In(c, "answered") \/ In(c, "asking")) /\ Change(call[c].run, SetTool(s, c, end)) /\ UNCHANGED stored
    BY <1>5 DEF CallEnds
  <2>2. call[c].run \in Run /\ Active(call[c].run)
    BY <2>1, CallIsIn DEF Active
  <2>3. end \in ToolStatus
    BY <1>2
  <2> HIDE DEF end
  <2> QED BY <1>1, <2>1, <2>2, <2>3
<1> QED BY <1>3, <1>4, <1>5

\* Approvals are asked for, decided and dismissed.
LEMMA ApprovalSteps ==
  ASSUME ServerInv, \/ \E c \in Call : CallAsks(c)
                    \/ \E c \in Call, decision \in {"approved", "rejected"} : Decide(c, decision)
                    \/ \E r \in Run : Cancel(r)
  PROVE  ServerGoesOn
<1>1. ASSUME NEW r \in Run, run[r].st = "active", NEW t, Good(t), GoesOn(run[r], t),
             t.aborted => t.approvals = {}, Change(r, t), UNCHANGED stored
      PROVE  ServerGoesOn
  <2>1. LET R2 == [run EXCEPT ![r] = t] IN Server(R2, stored) /\ Steps(run, stored, R2, stored, es.sub)
    BY <1>1, GoodSteps DEF ServerInv
  <2> QED BY <1>1, <2>1 DEF ServerGoesOn, Change
<1>2. ASSUME NEW c \in Call, CallAsks(c) PROVE ServerGoesOn
  <2> DEFINE r == call[c].run
             t == Requested(run[r], c)
  <2>1. In(c, "started") /\ Change(r, t) /\ UNCHANGED stored
    BY <1>2 DEF CallAsks
  <2>2. r \in Run /\ run[r].st = "active" /\ Good(run[r])
    BY <2>1, CallIsIn
  <2>3. run[r].aborted => run[r].approvals = {}
    BY <2>2, ActiveIsGood DEF ServerInv
  <2> HIDE DEF r
  <2>4. Good(t) /\ GoesOn(run[r], t) /\ t.aborted = run[r].aborted /\ (run[r].aborted => t = run[r])
    BY <2>2, RequestedKeeps
  <2> HIDE DEF t
  <2>5. t.aborted => t.approvals = {}
    BY <2>3, <2>4
  <2> QED BY <1>1, <2>1, <2>2, <2>4, <2>5
<1>3. ASSUME NEW c \in Call, NEW decision \in {"approved", "rejected"}, Decide(c, decision) PROVE ServerGoesOn
  <2> DEFINE r == call[c].run
             t == Finished(run[r], c, decision)
  <2>1. In(c, "asking") /\ c \in run[r].approvals /\ Change(r, t) /\ UNCHANGED stored
    BY <1>3 DEF Decide
  <2>2. r \in Run /\ run[r].st = "active" /\ Good(run[r])
    BY <2>1, CallIsIn
  <2>3. run[r].aborted => run[r].approvals = {}
    BY <2>2, ActiveIsGood DEF ServerInv
  <2> HIDE DEF r
  <2>4. Good(t) /\ GoesOn(run[r], t) /\ t.aborted = run[r].aborted
    BY <2>1, <2>2, FinishedKeeps
  <2> HIDE DEF t
  <2>5. t.aborted => t.approvals = {}
    BY <2>1, <2>3, <2>4
  <2> QED BY <1>1, <2>1, <2>2, <2>4, <2>5
<1>4. ASSUME NEW r \in Run, Cancel(r) PROVE ServerGoesOn
  <2> DEFINE t == Cancelled(run[r])
  <2>1. run[r].st = "active" /\ ~run[r].aborted /\ Change(r, t) /\ UNCHANGED stored
    BY <1>4 DEF Cancel, Active
  <2>2. Good(run[r])
    BY <2>1, ActiveIsGood DEF ServerInv
  <2>3. Good(t) /\ GoesOn(run[r], t) /\ t.approvals = {}
    BY <2>1, <2>2, CancelledKeeps
  <2> HIDE DEF t
  <2> QED BY <1>1, <2>1, <2>3
<1> QED BY <1>2, <1>3, <1>4

\* backend.run has returned.
LEMMA FinalizeSteps ==
  ASSUME ServerInv, NEW r \in Run, NEW result \in Result, Finalize(r, result)
  PROVE  ServerGoesOn
<1> DEFINE t == Finalized(run[r], result)
<1>1. run[r].st = "active" /\ Change(r, t) /\ stored' = [stored EXCEPT ![r] = t.message]
  BY DEF Finalize, Active
<1>2. Good(run[r])
  BY <1>1, ActiveIsGood DEF ServerInv
<1>3. Over(t) /\ Extends(run[r].events, t.events)
  BY <1>2, FinalizedKeeps
<1> HIDE DEF t
<1>4. LET R2 == [run EXCEPT ![r] = t]
          S2 == [stored EXCEPT ![r] = t.message]
      IN Server(R2, S2) /\ Steps(run, stored, R2, S2, es.sub)
  BY <1>1, <1>3, OverSteps DEF ServerInv
<1> QED BY <1>1, <1>4 DEF ServerGoesOn, Change

\* A run is forgotten after a while, or all of them when the process dies.
LEMMA ExpireSteps ==
  ASSUME ServerInv, NEW r \in Run, Expire(r)
  PROVE  ServerGoesOn
<1> DEFINE t == Gone(r)
<1>1. Change(r, t) /\ UNCHANGED stored
  BY DEF Expire
<1>2. run[r] \in RunType /\ run[r].buffered <= MaxText /\ stored \in [Run -> MessageType]
  BY DEF ServerInv, Server, RunOK
<1>3. t = IF es.sub = r THEN [run[r] EXCEPT !.st = "gone"] ELSE Past
  BY DEF Gone
<1> HIDE DEF t
<1>4. t \in RunType /\ t.st = "gone" /\ RunOK(t, stored[r]) /\ RunStep(run[r], stored[r], t, stored[r], es.sub = r)
  <2> DEFINE queued == es.sub = r
  <2>1. queued \in BOOLEAN /\ t = IF queued THEN [run[r] EXCEPT !.st = "gone"] ELSE Past
    BY <1>3
  <2> HIDE DEF queued
  <2>2. RunOK(t, stored[r]) /\ RunStep(run[r], stored[r], t, stored[r], queued) /\ t \in RunType /\ t.st = "gone"
    BY <1>2, <2>1, GoneSteps
  <2> QED BY <2>2 DEF queued
<1>5. LET R2 == [run EXCEPT ![r] = t]
          S2 == [stored EXCEPT ![r] = stored[r]]
      IN Server(R2, S2) /\ Steps(run, stored, R2, S2, es.sub)
  BY <1>2, <1>4, OneSteps DEF ServerInv
<1>6. [stored EXCEPT ![r] = stored[r]] = stored
  BY <1>2
<1> QED BY <1>1, <1>5, <1>6 DEF ServerGoesOn, Change

\* The process dies and starts again.
LEMMA RestartSteps ==
  ASSUME ServerInv, Restart
  PROVE  ServerGoesOn
<1>1. run' = [r \in Run |-> IF run[r].st = "unused" THEN run[r] ELSE Gone(r)]
  BY DEF Restart
<1>2. /\ stored' \in [Run -> MessageType]
      /\ \A r \in Run : run[r].st # "active" => stored'[r] = stored[r]
  <2>1. run \in [Run -> RunType] /\ stored \in [Run -> MessageType]
    BY DEF ServerInv, Server
  <2>2. CASE UNCHANGED stored
    BY <2>1, <2>2
  <2>3. CASE stored' = [r \in Run |->
               IF Active(r) THEN [run[r].message EXCEPT !.status = "interrupted"] ELSE stored[r]]
    <3>1. \A r \in Run : [run[r].message EXCEPT !.status = "interrupted"] \in MessageType
      <4>1. \A m \in MessageType : [m EXCEPT !.status = "interrupted"] \in MessageType
        BY DEF MessageType
      <4>2. \A r \in Run : run[r].message \in MessageType
        BY <2>1 DEF RunType
      <4> QED BY <4>1, <4>2
    <3> QED BY <2>1, <2>3, <3>1 DEF Active
  <2> QED BY <2>2, <2>3 DEF Restart
<1>3. ASSUME NEW r \in Run
      PROVE  /\ run'[r] \in RunType /\ run'[r].st # "active" /\ RunOK(run'[r], stored'[r])
             /\ RunStep(run[r], stored[r], run'[r], stored'[r], es.sub = r)
  <2>1. run[r] \in RunType /\ RunOK(run[r], stored[r])
    BY DEF ServerInv, Server
  <2>2. CASE run[r].st = "unused"
    <3>1. run'[r] = run[r] /\ stored'[r] = stored[r]
      BY <1>1, <1>2, <2>2
    <3> QED BY <2>1, <2>2, <3>1, RunStepStays
  <2>3. CASE run[r].st # "unused"
    <3> DEFINE queued == es.sub = r
               t == run'[r]
               n == stored'[r]
    <3>1. t = (IF queued THEN [run[r] EXCEPT !.st = "gone"] ELSE Past) /\ queued \in BOOLEAN
      BY <1>1, <2>3 DEF Gone
    <3>2. run[r].buffered <= MaxText
      BY <2>1 DEF RunOK
    <3> HIDE DEF queued, t, n
    <3>3. t \in RunType /\ t.st = "gone" /\ RunOK(t, n) /\ RunStep(run[r], stored[r], t, n, queued)
      BY <2>1, <3>1, <3>2, GoneSteps
    <3> QED BY <3>3 DEF queued, t, n
  <2> QED BY <2>2, <2>3
<1>4. run' \in [Run -> RunType]
  BY <1>1, <1>3
<1> QED BY <1>2, <1>3, <1>4 DEF ServerGoesOn, Server, Steps

\* Some runs are flushed.
LEMMA FlushSteps ==
  ASSUME ServerInv, UNCHANGED stored, DOMAIN run' = Run, run' = [r \in Run |-> run'[r]],
         \A r \in Run : run'[r] = run[r] \/ (run[r].st # "gone" /\ run'[r] = Flushed(run[r]))
  PROVE  ServerGoesOn
<1>1. Server(run, stored)
  BY DEF ServerInv
<1>2. ASSUME NEW r \in Run
      PROVE  /\ run'[r] \in RunType /\ run'[r].st = run[r].st /\ RunOK(run'[r], stored[r])
             /\ RunStep(run[r], stored[r], run'[r], stored[r], es.sub = r)
  <2>1. CASE run'[r] = run[r]
    <3>1. run[r] \in RunType /\ RunOK(run[r], stored[r])
      BY <1>1 DEF Server
    <3> QED BY <2>1, <3>1, RunStepStays
  <2>2. CASE run[r].st # "gone" /\ run'[r] = Flushed(run[r])
    BY <1>1, <2>2, FlushedSteps
  <2> QED BY <2>1, <2>2
<1>3. run' \in [Run -> RunType]
  BY <1>2
<1> QED BY <1>1, <1>2, <1>3 DEF ServerGoesOn, Server, Steps

\* A new run gets an id that is not used.
LEMMA NextRunIs ==
  ASSUME \E r \in Run : run[r].st = "unused"
  PROVE  NextRun \in Run /\ run[NextRun].st = "unused"
<1> DEFINE T == {r \in Run : run[r].st = "unused"}
<1>1. T \subseteq Nat /\ T # {}
  BY StreamAssumption
<1>2. PICK r \in T : \A s \in T : r <= s
  <2> HIDE DEF T
  <2> QED BY <1>1, Least
<1>3. \E x \in Run : run[x].st = "unused" /\ \A s \in Run : run[s].st = "unused" => x <= s
  BY <1>2
<1> QED BY <1>3 DEF NextRun

\* startRun.
LEMMA StartSteps ==
  ASSUME ServerInv, StartRun, UNCHANGED stored
  PROVE  ServerGoesOn /\ NextRun \in Run /\ run'[NextRun].st = "active"
<1> DEFINE r == NextRun
<1>1. (\A q \in Run : run[q].st # "active") /\ run' = [run EXCEPT ![r] = NewRun]
  BY DEF StartRun, Active
<1>2. r \in Run /\ run[r].st = "unused"
  BY NextRunIs DEF StartRun
<1> HIDE DEF r
<1>3. LET R2 == [run EXCEPT ![r] = NewRun] IN Server(R2, stored) /\ Steps(run, stored, R2, stored, es.sub)
  BY <1>1, <1>2, NewRunSteps DEF ServerInv
<1>4. run' = [run EXCEPT ![r] = NewRun] /\ run \in [Run -> RunType]
  BY <1>1 DEF ServerInv, Server
<1>5. run'[r].st = "active"
  <2>1. NewRun.st = "active"
    BY NewRunIsGood DEF Good, Base
  <2> QED BY <1>2, <1>4, <2>1
<1> QED BY <1>2, <1>3, <1>4, <1>5 DEF ServerGoesOn, r

\* getConversation flushes what waits.
LEMMA SnapshotSteps ==
  ASSUME ServerInv, \E i \in DOMAIN loads : GetConversation(i)
  PROVE  ServerGoesOn
<1>1. UNCHANGED stored /\ run' = [r \in Run |-> IF Active(r) THEN Snapshot(run[r]) ELSE run[r]]
  BY DEF GetConversation
<1>2. \A r \in Run : run'[r] = run[r] \/ (run[r].st # "gone" /\ run'[r] = Flushed(run[r]))
  BY <1>1 DEF Active, Snapshot
<1>3. DOMAIN run' = Run /\ run' = [r \in Run |-> run'[r]]
  BY <1>1
<1> QED BY <1>1, <1>2, <1>3, FlushSteps

\* Server and stored answers stay as they are.
LEMMA ServerStays ==
  ASSUME ServerInv, UNCHANGED <<run, stored>>
  PROVE  ServerGoesOn
BY StepsStay DEF ServerInv, ServerGoesOn

\* streamEvents flushes what waits.
LEMMA ConnectSteps ==
  ASSUME ServerInv, Connect
  PROVE  ServerGoesOn
<1>1. UNCHANGED stored /\ run \in [Run -> RunType]
  BY DEF Connect, ServerInv, Server
<1>2. CASE UNCHANGED run
  BY <1>1, <1>2, ServerStays
<1>3. CASE run[es.sub].st # "gone" /\ run' = [run EXCEPT ![es.sub] = Flushed(@)]
  <2>1. \A r \in Run : run'[r] = run[r] \/ (run[r].st # "gone" /\ run'[r] = Flushed(run[r]))
    BY <1>1, <1>3
  <2>2. DOMAIN run' = Run /\ run' = [r \in Run |-> run'[r]]
    BY <1>1, <1>3
  <2> QED BY <1>1, <2>1, <2>2, FlushSteps
<1> QED BY <1>2, <1>3 DEF Connect

\* The steps of the client, which leave the server alone.
ClientStep ==
  \/ Leave \/ Enter \/ StartReturns \/ Deliver \/ Frame \/ Drop \/ Refuse \/ StartLost
  \/ \E i \in DOMAIN loads : LoadReturns(i) \/ LoadFails(i)

\* No step of the client alone changes the server.
LEMMA ClientStepStays == ClientStep => UNCHANGED server
BY DEF ClientStep, Leave, Enter, StartReturns, Deliver, Frame, Drop, Refuse, StartLost, LoadReturns, LoadFails

\* The steps of the server the client has no part in.
ServerStep ==
  \/ Backend \/ SendElsewhere
  \/ \E r \in Run : Cancel(r) \/ FlushTimer(r) \/ Expire(r)
  \/ \E c \in Call, decision \in {"approved", "rejected"} : Decide(c, decision)

\* The steps of both.
JointStep == Send \/ Connect \/ Restart \/ \E i \in DOMAIN loads : GetConversation(i)

\* Each step is one of the three.
LEMMA NextIs == Next => ClientStep \/ ServerStep \/ JointStep
BY DEF Next, Backend, UserAction, Progress, FaultAction, ClientStep, ServerStep, JointStep

\* Each step lets the server go on.
LEMMA ServerNext ==
  ASSUME ServerInv, Next
  PROVE  ServerGoesOn
<1>1. CASE ClientStep
  BY <1>1, ClientStepStays, ServerStays DEF server
<1>2. CASE ServerStep
  <2>1. CASE Backend
    BY <2>1, TextSteps, CallSteps, ApprovalSteps, FinalizeSteps DEF Backend
  <2>2. CASE SendElsewhere
    <3>1. StartRun /\ UNCHANGED stored
      BY <2>2 DEF SendElsewhere
    <3> QED BY <3>1, StartSteps
  <2>3. CASE \E r \in Run : Cancel(r) \/ FlushTimer(r) \/ Expire(r)
    BY <2>3, TextSteps, ApprovalSteps, ExpireSteps
  <2>4. CASE \E c \in Call, decision \in {"approved", "rejected"} : Decide(c, decision)
    BY <2>4, ApprovalSteps
  <2> QED BY <1>2, <2>1, <2>2, <2>3, <2>4 DEF ServerStep
<1>3. CASE JointStep
  <2>1. CASE Send
    <3>1. StartRun /\ UNCHANGED stored
      BY <2>1 DEF Send
    <3> QED BY <3>1, StartSteps
  <2> QED BY <1>3, <2>1, ConnectSteps, RestartSteps, SnapshotSteps DEF JointStep
<1> QED BY <1>1, <1>2, <1>3, NextIs

\* Each step keeps the types of the calls.
LEMMA CallsNext ==
  ASSUME ServerInv, Next
  PROVE  /\ call' \in [Call -> CallType] /\ executed' \subseteq Call
         /\ \A c \in Call : call'[c].phase # "none" => call'[c].run \in Run
<1> DEFINE Calls == /\ call' \in [Call -> CallType] /\ executed' \subseteq Call
                    /\ \A c \in Call : call'[c].phase # "none" => call'[c].run \in Run
<1>0. /\ call \in [Call -> CallType] /\ executed \subseteq Call
      /\ \A c \in Call : call[c].phase # "none" => call[c].run \in Run
  BY DEF ServerInv
<1>1. CASE UNCHANGED <<call, executed>>
  BY <1>0, <1>1
<1>2. ASSUME NEW c \in Call, NEW phase \in {"started", "asking", "answered", "ended"}, call[c].phase # "none",
             Phase(c, phase), executed' \subseteq Call
      PROVE  Calls
  <2> DEFINE x == [call[c] EXCEPT !.phase = phase]
  <2>1. x \in CallType /\ x.run \in Run
    BY <1>0, <1>2 DEF CallType
  <2>2. call' = [call EXCEPT ![c] = x]
    BY <1>0, <1>2 DEF Phase
  <2> HIDE DEF x
  <2> QED BY <1>0, <1>2, <2>1, <2>2
<1>3. ASSUME NEW r \in Run, NEW c \in Call, CallOffered(r, c) PROVE Calls
  <2>1. call' = [call EXCEPT ![c] = [run |-> r, phase |-> "offered"]] /\ executed' = executed
    BY <1>3 DEF CallOffered
  <2>2. [run |-> r, phase |-> "offered"] \in CallType
    BY DEF CallType
  <2> QED BY <1>0, <2>1, <2>2
<1>4. ASSUME NEW c \in Call, CallStarts(c) PROVE Calls
  <2>1. Phase(c, "started") /\ executed' = executed /\ call[c].phase # "none"
    BY <1>4 DEF CallStarts, In
  <2> QED BY <1>0, <1>2, <2>1
<1>5. ASSUME NEW c \in Call, CallAsks(c) PROVE Calls
  <2>1. (Phase(c, "asking") \/ Phase(c, "answered")) /\ executed' = executed /\ call[c].phase # "none"
    BY <1>5 DEF CallAsks, In
  <2> QED BY <1>0, <1>2, <2>1
<1>6. ASSUME NEW c \in Call, NEW status \in Result, CallEnds(c, status) PROVE Calls
  <2>1. Phase(c, "ended") /\ executed' = executed /\ call[c].phase # "none"
    BY <1>6 DEF CallEnds, In
  <2> QED BY <1>0, <1>2, <2>1
<1>7. ASSUME NEW c \in Call, NEW decision \in {"approved", "rejected"}, Decide(c, decision) PROVE Calls
  <2>1. Phase(c, "answered") /\ executed' \in {executed, executed \cup {c}} /\ call[c].phase # "none"
    BY <1>7 DEF Decide, In
  <2>2. executed' \subseteq Call
    BY <1>0, <2>1
  <2> QED BY <1>2, <2>1, <2>2
<1>8. CASE ClientStep
  BY <1>1, <1>8, ClientStepStays DEF server
<1>9. CASE JointStep
  <2>1. UNCHANGED <<call, executed>>
    BY <1>9 DEF JointStep, Send, Connect, Restart, GetConversation
  <2> QED BY <1>1, <2>1
<1>10. CASE ServerStep
  <2>1. CASE \E r \in Run : TextStart(r) \/ TextDelta(r) \/ TextEnd(r) \/ FlushTimer(r) \/ Cancel(r) \/ Expire(r)
                           \/ \E result \in Result : Finalize(r, result)
    <3>1. UNCHANGED <<call, executed>>
      BY <2>1 DEF TextStart, TextDelta, TextEnd, FlushTimer, Cancel, Expire, Finalize
    <3> QED BY <1>1, <3>1
  <2>2. CASE SendElsewhere
    BY <1>1, <2>2 DEF SendElsewhere
  <2> QED BY <1>3, <1>4, <1>5, <1>6, <1>7, <1>10, <2>1, <2>2 DEF ServerStep, Backend
<1> QED BY <1>8, <1>9, <1>10, NextIs

\* The invariant of the server holds at the beginning.
LEMMA ServerInit == Init => ServerInv
<1> SUFFICES ASSUME Init PROVE ServerInv
  OBVIOUS
<1> DEFINE m == [Blank EXCEPT !.there = TRUE, !.status = "completed"]
<1>1. m \in MessageType
  BY BlankType DEF MessageType, Outcome
<1> HIDE DEF m
<1>2. /\ run = [r \in Run |-> IF r = First THEN Past ELSE NoRun]
      /\ stored = [r \in Run |-> IF r = First THEN m ELSE Blank]
  BY DEF Init, m
<1>3. run \in [Run -> RunType] /\ stored \in [Run -> MessageType]
  BY <1>1, <1>2, BlankType, PastType, NoRunType
<1>4. ASSUME NEW r \in Run PROVE run[r].st # "active" /\ RunOK(run[r], stored[r])
  <2>1. run[r] = Past \/ (run[r] = NoRun /\ stored[r] = Blank)
    BY <1>2
  <2>2. run[r].buffered <= MaxText
    BY <2>1, PastType, NoRunType, StreamAssumption
  <2> QED BY <2>1, <2>2, PastType, NoRunType DEF RunOK
<1>5. call \in [Call -> CallType] /\ executed \subseteq Call /\ \A c \in Call : call[c].phase = "none"
  BY DEF Init, CallType
<1> QED BY <1>3, <1>4, <1>5 DEF ServerInv, Server

\* Each step keeps the invariant of the server.
LEMMA ServerIsInv == ServerInv /\ [Next]_vars => ServerInv'
<1> SUFFICES ASSUME ServerInv, [Next]_vars PROVE ServerInv'
  OBVIOUS
<1>1. CASE Next
  BY <1>1, ServerNext, CallsNext DEF ServerInv, ServerGoesOn
<1>2. CASE UNCHANGED vars
  BY <1>2 DEF ServerInv, vars, server
<1> QED BY <1>1, <1>2

\* The invariant of the server holds always.
LEMMA ServerAlways == Spec => []ServerInv
BY ServerInit, ServerIsInv, PTL DEF Spec

\* The events of a run, with the deltas that wait in pendingDeltas, give its
\* answer, whatever handlers ran between the deltas: emit flushes them before
\* every other event.
THEOREM EventsExplainTheAnswer == Spec => []LogExplainsMessage
<1>1. ServerInv => LogExplainsMessage
  <2> SUFFICES ASSUME ServerInv, NEW r \in Run, run[r].st \in {"active", "done"}
               PROVE  LET m == After(r, Len(run[r].events)) IN run[r].message = [m EXCEPT !.text = @ + run[r].buffered]
    BY DEF LogExplainsMessage
  <2>1. Explained(run[r])
    BY DEF ServerInv, Server, RunOK, Good, Base, Over
  <2> QED BY <2>1 DEF Explained, After
<1> QED BY <1>1, ServerAlways, PTL

\* A run says that it waits exactly while an approval of it is pending, and
\* ends with no tool and no approval left open: decide, cancel and finalize of
\* RunManager, in whatever order they come.
THEOREM ApprovalsAlwaysTruthful == Spec => []ApprovalsAreTruthful
<1>1. ServerInv => ApprovalsAreTruthful
  <2> SUFFICES ASSUME ServerInv, NEW r \in Run
               PROVE  /\ Active(r) =>
                           /\ (run[r].status = "awaiting_approval") = (run[r].approvals # {})
                           /\ run[r].approvals = {c \in Call : run[r].message.approval[c] = "pending"}
                      /\ run[r].st = "done" => \A c \in Call :
                           run[r].message.tool[c] \notin Open /\ run[r].message.approval[c] # "pending"
    BY DEF ApprovalsAreTruthful
  <2>1. RunOK(run[r], stored[r])
    BY DEF ServerInv, Server
  <2>2. CASE run[r].st = "active"
    <3>1. Good(run[r])
      BY <2>1, <2>2 DEF RunOK
    <3> QED BY <2>2, <3>1 DEF Good
  <2>3. CASE run[r].st = "done"
    <3>1. Over(run[r])
      BY <2>1, <2>3 DEF RunOK
    <3> QED BY <2>3, <3>1 DEF Over, Active
  <2> QED BY <2>2, <2>3 DEF Active
<1> QED BY <1>1, ServerAlways, PTL

\* A call whose approval is asked for is not carried out once its run is
\* cancelled: cancel dismisses the approvals that are pending, and
\* requestApproval refuses the ones that come later.
THEOREM NothingIsExecutedAfterCancel == Spec => NothingExecutedAfterCancel
<1>1. ServerInv /\ [Next]_vars => [\A c \in executed' \ executed : ~run[call[c].run].aborted]_vars
  <2> SUFFICES ASSUME ServerInv, Next
               PROVE  \A c \in executed' \ executed : ~run[call[c].run].aborted
    OBVIOUS
  <2> TAKE c \in executed' \ executed
  <2>1. PICK d \in Call, decision \in {"approved", "rejected"} : Decide(d, decision)
    <3>1. ~ClientStep /\ ~JointStep
      BY ClientStepStays DEF server, JointStep, Send, Connect, Restart, GetConversation
    <3>2. ServerStep
      BY <3>1, NextIs
    <3> QED BY <3>2 DEF ServerStep, Backend, SendElsewhere, Cancel, FlushTimer, Expire, TextStart, TextDelta, TextEnd,
                        CallOffered, Finalize, CallStarts, CallAsks, CallEnds
  <2>2. c = d /\ In(d, "asking") /\ d \in run[call[d].run].approvals
    BY <2>1 DEF Decide
  <2>3. call[d].run \in Run /\ run[call[d].run].st = "active"
    BY <2>2, CallIsIn
  <2>4. run[call[d].run].aborted => run[call[d].run].approvals = {}
    BY <2>3, ActiveIsGood DEF ServerInv
  <2> QED BY <2>2, <2>4
<1> QED BY <1>1, ServerAlways, PTL DEF Spec, NothingExecutedAfterCancel

-----------------------------------------------------------------------------
(* The client, given the runs R and the answers S that are stored.         *)

\* The ChatState of the client.
ChatType ==
  [run : Run \cup {0}, status : RunStatus \cup {"none"}, lastSeq : Nat, answer : [Run -> MessageType]]

\* The subscription of the client, with the EventSource and the queue.
SourceType == [sub : Run \cup {0}, st : {"none", "connecting", "open"}, recv : Nat, seen : Nat]

\* A request of load and its answer.
LoadType == [answered : BOOLEAN, chat : ChatType]

\* What a state of the chat shows of the runs it does not follow.
OthersOK(x, R, S) ==
  /\ x.run # 0 => R[x.run].st # "unused" /\ x.status # "none"
  /\ \A q \in Run \ {x.run} :
       /\ Known(R[q]) => x.answer[q] \in {Blank, S[q]}
       /\ R[q].st = "unused" => x.answer[q] = Blank

\* The answer m is what the first n events of the run s give.  A late answer to
\* startRun shows a run that is over from its end, and its events come once more.
Shows(m, s, stores, n) ==
  \/ m = Replay(s.events, n)
  \/ s.st = "done" /\ n <= 1 /\ m = stores

\* The run the chat x follows is shown up to its event n.
ViewAt(x, n, R, S) ==
  x.run # 0 /\ Known(R[x.run]) =>
    /\ n <= Len(R[x.run].events) /\ Shows(x.answer[x.run], R[x.run], S[x.run], n)
    /\ x.status \in Outcome => R[x.run].st = "done" /\ x.answer[x.run] = S[x.run]

\* The number of the last event shown, with the subscription e.
Upto(x, e) == IF e.sub = x.run /\ e.seen > x.lastSeq THEN e.seen ELSE x.lastSeq

\* The answer to a load.
LoadOK(x, R, S) ==
  /\ OthersOK(x, R, S) /\ ViewAt(x, x.lastSeq, R, S)
  /\ x.run # 0 => x.status \in {"running", "awaiting_approval"}
  /\ x.run # 0 /\ Known(R[x.run]) => x.answer[x.run] = Replay(R[x.run].events, x.lastSeq)

\* The subscription is the one the view wants, and its queue holds events of the run.
SourceOK(x, e, R) ==
  /\ e.sub = Wanted(x)
  /\ e.sub = 0 => e = Unsubscribed
  /\ e.st = "none" => e.seen = e.recv
  /\ e.seen < e.recv => e.recv <= Len(R[e.sub].events)

\* The load that is asked for when an EventSource is closed has what it brought.
LastLoadOK(e, q, R) ==
  e.sub # 0 /\ e.st = "none" /\ q # <<>> =>
    LET l == q[Len(q)] IN
    l.answered /\ l.chat.run = e.sub /\ Known(R[e.sub]) => l.chat.lastSeq >= e.seen

\* The client as the server has it: nothing is shown that the server did not say.
ClientOK(x, e, q, p, in, R, S) ==
  /\ OthersOK(x, R, S) /\ ViewAt(x, Upto(x, e), R, S) /\ SourceOK(x, e, R) /\ LastLoadOK(e, q, R)
  /\ ~in => x = EmptyChat
  /\ \A i \in 1 .. Len(q) : q[i].answered => LoadOK(q[i].chat, R, S)
  /\ p # 0 => R[p].st # "unused"

\* The types of the client.
ClientTypes ==
  /\ chat \in ChatType /\ es \in SourceType /\ es.seen <= es.recv
  /\ loads \in Seq(LoadType) /\ posted \in Run \cup {0} /\ inside \in BOOLEAN /\ overtaken \in BOOLEAN

\* That, of the state.
ClientIs == ClientOK(chat, es, loads, posted, inside, run, stored)

-----------------------------------------------------------------------------
(* The server goes on and the client stays.                                *)

\* A run that was known before and after a step of the server.
LEMMA KnownStep ==
  ASSUME NEW R, NEW S, Server(R, S), NEW R2, NEW S2, Server(R2, S2), NEW sub, Steps(R, S, R2, S2, sub),
         NEW r \in Run, R[r].st # "unused", Known(R2[r])
  PROVE  /\ Known(R[r]) /\ Extends(R[r].events, R2[r].events)
         /\ R[r].st = "done" => R2[r] = R[r] /\ S2[r] = S[r]
         /\ R[r].st = "active" => S[r] = Blank
         /\ R[r].events \in Seq(EventType) /\ R2[r].events \in Seq(EventType)
<1>1. RunStep(R[r], S[r], R2[r], S2[r], sub = r) /\ RunOK(R[r], S[r])
  BY DEF Steps, Server
<1>2. R[r] \in RunType /\ R2[r] \in RunType
  BY DEF Server
<1> QED BY <1>1, <1>2 DEF RunStep, RunOK, RunType

\* What the client has of other runs stays right when the server goes on.
LEMMA OthersStay ==
  ASSUME NEW R, NEW S, Server(R, S), NEW R2, NEW S2, Server(R2, S2), NEW sub, Steps(R, S, R2, S2, sub),
         NEW x \in ChatType, OthersOK(x, R, S)
  PROVE  OthersOK(x, R2, S2)
<1>1. ASSUME NEW r \in Run, R[r].st # "unused" PROVE R2[r].st # "unused"
  BY <1>1 DEF Steps, RunStep
<1>2. x.run # 0 => R2[x.run].st # "unused" /\ x.status # "none"
  BY <1>1 DEF OthersOK, ChatType
<1>3. ASSUME NEW q \in Run \ {x.run}, Known(R2[q]) PROVE x.answer[q] \in {Blank, S2[q]}
  <2>1. CASE R[q].st = "unused"
    BY <2>1 DEF OthersOK
  <2>2. CASE R[q].st # "unused"
    <3>1. /\ Known(R[q])
          /\ R[q].st = "done" => S2[q] = S[q]
          /\ R[q].st = "active" => S[q] = Blank
      BY <1>3, <2>2, KnownStep
    <3>2. x.answer[q] \in {Blank, S[q]}
      BY <3>1 DEF OthersOK
    <3> QED BY <3>1, <3>2 DEF Known
  <2> QED BY <2>1, <2>2
<1>4. ASSUME NEW q \in Run \ {x.run}, R2[q].st = "unused" PROVE x.answer[q] = Blank
  BY <1>1, <1>4 DEF OthersOK
<1> QED BY <1>2, <1>3, <1>4 DEF OthersOK

\* What it shows of its run stays right when the server goes on.
LEMMA ViewStays ==
  ASSUME NEW R, NEW S, Server(R, S), NEW R2, NEW S2, Server(R2, S2), NEW sub, Steps(R, S, R2, S2, sub),
         NEW x \in ChatType, OthersOK(x, R, S), NEW n \in Nat, ViewAt(x, n, R, S)
  PROVE  /\ ViewAt(x, n, R2, S2)
         /\ x.run # 0 /\ Known(R2[x.run]) =>
              Known(R[x.run]) /\ Replay(R2[x.run].events, n) = Replay(R[x.run].events, n)
<1> SUFFICES ASSUME x.run # 0, Known(R2[x.run])
             PROVE  ViewAt(x, n, R2, S2) /\ Known(R[x.run]) /\ Replay(R2[x.run].events, n) = Replay(R[x.run].events, n)
  BY DEF ViewAt
<1> DEFINE r == x.run
<1>1. r \in Run /\ R[r].st # "unused"
  BY DEF ChatType, OthersOK
<1>2. /\ Known(R[r]) /\ Extends(R[r].events, R2[r].events)
      /\ R[r].st = "done" => R2[r] = R[r] /\ S2[r] = S[r]
      /\ R[r].events \in Seq(EventType) /\ R2[r].events \in Seq(EventType)
  BY <1>1, KnownStep
<1>3. /\ n <= Len(R[r].events) /\ Shows(x.answer[r], R[r], S[r], n)
      /\ x.status \in Outcome => R[r].st = "done" /\ x.answer[r] = S[r]
  BY <1>2 DEF ViewAt
<1> HIDE DEF r
<1>4. n <= Len(R2[r].events) /\ n \in 0 .. Len(R[r].events)
  BY <1>2, <1>3 DEF Extends
<1>5. Replay(R2[r].events, n) = Replay(R[r].events, n)
  BY <1>2, <1>4, ExtendsReplay
<1>6. Shows(x.answer[r], R2[r], S2[r], n)
  BY <1>2, <1>3, <1>5 DEF Shows
<1> QED BY <1>2, <1>3, <1>4, <1>5, <1>6 DEF ViewAt, r

\* All of it stays right when the server goes on.
LEMMA ClientStays ==
  ASSUME NEW R, NEW S, Server(R, S), NEW R2, NEW S2, Server(R2, S2), NEW x \in ChatType, NEW e \in SourceType,
         NEW q \in Seq(LoadType), NEW p \in Run \cup {0}, NEW in,
         Steps(R, S, R2, S2, e.sub), ClientOK(x, e, q, p, in, R, S)
  PROVE  ClientOK(x, e, q, p, in, R2, S2)
<1> DEFINE sub == e.sub
<1>0. Steps(R, S, R2, S2, sub) /\ OthersOK(x, R, S) /\ ViewAt(x, Upto(x, e), R, S)
  BY DEF ClientOK
<1> HIDE DEF sub
<1>1. OthersOK(x, R2, S2)
  BY <1>0, OthersStay
<1>2. ViewAt(x, Upto(x, e), R2, S2)
  <2>1. Upto(x, e) \in Nat
    BY DEF Upto, ChatType, SourceType
  <2> QED BY <1>0, <2>1, ViewStays
<1>3. SourceOK(x, e, R2)
  <2>1. SourceOK(x, e, R)
    BY DEF ClientOK
  <2>2. ASSUME e.seen < e.recv PROVE e.recv <= Len(R2[e.sub].events)
    <3>1. e.sub \in Run
      BY <2>1, <2>2 DEF SourceOK, Unsubscribed, SourceType
    <3>2. Extends(R[e.sub].events, R2[e.sub].events)
      BY <1>0, <3>1 DEF Steps, RunStep, sub
    <3>3. R[e.sub].events \in Seq(EventType) /\ R2[e.sub].events \in Seq(EventType) /\ e.recv \in Nat
      BY <3>1 DEF Server, RunType, SourceType
    <3> QED BY <2>1, <2>2, <3>2, <3>3 DEF SourceOK, Extends
  <2> QED BY <2>1, <2>2 DEF SourceOK
<1>4. LastLoadOK(e, q, R2)
  <2> SUFFICES ASSUME e.sub # 0, e.st = "none", q # <<>>, Known(R2[e.sub]),
                      q[Len(q)].answered, q[Len(q)].chat.run = e.sub
               PROVE  q[Len(q)].chat.lastSeq >= e.seen
    BY DEF LastLoadOK
  <2>1. e.sub \in Run
    BY DEF SourceType
  <2>2. R[e.sub].st # "unused"
    <3>1. e.sub = Wanted(x)
      BY DEF ClientOK, SourceOK
    <3> QED BY <1>0, <3>1 DEF Wanted, OthersOK
  <2>3. Known(R[e.sub])
    BY <1>0, <2>1, <2>2, KnownStep
  <2> QED BY <2>3 DEF ClientOK, LastLoadOK
<1>5. ASSUME NEW i \in 1 .. Len(q), q[i].answered PROVE LoadOK(q[i].chat, R2, S2)
  <2> DEFINE y == q[i].chat
  <2>1. y \in ChatType
    <3>1. q[i] \in LoadType
      OBVIOUS
    <3> QED BY <3>1 DEF LoadType
  <2>2. LoadOK(y, R, S)
    BY <1>5 DEF ClientOK
  <2> HIDE DEF y
  <2>3. OthersOK(y, R, S) /\ ViewAt(y, y.lastSeq, R, S) /\ y.lastSeq \in Nat
    BY <2>1, <2>2 DEF LoadOK, ChatType
  <2>4. OthersOK(y, R2, S2)
    BY <1>0, <2>1, <2>3, OthersStay
  <2>5. /\ ViewAt(y, y.lastSeq, R2, S2)
        /\ y.run # 0 /\ Known(R2[y.run]) =>
             Known(R[y.run]) /\ Replay(R2[y.run].events, y.lastSeq) = Replay(R[y.run].events, y.lastSeq)
    BY <1>0, <2>1, <2>3, ViewStays
  <2> QED BY <2>2, <2>4, <2>5 DEF LoadOK, y
<1>6. p # 0 => R2[p].st # "unused"
  BY <1>0 DEF ClientOK, Steps, RunStep
<1>7. ~in => x = EmptyChat
  BY DEF ClientOK
<1> QED BY <1>1, <1>2, <1>3, <1>4, <1>5, <1>6, <1>7 DEF ClientOK

-----------------------------------------------------------------------------
(* What the queue brings.                                                  *)

\* One event is applied.
LEMMA ApplyEventType ==
  ASSUME Server(run, stored), NEW x \in ChatType, NEW r \in Run, NEW n \in 1 .. Len(run[r].events)
  PROVE  applyEvent(x, r, n) \in ChatType
<1> DEFINE e == run[r].events[n]
           m == Apply(x.answer[r], e)
<1>1. e \in EventType
  BY DEF Server, RunType
<1>2. x.answer[r] \in MessageType /\ n \in Nat
  BY DEF ChatType
<1>3. m \in MessageType
  BY <1>1, <1>2, ApplyType
<1>4. e.kind = "run" => e.status \in RunStatus
  BY <1>1, EventKinds
<1>5. applyEvent(x, r, n) \in {x, [x EXCEPT !.run = r, !.status = e.status, !.lastSeq = n],
                                  [x EXCEPT !.answer[r] = m, !.lastSeq = n]}
  BY DEF applyEvent
<1>6. [x EXCEPT !.answer[r] = m, !.lastSeq = n] \in ChatType
  <2> HIDE DEF m
  <2> QED BY <1>2, <1>3 DEF ChatType
<1>7. e.kind = "run" => [x EXCEPT !.run = r, !.status = e.status, !.lastSeq = n] \in ChatType
  <2> HIDE DEF e
  <2> QED BY <1>2, <1>4 DEF ChatType
<1>8. CASE e.kind = "run"
  <2>1. applyEvent(x, r, n) \in {x, [x EXCEPT !.run = r, !.status = e.status, !.lastSeq = n]}
    BY <1>8 DEF applyEvent
  <2> QED BY <1>7, <1>8, <2>1
<1>9. CASE e.kind # "run"
  <2>1. applyEvent(x, r, n) \in {x, [x EXCEPT !.answer[r] = m, !.lastSeq = n]}
    BY <1>9 DEF applyEvent
  <2> QED BY <1>6, <2>1
<1> QED BY <1>8, <1>9

\* The queue of e is empty, or its events are there.
Queued(e) == e.seen < e.recv => e.sub \in Run /\ e.recv <= Len(run[e.sub].events)

\* A chat with the events of a queue is a chat.
LEMMA ShownType ==
  ASSUME Server(run, stored), NEW x \in ChatType, NEW e \in SourceType, e.seen <= e.recv, Queued(e)
  PROVE  Shown(x, e) \in ChatType
<1> DEFINE n == e.recv - e.seen
<1>1. n \in Nat /\ e.seen \in Nat /\ e.recv \in Nat /\ e.recv = e.seen + n
  BY DEF SourceType
<1>2. n = e.recv - e.seen
  OBVIOUS
<1> HIDE DEF n
<1>3. PICK g : /\ g[0] = x /\ Shown(x, e) = g[n]
               /\ \A i \in 1 .. n : g[i] = applyEvent(g[i - 1], e.sub, e.seen + i)
  <2>1. n \in Nat
    BY <1>1
  <2> QED BY <1>2, <2>1, ShownIs
<1> DEFINE G == {i \in 0 .. n : g[i] \in ChatType}
<1>4. 0 \in G
  BY <1>1, <1>3
<1>5. ASSUME NEW i \in 1 .. n, i - 1 \in G PROVE i \in G
  <2>1. e.sub \in Run /\ e.recv <= Len(run[e.sub].events)
    BY <1>1 DEF Queued
  <2>2. Len(run[e.sub].events) \in Nat
    BY <2>1 DEF Server, RunType
  <2>3. e.seen + i \in 1 .. Len(run[e.sub].events)
    BY <1>1, <2>1, <2>2
  <2>4. g[i - 1] \in ChatType /\ g[i] = applyEvent(g[i - 1], e.sub, e.seen + i)
    BY <1>3, <1>5
  <2>5. g[i] \in ChatType
    BY <2>1, <2>3, <2>4, ApplyEventType
  <2> QED BY <2>5
<1> HIDE DEF G
<1>6. 0 .. n \subseteq G
  BY <1>1, <1>4, <1>5, UpTo
<1> QED BY <1>1, <1>3, <1>6 DEF G

\* An empty queue shows nothing new.
LEMMA EmptyQueue ==
  ASSUME NEW x, NEW e \in SourceType, e.seen = e.recv
  PROVE  Shown(x, e) = x
<1> DEFINE n == e.recv - e.seen
<1>1. n = 0 /\ n \in Nat
  BY DEF SourceType
<1>2. PICK g : g[0] = x /\ Shown(x, e) = g[n]
  <2>1. n = e.recv - e.seen
    OBVIOUS
  <2> HIDE DEF n
  <2> QED BY <1>1, <2>1, ShownIs
<1> QED BY <1>1, <1>2

\* The larger of two numbers.
Later(a, b) == IF a < b THEN b ELSE a

\* The chat y is the chat x, which follows the run r, with events of a queue
\* up to the one at n.
CaughtUp(x, y, r, n) ==
  /\ y \in ChatType /\ y.run = r /\ y.status # "none"
  /\ \A q \in Run \ {r} : y.answer[q] = x.answer[q]
  /\ y.lastSeq \in {x.lastSeq, Later(x.lastSeq, n)}
  /\ Known(run[r]) =>
       /\ Shows(y.answer[r], run[r], stored[r], Later(x.lastSeq, n))
       /\ y.status \in Outcome => /\ run[r].st = "done" /\ y.answer[r] = stored[r]
                                  /\ Later(x.lastSeq, n) = Len(run[r].events) /\ y.lastSeq = Later(x.lastSeq, n)

\* What a run that is known is like, at work or over.
LEMMA KnownIs ==
  ASSUME Server(run, stored), NEW r \in Run, Known(run[r])
  PROVE  /\ run[r].events \in Seq(EventType) /\ InShape(run[r])
         /\ run[r].st = "done" => stored[r] = Replay(run[r].events, Len(run[r].events))
<1> DEFINE s == run[r]
           m == Replay(s.events, Len(s.events))
<1>1. s \in RunType /\ RunOK(s, stored[r])
  BY DEF Server
<1>2. Explained(s) /\ InShape(s) /\ s.events \in Seq(EventType)
  BY <1>1 DEF RunOK, Known, Good, Base, Over, RunType
<1>3. ASSUME s.st = "done" PROVE stored[r] = m
  <2>1. s.buffered = 0 /\ stored[r] = s.message
    BY <1>1, <1>3 DEF RunOK, Over
  <2>2. m \in MessageType
    BY <1>2, ReplayType
  <2>3. s.message = [m EXCEPT !.text = @ + s.buffered]
    BY <1>2 DEF Explained
  <2> HIDE DEF m, s
  <2> QED BY <2>1, <2>2, <2>3 DEF MessageType
<1> QED BY <1>2, <1>3

\* The next event is applied to an answer shown up to the one before.
LEMMA ShowsNext ==
  ASSUME Server(run, stored), NEW r \in Run, Known(run[r]), NEW n \in 1 .. Len(run[r].events),
         NEW m, Shows(m, run[r], stored[r], n - 1)
  PROVE  Shows(Apply(m, run[r].events[n]), run[r], stored[r], n)
<1> DEFINE e == run[r].events[n]
<1>1. n \in Nat \ {0} /\ run[r].events \in Seq(EventType) /\ InShape(run[r])
  BY KnownIs
<1>2. CASE m = Replay(run[r].events, n - 1)
  BY <1>1, <1>2, ReplayNext DEF Shows
<1>3. CASE run[r].st = "done" /\ n - 1 <= 1 /\ m = stored[r]
  <2>1. CASE n = 1
    <3>1. e.kind = "run"
      BY <1>1, <2>1 DEF InShape
    <3>2. Apply(m, e) = m
      BY <3>1 DEF Apply
    <3> QED BY <1>3, <2>1, <3>2 DEF Shows
  <2>2. CASE n = 2
    <3>1. e.kind = "message"
      BY <1>1, <2>2 DEF InShape
    <3>2. \A x : Apply(x, e) = e.message
      BY <3>1 DEF Apply
    <3>3. Replay(run[r].events, n) = Apply(Replay(run[r].events, n - 1), e)
      BY <1>1, ReplayNext
    <3> QED BY <3>2, <3>3 DEF Shows
  <2> QED BY <1>1, <1>3, <2>1, <2>2
<1> QED BY <1>2, <1>3 DEF Shows

\* The last event of a run is there when the run is over, and gives what is stored.
LEMMA ShowsLast ==
  ASSUME Server(run, stored), NEW r \in Run, Known(run[r]), NEW n \in 1 .. Len(run[r].events),
         Terminal(run[r].events[n]), NEW m, Shows(m, run[r], stored[r], n)
  PROVE  run[r].st = "done" /\ n = Len(run[r].events) /\ m = stored[r]
BY KnownIs DEF InShape, Shows

\* One more event of the queue is applied.
LEMMA CaughtUpNext ==
  ASSUME Server(run, stored), NEW x \in ChatType, NEW r \in Run, NEW n \in 1 .. Len(run[r].events),
         NEW y, CaughtUp(x, y, r, n - 1)
  PROVE  CaughtUp(x, applyEvent(y, r, n), r, n)
<1> DEFINE e == run[r].events[n]
           z == applyEvent(y, r, n)
           l == x.lastSeq
<1>1. y \in ChatType /\ l \in Nat /\ n \in Nat \ {0} /\ y.lastSeq \in Nat /\ y.run = r /\ y.status # "none"
  BY DEF ChatType, CaughtUp
<1>2. z \in ChatType
  BY <1>1, ApplyEventType
<1>3. e \in EventType
  BY DEF Server, RunType
<1>4. y.lastSeq \in {l, Later(l, n - 1)}
  BY DEF CaughtUp
<1>5. CASE n <= y.lastSeq
  <2>1. z = y
    BY <1>1, <1>5 DEF applyEvent
  <2>2. Later(l, n) = l /\ Later(l, n - 1) = l
    BY <1>1, <1>4, <1>5 DEF Later
  <2> QED BY <2>1, <2>2 DEF CaughtUp
<1>6. CASE ~(n <= y.lastSeq)
  <2>1. Later(l, n) = n /\ Later(l, n - 1) = n - 1
    BY <1>1, <1>4, <1>6 DEF Later
  <2>2. CASE e.kind = "run"
    <3>1. z = [y EXCEPT !.run = r, !.status = e.status, !.lastSeq = n]
      BY <1>6, <2>2 DEF applyEvent
    <3>2. e.status \in RunStatus /\ e.status # "none"
      BY <1>3, <2>2, EventKinds DEF RunStatus, Outcome
    <3> HIDE DEF e, z
    <3>3. z.run = r /\ z.status = e.status /\ z.lastSeq = n /\ z.answer = y.answer
      BY <1>1, <3>1 DEF ChatType
    <3>4. ASSUME Known(run[r])
          PROVE  /\ Shows(z.answer[r], run[r], stored[r], n)
                 /\ z.status \in Outcome => run[r].st = "done" /\ z.answer[r] = stored[r] /\ n = Len(run[r].events)
      <4>1. Shows(y.answer[r], run[r], stored[r], n - 1)
        BY <2>1, <3>4 DEF CaughtUp
      <4>2. Apply(y.answer[r], e) = y.answer[r]
        BY <2>2 DEF Apply
      <4>3. Shows(y.answer[r], run[r], stored[r], n)
        BY <3>4, <4>1, <4>2, ShowsNext DEF e
      <4>4. z.status \in Outcome => Terminal(e)
        BY <2>2, <3>3 DEF Terminal
      <4> QED BY <3>3, <3>4, <4>3, <4>4, ShowsLast DEF e
    <3>5. \A q \in Run \ {r} : z.answer[q] = x.answer[q]
      BY <3>3 DEF CaughtUp
    <3>6. CaughtUp(x, z, r, n)
      BY <1>2, <2>1, <3>2, <3>3, <3>4, <3>5 DEF CaughtUp
    <3> QED BY <3>6 DEF z
  <2>3. CASE e.kind # "run"
    <3> DEFINE m == Apply(y.answer[r], e)
    <3>1. z = [y EXCEPT !.answer[r] = m, !.lastSeq = n]
      BY <1>6, <2>3 DEF applyEvent
    <3>2. \A q \in Run \ {r} : y.answer[q] = x.answer[q]
      BY DEF CaughtUp
    <3> HIDE DEF e, z, m
    <3>3. /\ z.run = r /\ z.status = y.status /\ z.lastSeq = n /\ z.answer[r] = m
          /\ \A q \in Run \ {r} : z.answer[q] = x.answer[q]
      BY <1>1, <3>1, <3>2 DEF ChatType
    <3>4. ASSUME Known(run[r])
          PROVE  Shows(z.answer[r], run[r], stored[r], n) /\ z.status \notin Outcome
      <4>1. Shows(y.answer[r], run[r], stored[r], n - 1)
        BY <2>1, <3>4 DEF CaughtUp
      <4>2. Shows(m, run[r], stored[r], n)
        BY <3>4, <4>1, ShowsNext DEF m, e
      <4>3. y.status \in Outcome => n - 1 = Len(run[r].events)
        BY <2>1, <3>4 DEF CaughtUp
      <4>4. Len(run[r].events) \in Nat
        BY <3>4, KnownIs
      <4> QED BY <1>1, <3>3, <4>2, <4>3, <4>4
    <3>5. CaughtUp(x, z, r, n)
      BY <1>1, <1>2, <2>1, <3>3, <3>4 DEF CaughtUp
    <3> QED BY <3>5 DEF z
  <2> QED BY <2>2, <2>3
<1> QED BY <1>5, <1>6

\* The whole queue is applied.
LEMMA ShownCatchesUp ==
  ASSUME Server(run, stored), NEW x \in ChatType, NEW e \in SourceType, e.seen <= e.recv, Queued(e),
         e.sub \in Run, CaughtUp(x, x, e.sub, e.seen)
  PROVE  CaughtUp(x, Shown(x, e), e.sub, e.recv)
<1> DEFINE n == e.recv - e.seen
<1>1. n \in Nat /\ e.seen \in Nat /\ e.recv \in Nat /\ e.recv = e.seen + n
  BY DEF SourceType
<1>2. n = e.recv - e.seen
  OBVIOUS
<1> HIDE DEF n
<1>3. PICK g : /\ g[0] = x /\ Shown(x, e) = g[n]
               /\ \A i \in 1 .. n : g[i] = applyEvent(g[i - 1], e.sub, e.seen + i)
  <2>1. n \in Nat
    BY <1>1
  <2> QED BY <1>2, <2>1, ShownIs
<1> DEFINE G == {i \in 0 .. n : CaughtUp(x, g[i], e.sub, e.seen + i)}
<1>4. 0 \in G
  <2>1. e.seen + 0 = e.seen
    BY <1>1
  <2> QED BY <1>1, <1>3, <2>1
<1>5. ASSUME NEW i \in 1 .. n, i - 1 \in G PROVE i \in G
  <2> DEFINE k == e.seen + i
  <2>1. e.recv <= Len(run[e.sub].events)
    BY <1>1 DEF Queued
  <2>2. Len(run[e.sub].events) \in Nat
    BY <2>1 DEF Server, RunType
  <2>3. k \in 1 .. Len(run[e.sub].events) /\ e.seen + (i - 1) = k - 1
    BY <1>1, <2>1, <2>2
  <2>4. CaughtUp(x, g[i - 1], e.sub, k - 1) /\ g[i] = applyEvent(g[i - 1], e.sub, k)
    BY <1>3, <1>5, <2>3
  <2> HIDE DEF k
  <2>5. CaughtUp(x, g[i], e.sub, k)
    BY <2>3, <2>4, CaughtUpNext
  <2> QED BY <2>5 DEF k
<1> HIDE DEF G
<1>6. 0 .. n \subseteq G
  BY <1>1, <1>4, <1>5, UpTo
<1> QED BY <1>1, <1>3, <1>6 DEF G

-----------------------------------------------------------------------------
(* Rendering.                                                              *)

\* No subscription has its type.
LEMMA UnsubscribedType == Unsubscribed \in SourceType /\ Unsubscribed.seen = 0 /\ Unsubscribed.recv = 0
BY DEF Unsubscribed, SourceType

\* The empty chat is a chat that wants no subscription.
LEMMA EmptyChatType == EmptyChat \in ChatType /\ EmptyChat.run = 0 /\ Wanted(EmptyChat) = 0
<1>1. [r \in Run |-> Blank] \in [Run -> MessageType]
  BY BlankType
<1> QED BY <1>1 DEF EmptyChat, ChatType, Wanted, isActive

\* A chat wants the run it shows as active, if any.
LEMMA WantedIs ==
  ASSUME NEW x \in ChatType
  PROVE  /\ Wanted(x) \in {0, x.run}
         /\ Wanted(x) # 0 => x.run = Wanted(x) /\ x.status \in {"running", "awaiting_approval"}
         /\ x.run # 0 /\ x.status # "none" /\ Wanted(x) = 0 => x.status \in Outcome
         /\ x.run # 0 /\ x.status \in {"running", "awaiting_approval"} => Wanted(x) = x.run
BY DEF Wanted, isActive, ChatType, RunStatus

\* A new subscription begins behind the last event of its chat.
LEMMA SubscribedIs ==
  ASSUME NEW x \in ChatType
  PROVE  LET e == Subscribed(x) IN
         /\ e \in SourceType /\ e.seen = e.recv /\ e.sub = Wanted(x)
         /\ e.sub = 0 => e = Unsubscribed
         /\ e.sub = 0 \/ e.st = "connecting"
         /\ Upto(x, e) = x.lastSeq
<1>1. x.lastSeq \in Nat /\ x.run \in Run \cup {0}
  BY DEF ChatType
<1>2. CASE Wanted(x) = 0
  BY <1>1, <1>2, UnsubscribedType DEF Subscribed, Unsubscribed, Upto
<1>3. CASE Wanted(x) # 0
  <2> DEFINE e == Subscribed(x)
  <2>1. e = [sub |-> x.run, st |-> "connecting", recv |-> x.lastSeq, seen |-> x.lastSeq]
    BY <1>3 DEF Subscribed
  <2>2. x.run = Wanted(x)
    BY <1>3, WantedIs
  <2> HIDE DEF e
  <2>3. e \in SourceType /\ e.seen = e.recv /\ e.sub = Wanted(x) /\ e.st = "connecting" /\ e.seen = x.lastSeq
    BY <1>1, <2>1, <2>2 DEF SourceType
  <2>4. Upto(x, e) = x.lastSeq
    BY <1>1, <2>3 DEF Upto
  <2> QED BY <1>3, <2>3, <2>4 DEF e
<1> QED BY <1>2, <1>3

\* A render leaves a chat and a subscription.
LEMMA RenderType ==
  ASSUME Server(run, stored), NEW x \in ChatType, NEW e \in SourceType, e.seen <= e.recv, Queued(e), Render(x, e)
  PROVE  chat' \in ChatType /\ es' \in SourceType /\ es'.seen <= es'.recv
<1> DEFINE y == Shown(x, e)
<1>1. y \in ChatType
  BY ShownType
<1>2. /\ Subscribed(x) \in SourceType /\ Subscribed(x).seen <= Subscribed(x).recv
      /\ Subscribed(y) \in SourceType /\ Subscribed(y).seen <= Subscribed(y).recv
  <2>1. \A z \in ChatType : Subscribed(z) \in SourceType /\ Subscribed(z).seen = Subscribed(z).recv
    BY SubscribedIs
  <2>2. \A f \in SourceType : f.seen = f.recv => f.seen <= f.recv
    BY DEF SourceType
  <2> HIDE DEF y
  <2> QED BY <1>1, <2>1, <2>2
<1>3. chat' \in {x, y} /\ es' \in {e, Subscribed(x), Subscribed(y)}
  BY DEF Render
<1> HIDE DEF y
<1> QED BY <1>1, <1>2, <1>3

\* The view becomes x, and the queue has nothing that belongs to another run.
LEMMA RenderIs ==
  ASSUME NEW x \in ChatType, NEW e \in SourceType, Render(x, e), Wanted(x) = e.sub \/ e.seen = e.recv
  PROVE  /\ chat' = x
         /\ \/ Wanted(x) = e.sub /\ es' = e
            \/ Wanted(x) # e.sub /\ es' = Subscribed(x)
<1>1. CASE Wanted(x) = e.sub
  BY <1>1 DEF Render
<1>2. CASE Wanted(x) # e.sub
  <2>1. Shown(x, e) = x
    BY <1>2, EmptyQueue
  <2> QED BY <1>2, <2>1 DEF Render
<1> QED BY <1>1, <1>2

\* A render keeps what is shown right, with the effect that runs again or does not.
LEMMA RenderOK ==
  ASSUME NEW R, NEW S, NEW x \in ChatType, NEW e \in SourceType, Render(x, e), Wanted(x) = e.sub \/ e.seen = e.recv,
         OthersOK(x, R, S), Wanted(x) = e.sub => ViewAt(x, Upto(x, e), R, S),
         Wanted(x) # e.sub => ViewAt(x, x.lastSeq, R, S),
         e.sub = 0 => e = Unsubscribed, e.st = "none" => e.seen = e.recv,
         e.seen < e.recv => e.recv <= Len(R[e.sub].events)
  PROVE  OthersOK(chat', R, S) /\ ViewAt(chat', Upto(chat', es'), R, S) /\ SourceOK(chat', es', R)
<1>1. CASE Wanted(x) = e.sub
  <2>1. chat' = x /\ es' = e
    BY <1>1, RenderIs
  <2>2. SourceOK(x, e, R)
    BY <1>1 DEF SourceOK
  <2> QED BY <1>1, <2>1, <2>2
<1>2. CASE Wanted(x) # e.sub
  <2> DEFINE f == Subscribed(x)
  <2>1. chat' = x /\ es' = f
    BY <1>2, RenderIs
  <2>2. f \in SourceType /\ f.seen = f.recv /\ f.sub = Wanted(x) /\ (f.sub = 0 => f = Unsubscribed) /\ Upto(x, f) = x.lastSeq
    BY SubscribedIs
  <2> HIDE DEF f
  <2>3. SourceOK(x, f, R)
    BY <2>2 DEF SourceOK, SourceType
  <2> QED BY <1>2, <2>1, <2>2, <2>3
<1> QED BY <1>1, <1>2

\* What the queue brought is rendered.
LEMMA QueueOK ==
  ASSUME Server(run, stored), chat \in ChatType, es \in SourceType,
         OthersOK(chat, run, stored), ViewAt(chat, Upto(chat, es), run, stored), SourceOK(chat, es, run), es.sub # 0,
         NEW e \in SourceType, e.sub = es.sub, e.seen = es.seen, e.seen <= e.recv, Queued(e),
         NEW f \in SourceType, f.sub = e.sub, f.seen = e.recv, f.recv = e.recv, Render(Shown(chat, e), f)
  PROVE  /\ chat' \in ChatType /\ es' \in SourceType /\ es'.seen <= es'.recv
         /\ OthersOK(chat', run, stored) /\ ViewAt(chat', Upto(chat', es'), run, stored) /\ SourceOK(chat', es', run)
<1> DEFINE r == es.sub
           l == chat.lastSeq
           y == Shown(chat, e)
<1>1. r \in Run /\ chat.run = r /\ Wanted(chat) = r /\ chat.status \in {"running", "awaiting_approval"}
  BY WantedIs DEF SourceOK, SourceType
<1>2. l \in Nat /\ e.seen \in Nat /\ e.recv \in Nat
  BY DEF ChatType, SourceType
<1>3. Upto(chat, es) = Later(l, e.seen)
  BY <1>1, <1>2 DEF Upto, Later
<1> HIDE DEF r
<1>4. CaughtUp(chat, chat, r, e.seen)
  <2>1. r # 0 /\ chat.status \notin Outcome /\ chat.status # "none"
    BY <1>1, StreamAssumption DEF Outcome
  <2>2. Known(run[r]) => Shows(chat.answer[r], run[r], stored[r], Later(l, e.seen))
    BY <1>1, <1>3, <2>1 DEF ViewAt
  <2> QED BY <1>1, <2>1, <2>2 DEF CaughtUp
<1>5. CaughtUp(chat, y, r, e.recv)
  BY <1>1, <1>4, ShownCatchesUp DEF r
<1> HIDE DEF y
<1>6. y \in ChatType /\ y.run = r /\ y.status # "none" /\ \A q \in Run \ {r} : y.answer[q] = chat.answer[q]
  BY <1>5 DEF CaughtUp
<1>7. OthersOK(y, run, stored)
  BY <1>1, <1>6 DEF OthersOK
<1>8. ViewAt(y, Later(l, e.recv), run, stored)
  <2> SUFFICES ASSUME Known(run[r])
               PROVE  /\ Later(l, e.recv) <= Len(run[r].events)
                      /\ Shows(y.answer[r], run[r], stored[r], Later(l, e.recv))
                      /\ y.status \in Outcome => run[r].st = "done" /\ y.answer[r] = stored[r]
    BY <1>6 DEF ViewAt
  <2>1. Later(l, e.seen) <= Len(run[r].events) /\ Len(run[r].events) \in Nat
    <3>1. 0 \notin Run
      BY StreamAssumption
    <3> QED BY <1>1, <1>3, <3>1, KnownIs DEF ViewAt
  <2>2. e.seen < e.recv => e.recv <= Len(run[r].events)
    BY DEF Queued, r
  <2>3. Later(l, e.recv) <= Len(run[r].events)
    BY <1>2, <2>1, <2>2 DEF Later
  <2> QED BY <2>3, <1>5 DEF CaughtUp
<1>9. ASSUME Wanted(y) = f.sub PROVE Upto(y, f) = Later(l, e.recv)
  <2>1. y.lastSeq \in {l, Later(l, e.recv)} /\ y.lastSeq \in Nat
    BY <1>5, <1>6 DEF CaughtUp, ChatType
  <2> QED BY <1>2, <1>6, <2>1 DEF Upto, Later, r
<1>10. ASSUME Wanted(y) # f.sub PROVE ViewAt(y, y.lastSeq, run, stored)
  <2> SUFFICES ASSUME Known(run[r]) PROVE ViewAt(y, y.lastSeq, run, stored)
    BY <1>6 DEF ViewAt
  <2>1. y.status \in Outcome
    <3>1. Wanted(y) = 0 /\ y.run # 0
      BY <1>1, <1>6, <1>10, WantedIs, StreamAssumption DEF r
    <3> QED BY <1>6, <3>1, WantedIs
  <2>2. y.lastSeq = Later(l, e.recv)
    BY <1>5, <2>1 DEF CaughtUp
  <2> QED BY <1>8, <2>2
<1>11. f.seen <= f.recv /\ ~(f.seen < f.recv) /\ f.seen = f.recv /\ f.sub # 0
  BY <1>2
<1>12. Render(y, f)
  BY DEF y
<1>13. OthersOK(chat', run, stored) /\ ViewAt(chat', Upto(chat', es'), run, stored) /\ SourceOK(chat', es', run)
  <2>1. Wanted(y) = f.sub => ViewAt(y, Upto(y, f), run, stored)
    BY <1>8, <1>9
  <2> QED BY <1>6, <1>7, <1>10, <1>11, <1>12, <2>1, RenderOK
<1>14. chat' \in ChatType /\ es' \in SourceType /\ es'.seen <= es'.recv
  BY <1>6, <1>11, <1>12, RenderType DEF Queued
<1> QED BY <1>13, <1>14

-----------------------------------------------------------------------------
(* The loads under way.                                                    *)

\* A load is asked for.
LEMMA LoadAdded ==
  ASSUME NEW q \in Seq(LoadType)
  PROVE  /\ Append(q, Asked) \in Seq(LoadType) /\ Len(Append(q, Asked)) = Len(q) + 1
         /\ \A i \in 1 .. Len(q) : Append(q, Asked)[i] = q[i]
         /\ Append(q, Asked)[Len(q) + 1] = Asked /\ ~Asked.answered
<1>1. Asked \in LoadType /\ ~Asked.answered
  BY EmptyChatType DEF Asked, LoadType
<1> QED BY <1>1

\* A load is over.
LEMMA LoadRemoved ==
  ASSUME NEW q \in Seq(LoadType), NEW i \in 1 .. Len(q)
  PROVE  /\ RemoveAt(q, i) \in Seq(LoadType) /\ Len(RemoveAt(q, i)) = Len(q) - 1
         /\ \A j \in 1 .. Len(RemoveAt(q, i)) : \E k \in 1 .. Len(q) : RemoveAt(q, i)[j] = q[k]
<1> DEFINE a == SubSeq(q, 1, i - 1)
           b == SubSeq(q, i + 1, Len(q))
<1>1. RemoveAt(q, i) = a \o b
  BY DEF RemoveAt
<1>2. Len(q) \in Nat /\ i \in Nat /\ i - 1 \in Int /\ i + 1 \in Int
  OBVIOUS
<1>3. a \in Seq(LoadType) /\ Len(a) = i - 1 /\ \A j \in 1 .. i - 1 : a[j] = q[j]
  <2>1. /\ a \in Seq(LoadType) /\ Len(a) = IF 1 <= i - 1 THEN (i - 1) - 1 + 1 ELSE 0
        /\ \A j \in 1 .. (i - 1) - 1 + 1 : a[j] = q[1 + j - 1]
    BY <1>2, SubSeqProperties
  <2> HIDE DEF a
  <2> QED BY <1>2, <2>1
<1>4. b \in Seq(LoadType) /\ Len(b) = Len(q) - i /\ \A j \in 1 .. Len(q) - i : b[j] = q[i + j]
  <2>1. /\ b \in Seq(LoadType) /\ Len(b) = IF i + 1 <= Len(q) THEN Len(q) - (i + 1) + 1 ELSE 0
        /\ \A j \in 1 .. Len(q) - (i + 1) + 1 : b[j] = q[(i + 1) + j - 1]
    BY <1>2, SubSeqProperties
  <2> HIDE DEF b
  <2> QED BY <1>2, <2>1
<1> HIDE DEF a, b
<1>5. /\ a \o b \in Seq(LoadType) /\ Len(a \o b) = Len(q) - 1
      /\ \A j \in 1 .. Len(q) - 1 : (a \o b)[j] = IF j <= i - 1 THEN a[j] ELSE b[j - (i - 1)]
  <2>1. /\ a \o b \in Seq(LoadType) /\ Len(a \o b) = Len(a) + Len(b)
        /\ \A j \in 1 .. Len(a) + Len(b) : (a \o b)[j] = IF j <= Len(a) THEN a[j] ELSE b[j - Len(a)]
    BY <1>3, <1>4, ConcatProperties
  <2>2. Len(a) + Len(b) = Len(q) - 1
    BY <1>2, <1>3, <1>4
  <2> QED BY <1>3, <2>1, <2>2
<1> DEFINE p == a \o b
<1>6. ASSUME NEW j \in 1 .. Len(q) - 1 PROVE \E k \in 1 .. Len(q) : p[j] = q[k]
  <2>1. CASE j <= i - 1
    <3>1. p[j] = q[j] /\ j \in 1 .. Len(q)
      BY <1>2, <1>3, <1>5, <2>1
    <3> HIDE DEF p
    <3> QED BY <3>1
  <2>2. CASE ~(j <= i - 1)
    <3>1. j - (i - 1) \in 1 .. Len(q) - i /\ i + (j - (i - 1)) \in 1 .. Len(q)
      BY <1>2, <2>2
    <3>2. p[j] = b[j - (i - 1)]
      BY <1>5, <2>2
    <3>3. b[j - (i - 1)] = q[i + (j - (i - 1))]
      BY <1>4, <3>1
    <3> HIDE DEF p
    <3> QED BY <3>1, <3>2, <3>3
  <2> QED BY <2>1, <2>2
<1> QED BY <1>1, <1>5, <1>6

\* The loads that are answered, and what an answer shows.
LoadsOK(q, R, S) == \A i \in 1 .. Len(q) : q[i].answered => LoadOK(q[i].chat, R, S)

\* A load that is asked for shows nothing yet.
LEMMA LoadsAfterAdd ==
  ASSUME NEW q \in Seq(LoadType), NEW R, NEW S, LoadsOK(q, R, S), NEW e
  PROVE  LoadsOK(Append(q, Asked), R, S) /\ LastLoadOK(e, Append(q, Asked), R)
<1> DEFINE p == Append(q, Asked)
<1>1. /\ p \in Seq(LoadType) /\ Len(p) = Len(q) + 1 /\ \A i \in 1 .. Len(q) : p[i] = q[i]
      /\ p[Len(q) + 1] = Asked /\ ~Asked.answered /\ Len(q) \in Nat
  BY LoadAdded
<1> HIDE DEF p
<1>2. LoadsOK(p, R, S)
  <2> SUFFICES ASSUME NEW i \in 1 .. Len(p), p[i].answered PROVE LoadOK(p[i].chat, R, S)
    BY DEF LoadsOK
  <2>1. i \in 1 .. Len(q)
    BY <1>1
  <2> QED BY <1>1, <2>1 DEF LoadsOK
<1>3. LastLoadOK(e, p, R)
  BY <1>1 DEF LastLoadOK
<1> QED BY <1>2, <1>3 DEF p

\* The other loads are as they were.
LEMMA LoadsAfterRemove ==
  ASSUME NEW q \in Seq(LoadType), NEW R, NEW S, LoadsOK(q, R, S), NEW i \in 1 .. Len(q)
  PROVE  LoadsOK(RemoveAt(q, i), R, S)
<1> DEFINE p == RemoveAt(q, i)
<1>1. \A j \in 1 .. Len(p) : \E k \in 1 .. Len(q) : p[j] = q[k]
  BY LoadRemoved
<1> HIDE DEF p
<1>2. LoadsOK(p, R, S)
  BY <1>1 DEF LoadsOK
<1> QED BY <1>2 DEF p

\* ClientOK in parts.
LEMMA ClientIsIn ==
  ASSUME NEW x, NEW e, NEW q, NEW p, NEW in, NEW R, NEW S
  PROVE  ClientOK(x, e, q, p, in, R, S) <=>
           /\ OthersOK(x, R, S) /\ ViewAt(x, Upto(x, e), R, S) /\ SourceOK(x, e, R) /\ LastLoadOK(e, q, R)
           /\ ~in => x = EmptyChat
           /\ LoadsOK(q, R, S)
           /\ p # 0 => R[p].st # "unused"
BY DEF ClientOK, LoadsOK

-----------------------------------------------------------------------------
(* The steps of the client.                                                *)

\* The invariant of the client: right, unless a load overtook the stream.
ClientInv == ClientTypes /\ (~overtaken => ClientIs)

\* What the client is before a step.
Now ==
  /\ chat \in ChatType /\ es \in SourceType /\ es.seen <= es.recv /\ loads \in Seq(LoadType)
  /\ posted \in Run \cup {0} /\ inside \in BOOLEAN /\ overtaken \in BOOLEAN
  /\ OthersOK(chat, run, stored) /\ ViewAt(chat, Upto(chat, es), run, stored)
  /\ SourceOK(chat, es, run) /\ LastLoadOK(es, loads, run)
  /\ ~inside => chat = EmptyChat
  /\ LoadsOK(loads, run, stored)
  /\ posted # 0 => run[posted].st # "unused"

\* What the invariants say of the client before a step.
LEMMA ClientNow ==
  ASSUME ServerInv, ClientInv, Followed
  PROVE  Server(run, stored) /\ Now
<1>1. ClientOK(chat, es, loads, posted, inside, run, stored) /\ ClientTypes
  BY DEF ClientInv, Followed, ClientIs
<1>2. /\ OthersOK(chat, run, stored) /\ ViewAt(chat, Upto(chat, es), run, stored)
      /\ SourceOK(chat, es, run) /\ LastLoadOK(es, loads, run)
      /\ ~inside => chat = EmptyChat
      /\ LoadsOK(loads, run, stored)
      /\ posted # 0 => run[posted].st # "unused"
  BY <1>1, ClientIsIn
<1> QED BY <1>1, <1>2 DEF ClientTypes, ServerInv, Now

\* The queue of a subscription that is right.
LEMMA QueueNow ==
  ASSUME NEW x, NEW e \in SourceType, SourceOK(x, e, run)
  PROVE  Queued(e)
BY UnsubscribedType DEF Queued, SourceOK, SourceType

\* What a step has to show.
LEMMA ClientThen ==
  ASSUME UNCHANGED <<run, stored>>,
         chat' \in ChatType /\ es' \in SourceType /\ es'.seen <= es'.recv,
         loads' \in Seq(LoadType) /\ posted' \in Run \cup {0} /\ inside' \in BOOLEAN /\ overtaken' \in BOOLEAN,
         ~overtaken' =>
           /\ OthersOK(chat', run, stored) /\ ViewAt(chat', Upto(chat', es'), run, stored)
           /\ SourceOK(chat', es', run) /\ LastLoadOK(es', loads', run)
           /\ ~inside' => chat' = EmptyChat
           /\ LoadsOK(loads', run, stored)
           /\ posted' # 0 => run[posted'].st # "unused"
  PROVE  ClientInv'
<1>1. ClientTypes'
  BY DEF ClientTypes
<1>2. ~overtaken' => ClientOK(chat', es', loads', posted', inside', run, stored)
  BY ClientIsIn
<1>3. ~overtaken' => ClientIs'
  BY <1>2 DEF ClientIs
<1> QED BY <1>1, <1>3 DEF ClientInv

\* The EventSource is closed, with the events of e in the queue.
LEMMA CloseKeeps ==
  ASSUME ServerInv, ClientInv, Followed, es.st # "none",
         NEW e \in SourceType, e.sub = es.sub, e.seen = es.seen, e.seen <= e.recv, Queued(e),
         Close(e), UNCHANGED <<server, posted, inside, overtaken>>
  PROVE  ClientInv'
<1> USE DEF Now
<1> DEFINE f == [e EXCEPT !.st = "none", !.seen = e.recv]
<1>1. Render(Shown(chat, e), f) /\ loads' = Append(loads, Asked)
  BY DEF Close
<1>2. f \in SourceType /\ f.sub = e.sub /\ f.seen = e.recv /\ f.recv = e.recv
  BY DEF SourceType
<1> HIDE DEF f
<1>3. es.sub # 0 /\ inside
  <2>1. es.sub # 0
    BY ClientNow DEF SourceOK, Unsubscribed
  <2> QED BY <2>1, ClientNow, EmptyChatType DEF SourceOK
<1>4. /\ chat' \in ChatType /\ es' \in SourceType /\ es'.seen <= es'.recv
      /\ OthersOK(chat', run, stored) /\ ViewAt(chat', Upto(chat', es'), run, stored) /\ SourceOK(chat', es', run)
  <2>1. /\ Server(run, stored) /\ chat \in ChatType /\ es \in SourceType
        /\ OthersOK(chat, run, stored) /\ ViewAt(chat, Upto(chat, es), run, stored) /\ SourceOK(chat, es, run)
    BY ClientNow
  <2> QED BY <1>1, <1>2, <1>3, <2>1, QueueOK
<1>5. loads' \in Seq(LoadType) /\ LoadsOK(loads', run, stored) /\ LastLoadOK(es', loads', run)
  <2>1. loads \in Seq(LoadType) /\ LoadsOK(loads, run, stored)
    BY ClientNow
  <2> QED BY <1>1, <2>1, LoadAdded, LoadsAfterAdd
<1>6. UNCHANGED <<run, stored, posted, inside, overtaken>>
  BY DEF server
<1>7. /\ posted \in Run \cup {0} /\ inside \in BOOLEAN /\ overtaken \in BOOLEAN
      /\ posted # 0 => run[posted].st # "unused"
  BY ClientNow
<1> QED BY <1>3, <1>4, <1>5, <1>6, <1>7, ClientThen

\* The client has come to the conversation or has left it, or a request of it is lost.
LEMMA PlaceKeeps ==
  ASSUME ServerInv, ClientInv, Leave \/ Enter \/ Drop \/ StartLost
  PROVE  ClientInv'
<1>1. Followed /\ UNCHANGED <<run, stored>> /\ overtaken' = overtaken
  BY DEF Leave, Enter, Drop, StartLost, server, Fault
<1> USE DEF Now
<1>2. Now /\ Server(run, stored)
  BY <1>1, ClientNow
<1>3. CASE Leave
  <2>1. /\ chat' = EmptyChat /\ es' = Unsubscribed
        /\ loads' = loads /\ posted' = posted /\ inside' = FALSE
    BY <1>3 DEF Leave
  <2>2. /\ EmptyChat \in ChatType /\ Unsubscribed \in SourceType /\ Unsubscribed.seen <= Unsubscribed.recv
    BY EmptyChatType, UnsubscribedType
  <2>3. OthersOK(EmptyChat, run, stored) /\ ViewAt(EmptyChat, Upto(EmptyChat, Unsubscribed), run, stored)
    BY EmptyChatType DEF OthersOK, ViewAt, EmptyChat
  <2>4. SourceOK(EmptyChat, Unsubscribed, run) /\ LastLoadOK(Unsubscribed, loads, run)
    BY EmptyChatType, UnsubscribedType DEF SourceOK, LastLoadOK, Unsubscribed
  <2> QED BY <1>1, <1>2, <2>1, <2>2, <2>3, <2>4, ClientThen
<1>4. CASE Enter
  <2>1. chat' = chat /\ es' = es /\ loads' = Append(loads, Asked) /\ posted' = posted /\ inside' = TRUE
    BY <1>4 DEF Enter
  <2>2. loads' \in Seq(LoadType) /\ LoadsOK(loads', run, stored) /\ LastLoadOK(es', loads', run)
    BY <1>2, <2>1, LoadAdded, LoadsAfterAdd
  <2> QED BY <1>1, <1>2, <2>1, <2>2, ClientThen
<1>5. CASE Drop
  <2> DEFINE f == [es EXCEPT !.st = "connecting"]
  <2>1. es' = f /\ UNCHANGED <<chat, loads, posted, inside>> /\ es.st = "open"
    BY <1>5 DEF Drop
  <2>2. f \in SourceType /\ f.sub = es.sub /\ f.seen = es.seen /\ f.recv = es.recv /\ f.st = "connecting"
    BY <1>2 DEF SourceType
  <2>3. es.sub # 0
    BY <1>2, <2>1 DEF SourceOK, Unsubscribed
  <2> HIDE DEF f
  <2>4. ViewAt(chat, Upto(chat, f), run, stored) /\ SourceOK(chat, f, run) /\ LastLoadOK(f, loads, run)
    BY <1>2, <2>2, <2>3 DEF Upto, SourceOK, LastLoadOK
  <2> QED BY <1>1, <1>2, <2>1, <2>2, <2>4, ClientThen
<1>6. CASE StartLost
  <2>1. posted' = 0 /\ UNCHANGED <<chat, es, loads, inside>>
    BY <1>6 DEF StartLost
  <2> QED BY <1>1, <1>2, <2>1, ClientThen
<1> QED BY <1>3, <1>4, <1>5, <1>6

\* Events arrive and are drawn, and the EventSource is closed.
LEMMA StreamKeeps ==
  ASSUME ServerInv, ClientInv, Deliver \/ Frame \/ Refuse
  PROVE  ClientInv'
<1>1. Followed /\ UNCHANGED <<server, posted, inside, overtaken>>
  BY DEF Deliver, Frame, Refuse, Fault
<1> USE DEF Now
<1>2. Now /\ Server(run, stored)
  BY <1>1, ClientNow
<1>3. UNCHANGED <<run, stored, posted, inside, overtaken>>
  BY <1>1 DEF server
<1>4. Queued(es)
  BY <1>2, QueueNow
<1>5. CASE Refuse
  <2>1. es.st # "none" /\ Close(es)
    BY <1>5 DEF Refuse
  <2> QED BY <1>1, <1>2, <1>4, <2>1, CloseKeeps
<1>6. CASE Deliver
  <2> DEFINE f == [es EXCEPT !.recv = @ + 1]
  <2>1. es.st = "open" /\ es.recv < Len(run[es.sub].events)
    BY <1>6 DEF Deliver
  <2>2. es.sub # 0 /\ es.sub \in Run
    BY <1>2, <2>1 DEF SourceOK, Unsubscribed, SourceType
  <2>3. Len(run[es.sub].events) \in Nat /\ es.recv \in Nat /\ es.seen \in Nat
    BY <1>2, <2>2 DEF Server, RunType, SourceType
  <2>4. /\ f \in SourceType /\ f.sub = es.sub /\ f.seen = es.seen /\ f.recv = es.recv + 1 /\ f.st = es.st
    <3>1. es.recv + 1 \in Nat
      BY <2>3
    <3> QED BY <1>2, <3>1 DEF SourceType
  <2>5. Close(f) \/ (es' = f /\ UNCHANGED <<chat, loads>>)
    BY <1>6 DEF Deliver
  <2> HIDE DEF f
  <2>6. f.seen <= f.recv /\ f.recv <= Len(run[f.sub].events) /\ Queued(f)
    BY <1>2, <2>1, <2>2, <2>3, <2>4 DEF Queued
  <2>7. CASE Close(f)
    BY <1>1, <2>1, <2>4, <2>6, <2>7, CloseKeeps
  <2>8. CASE es' = f /\ UNCHANGED <<chat, loads>>
    <3>1. ViewAt(chat, Upto(chat, f), run, stored) /\ SourceOK(chat, f, run) /\ LastLoadOK(f, loads, run)
      BY <1>2, <2>1, <2>2, <2>4, <2>6 DEF Upto, SourceOK, LastLoadOK
    <3> QED BY <1>2, <1>3, <2>4, <2>6, <2>8, <3>1, ClientThen
  <2> QED BY <2>5, <2>7, <2>8
<1>7. CASE Frame
  <2> DEFINE f == [es EXCEPT !.seen = es.recv]
  <2>1. es.seen < es.recv /\ Render(Shown(chat, es), f) /\ loads' = loads
    BY <1>7 DEF Frame
  <2>2. f \in SourceType /\ f.sub = es.sub /\ f.seen = es.recv /\ f.recv = es.recv /\ f.st = es.st
    BY <1>2 DEF SourceType
  <2> HIDE DEF f
  <2>3. es.sub # 0 /\ es.st # "none" /\ inside
    <3>1. es.seen # es.recv
      BY <1>2, <2>1 DEF SourceType
    <3>2. es.sub # 0 /\ es.st # "none"
      BY <1>2, <3>1, UnsubscribedType DEF SourceOK
    <3> QED BY <1>2, <3>2, EmptyChatType DEF SourceOK
  <2>4. /\ chat' \in ChatType /\ es' \in SourceType /\ es'.seen <= es'.recv
        /\ OthersOK(chat', run, stored) /\ ViewAt(chat', Upto(chat', es'), run, stored) /\ SourceOK(chat', es', run)
    BY <1>2, <1>4, <2>1, <2>2, <2>3, QueueOK
  <2>5. LastLoadOK(es', loads', run)
    <3> DEFINE y == Shown(chat, es)
    <3>1. y \in ChatType
      BY <1>2, <1>4, ShownType
    <3> HIDE DEF y
    <3>2. es' = f \/ es' = Subscribed(y)
      <4>1. Render(y, f)
        BY <2>1 DEF y
      <4> QED BY <2>2, <3>1, <4>1, RenderIs
    <3>3. es'.sub = 0 \/ es'.st # "none"
      BY <2>2, <2>3, <3>1, <3>2, SubscribedIs
    <3> QED BY <3>3 DEF LastLoadOK
  <2> QED BY <1>2, <1>3, <2>1, <2>3, <2>4, <2>5, ClientThen
<1> QED BY <1>5, <1>6, <1>7

\* The answer to startRun arrives.
LEMMA StartReturnsKeeps ==
  ASSUME ServerInv, ClientInv, StartReturns
  PROVE  ClientInv'
<1> USE DEF Now
<1> DEFINE x == [chat EXCEPT !.run = posted, !.status = "running", !.lastSeq = 0]
<1>1. /\ Followed /\ posted # 0 /\ posted' = 0 /\ UNCHANGED <<run, stored, loads, inside>>
      /\ overtaken' = (inside /\ es.sub # 0 /\ (es.sub # posted \/ es.seen < chat.lastSeq))
  BY DEF StartReturns, server
<1>2. Now /\ Server(run, stored)
  BY <1>1, ClientNow
<1>3. CASE ~inside
  <2>1. UNCHANGED <<chat, es>> /\ overtaken' = FALSE
    BY <1>1, <1>3 DEF StartReturns
  <2> QED BY <1>1, <1>2, <2>1, ClientThen
<1>4. CASE inside
  <2>1. Render(x, es)
    BY <1>4 DEF StartReturns
  <2>2. /\ x \in ChatType /\ x.run = posted /\ x.status = "running" /\ x.lastSeq = 0 /\ x.answer = chat.answer
        /\ posted \in Run
    BY <1>1, <1>2 DEF ChatType, RunStatus
  <2> HIDE DEF x
  <2>3. Queued(es)
    BY <1>2, QueueNow
  <2>4. chat' \in ChatType /\ es' \in SourceType /\ es'.seen <= es'.recv
    BY <1>2, <2>1, <2>2, <2>3, RenderType
  <2>5. overtaken' \in BOOLEAN
    BY <1>1
  <2>6. Wanted(x) = posted
    BY <1>1, <2>2, WantedIs
  <2>7. ASSUME ~overtaken'
        PROVE  /\ OthersOK(chat', run, stored) /\ ViewAt(chat', Upto(chat', es'), run, stored)
               /\ SourceOK(chat', es', run) /\ LastLoadOK(es', loads, run)
    <3>1. es.sub = 0 \/ (es.sub = posted /\ ~(es.seen < chat.lastSeq))
      BY <1>1, <1>4, <2>7
    <3>2. es.sub = Wanted(chat) /\ (es.sub = 0 => es = Unsubscribed) /\ (es.st = "none" => es.seen = es.recv)
          /\ (es.seen < es.recv => es.recv <= Len(run[es.sub].events))
      BY <1>2 DEF SourceOK
    <3>3. es.sub # posted => es.seen = es.recv
      BY <3>1, <3>2, UnsubscribedType
    \* The run the view followed before is over.
    <3>4. ASSUME es.sub = 0, chat.run # 0, Known(run[chat.run])
          PROVE  run[chat.run].st = "done" /\ chat.answer[chat.run] = stored[chat.run]
      <4>1. chat.status \in Outcome
        BY <1>2, <3>2, <3>4, WantedIs DEF OthersOK
      <4> QED BY <1>2, <3>4, <4>1 DEF ViewAt
    <3>5. OthersOK(x, run, stored)
      <4>1. run[posted].st # "unused" /\ x.status # "none"
        BY <1>1, <1>2, <2>2
      <4>2. ASSUME NEW q \in Run \ {posted}
            PROVE  /\ Known(run[q]) => chat.answer[q] \in {Blank, stored[q]}
                   /\ run[q].st = "unused" => chat.answer[q] = Blank
        <5>1. CASE q = chat.run
          <6>1. es.sub = 0 /\ chat.run # 0
            BY <3>1, <3>2, <1>1, <1>2, <5>1, <4>2, StreamAssumption, WantedIs
          <6> QED BY <1>2, <3>4, <5>1, <6>1 DEF OthersOK
        <5>2. CASE q # chat.run
          BY <1>2, <5>2 DEF OthersOK
        <5> QED BY <5>1, <5>2
      <4> QED BY <2>2, <4>1, <4>2 DEF OthersOK
    <3>6. ASSUME Wanted(x) = es.sub PROVE ViewAt(x, Upto(x, es), run, stored)
      <4>1. es.sub = posted /\ chat.run = posted /\ ~(es.seen < chat.lastSeq)
        BY <1>1, <1>2, <2>6, <3>1, <3>2, <3>6, WantedIs
      <4>2. es.seen \in Nat /\ chat.lastSeq \in Nat
        BY <1>2 DEF ChatType, SourceType
      <4>3. Upto(x, es) = es.seen /\ Upto(chat, es) = es.seen
        BY <2>2, <4>1, <4>2 DEF Upto
      <4> QED BY <1>2, <2>2, <4>1, <4>3 DEF ViewAt, Outcome
    <3>7. ASSUME Wanted(x) # es.sub PROVE ViewAt(x, x.lastSeq, run, stored)
      <4> SUFFICES ASSUME Known(run[posted])
                   PROVE  0 <= Len(run[posted].events) /\ Shows(chat.answer[posted], run[posted], stored[posted], 0)
        BY <2>2 DEF ViewAt, Outcome
      <4>1. run[posted].events \in Seq(EventType) /\ Replay(run[posted].events, 0) = Blank
        BY <1>2, <2>2, ReplayNext, KnownIs
      <4>2. chat.answer[posted] = Blank \/ (run[posted].st = "done" /\ chat.answer[posted] = stored[posted])
        <5>1. es.sub = 0
          BY <2>6, <3>1, <3>7
        <5>2. CASE chat.run = posted
          BY <1>1, <3>4, <5>1, <5>2
        <5>3. CASE chat.run # posted
          <6>1. chat.answer[posted] \in {Blank, stored[posted]}
            BY <1>2, <2>2, <5>3 DEF OthersOK
          <6>2. run[posted].st = "active" => stored[posted] = Blank
            BY <1>2, <2>2, ActiveIsGood
          <6> QED BY <6>1, <6>2 DEF Known
        <5> QED BY <5>2, <5>3
      <4> QED BY <4>1, <4>2 DEF Shows
    <3>8. OthersOK(chat', run, stored) /\ ViewAt(chat', Upto(chat', es'), run, stored) /\ SourceOK(chat', es', run)
      <4>1. Wanted(x) = es.sub \/ es.seen = es.recv
        BY <2>6, <3>3
      <4> QED BY <1>2, <2>1, <2>2, <3>2, <3>5, <3>6, <3>7, <4>1, RenderOK
    <3>9. LastLoadOK(es', loads, run)
      <4>1. es' = es \/ es' = Subscribed(x)
        BY <1>2, <2>1, <2>2, <2>6, <3>3, RenderIs
      <4> QED BY <1>2, <2>2, <4>1, SubscribedIs DEF LastLoadOK
    <3> QED BY <3>8, <3>9
  <2> QED BY <1>1, <1>2, <1>4, <2>4, <2>5, <2>7, ClientThen
<1> QED BY <1>3, <1>4

\* The answer to a load arrives.
LEMMA LoadReturnsKeeps ==
  ASSUME ServerInv, ClientInv, NEW i \in DOMAIN loads, LoadReturns(i)
  PROVE  ClientInv'
<1> USE DEF Now
<1> DEFINE x == loads[i].chat
<1>1. /\ Followed /\ loads[i].answered /\ loads' = RemoveAt(loads, i)
      /\ UNCHANGED <<run, stored, posted, inside>>
  BY DEF LoadReturns, server
<1>2. Now /\ Server(run, stored)
  BY <1>1, ClientNow
<1>3. i \in 1 .. Len(loads) /\ loads[i] \in LoadType /\ x \in ChatType /\ Len(loads) \in Nat
  <2>1. i \in 1 .. Len(loads) /\ loads[i] \in LoadType /\ Len(loads) \in Nat
    BY <1>2
  <2> QED BY <2>1 DEF LoadType
<1>4. LoadOK(x, run, stored)
  BY <1>1, <1>2, <1>3 DEF LoadsOK
<1>5. loads' \in Seq(LoadType) /\ LoadsOK(loads', run, stored) /\ Len(loads') = Len(loads) - 1
  BY <1>1, <1>2, <1>3, LoadRemoved, LoadsAfterRemove
<1>6. CASE ~inside
  <2>1. UNCHANGED <<chat, es, overtaken>>
    BY <1>6 DEF LoadReturns
  <2>2. es.sub = 0
    BY <1>2, <1>6, EmptyChatType DEF SourceOK
  <2>3. LastLoadOK(es, loads', run)
    BY <2>2 DEF LastLoadOK
  <2> QED BY <1>1, <1>2, <1>5, <2>1, <2>3, ClientThen
<1>7. CASE inside
  <2>1. Render(x, es) /\ overtaken' = Overtakes(i)
    BY <1>7 DEF LoadReturns
  <2>2. Overtakes(i) \in BOOLEAN /\
        (~Overtakes(i) =>
          /\ i = 1
          /\ es.st # "none" => x.run = es.sub /\ x.lastSeq >= es.seen
          /\ es.st = "none" /\ es.sub # 0 => ~(i < Len(loads)))
    BY DEF Overtakes
  <2> HIDE DEF x
  <2>3. Queued(es)
    BY <1>2, QueueNow
  <2>4. chat' \in ChatType /\ es' \in SourceType /\ es'.seen <= es'.recv
    BY <1>2, <1>3, <2>1, <2>3, RenderType
  <2>5. ASSUME ~overtaken'
        PROVE  /\ OthersOK(chat', run, stored) /\ ViewAt(chat', Upto(chat', es'), run, stored)
               /\ SourceOK(chat', es', run) /\ LastLoadOK(es', loads', run)
    <3>1. /\ i = 1
          /\ es.st # "none" => x.run = es.sub /\ x.lastSeq >= es.seen
          /\ es.st = "none" /\ es.sub # 0 => Len(loads) = 1
      <4>1. /\ i = 1
            /\ es.st # "none" => x.run = es.sub /\ x.lastSeq >= es.seen
            /\ es.st = "none" /\ es.sub # 0 => ~(i < Len(loads))
        BY <2>1, <2>2, <2>5
      <4>2. ASSUME es.st = "none", es.sub # 0 PROVE Len(loads) = 1
        <5>1. i = 1 /\ ~(i < Len(loads))
          BY <4>1, <4>2
        <5> QED BY <1>3, <5>1
      <4> QED BY <4>1, <4>2
    <3>2. es.sub = Wanted(chat) /\ (es.sub = 0 => es = Unsubscribed) /\ (es.st = "none" => es.seen = es.recv)
          /\ (es.seen < es.recv => es.recv <= Len(run[es.sub].events))
      BY <1>2 DEF SourceOK
    <3>3. es.st # "none" => Wanted(x) = es.sub
      <4>1. es.st # "none" => es.sub # 0
        BY <3>2 DEF Unsubscribed
      <4> QED BY <1>3, <1>4, <3>1, <4>1, WantedIs DEF LoadOK
    <3>4. Wanted(x) = es.sub \/ es.seen = es.recv
      BY <3>2, <3>3
    <3>5. OthersOK(x, run, stored) /\ ViewAt(x, x.lastSeq, run, stored)
      BY <1>4 DEF LoadOK
    <3>6. ASSUME Wanted(x) = es.sub PROVE ViewAt(x, Upto(x, es), run, stored)
      <4> SUFFICES ASSUME x.run # 0, Known(run[x.run]) PROVE Upto(x, es) = x.lastSeq
        BY <3>5 DEF ViewAt
      <4>1. Wanted(x) = x.run /\ es.sub = x.run /\ es.sub # 0
        BY <1>3, <1>4, <3>6, WantedIs DEF LoadOK
      <4>2. x.lastSeq >= es.seen
        <5>1. CASE es.st # "none"
          BY <3>1, <5>1
        <5>2. CASE es.st = "none"
          <6>1. loads # <<>> /\ loads[Len(loads)].chat = x /\ loads[Len(loads)].answered
            <7>1. Len(loads) = 1 /\ i = Len(loads)
              BY <3>1, <4>1, <5>2
            <7> QED BY <1>1, <7>1 DEF x
          <6> QED BY <1>2, <4>1, <5>2, <6>1 DEF LastLoadOK
        <5> QED BY <5>1, <5>2
      <4>3. x.lastSeq \in Nat /\ es.seen \in Nat
        BY <1>2, <1>3 DEF ChatType, SourceType
      <4> QED BY <4>2, <4>3 DEF Upto
    <3>7. OthersOK(chat', run, stored) /\ ViewAt(chat', Upto(chat', es'), run, stored) /\ SourceOK(chat', es', run)
      BY <1>2, <1>3, <2>1, <3>2, <3>4, <3>5, <3>6, RenderOK
    <3>8. LastLoadOK(es', loads', run)
      <4>1. es' = es \/ es' = Subscribed(x)
        BY <1>2, <1>3, <2>1, <3>4, RenderIs
      <4>2. CASE es' = es
        <5>1. es.st = "none" /\ es.sub # 0 => loads' = <<>>
          <6>1. ASSUME es.st = "none", es.sub # 0 PROVE Len(loads') = 0
            BY <1>5, <3>1, <6>1
          <6> QED BY <1>5, <6>1
        <5> QED BY <4>2, <5>1 DEF LastLoadOK
      <4>3. CASE es' = Subscribed(x)
        BY <1>3, <4>3, SubscribedIs DEF LastLoadOK
      <4> QED BY <4>1, <4>2, <4>3
    <3> QED BY <3>7, <3>8
  <2> QED BY <1>1, <1>2, <1>5, <1>7, <2>1, <2>2, <2>4, <2>5, ClientThen
<1> QED BY <1>6, <1>7

\* A load fails.
LEMMA LoadFailsKeeps ==
  ASSUME ServerInv, ClientInv, NEW i \in DOMAIN loads, LoadFails(i)
  PROVE  ClientInv'
<1> USE DEF Now
<1>1. /\ Followed /\ loads' = RemoveAt(loads, i) /\ UNCHANGED <<run, stored, posted, inside>>
      /\ overtaken' = (inside /\ (i # 1 \/ es.st # "none"))
  BY DEF LoadFails, server, Fault
<1>2. Now /\ Server(run, stored)
  BY <1>1, ClientNow
<1>3. i \in 1 .. Len(loads)
  BY <1>2
<1>4. loads' \in Seq(LoadType) /\ LoadsOK(loads', run, stored)
  BY <1>1, <1>2, <1>3, LoadRemoved, LoadsAfterRemove
<1>5. CASE ~inside
  <2>1. UNCHANGED <<chat, es>> /\ overtaken' = FALSE
    BY <1>1, <1>5 DEF LoadFails
  <2>2. es.sub = 0
    BY <1>2, <1>5, EmptyChatType DEF SourceOK
  <2>3. LastLoadOK(es, loads', run)
    BY <2>2 DEF LastLoadOK
  <2> QED BY <1>1, <1>2, <1>4, <2>1, <2>3, ClientThen
<1>6. CASE inside
  <2> DEFINE x == EmptyChat
  <2>1. Render(x, es)
    BY <1>6 DEF LoadFails
  <2>2. x \in ChatType /\ x.run = 0 /\ Wanted(x) = 0
    BY EmptyChatType
  <2>3. OthersOK(x, run, stored) /\ \A n : ViewAt(x, n, run, stored)
    BY <2>2 DEF OthersOK, ViewAt, EmptyChat
  <2> HIDE DEF x
  <2>4. chat' \in ChatType /\ es' \in SourceType /\ es'.seen <= es'.recv
    <3>1. Queued(es)
      BY <1>2, QueueNow
    <3> QED BY <1>2, <2>1, <2>2, <3>1, RenderType
  <2>5. ASSUME ~overtaken'
        PROVE  /\ OthersOK(chat', run, stored) /\ ViewAt(chat', Upto(chat', es'), run, stored)
               /\ SourceOK(chat', es', run) /\ LastLoadOK(es', loads', run)
    <3>1. (es.sub = 0 => es = Unsubscribed) /\ es.seen = es.recv
          /\ (es.seen < es.recv => es.recv <= Len(run[es.sub].events))
      BY <1>1, <1>2, <1>6, <2>5 DEF SourceOK
    <3>2. OthersOK(chat', run, stored) /\ ViewAt(chat', Upto(chat', es'), run, stored) /\ SourceOK(chat', es', run)
      BY <1>2, <2>1, <2>2, <2>3, <3>1, RenderOK
    <3>3. es'.sub = 0
      <4>1. chat' = x
        BY <1>2, <2>1, <2>2, <3>1, RenderIs
      <4> QED BY <2>2, <3>2, <4>1 DEF SourceOK
    <3> QED BY <3>2, <3>3 DEF LastLoadOK
  <2>6. overtaken' \in BOOLEAN
    BY <1>1
  <2> QED BY <1>1, <1>2, <1>4, <1>6, <2>4, <2>5, <2>6, ClientThen
<1> QED BY <1>5, <1>6

-----------------------------------------------------------------------------
(* The steps of the server and of both.                                    *)

\* The server goes on, and the client stays as it is but for what is said.
LEMMA ServerKeepsClient ==
  ASSUME ServerInv, ClientInv, ServerGoesOn, Followed
  PROVE  /\ OthersOK(chat, run', stored') /\ ViewAt(chat, Upto(chat, es), run', stored')
         /\ SourceOK(chat, es, run') /\ LastLoadOK(es, loads, run')
         /\ ~inside => chat = EmptyChat
         /\ LoadsOK(loads, run', stored')
         /\ posted # 0 => run'[posted].st # "unused"
<1> DEFINE R2 == run'
           S2 == stored'
<1>1. Server(run, stored) /\ Server(R2, S2) /\ Steps(run, stored, R2, S2, es.sub)
  BY DEF ServerInv, ServerGoesOn
<1>2. /\ chat \in ChatType /\ es \in SourceType /\ loads \in Seq(LoadType) /\ posted \in Run \cup {0}
      /\ ClientOK(chat, es, loads, posted, inside, run, stored)
  BY DEF ClientInv, ClientTypes, ClientIs, Followed
<1> HIDE DEF R2, S2
<1>3. ClientOK(chat, es, loads, posted, inside, R2, S2)
  BY <1>1, <1>2, ClientStays
<1>4. /\ OthersOK(chat, R2, S2) /\ ViewAt(chat, Upto(chat, es), R2, S2)
      /\ SourceOK(chat, es, R2) /\ LastLoadOK(es, loads, R2)
      /\ ~inside => chat = EmptyChat
      /\ LoadsOK(loads, R2, S2)
      /\ posted # 0 => R2[posted].st # "unused"
  BY <1>3, ClientIsIn
<1> QED BY <1>4 DEF R2, S2

\* What such a step has to show.
LEMMA JointThen ==
  ASSUME es' \in SourceType /\ es'.seen <= es'.recv, chat' \in ChatType,
         loads' \in Seq(LoadType) /\ posted' \in Run \cup {0} /\ inside' \in BOOLEAN /\ overtaken' \in BOOLEAN,
         /\ OthersOK(chat', run', stored') /\ ViewAt(chat', Upto(chat', es'), run', stored')
         /\ SourceOK(chat', es', run') /\ LastLoadOK(es', loads', run')
         /\ ~inside' => chat' = EmptyChat
         /\ LoadsOK(loads', run', stored')
         /\ posted' # 0 => run'[posted'].st # "unused"
  PROVE  ClientInv'
<1>1. ClientTypes'
  BY DEF ClientTypes
<1>2. ClientOK(chat', es', loads', posted', inside', run', stored')
  BY ClientIsIn
<1> QED BY <1>1, <1>2 DEF ClientInv, ClientIs

\* A step of the server alone.
LEMMA ServerStepKeeps ==
  ASSUME ServerInv, ClientInv, ServerStep
  PROVE  ClientInv'
<1>1. Followed /\ UNCHANGED client
  BY DEF ServerStep, Backend, SendElsewhere, StartRun, Cancel, FlushTimer, Expire, Decide, TextStart, TextDelta,
         TextEnd, CallOffered, Finalize, CallStarts, CallAsks, CallEnds, Change
<1>2. ServerGoesOn
  <2>1. Next
    BY DEF ServerStep, Next, UserAction, Progress
  <2> QED BY <2>1, ServerNext
<1>3. /\ OthersOK(chat, run', stored') /\ ViewAt(chat, Upto(chat, es), run', stored')
      /\ SourceOK(chat, es, run') /\ LastLoadOK(es, loads, run')
      /\ ~inside => chat = EmptyChat
      /\ LoadsOK(loads, run', stored')
      /\ posted # 0 => run'[posted].st # "unused"
  BY <1>1, <1>2, ServerKeepsClient
<1>4. UNCHANGED <<chat, es, loads, posted, inside, overtaken>>
  BY <1>1 DEF client
<1>5. Now
  BY <1>1, ClientNow
<1>6. es' \in SourceType /\ es'.seen <= es'.recv
  BY <1>4, <1>5 DEF Now
<1>7. chat' \in ChatType
  BY <1>4, <1>5 DEF Now
<1>8. loads' \in Seq(LoadType) /\ posted' \in Run \cup {0} /\ inside' \in BOOLEAN /\ overtaken' \in BOOLEAN
  BY <1>4, <1>5 DEF Now
<1>9. /\ OthersOK(chat', run', stored') /\ ViewAt(chat', Upto(chat', es'), run', stored')
      /\ SourceOK(chat', es', run') /\ LastLoadOK(es', loads', run')
      /\ ~inside' => chat' = EmptyChat
      /\ LoadsOK(loads', run', stored')
      /\ posted' # 0 => run'[posted'].st # "unused"
  BY <1>3, <1>4
<1> QED BY <1>6, <1>7, <1>8, <1>9, JointThen

\* The client asks for a run.
LEMMA SendKeeps ==
  ASSUME ServerInv, ClientInv, Send
  PROVE  ClientInv'
<1>1. Followed /\ StartRun /\ posted' = NextRun /\ UNCHANGED <<stored, chat, es, loads, inside, overtaken>>
  BY DEF Send, StartRun
<1>2. ServerGoesOn /\ NextRun \in Run /\ run'[NextRun].st = "active"
  BY <1>1, StartSteps
<1>3. /\ OthersOK(chat, run', stored') /\ ViewAt(chat, Upto(chat, es), run', stored')
      /\ SourceOK(chat, es, run') /\ LastLoadOK(es, loads, run')
      /\ ~inside => chat = EmptyChat
      /\ LoadsOK(loads, run', stored')
  BY <1>1, <1>2, ServerKeepsClient
<1>4. Now
  BY <1>1, ClientNow
<1>5. posted' \in Run \cup {0} /\ run'[posted'].st # "unused"
  BY <1>1, <1>2
<1> QED BY <1>1, <1>3, <1>4, <1>5, JointThen DEF Now

\* The EventSource is open, or it will connect again.
LEMMA SourceKeeps ==
  ASSUME ServerInv, ClientInv, Followed, ServerGoesOn, es.st # "none", NEW st \in {"connecting", "open"},
         es' = [es EXCEPT !.st = st], UNCHANGED <<chat, loads, posted, inside, overtaken>>
  PROVE  ClientInv'
<1>1. /\ OthersOK(chat, run', stored') /\ ViewAt(chat, Upto(chat, es), run', stored')
      /\ SourceOK(chat, es, run') /\ LastLoadOK(es, loads, run')
      /\ ~inside => chat = EmptyChat
      /\ LoadsOK(loads, run', stored')
      /\ posted # 0 => run'[posted].st # "unused"
  BY ServerKeepsClient
<1>2. Now
  BY ClientNow
<1>3. es' \in SourceType /\ es'.sub = es.sub /\ es'.seen = es.seen /\ es'.recv = es.recv /\ es'.st = st
  BY <1>2 DEF Now, SourceType
<1>4. es.sub # 0
  BY <1>1 DEF SourceOK, Unsubscribed
<1>5. ViewAt(chat, Upto(chat, es'), run', stored') /\ SourceOK(chat, es', run') /\ LastLoadOK(es', loads, run')
  BY <1>1, <1>3, <1>4 DEF Upto, SourceOK, LastLoadOK
<1>6. es'.seen <= es'.recv
  BY <1>2, <1>3 DEF Now
<1> QED BY <1>1, <1>2, <1>3, <1>5, <1>6, JointThen DEF Now

\* The EventSource connects, or is closed because nothing is left to say.
LEMMA ConnectKeeps ==
  ASSUME ServerInv, ClientInv, Connect
  PROVE  ClientInv'
<1>1. /\ Followed /\ es.st = "connecting" /\ UNCHANGED <<stored, call, executed, posted, inside, overtaken>>
      /\ \/ Close(es) /\ UNCHANGED run
         \/ es' = [es EXCEPT !.st = "open"] /\ UNCHANGED <<chat, loads>>
  BY DEF Connect
<1>2. CASE Close(es) /\ UNCHANGED run
  <2>1. es \in SourceType /\ es.seen <= es.recv /\ Queued(es)
    BY <1>1, ClientNow, QueueNow DEF Now
  <2>2. UNCHANGED server
    BY <1>1, <1>2 DEF server
  <2> QED BY <1>1, <1>2, <2>1, <2>2, CloseKeeps
<1>3. CASE es' = [es EXCEPT !.st = "open"] /\ UNCHANGED <<chat, loads>>
  BY <1>1, <1>3, ConnectSteps, SourceKeeps
<1> QED BY <1>1, <1>2, <1>3

\* The process dies and starts again; the EventSource connects again.
LEMMA RestartKeeps ==
  ASSUME ServerInv, ClientInv, Restart
  PROVE  ClientInv'
<1>1. /\ Followed /\ UNCHANGED <<chat, loads, posted, inside, overtaken>>
      /\ es' = IF es.st = "open" THEN [es EXCEPT !.st = "connecting"] ELSE es
  BY DEF Restart, Fault
<1>2. ServerGoesOn
  BY RestartSteps
<1>3. CASE es.st = "open"
  BY <1>1, <1>2, <1>3, SourceKeeps
<1>4. CASE es.st # "open"
  <2>1. es' = es
    BY <1>1, <1>4
  <2>2. Now
    BY <1>1, ClientNow
  <2> QED BY <1>1, <1>2, <2>1, <2>2, ServerKeepsClient, JointThen DEF Now
<1> QED BY <1>3, <1>4

\* What the server answers to a load, when no delta waits.
LEMMA DetailOK ==
  ASSUME NEW R, Server(R, stored), \A r \in Run : R[r].st = "active" => R[r].buffered = 0
  PROVE  LET x == Detail(R) IN
         /\ x \in ChatType /\ LoadOK(x, R, stored)
         /\ x.run # 0 => x.lastSeq = Len(R[x.run].events)
<1> DEFINE live == {r \in Run : R[r].st = "active"}
           answer == [r \in Run |-> IF r \in live THEN R[r].message ELSE stored[r]]
           x == Detail(R)
<1>1. /\ R \in [Run -> RunType] /\ stored \in [Run -> MessageType]
      /\ \A r \in Run : RunOK(R[r], stored[r])
      /\ \A r, q \in live : r = q
  BY DEF Server
<1>2. answer \in [Run -> MessageType]
  <2>1. \A r \in Run : R[r].message \in MessageType /\ stored[r] \in MessageType
    BY <1>1 DEF RunType
  <2> QED BY <2>1
<1>3. \A q \in Run \ live : answer[q] = stored[q]
  OBVIOUS
<1>4. \A q \in Run : R[q].st = "unused" => stored[q] = Blank
  BY <1>1 DEF RunOK
<1>5. CASE live = {}
  <2>1. x = [EmptyChat EXCEPT !.answer = answer]
    BY <1>5 DEF Detail
  <2> HIDE DEF x, answer
  <2>2. x \in ChatType /\ x.run = 0 /\ x.answer = answer
    BY <1>2, <2>1, EmptyChatType DEF ChatType
  <2>3. \A q \in Run : x.answer[q] = stored[q]
    BY <1>3, <1>5, <2>2
  <2>4. OthersOK(x, R, stored)
    BY <1>4, <2>2, <2>3 DEF OthersOK
  <2>5. LoadOK(x, R, stored)
    BY <2>2, <2>4 DEF LoadOK, ViewAt
  <2> QED BY <2>2, <2>5 DEF x
<1>6. CASE live # {}
  <2> DEFINE r == CHOOSE z \in live : TRUE
  <2>1. r \in live
    BY <1>6
  <2>2. x = [run |-> r, status |-> R[r].status, lastSeq |-> Len(R[r].events), answer |-> answer]
    BY <1>6 DEF Detail
  <2> HIDE DEF x, r
  <2>3. r \in Run /\ R[r].st = "active" /\ R[r].buffered = 0 /\ r # 0 /\ R[r] \in RunType
    BY <1>1, <2>1, StreamAssumption
  <2>4. R[r].events \in Seq(EventType) /\ R[r].status \in RunStatus /\ Len(R[r].events) \in Nat
    BY <2>3 DEF RunType
  <2>5. answer[r] = R[r].message
    BY <2>1, <2>3
  <2> HIDE DEF answer
  <2>6. x \in ChatType /\ x.run = r /\ x.lastSeq = Len(R[r].events) /\ x.status = R[r].status /\ x.answer = answer
    BY <1>2, <2>2, <2>3, <2>4 DEF ChatType
  <2>7. R[r].message = Replay(R[r].events, Len(R[r].events))
    <3> DEFINE m == Replay(R[r].events, Len(R[r].events))
    <3>1. m \in MessageType
      BY <2>4, ReplayType
    <3>2. R[r].message = [m EXCEPT !.text = @ + R[r].buffered]
      BY <1>1, <2>3 DEF RunOK, Good, Base, Explained
    <3> HIDE DEF m
    <3>3. m.text \in Nat /\ m.text + 0 = m.text
      BY <3>1 DEF MessageType
    <3>4. [m EXCEPT !.text = m.text] = m
      BY <3>1 DEF MessageType
    <3>5. R[r].message = [m EXCEPT !.text = m.text + 0]
      BY <2>3, <3>2
    <3> QED BY <3>3, <3>4, <3>5 DEF m
  <2>8. x.status \in {"running", "awaiting_approval"}
    BY <1>1, <2>3, <2>6 DEF RunOK, Good
  <2>9. OthersOK(x, R, stored)
    <3>1. \A q \in Run \ {r} : x.answer[q] = stored[q]
      BY <1>1, <1>3, <2>1, <2>6
    <3> QED BY <1>4, <2>3, <2>6, <2>8, <3>1 DEF OthersOK
  <2>10. ViewAt(x, x.lastSeq, R, stored)
    <3>1. Shows(x.answer[r], R[r], stored[r], Len(R[r].events))
      BY <2>5, <2>6, <2>7 DEF Shows
    <3> QED BY <2>4, <2>6, <2>8, <3>1 DEF ViewAt, Outcome
  <2>11. LoadOK(x, R, stored)
    BY <2>5, <2>6, <2>7, <2>8, <2>9, <2>10 DEF LoadOK
  <2> QED BY <2>6, <2>11 DEF x
<1> QED BY <1>5, <1>6

\* The server answers a load: the answer has all events of its run.
LEMMA GetConversationKeeps ==
  ASSUME ServerInv, ClientInv, NEW i \in DOMAIN loads, GetConversation(i)
  PROVE  ClientInv'
<1> DEFINE x == Detail(run')
           l == [answered |-> TRUE, chat |-> x]
<1>1. /\ Followed /\ run' = [r \in Run |-> IF Active(r) THEN Snapshot(run[r]) ELSE run[r]]
      /\ loads' = [loads EXCEPT ![i] = l]
      /\ UNCHANGED <<stored, chat, es, posted, inside, overtaken>>
  BY DEF GetConversation
<1>2. ServerGoesOn
  BY SnapshotSteps
<1>3. /\ OthersOK(chat, run', stored') /\ ViewAt(chat, Upto(chat, es), run', stored')
      /\ SourceOK(chat, es, run') /\ LastLoadOK(es, loads, run')
      /\ ~inside => chat = EmptyChat
      /\ LoadsOK(loads, run', stored')
      /\ posted # 0 => run'[posted].st # "unused"
  BY <1>1, <1>2, ServerKeepsClient
<1>4. /\ chat \in ChatType /\ es \in SourceType /\ es.seen <= es.recv /\ loads \in Seq(LoadType)
      /\ posted \in Run \cup {0} /\ inside \in BOOLEAN /\ overtaken \in BOOLEAN /\ Server(run, stored)
  BY <1>1, ClientNow DEF Now
<1>5. Server(run', stored)
  BY <1>1, <1>2 DEF ServerGoesOn
<1>6. \A r \in Run : run'[r].st = "active" => run'[r].buffered = 0
  <2> SUFFICES ASSUME NEW r \in Run, run'[r].st = "active" PROVE run'[r].buffered = 0
    OBVIOUS
  <2>1. CASE run[r].st = "active"
    <3>1. run'[r] = Flushed(run[r])
      BY <1>1, <2>1 DEF Active, Snapshot
    <3>2. Flushed(run[r]).buffered = 0
      <4>1. run[r].st # "gone"
        BY <2>1
      <4> QED BY <1>4, <4>1, FlushedSteps
    <3> QED BY <3>1, <3>2
  <2>2. CASE run[r].st # "active"
    BY <1>1, <2>2 DEF Active
  <2> QED BY <2>1, <2>2
<1>7. x \in ChatType /\ LoadOK(x, run', stored) /\ (x.run # 0 => x.lastSeq = Len(run'[x.run].events))
  BY <1>5, <1>6, DetailOK
<1> HIDE DEF x
<1>8. l \in LoadType /\ l.chat = x
  BY <1>7 DEF LoadType
<1> HIDE DEF l
<1>9. /\ loads' \in Seq(LoadType) /\ Len(loads') = Len(loads) /\ Len(loads) \in Nat
      /\ \A j \in 1 .. Len(loads) : loads'[j] = IF j = i THEN l ELSE loads[j]
  BY <1>1, <1>4, <1>8
<1>10. LoadsOK(loads', run', stored')
  <2> SUFFICES ASSUME NEW j \in 1 .. Len(loads'), loads'[j].answered PROVE LoadOK(loads'[j].chat, run', stored')
    BY DEF LoadsOK
  <2> QED BY <1>1, <1>3, <1>7, <1>8, <1>9 DEF LoadsOK
<1>11. LastLoadOK(es, loads', run')
  <2> DEFINE n == Len(loads')
  <2> SUFFICES ASSUME es.sub # 0, es.st = "none", loads' # <<>>, Known(run'[es.sub]),
                      loads'[n].answered, loads'[n].chat.run = es.sub
               PROVE  loads'[n].chat.lastSeq >= es.seen
    BY DEF LastLoadOK
  <2>1. n = Len(loads) /\ n \in 1 .. Len(loads) /\ loads # <<>>
    BY <1>9
  <2> HIDE DEF n
  <2>2. CASE n = i
    <3>1. loads'[n] = l
      BY <1>9, <2>1, <2>2
    <3>2. x.run = es.sub /\ x.lastSeq = Len(run'[es.sub].events)
      BY <1>7, <1>8, <3>1
    <3>3. chat.run = es.sub
      BY <1>3, <1>4, WantedIs DEF SourceOK
    <3>4. Upto(chat, es) <= Len(run'[es.sub].events)
      BY <1>3, <3>3 DEF ViewAt
    <3>5. Len(run'[es.sub].events) \in Nat
      <4>1. es.sub \in Run
        BY <1>4 DEF SourceType
      <4> QED BY <1>5, <4>1 DEF Server, RunType
    <3>6. chat.lastSeq \in Nat /\ es.seen \in Nat
      BY <1>4 DEF ChatType, SourceType
    <3>7. es.seen <= Upto(chat, es) /\ Upto(chat, es) \in Nat
      BY <3>3, <3>6 DEF Upto
    <3>8. es.seen <= Len(run'[es.sub].events)
      BY <3>4, <3>5, <3>6, <3>7
    <3> QED BY <1>8, <3>1, <3>2, <3>5, <3>6, <3>8
  <2>3. CASE n # i
    <3>1. loads'[n] = loads[n]
      BY <1>9, <2>1, <2>3
    <3> QED BY <1>3, <2>1, <3>1 DEF LastLoadOK
  <2> QED BY <2>2, <2>3
<1> QED BY <1>1, <1>3, <1>4, <1>9, <1>10, <1>11, JointThen

\* The invariant of the client holds at the beginning.
LEMMA ClientInit == Init => ClientInv
<1> SUFFICES ASSUME Init PROVE ClientInv
  OBVIOUS
<1>1. ServerInv /\ Server(run, stored)
  BY ServerInit DEF ServerInv
<1>2. /\ run = [r \in Run |-> IF r = First THEN Past ELSE NoRun] /\ First \in Run
      /\ inside \in BOOLEAN /\ es = Unsubscribed /\ loads = <<>> /\ posted = 0 /\ overtaken = FALSE
      /\ chat = IF inside THEN [run |-> First, status |-> "completed", lastSeq |-> 4, answer |-> stored] ELSE EmptyChat
  BY StreamAssumption DEF Init
<1>3. stored \in [Run -> MessageType]
  BY <1>1 DEF Server
<1>4. chat \in ChatType
  <2>1. CASE inside
    <3>1. chat = [run |-> First, status |-> "completed", lastSeq |-> 4, answer |-> stored]
      BY <1>2, <2>1
    <3> QED BY <1>2, <1>3, <3>1 DEF ChatType, RunStatus, Outcome
  <2>2. CASE ~inside
    BY <1>2, <2>2, EmptyChatType
  <2> QED BY <2>1, <2>2
<1>5. es \in SourceType /\ es.seen <= es.recv /\ es.seen = es.recv
  BY <1>2, UnsubscribedType
<1>6. ASSUME NEW r \in Run PROVE ~Known(run[r]) /\ (run[r].st = "unused" => r # First /\ stored[r] = Blank)
  <2>1. CASE r = First
    BY <1>2, <2>1, PastType DEF Known
  <2>2. CASE r # First
    <3>1. run[r] = NoRun /\ run[r].st = "unused"
      BY <1>2, <2>2, NoRunType
    <3>2. stored[r] = Blank
      BY <2>2 DEF Init
    <3> QED BY <2>2, <3>1, <3>2 DEF Known
  <2> QED BY <2>1, <2>2
<1>7. chat.run \in {0, First} /\ (chat.run # 0 => chat.status = "completed")
      /\ \A q \in Run : chat.answer[q] \in {Blank, stored[q]}
  <2>1. CASE inside
    <3>1. chat = [run |-> First, status |-> "completed", lastSeq |-> 4, answer |-> stored]
      BY <1>2, <2>1
    <3> QED BY <3>1
  <2>2. CASE ~inside
    <3>1. chat = EmptyChat
      BY <1>2, <2>2
    <3> QED BY <3>1 DEF EmptyChat
  <2> QED BY <2>1, <2>2
<1>8. OthersOK(chat, run, stored)
  <2>1. run[First].st # "unused"
    BY <1>2, <1>6
  <2> QED BY <1>6, <1>7, <2>1 DEF OthersOK
<1>9. ViewAt(chat, Upto(chat, es), run, stored)
  BY <1>4, <1>6 DEF ViewAt, ChatType
<1>10. Wanted(chat) = 0
  BY <1>4, <1>7, WantedIs
<1>11. SourceOK(chat, es, run) /\ LastLoadOK(es, loads, run)
  BY <1>2, <1>5, <1>10 DEF SourceOK, LastLoadOK, Unsubscribed
<1>12. LoadsOK(loads, run, stored) /\ loads \in Seq(LoadType)
  BY <1>2 DEF LoadsOK
<1>13. ClientOK(chat, es, loads, posted, inside, run, stored)
  BY <1>2, <1>8, <1>9, <1>11, <1>12, ClientIsIn
<1> QED BY <1>2, <1>4, <1>5, <1>12, <1>13 DEF ClientInv, ClientIs, ClientTypes

\* Each step keeps the invariant of the client.
LEMMA ClientNext ==
  ASSUME ServerInv, ClientInv, Next
  PROVE  ClientInv'
<1>1. CASE ClientStep
  BY <1>1, PlaceKeeps, StreamKeeps, StartReturnsKeeps, LoadReturnsKeeps, LoadFailsKeeps DEF ClientStep
<1>2. CASE ServerStep
  BY <1>2, ServerStepKeeps
<1>3. CASE JointStep
  BY <1>3, SendKeeps, ConnectKeeps, RestartKeeps, GetConversationKeeps DEF JointStep
<1> QED BY <1>1, <1>2, <1>3, NextIs

\* The inductive invariant.
IInv == ServerInv /\ ClientInv

\* The inductive invariant holds always.
LEMMA IAlways == Spec => []IInv
<1>1. Init => IInv
  BY ServerInit, ClientInit DEF IInv
<1>2. IInv /\ [Next]_vars => IInv'
  <2> SUFFICES ASSUME IInv, [Next]_vars PROVE IInv'
    OBVIOUS
  <2>1. CASE Next
    BY <2>1, ServerIsInv, ClientNext DEF IInv
  <2>2. CASE UNCHANGED vars
    <3>1. ServerInv'
      BY <2>2, ServerIsInv DEF IInv
    <3>2. UNCHANGED <<run, stored, chat, es, loads, posted, inside, overtaken>>
      BY <2>2 DEF vars, server, client
    <3>3. ClientInv'
      BY <3>2 DEF IInv, ClientInv, ClientTypes, ClientIs
    <3> QED BY <3>1, <3>3 DEF IInv
  <2> QED BY <2>1, <2>2
<1> QED BY <1>1, <1>2, PTL DEF Spec

\* Server and client have their types: the deltas that wait in the buffer of
\* a run stay within the bound of its text, and the client shows no event
\* before it has received it.
THEOREM StreamTypeCorrect == Spec => []TypeOK
<1>1. IInv => TypeOK
  <2> SUFFICES ASSUME IInv PROVE TypeOK
    OBVIOUS
  <2>1. /\ \A r \in Run : run[r] \in RunType /\ RunOK(run[r], stored[r]) /\ stored[r] \in MessageType
        /\ executed \subseteq Call
    BY DEF IInv, ServerInv, Server
  <2>2. ClientTypes
    BY DEF IInv, ClientInv
  <2>3. ASSUME NEW r \in Run
        PROVE  /\ run[r].st \in {"unused", "active", "done", "gone"} /\ run[r].status \in RunStatus
               /\ run[r].buffered \in 0 .. MaxText /\ run[r].approvals \subseteq Call
               /\ run[r].message \in MessageType /\ stored[r] \in MessageType /\ chat.answer[r] \in MessageType
    <3>1. run[r].buffered \in 0 .. MaxText
      <4>1. run[r].buffered \in Nat /\ run[r].buffered <= MaxText
        BY <2>1 DEF RunType, RunOK
      <4> QED BY <4>1, StreamAssumption
    <3>2. chat.answer[r] \in MessageType
      BY <2>2 DEF ClientTypes, ChatType
    <3> QED BY <2>1, <3>1, <3>2 DEF RunType
  <2>4. chat.run \in Run \cup {0} /\ chat.status \in RunStatus \cup {"none"} /\ chat.lastSeq \in Nat
    BY <2>2 DEF ClientTypes, ChatType
  <2>5. /\ es.sub \in Run \cup {0} /\ es.st \in {"none", "connecting", "open"} /\ es.seen <= es.recv
        /\ posted \in Run \cup {0}
    BY <2>2 DEF ClientTypes, SourceType
  <2> QED BY <2>1, <2>3, <2>4, <2>5 DEF TypeOK, MessageType, RunStatus, ToolStatus, ApprovalStatus
<1> QED BY <1>1, IAlways, PTL

\* What the client shows of a run the server knows is what the events of the
\* run give, up to the last one shown, and a run shown as over is shown with
\* the answer that is stored: applyEvent and the subscription neither repeat
\* nor skip an event, whatever is lost, late or out of order.
THEOREM ViewsAreTruthful == Spec => []ViewIsTruthful
<1>1. IInv => ViewIsTruthful
  <2> DEFINE r == chat.run
  <2> SUFFICES ASSUME IInv, r # 0, ~overtaken, run[r].st \in {"active", "done"}
               PROVE  /\ \/ chat.answer[r] = After(r, LastShown(r))
                         \/ run[r].st = "done" /\ LastShown(r) <= 1 /\ chat.answer[r] = stored[r]
                      /\ chat.status \in Outcome => chat.answer[r] = stored[r]
    BY DEF ViewIsTruthful
  <2>1. ViewAt(chat, Upto(chat, es), run, stored)
    BY DEF IInv, ClientInv, ClientIs, ClientOK
  <2>2. Upto(chat, es) = LastShown(r)
    BY DEF Upto, LastShown
  <2> QED BY <2>1, <2>2 DEF ViewAt, Known, Shows, After
<1> QED BY <1>1, IAlways, PTL
=============================================================================
