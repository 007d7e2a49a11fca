---------------------------- MODULE AgentStream ----------------------------
(***************************************************************************)
(* How the console follows a run of the agent: the answer the backend      *)
(* builds on the server, the approvals it waits for, the events every      *)
(* change of it is turned into, and the web client that shows the answer   *)
(* from snapshots it loads and events it receives.                         *)
(*                                                                         *)
(* Server and client are single-threaded.  Between them are the answers to *)
(* the requests that load the conversation, which may arrive late and in   *)
(* any order, the answer to the request that starts a run, and one event   *)
(* stream, whose connection may break and which then goes on behind the    *)
(* last event received.  Cancelling and approving may come from any client *)
(* of the user, so they are actions of the server alone.                   *)
(*                                                                         *)
(* One conversation.  The answer of a run has at most one text block, of   *)
(* which only the length is kept, and for each tool call one tool block    *)
(* and one approval block, of which the status is kept.  User messages,    *)
(* titles, activities, error blocks and calls that need no approval are    *)
(* left out; AgentRuns has the files.                                      *)
(***************************************************************************)
EXTENDS Naturals, Sequences, FiniteSets, SequencesExt

CONSTANTS
  Run,         \* the ids a new run may get: 1, 2, ...
  Call,        \* the tool calls the model may make, each in one run
  Result,      \* what the backend may return, and how a call may end
  First,       \* the first of them
  Talks,       \* bound of the runs whose answers have blocks
  MaxShown,    \* bound of the calls made while the client is at work
  MaxText,     \* bound of how often the text of an answer grows
  MaxQueue,    \* bound of the events received between two frames
  MaxEnters,   \* bound of how often the user comes back to the conversation
  MaxFaults    \* bound of lost connections, failed requests and restarts

ASSUME StreamAssumption ==
  /\ Run \subseteq Nat \ {0} /\ Talks \subseteq Run /\ First \in Run /\ IsFiniteSet(Call)
  /\ Result \subseteq {"completed", "failed"}
  /\ {MaxShown, MaxText, MaxQueue, MaxEnters, MaxFaults} \subseteq Nat

VARIABLES
  run,       \* r -> the run on the server, its answer and its events
  stored,    \* r -> the answer in messages.jsonl
  call,      \* c -> the run of a call and how far it is
  chat,      \* client: the ChatState
  es,        \* client: the effect that subscribes, its EventSource and queue
  loads,     \* client: the requests of load under way
  posted,    \* client: the run whose startRun is not answered yet, or 0
  inside,    \* client: whether the conversation is the selected one
  enters,    \* how often the user came back
  faults,    \* how many faults there were
  executed,  \* history: the calls that were carried out
  overtaken  \* history: whether an older load replaced a newer view

server == <<run, stored, call, executed>>
client == <<chat, es, loads, posted, inside, overtaken>>
bounds == <<enters, faults>>
vars == <<server, client, bounds>>

Outcome == {"completed", "failed", "cancelled"}

\* text is 0 without a text block, else 1 and the length of the text.
Blank == [there |-> FALSE, status |-> "streaming", text |-> 0,
          tool |-> [c \in Call |-> "none"], approval |-> [c \in Call |-> "none"]]

NoRun == [st |-> "unused", status |-> "running", aborted |-> FALSE, buffered |-> 0,
          approvals |-> {}, message |-> Blank, events |-> <<>>]

EmptyChat == [run |-> 0, status |-> "none", lastSeq |-> 0, answer |-> [r \in Run |-> Blank]]

Unsubscribed == [sub |-> 0, st |-> "none", recv |-> 0, seen |-> 0]

Asked == [answered |-> FALSE, chat |-> EmptyChat]

\* A run that is over for long: nothing but its answer is left.
Past == [NoRun EXCEPT !.st = "gone"]

\* The first run of the conversation is over.  The conversation is on the
\* screen, which shows the end of that run, or is not selected.
Init ==
  /\ run = [r \in Run |-> IF r = First THEN Past ELSE NoRun]
  /\ stored = [r \in Run |-> IF r = First THEN [Blank EXCEPT !.there = TRUE, !.status = "completed"] ELSE Blank]
  /\ call = [c \in Call |-> [run |-> 0, phase |-> "none"]]
  /\ inside \in BOOLEAN
  /\ chat = IF inside THEN [run |-> First, status |-> "completed", lastSeq |-> 4, answer |-> stored] ELSE EmptyChat
  /\ es = Unsubscribed /\ loads = <<>> /\ posted = 0
  /\ enters = 0 /\ faults = 0 /\ executed = {} /\ overtaken = FALSE

-----------------------------------------------------------------------------
(* The events of a run: operators on the run s, as RunManager and          *)
(* MessageBuilder change it.                                               *)

RunIs(status) == [kind |-> "run", status |-> status]
MessageIs(m) == [kind |-> "message", message |-> m]
TextCreated == [kind |-> "text created"]
TextUpdated(n) == [kind |-> "text updated", text |-> n]
Delta(n) == [kind |-> "delta", text |-> n]
ToolIs(c, status) == [kind |-> "tool", call |-> c, status |-> status]
ApprovalIs(c, status) == [kind |-> "approval", call |-> c, status |-> status]

Push(s, e) == [s EXCEPT !.events = Append(@, e)]

\* flushDeltas.
Flushed(s) ==
  IF s.buffered = 0 THEN s ELSE [Push(s, Delta(s.buffered)) EXCEPT !.buffered = 0]

\* Mutation of Emit: the deltas before the event stay in the buffer.
EmitAtOnce(s, e) == Push(s, e)

Emit(s, e) == Push(Flushed(s), e)

SetTool(s, c, status) == Emit([s EXCEPT !.message.tool[c] = status], ToolIs(c, status))

SetApproval(s, c, status) == Emit([s EXCEPT !.message.approval[c] = status], ApprovalIs(c, status))

SetStatus(s, status) ==
  IF s.status = status THEN s ELSE Emit([s EXCEPT !.status = status], RunIs(status))

\* Mutation of Requested: a run that is cancelled asks too.
RequestedAnyway(s, c) ==
  [SetStatus(SetApproval(SetTool(s, c, "awaiting_approval"), c, "pending"), "awaiting_approval")
     EXCEPT !.approvals = @ \cup {c}]

\* requestApproval.
Requested(s, c) ==
  IF s.aborted THEN s
  ELSE [SetStatus(SetApproval(SetTool(s, c, "awaiting_approval"), c, "pending"), "awaiting_approval")
          EXCEPT !.approvals = @ \cup {c}]

\* finish of an approval, but for the status of the run.
Answered(s, c, status) ==
  LET a == SetApproval([s EXCEPT !.approvals = @ \ {c}], c, status) IN
  IF status = "cancelled" THEN a
  ELSE SetTool(a, c, IF status = "approved" THEN "running" ELSE "rejected")

\* Mutation of Finished: the other approvals of the run are forgotten.
FinishedAlways(s, c, status) == SetStatus(Answered(s, c, status), "running")

\* finish of an approval.
Finished(s, c, status) ==
  LET t == Answered(s, c, status) IN
  IF t.approvals = {} THEN SetStatus(t, "running") ELSE t

\* The approvals that are pending are finished as cancelled.
Dismissed(s) ==
  LET q == SetToSeq(s.approvals)
      after[i \in 0 .. Len(q)] == IF i = 0 THEN s ELSE Finished(after[i - 1], q[i], "cancelled")
  IN after[Len(q)]

Cancelled(s) == IF s.aborted THEN s ELSE Dismissed([s EXCEPT !.aborted = TRUE])

Open == {"pending", "running", "awaiting_approval"}

\* The tools that did not end when the run does.
Settled(s) ==
  LET q == SetToSeq({c \in Call : s.message.tool[c] \in Open})
      end == IF s.aborted THEN "cancelled" ELSE "failed"
      after[i \in 0 .. Len(q)] == IF i = 0 THEN s ELSE SetTool(after[i - 1], q[i], end)
  IN after[Len(q)]

\* finalize.
Finalized(s, result) ==
  LET final == IF s.aborted THEN "cancelled" ELSE result
      t == Flushed([Settled(Dismissed(s)) EXCEPT !.message.status = final, !.status = final])
  IN [Push(Push(t, MessageIs(t.message)), RunIs(final)) EXCEPT !.st = "done"]

-----------------------------------------------------------------------------
(* The server.                                                             *)

\* A behaviour is not followed further once the view was overtaken.
Followed == ~overtaken

Active(r) == run[r].st = "active"

NextRun == CHOOSE r \in Run : run[r].st = "unused" /\ \A s \in Run : run[s].st = "unused" => r <= s

NewRun ==
  LET m == [Blank EXCEPT !.there = TRUE] IN
  [NoRun EXCEPT !.st = "active", !.message = m, !.events = <<RunIs("running"), MessageIs(m)>>]

Change(r, s) == Followed /\ run' = [run EXCEPT ![r] = s] /\ UNCHANGED <<client, bounds>>

\* The model writes while none of its calls is carried out.
Writing(r) ==
  /\ Active(r) /\ r \in Talks
  /\ \A c \in Call : call[c].run = r => call[c].phase \in {"offered", "ended"}

Away == ~inside /\ loads = <<>> /\ posted = 0

Made == {c \in Call : call[c].phase # "none"}

TextStart(r) ==
  /\ Writing(r) /\ run[r].message.text = 0 /\ MaxText > 0 /\ Made = {}
  /\ Change(r, Emit([run[r] EXCEPT !.message.text = 1], TextCreated))
  /\ UNCHANGED <<stored, call, executed>>

\* appendText: the delta waits in pendingDeltas.
TextDelta(r) ==
  /\ Writing(r) /\ run[r].message.text \in 1 .. MaxText
  /\ Change(r, [run[r] EXCEPT !.message.text = @ + 1, !.buffered = @ + 1])
  /\ UNCHANGED <<stored, call, executed>>

\* text_end with a text the deltas did not give.
TextEnd(r) ==
  /\ Writing(r) /\ run[r].message.text \in 1 .. MaxText
  /\ Change(r, Emit([run[r] EXCEPT !.message.text = @ + 1], TextUpdated(run[r].message.text + 1)))
  /\ UNCHANGED <<stored, call, executed>>

\* The timer of the deltas.
FlushTimer(r) ==
  /\ Active(r) /\ run[r].buffered > 0
  /\ Change(r, Flushed(run[r]))
  /\ UNCHANGED <<stored, call, executed>>

Phase(c, phase) == call' = [call EXCEPT ![c].phase = phase]

\* toolcall_start.
CallOffered(r, c) ==
  /\ Writing(r) /\ call[c].phase = "none"
  /\ run[r].message.text = 0 /\ (Away \/ Cardinality(Made) < MaxShown)
  /\ Change(r, SetTool(run[r], c, "pending"))
  /\ call' = [call EXCEPT ![c] = [run |-> r, phase |-> "offered"]]
  /\ UNCHANGED <<stored, executed>>

In(c, phase) == call[c].phase = phase /\ Active(call[c].run)

\* tool_execution_start.
CallStarts(c) ==
  /\ In(c, "offered")
  /\ Change(call[c].run, SetTool(run[call[c].run], c, "running"))
  /\ Phase(c, "started")
  /\ UNCHANGED <<stored, executed>>

\* The tool asks for its approval and is told at once when the run is cancelled.
CallAsks(c) ==
  /\ In(c, "started")
  /\ Change(call[c].run, Requested(run[call[c].run], c))
  /\ Phase(c, IF c \in Requested(run[call[c].run], c).approvals THEN "asking" ELSE "answered")
  /\ UNCHANGED <<stored, executed>>

\* decideApproval.  A tool that is approved goes on before any other handler.
Decide(c, decision) ==
  /\ In(c, "asking") /\ c \in run[call[c].run].approvals
  /\ Change(call[c].run, Finished(run[call[c].run], c, decision))
  /\ Phase(c, "answered")
  /\ executed' = IF decision = "approved" THEN executed \cup {c} ELSE executed
  /\ UNCHANGED stored

\* tool_execution_end.
CallEnds(c, status) ==
  LET s == run[call[c].run] IN
  /\ In(c, "answered") \/ (In(c, "asking") /\ c \notin s.approvals)
  /\ Change(call[c].run, SetTool(s, c, IF s.message.tool[c] = "rejected" THEN "rejected" ELSE status))
  /\ Phase(c, "ended")
  /\ UNCHANGED <<stored, executed>>

\* cancel of RunManager.
Cancel(r) ==
  /\ Active(r) /\ ~run[r].aborted
  /\ Change(r, Cancelled(run[r]))
  /\ UNCHANGED <<stored, call, executed>>

\* backend.run returns, with calls under way or without.
Finalize(r, result) ==
  /\ Active(r)
  /\ Change(r, Finalized(run[r], result))
  /\ stored' = [stored EXCEPT ![r] = Finalized(run[r], result).message]
  /\ UNCHANGED <<call, executed>>

\* The run r is not known any more.  What the client has in its queue of it
\* is still read from here.
Gone(r) == IF es.sub = r THEN [run[r] EXCEPT !.st = "gone"] ELSE Past

\* The retention of a run that is done is over.
Expire(r) ==
  /\ run[r].st = "done"
  /\ Change(r, Gone(r))
  /\ UNCHANGED <<stored, call, executed>>

-----------------------------------------------------------------------------
(* The client.                                                             *)

\* The answer m with an event of its run.
Apply(m, e) ==
  CASE e.kind = "message" -> e.message
    [] e.kind = "text created" /\ m.there -> [m EXCEPT !.text = 1]
    [] e.kind = "text updated" /\ m.text > 0 -> [m EXCEPT !.text = e.text]
    [] e.kind = "delta" /\ m.text > 0 -> [m EXCEPT !.text = @ + e.text]
    [] e.kind = "tool" /\ m.there -> [m EXCEPT !.tool[e.call] = e.status]
    [] e.kind = "approval" /\ m.there -> [m EXCEPT !.approval[e.call] = e.status]
    [] OTHER -> m

\* Mutation of applyEvent: the number of an event is not compared.
applyEveryEvent(state, r, seq) ==
  LET e == run[r].events[seq] IN
  IF e.kind = "run" THEN [state EXCEPT !.run = r, !.status = e.status, !.lastSeq = seq]
  ELSE [state EXCEPT !.answer[r] = Apply(@, e), !.lastSeq = seq]

applyEvent(state, r, seq) ==
  LET e == run[r].events[seq] IN
  IF state.run = r /\ seq <= state.lastSeq THEN state
  ELSE IF e.kind = "run" THEN [state EXCEPT !.run = r, !.status = e.status, !.lastSeq = seq]
  ELSE [state EXCEPT !.answer[r] = Apply(@, e), !.lastSeq = seq]

\* The queue of events received and not yet shown is applied.
Shown(state, e) ==
  LET after[i \in 0 .. e.recv - e.seen] ==
        IF i = 0 THEN state ELSE applyEvent(after[i - 1], e.sub, e.seen + i)
  IN after[e.recv - e.seen]

isActive(state) == state.run # 0 /\ state.status \in {"running", "awaiting_approval"}

\* What the effect subscribes to.
Wanted(state) == IF isActive(state) THEN state.run ELSE 0

\* Mutation of Subscribed: the EventSource begins at the first event.
SubscribedFromStart(state) ==
  IF Wanted(state) = 0 THEN Unsubscribed
  ELSE [sub |-> state.run, st |-> "connecting", recv |-> 0, seen |-> state.lastSeq]

Subscribed(state) ==
  IF Wanted(state) = 0 THEN Unsubscribed
  ELSE [sub |-> state.run, st |-> "connecting", recv |-> state.lastSeq, seen |-> state.lastSeq]

\* The view becomes state and the effect runs again when its run is another:
\* it closes its EventSource, applies its queue and subscribes, behind the
\* last event of the view it was rendered with.
Render(state, e) ==
  IF Wanted(state) = e.sub THEN chat' = state /\ es' = e
  ELSE LET rest == Shown(state, e) IN
       /\ chat' = rest
       /\ es' = IF Wanted(rest) = Wanted(state) THEN Subscribed(state) ELSE Subscribed(rest)

\* Mutation of Close: the conversation is not loaded.
CloseOnly(e) ==
  /\ Render(Shown(chat, e), [e EXCEPT !.st = "none", !.seen = e.recv])
  /\ UNCHANGED loads

\* onClose.
Close(e) ==
  /\ Render(Shown(chat, e), [e EXCEPT !.st = "none", !.seen = e.recv])
  /\ loads' = Append(loads, Asked)

\* startRun on the server; a conflict changes nothing.
StartRun ==
  /\ Followed
  /\ \A r \in Run : ~Active(r)
  /\ \E r \in Run : run[r].st = "unused"
  /\ run' = [run EXCEPT ![NextRun] = NewRun]

\* The client asks for a run; the answer is on its way.
Send ==
  /\ inside /\ ~isActive(chat) /\ posted = 0
  /\ StartRun
  /\ posted' = NextRun
  /\ UNCHANGED <<stored, call, executed, chat, es, loads, inside, overtaken, bounds>>

\* Another client of the user asks for a run.
SendElsewhere ==
  /\ ~inside /\ StartRun
  /\ UNCHANGED <<stored, call, executed, client, bounds>>

StartReturns ==
  /\ Followed /\ posted # 0
  /\ posted' = 0
  /\ IF inside THEN Render([chat EXCEPT !.run = posted, !.status = "running", !.lastSeq = 0], es)
               ELSE UNCHANGED <<chat, es>>
  /\ overtaken' = (inside /\ es.sub # 0 /\ (es.sub # posted \/ es.seen < chat.lastSeq))
  /\ UNCHANGED <<server, loads, inside, bounds>>

\* The user goes to another conversation.
Leave ==
  /\ Followed /\ inside /\ enters < MaxEnters
  /\ inside' = FALSE
  /\ chat' = EmptyChat /\ es' = Unsubscribed
  /\ UNCHANGED <<server, loads, posted, overtaken, bounds>>

\* The user selects the conversation.
Enter ==
  /\ Followed /\ ~inside /\ enters < MaxEnters /\ Cardinality(Made) <= MaxShown
  /\ inside' = TRUE
  /\ enters' = enters + 1
  /\ loads' = Append(loads, Asked)
  /\ UNCHANGED <<server, chat, es, posted, overtaken, faults>>

\* Mutation of Snapshot: the deltas stay in the buffer.
SnapshotAsIs(s) == s

\* getSnapshot.
Snapshot(s) == Flushed(s)

\* The body of getConversation.
Detail(runs) ==
  LET live == {r \in Run : runs[r].st = "active"}
      answer == [r \in Run |-> IF r \in live THEN runs[r].message ELSE stored[r]]
  IN IF live = {} THEN [EmptyChat EXCEPT !.answer = answer]
     ELSE LET r == CHOOSE x \in live : TRUE IN
          [run |-> r, status |-> runs[r].status, lastSeq |-> Len(runs[r].events), answer |-> answer]

\* The server answers a load.
GetConversation(i) ==
  LET runs == [r \in Run |-> IF Active(r) THEN Snapshot(run[r]) ELSE run[r]] IN
  /\ Followed /\ ~loads[i].answered
  /\ run' = runs
  /\ loads' = [loads EXCEPT ![i] = [answered |-> TRUE, chat |-> Detail(runs)]]
  /\ UNCHANGED <<stored, call, executed, chat, es, posted, inside, overtaken, bounds>>

\* The answers to two loads come in another order, or one comes that has
\* not what the stream of the view brought.
Overtakes(i) ==
  \/ i # 1
  \/ es.st # "none" /\ ~(loads[i].chat.run = es.sub /\ loads[i].chat.lastSeq >= es.seen)
  \/ es.st = "none" /\ es.sub # 0 /\ i < Len(loads)

\* The client has the answer.
LoadReturns(i) ==
  /\ Followed /\ loads[i].answered
  /\ loads' = RemoveAt(loads, i)
  /\ IF inside
       THEN Render(loads[i].chat, es) /\ overtaken' = Overtakes(i)
       ELSE UNCHANGED <<chat, es, overtaken>>
  /\ UNCHANGED <<server, posted, inside, bounds>>

\* Mutation of Connect: the stream goes on with the events to come.
ConnectAtEnd ==
  /\ Followed /\ es.st = "connecting"
  /\ IF run[es.sub].st = "gone" \/ (run[es.sub].st = "done" /\ es.recv = Len(run[es.sub].events))
       THEN Close(es) /\ UNCHANGED run
       ELSE /\ run' = [run EXCEPT ![es.sub] = Flushed(@)]
            /\ es' = [es EXCEPT !.st = "open", !.recv = Len(run'[es.sub].events),
                               !.seen = Len(run'[es.sub].events)]
            /\ UNCHANGED <<chat, loads>>
  /\ UNCHANGED <<stored, call, executed, posted, inside, overtaken, bounds>>

\* streamEvents and subscribe.  A run that is not known, or that has nothing
\* left to say, closes the EventSource.
Connect ==
  /\ Followed /\ es.st = "connecting"
  /\ IF run[es.sub].st = "gone" \/ (run[es.sub].st = "done" /\ es.recv = Len(run[es.sub].events))
       THEN Close(es) /\ UNCHANGED run
       ELSE /\ run' = [run EXCEPT ![es.sub] = Flushed(@)]
            /\ es' = [es EXCEPT !.st = "open"]
            /\ UNCHANGED <<chat, loads>>
  /\ UNCHANGED <<stored, call, executed, posted, inside, overtaken, bounds>>

Terminal(e) == e.kind = "run" /\ e.status \in Outcome

\* An event arrives.  The last one of a run closes the EventSource.
Deliver ==
  /\ Followed /\ es.st = "open" /\ es.recv < Len(run[es.sub].events) /\ es.recv - es.seen < MaxQueue
  /\ IF Terminal(run[es.sub].events[es.recv + 1])
       THEN Close([es EXCEPT !.recv = @ + 1])
       ELSE es' = [es EXCEPT !.recv = @ + 1] /\ UNCHANGED <<chat, loads>>
  /\ UNCHANGED <<server, posted, inside, overtaken, bounds>>

\* The animation frame that shows what is in the queue.
Frame ==
  /\ Followed /\ es.seen < es.recv
  /\ Render(Shown(chat, es), [es EXCEPT !.seen = es.recv])
  /\ UNCHANGED <<server, loads, posted, inside, overtaken, bounds>>

-----------------------------------------------------------------------------
(* Faults.                                                                 *)

Fault == Followed /\ faults < MaxFaults /\ faults' = faults + 1 /\ UNCHANGED enters

\* The connection breaks; the EventSource connects again.
Drop ==
  /\ Fault
  /\ es.st = "open" /\ es' = [es EXCEPT !.st = "connecting"]
  /\ UNCHANGED <<server, chat, loads, posted, inside, overtaken>>

\* A connection is refused with an HTTP error, which an EventSource does not
\* survive.
Refuse ==
  /\ Fault
  /\ es.st = "connecting" /\ Close(es)
  /\ UNCHANGED <<server, posted, inside, overtaken>>

\* load fails: the view is empty.
LoadFails(i) ==
  /\ Fault
  /\ loads' = RemoveAt(loads, i)
  /\ IF inside THEN Render(EmptyChat, es) ELSE UNCHANGED <<chat, es>>
  /\ overtaken' = (inside /\ (i # 1 \/ es.st # "none"))
  /\ UNCHANGED <<server, posted, inside>>

\* The request or the answer of startRun is lost; the run goes on.
StartLost ==
  /\ Fault
  /\ posted # 0 /\ posted' = 0
  /\ UNCHANGED <<server, chat, es, loads, inside, overtaken>>

\* The process dies and is started again: the answer under way is lost, or
\* there as interrupted.
Restart ==
  /\ Fault
  /\ \E r \in Run : Active(r)
  /\ run' = [r \in Run |-> IF run[r].st = "unused" THEN run[r] ELSE Gone(r)]
  /\ \/ UNCHANGED stored
     \/ stored' = [r \in Run |->
          IF Active(r) THEN [run[r].message EXCEPT !.status = "interrupted"] ELSE stored[r]]
  /\ es' = IF es.st = "open" THEN [es EXCEPT !.st = "connecting"] ELSE es
  /\ UNCHANGED <<call, executed, chat, loads, posted, inside, overtaken>>

-----------------------------------------------------------------------------
Backend ==
  \/ \E r \in Run : \/ TextStart(r) \/ TextDelta(r) \/ TextEnd(r)
                    \/ \E c \in Call : CallOffered(r, c)
                    \/ \E result \in Result : Finalize(r, result)
  \/ \E c \in Call : \/ CallStarts(c) \/ CallAsks(c)
                     \/ \E status \in Result : CallEnds(c, status)

UserAction ==
  \/ Send \/ SendElsewhere \/ Leave \/ Enter
  \/ \E r \in Run : Cancel(r)
  \/ \E c \in Call, decision \in {"approved", "rejected"} : Decide(c, decision)

\* What goes on by itself.
Progress ==
  \/ \E r \in Run : FlushTimer(r)
  \/ StartReturns \/ Connect \/ Deliver \/ Frame
  \/ \E i \in DOMAIN loads : GetConversation(i) \/ LoadReturns(i)

FaultAction ==
  Drop \/ Refuse \/ StartLost \/ Restart \/ \E i \in DOMAIN loads : LoadFails(i)

Next ==
  Backend \/ UserAction \/ Progress \/ (\E r \in Run : Expire(r)) \/ FaultAction

Spec == Init /\ [][Next]_vars

\* A timer fires, an answer that is on its way arrives, an EventSource
\* connects again and a frame is drawn.  Nothing is assumed of the backend,
\* the model or the user.
FairSpec == Spec /\ WF_vars(Progress)
-----------------------------------------------------------------------------
(* Properties.                                                             *)

\* Server and client have their types.
TypeOK ==
  LET Message == [there : BOOLEAN, status : Outcome \cup {"streaming", "interrupted"}, text : Nat,
                  tool : [Call -> Outcome \cup Open \cup {"none", "rejected"}],
                  approval : [Call -> {"none", "pending", "approved", "rejected", "cancelled"}]]
      Status == Outcome \cup {"running", "awaiting_approval"}
  IN
  /\ \A r \in Run :
       /\ run[r].st \in {"unused", "active", "done", "gone"} /\ run[r].status \in Status
       /\ run[r].buffered \in 0 .. MaxText /\ run[r].approvals \subseteq Call
       /\ run[r].message \in Message /\ stored[r] \in Message /\ chat.answer[r] \in Message
  /\ chat.run \in Run \cup {0} /\ chat.status \in Status \cup {"none"} /\ chat.lastSeq \in Nat
  /\ es.sub \in Run \cup {0} /\ es.st \in {"none", "connecting", "open"}
  /\ es.seen <= es.recv
  /\ posted \in Run \cup {0} /\ executed \subseteq Call

\* The answer the first n of some events give.
Replay(events, n) ==
  LET replay[i \in 0 .. n] == IF i = 0 THEN Blank ELSE Apply(replay[i - 1], events[i])
  IN replay[n]

\* The answer after the first n events of a run.
After(r, n) == Replay(run[r].events, n)

\* The events of a run and the deltas that wait give its answer: whoever
\* replays the events sees what a snapshot shows.
LogExplainsMessage ==
  \A r \in Run : run[r].st \in {"active", "done"} =>
    LET m == After(r, Len(run[r].events)) IN
    run[r].message = [m EXCEPT !.text = @ + run[r].buffered]

\* A run says that it waits for an approval exactly while one is pending,
\* also when there are several and they are decided in turn, cancelled, or
\* come when the run is cancelled; when it is over nothing is left open.
ApprovalsAreTruthful ==
  \A r \in Run :
    /\ Active(r) =>
         /\ (run[r].status = "awaiting_approval") = (run[r].approvals # {})
         /\ run[r].approvals = {c \in Call : run[r].message.approval[c] = "pending"}
    /\ run[r].st = "done" => \A c \in Call :
         run[r].message.tool[c] \notin Open /\ run[r].message.approval[c] # "pending"

\* Nothing that needs an approval is carried out once its run is cancelled.
NothingExecutedAfterCancel ==
  [][\A c \in executed' \ executed : ~run[call[c].run].aborted]_vars

\* The number of the last event of a run in the view.
LastShown(r) == IF es.sub = r /\ es.seen > chat.lastSeq THEN es.seen ELSE chat.lastSeq

\* The answer of a run on the screen is what its events up to the last one
\* shown give: nothing is repeated or skipped by a reconnection, a load or a
\* late answer to startRun, unless a load overtook the stream.  Only a run
\* that is over when startRun is answered is shown by the answer that is
\* stored, until its events replace it.  One that is shown as over is the one
\* that is stored.
ViewIsTruthful ==
  LET r == chat.run IN
  r # 0 /\ ~overtaken /\ run[r].st \in {"active", "done"} =>
    /\ \/ chat.answer[r] = After(r, LastShown(r))
       \/ run[r].st = "done" /\ LastShown(r) <= 1 /\ chat.answer[r] = stored[r]
    /\ chat.status \in Outcome => chat.answer[r] = stored[r]

\* The EventSource was closed for good and the load that followed found the
\* run still active.
Detached == es.sub # 0 /\ es.st = "none" /\ loads = <<>>

\* What keeps a view from following its run.
Disturbed == ~inside \/ overtaken \/ Detached \/ chat = EmptyChat

\* A view of a run that is over comes to show the answer that is stored, and
\* that the run is over, whether the end came by the stream, by a load or by
\* a restart.
ViewSettles ==
  \A r \in Talks :
    (inside /\ chat.run = r /\ ~Active(r)) ~>
      (Disturbed \/ (~isActive(chat) /\ chat.answer[r] = stored[r]))

\* A call whose approval is asked for and not answered.
Waits(c) == \E r \in Run : Active(r) /\ c \in run[r].approvals

\* An approval a run waits for comes to be shown in the view of the run.
ApprovalIsShown ==
  \A c \in Call :
    (inside /\ chat.run = call[c].run /\ Waits(c)) ~>
      (Disturbed \/ ~Waits(c) \/ \E r \in Run : chat.answer[r].approval[c] = "pending")
=============================================================================
