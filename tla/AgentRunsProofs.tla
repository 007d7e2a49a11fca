-------------------------- MODULE AgentRunsProofs --------------------------
(***************************************************************************)
(* Proofs about AgentRuns, for any conversations, any runs and any number  *)
(* of failed writes and deaths of the process: its variables keep their    *)
(* types, the runs of a conversation never overlap, what the clients were  *)
(* told of the end of a run is stored, what is deleted stays deleted, an   *)
(* answer is repeated only by the recovery, a title the user was told is   *)
(* set stays, the checkpoints are kept, and the transcript is in order.    *)
(*                                                                         *)
(* ReportedIsStored is not inductive: that finalize may report a run rests *)
(* on what its earlier steps have done, and that nothing is stored twice   *)
(* on what a checkpoint left on disk may be of.  The invariant IInv says   *)
(* for each handler what is done already, given what it has still to do    *)
(* (JobOK), who holds a conversation (OwnerOK), what the lines and the     *)
(* checkpoint of a conversation may be of (LogOK), and what is stored of   *)
(* a run (RunOK): the answer of a run that is running is not stored and    *)
(* the next line would be readable, until finalize has appended it.  The   *)
(* other theorems add their own parts to it: DelOK and DirOK, RepeatOK,    *)
(* TitleOK, HeldOK and SavedOK, and OrderOK.                               *)
(***************************************************************************)
EXTENDS AgentRuns, SequenceTheorems, TLAPS

-----------------------------------------------------------------------------
(* What a handler has still to do.                                         *)

BeforeUser ==
  {CreateSteps, <<"user", "count", "activate", "title", "launch">>,
   <<"user", "count", "activate", "launch">>}

AfterUser ==
  {<<"count", "activate", "title", "launch">>, <<"count", "activate", "launch">>,
   <<"activate", "title", "launch">>, <<"activate", "launch">>}

AfterActivate == {<<"title", "launch">>, <<"launch">>}

BeforeAnswer == {<<"answer", "count", "clear", "inactive", "finish">>}

AfterAnswer ==
  {<<"count", "clear", "inactive", "finish">>, <<"clear", "inactive", "finish">>}

AfterClear == {<<"inactive", "finish">>, <<"finish">>}

WithoutAnswer == {<<"clear", "finish">>, <<"finish">>}

BeforeForget == {<<"new", "forget", "remove">>, DeleteSteps}

AfterForget == {<<"remove">>}

BeforeClear ==
  {<<"count", "clear", "inactive">>, <<"count", "clear">>, <<"clear", "inactive">>, <<"clear">>}

Recovery ==
  {<<"recover", "count", "clear", "inactive">>, <<"recover", "count", "clear">>}

\* No answer of r is stored, and the next line is readable.
Clean(r) ==
  run[r].c \in removing \/ (Answers(run[r].c, r) = {} /\ ~torn[run[r].c])

\* The answer of r is stored with the outcome o.
Stored(r, o) ==
  \/ run[r].c \in removing
  \/ \E i \in DOMAIN log[run[r].c] :
       /\ Answers(run[r].c, r) = {i}
       /\ log[run[r].c][i].readable /\ log[run[r].c][i].status = o

Of(st) == job.r \in Run /\ run[job.r].st = st /\ run[job.r].c = job.c

Starting ==
  /\ job.op \in {"create", "start"} /\ Of("accepted") /\ active[job.c] = 0
  /\ Answers(job.c, job.r) = {}
  /\ (job.todo # CreateSteps => conv[job.c].there)
  /\ \/ job.todo \in BeforeUser
     \/ job.todo \in AfterUser /\ Clean(job.r)

Launching ==
  /\ job.op \in {"create", "start"} /\ Of("accepted") /\ active[job.c] = job.r
  /\ conv[job.c].there
  /\ job.todo \in AfterActivate /\ Clean(job.r)

Finalizing ==
  /\ job.op = "finalize" /\ Of("running")
  /\ \/ job.todo \in BeforeAnswer /\ Clean(job.r)
     \/ job.todo \in AfterAnswer /\ Stored(job.r, run[job.r].final)
     \/ job.todo \in AfterClear /\ Stored(job.r, run[job.r].final) /\ pending[job.c] = 0
     \/ job.todo \in WithoutAnswer /\ job.c \in removing

Removing ==
  /\ job.op \in {"create", "delete"}
  /\ job.op = "create" /\ job.r # 0 =>
       job.r \in Run /\ run[job.r].c = job.c /\ run[job.r].st \in {"stuck", "gone"}
  /\ job.todo \in BeforeForget \/ (job.todo \in AfterForget /\ job.c \in removing)

Saving ==
  \/ job.op \in {"rename", "name"} /\ job.todo = <<"save">>
  \/ job.op = "persist" /\ job.todo = <<"checkpoint">> /\ Of("running")

Recovering ==
  /\ job.op = "init"
  /\ \/ job.todo \in Recovery /\ pending[job.c] # 0
     \/ job.todo \in BeforeClear \cup {<<"inactive">>}

JobOK ==
  \/ job.todo = <<>>
  \/ up = "serving" /\ (Starting \/ Launching \/ Finalizing \/ Removing \/ Saving)
  \/ up = "init" /\ Recovering

\* Who holds a conversation.
OwnerOK ==
  /\ \A r \in Run :
       /\ run[r].st \in {"running", "stuck"} => active[run[r].c] = r
       /\ run[r].st = "accepted" => job.r = r /\ (Starting \/ Launching)
  /\ \A c \in Conversation : active[c] # 0 => run[active[c]].c = c /\ Live(active[c])
  /\ up # "serving" => \A r \in Run : ~Live(r)

LogOK ==
  \A c \in Conversation :
    /\ \A i \in DOMAIN log[c] : run[log[c][i].run].c = c /\ run[log[c][i].run].st # "unused"
    /\ pending[c] # 0 =>
         /\ run[pending[c]].c = c /\ run[pending[c]].st # "unused"
         /\ c \in removing \/ reported[pending[c]] = "no"

RunOK ==
  \A r \in Run :
    /\ reported[r] # "no" => run[r].st \in {"done", "gone"} /\ Stored(r, reported[r])
    /\ run[r].st = "running" =>
         /\ conv[run[r].c].there \/ run[r].c \in removing
         /\ (Finalizing /\ job.r = r) \/ Clean(r)

EntryType ==
  [there : BOOLEAN, title : {"default", "fallback", "generated", "own"}, activeRun : Run \cup {0}]

MessageType ==
  [run : Run, role : {"user", "assistant"}, status : Outcome \cup {"interrupted"}, readable : BOOLEAN]

RunType ==
  [st : {"unused", "accepted", "running", "stuck", "done", "gone"}, c : Conversation,
   aborted : BOOLEAN, dirty : BOOLEAN, final : Outcome, naming : BOOLEAN]

DiskTypes ==
  /\ meta \in [Conversation -> EntryType]
  /\ log \in [Conversation -> Seq(MessageType)] /\ torn \in [Conversation -> BOOLEAN]
  /\ pending \in [Conversation -> Run \cup {0}]

MemoryTypes ==
  /\ conv \in [Conversation -> EntryType] /\ active \in [Conversation -> Run \cup {0}]
  /\ run \in [Run -> RunType]
  /\ up \in {"down", "init", "serving"} /\ deleting \subseteq Conversation

JobTypes ==
  /\ job = [op |-> job.op, c |-> job.c, r |-> job.r, todo |-> job.todo]
  /\ job.c \in Conversation /\ job.r \in Run \cup {0}
  /\ job.op \in {"none", "create", "start", "persist", "finalize", "rename", "name", "delete", "init"}

Types ==
  DiskTypes /\ MemoryTypes /\ JobTypes /\ reported \in [Run -> Outcome \cup {"no"}]

IInv == Types /\ JobOK /\ OwnerOK /\ LogOK /\ RunOK

\* What the backend writes is apart from this: no other file depends on it.
WorkType == work \in [Conversation -> BOOLEAN]

-----------------------------------------------------------------------------
(* The first step of what a handler has to do, and what is left behind it. *)

\* startRun, until the message of the user is appended; a conversation may be created first.
LEMMA BeforeUserSteps ==
  ASSUME NEW s \in BeforeUser
  PROVE  /\ s # <<>>
         /\ \/ s = CreateSteps /\ Head(s) = "new"
               /\ Tail(s) \in BeforeUser /\ Tail(s) # CreateSteps
            \/ s # CreateSteps /\ Head(s) = "user" /\ Tail(s) \in AfterUser
<1>1. CASE s = CreateSteps
  BY <1>1 DEF BeforeUser, CreateSteps
<1>2. CASE s = <<"user", "count", "activate", "title", "launch">>
  BY <1>2 DEF AfterUser, CreateSteps
<1>3. CASE s = <<"user", "count", "activate", "launch">>
  BY <1>3 DEF AfterUser, CreateSteps
<1> QED BY <1>1, <1>2, <1>3 DEF BeforeUser

\* startRun, until the run is active.
LEMMA AfterUserSteps ==
  ASSUME NEW s \in AfterUser
  PROVE  /\ s # <<>> /\ s # CreateSteps
         /\ \/ Head(s) = "count" /\ Tail(s) \in AfterUser
            \/ Head(s) = "activate" /\ Tail(s) \in AfterActivate
<1>1. CASE s = <<"count", "activate", "title", "launch">>
  BY <1>1 DEF AfterUser, CreateSteps
<1>2. CASE s = <<"count", "activate", "launch">>
  BY <1>2 DEF AfterUser, CreateSteps
<1>3. CASE s = <<"activate", "title", "launch">>
  BY <1>3 DEF AfterActivate, CreateSteps
<1>4. CASE s = <<"activate", "launch">>
  BY <1>4 DEF AfterActivate, CreateSteps
<1> QED BY <1>1, <1>2, <1>3, <1>4 DEF AfterUser

\* startRun, until the backend is called.
LEMMA AfterActivateSteps ==
  ASSUME NEW s \in AfterActivate
  PROVE  /\ s # <<>>
         /\ \/ Head(s) = "title" /\ Tail(s) \in AfterActivate
            \/ Head(s) = "launch" /\ Tail(s) = <<>>
<1>1. CASE s = <<"title", "launch">>
  BY <1>1 DEF AfterActivate
<1>2. CASE s = <<"launch">>
  BY <1>2
<1> QED BY <1>1, <1>2 DEF AfterActivate

\* finalize begins with the answer.
LEMMA BeforeAnswerSteps ==
  ASSUME NEW s \in BeforeAnswer
  PROVE  s # <<>> /\ Head(s) = "answer" /\ Tail(s) \in AfterAnswer
<1>1. s = <<"answer", "count", "clear", "inactive", "finish">>
  BY DEF BeforeAnswer
<1> QED BY <1>1 DEF AfterAnswer

\* finalize, until the checkpoint is taken away.
LEMMA AfterAnswerSteps ==
  ASSUME NEW s \in AfterAnswer
  PROVE  /\ s # <<>>
         /\ \/ Head(s) = "count" /\ Tail(s) \in AfterAnswer
            \/ Head(s) = "clear" /\ Tail(s) \in AfterClear
<1>1. CASE s = <<"count", "clear", "inactive", "finish">>
  BY <1>1 DEF AfterAnswer
<1>2. CASE s = <<"clear", "inactive", "finish">>
  BY <1>2 DEF AfterClear
<1> QED BY <1>1, <1>2 DEF AfterAnswer

\* finalize, until the clients are told.
LEMMA AfterClearSteps ==
  ASSUME NEW s \in AfterClear
  PROVE  /\ s # <<>>
         /\ \/ Head(s) = "inactive" /\ Tail(s) \in AfterClear
            \/ Head(s) = "finish" /\ Tail(s) = <<>>
<1>1. CASE s = <<"inactive", "finish">>
  BY <1>1 DEF AfterClear
<1>2. CASE s = <<"finish">>
  BY <1>2
<1> QED BY <1>1, <1>2 DEF AfterClear

\* finalize of a conversation that is gone.
LEMMA WithoutAnswerSteps ==
  ASSUME NEW s \in WithoutAnswer
  PROVE  /\ s # <<>>
         /\ \/ Head(s) = "clear" /\ Tail(s) \in WithoutAnswer
            \/ Head(s) = "finish" /\ Tail(s) = <<>>
<1>1. CASE s = <<"clear", "finish">>
  BY <1>1 DEF WithoutAnswer
<1>2. CASE s = <<"finish">>
  BY <1>2
<1> QED BY <1>1, <1>2 DEF WithoutAnswer

\* A removal, until the conversation is forgotten.
LEMMA BeforeForgetSteps ==
  ASSUME NEW s \in BeforeForget
  PROVE  /\ s # <<>>
         /\ \/ Head(s) = "new" /\ Tail(s) \in BeforeForget
            \/ Head(s) = "forget" /\ Tail(s) \in AfterForget
<1>1. CASE s = <<"new", "forget", "remove">>
  BY <1>1 DEF BeforeForget, DeleteSteps
<1>2. CASE s = DeleteSteps
  BY <1>2 DEF AfterForget, DeleteSteps
<1> QED BY <1>1, <1>2 DEF BeforeForget

\* A removal, until the files are gone.
LEMMA AfterForgetSteps ==
  ASSUME NEW s \in AfterForget
  PROVE  s # <<>> /\ Head(s) = "remove" /\ Tail(s) = <<>>
<1>1. s = <<"remove">>
  BY DEF AfterForget
<1> QED BY <1>1

\* The recovery of a checkpoint begins with its message.
LEMMA RecoverySteps ==
  ASSUME NEW s \in Recovery
  PROVE  s # <<>> /\ Head(s) = "recover" /\ Tail(s) \in BeforeClear
<1>1. CASE s = <<"recover", "count", "clear", "inactive">>
  BY <1>1 DEF BeforeClear
<1>2. CASE s = <<"recover", "count", "clear">>
  BY <1>2 DEF BeforeClear
<1> QED BY <1>1, <1>2 DEF Recovery

\* The recovery, until the checkpoint is taken away.
LEMMA BeforeClearSteps ==
  ASSUME NEW s \in BeforeClear
  PROVE  /\ s # <<>>
         /\ \/ Head(s) = "count" /\ Tail(s) \in BeforeClear
            \/ Head(s) = "clear" /\ Tail(s) \in {<<"inactive">>, <<>>}
<1>1. CASE s = <<"count", "clear", "inactive">>
  BY <1>1 DEF BeforeClear
<1>2. CASE s = <<"count", "clear">>
  BY <1>2 DEF BeforeClear
<1>3. CASE s = <<"clear", "inactive">>
  BY <1>3
<1>4. CASE s = <<"clear">>
  BY <1>4
<1> QED BY <1>1, <1>2, <1>3, <1>4 DEF BeforeClear

\* Handlers of one step.
LEMMA SingleSteps ==
  /\ <<"save">> # <<>> /\ Head(<<"save">>) = "save" /\ Tail(<<"save">>) = <<>>
  /\ <<"checkpoint">> # <<>> /\ Head(<<"checkpoint">>) = "checkpoint" /\ Tail(<<"checkpoint">>) = <<>>
  /\ <<"inactive">> # <<>> /\ Head(<<"inactive">>) = "inactive" /\ Tail(<<"inactive">>) = <<>>
OBVIOUS

-----------------------------------------------------------------------------
(* Types.                                                                  *)

\* The types of the invariant are those of TypeOK.
LEMMA TypeParts == Types /\ WorkType => TypeOK
BY DEF WorkType, Types, DiskTypes, MemoryTypes, JobTypes, TypeOK, EntryType, MessageType, RunType

\* The values of Init have their types.
LEMMA StartTypes ==
  /\ None \in EntryType /\ Idle.c \in Conversation /\ NoRun \in RunType
  /\ Idle = [op |-> "none", c |-> Idle.c, r |-> 0, todo |-> <<>>]
<1>1. (CHOOSE c \in Conversation : TRUE) \in Conversation
  BY RunsAssumption
<1>2. Idle.c \in Conversation /\ Idle = [op |-> "none", c |-> Idle.c, r |-> 0, todo |-> <<>>]
  BY <1>1 DEF Idle
<1>3. None \in EntryType
  BY DEF None, EntryType
<1> QED BY <1>2, <1>3 DEF NoRun, RunType, Outcome

\* A line of a conversation is a message.
LEMMA LineTypes ==
  ASSUME DiskTypes, NEW c \in Conversation, NEW i \in DOMAIN log[c]
  PROVE  log[c][i] \in MessageType
<1>1. log[c] \in Seq(MessageType)
  BY DEF DiskTypes
<1> QED BY <1>1

\* A handler begins.
LEMMA BeginType ==
  ASSUME NEW op \in {"none", "create", "start", "persist", "finalize", "rename", "name", "delete", "init"},
         NEW c \in Conversation, NEW r \in Run \cup {0}, NEW todo, Begin(op, c, r, todo)
  PROVE  /\ JobTypes'
         /\ job'.op = op /\ job'.c = c /\ job'.r = r /\ job'.todo = todo
BY DEF Begin, JobTypes

\* A handler goes on.
LEMMA ContinueType ==
  ASSUME JobTypes, Continue
  PROVE  /\ JobTypes'
         /\ job'.op = job.op /\ job'.c = job.c /\ job'.r = job.r /\ job'.todo = Tail(job.todo)
BY DEF Continue, JobTypes

\* A line is added to a conversation.
LEMMA AppendType ==
  ASSUME DiskTypes, NEW c \in Conversation, NEW m \in MessageType,
         log' = [log EXCEPT ![c] = Append(@, m)],
         torn' = [torn EXCEPT ![c] = FALSE],
         UNCHANGED <<meta, pending>>
  PROVE  DiskTypes'
<1>1. Append(log[c], m) \in Seq(MessageType)
  BY DEF DiskTypes
<1> QED BY <1>1 DEF DiskTypes

\* What a handler saves is a conversation, there when it was there before.
LEMMA PreparedType ==
  ASSUME MemoryTypes, JobTypes
  PROVE  Prepared \in EntryType /\ Prepared.there = conv[job.c].there
<1>1. conv[job.c] \in EntryType
  BY DEF MemoryTypes, JobTypes
<1>2. \A e \in EntryType, r \in Run \cup {0} :
        [e EXCEPT !.activeRun = r] \in EntryType /\ [e EXCEPT !.activeRun = r].there = e.there
  BY DEF EntryType
<1>3. \A e \in EntryType : [e EXCEPT !.title = "fallback"] \in EntryType
                           /\ [e EXCEPT !.title = "fallback"].there = e.there
  BY DEF EntryType
<1>4. 0 \in Run \cup {0} /\ job.r \in Run \cup {0}
  BY DEF JobTypes
<1> QED BY <1>1, <1>2, <1>3, <1>4 DEF Prepared

-----------------------------------------------------------------------------
(* Handlers that begin: they change flags of a run and titles, and what    *)
(* there is to do.                                                         *)

SameRuns == \A r \in Run : run'[r].st = run[r].st /\ run'[r].c = run[r].c

SameThere == \A c \in Conversation : conv'[c].there = conv[c].there

SameRest == UNCHANGED <<log, torn, pending, up, active, reported, removing>>

\* A step that only changes flags, titles and the handler keeps the invariant.
LEMMA QuietStep ==
  ASSUME IInv, Free, SameRuns, SameThere, SameRest, JobOK', Types'
  PROVE  IInv'
<1>1. OwnerOK'
  <2>1. \A r \in Run : run[r].st # "accepted"
    BY BeforeUserSteps, AfterUserSteps, AfterActivateSteps
       DEF IInv, OwnerOK, Free, Starting, Launching
  <2>2. \A r \in Run : run'[r].st \in {"running", "stuck"} => active'[run'[r].c] = r
    BY DEF IInv, OwnerOK, SameRuns, SameRest
  <2>3. \A c \in Conversation : active'[c] # 0 => run'[active'[c]].c = c /\ Live(active[c])'
    <3> SUFFICES ASSUME NEW c \in Conversation, active[c] # 0
        PROVE  run'[active[c]].c = c /\ run'[active[c]].st \in {"accepted", "running", "stuck"}
      BY DEF SameRest, Live
    <3>1. active[c] \in Run
      BY DEF IInv, Types, MemoryTypes
    <3> QED BY <3>1 DEF IInv, OwnerOK, SameRuns, Live
  <2>4. up' # "serving" => \A r \in Run : ~Live(r)'
    BY DEF IInv, OwnerOK, SameRuns, SameRest, Live
  <2>5. \A r \in Run : run'[r].st # "accepted"
    BY <2>1 DEF SameRuns
  <2> QED BY <2>2, <2>3, <2>4, <2>5 DEF OwnerOK
<1>2. LogOK'
  <2> SUFFICES ASSUME NEW c \in Conversation
      PROVE  /\ \A i \in DOMAIN log[c] : run'[log[c][i].run].c = c /\ run'[log[c][i].run].st # "unused"
             /\ pending[c] # 0 =>
                  /\ run'[pending[c]].c = c /\ run'[pending[c]].st # "unused"
                  /\ c \in removing \/ reported[pending[c]] = "no"
    BY DEF LogOK, SameRest
  <2>1. \A i \in DOMAIN log[c] : log[c][i].run \in Run
    BY LineTypes DEF IInv, Types, MessageType
  <2>2. pending[c] \in Run \cup {0}
    BY DEF IInv, Types, DiskTypes
  <2> QED BY <2>1, <2>2 DEF IInv, LogOK, SameRuns
<1>3. RunOK'
  <2> SUFFICES ASSUME NEW r \in Run
      PROVE  /\ reported[r] # "no" => run'[r].st \in {"done", "gone"} /\ Stored(r, reported[r])'
             /\ run'[r].st = "running" =>
                  (conv'[run'[r].c].there \/ run'[r].c \in removing') /\ Clean(r)'
    BY DEF RunOK, SameRest
  <2>1. run[r].c \in Conversation /\ run'[r].c = run[r].c /\ run'[r].st = run[r].st
    BY DEF IInv, Types, MemoryTypes, RunType, SameRuns
  <2>2. ~Finalizing
    BY BeforeAnswerSteps, AfterAnswerSteps, AfterClearSteps, WithoutAnswerSteps DEF Finalizing, Free
  <2>3. Stored(r, reported[r]) => Stored(r, reported[r])'
    BY <2>1 DEF Stored, Answers, SameRest
  <2>4. Clean(r) => Clean(r)'
    BY <2>1 DEF Clean, Answers, SameRest
  <2> QED BY <2>1, <2>2, <2>3, <2>4 DEF IInv, RunOK, SameThere, SameRest
<1> QED BY <1>1, <1>2, <1>3 DEF IInv

\* A flag of a run changes, or what it ends with.
LEMMA FlagStep ==
  ASSUME MemoryTypes, NEW r \in Run, NEW x \in RunType, x.st = run[r].st, x.c = run[r].c,
         run' = [run EXCEPT ![r] = x], UNCHANGED <<up, conv, active, deleting>>
  PROVE  MemoryTypes' /\ SameRuns /\ SameThere /\ run'[r] = x
BY DEF MemoryTypes, SameRuns, SameThere

\* Change keeps the invariant.
LEMMA ChangeStep ==
  ASSUME IInv, NEW r \in Run, Change(r)
  PROVE  IInv'
<1>1. run[r] \in RunType /\ [run[r] EXCEPT !.dirty = TRUE] \in RunType
      /\ [run[r] EXCEPT !.dirty = TRUE].st = run[r].st /\ [run[r] EXCEPT !.dirty = TRUE].c = run[r].c
  BY DEF IInv, Types, MemoryTypes, RunType
<1>2. run' = [run EXCEPT ![r] = [run[r] EXCEPT !.dirty = TRUE]]
  BY DEF Change, IInv, Types, MemoryTypes
<1>3. Free /\ SameRest /\ job' = job /\ UNCHANGED <<meta, up, conv, active, deleting>>
  BY DEF Change, SameRest, disk, history
<1>4. MemoryTypes' /\ SameRuns /\ SameThere
  BY <1>1, <1>2, <1>3, FlagStep DEF IInv, Types
<1>5. Types'
  BY <1>3, <1>4 DEF IInv, Types, DiskTypes, JobTypes, SameRest
<1>6. JobOK'
  BY <1>3 DEF JobOK, Free
<1> QED BY <1>3, <1>4, <1>5, <1>6, QuietStep

\* WriteWork keeps the invariant.
LEMMA WriteWorkStep ==
  ASSUME IInv, NEW r \in Run, WriteWork(r)
  PROVE  IInv'
<1>1. Free /\ SameRest /\ UNCHANGED <<meta, up, run, conv, active, deleting, job>>
  BY DEF WriteWork, SameRest, memory, history
<1>2. Types' /\ SameRuns /\ SameThere
  BY <1>1 DEF IInv, Types, DiskTypes, MemoryTypes, JobTypes, SameRest, SameRuns, SameThere
<1>3. JobOK'
  BY <1>1 DEF JobOK, Free
<1> QED BY <1>1, <1>2, <1>3, QuietStep

\* Cancel keeps the invariant.
LEMMA CancelStep ==
  ASSUME IInv, NEW r \in Run, Cancel(r)
  PROVE  IInv'
<1>1. run[r] \in RunType /\ [run[r] EXCEPT !.aborted = TRUE] \in RunType
      /\ [run[r] EXCEPT !.aborted = TRUE].st = run[r].st /\ [run[r] EXCEPT !.aborted = TRUE].c = run[r].c
  BY DEF IInv, Types, MemoryTypes, RunType
<1>2. run' = [run EXCEPT ![r] = [run[r] EXCEPT !.aborted = TRUE]]
  BY DEF Cancel, IInv, Types, MemoryTypes
<1>3. Free /\ SameRest /\ job' = job /\ UNCHANGED <<meta, up, conv, active, deleting>>
  BY DEF Cancel, SameRest, disk, history
<1>4. MemoryTypes' /\ SameRuns /\ SameThere
  BY <1>1, <1>2, <1>3, FlagStep DEF IInv, Types
<1>5. Types'
  BY <1>3, <1>4 DEF IInv, Types, DiskTypes, JobTypes, SameRest
<1>6. JobOK'
  BY <1>3 DEF JobOK, Free
<1> QED BY <1>3, <1>4, <1>5, <1>6, QuietStep

\* Persist keeps the invariant: the run of a checkpoint is running.
LEMMA PersistStep ==
  ASSUME IInv, NEW r \in Run, Persist(r)
  PROVE  IInv'
<1>1. run[r] \in RunType /\ [run[r] EXCEPT !.dirty = FALSE] \in RunType
      /\ [run[r] EXCEPT !.dirty = FALSE].st = run[r].st /\ [run[r] EXCEPT !.dirty = FALSE].c = run[r].c
      /\ run[r].c \in Conversation
  BY DEF IInv, Types, MemoryTypes, RunType
<1>2. run' = [run EXCEPT ![r] = [run[r] EXCEPT !.dirty = FALSE]]
  BY DEF Persist, IInv, Types, MemoryTypes
<1>3. Free /\ SameRest /\ UNCHANGED <<meta, up, conv, active, deleting>> /\ run[r].st = "running"
  BY DEF Persist, SameRest, disk, history
<1>4. MemoryTypes' /\ SameRuns /\ SameThere
  BY <1>1, <1>2, <1>3, FlagStep DEF IInv, Types
<1>5. JobTypes' /\ JobOK'
  <2>1. CASE conv[run[r].c].there
    <3>1. job' = [op |-> "persist", c |-> run[r].c, r |-> r, todo |-> <<"checkpoint">>]
      BY <2>1 DEF Persist
    <3>2. JobTypes'
      BY <1>1, <3>1 DEF JobTypes
    <3>3. Saving'
      BY <3>1, <1>3, <1>4 DEF Saving, Of, SameRuns
    <3> QED BY <3>2, <3>3, <1>3 DEF JobOK, Free
  <2>2. CASE ~conv[run[r].c].there
    BY <2>2, <1>3 DEF Persist, JobOK, Free, JobTypes, IInv, Types
  <2> QED BY <2>1, <2>2
<1>6. Types'
  BY <1>3, <1>4, <1>5 DEF IInv, Types, DiskTypes, SameRest
<1> QED BY <1>3, <1>4, <1>5, <1>6, QuietStep

\* BackendReturns keeps the invariant: no answer of the run is stored yet.
LEMMA BackendReturnsStep ==
  ASSUME IInv, NEW r \in Run, NEW result \in {"completed", "failed"}, BackendReturns(r, result)
  PROVE  IInv'
<1> DEFINE o == IF run[r].aborted THEN "cancelled" ELSE result
           x == [run[r] EXCEPT !.dirty = FALSE, !.final = o]
           c == run[r].c
<1>1. run[r] \in RunType /\ x \in RunType /\ x.st = run[r].st /\ x.c = c /\ c \in Conversation
  BY DEF IInv, Types, MemoryTypes, RunType, Outcome
<1>2. run' = [run EXCEPT ![r] = x]
  BY DEF BackendReturns, IInv, Types, MemoryTypes
<1>3. /\ Free /\ SameRest /\ UNCHANGED <<meta, up, conv, active, deleting>> /\ run[r].st = "running"
      /\ Begin("finalize", c, r, FinalSteps(c))
  BY DEF BackendReturns, SameRest, disk, history
<1>4. MemoryTypes' /\ SameRuns /\ SameThere
  BY <1>1, <1>2, <1>3, FlagStep DEF IInv, Types
<1>5. JobTypes' /\ job'.op = "finalize" /\ job'.c = c /\ job'.r = r /\ job'.todo = FinalSteps(c)
  BY <1>1, <1>3, BeginType
<1>6. Finalizing'
  <2>1. Of("running")'
    BY <1>3, <1>4, <1>5 DEF Of, SameRuns
  <2>2. CASE conv[c].there
    <3>1. job'.todo \in BeforeAnswer
      BY <2>2, <1>5 DEF FinalSteps, BeforeAnswer
    <3>2. ~Finalizing
      BY <1>3, BeforeAnswerSteps, AfterAnswerSteps, AfterClearSteps, WithoutAnswerSteps DEF Finalizing, Free
    <3>3. Clean(r)
      BY <3>2, <1>3 DEF IInv, RunOK
    <3>4. run'[r].c = run[r].c
      BY <1>4 DEF SameRuns
    <3>5. Clean(r)'
      BY <3>3, <3>4, <1>3 DEF Clean, Answers, SameRest
    <3>6. Clean(job.r)'
      BY <3>5, <1>5
    <3> QED BY <2>1, <3>1, <3>6, <1>5 DEF Finalizing
  <2>3. CASE ~conv[c].there
    <3>1. job'.todo \in WithoutAnswer
      BY <2>3, <1>5 DEF FinalSteps, WithoutAnswer
    <3>2. c \in removing
      BY <2>3, <1>3 DEF IInv, RunOK
    <3> QED BY <2>1, <3>1, <3>2, <1>3, <1>5 DEF Finalizing, SameRest
  <2> QED BY <2>2, <2>3
<1>7. JobOK'
  BY <1>3, <1>6 DEF JobOK, Free
<1>8. Types'
  BY <1>3, <1>4, <1>5 DEF IInv, Types, DiskTypes, SameRest
<1> QED BY <1>3, <1>4, <1>7, <1>8, QuietStep

\* A title changes.
LEMMA TitleStep ==
  ASSUME MemoryTypes, NEW c \in Conversation, NEW title \in {"default", "fallback", "generated", "own"},
         conv' = [conv EXCEPT ![c].title = title]
  PROVE  conv' \in [Conversation -> EntryType] /\ SameThere
<1>1. conv[c] \in EntryType
  BY DEF MemoryTypes
<1>2. [conv[c] EXCEPT !.title = title] \in EntryType
      /\ [conv[c] EXCEPT !.title = title].there = conv[c].there
  BY <1>1 DEF EntryType
<1>3. conv' = [conv EXCEPT ![c] = [conv[c] EXCEPT !.title = title]]
  BY DEF MemoryTypes
<1> QED BY <1>2, <1>3 DEF MemoryTypes, SameThere

\* A handler that only saves may begin.
LEMMA SavingJob ==
  ASSUME Free, up' = up, NEW op \in {"rename", "name"}, NEW c \in Conversation, NEW r \in Run \cup {0},
         Begin(op, c, r, <<"save">>)
  PROVE  JobTypes' /\ JobOK'
<1>1. JobTypes' /\ job'.op = op /\ job'.todo = <<"save">>
  BY BeginType
<1>2. Saving'
  BY <1>1 DEF Saving
<1> QED BY <1>1, <1>2 DEF JobOK, Free

\* Rename keeps the invariant.
LEMMA RenameStep ==
  ASSUME IInv, NEW c \in Conversation, Rename(c)
  PROVE  IInv'
<1>1. conv' \in [Conversation -> EntryType] /\ SameThere
  BY TitleStep DEF Rename, IInv, Types
<1>2. /\ Free /\ SameRest /\ UNCHANGED <<meta, up, run, active, deleting>>
      /\ Begin("rename", c, 0, <<"save">>)
  BY DEF Rename, SameRest, disk
<1>3. JobTypes' /\ JobOK'
  BY <1>2, SavingJob
<1>4. Types'
  BY <1>1, <1>2, <1>3 DEF IInv, Types, DiskTypes, MemoryTypes, SameRest
<1>5. SameRuns
  BY <1>2 DEF SameRuns
<1> QED BY <1>1, <1>2, <1>3, <1>4, <1>5, QuietStep

\* TitleReturns keeps the invariant.
LEMMA TitleReturnsStep ==
  ASSUME IInv, NEW r \in Run, TitleReturns(r)
  PROVE  IInv'
<1> DEFINE x == [run[r] EXCEPT !.naming = FALSE]
           c == run[r].c
<1>1. run[r] \in RunType /\ x \in RunType /\ x.st = run[r].st /\ x.c = c /\ c \in Conversation
  BY DEF IInv, Types, MemoryTypes, RunType
<1>2. run' = [run EXCEPT ![r] = x]
  BY DEF TitleReturns, IInv, Types, MemoryTypes
<1>3. Free /\ SameRest /\ UNCHANGED <<meta, up, active, deleting>>
  BY DEF TitleReturns, SameRest, disk, history
<1>4. run' \in [Run -> RunType] /\ SameRuns
  BY <1>1, <1>2 DEF IInv, Types, MemoryTypes, SameRuns
<1>5. CASE UNCHANGED <<conv, job>>
  <2>1. Types'
    BY <1>3, <1>4, <1>5 DEF IInv, Types, DiskTypes, MemoryTypes, JobTypes, SameRest
  <2>2. JobOK' /\ SameThere
    BY <1>3, <1>5 DEF JobOK, Free, SameThere
  <2> QED BY <2>1, <2>2, <1>3, <1>4, QuietStep
<1>6. CASE conv' = [conv EXCEPT ![c].title = "generated"] /\ Begin("name", c, r, <<"save">>)
  <2>1. conv' \in [Conversation -> EntryType] /\ SameThere
    BY <1>1, <1>6, TitleStep DEF IInv, Types
  <2>2. JobTypes' /\ JobOK'
    BY <1>1, <1>3, <1>6, SavingJob
  <2>3. Types'
    BY <1>3, <1>4, <2>1, <2>2 DEF IInv, Types, DiskTypes, MemoryTypes, SameRest
  <2> QED BY <2>1, <2>2, <2>3, <1>3, <1>4, QuietStep
<1> QED BY <1>5, <1>6 DEF TitleReturns

\* A deletion may begin.
LEMMA DeletingJob ==
  ASSUME Free, up' = up, NEW c \in Conversation, Begin("delete", c, 0, DeleteSteps)
  PROVE  JobTypes' /\ JobOK'
<1>1. JobTypes' /\ job'.op = "delete" /\ job'.todo = DeleteSteps
  BY BeginType
<1>2. Removing'
  BY <1>1 DEF Removing, BeforeForget
<1> QED BY <1>1, <1>2 DEF JobOK, Free

\* Delete keeps the invariant.
LEMMA DeleteStep ==
  ASSUME IInv, NEW c \in Conversation, Delete(c)
  PROVE  IInv'
<1>1. Free /\ SameRest /\ UNCHANGED <<meta, up, conv, active>>
  BY DEF Delete, SameRest, disk, history
<1>2. CASE active[c] = 0
  <2>1. Begin("delete", c, 0, DeleteSteps) /\ UNCHANGED <<run, deleting>>
    BY <1>2 DEF Delete
  <2>2. JobTypes' /\ JobOK'
    BY <1>1, <2>1, DeletingJob
  <2>3. Types' /\ SameRuns /\ SameThere
    BY <1>1, <2>1, <2>2 DEF IInv, Types, DiskTypes, MemoryTypes, SameRest, SameRuns, SameThere
  <2> QED BY <1>1, <2>2, <2>3, QuietStep
<1>3. CASE active[c] # 0
  <2> DEFINE r == active[c]
             x == [run[r] EXCEPT !.aborted = TRUE]
  <2>1. r \in Run /\ run[r] \in RunType
    BY <1>3 DEF IInv, Types, MemoryTypes
  <2>2. x \in RunType /\ x.st = run[r].st /\ x.c = run[r].c
    BY <2>1 DEF RunType
  <2>3. run' = [run EXCEPT ![r] = x] /\ deleting' = deleting \cup {c} /\ job' = job
    BY <1>3 DEF Delete, IInv, Types, MemoryTypes
  <2>4. MemoryTypes' /\ SameRuns /\ SameThere
    BY <1>1, <2>1, <2>2, <2>3 DEF IInv, Types, MemoryTypes, SameRuns, SameThere
  <2>5. Types' /\ JobOK'
    BY <1>1, <2>3, <2>4 DEF IInv, Types, DiskTypes, JobTypes, SameRest, JobOK, Free
  <2> QED BY <1>1, <2>4, <2>5, QuietStep
<1> QED BY <1>2, <1>3

\* DeleteTimesOut keeps the invariant.
LEMMA DeleteTimesOutStep ==
  ASSUME IInv, NEW c \in Conversation, DeleteTimesOut(c)
  PROVE  IInv'
<1>1. /\ Free /\ SameRest /\ UNCHANGED <<meta, up, run, conv, active, deleting>>
      /\ Begin("delete", c, 0, DeleteSteps)
  BY DEF DeleteTimesOut, SameRest, disk, memory, history
<1>2. JobTypes' /\ JobOK'
  BY <1>1, DeletingJob
<1>3. Types' /\ SameRuns /\ SameThere
  BY <1>1, <1>2 DEF IInv, Types, DiskTypes, MemoryTypes, SameRest, SameRuns, SameThere
<1> QED BY <1>1, <1>2, <1>3, QuietStep

-----------------------------------------------------------------------------
(* A run is accepted.                                                      *)

\* Nothing is stored or known of a run that was not started.
LEMMA UnusedIsNew ==
  ASSUME IInv, NEW r \in Run, run[r].st = "unused"
  PROVE  /\ reported[r] = "no"
         /\ \A c \in Conversation : Answers(c, r) = {} /\ pending[c] # r /\ active[c] # r
<1>1. reported[r] = "no"
  BY DEF IInv, RunOK
<1>2. ASSUME NEW c \in Conversation
      PROVE  Answers(c, r) = {} /\ pending[c] # r /\ active[c] # r
  <2>1. Answers(c, r) = {}
    BY <1>2 DEF IInv, LogOK, Answers
  <2>2. pending[c] # r
    BY <1>2, RunsAssumption DEF IInv, LogOK
  <2>3. active[c] # r
    BY <1>2, RunsAssumption DEF IInv, OwnerOK, Live
  <2> QED BY <2>1, <2>2, <2>3
<1> QED BY <1>1, <1>2

\* A run that is accepted for a free conversation keeps the invariant.
LEMMA AcceptStep ==
  ASSUME IInv, Free, NEW r \in Run, run[r].st = "unused", NEW x \in RunType, x.st = "accepted",
         run' = [run EXCEPT ![r] = x], active[x.c] = 0, SameThere, SameRest,
         NEW op \in {"create", "start"}, NEW todo \in BeforeUser, Begin(op, x.c, r, todo),
         todo # CreateSteps => conv[x.c].there, UNCHANGED <<meta, conv, deleting>>
  PROVE  IInv'
<1>0. x.c \in Conversation
  BY DEF RunType
<1>1. JobTypes' /\ job'.op = op /\ job'.c = x.c /\ job'.r = r /\ job'.todo = todo
  BY <1>0, BeginType
<1>2. run'[r] = x /\ \A s \in Run : s # r => run'[s] = run[s]
  BY DEF IInv, Types, MemoryTypes
<1>3. Types'
  BY <1>1 DEF IInv, Types, DiskTypes, MemoryTypes, SameRest
<1>4. Starting'
  <2>1. Of("accepted")'
    BY <1>1, <1>2 DEF Of
  <2>2. Answers(x.c, r)' = {}
    BY <1>0, UnusedIsNew DEF Answers, SameRest
  <2> QED BY <1>1, <2>1, <2>2 DEF Starting, SameRest
<1>5. JobOK'
  BY <1>4 DEF JobOK, Free, SameRest
<1>6. OwnerOK'
  <2>1. \A s \in Run : run[s].st # "accepted"
    BY BeforeUserSteps, AfterUserSteps, AfterActivateSteps
       DEF IInv, OwnerOK, Free, Starting, Launching
  <2>2. \A s \in Run : run'[s].st = "accepted" => job'.r = s /\ Starting'
    BY <2>1, <1>1, <1>2, <1>4
  <2>3. \A s \in Run : run'[s].st \in {"running", "stuck"} => active'[run'[s].c] = s
    BY <1>2 DEF IInv, OwnerOK, SameRest
  <2>4. ASSUME NEW c \in Conversation, active[c] # 0
        PROVE  run'[active[c]].c = c /\ run'[active[c]].st \in {"accepted", "running", "stuck"}
    <3>1. active[c] \in Run /\ active[c] # r
      BY <2>4, UnusedIsNew DEF IInv, Types, MemoryTypes
    <3> QED BY <3>1, <2>4, <1>2 DEF IInv, OwnerOK, Live
  <2>5. up' = "serving"
    BY DEF Free, SameRest
  <2> QED BY <2>2, <2>3, <2>4, <2>5 DEF OwnerOK, SameRest, Live
<1>7. LogOK'
  <2> SUFFICES ASSUME NEW c \in Conversation
      PROVE  /\ \A i \in DOMAIN log[c] : run'[log[c][i].run].c = c /\ run'[log[c][i].run].st # "unused"
             /\ pending[c] # 0 =>
                  /\ run'[pending[c]].c = c /\ run'[pending[c]].st # "unused"
                  /\ c \in removing \/ reported[pending[c]] = "no"
    BY DEF LogOK, SameRest
  <2>1. \A i \in DOMAIN log[c] : log[c][i].run \in Run
    BY LineTypes DEF IInv, Types, MessageType
  <2>2. pending[c] \in Run \cup {0}
    BY DEF IInv, Types, DiskTypes
  <2> QED BY <2>1, <2>2, <1>2 DEF IInv, LogOK
<1>8. RunOK'
  <2> SUFFICES ASSUME NEW s \in Run
      PROVE  /\ reported[s] # "no" => run'[s].st \in {"done", "gone"} /\ Stored(s, reported[s])'
             /\ run'[s].st = "running" =>
                  (conv'[run'[s].c].there \/ run'[s].c \in removing') /\ Clean(s)'
    BY DEF RunOK, SameRest
  <2>1. CASE s = r
    BY <2>1, <1>2, UnusedIsNew
  <2>2. CASE s # r
    <3>1. run'[s] = run[s] /\ run[s].c \in Conversation
      BY <2>2, <1>2 DEF IInv, Types, MemoryTypes, RunType
    <3>2. ~Finalizing
      BY BeforeAnswerSteps, AfterAnswerSteps, AfterClearSteps, WithoutAnswerSteps DEF Finalizing, Free
    <3>3. Stored(s, reported[s]) => Stored(s, reported[s])'
      BY <3>1 DEF Stored, Answers, SameRest
    <3>4. Clean(s) => Clean(s)'
      BY <3>1 DEF Clean, Answers, SameRest
    <3> QED BY <3>1, <3>2, <3>3, <3>4 DEF IInv, RunOK, SameThere, SameRest
  <2> QED BY <2>1, <2>2
<1> QED BY <1>3, <1>5, <1>6, <1>7, <1>8 DEF IInv

\* The run startRun creates has its type.
LEMMA AcceptedType ==
  ASSUME NEW c \in Conversation, NEW title
  PROVE  /\ Accepted(c, title) \in RunType
         /\ Accepted(c, title).st = "accepted" /\ Accepted(c, title).c = c
BY StartTypes DEF Accepted, NoRun, RunType, Outcome

\* CreateConversation keeps the invariant.
LEMMA CreateConversationStep ==
  ASSUME IInv, NEW c \in Conversation, NEW r \in Run, CreateConversation(c, r)
  PROVE  IInv'
<1>1. /\ Free /\ SameRest /\ SameThere /\ run[r].st = "unused"
      /\ UNCHANGED <<meta, up, conv, active, deleting>>
  BY DEF CreateConversation, SameRest, SameThere, disk, history, NextRun
<1>2. CASE /\ Begin("create", c, r, CreateSteps)
           /\ run' = [run EXCEPT ![r] = Accepted(c, "default")]
  <2>1. active[c] = 0
    <3>1. \A s \in Run : run[s].st # "unused" => run[s].c # c
      BY DEF CreateConversation, Fresh
    <3>2. active[c] # 0 => active[c] \in Run
      BY DEF IInv, Types, MemoryTypes
    <3> QED BY <3>1, <3>2 DEF IInv, OwnerOK, Live
  <2>2. CreateSteps \in BeforeUser
    BY DEF BeforeUser
  <2> QED BY <1>1, <1>2, <2>1, <2>2, AcceptedType, AcceptStep
<1>3. CASE Begin("create", c, 0, <<"new", "forget", "remove">>) /\ UNCHANGED run
  <2>1. JobTypes' /\ job'.op = "create" /\ job'.r = 0 /\ job'.todo = <<"new", "forget", "remove">>
    BY <1>3, BeginType
  <2>2. Removing'
    BY <2>1 DEF Removing, BeforeForget
  <2>3. JobOK' /\ SameRuns
    BY <1>1, <1>3, <2>2 DEF JobOK, Free, SameRuns
  <2>4. Types'
    BY <1>1, <1>3, <2>1 DEF IInv, Types, DiskTypes, MemoryTypes, SameRest
  <2> QED BY <1>1, <2>3, <2>4, QuietStep
<1> QED BY <1>2, <1>3 DEF CreateConversation

\* StartRun keeps the invariant.
LEMMA StartRunStep ==
  ASSUME IInv, NEW c \in Conversation, NEW r \in Run, StartRun(c, r)
  PROVE  IInv'
<1>1. /\ Free /\ SameRest /\ SameThere /\ run[r].st = "unused" /\ active[c] = 0 /\ conv[c].there
      /\ UNCHANGED <<meta, up, conv, active, deleting>>
      /\ Begin("start", c, r, StartSteps(conv[c].title))
      /\ run' = [run EXCEPT ![r] = Accepted(c, conv[c].title)]
  BY DEF StartRun, SameRest, SameThere, disk, history, NextRun, Busy
<1>2. StartSteps(conv[c].title) \in BeforeUser
  BY DEF StartSteps, BeforeUser
<1> QED BY <1>1, <1>2, AcceptedType, AcceptStep

-----------------------------------------------------------------------------
(* A handler goes on.                                                      *)

\* What is left of LogOK when no run changes its status, and lines and
\* checkpoints are only taken away.
LEMMA LogFrame ==
  ASSUME IInv, SameRuns, UNCHANGED reported, removing \subseteq removing',
         \A c \in Conversation : log'[c] \in {log[c], <<>>} /\ pending'[c] \in {pending[c], 0}
  PROVE  LogOK'
<1> SUFFICES ASSUME NEW c \in Conversation
    PROVE  /\ \A i \in DOMAIN log'[c] : run'[log'[c][i].run].c = c /\ run'[log'[c][i].run].st # "unused"
           /\ pending'[c] # 0 =>
                /\ run'[pending'[c]].c = c /\ run'[pending'[c]].st # "unused"
                /\ c \in removing' \/ reported[pending'[c]] = "no"
  BY DEF LogOK
<1>1. \A i \in DOMAIN log[c] : log[c][i].run \in Run
  BY LineTypes DEF IInv, Types, MessageType
<1>2. pending[c] \in Run \cup {0}
  BY DEF IInv, Types, DiskTypes
<1>3. DOMAIN log'[c] = {} \/ log'[c] = log[c]
  <2>1. log'[c] = <<>> => DOMAIN log'[c] = {}
    OBVIOUS
  <2> QED BY <2>1
<1> QED BY <1>1, <1>2, <1>3 DEF IInv, LogOK, SameRuns

\* Another run than that of the handler keeps what is known of it.
LEMMA OtherRun ==
  ASSUME IInv, NEW r \in Run, run'[r].st = run[r].st, run'[r].c = run[r].c,
         ~(Finalizing /\ job.r = r), UNCHANGED reported, removing \subseteq removing',
         run[r].c \in removing' \/
           (Answers(run[r].c, r)' = Answers(run[r].c, r)
            /\ (\A i \in DOMAIN log[run[r].c] :
                  i \in DOMAIN log'[run[r].c] /\ log'[run[r].c][i] = log[run[r].c][i])
            /\ (run[r].st = "running" => torn'[run[r].c] = torn[run[r].c] \/ ~torn'[run[r].c])),
         conv[run[r].c].there => conv'[run[r].c].there \/ run[r].c \in removing'
  PROVE  /\ reported'[r] # "no" => run'[r].st \in {"done", "gone"} /\ Stored(r, reported[r])'
         /\ run'[r].st = "running" =>
              (conv'[run'[r].c].there \/ run'[r].c \in removing') /\ Clean(r)'
<1>1. reported[r] # "no" => run[r].st \in {"done", "gone"} /\ Stored(r, reported[r])
  BY DEF IInv, RunOK
<1>2. run[r].st = "running" => (conv[run[r].c].there \/ run[r].c \in removing) /\ Clean(r)
  BY DEF IInv, RunOK
<1>3. Stored(r, reported[r]) => Stored(r, reported[r])'
  BY DEF Stored
<1>4. run[r].st = "running" /\ Clean(r) => Clean(r)'
  BY DEF Clean
<1> QED BY <1>1, <1>2, <1>3, <1>4

\* The phase that a step belongs to, and the one it leads to.
LEMMA StepPhase ==
  ASSUME IInv, job.todo # <<>>
  PROVE  LET t == Tail(job.todo) IN
         /\ At("user") => Starting /\ conv[job.c].there /\ t \in AfterUser /\ t # CreateSteps
         /\ At("answer") => Finalizing /\ Clean(job.r) /\ t \in AfterAnswer
         /\ At("recover") => up = "init" /\ Recovering /\ pending[job.c] # 0 /\ t \in BeforeClear
         /\ At("new") =>
              \/ Starting /\ t \in BeforeUser /\ t # CreateSteps
              \/ Removing /\ t \in BeforeForget
         /\ At("launch") => Launching /\ t = <<>>
         /\ At("checkpoint") => Saving /\ job.op = "persist" /\ Of("running") /\ t = <<>>
         /\ At("clear") =>
              \/ Finalizing /\ Stored(job.r, run[job.r].final) /\ t \in AfterClear
              \/ Finalizing /\ job.c \in removing /\ t \in WithoutAnswer
              \/ up = "init" /\ Recovering /\ t \in {<<"inactive">>, <<>>}
         /\ At("finish") =>
              /\ Finalizing /\ t = <<>>
              /\ job.c \in removing \/ (Stored(job.r, run[job.r].final) /\ pending[job.c] = 0)
         /\ At("forget") => Removing /\ t \in AfterForget
         /\ At("remove") => Removing /\ t = <<>> /\ job.c \in removing
<1> DEFINE t == Tail(job.todo)
<1>1. CASE Starting
  <2>1. CASE job.todo \in BeforeUser
    BY <2>1, <1>1, BeforeUserSteps, AfterUserSteps DEF At, Starting
  <2>2. CASE job.todo \in AfterUser
    BY <2>2, AfterUserSteps DEF At
  <2> QED BY <1>1, <2>1, <2>2 DEF Starting
<1>2. CASE Launching
  BY <1>2, AfterActivateSteps DEF Launching, At
<1>3. CASE Finalizing
  <2>1. CASE job.todo \in BeforeAnswer /\ Clean(job.r)
    BY <2>1, <1>3, BeforeAnswerSteps DEF At
  <2>2. CASE job.todo \in AfterAnswer /\ Stored(job.r, run[job.r].final)
    BY <2>2, <1>3, AfterAnswerSteps DEF At
  <2>3. CASE job.todo \in AfterClear /\ Stored(job.r, run[job.r].final) /\ pending[job.c] = 0
    BY <2>3, <1>3, AfterClearSteps DEF At
  <2>4. CASE job.todo \in WithoutAnswer /\ job.c \in removing
    BY <2>4, <1>3, WithoutAnswerSteps DEF At
  <2> QED BY <1>3, <2>1, <2>2, <2>3, <2>4 DEF Finalizing
<1>4. CASE Removing
  <2>1. CASE job.todo \in BeforeForget
    BY <2>1, <1>4, BeforeForgetSteps DEF At
  <2>2. CASE job.todo \in AfterForget /\ job.c \in removing
    BY <2>2, <1>4, AfterForgetSteps DEF At
  <2> QED BY <1>4, <2>1, <2>2 DEF Removing
<1>5. CASE Saving
  BY <1>5, SingleSteps DEF Saving, At
<1>6. CASE up = "init" /\ Recovering
  <2>1. CASE job.todo \in Recovery /\ pending[job.c] # 0
    BY <2>1, <1>6, RecoverySteps DEF At
  <2>2. CASE job.todo \in BeforeClear
    BY <2>2, <1>6, BeforeClearSteps DEF At
  <2>3. CASE job.todo = <<"inactive">>
    BY <2>3, SingleSteps DEF At
  <2> QED BY <1>6, <2>1, <2>2, <2>3 DEF Recovering
<1> QED BY <1>1, <1>2, <1>3, <1>4, <1>5, <1>6 DEF IInv, JobOK

\* The phases exclude each other, by the operation and the run.
LEMMA PhasesApart ==
  ASSUME JobTypes
  PROVE  /\ Starting \/ Launching => ~Finalizing /\ job.op \in {"create", "start"} /\ Of("accepted")
         /\ Saving \/ Removing \/ Finalizing \/ Recovering => ~Starting /\ ~Launching
         /\ Saving \/ Recovering => ~Finalizing
         /\ Removing => ~Finalizing
BY RunsAssumption DEF Starting, Launching, Saving, Removing, Finalizing, Recovering, Of

\* What is left of OwnerOK when no run changes its status.
LEMMA OwnerFrame ==
  ASSUME IInv, SameRuns, UNCHANGED <<active, up>>, job'.r = job.r,
         Starting \/ Launching => (Starting \/ Launching)'
  PROVE  OwnerOK'
<1>1. \A r \in Run : /\ run'[r].st \in {"running", "stuck"} => active'[run'[r].c] = r
                     /\ run'[r].st = "accepted" => job'.r = r /\ (Starting \/ Launching)'
  BY DEF IInv, OwnerOK, SameRuns
<1>2. ASSUME NEW c \in Conversation, active[c] # 0
      PROVE  run'[active[c]].c = c /\ run'[active[c]].st \in {"accepted", "running", "stuck"}
  <2>1. active[c] \in Run
    BY <1>2 DEF IInv, Types, MemoryTypes
  <2> QED BY <2>1, <1>2 DEF IInv, OwnerOK, SameRuns, Live
<1>3. up # "serving" => \A r \in Run : run'[r].st \notin {"accepted", "running", "stuck"}
  BY DEF IInv, OwnerOK, SameRuns, Live
<1> QED BY <1>1, <1>2, <1>3 DEF OwnerOK, Live

\* What a line adds to a conversation.
LEMMA Appended ==
  ASSUME DiskTypes, NEW c \in Conversation, NEW m \in MessageType,
         log' = [log EXCEPT ![c] = Append(@, m)]
  PROVE  LET n == Len(log[c]) + 1 IN
         /\ DOMAIN log'[c] = DOMAIN log[c] \cup {n} /\ n \notin DOMAIN log[c]
         /\ log'[c][n] = m /\ \A i \in DOMAIN log[c] : log'[c][i] = log[c][i]
         /\ \A d \in Conversation : d # c => log'[d] = log[d]
         /\ \A d \in Conversation, r \in Run :
              /\ d # c \/ m.run # r \/ m.role # "assistant" => Answers(d, r)' = Answers(d, r)
              /\ d = c /\ m.run = r /\ m.role = "assistant" => Answers(d, r)' = Answers(d, r) \cup {n}
<1> DEFINE n == Len(log[c]) + 1
<1>1. log[c] \in Seq(MessageType)
  BY DEF DiskTypes
<1>2. log'[c] = Append(log[c], m) /\ \A d \in Conversation : d # c => log'[d] = log[d]
  BY DEF DiskTypes
<1>3. DOMAIN log'[c] = DOMAIN log[c] \cup {n} /\ n \notin DOMAIN log[c]
  BY <1>1, <1>2
<1>4. log'[c][n] = m /\ \A i \in DOMAIN log[c] : log'[c][i] = log[c][i]
  BY <1>1, <1>2
<1>5. ASSUME NEW d \in Conversation, NEW r \in Run
      PROVE  /\ d # c \/ m.run # r \/ m.role # "assistant" => Answers(d, r)' = Answers(d, r)
             /\ d = c /\ m.run = r /\ m.role = "assistant" => Answers(d, r)' = Answers(d, r) \cup {n}
  <2>1. CASE d # c
    BY <2>1, <1>2 DEF Answers
  <2>2. CASE d = c
    BY <2>2, <1>3, <1>4 DEF Answers
  <2> QED BY <2>1, <2>2
<1> QED BY <1>2, <1>3, <1>4, <1>5

\* The new line is of a run of the conversation.
LEMMA AppendedLog ==
  ASSUME IInv, NEW c \in Conversation, NEW m \in MessageType,
         log' = [log EXCEPT ![c] = Append(@, m)], run[m.run].c = c, run[m.run].st # "unused",
         UNCHANGED <<run, pending, reported, removing>>
  PROVE  LogOK'
<1>1. DiskTypes
  BY DEF IInv, Types
<1>2. ASSUME NEW d \in Conversation, NEW i \in DOMAIN log'[d]
      PROVE  run[log'[d][i].run].c = d /\ run[log'[d][i].run].st # "unused"
  BY <1>1, Appended DEF IInv, LogOK
<1> QED BY <1>2 DEF IInv, LogOK

\* The runs that have no answer in the line keep what is known of them.
LEMMA AppendedRun ==
  ASSUME IInv, NEW c \in Conversation, NEW m \in MessageType, NEW r \in Run,
         log' = [log EXCEPT ![c] = Append(@, m)], torn' = [torn EXCEPT ![c] = FALSE],
         m.role = "user" \/ m.run # r, ~(Finalizing /\ job.r = r),
         UNCHANGED <<run, conv, reported, removing>>
  PROVE  /\ reported'[r] # "no" => run'[r].st \in {"done", "gone"} /\ Stored(r, reported[r])'
         /\ run'[r].st = "running" =>
              (conv'[run'[r].c].there \/ run'[r].c \in removing') /\ Clean(r)'
<1>1. DiskTypes /\ run[r].c \in Conversation
  BY DEF IInv, Types, MemoryTypes, RunType
<1>2. Answers(run[r].c, r)' = Answers(run[r].c, r)
  BY <1>1, Appended DEF Answers
<1>3. \A i \in DOMAIN log[run[r].c] :
         i \in DOMAIN log'[run[r].c] /\ log'[run[r].c][i] = log[run[r].c][i]
  BY <1>1, Appended
<1>4. torn'[run[r].c] = torn[run[r].c] \/ ~torn'[run[r].c]
  BY <1>1 DEF DiskTypes
<1> QED BY <1>1, <1>2, <1>3, <1>4, OtherRun

\* AppendUser keeps the invariant: the line is whole again.
LEMMA AppendUserStep ==
  ASSUME IInv, AppendUser
  PROVE  IInv'
<1> DEFINE c == job.c
           m == Line("user", "completed")
<1>1. /\ At("user") /\ job.todo # <<>> /\ Continue
      /\ log' = [log EXCEPT ![c] = Append(@, m)] /\ torn' = [torn EXCEPT ![c] = FALSE]
      /\ UNCHANGED <<meta, pending, up, conv, run, active, deleting, reported, removing>>
  BY DEF AppendUser, AppendLine, At, memory, history
<1>2. Starting /\ conv[c].there /\ Tail(job.todo) \in AfterUser /\ Tail(job.todo) # CreateSteps
  BY <1>1, StepPhase
<1>3. /\ JobTypes' /\ c \in Conversation /\ job.r \in Run
      /\ job'.op = job.op /\ job'.c = c /\ job'.r = job.r /\ job'.todo = Tail(job.todo)
  BY <1>1, <1>2, ContinueType DEF IInv, Types, JobTypes, Starting, Of
<1>4. m \in MessageType /\ m.run = job.r /\ m.role = "user"
  BY <1>3 DEF Line, MessageType, IInv, Types, DiskTypes, Outcome
<1>5. Types'
  BY <1>1, <1>3, <1>4, AppendType DEF IInv, Types, MemoryTypes
<1>6. \A d \in Conversation, r \in Run : Answers(d, r)' = Answers(d, r)
  BY <1>1, <1>3, <1>4, Appended DEF IInv, Types, Answers
<1>7. Starting'
  <2>1. Answers(c, job.r) = {} /\ run[job.r].c = c
    BY <1>2 DEF Starting, Of
  <2>2. ~torn'[c]
    BY <1>1, <1>3 DEF IInv, Types, DiskTypes
  <2>3. Answers(job.c, job.r)' = {}
    BY <2>1, <1>3, <1>6
  <2>4. Clean(job.r)'
    BY <2>1, <2>2, <2>3, <1>1, <1>3 DEF Clean
  <2>5. Of("accepted")'
    BY <1>1, <1>2, <1>3 DEF Starting, Of
  <2> QED BY <2>3, <2>4, <2>5, <1>1, <1>2, <1>3 DEF Starting
<1>8. SameRuns
  BY <1>1 DEF SameRuns
<1>9. JobOK' /\ OwnerOK'
  <2>1. up = "serving"
    BY <1>2, PhasesApart DEF IInv, JobOK, Types, At
  <2> QED BY <2>1, <1>1, <1>3, <1>7, <1>8, OwnerFrame DEF JobOK
<1>10. LogOK'
  BY <1>1, <1>2, <1>3, <1>4, AppendedLog DEF Starting, Of
<1>11. RunOK'
  <2>1. ~Finalizing
    BY <1>2, PhasesApart DEF IInv, Types
  <2> QED BY <2>1, <1>1, <1>3, <1>4, AppendedRun DEF RunOK
<1> QED BY <1>5, <1>9, <1>10, <1>11 DEF IInv

\* AppendAnswer keeps the invariant: the answer is the first of the run, and readable.
LEMMA AppendAnswerStep ==
  ASSUME IInv, AppendAnswer
  PROVE  IInv'
<1> DEFINE c == job.c
           r == job.r
           m == Line("assistant", run[r].final)
<1>1. /\ At("answer") /\ job.todo # <<>> /\ Continue
      /\ log' = [log EXCEPT ![c] = Append(@, m)] /\ torn' = [torn EXCEPT ![c] = FALSE]
      /\ UNCHANGED <<meta, pending, up, conv, run, active, deleting, reported, removing>>
  BY DEF AppendAnswer, AppendLine, At, memory, history
<1>2. Finalizing /\ Clean(r) /\ Tail(job.todo) \in AfterAnswer
  BY <1>1, StepPhase
<1>3. /\ JobTypes' /\ c \in Conversation /\ r \in Run
      /\ job'.op = job.op /\ job'.c = c /\ job'.r = r /\ job'.todo = Tail(job.todo)
  BY <1>1, <1>2, ContinueType DEF IInv, Types, JobTypes, Finalizing, Of
<1>4. run[r] \in RunType /\ run[r].c = c /\ run[r].st = "running"
  BY <1>2, <1>3 DEF Finalizing, Of, IInv, Types, MemoryTypes
<1>5. m \in MessageType /\ m.run = r /\ m.role = "assistant" /\ m.status = run[r].final
      /\ m.readable = ~torn[c]
  BY <1>3, <1>4 DEF Line, MessageType, RunType, IInv, Types, DiskTypes
<1>6. Types'
  BY <1>1, <1>3, <1>5, AppendType DEF IInv, Types, MemoryTypes
<1>7. Finalizing'
  <2>1. CASE c \in removing
    BY <2>1, <1>1, <1>2, <1>3, <1>4 DEF Finalizing, Of, Stored
  <2>2. CASE c \notin removing
    <3>1. Answers(c, r) = {} /\ ~torn[c]
      BY <2>2, <1>2, <1>4 DEF Clean
    <3> DEFINE n == Len(log[c]) + 1
    <3>2. n \in DOMAIN log'[c] /\ log'[c][n] = m
      BY <1>1, <1>3, <1>5, Appended DEF IInv, Types
    <3>3. Answers(c, r) \cup {n} = {n}
      BY <3>1
    <3>4. ASSUME NEW d \in Conversation, NEW s \in Run, d = c, s = r
          PROVE  Answers(d, s)' = {n}
      <4>1. /\ DOMAIN log'[c] = DOMAIN log[c] \cup {n} /\ n \notin DOMAIN log[c] /\ log'[c][n] = m
            /\ \A i \in DOMAIN log[c] : log'[c][i] = log[c][i]
        BY <1>1, <1>3, <1>5, Appended DEF IInv, Types
      <4>2. Answers(d, s)' = Answers(d, s) \cup {n}
        BY <4>1, <1>5, <3>4 DEF Answers
      <4> QED BY <4>2, <3>3, <3>4
    <3>5. ASSUME NEW s \in Run, NEW o, s = r, o = run[r].final
          PROVE  Stored(s, o)'
      <4>1. run'[s].c = c
        BY <3>5, <1>1, <1>4
      <4>2. Answers(run[s].c, s)' = {n}
        BY <3>4, <3>5, <4>1, <1>3
      <4> QED BY <3>1, <3>2, <3>5, <4>1, <4>2, <1>5 DEF Stored
    <3>6. Stored(job.r, run[job.r].final)'
      BY <3>5, <1>1, <1>3
    <3> QED BY <3>6, <1>1, <1>2, <1>3, <1>4 DEF Finalizing, Of
  <2> QED BY <2>1, <2>2
<1>8. up = "serving"
  BY <1>3, <1>4 DEF IInv, OwnerOK, Live
<1>9. JobOK' /\ OwnerOK'
  <2>1. SameRuns /\ ~Starting /\ ~Launching
    BY <1>1, <1>2, PhasesApart DEF SameRuns, IInv, Types
  <2> QED BY <2>1, <1>1, <1>3, <1>7, <1>8, OwnerFrame DEF JobOK
<1>10. LogOK'
  BY <1>1, <1>3, <1>4, <1>5, AppendedLog
<1>11. RunOK'
  <2>1. \A s \in Run : s # r =>
          /\ reported'[s] # "no" => run'[s].st \in {"done", "gone"} /\ Stored(s, reported[s])'
          /\ run'[s].st = "running" => (conv'[run'[s].c].there \/ run'[s].c \in removing') /\ Clean(s)'
    BY <1>1, <1>3, <1>5, AppendedRun
  <2>2. reported'[r] = "no" /\ (conv'[c].there \/ c \in removing')
    BY <1>1, <1>3, <1>4 DEF IInv, RunOK
  <2> QED BY <2>1, <2>2, <1>1, <1>3, <1>4, <1>7 DEF RunOK
<1> QED BY <1>6, <1>9, <1>10, <1>11 DEF IInv

\* AppendRecovered keeps the invariant: the run of the checkpoint was not reported.
LEMMA AppendRecoveredStep ==
  ASSUME IInv, AppendRecovered
  PROVE  IInv'
<1> DEFINE c == job.c
           r == pending[c]
           m == Recovered(r)
<1>1. /\ At("recover") /\ job.todo # <<>> /\ Continue
      /\ log' = [log EXCEPT ![c] = Append(@, m)] /\ torn' = [torn EXCEPT ![c] = FALSE]
      /\ UNCHANGED <<meta, pending, up, conv, run, active, deleting, reported, removing>>
  BY DEF AppendRecovered, At, memory, history
<1>2. up = "init" /\ Recovering /\ r # 0 /\ Tail(job.todo) \in BeforeClear
  BY <1>1, StepPhase
<1>3. /\ JobTypes' /\ c \in Conversation /\ r \in Run
      /\ job'.op = job.op /\ job'.c = c /\ job'.r = job.r /\ job'.todo = Tail(job.todo)
  BY <1>1, <1>2, ContinueType DEF IInv, Types, JobTypes, DiskTypes
<1>4. run[r].c = c /\ run[r].st # "unused" /\ (c \in removing \/ reported[r] = "no")
  BY <1>2, <1>3 DEF IInv, LogOK
<1>5. m \in MessageType /\ m.run = r
  BY <1>3 DEF Recovered, Line, MessageType, IInv, Types, DiskTypes
<1>6. Types'
  BY <1>1, <1>3, <1>5, AppendType DEF IInv, Types, MemoryTypes
<1>7. JobOK' /\ OwnerOK'
  <2>1. SameRuns /\ ~Starting /\ ~Launching
    BY <1>1, <1>2, PhasesApart DEF SameRuns, IInv, Types
  <2>2. Recovering'
    BY <1>2, <1>3 DEF Recovering
  <2> QED BY <2>1, <2>2, <1>1, <1>2, <1>3, OwnerFrame DEF JobOK
<1>8. LogOK'
  BY <1>1, <1>3, <1>4, <1>5, AppendedLog
<1>9. RunOK'
  <2>1. \A s \in Run : s # r =>
          /\ reported'[s] # "no" => run'[s].st \in {"done", "gone"} /\ Stored(s, reported[s])'
          /\ run'[s].st = "running" => (conv'[run'[s].c].there \/ run'[s].c \in removing') /\ Clean(s)'
    BY <1>1, <1>2, <1>3, <1>5, PhasesApart, AppendedRun DEF IInv, Types
  <2>2. run[r].st # "running"
    BY <1>2, <1>3 DEF IInv, OwnerOK, Live
  <2>3. \A s \in Run : s = r /\ reported[s] # "no" =>
          run[s].st \in {"done", "gone"} /\ Stored(s, reported[s])'
    BY <1>1, <1>4 DEF IInv, RunOK, Stored
  <2> QED BY <2>1, <2>2, <2>3, <1>1 DEF RunOK
<1> QED BY <1>6, <1>7, <1>8, <1>9 DEF IInv

\* The phase a save belongs to, and the one it leads to.
LEMMA SavePhase ==
  ASSUME IInv, job.todo # <<>>, Head(job.todo) \in SaveStep
  PROVE  LET t == Tail(job.todo) IN
         \/ At("activate") /\ Starting /\ conv[job.c].there /\ Clean(job.r) /\ t \in AfterActivate
         \/ /\ ~At("activate")
            /\ \/ Starting /\ conv[job.c].there /\ Clean(job.r) /\ t \in AfterUser /\ t # CreateSteps
               \/ Launching /\ t \in AfterActivate
               \/ Finalizing /\ Stored(job.r, run[job.r].final) /\ t \in AfterAnswer
               \/ /\ Finalizing /\ Stored(job.r, run[job.r].final)
                  /\ pending[job.c] = 0 /\ t \in AfterClear
               \/ Saving /\ t = <<>>
               \/ up = "init" /\ Recovering /\ t \in BeforeClear \cup {<<>>}
<1> DEFINE t == Tail(job.todo)
<1>1. CASE Starting
  <2>1. CASE job.todo \in BeforeUser
    BY <2>1, BeforeUserSteps DEF SaveStep
  <2>2. CASE job.todo \in AfterUser /\ Clean(job.r)
    <3>1. conv[job.c].there
      BY <2>2, <1>1, AfterUserSteps DEF Starting
    <3> QED BY <3>1, <2>2, <1>1, AfterUserSteps DEF At
  <2> QED BY <1>1, <2>1, <2>2 DEF Starting
<1>2. CASE Launching
  BY <1>2, AfterActivateSteps DEF Launching, At, SaveStep
<1>3. CASE Finalizing
  <2>1. CASE job.todo \in BeforeAnswer
    BY <2>1, BeforeAnswerSteps DEF SaveStep
  <2>2. CASE job.todo \in AfterAnswer /\ Stored(job.r, run[job.r].final)
    BY <2>2, <1>3, AfterAnswerSteps DEF At, SaveStep
  <2>3. CASE job.todo \in AfterClear /\ Stored(job.r, run[job.r].final) /\ pending[job.c] = 0
    BY <2>3, <1>3, AfterClearSteps DEF At, SaveStep
  <2>4. CASE job.todo \in WithoutAnswer
    BY <2>4, WithoutAnswerSteps DEF SaveStep
  <2> QED BY <1>3, <2>1, <2>2, <2>3, <2>4 DEF Finalizing
<1>4. CASE Removing
  BY <1>4, BeforeForgetSteps, AfterForgetSteps DEF Removing, SaveStep
<1>5. CASE Saving
  BY <1>5, SingleSteps DEF Saving, At, SaveStep
<1>6. CASE up = "init" /\ Recovering
  <2>1. CASE job.todo \in Recovery
    BY <2>1, RecoverySteps DEF SaveStep
  <2>2. CASE job.todo \in BeforeClear
    BY <2>2, <1>6, BeforeClearSteps DEF At, SaveStep
  <2>3. CASE job.todo = <<"inactive">>
    BY <2>3, <1>6, SingleSteps DEF At
  <2> QED BY <1>6, <2>1, <2>2, <2>3 DEF Recovering
<1> QED BY <1>1, <1>2, <1>3, <1>4, <1>5, <1>6 DEF IInv, JobOK

\* The runs keep what is known of them when nothing but conversation.json and
\* pending.json is written for the conversations that are not removed.
LEMMA RunFrame ==
  ASSUME IInv, SameRuns, UNCHANGED reported, removing \subseteq removing',
         \A c \in Conversation :
           \/ c \in removing'
           \/ /\ log'[c] = log[c] /\ torn'[c] = torn[c]
              /\ conv[c].there => conv'[c].there,
         Finalizing => run[job.r].c \in removing \/ (Finalizing' /\ job'.r = job.r)
  PROVE  RunOK'
<1> SUFFICES ASSUME NEW r \in Run
    PROVE  /\ reported[r] # "no" => run'[r].st \in {"done", "gone"} /\ Stored(r, reported[r])'
           /\ run'[r].st = "running" =>
                /\ conv'[run'[r].c].there \/ run'[r].c \in removing'
                /\ (Finalizing' /\ job'.r = r) \/ Clean(r)'
  BY DEF RunOK
<1>1. run[r].c \in Conversation /\ run'[r].c = run[r].c /\ run'[r].st = run[r].st
  BY DEF IInv, Types, MemoryTypes, RunType, SameRuns
<1>2. CASE run[r].c \in removing'
  <2>1. Clean(r)'
    BY <1>1, <1>2 DEF Clean
  <2>2. Stored(r, reported[r])'
    BY <1>1, <1>2 DEF Stored
  <2> QED BY <1>1, <1>2, <2>1, <2>2 DEF IInv, RunOK
<1>3. CASE run[r].c \notin removing'
  <2>1. /\ log'[run[r].c] = log[run[r].c] /\ torn'[run[r].c] = torn[run[r].c]
        /\ conv[run[r].c].there => conv'[run[r].c].there
    BY <1>1, <1>3
  <2>2. Stored(r, reported[r]) => Stored(r, reported[r])'
    BY <1>1, <2>1 DEF Stored, Answers
  <2>3. Clean(r) => Clean(r)'
    BY <1>1, <2>1 DEF Clean, Answers
  <2>4. Finalizing /\ job.r = r => Finalizing' /\ job'.r = r
    BY <1>3
  <2> QED BY <1>1, <1>3, <2>1, <2>2, <2>3, <2>4 DEF IInv, RunOK
<1> QED BY <1>2, <1>3

\* Save keeps the invariant.
LEMMA SaveStepKeeps ==
  ASSUME IInv, Save
  PROVE  IInv'
<1> DEFINE c == job.c
           t == Tail(job.todo)
<1>1. /\ job.todo # <<>> /\ Head(job.todo) \in SaveStep /\ Continue
      /\ conv' = [conv EXCEPT ![c] = Prepared] /\ meta' = [meta EXCEPT ![c] = Prepared]
      /\ active' = IF At("activate") THEN [active EXCEPT ![c] = job.r] ELSE active
      /\ UNCHANGED <<log, torn, pending, up, run, deleting, reported, removing>>
  BY DEF Save, PrepareSave
<1>2. /\ JobTypes' /\ c \in Conversation /\ job.r \in Run \cup {0}
      /\ job'.op = job.op /\ job'.c = c /\ job'.r = job.r /\ job'.todo = t
  BY <1>1, ContinueType DEF IInv, Types, JobTypes
<1>3. Types' /\ SameThere
  <2>1. Prepared \in EntryType /\ Prepared.there = conv[c].there
    BY PreparedType DEF IInv, Types
  <2>2. conv' \in [Conversation -> EntryType] /\ meta' \in [Conversation -> EntryType] /\ SameThere
    BY <1>1, <1>2, <2>1 DEF IInv, Types, DiskTypes, MemoryTypes, SameThere
  <2>3. active' \in [Conversation -> Run \cup {0}]
    BY <1>1, <1>2 DEF IInv, Types, MemoryTypes
  <2> QED BY <1>1, <1>2, <2>2, <2>3 DEF IInv, Types, DiskTypes, MemoryTypes
<1>4. SameRuns
  BY <1>1 DEF SameRuns
<1>5. LogOK'
  BY <1>1, <1>4, LogFrame
<1>6. CASE At("activate") /\ Starting /\ conv[c].there /\ Clean(job.r) /\ t \in AfterActivate
  <2>1. job.r \in Run /\ run[job.r].st = "accepted" /\ run[job.r].c = c /\ active[c] = 0 /\ ~Finalizing
    BY <1>6, PhasesApart DEF Starting, Of, IInv, Types
  <2>2. active' = [active EXCEPT ![c] = job.r] /\ active'[c] = job.r
    BY <1>1, <1>2, <1>6 DEF IInv, Types, MemoryTypes
  <2>3. Launching'
    <3>1. Clean(job.r)'
      BY <1>1, <1>2, <1>6 DEF Clean, Answers
    <3> QED BY <3>1, <2>1, <2>2, <1>1, <1>2, <1>3, <1>6 DEF Launching, Starting, Of, SameThere
  <2>4. up = "serving"
    BY <2>1 DEF IInv, OwnerOK, Live
  <2>5. JobOK'
    BY <2>3, <2>4, <1>1 DEF JobOK
  <2>6. OwnerOK'
    <3>1. \A r \in Run : run[r].st \in {"running", "stuck"} => active'[run[r].c] = r
      BY <2>1, <2>2, RunsAssumption DEF IInv, OwnerOK, Types, MemoryTypes, RunType
    <3>2. \A r \in Run : run[r].st = "accepted" => job'.r = r
      BY <1>2 DEF IInv, OwnerOK
    <3>3. \A d \in Conversation : active'[d] # 0 =>
            run[active'[d]].c = d /\ run[active'[d]].st \in {"accepted", "running", "stuck"}
      BY <2>1, <2>2 DEF IInv, OwnerOK, Live, Types, MemoryTypes
    <3> QED BY <3>1, <3>2, <3>3, <2>3, <2>4, <1>1 DEF OwnerOK, Live
  <2>7. RunOK'
    BY <2>1, <1>1, <1>3, <1>4, RunFrame DEF SameThere
  <2> QED BY <1>3, <1>5, <2>5, <2>6, <2>7 DEF IInv
<1>7. ASSUME ~At("activate"), JobOK', Starting \/ Launching => (Starting \/ Launching)',
             Finalizing => Finalizing'
      PROVE  IInv'
  <2>1. active' = active
    BY <1>1, <1>7
  <2>2. OwnerOK'
    BY <2>1, <1>1, <1>2, <1>4, <1>7, OwnerFrame
  <2>3. RunOK'
    BY <1>1, <1>2, <1>3, <1>4, <1>7, RunFrame DEF SameThere
  <2> QED BY <1>3, <1>5, <1>7, <2>2, <2>3 DEF IInv
<1>8. /\ Of("accepted") => Of("accepted")' /\ up = "serving"
      /\ Of("running") => Of("running")' /\ up = "serving"
  BY <1>1, <1>2 DEF Of, IInv, OwnerOK, Live
<1>9. /\ Clean(job.r) => Clean(job.r)'
      /\ Stored(job.r, run[job.r].final) => Stored(job.r, run[job.r].final)'
      /\ Answers(job.c, job.r) = Answers(job.c, job.r)'
  BY <1>1, <1>2 DEF Clean, Stored, Answers
<1>10. CASE ~At("activate") /\ Starting /\ conv[c].there /\ Clean(job.r) /\ t \in AfterUser /\ t # CreateSteps
  <2>1. Starting'
    BY <1>1, <1>2, <1>3, <1>8, <1>9, <1>10 DEF Starting, SameThere
  <2> QED BY <2>1, <1>1, <1>7, <1>8, <1>10, PhasesApart DEF JobOK, IInv, Types, Starting
<1>11. CASE ~At("activate") /\ Launching /\ t \in AfterActivate
  <2>1. Launching'
    BY <1>1, <1>2, <1>3, <1>8, <1>9, <1>11 DEF Launching, SameThere
  <2> QED BY <2>1, <1>1, <1>7, <1>8, <1>11, PhasesApart DEF JobOK, IInv, Types, Launching
<1>12. CASE /\ ~At("activate") /\ Finalizing /\ Stored(job.r, run[job.r].final)
            /\ t \in AfterAnswer \/ (pending[c] = 0 /\ t \in AfterClear)
  <2>1. Finalizing'
    BY <1>1, <1>2, <1>8, <1>9, <1>12 DEF Finalizing
  <2> QED BY <2>1, <1>1, <1>7, <1>8, <1>12, PhasesApart DEF JobOK, IInv, Types, Finalizing
<1>13. CASE ~At("activate") /\ Saving /\ t = <<>>
  BY <1>2, <1>7, <1>13, PhasesApart DEF JobOK, IInv, Types
<1>14. CASE ~At("activate") /\ up = "init" /\ Recovering /\ t \in BeforeClear \cup {<<>>}
  <2>1. JobOK'
    BY <1>1, <1>2, <1>14 DEF JobOK, Recovering
  <2> QED BY <2>1, <1>7, <1>14, PhasesApart DEF IInv, Types
<1> QED BY <1>1, <1>6, <1>10, <1>11, <1>12, <1>13, <1>14, SavePhase

\* New keeps the invariant.
LEMMA NewStep ==
  ASSUME IInv, New
  PROVE  IInv'
<1> DEFINE c == job.c
           t == Tail(job.todo)
           e == [None EXCEPT !.there = TRUE]
<1>1. /\ At("new") /\ job.todo # <<>> /\ Continue
      /\ meta' = [meta EXCEPT ![c] = e] /\ conv' = [conv EXCEPT ![c] = e]
      /\ UNCHANGED <<log, torn, pending, up, run, active, deleting, reported, removing>>
  BY DEF New, At, history
<1>2. /\ JobTypes' /\ c \in Conversation
      /\ job'.op = job.op /\ job'.c = c /\ job'.r = job.r /\ job'.todo = t
  BY <1>1, ContinueType DEF IInv, Types, JobTypes
<1>3. e \in EntryType /\ e.there
  BY StartTypes DEF None, EntryType
<1>4. Types' /\ conv'[c].there
  BY <1>1, <1>2, <1>3 DEF IInv, Types, DiskTypes, MemoryTypes
<1>5. \A d \in Conversation : conv[d].there => conv'[d].there
  BY <1>1, <1>2, <1>4 DEF IInv, Types, MemoryTypes
<1>6. SameRuns
  BY <1>1 DEF SameRuns
<1>7. LogOK'
  BY <1>1, <1>6, LogFrame
<1>8. CASE Starting /\ t \in BeforeUser /\ t # CreateSteps
  <2>1. Starting'
    BY <1>1, <1>2, <1>4, <1>8 DEF Starting, Of, Answers
  <2>2. ~Finalizing /\ Of("accepted")
    BY <1>8, PhasesApart DEF IInv, Types
  <2>3. up = "serving"
    BY <2>2 DEF Of, IInv, OwnerOK, Live
  <2>4. OwnerOK'
    BY <2>1, <1>1, <1>2, <1>6, OwnerFrame
  <2>5. RunOK'
    BY <2>2, <1>1, <1>5, <1>6, RunFrame
  <2> QED BY <2>1, <2>3, <2>4, <2>5, <1>1, <1>4, <1>7 DEF IInv, JobOK
<1>9. CASE Removing /\ t \in BeforeForget
  <2>1. Removing'
    BY <1>1, <1>2, <1>9 DEF Removing
  <2>2. ~Starting /\ ~Launching /\ ~Finalizing
    BY <1>1, <1>9, PhasesApart, BeforeAnswerSteps, AfterAnswerSteps, AfterClearSteps, WithoutAnswerSteps
       DEF IInv, Types, Finalizing, At
  <2>3. up = "serving"
    BY <2>2, <1>1, <1>9, RecoverySteps, BeforeClearSteps, SingleSteps DEF IInv, JobOK, At, Recovering
  <2>4. OwnerOK'
    BY <2>2, <1>1, <1>2, <1>6, OwnerFrame
  <2>5. RunOK'
    BY <2>2, <1>1, <1>5, <1>6, RunFrame
  <2> QED BY <2>1, <2>3, <2>4, <2>5, <1>1, <1>4, <1>7 DEF IInv, JobOK
<1> QED BY <1>1, <1>8, <1>9, StepPhase

\* Checkpoint keeps the invariant: a run that is running was not reported.
LEMMA CheckpointStep ==
  ASSUME IInv, Checkpoint
  PROVE  IInv'
<1> DEFINE c == job.c
           r == job.r
<1>1. /\ At("checkpoint") /\ job.todo # <<>> /\ Continue
      /\ pending' = [pending EXCEPT ![c] = r]
      /\ UNCHANGED <<meta, log, torn, up, conv, run, active, deleting, reported, removing>>
  BY DEF Checkpoint, At, memory
<1>2. Saving /\ job.op = "persist" /\ r \in Run /\ run[r].st = "running" /\ run[r].c = c
      /\ Tail(job.todo) = <<>>
  BY <1>1, StepPhase DEF Of
<1>3. /\ JobTypes' /\ c \in Conversation
      /\ job'.op = job.op /\ job'.c = c /\ job'.r = r /\ job'.todo = <<>>
  BY <1>1, <1>2, ContinueType DEF IInv, Types, JobTypes
<1>4. Types'
  BY <1>1, <1>2, <1>3 DEF IInv, Types, DiskTypes, MemoryTypes
<1>5. SameRuns /\ ~Starting /\ ~Launching /\ ~Finalizing
  BY <1>1, <1>2, PhasesApart DEF SameRuns, IInv, Types
<1>6. JobOK' /\ OwnerOK' /\ RunOK'
  BY <1>1, <1>3, <1>5, OwnerFrame, RunFrame DEF JobOK
<1>7. LogOK'
  <2>1. reported[r] = "no"
    BY <1>2 DEF IInv, RunOK
  <2>2. ASSUME NEW d \in Conversation, pending'[d] # 0
        PROVE  /\ run[pending'[d]].c = d /\ run[pending'[d]].st # "unused"
               /\ d \in removing \/ reported[pending'[d]] = "no"
    BY <2>1, <2>2, <1>1, <1>2, <1>3 DEF IInv, LogOK, Types, DiskTypes
  <2> QED BY <2>2, <1>1 DEF IInv, LogOK
<1> QED BY <1>4, <1>6, <1>7 DEF IInv

\* Clear keeps the invariant.
LEMMA ClearStep ==
  ASSUME IInv, Clear
  PROVE  IInv'
<1> DEFINE c == job.c
           t == Tail(job.todo)
<1>1. /\ At("clear") /\ job.todo # <<>> /\ Continue
      /\ pending' = [pending EXCEPT ![c] = 0]
      /\ UNCHANGED <<meta, log, torn, up, conv, run, active, deleting, reported, removing>>
  BY DEF Clear, At, memory, history
<1>2. /\ JobTypes' /\ c \in Conversation
      /\ job'.op = job.op /\ job'.c = c /\ job'.r = job.r /\ job'.todo = t
  BY <1>1, ContinueType DEF IInv, Types, JobTypes
<1>3. Types' /\ pending'[c] = 0
  BY <1>1, <1>2 DEF IInv, Types, DiskTypes, MemoryTypes
<1>4. SameRuns
  BY <1>1 DEF SameRuns
<1>5. LogOK'
  <2>1. \A d \in Conversation : pending'[d] \in {pending[d], 0}
    BY <1>1, <1>2 DEF IInv, Types, DiskTypes
  <2> QED BY <2>1, <1>1, <1>4, LogFrame
<1>6. CASE Finalizing /\ Stored(job.r, run[job.r].final) /\ t \in AfterClear
  <2>1. Stored(job.r, run[job.r].final)' /\ Of("running")' /\ up = "serving"
    BY <1>1, <1>2, <1>6 DEF Stored, Answers, Finalizing, Of, IInv, OwnerOK, Live
  <2>2. Finalizing'
    BY <2>1, <1>1, <1>2, <1>3, <1>6 DEF Finalizing
  <2>3. JobOK' /\ OwnerOK' /\ RunOK'
    BY <2>1, <2>2, <1>1, <1>2, <1>4, <1>6, PhasesApart, OwnerFrame, RunFrame DEF JobOK, IInv, Types
  <2> QED BY <2>3, <1>3, <1>5 DEF IInv
<1>7. CASE Finalizing /\ c \in removing /\ t \in WithoutAnswer
  <2>1. Of("running")' /\ up = "serving"
    BY <1>1, <1>2, <1>7 DEF Finalizing, Of, IInv, OwnerOK, Live
  <2>2. Finalizing'
    BY <2>1, <1>1, <1>2, <1>7 DEF Finalizing
  <2>3. JobOK' /\ OwnerOK' /\ RunOK'
    BY <2>1, <2>2, <1>1, <1>2, <1>4, <1>7, PhasesApart, OwnerFrame, RunFrame DEF JobOK, IInv, Types
  <2> QED BY <2>3, <1>3, <1>5 DEF IInv
<1>8. CASE up = "init" /\ Recovering /\ t \in {<<"inactive">>, <<>>}
  <2>1. JobOK'
    BY <1>1, <1>2, <1>8 DEF JobOK, Recovering
  <2>2. OwnerOK' /\ RunOK'
    BY <1>1, <1>2, <1>4, <1>8, PhasesApart, OwnerFrame, RunFrame DEF IInv, Types
  <2> QED BY <2>1, <2>2, <1>3, <1>5 DEF IInv
<1> QED BY <1>1, <1>6, <1>7, <1>8, StepPhase

\* A removal that is at its end is the only handler.
LEMMA RemovingAlone ==
  ASSUME IInv, Removing, At("forget") \/ At("remove")
  PROVE  up = "serving" /\ ~Starting /\ ~Launching /\ ~Finalizing /\ ~Recovering
<1>1. ~Finalizing
  BY BeforeAnswerSteps, AfterAnswerSteps, AfterClearSteps, WithoutAnswerSteps DEF Finalizing, At
<1>2. ~Recovering
  BY RecoverySteps, BeforeClearSteps, SingleSteps DEF Recovering, At
<1>3. ~Starting /\ ~Launching
  BY PhasesApart DEF IInv, Types
<1> QED BY <1>1, <1>2, <1>3 DEF IInv, JobOK, At

\* Forget keeps the invariant.
LEMMA ForgetStep ==
  ASSUME IInv, Forget
  PROVE  IInv'
<1> DEFINE c == job.c
<1>1. /\ At("forget") /\ job.todo # <<>> /\ Continue
      /\ conv' = [conv EXCEPT ![c] = None] /\ deleting' = deleting \ {c}
      /\ removing' = removing \cup {c}
      /\ UNCHANGED <<meta, log, torn, pending, up, run, active, reported>>
  BY DEF Forget, At, disk
<1>2. /\ JobTypes' /\ c \in Conversation
      /\ job'.op = job.op /\ job'.c = c /\ job'.r = job.r /\ job'.todo = Tail(job.todo)
  BY <1>1, ContinueType DEF IInv, Types, JobTypes
<1>3. Types'
  BY <1>1, <1>2, StartTypes DEF IInv, Types, DiskTypes, MemoryTypes
<1>4. Removing /\ Tail(job.todo) \in AfterForget
  BY <1>1, StepPhase
<1>5. SameRuns
  BY <1>1 DEF SameRuns
<1>6. up = "serving" /\ ~Starting /\ ~Launching /\ ~Finalizing
  BY <1>1, <1>4, RemovingAlone
<1>7. JobOK'
  <2>1. Removing'
    BY <1>1, <1>2, <1>4 DEF Removing
  <2> QED BY <2>1, <1>1, <1>6 DEF JobOK
<1>8. \A d \in Conversation : d \in removing' \/ conv'[d] = conv[d]
  BY <1>1, <1>2 DEF IInv, Types, MemoryTypes
<1>9. OwnerOK' /\ LogOK'
  BY <1>1, <1>2, <1>5, <1>6, OwnerFrame, LogFrame
<1>10. RunOK'
  BY <1>1, <1>5, <1>6, <1>8, RunFrame
<1> QED BY <1>3, <1>7, <1>9, <1>10 DEF IInv

\* RemoveFile keeps the invariant.
LEMMA RemoveFileStep ==
  ASSUME IInv, RemoveFile
  PROVE  IInv'
<1> DEFINE c == job.c
<1>1. /\ At("remove") /\ job.todo # <<>>
      /\ UNCHANGED <<up, conv, run, active, deleting, job, reported, removing>>
  BY DEF RemoveFile, At, memory, history
<1>2. Removing /\ c \in removing /\ c \in Conversation
  BY <1>1, StepPhase DEF IInv, Types, JobTypes
<1>3. /\ meta' = meta \/ meta' = [meta EXCEPT ![c] = None]
      /\ \/ log' = log /\ torn' = torn
         \/ log' = [log EXCEPT ![c] = <<>>] /\ torn' = [torn EXCEPT ![c] = FALSE]
      /\ pending' = pending \/ pending' = [pending EXCEPT ![c] = 0]
  BY DEF RemoveFile
<1>4. Types'
  <2>1. <<>> \in Seq(MessageType)
    OBVIOUS
  <2>2. None \in EntryType
    BY StartTypes
  <2>3. meta' \in [Conversation -> EntryType]
    BY <2>2, <1>3 DEF IInv, Types, DiskTypes
  <2>4. pending' \in [Conversation -> Run \cup {0}]
    BY <1>3 DEF IInv, Types, DiskTypes
  <2>5. log' \in [Conversation -> Seq(MessageType)]
    BY <2>1, <1>3 DEF IInv, Types, DiskTypes
  <2>6. torn' \in [Conversation -> BOOLEAN]
    BY <1>3 DEF IInv, Types, DiskTypes
  <2> QED BY <2>3, <2>4, <2>5, <2>6, <1>1 DEF IInv, Types, DiskTypes, MemoryTypes, JobTypes
<1>5. SameRuns
  BY <1>1 DEF SameRuns
<1>6. up = "serving" /\ ~Starting /\ ~Launching /\ ~Finalizing
  BY <1>1, <1>2, RemovingAlone
<1>7. JobOK'
  <2>1. Removing'
    BY <1>1, <1>2 DEF Removing
  <2> QED BY <2>1, <1>1, <1>6 DEF JobOK
<1>8. \A d \in Conversation :
        /\ log'[d] \in {log[d], <<>>} /\ pending'[d] \in {pending[d], 0}
        /\ d \in removing \/ (log'[d] = log[d] /\ torn'[d] = torn[d])
  BY <1>2, <1>3 DEF IInv, Types, DiskTypes
<1>9. OwnerOK' /\ LogOK'
  BY <1>1, <1>5, <1>6, <1>8, OwnerFrame, LogFrame
<1>10. RunOK'
  BY <1>1, <1>5, <1>6, <1>8, RunFrame
<1> QED BY <1>4, <1>7, <1>9, <1>10 DEF IInv

\* Removed keeps the invariant.
LEMMA RemovedStep ==
  ASSUME IInv, Removed
  PROVE  IInv'
<1>1. /\ At("remove") /\ job.todo # <<>> /\ Continue
      /\ UNCHANGED <<meta, log, torn, pending, up, conv, run, active, deleting, reported, removing>>
  BY DEF Removed, At, disk, memory
<1>2. Removing /\ Tail(job.todo) = <<>>
  BY <1>1, StepPhase
<1>3. JobTypes' /\ job'.r = job.r /\ job'.todo = <<>>
  BY <1>1, <1>2, ContinueType DEF IInv, Types
<1>4. Types' /\ JobOK'
  BY <1>1, <1>3 DEF IInv, Types, DiskTypes, MemoryTypes, JobOK
<1>5. SameRuns
  BY <1>1 DEF SameRuns
<1>6. ~Starting /\ ~Launching /\ ~Finalizing
  BY <1>1, <1>2, RemovingAlone
<1>7. OwnerOK' /\ LogOK' /\ RunOK'
  BY <1>1, <1>3, <1>5, <1>6, OwnerFrame, LogFrame, RunFrame
<1> QED BY <1>4, <1>7 DEF IInv

\* What is left of LogOK when a run changes its status, but not to unused.
LEMMA LogKept ==
  ASSUME IInv, UNCHANGED <<log, pending, reported, removing>>,
         \A r \in Run : run'[r].c = run[r].c /\ (run[r].st # "unused" => run'[r].st # "unused")
  PROVE  LogOK'
<1> SUFFICES ASSUME NEW c \in Conversation
    PROVE  /\ \A i \in DOMAIN log[c] : run'[log[c][i].run].c = c /\ run'[log[c][i].run].st # "unused"
           /\ pending[c] # 0 =>
                /\ run'[pending[c]].c = c /\ run'[pending[c]].st # "unused"
                /\ c \in removing \/ reported[pending[c]] = "no"
  BY DEF LogOK
<1>1. \A i \in DOMAIN log[c] : log[c][i].run \in Run
  BY LineTypes DEF IInv, Types, MessageType
<1>2. pending[c] \in Run \cup {0}
  BY DEF IInv, Types, DiskTypes
<1> QED BY <1>1, <1>2 DEF IInv, LogOK

\* Launch keeps the invariant.
LEMMA LaunchStep ==
  ASSUME IInv, Launch
  PROVE  IInv'
<1> DEFINE c == job.c
           r == job.r
           x == [run[r] EXCEPT !.st = "running"]
<1>1. /\ At("launch") /\ job.todo # <<>> /\ Continue
      /\ UNCHANGED <<meta, log, torn, pending, up, conv, active, deleting, reported, removing>>
  BY DEF Launch, At, disk, history
<1>2. Launching /\ Tail(job.todo) = <<>>
  BY <1>1, StepPhase
<1>3. r \in Run /\ run[r].st = "accepted" /\ run[r].c = c /\ active[c] = r /\ conv[c].there /\ Clean(r)
  BY <1>2 DEF Launching, Of
<1>4. /\ JobTypes' /\ c \in Conversation
      /\ job'.op = job.op /\ job'.c = c /\ job'.r = r /\ job'.todo = <<>>
  BY <1>1, <1>2, ContinueType DEF IInv, Types, JobTypes
<1>5. x \in RunType /\ x.st = "running" /\ x.c = c
  BY <1>3 DEF IInv, Types, MemoryTypes, RunType
<1>6. run'[r].st = "running" /\ run'[r].c = c /\ \A s \in Run : s # r => run'[s] = run[s]
  BY <1>3, <1>5 DEF Launch, IInv, Types, MemoryTypes
<1>7. Types' /\ JobOK'
  <2>1. run' \in [Run -> RunType]
    BY <1>3, <1>5 DEF Launch, IInv, Types, MemoryTypes
  <2> QED BY <2>1, <1>1, <1>4 DEF IInv, Types, DiskTypes, MemoryTypes, JobOK
<1>8. up = "serving" /\ \A s \in Run : run[s].st = "accepted" => s = r
  BY <1>3 DEF IInv, OwnerOK, Live
<1>9. OwnerOK'
  <2>1. \A s \in Run : run'[s].st \in {"running", "stuck"} => active[run'[s].c] = s
    BY <1>3, <1>6 DEF IInv, OwnerOK
  <2>2. \A s \in Run : run'[s].st # "accepted"
    BY <1>6, <1>8
  <2>3. ASSUME NEW d \in Conversation, active[d] # 0
        PROVE  run'[active[d]].c = d /\ run'[active[d]].st \in {"accepted", "running", "stuck"}
    <3>1. active[d] \in Run
      BY <2>3 DEF IInv, Types, MemoryTypes
    <3> QED BY <3>1, <2>3, <1>3, <1>6 DEF IInv, OwnerOK, Live
  <2> QED BY <2>1, <2>2, <2>3, <1>1, <1>8 DEF OwnerOK, Live
<1>10. LogOK'
  <2>1. \A s \in Run : run'[s].c = run[s].c /\ (run[s].st # "unused" => run'[s].st # "unused")
    BY <1>3, <1>6
  <2> QED BY <2>1, <1>1, LogKept
<1>11. RunOK'
  <2>1. ~Finalizing
    BY <1>2, PhasesApart DEF IInv, Types
  <2>2. ASSUME NEW s \in Run, s # r
        PROVE  /\ reported'[s] # "no" => run'[s].st \in {"done", "gone"} /\ Stored(s, reported[s])'
               /\ run'[s].st = "running" =>
                    (conv'[run'[s].c].there \/ run'[s].c \in removing') /\ Clean(s)'
    <3>1. run'[s] = run[s] /\ Answers(run[s].c, s)' = Answers(run[s].c, s)
      BY <2>2, <1>1, <1>6 DEF Answers
    <3> QED BY <3>1, <2>1, <1>1, OtherRun
  <2>3. reported'[r] = "no"
    BY <1>1, <1>3 DEF IInv, RunOK
  <2>4. ASSUME NEW s \in Run, s = r
        PROVE  Clean(s)'
    BY <2>4, <1>1, <1>3, <1>6 DEF Clean, Answers
  <2> QED BY <2>2, <2>3, <2>4, <1>1, <1>3, <1>6 DEF RunOK
<1> QED BY <1>7, <1>9, <1>10, <1>11 DEF IInv

\* Finish keeps the invariant: what is reported is stored, and no checkpoint is left.
LEMMA FinishStep ==
  ASSUME IInv, Finish
  PROVE  IInv'
<1> DEFINE c == job.c
           r == job.r
           x == [NoRun EXCEPT !.st = "done", !.c = c, !.naming = run[r].naming]
<1>1. /\ At("finish") /\ job.todo # <<>>
      /\ active' = [active EXCEPT ![c] = 0] /\ reported' = [reported EXCEPT ![r] = run[r].final]
      /\ UNCHANGED <<meta, log, torn, pending, up, conv, deleting, removing>>
  BY DEF Finish, At, disk
<1>2. /\ Finalizing /\ Tail(job.todo) = <<>>
      /\ c \in removing \/ (Stored(r, run[r].final) /\ pending[c] = 0)
  BY <1>1, StepPhase
<1>3. /\ r \in Run /\ run[r].st = "running" /\ run[r].c = c /\ c \in Conversation /\ run[r] \in RunType
      /\ run[r].final \in Outcome
  BY <1>2 DEF Finalizing, Of, IInv, Types, JobTypes, MemoryTypes, RunType
<1>4. x \in RunType /\ x.st = "done" /\ x.c = c
  BY <1>3, StartTypes DEF NoRun, RunType
<1>5. run' \in [Run -> RunType] /\ run'[r].st = "done" /\ run'[r].c = c
      /\ \A s \in Run : s # r => run'[s] = run[s]
  BY <1>3, <1>4 DEF Finish, IInv, Types, MemoryTypes
<1>6. active[c] = r /\ up = "serving" /\ \A s \in Run : run[s].st # "accepted"
  BY <1>2, <1>3, PhasesApart DEF IInv, Types, OwnerOK, Live
<1>7. JobTypes' /\ JobOK'
  <2>1. CASE c \in deleting
    <3>1. JobTypes' /\ job'.op = "delete" /\ job'.todo = DeleteSteps
      BY <2>1, <1>3, BeginType DEF Finish
    <3>2. Removing'
      BY <3>1 DEF Removing, BeforeForget
    <3> QED BY <3>1, <3>2, <1>1, <1>6 DEF JobOK
  <2>2. CASE c \notin deleting
    BY <2>2, <1>2, ContinueType DEF Finish, IInv, Types, JobOK
  <2> QED BY <2>1, <2>2
<1>8. Types'
  BY <1>1, <1>3, <1>5, <1>7 DEF IInv, Types, DiskTypes, MemoryTypes
<1>9. OwnerOK'
  <2>1. ASSUME NEW s \in Run, run'[s].st \in {"running", "stuck"}
        PROVE  active'[run'[s].c] = s
    <3>1. s # r /\ run'[s] = run[s] /\ run[s].c \in Conversation
      BY <2>1, <1>5 DEF IInv, Types, MemoryTypes, RunType
    <3>2. active[run[s].c] = s
      BY <2>1, <3>1 DEF IInv, OwnerOK
    <3> QED BY <3>1, <3>2, <1>1, <1>6 DEF IInv, Types, MemoryTypes
  <2>2. \A s \in Run : run'[s].st # "accepted"
    BY <1>5, <1>6
  <2>3. ASSUME NEW d \in Conversation, active'[d] # 0
        PROVE  run'[active'[d]].c = d /\ run'[active'[d]].st \in {"accepted", "running", "stuck"}
    <3>1. d # c /\ active'[d] = active[d] /\ active[d] \in Run
      BY <2>3, <1>1, <1>3 DEF IInv, Types, MemoryTypes
    <3>2. run[active[d]].c = d /\ Live(active[d])
      BY <2>3, <3>1 DEF IInv, OwnerOK
    <3> QED BY <3>1, <3>2, <1>3, <1>5 DEF Live
  <2> QED BY <2>1, <2>2, <2>3, <1>1, <1>6 DEF OwnerOK, Live
<1>10. LogOK'
  <2> SUFFICES ASSUME NEW d \in Conversation
      PROVE  /\ \A i \in DOMAIN log[d] : run'[log[d][i].run].c = d /\ run'[log[d][i].run].st # "unused"
             /\ pending[d] # 0 =>
                  /\ run'[pending[d]].c = d /\ run'[pending[d]].st # "unused"
                  /\ d \in removing \/ reported'[pending[d]] = "no"
    BY <1>1 DEF LogOK
  <2>1. \A i \in DOMAIN log[d] : log[d][i].run \in Run
    BY LineTypes DEF IInv, Types, MessageType
  <2>2. pending[d] \in Run \cup {0}
    BY DEF IInv, Types, DiskTypes
  <2>3. pending[d] = r => d = c
    BY <1>3, RunsAssumption DEF IInv, LogOK
  <2>4. \A s \in Run : s # r => reported'[s] = reported[s]
    BY <1>1 DEF IInv, Types
  <2>5. \A s \in Run : run'[s].c = run[s].c /\ (run[s].st # "unused" => run'[s].st # "unused")
    BY <1>3, <1>5
  <2>6. \A i \in DOMAIN log[d] : run'[log[d][i].run].c = d /\ run'[log[d][i].run].st # "unused"
    BY <2>1, <2>5 DEF IInv, LogOK
  <2>7. pending[d] # 0 => d \in removing \/ reported'[pending[d]] = "no"
    <3>1. CASE pending[d] = r
      BY <3>1, <2>3, <1>2
    <3>2. CASE pending[d] # r
      BY <3>2, <2>2, <2>4 DEF IInv, LogOK
    <3> QED BY <3>1, <3>2
  <2> QED BY <2>2, <2>5, <2>6, <2>7 DEF IInv, LogOK
<1>11. RunOK'
  <2>1. ASSUME NEW s \in Run, s # r
        PROVE  /\ reported'[s] # "no" => run'[s].st \in {"done", "gone"} /\ Stored(s, reported[s])'
               /\ run'[s].st = "running" =>
                    (conv'[run'[s].c].there \/ run'[s].c \in removing') /\ Clean(s)'
    <3>1. run'[s] = run[s] /\ reported'[s] = reported[s]
      BY <2>1, <1>1, <1>5 DEF IInv, Types
    <3>2. Stored(s, reported[s]) => Stored(s, reported[s])'
      BY <3>1, <1>1 DEF Stored, Answers
    <3>3. Clean(s) => Clean(s)'
      BY <3>1, <1>1 DEF Clean, Answers
    <3> QED BY <2>1, <3>1, <3>2, <3>3, <1>1 DEF IInv, RunOK
  <2>2. ASSUME NEW s \in Run, s = r
        PROVE  Stored(s, reported[s])'
    <3>1. reported'[s] = run[s].final
      BY <2>2, <1>1, <1>3 DEF IInv, Types
    <3>2. c \in removing \/ Stored(s, run[s].final)
      BY <2>2, <1>2
    <3> QED BY <2>2, <3>1, <3>2, <1>1, <1>3, <1>5 DEF Stored, Answers
  <2> QED BY <2>1, <2>2, <1>3, <1>5 DEF RunOK
<1> QED BY <1>7, <1>8, <1>9, <1>10, <1>11 DEF IInv

\* The steps of a handler keep the invariant.
LEMMA StepKeeps ==
  ASSUME IInv, Step
  PROVE  IInv'
BY AppendUserStep, AppendAnswerStep, AppendRecoveredStep, SaveStepKeeps, NewStep, LaunchStep,
   CheckpointStep, ClearStep, FinishStep, ForgetStep, RemoveFileStep, RemovedStep DEF Step

-----------------------------------------------------------------------------
(* Faults and the start of the process.                                    *)

\* A line that is cut short is of the conversation of the handler.
LEMMA CutShortType ==
  ASSUME IInv, CutShort
  PROVE  torn' \in [Conversation -> BOOLEAN]
BY DEF IInv, Types, DiskTypes, JobTypes, CutShort

\* The death of the process keeps the invariant.
LEMMA DeadStep ==
  ASSUME IInv, CutShort, Dead, UNCHANGED <<meta, log, pending, reported, removing>>
  PROVE  IInv'
<1>1. /\ up' = "down" /\ job' = Idle /\ deleting' = {}
      /\ conv' = [c \in Conversation |-> None] /\ active' = [c \in Conversation |-> 0]
      /\ run' = [r \in Run |-> IF run[r].st = "unused" THEN NoRun
                                 ELSE [NoRun EXCEPT !.st = "gone", !.c = run[r].c]]
  BY DEF Dead
<1>2. \A c \in Conversation : [NoRun EXCEPT !.st = "gone", !.c = c] \in RunType
                              /\ [NoRun EXCEPT !.st = "gone", !.c = c].st = "gone"
                              /\ [NoRun EXCEPT !.st = "gone", !.c = c].c = c
  BY StartTypes DEF NoRun, RunType
<1>3. \A r \in Run : run[r] \in RunType /\ run[r].c \in Conversation
  BY DEF IInv, Types, MemoryTypes, RunType
<1>4. \A r \in Run :
        /\ run'[r] \in RunType /\ run'[r].st \in {"unused", "gone"}
        /\ run[r].st # "unused" => run'[r].st = "gone" /\ run'[r].c = run[r].c
  BY <1>1, <1>2, <1>3, StartTypes DEF NoRun
<1>5. run' \in [Run -> RunType]
  BY <1>1, <1>4
<1>6. Types'
  <2>1. JobTypes'
    <3>1. Idle.op = "none" /\ Idle.r = 0 /\ Idle.todo = <<>> /\ Idle.c \in Conversation
      BY StartTypes
    <3>2. Idle = [op |-> Idle.op, c |-> Idle.c, r |-> Idle.r, todo |-> Idle.todo]
      BY <3>1, StartTypes
    <3> QED BY <3>1, <3>2, <1>1 DEF JobTypes
  <2>2. conv' \in [Conversation -> EntryType] /\ active' \in [Conversation -> Run \cup {0}]
    BY <1>1, StartTypes
  <2>3. torn' \in [Conversation -> BOOLEAN]
    BY CutShortType
  <2>4. DiskTypes'
    BY <2>3 DEF IInv, Types, DiskTypes
  <2>5. MemoryTypes'
    BY <1>1, <1>5, <2>2 DEF MemoryTypes
  <2>6. reported' \in [Run -> Outcome \cup {"no"}]
    BY DEF IInv, Types
  <2> QED BY <2>1, <2>4, <2>5, <2>6 DEF Types
<1>7. JobOK'
  <2>1. Idle.todo = <<>>
    BY StartTypes
  <2> QED BY <2>1, <1>1 DEF JobOK
<1>8. OwnerOK'
  BY <1>1, <1>4 DEF OwnerOK, Live
<1>9. LogOK'
  <2> SUFFICES ASSUME NEW c \in Conversation
      PROVE  /\ \A i \in DOMAIN log[c] : run'[log[c][i].run].c = c /\ run'[log[c][i].run].st # "unused"
             /\ pending[c] # 0 =>
                  /\ run'[pending[c]].c = c /\ run'[pending[c]].st # "unused"
                  /\ c \in removing \/ reported[pending[c]] = "no"
    BY DEF LogOK
  <2>1. \A i \in DOMAIN log[c] : log[c][i].run \in Run
    BY LineTypes DEF IInv, Types, MessageType
  <2>2. pending[c] \in Run \cup {0}
    BY DEF IInv, Types, DiskTypes
  <2>3. \A r \in Run : run[r].st # "unused" => run'[r].st # "unused" /\ run'[r].c = run[r].c
    BY <1>4
  <2> QED BY <2>1, <2>2, <2>3 DEF IInv, LogOK
<1>10. RunOK'
  <2> SUFFICES ASSUME NEW r \in Run
      PROVE  /\ reported[r] # "no" => run'[r].st \in {"done", "gone"} /\ Stored(r, reported[r])'
             /\ run'[r].st # "running"
    BY DEF RunOK
  <2>1. ASSUME reported[r] # "no"
        PROVE  run'[r].st \in {"done", "gone"} /\ Stored(r, reported[r])'
    <3>1. run[r].st \in {"done", "gone"} /\ Stored(r, reported[r])
      BY <2>1 DEF IInv, RunOK
    <3>2. run'[r].st = "gone" /\ run'[r].c = run[r].c
      BY <3>1, <1>4
    <3> QED BY <3>1, <3>2 DEF Stored, Answers
  <2> QED BY <2>1, <1>4
<1> QED BY <1>6, <1>7, <1>8, <1>9, <1>10 DEF IInv

\* Crash and ThrowInit keep the invariant.
LEMMA CrashStep ==
  ASSUME IInv, Crash \/ ThrowInit
  PROVE  IInv'
BY DeadStep DEF Crash, ThrowInit

\* A throw changes the run of the handler.
Hit == job.op \in {"create", "start", "finalize"} /\ job.r # 0 /\ run[job.r].st # "unused"

\* What the run of a handler is when a write of it throws.
LEMMA ThrowPhase ==
  ASSUME IInv, up = "serving", job.todo # <<>>
  PROVE  /\ Hit => /\ job.r \in Run /\ run[job.r].c = job.c
                   /\ \/ run[job.r].st \in {"accepted", "running"}
                      \/ Removing /\ run[job.r].st \in {"stuck", "gone"}
         /\ ~Hit => ~Starting /\ ~Launching /\ ~Finalizing
         /\ Starting \/ Launching \/ Finalizing \/ Removing \/ Saving
<1>1. Starting \/ Launching \/ Finalizing => Hit
  BY RunsAssumption DEF Starting, Launching, Finalizing, Of, Hit
<1>2. Starting \/ Launching \/ Finalizing \/ Removing \/ Saving
  BY DEF IInv, JobOK
<1>3. Saving => ~Hit
  BY DEF Saving, Hit
<1>4. Starting \/ Launching \/ Finalizing =>
        job.r \in Run /\ run[job.r].c = job.c /\ run[job.r].st \in {"accepted", "running"}
  BY DEF Starting, Launching, Finalizing, Of
<1>5. Removing /\ Hit =>
        job.r \in Run /\ run[job.r].c = job.c /\ run[job.r].st \in {"stuck", "gone"}
  BY DEF Removing, Hit
<1> QED BY <1>1, <1>2, <1>3, <1>4, <1>5

\* Throw keeps the invariant: a run is stuck exactly when it holds its conversation.
LEMMA ThrowStep ==
  ASSUME IInv, Throw
  PROVE  IInv'
<1> DEFINE c == job.c
           r == job.r
<1>1. /\ up = "serving" /\ job.todo # <<>> /\ Head(job.todo) \notin {"launch", "finish", "forget"}
      /\ CutShort
      /\ IF Head(job.todo) \in SaveStep THEN PrepareSave ELSE UNCHANGED <<conv, active>>
      /\ run' = IF Hit THEN [run EXCEPT ![r] = Thrown(r)] ELSE run
      /\ job' = IF job.op = "create" /\ Head(job.todo) \notin {"new", "remove"}
                  THEN [job EXCEPT !.todo = DeleteSteps] ELSE [job EXCEPT !.todo = <<>>]
      /\ UNCHANGED <<meta, log, pending, up, deleting, reported, removing>>
  BY DEF Throw, Hit
<1>2. c \in Conversation /\ r \in Run \cup {0}
  BY DEF IInv, Types, JobTypes
<1>3. /\ Hit => /\ r \in Run /\ run[r].c = c
                /\ \/ run[r].st \in {"accepted", "running"}
                   \/ Removing /\ run[r].st \in {"stuck", "gone"}
      /\ ~Hit => ~Starting /\ ~Launching /\ ~Finalizing
      /\ Starting \/ Launching \/ Finalizing \/ Removing \/ Saving
  BY <1>1, ThrowPhase
<1>4. SameThere /\ conv' \in [Conversation -> EntryType]
  <2>1. conv' = conv \/ conv' = [conv EXCEPT ![c] = Prepared]
    BY <1>1 DEF PrepareSave
  <2>2. Prepared \in EntryType /\ Prepared.there = conv[c].there
    BY PreparedType DEF IInv, Types
  <2> QED BY <2>1, <2>2, <1>2 DEF SameThere, IInv, Types, MemoryTypes
<1>5. \/ active' = active
      \/ active' = [active EXCEPT ![c] = r] /\ Starting
  <2>1. At("activate") => Starting
    <3>1. At("activate") => Head(job.todo) \in SaveStep
      BY DEF At, SaveStep
    <3> QED BY <3>1, <1>1, SavePhase
  <2> QED BY <2>1, <1>1 DEF PrepareSave
<1>6. active' \in [Conversation -> Run \cup {0}] /\ \A d \in Conversation : d # c => active'[d] = active[d]
  BY <1>2, <1>5 DEF IInv, Types, MemoryTypes
<1>7. \A s \in Run : ~Hit \/ s # r => run'[s] = run[s]
  BY <1>1 DEF IInv, Types, MemoryTypes
<1>8. ASSUME Hit
      PROVE  /\ run'[r] \in RunType /\ run'[r].c = c
             /\ run'[r].st = IF active'[c] = r THEN "stuck" ELSE "gone"
  <2>1. run[r] \in RunType
    BY <1>3, <1>8 DEF IInv, Types, MemoryTypes
  <2>2. /\ Thrown(r) \in RunType /\ Thrown(r).c = run[r].c
        /\ Thrown(r).st = IF active'[c] = r THEN "stuck" ELSE "gone"
    BY <2>1 DEF Thrown, RunType
  <2>3. run'[r] = Thrown(r)
    BY <1>1, <1>3, <1>8 DEF IInv, Types, MemoryTypes
  <2> QED BY <2>2, <2>3, <1>3, <1>8
<1>9. run' \in [Run -> RunType]
  BY <1>1, <1>7, <1>8 DEF IInv, Types, MemoryTypes
<1>10. JobTypes' /\ job'.op = job.op /\ job'.c = c /\ job'.r = r
       /\ job'.todo = IF job.op = "create" /\ Head(job.todo) \notin {"new", "remove"}
                        THEN DeleteSteps ELSE <<>>
  BY <1>1 DEF IInv, Types, JobTypes
<1>11. Types'
  <2>1. torn' \in [Conversation -> BOOLEAN]
    BY <1>1, CutShortType
  <2>2. DiskTypes' /\ reported' \in [Run -> Outcome \cup {"no"}]
    BY <2>1, <1>1 DEF IInv, Types, DiskTypes
  <2>3. MemoryTypes'
    BY <1>1, <1>4, <1>6, <1>9 DEF IInv, Types, MemoryTypes
  <2> QED BY <2>2, <2>3, <1>10 DEF Types
<1>12. JobOK'
  <2>1. CASE job'.todo = <<>>
    BY <2>1 DEF JobOK
  <2>2. CASE job'.todo = DeleteSteps /\ job.op = "create"
    <3>1. r # 0 => Hit
      <4>1. CASE Starting \/ Launching \/ Finalizing
        BY <4>1, <1>3
      <4>2. CASE Removing
        BY <4>2, <2>2 DEF Removing, Hit
      <4>3. CASE Saving
        BY <4>3, <2>2 DEF Saving
      <4> QED BY <4>1, <4>2, <4>3, <1>3
    <3>2. Removing'
      BY <3>1, <2>2, <1>3, <1>8, <1>10 DEF Removing, BeforeForget
    <3> QED BY <3>2, <1>1 DEF JobOK
  <2> QED BY <2>1, <2>2, <1>10
<1>13. OwnerOK'
  <2>1. ASSUME NEW s \in Run, run'[s].st \in {"running", "stuck"}
        PROVE  active'[run'[s].c] = s
    <3>1. CASE Hit /\ s = r
      BY <2>1, <3>1, <1>8
    <3>2. CASE ~Hit \/ s # r
      <4>1. run'[s] = run[s] /\ active[run[s].c] = s /\ run[s].c \in Conversation
        BY <2>1, <3>2, <1>7 DEF IInv, OwnerOK, Types, MemoryTypes, RunType
      <4>2. Starting => run[s].c # c
        BY <4>1, RunsAssumption DEF Starting
      <4> QED BY <4>1, <4>2, <1>5, <1>6
    <3> QED BY <3>1, <3>2
  <2>2. ASSUME NEW s \in Run
        PROVE  run'[s].st # "accepted"
    <3>1. run[s].st = "accepted" => s = r /\ (Starting \/ Launching)
      BY DEF IInv, OwnerOK
    <3> QED BY <3>1, <1>3, <1>7, <1>8
  <2>3. ASSUME NEW d \in Conversation, active'[d] # 0
        PROVE  run'[active'[d]].c = d /\ run'[active'[d]].st \in {"accepted", "running", "stuck"}
    <3> DEFINE s == active'[d]
    <3>1. s \in Run
      BY <2>3, <1>6
    <3>2. CASE Hit /\ s = r
      <4>1. d = c
        <5>1. CASE active'[d] = active[d]
          BY <5>1, <3>1, <3>2, <1>3, <2>3 DEF IInv, OwnerOK
        <5>2. CASE active'[d] # active[d]
          BY <5>2, <1>6
        <5> QED BY <5>1, <5>2
      <4> QED BY <4>1, <3>1, <3>2, <1>8
    <3>3. CASE ~Hit \/ s # r
      <4>1. active'[d] = active[d]
        <5>1. Starting => Hit
          BY <1>3
        <5> QED BY <5>1, <3>3, <1>2, <1>5 DEF IInv, Types, MemoryTypes
      <4>2. run[active[d]].c = d /\ Live(active[d])
        BY <4>1, <2>3 DEF IInv, OwnerOK
      <4> QED BY <4>1, <4>2, <3>1, <3>3, <1>7 DEF Live
    <3> QED BY <3>2, <3>3
  <2> QED BY <2>1, <2>2, <2>3, <1>1 DEF OwnerOK, Live
<1>14. LogOK'
  <2>1. \A s \in Run : run'[s].c = run[s].c /\ (run[s].st # "unused" => run'[s].st # "unused")
    BY <1>3, <1>7, <1>8
  <2> QED BY <2>1, <1>1, LogKept
<1>15. RunOK'
  <2> SUFFICES ASSUME NEW s \in Run
      PROVE  /\ reported[s] # "no" => run'[s].st \in {"done", "gone"} /\ Stored(s, reported[s])'
             /\ run'[s].st = "running" =>
                  (conv'[run'[s].c].there \/ run'[s].c \in removing) /\ Clean(s)'
    BY <1>1 DEF RunOK
  <2>1. run'[s].c = run[s].c /\ run[s].c \in Conversation
    BY <1>3, <1>7, <1>8 DEF IInv, Types, MemoryTypes, RunType
  <2>2. Stored(s, reported[s]) => Stored(s, reported[s])'
    BY <2>1, <1>1 DEF Stored, Answers
  <2>3. CASE Hit /\ s = r
    <3>1. run'[s].st # "running"
      BY <2>3, <1>8
    <3>2. ASSUME reported[s] # "no"
          PROVE  run'[s].st = "gone"
      <4>1. run[r].st = "gone" /\ Removing
        BY <3>2, <2>3, <1>3 DEF IInv, RunOK
      <4>2. active[c] # r
        BY <4>1, <1>2, <1>3, <2>3, RunsAssumption DEF IInv, OwnerOK, Live
      <4>3. ~Starting
        BY <4>1, PhasesApart DEF IInv, Types
      <4> QED BY <4>2, <4>3, <2>3, <1>5, <1>8
    <3> QED BY <3>1, <3>2, <2>2 DEF IInv, RunOK
  <2>4. CASE ~Hit \/ s # r
    <3>1. run'[s] = run[s]
      BY <2>4, <1>7
    <3>2. ASSUME run[s].st = "running"
          PROVE  Clean(s)'
      <4>1. Clean(s) /\ active[run[s].c] = s
        BY <3>2, <2>4, <1>3 DEF IInv, RunOK, OwnerOK
      <4>2. torn'[run[s].c] = torn[run[s].c]
        <5>1. CASE torn' = torn
          BY <5>1
        <5>2. CASE At("user") \/ At("answer") \/ At("recover")
          <6>1. Starting \/ Finalizing
            BY <5>2, <1>1, StepPhase
          <6>2. run[s].c # c
            BY <6>1, <4>1, <3>2, <2>4, <1>3, RunsAssumption DEF Starting, Finalizing, Of, IInv, OwnerOK
          <6> QED BY <6>2, <2>1, <1>1, <1>2 DEF CutShort, IInv, Types, DiskTypes
        <5> QED BY <5>1, <5>2, <1>1 DEF CutShort, At
      <4> QED BY <4>1, <4>2, <3>1, <1>1 DEF Clean, Answers
    <3>3. run[s].st = "running" => conv[run[s].c].there \/ run[s].c \in removing
      BY DEF IInv, RunOK
    <3>4. conv'[run[s].c].there = conv[run[s].c].there
      BY <2>1, <1>4 DEF SameThere
    <3> QED BY <3>1, <3>2, <3>3, <3>4, <2>2 DEF IInv, RunOK
  <2> QED BY <2>3, <2>4
<1> QED BY <1>11, <1>12, <1>13, <1>14, <1>15 DEF IInv

\* While the process starts no run is live, and none of them changes.
LEMMA StartingUp ==
  ASSUME IInv, up # "serving", UNCHANGED <<log, pending, run, active, reported, removing>>
  PROVE  OwnerOK' /\ LogOK' /\ RunOK'
<1>1. \A r \in Run : run[r].st \notin {"accepted", "running", "stuck"}
  BY DEF IInv, OwnerOK, Live
<1>2. \A c \in Conversation : active[c] = 0
  BY <1>1 DEF IInv, OwnerOK, Live, Types, MemoryTypes
<1>3. OwnerOK'
  BY <1>1, <1>2 DEF OwnerOK, Live
<1>4. LogOK'
  BY DEF IInv, LogOK
<1>5. RunOK'
  <2>1. \A r \in Run : Stored(r, reported[r]) => Stored(r, reported[r])'
    BY DEF Stored, Answers
  <2> QED BY <1>1, <2>1 DEF IInv, RunOK
<1> QED BY <1>3, <1>4, <1>5

\* Boot and Serve keep the invariant.
LEMMA BootStep ==
  ASSUME IInv, Boot \/ Serve
  PROVE  IInv'
<1>1. /\ up # "serving" /\ up' \in {"init", "serving"}
      /\ UNCHANGED <<meta, log, torn, pending, conv, run, active, deleting, job, reported, removing>>
  BY DEF Boot, Serve, disk, memory, history
<1>2. job.todo = <<>>
  BY DEF Boot, Serve, IInv, JobOK
<1>3. Types' /\ JobOK'
  BY <1>1, <1>2 DEF IInv, Types, DiskTypes, MemoryTypes, JobTypes, JobOK
<1> QED BY <1>1, <1>3, StartingUp DEF IInv

\* Load keeps the invariant.
LEMMA LoadStep ==
  ASSUME IInv, NEW c \in Conversation, Load(c)
  PROVE  IInv'
<1>1. /\ up = "init" /\ conv' = [conv EXCEPT ![c] = meta[c]] /\ Begin("init", c, 0, LoadSteps(c))
      /\ UNCHANGED <<meta, log, torn, pending, up, run, active, deleting, reported, removing>>
  BY DEF Load, disk, history
<1>2. JobTypes' /\ job'.op = "init" /\ job'.c = c /\ job'.todo = LoadSteps(c)
  BY <1>1, BeginType
<1>3. Types'
  BY <1>1, <1>2 DEF IInv, Types, DiskTypes, MemoryTypes
<1>4. JobOK'
  <2>1. \/ LoadSteps(c) \in {<<>>, <<"inactive">>}
        \/ LoadSteps(c) \in Recovery /\ pending[c] # 0
    BY DEF LoadSteps, Recovery
  <2>2. job'.todo = <<>> \/ Recovering'
    BY <2>1, <1>1, <1>2 DEF Recovering
  <2> QED BY <2>2, <1>1 DEF JobOK
<1> QED BY <1>1, <1>3, <1>4, StartingUp DEF IInv

-----------------------------------------------------------------------------
(* The invariant.                                                          *)

\* The invariant holds at first.
LEMMA InitKeeps == Init => IInv
<1> SUFFICES ASSUME Init PROVE IInv
  OBVIOUS
<1>1. /\ meta = [c \in Conversation |-> None] /\ log = [c \in Conversation |-> <<>>]
      /\ torn = [c \in Conversation |-> FALSE] /\ pending = [c \in Conversation |-> 0]
      /\ up = "serving" /\ conv = meta /\ run = [r \in Run |-> NoRun]
      /\ active = [c \in Conversation |-> 0] /\ deleting = {} /\ job = Idle
      /\ reported = [r \in Run |-> "no"]
  BY DEF Init
<1>2. Types
  <2>1. <<>> \in Seq(MessageType)
    OBVIOUS
  <2>2. DiskTypes
    BY <2>1, <1>1, StartTypes DEF DiskTypes
  <2>3. MemoryTypes
    BY <1>1, StartTypes DEF MemoryTypes
  <2>4. JobTypes
    <3>1. Idle.op = "none" /\ Idle.r = 0 /\ Idle.todo = <<>> /\ Idle.c \in Conversation
      BY StartTypes
    <3>2. Idle = [op |-> Idle.op, c |-> Idle.c, r |-> Idle.r, todo |-> Idle.todo]
      BY <3>1, StartTypes
    <3> QED BY <3>1, <3>2, <1>1 DEF JobTypes
  <2>5. reported \in [Run -> Outcome \cup {"no"}]
    BY <1>1
  <2> QED BY <2>2, <2>3, <2>4, <2>5 DEF Types
<1>3. JobOK
  <2>1. Idle.todo = <<>>
    BY StartTypes
  <2> QED BY <2>1, <1>1 DEF JobOK
<1>4. \A r \in Run : run[r].st = "unused"
  BY <1>1 DEF NoRun
<1>5. OwnerOK /\ RunOK
  BY <1>1, <1>4 DEF OwnerOK, RunOK, Live
<1>6. LogOK
  <2>1. \A c \in Conversation : DOMAIN log[c] = {} /\ pending[c] = 0
    BY <1>1
  <2> QED BY <2>1 DEF LogOK
<1> QED BY <1>2, <1>3, <1>5, <1>6 DEF IInv

\* Steps that change nothing keep the invariant.
LEMMA StutterKeeps ==
  ASSUME IInv, UNCHANGED vars
  PROVE  IInv'
<1>1. UNCHANGED <<meta, log, torn, pending, up, conv, run, active, deleting, job, reported, removing>>
  BY DEF vars, disk, memory, history
<1>2. /\ (Answers(job.c, job.r) = {})' = (Answers(job.c, job.r) = {})
      /\ Clean(job.r)' = Clean(job.r)
      /\ Stored(job.r, run[job.r].final)' = Stored(job.r, run[job.r].final)
  BY <1>1 DEF Answers, Clean, Stored
<1>3. /\ Starting' = Starting /\ Launching' = Launching /\ Finalizing' = Finalizing
      /\ Removing' = Removing /\ Saving' = Saving /\ Recovering' = Recovering
  BY <1>1, <1>2 DEF Starting, Launching, Finalizing, Removing, Saving, Recovering, Of
<1>4. Types' /\ JobOK'
  BY <1>1, <1>3 DEF IInv, Types, DiskTypes, MemoryTypes, JobTypes, JobOK
<1>5. SameRuns
  BY <1>1 DEF SameRuns
<1> QED BY <1>1, <1>3, <1>4, <1>5, OwnerFrame, LogFrame, RunFrame DEF IInv

\* Every step keeps the invariant.
LEMMA NextKeeps == IInv /\ [Next]_vars => IInv'
<1> SUFFICES ASSUME IInv, [Next]_vars PROVE IInv'
  OBVIOUS
<1>1. CASE UserAction
  BY <1>1, CreateConversationStep, StartRunStep, DeleteStep, RenameStep, CancelStep DEF UserAction
<1>2. CASE Backend
  BY <1>2, ChangeStep, WriteWorkStep, TitleReturnsStep, BackendReturnsStep DEF Backend
<1>3. CASE Timer
  BY <1>3, PersistStep, DeleteTimesOutStep DEF Timer
<1>4. CASE Step
  BY <1>4, StepKeeps
<1>5. CASE Fault
  BY <1>5, CrashStep, ThrowStep DEF Fault
<1>6. CASE Restart
  BY <1>6, BootStep, LoadStep DEF Restart
<1>7. CASE UNCHANGED vars
  BY <1>7, StutterKeeps
<1> QED BY <1>1, <1>2, <1>3, <1>4, <1>5, <1>6, <1>7 DEF Next

\* The invariant: every handler has done what its next steps rely on.
THEOREM Invariance == Spec => []IInv
BY InitKeeps, NextKeeps, PTL DEF Spec

\* Files of the backend come only from a run that goes on.
LEMMA WorkLife ==
  ASSUME WorkType, [Next]_vars
  PROVE  WorkType' /\ \A c \in Conversation : work'[c] => work[c] \/ Going(c)
<1>1. CASE work' = work
  BY <1>1 DEF WorkType
<1>2. ASSUME NEW r \in Run, WriteWork(r)
      PROVE  WorkType' /\ \A c \in Conversation : work'[c] => work[c] \/ Going(c)
  <2>1. run[r].st = "running" /\ work' = [work EXCEPT ![run[r].c] = TRUE]
    BY <1>2 DEF WriteWork
  <2>2. Going(run[r].c)
    BY <2>1 DEF Going
  <2>3. \A c \in Conversation : c # run[r].c => work'[c] = work[c]
    BY <2>1 DEF WorkType
  <2> QED BY <2>1, <2>2, <2>3 DEF WorkType
<1>3. CASE RemoveFile
  <2>1. work' = work \/ work' = [work EXCEPT ![job.c] = FALSE]
    BY <1>3 DEF RemoveFile
  <2> QED BY <2>1 DEF WorkType
<1>4. CASE Step /\ ~RemoveFile
  BY <1>1, <1>4 DEF Step, AppendUser, AppendAnswer, AppendRecovered, AppendLine, Save, New, Launch,
                    Checkpoint, Clear, Finish, Forget, Removed, disk
<1>5. CASE Backend
  BY <1>1, <1>2, <1>5 DEF Backend, Change, TitleReturns, BackendReturns, disk
<1>6. CASE UserAction \/ Timer
  BY <1>1, <1>6 DEF UserAction, CreateConversation, StartRun, Delete, Rename, Cancel,
                    Timer, Persist, DeleteTimesOut, disk
<1>7. CASE Fault \/ Restart \/ UNCHANGED vars
  BY <1>1, <1>7 DEF Fault, Crash, Throw, ThrowInit, Restart, Boot, Load, Serve, vars, disk
<1> QED BY <1>3, <1>4, <1>5, <1>6, <1>7 DEF Next

\* The files, the memory and the handler have their types.
THEOREM RunsTypeCorrect == Spec => []TypeOK
<1>1. Init => WorkType
  BY DEF Init, WorkType
<1>2. WorkType /\ [Next]_vars => WorkType'
  BY WorkLife
<1>3. IInv /\ WorkType => TypeOK
  BY TypeParts DEF IInv
<1> QED BY <1>1, <1>2, <1>3, Invariance, PTL DEF Spec

\* Two runs that are not over are never of the same conversation: both would
\* be the one that holds it.
THEOREM OneRunCorrect == Spec => []OneRunAtATime
<1>1. IInv => OneRunAtATime
  <2> SUFFICES ASSUME IInv, NEW r \in Run, NEW s \in Run, Live(r), Live(s), run[r].c = run[s].c
      PROVE  r = s
    BY DEF OneRunAtATime
  <2> DEFINE c == run[r].c
  <2>1. ASSUME NEW p \in Run, run[p].st = "accepted", NEW q \in Run, Live(q), run[p].c = run[q].c
        PROVE  p = q
    <3>1. job.r = p /\ (Starting \/ Launching)
      BY <2>1 DEF IInv, OwnerOK
    <3>2. run[p].c = job.c
      BY <3>1 DEF Starting, Launching, Of
    <3>3. CASE run[q].st = "accepted"
      BY <3>1, <3>3 DEF IInv, OwnerOK
    <3>4. CASE run[q].st \in {"running", "stuck"}
      <4>1. active[job.c] = q
        BY <3>2, <3>4, <2>1 DEF IInv, OwnerOK
      <4>2. active[job.c] \in {0, p}
        BY <3>1 DEF Starting, Launching
      <4> QED BY <4>1, <4>2, RunsAssumption
    <3> QED BY <3>3, <3>4, <2>1 DEF Live
  <2>2. CASE run[r].st = "accepted" \/ run[s].st = "accepted"
    BY <2>1, <2>2
  <2>3. CASE run[r].st # "accepted" /\ run[s].st # "accepted"
    BY <2>3 DEF Live, IInv, OwnerOK
  <2> QED BY <2>2, <2>3
<1> QED BY <1>1, Invariance, PTL

\* What the clients were told of the end of a run is in its conversation, once
\* and readable, whatever failed or died since, until the conversation is
\* deleted.
THEOREM ReportedCorrect == Spec => []ReportedIsStored
<1>1. IInv => ReportedIsStored
  BY DEF IInv, RunOK, Stored, ReportedIsStored
<1> QED BY <1>1, Invariance, PTL

-----------------------------------------------------------------------------
(* The store writes nothing for a conversation whose deletion was          *)
(* acknowledged.  That is when its files are gone.  What could write       *)
(* afterwards is a handler that was at work, or one that begins without    *)
(* looking at the memory.  DelOK says that neither is there: a deleted     *)
(* conversation is not in memory, its deletion is not waited for, and a    *)
(* handler of it can only be the end of a run that stores nothing.  What   *)
(* the backend writes comes behind (DirOK).                                *)

DelOK ==
  /\ \A c \in deleted :
       /\ c \in Conversation /\ NotStored(c) /\ ~conv[c].there /\ c \notin deleting
       /\ job.c = c => job.todo \in WithoutAnswer \cup {<<>>}
  /\ At("remove") => ~conv[job.c].there /\ job.c \notin deleting

DInv == IInv /\ DelOK

-----------------------------------------------------------------------------
(* Handlers that begin.                                                    *)

\* A handler of a conversation that is not deleted begins, or one that only
\* takes the checkpoint away.
LEMMA DelBegin ==
  ASSUME DelOK, NEW c, NEW todo, c \in deleted => todo \in WithoutAnswer \cup {<<>>},
         todo # <<>> => Head(todo) # "remove",
         job'.c = c, job'.todo = todo, UNCHANGED <<meta, log, torn, pending, deleted>>,
         \A d \in deleted : ~conv'[d].there /\ d \notin deleting'
  PROVE  DelOK'
BY DEF DelOK, NotStored, At

\* A step that no handler takes.
LEMMA DelQuiet ==
  ASSUME DelOK, UNCHANGED <<meta, log, torn, pending, conv, deleting, deleted, job>>
  PROVE  DelOK'
BY DEF DelOK, NotStored, At

\* The first step of a handler that begins is not the last of a removal.
LEMMA FirstSteps ==
  /\ \A t \in BeforeUser \cup BeforeForget \cup BeforeAnswer \cup WithoutAnswer \cup Recovery :
       Head(t) # "remove"
  /\ Head(<<"save">>) # "remove" /\ Head(<<"checkpoint">>) # "remove" /\ Head(<<"inactive">>) # "remove"
BY BeforeUserSteps, BeforeForgetSteps, BeforeAnswerSteps, WithoutAnswerSteps, RecoverySteps, SingleSteps

\* What a user asks for keeps DelOK: only a conversation in memory is asked for.
LEMMA DelUser ==
  ASSUME DInv, UserAction
  PROVE  DelOK'
<1>1. DelOK /\ IInv
  BY DEF DInv
<1>2. ASSUME NEW c \in Conversation, NEW r \in Run, CreateConversation(c, r)
      PROVE  DelOK'
  <2>1. /\ UNCHANGED <<meta, log, torn, pending, conv, deleting, deleted>> /\ c \notin deleted
    BY <1>2 DEF CreateConversation, Fresh, disk, history
  <2>2. CreateSteps \in BeforeUser /\ <<"new", "forget", "remove">> \in BeforeForget
    BY DEF BeforeUser, BeforeForget
  <2>3. \E t \in BeforeUser \cup BeforeForget : job'.c = c /\ job'.todo = t
    BY <1>2, <2>2 DEF CreateConversation, Begin
  <2> QED BY <1>1, <2>1, <2>3, FirstSteps, DelBegin DEF DelOK
<1>3. ASSUME NEW c \in Conversation, NEW r \in Run, StartRun(c, r)
      PROVE  DelOK'
  <2>1. /\ UNCHANGED <<meta, log, torn, pending, conv, deleting, deleted>> /\ conv[c].there
        /\ job'.c = c /\ job'.todo = StartSteps(conv[c].title)
    BY <1>3 DEF StartRun, Begin, disk, history
  <2>2. StartSteps(conv[c].title) \in BeforeUser
    BY DEF StartSteps, BeforeUser
  <2> QED BY <1>1, <2>1, <2>2, FirstSteps, DelBegin DEF DelOK
<1>4. ASSUME NEW c \in Conversation, Delete(c)
      PROVE  DelOK'
  <2>1. UNCHANGED <<meta, log, torn, pending, conv, deleted>> /\ conv[c].there
    BY <1>4 DEF Delete, disk, history
  <2>2. CASE Begin("delete", c, 0, DeleteSteps) /\ UNCHANGED deleting
    <3>1. job'.c = c /\ job'.todo = DeleteSteps /\ DeleteSteps \in BeforeForget
      BY <2>2 DEF Begin, BeforeForget
    <3> QED BY <1>1, <2>1, <2>2, <3>1, FirstSteps, DelBegin DEF DelOK
  <2>3. CASE deleting' = deleting \cup {c} /\ UNCHANGED job /\ Free
    BY <1>1, <2>1, <2>3 DEF DelOK, NotStored, At, Free
  <2> QED BY <1>4, <2>2, <2>3 DEF Delete
<1>5. ASSUME NEW c \in Conversation, Rename(c)
      PROVE  DelOK'
  <2>1. /\ UNCHANGED <<meta, log, torn, pending, deleting, deleted>> /\ conv[c].there
        /\ conv' = [conv EXCEPT ![c].title = "own"] /\ job'.c = c /\ job'.todo = <<"save">>
    BY <1>5 DEF Rename, Begin, disk
  <2>2. SameThere
    BY <1>1, <2>1, TitleStep DEF IInv, Types
  <2> QED BY <1>1, <2>1, <2>2, FirstSteps, DelBegin DEF DelOK, SameThere
<1>6. ASSUME NEW r \in Run, Cancel(r)
      PROVE  DelOK'
  BY <1>1, <1>6, DelQuiet DEF Cancel, disk, history
<1> QED BY <1>2, <1>3, <1>4, <1>5, <1>6 DEF UserAction

\* What the backend and the timers begin keeps DelOK: a run whose conversation
\* is gone only takes the checkpoint away, and is not checkpointed.
LEMMA DelBackend ==
  ASSUME DInv, Backend \/ Timer
  PROVE  DelOK'
<1>1. DelOK /\ IInv
  BY DEF DInv
<1>2. ASSUME NEW r \in Run, Change(r)
      PROVE  DelOK'
  BY <1>1, <1>2, DelQuiet DEF Change, disk, history
<1>7. ASSUME NEW r \in Run, WriteWork(r)
      PROVE  DelOK'
  BY <1>1, <1>7, DelQuiet DEF WriteWork, memory, history
<1>3. ASSUME NEW r \in Run, TitleReturns(r)
      PROVE  DelOK'
  <2> DEFINE c == run[r].c
  <2>1. UNCHANGED <<meta, log, torn, pending, deleting, deleted>>
    BY <1>3 DEF TitleReturns, disk, history
  <2>2. CASE UNCHANGED <<conv, job>>
    BY <1>1, <2>1, <2>2, DelQuiet
  <2>3. CASE TitleWanted(c) /\ conv' = [conv EXCEPT ![c].title = "generated"]
             /\ Begin("name", c, r, <<"save">>)
    <3>1. c \in Conversation
      BY <1>1 DEF IInv, Types, MemoryTypes, RunType
    <3>2. SameThere
      BY <1>1, <2>3, <3>1, TitleStep DEF IInv, Types
    <3>3. conv[c].there /\ job'.c = c /\ job'.todo = <<"save">>
      BY <2>3 DEF TitleWanted, Begin
    <3> QED BY <1>1, <2>1, <3>2, <3>3, FirstSteps, DelBegin DEF DelOK, SameThere
  <2> QED BY <1>3, <2>2, <2>3 DEF TitleReturns
<1>4. ASSUME NEW r \in Run, NEW result, BackendReturns(r, result)
      PROVE  DelOK'
  <2> DEFINE c == run[r].c
  <2>1. /\ UNCHANGED <<meta, log, torn, pending, conv, deleting, deleted>>
        /\ job'.c = c /\ job'.todo = FinalSteps(c)
    BY <1>4 DEF BackendReturns, Begin, disk, history
  <2>2. FinalSteps(c) \in IF conv[c].there THEN BeforeAnswer ELSE WithoutAnswer
    BY DEF FinalSteps, BeforeAnswer, WithoutAnswer
  <2> QED BY <1>1, <2>1, <2>2, FirstSteps, DelBegin DEF DelOK
<1>5. ASSUME NEW r \in Run, Persist(r)
      PROVE  DelOK'
  <2> DEFINE c == run[r].c
  <2>1. UNCHANGED <<meta, log, torn, pending, conv, deleting, deleted>>
    BY <1>5 DEF Persist, disk, history
  <2>2. CASE conv[c].there
    <3>1. job'.c = c /\ job'.todo = <<"checkpoint">>
      BY <1>5, <2>2 DEF Persist
    <3> QED BY <1>1, <2>1, <2>2, <3>1, FirstSteps, DelBegin DEF DelOK
  <2>3. CASE ~conv[c].there
    <3>1. job' = job
      BY <1>5, <2>3 DEF Persist
    <3> QED BY <1>1, <2>1, <3>1, DelQuiet
  <2> QED BY <2>2, <2>3
<1>6. ASSUME NEW c \in Conversation, DeleteTimesOut(c)
      PROVE  DelOK'
  <2>1. /\ UNCHANGED <<meta, log, torn, pending, conv, deleting, deleted>> /\ c \in deleting
        /\ job'.c = c /\ job'.todo = DeleteSteps /\ DeleteSteps \in BeforeForget
    BY <1>6 DEF DeleteTimesOut, Begin, BeforeForget, disk, memory, history
  <2> QED BY <1>1, <2>1, FirstSteps, DelBegin DEF DelOK
<1> QED BY <1>2, <1>3, <1>4, <1>5, <1>6, <1>7 DEF Backend, Timer

-----------------------------------------------------------------------------
(* Handlers that go on.                                                    *)

\* A handler goes on that only touches its own conversation.
LEMMA DelHandler ==
  ASSUME DelOK, job'.c = job.c, deleted' = deleted, deleting' \subseteq deleting,
         \A d \in Conversation : d # job.c \/ job.c \in deleted =>
           /\ meta'[d] = meta[d] /\ log'[d] = log[d] /\ torn'[d] = torn[d] /\ pending'[d] = pending[d]
           /\ conv'[d].there = conv[d].there,
         job.c \in deleted => job'.todo \in WithoutAnswer \cup {<<>>},
         At("remove")' => ~conv'[job.c].there /\ job.c \notin deleting'
  PROVE  DelOK'
<1>1. ASSUME NEW d \in deleted
      PROVE  /\ d \in Conversation /\ NotStored(d)' /\ ~conv'[d].there /\ d \notin deleting'
             /\ job'.c = d => job'.todo \in WithoutAnswer \cup {<<>>}
  <2>1. d \in Conversation /\ NotStored(d) /\ ~conv[d].there /\ d \notin deleting
    BY DEF DelOK
  <2>2. d # job.c \/ job.c \in deleted
    OBVIOUS
  <2>3. /\ meta'[d] = meta[d] /\ log'[d] = log[d] /\ torn'[d] = torn[d] /\ pending'[d] = pending[d]
        /\ conv'[d].there = conv[d].there
    BY <2>1, <2>2
  <2> QED BY <2>1, <2>3 DEF NotStored
<1> QED BY <1>1 DEF DelOK

\* The handler of a conversation that is deleted is at clear or at finish.
LEMMA DelPhase ==
  ASSUME DInv, job.todo # <<>>, job.c \in deleted
  PROVE  /\ job.todo \in WithoutAnswer /\ job.op = "finalize" /\ ~conv[job.c].there /\ NotStored(job.c)
         /\ \/ Head(job.todo) = "clear" /\ Tail(job.todo) \in WithoutAnswer
            \/ Head(job.todo) = "finish" /\ Tail(job.todo) = <<>>
<1>1. job.todo \in WithoutAnswer /\ ~conv[job.c].there /\ NotStored(job.c)
  BY DEF DInv, DelOK
<1>2. \/ Head(job.todo) = "clear" /\ Tail(job.todo) \in WithoutAnswer
      \/ Head(job.todo) = "finish" /\ Tail(job.todo) = <<>>
  BY <1>1, WithoutAnswerSteps
<1>3. job.op = "finalize"
  <2>1. ~Starting
    BY <1>1, <1>2, BeforeUserSteps, AfterUserSteps DEF Starting
  <2>2. ~Launching
    BY <1>1, <1>2, AfterActivateSteps DEF Launching
  <2>3. ~Removing
    BY <1>2, BeforeForgetSteps, AfterForgetSteps DEF Removing
  <2>4. ~Saving
    BY <1>2, SingleSteps DEF Saving
  <2>5. ~Recovering
    <3>1. job.todo \notin BeforeClear
      <4>1. Tail(job.todo) \notin {<<"inactive">>, <<>>} \/ Head(job.todo) = "finish"
        BY <1>2, WithoutAnswerSteps, SingleSteps
      <4> QED BY <4>1, <1>2, BeforeClearSteps
    <3> QED BY <3>1, <1>2, RecoverySteps, SingleSteps DEF Recovering
  <2> QED BY <2>1, <2>2, <2>3, <2>4, <2>5 DEF DInv, IInv, JobOK, Finalizing
<1> QED BY <1>1, <1>2, <1>3

\* The steps of a handler keep DelOK.
LEMMA DelStep ==
  ASSUME DInv, Step
  PROVE  DelOK'
<1> DEFINE c == job.c
<1>1. DelOK /\ IInv /\ c \in Conversation
  BY DEF DInv, IInv, Types, JobTypes
<1>2. ASSUME NEW s, job.todo # <<>>, Head(job.todo) = s, s \notin {"clear", "finish"}
      PROVE  c \notin deleted
  BY <1>2, DelPhase DEF DInv
\* What is left after a step is a removal of its last step only after Forget.
<1>3. ASSUME job.todo # <<>>, job'.todo = Tail(job.todo), Head(job.todo) # "forget"
      PROVE  ~At("remove")'
  <2>1. Tail(job.todo) = <<>> \/ Head(Tail(job.todo)) # "remove"
    <3> DEFINE t == job.todo
    <3>1. CASE Starting
      BY <3>1, <1>3, BeforeUserSteps, AfterUserSteps, AfterActivateSteps DEF Starting
    <3>2. CASE Launching
      BY <3>2, <1>3, AfterActivateSteps DEF Launching
    <3>3. CASE Finalizing
      BY <3>3, <1>3, BeforeAnswerSteps, AfterAnswerSteps, AfterClearSteps, WithoutAnswerSteps DEF Finalizing
    <3>4. CASE Removing
      BY <3>4, <1>3, BeforeForgetSteps, AfterForgetSteps DEF Removing
    <3>5. CASE Saving
      BY <3>5, <1>3, SingleSteps DEF Saving
    <3>6. CASE Recovering
      BY <3>6, <1>3, RecoverySteps, BeforeClearSteps, SingleSteps DEF Recovering
    <3> QED BY <3>1, <3>2, <3>3, <3>4, <3>5, <3>6, <1>1, <1>3 DEF IInv, JobOK
  <2> QED BY <2>1, <1>3 DEF At
<1>4. Continue => job'.c = c /\ job'.todo = Tail(job.todo)
  BY <1>1, ContinueType DEF IInv, Types
<1>5. CASE AppendUser \/ AppendAnswer \/ AppendRecovered
  <2>1. /\ job.todo # <<>> /\ Head(job.todo) \in {"user", "answer", "recover"} /\ Continue
        /\ UNCHANGED <<meta, pending, conv, deleting, deleted>>
        /\ \E m : log' = [log EXCEPT ![c] = Append(@, m)]
        /\ torn' = [torn EXCEPT ![c] = FALSE]
    BY <1>5 DEF AppendUser, AppendAnswer, AppendRecovered, AppendLine, At, memory, history
  <2>2. \A d \in Conversation : d # c => log'[d] = log[d] /\ torn'[d] = torn[d]
    BY <1>1, <2>1 DEF IInv, Types, DiskTypes
  <2>3. c \notin deleted /\ ~At("remove")'
    BY <2>1, <1>2, <1>3, <1>4
  <2> QED BY <1>1, <1>4, <2>1, <2>2, <2>3, DelHandler
<1>6. CASE Save
  <2>1. /\ job.todo # <<>> /\ Head(job.todo) \in SaveStep /\ Continue
        /\ conv' = [conv EXCEPT ![c] = Prepared] /\ meta' = [meta EXCEPT ![c] = Prepared]
        /\ UNCHANGED <<log, torn, pending, deleting, deleted>>
    BY <1>6 DEF Save, PrepareSave
  <2>2. \A d \in Conversation : d # c => conv'[d] = conv[d] /\ meta'[d] = meta[d]
    BY <1>1, <2>1 DEF IInv, Types, DiskTypes, MemoryTypes
  <2>3. c \notin deleted /\ ~At("remove")'
    BY <2>1, <1>2, <1>3, <1>4 DEF SaveStep
  <2> QED BY <1>1, <1>4, <2>1, <2>2, <2>3, DelHandler
<1>7. CASE New
  <2>1. /\ job.todo # <<>> /\ Head(job.todo) = "new" /\ Continue
        /\ \E e : conv' = [conv EXCEPT ![c] = e] /\ meta' = [meta EXCEPT ![c] = e]
        /\ UNCHANGED <<log, torn, pending, deleting, deleted>>
    BY <1>7 DEF New, At, history
  <2>2. \A d \in Conversation : d # c => conv'[d] = conv[d] /\ meta'[d] = meta[d]
    BY <1>1, <2>1 DEF IInv, Types, DiskTypes, MemoryTypes
  <2>3. c \notin deleted /\ ~At("remove")'
    BY <2>1, <1>2, <1>3, <1>4
  <2> QED BY <1>1, <1>4, <2>1, <2>2, <2>3, DelHandler
<1>8. CASE Launch
  <2>1. /\ job.todo # <<>> /\ Head(job.todo) = "launch" /\ Continue
        /\ UNCHANGED <<meta, log, torn, pending, conv, deleting, deleted>>
    BY <1>8 DEF Launch, At, disk, history
  <2>2. c \notin deleted /\ ~At("remove")'
    BY <2>1, <1>2, <1>3, <1>4
  <2> QED BY <1>1, <1>4, <2>1, <2>2, DelHandler
<1>9. CASE Checkpoint
  <2>1. /\ job.todo # <<>> /\ Head(job.todo) = "checkpoint" /\ Continue
        /\ pending' = [pending EXCEPT ![c] = job.r]
        /\ UNCHANGED <<meta, log, torn, conv, deleting, deleted>>
    BY <1>9 DEF Checkpoint, At, memory
  <2>2. \A d \in Conversation : d # c => pending'[d] = pending[d]
    BY <1>1, <2>1 DEF IInv, Types, DiskTypes
  <2>3. c \notin deleted /\ ~At("remove")'
    BY <2>1, <1>2, <1>3, <1>4
  <2> QED BY <1>1, <1>4, <2>1, <2>2, <2>3, DelHandler
<1>10. CASE Clear
  <2>1. /\ job.todo # <<>> /\ Head(job.todo) = "clear" /\ Continue
        /\ pending' = [pending EXCEPT ![c] = 0]
        /\ UNCHANGED <<meta, log, torn, conv, deleting, deleted>>
    BY <1>10 DEF Clear, At, memory, history
  <2>2. c \in deleted => pending[c] = 0 /\ Tail(job.todo) \in WithoutAnswer
    BY <2>1, DelPhase DEF NotStored
  <2>3. \A d \in Conversation : d # c \/ c \in deleted => pending'[d] = pending[d]
    BY <1>1, <2>1, <2>2 DEF IInv, Types, DiskTypes
  <2>4. ~At("remove")'
    BY <2>1, <1>3, <1>4
  <2> QED BY <1>1, <1>4, <2>1, <2>2, <2>3, <2>4, DelHandler
<1>11. CASE Finish
  <2>1. /\ job.todo # <<>> /\ Head(job.todo) = "finish"
        /\ UNCHANGED <<meta, log, torn, pending, conv, deleting, deleted>>
        /\ IF c \in deleting THEN Begin("delete", c, 0, DeleteSteps) ELSE Continue
    BY <1>11 DEF Finish, At, disk
  <2>2. CASE c \in deleting
    <3>1. job'.c = c /\ job'.todo = DeleteSteps /\ DeleteSteps \in BeforeForget /\ c \notin deleted
      BY <1>1, <2>1, <2>2 DEF Begin, BeforeForget, DelOK
    <3> QED BY <1>1, <2>1, <3>1, FirstSteps, DelBegin DEF DelOK
  <2>3. CASE c \notin deleting
    <3>1. ~At("remove")'
      BY <2>1, <2>3, <1>3, <1>4
    <3>2. c \in deleted => Tail(job.todo) = <<>>
      BY <2>1, DelPhase
    <3> QED BY <1>1, <1>4, <2>1, <2>3, <3>1, <3>2, DelHandler
  <2> QED BY <2>2, <2>3
<1>12. CASE Forget
  <2>1. /\ job.todo # <<>> /\ Head(job.todo) = "forget" /\ Continue
        /\ conv' = [conv EXCEPT ![c] = None] /\ deleting' = deleting \ {c}
        /\ UNCHANGED <<meta, log, torn, pending, deleted>>
    BY <1>12 DEF Forget, At, disk
  <2>2. \A d \in Conversation : d # c => conv'[d] = conv[d]
    BY <1>1, <2>1 DEF IInv, Types, MemoryTypes
  <2>3. ~conv'[c].there /\ c \notin deleting' /\ c \notin deleted
    BY <1>1, <1>2, <2>1 DEF None, IInv, Types, MemoryTypes
  <2> QED BY <1>1, <1>4, <2>1, <2>2, <2>3, DelHandler
<1>13. CASE RemoveFile
  <2>1. /\ job.todo # <<>> /\ Head(job.todo) = "remove" /\ At("remove")
        /\ UNCHANGED <<conv, deleting, deleted, job>>
    BY <1>13 DEF RemoveFile, At, memory, history
  <2>2. /\ meta' = meta \/ meta' = [meta EXCEPT ![c] = None]
        /\ log' = log \/ log' = [log EXCEPT ![c] = <<>>]
        /\ torn' = torn \/ torn' = [torn EXCEPT ![c] = FALSE]
        /\ pending' = pending \/ pending' = [pending EXCEPT ![c] = 0]
    BY <1>13 DEF RemoveFile
  <2>3. \A d \in Conversation : d # c => /\ meta'[d] = meta[d] /\ log'[d] = log[d]
                                         /\ torn'[d] = torn[d] /\ pending'[d] = pending[d]
    BY <1>1, <2>2 DEF IInv, Types, DiskTypes
  <2>4. c \notin deleted /\ ~conv[c].there /\ c \notin deleting
    BY <1>1, <1>2, <2>1 DEF DelOK
  <2> QED BY <1>1, <2>1, <2>3, <2>4, DelHandler
<1>14. CASE Removed
  <2>1. /\ At("remove") /\ job.todo # <<>> /\ NotStored(c) /\ Continue /\ deleted' = deleted \cup {c}
        /\ UNCHANGED <<meta, log, torn, pending, conv, deleting>>
    BY <1>14 DEF Removed, Empty, At, disk, memory
  <2>2. ~conv[c].there /\ c \notin deleting /\ Tail(job.todo) = <<>>
    BY <1>1, <2>1, StepPhase DEF DelOK
  <2>3. job'.c = c /\ job'.todo = <<>>
    BY <2>1, <2>2, <1>4
  <2> QED BY <1>1, <2>1, <2>2, <2>3 DEF DelOK, NotStored, At
<1> QED BY <1>5, <1>6, <1>7, <1>8, <1>9, <1>10, <1>11, <1>12, <1>13, <1>14 DEF Step

-----------------------------------------------------------------------------
(* Faults and the start of the process.                                    *)

\* A line that is cut short is not one of a deleted conversation.
LEMMA DelCutShort ==
  ASSUME DInv, CutShort
  PROVE  \A d \in deleted : torn'[d] = torn[d]
<1>1. CASE torn' = torn
  BY <1>1
<1>2. CASE /\ job.todo # <<>> /\ Head(job.todo) \in {"user", "answer", "recover"}
           /\ torn' = [torn EXCEPT ![job.c] = TRUE]
  <2>1. job.c \notin deleted
    BY <1>2, DelPhase
  <2>2. \A d \in deleted : d \in Conversation
    BY DEF DInv, DelOK
  <2> QED BY <1>2, <2>1, <2>2 DEF DInv, IInv, Types, DiskTypes
<1> QED BY <1>1, <1>2 DEF CutShort

\* A write that throws and the death of the process keep DelOK.
LEMMA DelFault ==
  ASSUME DInv, Fault
  PROVE  DelOK'
<1> DEFINE c == job.c
<1>1. DelOK /\ IInv /\ c \in Conversation
  BY DEF DInv, IInv, Types, JobTypes
<1>2. \A d \in deleted : d \in Conversation /\ NotStored(d) /\ torn'[d] = torn[d]
  BY <1>1, DelCutShort DEF DelOK, Fault, Crash, Throw, ThrowInit
<1>3. CASE Crash \/ ThrowInit
  <2>1. /\ job' = Idle /\ deleting' = {} /\ conv' = [d \in Conversation |-> None]
        /\ UNCHANGED <<meta, log, pending, deleted>>
    BY <1>3 DEF Crash, ThrowInit, Dead
  <2>2. job'.todo = <<>>
    <3>1. Idle.todo = <<>>
      BY StartTypes
    <3> QED BY <2>1, <3>1
  <2>3. \A d \in Conversation : ~conv'[d].there
    BY <2>1 DEF None
  <2> QED BY <1>2, <2>1, <2>2, <2>3 DEF DelOK, NotStored, At
<1>4. CASE Throw
  <2>1. /\ job.todo # <<>> /\ Head(job.todo) # "forget"
        /\ conv' = conv \/ conv' = [conv EXCEPT ![c] = Prepared]
        /\ job' = IF job.op = "create" /\ Head(job.todo) \notin {"new", "remove"}
                    THEN [job EXCEPT !.todo = DeleteSteps] ELSE [job EXCEPT !.todo = <<>>]
        /\ UNCHANGED <<meta, log, pending, deleting, deleted>>
    BY <1>4 DEF Throw, PrepareSave
  <2>2. SameThere
    <3>1. Prepared.there = conv[c].there
      BY <1>1, PreparedType DEF IInv, Types
    <3> QED BY <3>1, <2>1, <1>1 DEF IInv, Types, MemoryTypes, SameThere
  <2>3. /\ job'.c = c
        /\ job'.todo = <<>> \/ (job.op = "create" /\ job'.todo = DeleteSteps)
    BY <1>1, <2>1 DEF IInv, Types, JobTypes
  <2>4. c \in deleted => job'.todo = <<>>
    BY <2>1, <2>3, DelPhase
  <2>5. ~At("remove")'
    <3>1. DeleteSteps \in BeforeForget
      BY DEF BeforeForget
    <3> QED BY <3>1, <2>3, FirstSteps DEF At
  <2> QED BY <1>1, <1>2, <2>1, <2>2, <2>3, <2>4, <2>5 DEF DelOK, NotStored, SameThere
<1> QED BY <1>3, <1>4 DEF Fault

\* The start of the process keeps DelOK: what is not on disk is not read.
LEMMA DelRestart ==
  ASSUME DInv, Restart
  PROVE  DelOK'
<1>1. DelOK
  BY DEF DInv
<1>2. CASE Boot \/ Serve
  BY <1>1, <1>2, DelQuiet DEF Boot, Serve, disk, memory, history
<1>3. ASSUME NEW c \in Conversation, Load(c)
      PROVE  DelOK'
  <2>1. /\ UNCHANGED <<meta, log, torn, pending, deleting, deleted>> /\ meta[c].there
        /\ conv' = [conv EXCEPT ![c] = meta[c]] /\ job'.c = c /\ job'.todo = LoadSteps(c)
    BY <1>3 DEF Load, Unloaded, Begin, disk, history
  <2>2. c \notin deleted /\ \A d \in deleted : conv'[d].there = conv[d].there
    BY <1>1, <2>1 DEF DelOK, NotStored, DInv, IInv, Types, MemoryTypes
  <2>3. LoadSteps(c) = <<>> \/ LoadSteps(c) \in Recovery \/ LoadSteps(c) = <<"inactive">>
    BY DEF LoadSteps, Recovery
  <2> QED BY <1>1, <2>1, <2>2, <2>3, FirstSteps, DelBegin DEF DelOK
<1> QED BY <1>2, <1>3 DEF Restart

-----------------------------------------------------------------------------
\* A deleted conversation is neither in memory nor on disk.
LEMMA DelKeeps == Spec => []DInv
<1>1. Init => DInv
  <2>1. Init => deleted = {} /\ job.todo = <<>>
    BY StartTypes DEF Init
  <2> QED BY <2>1, InitKeeps DEF DInv, DelOK, At
<1>2. DInv /\ [Next]_vars => DInv'
  <2> SUFFICES ASSUME DInv, [Next]_vars PROVE DelOK'
    BY NextKeeps DEF DInv
  <2>1. CASE UNCHANGED vars
    BY <2>1, DelQuiet DEF DInv, vars, disk, memory, history
  <2> QED BY <2>1, DelUser, DelBackend, DelStep, DelFault, DelRestart DEF Next
<1> QED BY <1>1, <1>2, PTL DEF Spec

-----------------------------------------------------------------------------
(* What any step does to a run.                                            *)

\* A run is accepted, launched and over, in this order and in one conversation.
LEMMA RunLife ==
  ASSUME IInv, [Next]_vars, NEW r \in Run
  PROVE  \/ run'[r].st = run[r].st /\ (run[r].st # "unused" => run'[r].c = run[r].c)
         \/ run[r].st = "unused" /\ run'[r].st = "accepted" /\ NextRun(r) /\ Free
         \/ /\ run[r].st = "accepted" /\ run'[r].st = "running" /\ run'[r].c = run[r].c
            /\ At("launch") /\ job.r = r
         \/ run[r].st # "unused" /\ run'[r].st \in {"stuck", "gone", "done"} /\ run'[r].c = run[r].c
<1> DEFINE Same == run'[r].st = run[r].st /\ (run[r].st # "unused" => run'[r].c = run[r].c)
<1>1. run \in [Run -> RunType] /\ active \in [Conversation -> Run \cup {0}] /\ run[r].c \in Conversation
  BY DEF IInv, Types, MemoryTypes, RunType
<1>2. CASE run' = run
  BY <1>2
<1>3. ASSUME NEW s \in Run, NEW x, run' = [run EXCEPT ![s] = x], x.st = run[s].st, x.c = run[s].c
      PROVE  Same
  BY <1>1, <1>3
<1>4. \A s \in Run, b \in BOOLEAN :
        /\ [run[s] EXCEPT !.dirty = b].st = run[s].st /\ [run[s] EXCEPT !.dirty = b].c = run[s].c
        /\ [run[s] EXCEPT !.aborted = b].st = run[s].st /\ [run[s] EXCEPT !.aborted = b].c = run[s].c
        /\ [run[s] EXCEPT !.naming = b].st = run[s].st /\ [run[s] EXCEPT !.naming = b].c = run[s].c
  BY <1>1 DEF RunType
<1>5. ASSUME NEW s \in Run, NEW c, NEW b, NextRun(s), Free,
             run' = [run EXCEPT ![s] = [NoRun EXCEPT !.st = "accepted", !.c = c, !.naming = b]]
      PROVE  Same \/ (run[r].st = "unused" /\ run'[r].st = "accepted" /\ NextRun(r) /\ Free)
  BY <1>1, <1>5 DEF NextRun, NoRun
<1>6. CASE UserAction
  <2>1. ASSUME NEW c \in Conversation, NEW s \in Run, CreateConversation(c, s)
        PROVE  Same \/ (run[r].st = "unused" /\ run'[r].st = "accepted" /\ NextRun(r) /\ Free)
    <3>1. CASE run' = [run EXCEPT ![s] = Accepted(c, "default")]
      BY <2>1, <3>1, <1>5 DEF CreateConversation, Accepted
    <3> QED BY <2>1, <3>1, <1>2 DEF CreateConversation
  <2>2. ASSUME NEW c \in Conversation, NEW s \in Run, StartRun(c, s)
        PROVE  Same \/ (run[r].st = "unused" /\ run'[r].st = "accepted" /\ NextRun(r) /\ Free)
    BY <2>2, <1>5 DEF StartRun, Accepted
  <2>3. ASSUME NEW c \in Conversation, Delete(c)
        PROVE  Same
    <3>1. CASE active[c] = 0
      BY <2>3, <3>1 DEF Delete
    <3>2. CASE active[c] # 0
      <4>1. active[c] \in Run /\ run' = [run EXCEPT ![active[c]] = [run[active[c]] EXCEPT !.aborted = TRUE]]
        BY <1>1, <2>3, <3>2 DEF Delete
      <4> QED BY <4>1, <1>3, <1>4
    <3> QED BY <3>1, <3>2
  <2>4. ASSUME NEW s \in Run, Cancel(s)
        PROVE  Same
    <3>1. run' = [run EXCEPT ![s] = [run[s] EXCEPT !.aborted = TRUE]]
      BY <2>4 DEF Cancel
    <3> QED BY <3>1, <1>3, <1>4
  <2>5. ASSUME NEW c \in Conversation, Rename(c)
        PROVE  Same
    BY <2>5 DEF Rename
  <2> QED BY <1>6, <2>1, <2>2, <2>3, <2>4, <2>5 DEF UserAction
<1>7. CASE Backend
  <2>1. ASSUME NEW s \in Run, Change(s)
        PROVE  Same
    <3>1. run' = [run EXCEPT ![s] = [run[s] EXCEPT !.dirty = TRUE]]
      BY <2>1 DEF Change
    <3> QED BY <3>1, <1>3, <1>4
  <2>2. ASSUME NEW s \in Run, TitleReturns(s)
        PROVE  Same
    <3>1. run' = [run EXCEPT ![s] = [run[s] EXCEPT !.naming = FALSE]]
      BY <2>2 DEF TitleReturns
    <3> QED BY <3>1, <1>3, <1>4
  <2>3. ASSUME NEW s \in Run, NEW result \in {"completed", "failed"}, BackendReturns(s, result)
        PROVE  Same
    <3> DEFINE x == [run[s] EXCEPT !.dirty = FALSE, !.final = IF run[s].aborted THEN "cancelled" ELSE result]
    <3>1. run' = [run EXCEPT ![s] = x]
      BY <2>3, <1>1 DEF BackendReturns, RunType
    <3>2. x.st = run[s].st /\ x.c = run[s].c
      BY <1>1 DEF RunType
    <3> QED BY <3>1, <3>2, <1>3
  <2> QED BY <1>7, <2>1, <2>2, <2>3, <1>2 DEF Backend, WriteWork, memory
<1>8. CASE Timer
  <2>1. ASSUME NEW s \in Run, Persist(s)
        PROVE  Same
    <3>1. run' = [run EXCEPT ![s] = [run[s] EXCEPT !.dirty = FALSE]]
      BY <2>1 DEF Persist
    <3> QED BY <3>1, <1>3, <1>4
  <2> QED BY <1>8, <2>1, <1>2 DEF Timer, DeleteTimesOut, memory
<1>9. CASE Step
  <2>1. CASE Launch
    <3>1. At("launch") /\ Launching
      BY <2>1, StepPhase DEF Launch, At
    <3>2. run[job.r].st = "accepted" /\ job.r \in Run
      BY <3>1 DEF Launching, Of
    <3>3. run' = [run EXCEPT ![job.r] = [run[job.r] EXCEPT !.st = "running"]]
      BY <2>1 DEF Launch
    <3>4. [run[job.r] EXCEPT !.st = "running"].st = "running" /\ [run[job.r] EXCEPT !.st = "running"].c = run[job.r].c
      BY <1>1, <3>2 DEF RunType
    <3> QED BY <1>1, <3>1, <3>2, <3>3, <3>4
  <2>2. CASE Finish
    <3>1. Finalizing
      BY <2>2, StepPhase DEF Finish, At
    <3>2. run[job.r].st = "running" /\ job.r \in Run /\ run[job.r].c = job.c
      BY <3>1 DEF Finalizing, Of
    <3> DEFINE x == [NoRun EXCEPT !.st = "done", !.c = job.c, !.naming = run[job.r].naming]
    <3>3. run' = [run EXCEPT ![job.r] = x] /\ x.st = "done" /\ x.c = job.c
      BY <2>2 DEF Finish, NoRun
    <3> QED BY <1>1, <3>2, <3>3
  <2>3. CASE Step /\ ~Launch /\ ~Finish
    BY <2>3, <1>2 DEF Step, AppendUser, AppendAnswer, AppendRecovered, AppendLine, Save, New,
                      Checkpoint, Clear, Forget, RemoveFile, Removed, memory
  <2> QED BY <1>9, <2>1, <2>2, <2>3
<1>10. CASE Fault
  <2>1. CASE Crash \/ ThrowInit
    <3>1. run' = [s \in Run |-> IF run[s].st = "unused" THEN NoRun
                                  ELSE [NoRun EXCEPT !.st = "gone", !.c = run[s].c]]
      BY <2>1 DEF Crash, ThrowInit, Dead
    <3>2. CASE run[r].st = "unused"
      BY <3>1, <3>2 DEF NoRun
    <3>3. CASE run[r].st # "unused"
      BY <3>1, <3>3 DEF NoRun
    <3> QED BY <3>2, <3>3
  <2>2. CASE Throw
    <3>1. run' = run \/ (/\ job.r \in Run /\ run[job.r].st # "unused"
                         /\ run' = [run EXCEPT ![job.r] = Thrown(job.r)])
      BY <2>2 DEF Throw, IInv, Types, JobTypes
    <3>2. job.r \in Run => Thrown(job.r).st \in {"stuck", "gone"} /\ Thrown(job.r).c = run[job.r].c
      BY <1>1 DEF Thrown, RunType
    <3> QED BY <1>1, <3>1, <3>2
  <2> QED BY <1>10, <2>1, <2>2 DEF Fault
<1>11. CASE Restart \/ UNCHANGED vars
  BY <1>11, <1>2 DEF Restart, Boot, Load, Serve, memory, vars
<1> QED BY <1>6, <1>7, <1>8, <1>9, <1>10, <1>11 DEF Next

-----------------------------------------------------------------------------
(* The directory of a deleted conversation.  It is empty when the deletion *)
(* is acknowledged; only a run that goes on writes to it afterwards, and a *)
(* deleted conversation gets no other run: DirOK.                          *)

DirOK ==
  /\ WorkType
  /\ \A c \in deleted \ outlived : ~work[c] /\ ~Going(c)

\* No run of a deleted conversation is launched.
LEMMA GoingLife ==
  ASSUME DInv, [Next]_vars, NEW c \in deleted, ~Going(c)
  PROVE  ~Going(c)'
<1> SUFFICES ASSUME NEW r \in Run, run'[r].st = "running", run'[r].c = c PROVE FALSE
  BY DEF Going
<1>1. IInv
  BY DEF DInv
<1>2. run[r].st = "accepted" /\ run[r].c = c /\ At("launch") /\ job.r = r
  BY <1>1, RunLife DEF Going
<1>3. job.c = c /\ job.todo # <<>> /\ Head(job.todo) = "launch"
  BY <1>1, <1>2 DEF IInv, OwnerOK, Starting, Launching, Of, At
<1> QED BY <1>3, DelPhase

\* The history of the deletions changes when one is acknowledged.
LEMMA DeletedLife ==
  ASSUME [Next]_vars, ~Removed
  PROVE  deleted' = deleted /\ outlived' = outlived
<1>1. CASE Step
  BY <1>1 DEF Step, AppendUser, AppendAnswer, AppendRecovered, AppendLine, Save, New, Launch,
              Checkpoint, Clear, Finish, Forget, RemoveFile, history
<1>2. CASE UserAction \/ Backend \/ Timer
  BY <1>2 DEF UserAction, CreateConversation, StartRun, Delete, Rename, Cancel, Backend, Change, WriteWork,
              TitleReturns, BackendReturns, Timer, Persist, DeleteTimesOut, history
<1>3. CASE Fault \/ Restart \/ UNCHANGED vars
  BY <1>3 DEF Fault, Crash, Throw, ThrowInit, Restart, Boot, Load, Serve, vars, history
<1> QED BY <1>1, <1>2, <1>3 DEF Next

\* Every step keeps DirOK.
LEMMA DirKeeps ==
  ASSUME DInv, DirOK, [Next]_vars
  PROVE  DirOK'
<1>1. WorkType'
  BY WorkLife DEF DirOK
<1>2. ASSUME NEW c \in deleted \ outlived
      PROVE  ~work'[c] /\ ~Going(c)'
  <2>1. c \in Conversation /\ ~work[c] /\ ~Going(c)
    BY DEF DInv, DelOK, DirOK
  <2>2. ~work'[c]
    BY <2>1, WorkLife DEF DirOK
  <2> QED BY <2>1, <2>2, GoingLife
<1>3. CASE Removed
  <2>1. /\ Empty(job.c) /\ deleted' = deleted \cup {job.c} /\ UNCHANGED <<work, run>>
        /\ outlived' = IF Going(job.c) THEN outlived \cup {job.c} ELSE outlived
    BY <1>3 DEF Removed, disk, memory
  <2>2. ASSUME NEW c \in deleted' \ outlived'
        PROVE  ~work'[c] /\ ~Going(c)'
    <3>1. CASE c \in deleted
      BY <2>1, <3>1, <1>2
    <3>2. CASE c = job.c
      <4>1. ~work[c] /\ ~Going(c)
        BY <2>1, <3>2 DEF Empty
      <4> QED BY <2>1, <4>1 DEF Going
    <3> QED BY <2>1, <3>1, <3>2
  <2> QED BY <1>1, <2>2 DEF DirOK
<1>4. CASE ~Removed
  BY <1>1, <1>2, <1>4, DeletedLife DEF DirOK
<1> QED BY <1>3, <1>4

\* A conversation whose deletion was acknowledged does not come back, and only a
\* run that was still going then can have left files of the backend.
THEOREM DeletedCorrect == Spec => []DeletedStaysDeleted
<1>1. Init => DirOK
  BY DEF Init, DirOK, WorkType
<1>2. DInv /\ DirOK /\ [Next]_vars => DirOK'
  BY DirKeeps
<1>3. DInv /\ DirOK => DeletedStaysDeleted
  BY DEF DInv, DelOK, DirOK, DeletedStaysDeleted
<1> QED BY <1>1, <1>2, <1>3, DelKeeps, PTL DEF Spec

-----------------------------------------------------------------------------
(* What any step does to the lines of a conversation.                      *)

\* Lines are only added by the three steps that add one, and are only lost
\* with a conversation that is removed.
LEMMA LogLife ==
  ASSUME IInv, [Next]_vars, ~AppendUser, ~AppendAnswer, ~AppendRecovered, NEW c \in Conversation
  PROVE  log'[c] = log[c] \/ (log'[c] = <<>> /\ c \in removing)
<1>1. CASE RemoveFile
  <2>1. job.c \in removing
    BY <1>1, StepPhase DEF RemoveFile, At
  <2>2. log' = log \/ log' = [log EXCEPT ![job.c] = <<>>]
    BY <1>1 DEF RemoveFile
  <2> QED BY <2>1, <2>2 DEF IInv, Types, DiskTypes
<1>2. CASE Step /\ ~RemoveFile
  BY <1>2 DEF Step, Save, New, Launch, Checkpoint, Clear, Finish, Forget, Removed, disk
<1>3. CASE UserAction \/ Backend \/ Timer
  BY <1>3 DEF UserAction, CreateConversation, StartRun, Delete, Rename, Cancel, Backend, Change, WriteWork,
              TitleReturns, BackendReturns, Timer, Persist, DeleteTimesOut, disk
<1>4. CASE Fault \/ Restart \/ UNCHANGED vars
  BY <1>4 DEF Fault, Crash, Throw, ThrowInit, Restart, Boot, Load, Serve, vars, disk
<1> QED BY <1>1, <1>2, <1>3, <1>4 DEF Next

\* The step that adds a line.
LEMMA LineAdded ==
  ASSUME IInv, AppendUser \/ AppendAnswer \/ AppendRecovered
  PROVE  /\ job.todo # <<>> /\ Continue /\ run' = run /\ job.c \in Conversation
         /\ UNCHANGED <<meta, pending, up, conv, active, reported, saved, removing, named, everTorn>>
         /\ \E m \in MessageType :
              /\ log' = [log EXCEPT ![job.c] = Append(@, m)] /\ m.readable = ~torn[job.c]
              /\ \/ AppendUser /\ Starting /\ m.role = "user" /\ m.run = job.r /\ job.r \in Run
                 \/ AppendAnswer /\ Finalizing /\ m.role = "assistant" /\ m.run = job.r /\ job.r \in Run
                 \/ /\ AppendRecovered /\ up = "init" /\ Recovering
                    /\ m.role = "assistant" /\ m.run = pending[job.c] /\ m.status = "interrupted"
<1>1. /\ job.todo # <<>> /\ Continue /\ run' = run /\ job.c \in Conversation
      /\ UNCHANGED <<meta, pending, up, conv, active, reported, saved, removing, named, everTorn>>
      /\ torn[job.c] \in BOOLEAN
  BY DEF IInv, Types, JobTypes, DiskTypes, AppendUser, AppendAnswer, AppendRecovered, AppendLine, At, memory, history
<1>2. CASE AppendUser
  <2>1. Starting /\ job.r \in Run
    BY <1>1, <1>2, StepPhase DEF AppendUser, Starting, Of
  <2>2. Line("user", "completed") \in MessageType
    BY <1>1, <2>1 DEF Line, MessageType, Outcome
  <2>3. log' = [log EXCEPT ![job.c] = Append(@, Line("user", "completed"))]
    BY <1>2 DEF AppendUser, AppendLine
  <2> QED BY <1>1, <1>2, <2>1, <2>2, <2>3 DEF Line
<1>3. CASE AppendAnswer
  <2>1. Finalizing /\ job.r \in Run
    BY <1>1, <1>3, StepPhase DEF AppendAnswer, Finalizing, Of
  <2>2. run[job.r].final \in Outcome
    BY <2>1 DEF IInv, Types, MemoryTypes, RunType
  <2>3. Line("assistant", run[job.r].final) \in MessageType
    BY <1>1, <2>1, <2>2 DEF Line, MessageType
  <2>4. log' = [log EXCEPT ![job.c] = Append(@, Line("assistant", run[job.r].final))]
    BY <1>3 DEF AppendAnswer, AppendLine
  <2> QED BY <1>1, <1>3, <2>1, <2>3, <2>4 DEF Line
<1>4. CASE AppendRecovered
  <2>1. up = "init" /\ Recovering /\ pending[job.c] \in Run
    BY <1>1, <1>4, StepPhase DEF AppendRecovered, IInv, Types, DiskTypes
  <2>2. Recovered(pending[job.c]) = [run |-> pending[job.c], role |-> "assistant",
                                     status |-> "interrupted", readable |-> ~torn[job.c]]
    BY DEF Recovered, Line
  <2> DEFINE m == Recovered(pending[job.c])
  <2>3. /\ m \in MessageType /\ m.readable = ~torn[job.c]
        /\ m.role = "assistant" /\ m.run = pending[job.c] /\ m.status = "interrupted"
    BY <1>1, <2>1, <2>2 DEF MessageType
  <2>4. log' = [log EXCEPT ![job.c] = Append(@, m)]
    BY <1>4 DEF AppendRecovered
  <2> HIDE DEF m
  <2> QED BY <1>1, <1>4, <2>1, <2>3, <2>4
<1> QED BY <1>2, <1>3, <1>4

-----------------------------------------------------------------------------
(* An answer is repeated only by the recovery.  RepeatOK adds that a run   *)
(* that may still be answered has no answer yet, whatever becomes of its   *)
(* conversation.                                                           *)

\* finalize has appended the answer of r, or has none to append.
Past(r) == job.op = "finalize" /\ job.r = r /\ job.todo \notin BeforeAnswer \cup {<<>>}

RepeatOK ==
  /\ RepeatedOnlyByRecovery
  /\ \A r \in Run : run[r].st \in {"accepted", "running"} =>
       Answers(run[r].c, r) = {} \/ Past(r)

\* What is left of finalize after a step is still past the answer.
LEMMA PastTail ==
  ASSUME IInv, job.todo # <<>>, job.op = "finalize", Head(job.todo) # "finish"
  PROVE  Finalizing /\ Tail(job.todo) \notin BeforeAnswer \cup {<<>>}
<1>1. Finalizing
  BY DEF IInv, JobOK, Starting, Launching, Removing, Saving, Recovering
<1>2. \A t \in AfterAnswer \cup AfterClear \cup WithoutAnswer : t \notin BeforeAnswer \cup {<<>>}
  BY AfterAnswerSteps, AfterClearSteps, WithoutAnswerSteps, BeforeAnswerSteps
<1>3. Tail(job.todo) \in AfterAnswer \cup AfterClear \cup WithoutAnswer
  BY <1>1, BeforeAnswerSteps, AfterAnswerSteps, AfterClearSteps, WithoutAnswerSteps DEF Finalizing
<1> QED BY <1>1, <1>2, <1>3

\* A run past its answer stays there until it is over.
LEMMA PastKept ==
  ASSUME IInv, [Next]_vars, NEW r \in Run, Past(r), run[r].st \in {"accepted", "running"},
         run'[r].st \in {"accepted", "running"}
  PROVE  Past(r)'
<1>1. Finalizing /\ job.todo # <<>> /\ ~Free
  BY DEF Past, Free, IInv, JobOK, Starting, Launching, Removing, Saving, Recovering
<1>2. JobTypes /\ job.r = r
  BY DEF IInv, Types, Past
<1>3. CASE job' = job
  BY <1>3 DEF Past
<1>4. CASE Continue /\ Head(job.todo) # "finish"
  BY <1>1, <1>2, <1>4, PastTail, ContinueType DEF Past
<1>5. CASE Step
  <2>1. ~Finish
    <3>1. ASSUME Finish
          PROVE  run'[job.r].st = "done"
      <4>1. run \in [Run -> RunType]
        BY DEF IInv, Types, MemoryTypes
      <4>2. run' = [run EXCEPT ![job.r] = [NoRun EXCEPT !.st = "done", !.c = job.c, !.naming = run[job.r].naming]]
        BY <3>1 DEF Finish
      <4> QED BY <4>1, <4>2, <1>2 DEF NoRun
    <3> QED BY <3>1, <1>2
  <2>2. job' = job \/ (Continue /\ Head(job.todo) # "finish")
    BY <1>5, <2>1 DEF Step, AppendUser, AppendAnswer, AppendRecovered, AppendLine, Save, PrepareSave, SaveStep,
              New, Launch, Checkpoint, Clear, Forget, RemoveFile, Removed, At
  <2> QED BY <2>2, <1>3, <1>4
<1>6. CASE UserAction \/ Backend \/ Timer
  BY <1>1, <1>6 DEF UserAction, CreateConversation, StartRun, Delete, Rename, Cancel, Backend, Change, WriteWork,
              TitleReturns, BackendReturns, Timer, Persist, DeleteTimesOut
<1>7. CASE Fault
  <2>1. run \in [Run -> RunType] /\ run[r].st # "unused"
    BY DEF IInv, Types, MemoryTypes
  <2>2. ~(Crash \/ ThrowInit)
    <3>1. Crash \/ ThrowInit => run'[r].st = "gone"
      BY <2>1 DEF Crash, ThrowInit, Dead, NoRun
    <3> QED BY <3>1
  <2>3. Throw => run' = [run EXCEPT ![r] = Thrown(r)]
    BY <1>1, <1>2, <2>1, RunsAssumption DEF Throw, Finalizing
  <2>4. Thrown(r).st \in {"stuck", "gone"}
    BY <2>1 DEF Thrown, RunType
  <2> QED BY <1>7, <2>1, <2>2, <2>3, <2>4 DEF Fault
<1>8. CASE Restart
  BY <1>1, <1>2, <1>8, <1>3 DEF Restart, Boot, Load, Serve
<1>9. CASE UNCHANGED vars
  BY <1>9, <1>3 DEF vars
<1> QED BY <1>5, <1>6, <1>7, <1>8, <1>9 DEF Next

\* The run that a step finds unused has no line.
LEMMA UnusedUnanswered ==
  ASSUME IInv, NEW r \in Run, run[r].st = "unused", NEW c \in Conversation
  PROVE  Answers(c, r) = {}
BY DEF IInv, LogOK, Answers

\* A step that adds no line keeps RepeatOK.
LEMMA RepeatFrame ==
  ASSUME IInv, IInv', [Next]_vars, RepeatOK, ~AppendUser, ~AppendAnswer, ~AppendRecovered
  PROVE  RepeatOK'
<1>1. \A c \in Conversation, r \in Run : Answers(c, r)' = {} \/ (log'[c] = log[c] /\ Answers(c, r)' = Answers(c, r))
  <2> SUFFICES ASSUME NEW c \in Conversation, NEW r \in Run
      PROVE  Answers(c, r)' = {} \/ (log'[c] = log[c] /\ Answers(c, r)' = Answers(c, r))
    OBVIOUS
  <2>1. CASE log'[c] = log[c]
    BY <2>1 DEF Answers
  <2>2. CASE log'[c] = <<>>
    <3>1. DOMAIN log'[c] = {}
      BY <2>2
    <3>2. Answers(c, r)' = {}
      BY <3>1, Zenon DEF Answers
    <3> QED BY <3>2
  <2> QED BY <2>1, <2>2, LogLife
<1>2. RepeatedOnlyByRecovery'
  BY <1>1 DEF RepeatOK, RepeatedOnlyByRecovery
<1>3. ASSUME NEW r \in Run, run'[r].st \in {"accepted", "running"}, ~Past(r)'
      PROVE  Answers(run[r].c, r)' = {}
  <2>1. run'[r].c \in Conversation
    BY DEF IInv, Types, MemoryTypes, RunType
  <2>2. CASE run[r].st = "unused"
    BY <1>1, <2>1, <2>2, UnusedUnanswered
  <2>3. CASE run[r].st # "unused"
    <3>1. run'[r].c = run[r].c /\ run[r].st \in {"accepted", "running"}
      BY <2>3, <1>3, RunLife
    <3>2. ~Past(r)
      BY <3>1, <1>3, PastKept
    <3> QED BY <1>1, <2>1, <3>1, <3>2 DEF RepeatOK
  <2> QED BY <2>2, <2>3
<1> QED BY <1>2, <1>3 DEF RepeatOK

\* A step that adds a line keeps RepeatOK: a message of the user is no answer,
\* finalize adds the first one, and the recovery marks its own.
LEMMA RepeatAppend ==
  ASSUME IInv, IInv', [Next]_vars, RepeatOK, AppendUser \/ AppendAnswer \/ AppendRecovered
  PROVE  RepeatOK'
<1> DEFINE c == job.c
           n == Len(log[c]) + 1
<1>1. /\ job.todo # <<>> /\ Continue /\ run' = run /\ c \in Conversation
      /\ DiskTypes /\ JobTypes
  BY LineAdded DEF IInv, Types
<1>2. PICK m \in MessageType :
        /\ log' = [log EXCEPT ![c] = Append(@, m)]
        /\ \/ AppendUser /\ Starting /\ m.role = "user" /\ m.run = job.r /\ job.r \in Run
           \/ AppendAnswer /\ Finalizing /\ m.role = "assistant" /\ m.run = job.r /\ job.r \in Run
           \/ /\ AppendRecovered /\ up = "init" /\ Recovering
              /\ m.role = "assistant" /\ m.run = pending[c] /\ m.status = "interrupted"
  BY LineAdded
<1>3. /\ log'[c][n] = m /\ n \notin DOMAIN log[c] /\ \A i \in DOMAIN log[c] : log'[c][i] = log[c][i] /\ i < n
      /\ \A d \in Conversation : d # c => log'[d] = log[d]
      /\ \A d \in Conversation, r \in Run :
           /\ d # c \/ m.run # r \/ m.role # "assistant" => Answers(d, r)' = Answers(d, r)
           /\ d = c /\ m.run = r /\ m.role = "assistant" => Answers(d, r)' = Answers(d, r) \cup {n}
  <2>1. \A i \in DOMAIN log[c] : i < n
    BY <1>1 DEF DiskTypes
  <2> QED BY <1>1, <1>2, <2>1, Appended
<1>4. \A d \in Conversation, r \in Run : Answers(d, r) \subseteq DOMAIN log[d]
  BY DEF Answers
<1>5. ASSUME NEW r \in Run, AppendAnswer, job.r = r
      PROVE  run[r].c = c /\ Answers(c, r) = {} /\ Past(r)'
  <2>1. Finalizing /\ At("answer") /\ job.r \in Run
    BY <1>5, StepPhase DEF AppendAnswer, At, Finalizing, Of
  <2>2. job.todo \in BeforeAnswer
    BY <2>1, AfterAnswerSteps, AfterClearSteps, WithoutAnswerSteps DEF Finalizing, At
  <2>3. Past(r)'
    BY <1>1, <1>5, <2>1, PastTail, ContinueType DEF Past, Finalizing, At
  <2>4. run[r].st = "running" /\ run[r].c = c /\ ~Past(r)
    BY <1>5, <2>1, <2>2 DEF Past, Finalizing, Of
  <2> QED BY <2>3, <2>4 DEF RepeatOK
<1>6. RepeatedOnlyByRecovery'
  <2> SUFFICES ASSUME NEW d \in Conversation, NEW r \in Run,
                      NEW i \in Answers(d, r)', NEW j \in Answers(d, r)', i < j
      PROVE  log'[d][j].status = "interrupted"
    BY DEF RepeatedOnlyByRecovery
  <2>1. CASE i \in Answers(d, r) /\ j \in Answers(d, r)
    <3>1. log'[d][j] = log[d][j]
      BY <2>1, <1>3, <1>4
    <3> QED BY <2>1, <3>1 DEF RepeatOK, RepeatedOnlyByRecovery
  <2>2. CASE ~(i \in Answers(d, r) /\ j \in Answers(d, r))
    <3>1. d = c /\ m.run = r /\ m.role = "assistant" /\ Answers(d, r)' = Answers(d, r) \cup {n}
      BY <2>2, <1>3
    <3>2. j = n /\ i \in Answers(c, r)
      <4>1. \A k \in Answers(c, r) : k < n
        BY <1>1, <1>3, <1>4
      <4>2. n \in Nat /\ DOMAIN log[c] \subseteq Nat
        BY <1>1 DEF DiskTypes
      <4>3. Answers(c, r) \subseteq Nat
        BY <4>2, <1>1, <1>4
      <4> QED BY <3>1, <2>2, <4>1, <4>2, <4>3
    <3>3. ~AppendAnswer
      <4>1. ASSUME AppendAnswer PROVE FALSE
        <5>1. m.run = job.r
          BY <4>1, <1>2 DEF AppendAnswer, AppendUser, AppendRecovered, At
        <5> QED BY <5>1, <4>1, <3>1, <3>2, <1>5
      <4> QED BY <4>1
    <3>4. m.status = "interrupted"
      BY <3>1, <3>3, <1>2
    <3> QED BY <3>1, <3>2, <3>4, <1>3
  <2> QED BY <2>1, <2>2
<1>7. ASSUME NEW r \in Run, run'[r].st \in {"accepted", "running"}, ~Past(r)'
      PROVE  Answers(run[r].c, r)' = {}
  <2>1. run[r].c \in Conversation /\ run'[r] = run[r]
    BY <1>1 DEF IInv, Types, MemoryTypes, RunType
  <2>2. Answers(run[r].c, r) = {}
    BY <1>7, <2>1, PastKept DEF RepeatOK
  <2>3. ~(run[r].c = c /\ m.run = r /\ m.role = "assistant")
    <3>1. ~(AppendAnswer /\ job.r = r)
      BY <1>5, <1>7
    <3>2. CASE AppendRecovered /\ up = "init"
      BY <3>2, <1>7, <2>1 DEF IInv, OwnerOK, Live
    <3> QED BY <3>1, <3>2, <1>2
  <2> QED BY <2>1, <2>2, <2>3, <1>3
<1> QED BY <1>6, <1>7 DEF RepeatOK

\* An answer is repeated only by the recovery of its checkpoint, whatever
\* fails and however often the process dies.
THEOREM RepeatCorrect == Spec => []RepeatedOnlyByRecovery
<1>1. Init => IInv /\ RepeatOK
  <2> SUFFICES ASSUME Init PROVE RepeatOK
    BY InitKeeps
  <2>1. \A c \in Conversation : DOMAIN log[c] = {}
    BY DEF Init
  <2>2. \A c \in Conversation, r \in Run : Answers(c, r) = {}
    BY <2>1 DEF Answers
  <2>3. \A r \in Run : run[r].st = "unused"
    BY DEF Init, NoRun
  <2> QED BY <2>2, <2>3 DEF RepeatOK, RepeatedOnlyByRecovery
<1>2. IInv /\ RepeatOK /\ [Next]_vars => (IInv /\ RepeatOK)'
  BY NextKeeps, RepeatFrame, RepeatAppend
<1>3. RepeatOK => RepeatedOnlyByRecovery
  BY DEF RepeatOK
<1> QED BY <1>1, <1>2, <1>3, PTL DEF Spec

-----------------------------------------------------------------------------
(* A title the user was told is set stays.  TitleOK adds where the title   *)
(* is: on disk at all times, and in memory while the process serves; and   *)
(* that no handler is at work that gives the conversation another title,   *)
(* creates its files or removes them.                                      *)

\* What a handler has to do that gives a conversation its first title.
Naming ==
  {CreateSteps, <<"user", "count", "activate", "title", "launch">>,
   <<"count", "activate", "title", "launch">>, <<"activate", "title", "launch">>, <<"title", "launch">>}

\* What a handler has to do that creates the files of a conversation or removes them.
Untitled == Naming \cup {<<"new", "forget", "remove">>, <<"remove">>}

Titled(c) ==
  /\ meta[c].there /\ meta[c].title = "own"
  /\ up = "serving" => conv[c].there
  /\ conv[c].there => conv[c].title = "own"

TitleOK ==
  /\ \A c \in named : c \in Conversation /\ Titled(c)
  /\ job.todo \in Untitled => job.c \notin named
  /\ job.todo # <<>> /\ job.op \in {"rename", "init"} => conv[job.c].there
  /\ job.todo # <<>> /\ job.op = "rename" => conv[job.c].title = "own"

\* The heads of the steps that name a conversation, create or remove its files.
LEMMA UntitledHeads ==
  ASSUME NEW s \in Untitled
  PROVE  s # <<>> /\ Head(s) \in {"new", "user", "count", "activate", "title", "remove"}
<1>1. CASE s = CreateSteps
  BY <1>1 DEF CreateSteps
<1>2. CASE s = <<"user", "count", "activate", "title", "launch">>
  BY <1>2
<1>3. CASE s = <<"count", "activate", "title", "launch">>
  BY <1>3
<1>4. CASE s = <<"activate", "title", "launch">>
  BY <1>4
<1>5. CASE s = <<"title", "launch">>
  BY <1>5
<1>6. CASE s = <<"new", "forget", "remove">> \/ s = <<"remove">>
  BY <1>6
<1> QED BY <1>1, <1>2, <1>3, <1>4, <1>5, <1>6 DEF Untitled, Naming

\* Handlers that do not name their conversation.
LEMMA OtherSteps ==
  /\ \A s \in AfterAnswer \cup BeforeAnswer \cup AfterClear \cup WithoutAnswer \cup Recovery \cup BeforeClear :
       s \notin Untitled
  /\ <<"user", "count", "activate", "launch">> \notin Untitled /\ DeleteSteps \notin Untitled
  /\ <<"save">> \notin Untitled /\ <<"checkpoint">> \notin Untitled /\ <<"inactive">> \notin Untitled
  /\ <<>> \notin Untitled
<1>1. <<"user", "count", "activate", "launch">> \notin Untitled
  BY DEF Untitled, Naming, CreateSteps
<1>2. DeleteSteps \notin Untitled /\ <<"save">> \notin Untitled /\ <<"checkpoint">> \notin Untitled
      /\ <<"inactive">> \notin Untitled
  <2>1. /\ Head(DeleteSteps) = "forget" /\ Head(<<"save">>) = "save" /\ Head(<<"checkpoint">>) = "checkpoint"
        /\ Head(<<"inactive">>) = "inactive"
    BY DEF DeleteSteps
  <2> QED BY <2>1, UntitledHeads
<1>3. <<"count", "clear", "inactive", "finish">> \notin Untitled /\ <<"count", "clear", "inactive">> \notin Untitled
      /\ <<"count", "clear">> \notin Untitled
  BY DEF Untitled, Naming, CreateSteps
<1>4. \A s \in AfterAnswer : s \notin Untitled
  <2>1. Head(<<"clear", "inactive", "finish">>) = "clear"
    OBVIOUS
  <2> QED BY <2>1, <1>3, UntitledHeads DEF AfterAnswer
<1>5. \A s \in BeforeClear : s \notin Untitled
  <2>1. Head(<<"clear", "inactive">>) = "clear" /\ Head(<<"clear">>) = "clear"
    OBVIOUS
  <2> QED BY <2>1, <1>3, UntitledHeads DEF BeforeClear
<1> QED BY <1>1, <1>2, <1>4, <1>5, UntitledHeads, BeforeAnswerSteps, AfterClearSteps, WithoutAnswerSteps,
           RecoverySteps

\* A handler that goes on comes to such a step only from one, or from forget.
LEMMA UntitledTail ==
  ASSUME IInv, job.todo # <<>>, Tail(job.todo) \in Untitled
  PROVE  job.todo \in Untitled \/ Head(job.todo) = "forget"
<1> DEFINE t == job.todo
<1>1. CASE Starting
  <2>1. CASE t = CreateSteps \/ t = <<"user", "count", "activate", "title", "launch">>
    BY <2>1 DEF Untitled, Naming
  <2>2. CASE t = <<"user", "count", "activate", "launch">>
    <3>1. Tail(t) = <<"count", "activate", "launch">>
      BY <2>2
    <3>2. <<"count", "activate", "launch">> \notin Untitled
      BY DEF Untitled, Naming, CreateSteps
    <3> QED BY <3>1, <3>2
  <2>3. CASE t = <<"count", "activate", "title", "launch">> \/ t = <<"activate", "title", "launch">>
    BY <2>3 DEF Untitled, Naming
  <2>4. CASE t = <<"count", "activate", "launch">>
    <3>1. Tail(t) = <<"activate", "launch">>
      BY <2>4
    <3>2. <<"activate", "launch">> \notin Untitled
      BY DEF Untitled, Naming, CreateSteps
    <3> QED BY <3>1, <3>2
  <2>5. CASE t = <<"activate", "launch">>
    <3>1. Tail(t) = <<"launch">>
      BY <2>5
    <3> QED BY <3>1, UntitledHeads
  <2> QED BY <1>1, <2>1, <2>2, <2>3, <2>4, <2>5 DEF Starting, BeforeUser, AfterUser
<1>2. CASE Launching
  <2>1. CASE t = <<"title", "launch">>
    BY <2>1 DEF Untitled, Naming
  <2>2. CASE t = <<"launch">>
    BY <2>2, UntitledHeads
  <2> QED BY <1>2, <2>1, <2>2 DEF Launching, AfterActivate
<1>3. CASE Finalizing
  <2>1. Tail(t) \in AfterAnswer \cup AfterClear \cup WithoutAnswer \cup {<<>>}
    BY <1>3, BeforeAnswerSteps, AfterAnswerSteps, AfterClearSteps, WithoutAnswerSteps DEF Finalizing
  <2> QED BY <2>1, OtherSteps
<1>4. CASE Removing
  <2>1. CASE t = <<"new", "forget", "remove">>
    BY <2>1 DEF Untitled
  <2>2. CASE t = DeleteSteps
    BY <2>2 DEF DeleteSteps
  <2>3. CASE t = <<"remove">>
    BY <2>3 DEF Untitled
  <2> QED BY <1>4, <2>1, <2>2, <2>3 DEF Removing, BeforeForget, AfterForget
<1>5. CASE Saving
  <2>1. Tail(t) = <<>>
    BY <1>5, SingleSteps DEF Saving
  <2> QED BY <2>1, OtherSteps
<1>6. CASE Recovering
  <2>1. Tail(t) \in BeforeClear \cup {<<"inactive">>, <<>>}
    BY <1>6, RecoverySteps, BeforeClearSteps, SingleSteps DEF Recovering
  <2> QED BY <2>1, OtherSteps
<1> QED BY <1>1, <1>2, <1>3, <1>4, <1>5, <1>6 DEF IInv, JobOK

\* The steps that write conversation.json first, give a title or remove files
\* are of a handler that is at such a step.
LEMMA UntitledAt ==
  ASSUME IInv, job.todo # <<>>, Head(job.todo) \in {"new", "title", "remove"}
  PROVE  job.todo \in Untitled
<1> DEFINE t == job.todo
<1>1. CASE Starting
  <2>1. CASE t \in BeforeUser
    BY <2>1, <1>1, BeforeUserSteps DEF Untitled, Naming
  <2>2. CASE t \in AfterUser
    BY <2>2, AfterUserSteps
  <2> QED BY <1>1, <2>1, <2>2 DEF Starting
<1>2. CASE Launching
  BY <1>2 DEF Launching, AfterActivate, Untitled, Naming
<1>3. CASE Finalizing
  BY <1>3, BeforeAnswerSteps, AfterAnswerSteps, AfterClearSteps, WithoutAnswerSteps DEF Finalizing
<1>4. CASE Removing
  <2>1. CASE t = DeleteSteps
    BY <2>1 DEF DeleteSteps
  <2> QED BY <1>4, <2>1 DEF Removing, BeforeForget, AfterForget, Untitled
<1>5. CASE Saving
  BY <1>5, SingleSteps DEF Saving
<1>6. CASE Recovering
  BY <1>6, RecoverySteps, BeforeClearSteps, SingleSteps DEF Recovering
<1> QED BY <1>1, <1>2, <1>3, <1>4, <1>5, <1>6 DEF IInv, JobOK

\* A handler begins, or none does, and no title is touched.
LEMMA TitleBegin ==
  ASSUME TitleOK, named' = named, UNCHANGED <<meta, up>>,
         \A c \in named : conv'[c] = conv[c],
         job'.todo \in Untitled => job'.c \notin named,
         job'.todo # <<>> => job'.op \notin {"rename", "init"}
  PROVE  TitleOK'
BY DEF TitleOK, Titled

\* What a user asks for keeps TitleOK.
LEMMA TitleUser ==
  ASSUME IInv, TitleOK, UserAction
  PROVE  TitleOK'
<1>1. ASSUME NEW c \in Conversation, NEW r \in Run, CreateConversation(c, r)
      PROVE  TitleOK'
  <2>1. named' = named /\ UNCHANGED <<meta, up, conv>> /\ ~meta[c].there
    BY <1>1 DEF CreateConversation, Fresh, Empty, NotStored, disk, history
  <2>2. job'.op = "create" /\ job'.c = c
    BY <1>1 DEF CreateConversation, Begin
  <2> QED BY <2>1, <2>2, TitleBegin DEF TitleOK, Titled
<1>2. ASSUME NEW c \in Conversation, NEW r \in Run, StartRun(c, r)
      PROVE  TitleOK'
  <2>1. named' = named /\ UNCHANGED <<meta, up, conv>> /\ conv[c].there
    BY <1>2 DEF StartRun, disk, history
  <2>2. job'.op = "start" /\ job'.c = c /\ job'.todo = StartSteps(conv[c].title)
    BY <1>2 DEF StartRun, Begin
  <2>3. CASE conv[c].title = "default"
    BY <2>1, <2>2, <2>3, TitleBegin DEF TitleOK, Titled
  <2>4. CASE conv[c].title # "default"
    BY <2>1, <2>2, <2>4, OtherSteps, TitleBegin DEF StartSteps
  <2> QED BY <2>3, <2>4
<1>3. ASSUME NEW c \in Conversation, Delete(c)
      PROVE  TitleOK'
  <2>1. named' = named /\ UNCHANGED <<meta, up, conv>>
    BY <1>3 DEF Delete, disk, history
  <2>2. job' = job \/ (job'.op = "delete" /\ job'.todo = DeleteSteps)
    BY <1>3 DEF Delete, Begin
  <2>3. CASE job' = job
    BY <2>1, <2>3 DEF TitleOK, Titled
  <2> QED BY <2>1, <2>2, <2>3, OtherSteps, TitleBegin
<1>4. ASSUME NEW c \in Conversation, Rename(c)
      PROVE  TitleOK'
  <2>1. /\ named' = named \ {c} /\ UNCHANGED <<meta, up>> /\ conv[c].there
        /\ conv' = [conv EXCEPT ![c].title = "own"] /\ c \in Conversation
        /\ job'.op = "rename" /\ job'.c = c /\ job'.todo = <<"save">>
    BY <1>4 DEF Rename, Begin, disk
  <2>2. conv \in [Conversation -> EntryType]
    BY DEF IInv, Types, MemoryTypes
  <2>3. conv'[c].title = "own" /\ conv'[c].there /\ \A d \in Conversation : d # c => conv'[d] = conv[d]
    BY <2>1, <2>2 DEF EntryType
  <2> QED BY <2>1, <2>3, OtherSteps DEF TitleOK, Titled
<1>5. ASSUME NEW r \in Run, Cancel(r)
      PROVE  TitleOK'
  BY <1>5 DEF Cancel, disk, history, TitleOK, Titled
<1> QED BY <1>1, <1>2, <1>3, <1>4, <1>5 DEF UserAction

\* What the backend and the timers do keeps TitleOK: a generated title only
\* replaces the one that it was asked for.
LEMMA TitleBackend ==
  ASSUME IInv, TitleOK, Backend \/ Timer
  PROVE  TitleOK'
<1>1. ASSUME NEW r \in Run, Change(r)
      PROVE  TitleOK'
  BY <1>1 DEF Change, disk, history, TitleOK, Titled
<1>6. ASSUME NEW r \in Run, WriteWork(r)
      PROVE  TitleOK'
  BY <1>6 DEF WriteWork, memory, history, TitleOK, Titled
<1>2. ASSUME NEW r \in Run, TitleReturns(r)
      PROVE  TitleOK'
  <2> DEFINE c == run[r].c
  <2>1. named' = named /\ UNCHANGED <<meta, up>>
    BY <1>2 DEF TitleReturns, disk, history
  <2>2. CASE UNCHANGED <<conv, job>>
    BY <2>1, <2>2 DEF TitleOK, Titled
  <2>3. CASE TitleWanted(c) /\ conv' = [conv EXCEPT ![c].title = "generated"] /\ Begin("name", c, r, <<"save">>)
    <3>1. c \notin named
      BY <2>3 DEF TitleWanted, TitleOK, Titled
    <3>2. \A d \in Conversation : d # c => conv'[d] = conv[d]
      BY <2>3 DEF IInv, Types, MemoryTypes
    <3>3. job'.op = "name" /\ job'.todo = <<"save">>
      BY <2>3 DEF Begin
    <3> QED BY <2>1, <3>1, <3>2, <3>3, OtherSteps, TitleBegin DEF TitleOK
  <2> QED BY <1>2, <2>2, <2>3 DEF TitleReturns
<1>3. ASSUME NEW r \in Run, NEW result \in {"completed", "failed"}, BackendReturns(r, result)
      PROVE  TitleOK'
  <2>1. /\ named' = named /\ UNCHANGED <<meta, up, conv>> /\ job'.op = "finalize"
        /\ job'.todo = FinalSteps(run[r].c)
    BY <1>3 DEF BackendReturns, Begin, disk, history
  <2>2. FinalSteps(run[r].c) \in BeforeAnswer \cup WithoutAnswer
    BY DEF FinalSteps, BeforeAnswer, WithoutAnswer
  <2> QED BY <2>1, <2>2, OtherSteps, TitleBegin
<1>4. ASSUME NEW r \in Run, Persist(r)
      PROVE  TitleOK'
  <2>1. named' = named /\ UNCHANGED <<meta, up, conv>>
    BY <1>4 DEF Persist, disk, history
  <2>2. job' = job \/ (job'.op = "persist" /\ job'.todo = <<"checkpoint">>)
    BY <1>4 DEF Persist
  <2>3. CASE job' = job
    BY <2>1, <2>3 DEF TitleOK, Titled
  <2> QED BY <2>1, <2>2, <2>3, OtherSteps, TitleBegin
<1>5. ASSUME NEW c \in Conversation, DeleteTimesOut(c)
      PROVE  TitleOK'
  <2>1. /\ named' = named /\ UNCHANGED <<meta, up, conv>>
        /\ job'.op = "delete" /\ job'.todo = DeleteSteps
    BY <1>5 DEF DeleteTimesOut, Begin, disk, memory, history
  <2> QED BY <2>1, OtherSteps, TitleBegin
<1> QED BY <1>1, <1>2, <1>3, <1>4, <1>5, <1>6 DEF Backend, Timer

\* A handler goes on that does not touch the title of a conversation that was named.
LEMMA TitleGoesOn ==
  ASSUME IInv, TitleOK, job.todo # <<>>, Continue, Head(job.todo) # "forget", named' = named, up' = up,
         \A c \in named : meta'[c].there = meta[c].there /\ meta'[c].title = meta[c].title,
         \A c \in Conversation : conv[c].there => conv'[c].there,
         \A c \in named : conv'[c].there = conv[c].there /\ conv'[c].title = conv[c].title,
         job.op = "rename" => conv'[job.c].title = conv[job.c].title
  PROVE  TitleOK'
<1>1. job'.op = job.op /\ job'.c = job.c /\ job'.todo = Tail(job.todo) /\ job.c \in Conversation
  BY ContinueType DEF IInv, Types, JobTypes
<1>2. job'.todo \in Untitled => job'.c \notin named
  BY <1>1, UntitledTail DEF TitleOK
<1> QED BY <1>1, <1>2 DEF TitleOK, Titled

\* What is saved keeps the title, unless the conversation has none yet.
LEMMA PreparedTitle ==
  ASSUME IInv, TitleOK, job.todo # <<>>, job.c \in named \/ job.op = "rename"
  PROVE  Prepared.title = conv[job.c].title
<1>1. conv[job.c] \in EntryType
  BY DEF IInv, Types, MemoryTypes, JobTypes
<1>2. ~At("title")
  <2>1. CASE job.op = "rename"
    BY <2>1, SingleSteps DEF IInv, JobOK, Starting, Launching, Finalizing, Removing, Saving, Recovering, At
  <2>2. CASE job.c \in named
    BY <2>2, UntitledAt DEF TitleOK, At
  <2> QED BY <2>1, <2>2
<1>3. \A x : [conv[job.c] EXCEPT !.activeRun = x].title = conv[job.c].title
  BY <1>1 DEF EntryType
<1> QED BY <1>2, <1>3 DEF Prepared

\* The steps of a handler keep TitleOK.
LEMMA TitleStepKeeps ==
  ASSUME IInv, TitleOK, Step
  PROVE  TitleOK'
<1> DEFINE c == job.c
<1>1. /\ c \in Conversation /\ conv \in [Conversation -> EntryType] /\ meta \in [Conversation -> EntryType]
      /\ named \subseteq Conversation /\ JobTypes /\ MemoryTypes
  BY DEF IInv, Types, DiskTypes, MemoryTypes, JobTypes, TitleOK
<1>2. CASE \/ AppendUser \/ AppendAnswer \/ AppendRecovered \/ Launch \/ Checkpoint \/ Clear \/ Removed
  <2>1. job.todo # <<>> /\ Continue /\ Head(job.todo) # "forget" /\ UNCHANGED <<meta, conv, named, up>>
    BY <1>2 DEF AppendUser, AppendAnswer, AppendRecovered, AppendLine, Launch, Checkpoint, Clear, Removed,
                At, disk, memory, history
  <2> QED BY <2>1, TitleGoesOn
<1>3. CASE Save
  <2>1. /\ job.todo # <<>> /\ Head(job.todo) \in SaveStep /\ Continue /\ up' = up
        /\ conv' = [conv EXCEPT ![c] = Prepared] /\ meta' = [meta EXCEPT ![c] = Prepared]
        /\ named' = IF job.op = "rename" THEN named \cup {c} ELSE named
    BY <1>3 DEF Save, PrepareSave
  <2>2. /\ conv'[c] = Prepared /\ meta'[c] = Prepared /\ Prepared.there = conv[c].there
        /\ \A d \in Conversation : d # c => conv'[d] = conv[d] /\ meta'[d] = meta[d]
    BY <1>1, <2>1, PreparedType
  <2>3. \A d \in Conversation : conv'[d].there = conv[d].there
    BY <2>2
  <2>4. c \in named => conv[c].there
    <3>1. up = "serving" \/ job.op = "init"
      BY <2>1 DEF IInv, JobOK, Recovering
    <3> QED BY <2>1, <3>1 DEF TitleOK, Titled
  <2>5. CASE job.op = "rename"
    <3>1. conv[c].there /\ conv[c].title = "own" /\ Prepared.title = "own"
      BY <2>1, <2>5, PreparedTitle DEF TitleOK
    <3>2. Tail(job.todo) = <<>>
      BY <2>1, <2>5, SingleSteps DEF IInv, JobOK, Starting, Launching, Finalizing, Removing, Saving, Recovering
    <3>3. job'.todo = <<>>
      BY <1>1, <2>1, <3>2, ContinueType
    <3>4. ASSUME NEW d \in named'
          PROVE  d \in Conversation /\ Titled(d)'
      BY <1>1, <2>1, <2>2, <2>5, <3>1, <3>4 DEF TitleOK, Titled
    <3> QED BY <3>3, <3>4, OtherSteps DEF TitleOK
  <2>6. CASE job.op # "rename"
    <3>1. \A d \in named : conv'[d].title = conv[d].title
      BY <1>1, <2>1, <2>2, PreparedTitle
    <3>2. \A d \in named : meta'[d].there = meta[d].there /\ meta'[d].title = meta[d].title
      BY <1>1, <2>1, <2>2, <2>4, PreparedTitle DEF TitleOK, Titled
    <3>3. Head(job.todo) # "forget"
      BY <2>1 DEF SaveStep
    <3> QED BY <2>1, <2>3, <2>6, <3>1, <3>2, <3>3, <1>1, TitleGoesOn
  <2> QED BY <2>5, <2>6
<1>4. CASE New
  <2> DEFINE e == [None EXCEPT !.there = TRUE]
  <2>1. /\ job.todo # <<>> /\ Head(job.todo) = "new" /\ Continue /\ UNCHANGED <<up, named>>
        /\ conv' = [conv EXCEPT ![c] = e] /\ meta' = [meta EXCEPT ![c] = e] /\ e.there
    BY <1>4 DEF New, At, history, None
  <2>2. c \notin named /\ job.op # "rename"
    <3>1. job.op # "rename"
      BY <2>1, SingleSteps DEF IInv, JobOK, Starting, Launching, Finalizing, Removing, Saving, Recovering
    <3> QED BY <2>1, <3>1, UntitledAt DEF TitleOK
  <2>3. /\ conv'[c].there
        /\ \A d \in Conversation : d # c => conv'[d] = conv[d] /\ meta'[d] = meta[d]
    BY <1>1, <2>1
  <2> QED BY <1>1, <2>1, <2>2, <2>3, TitleGoesOn
<1>5. CASE Finish
  <2>1. /\ job.todo # <<>> /\ Head(job.todo) = "finish" /\ UNCHANGED <<meta, conv, named, up>>
        /\ (job'.op = "delete" /\ job'.todo = DeleteSteps) \/ Continue
    BY <1>5 DEF Finish, At, Begin, disk
  <2> QED BY <2>1, TitleGoesOn, TitleBegin, OtherSteps
<1>6. CASE Forget
  <2>1. /\ job.todo # <<>> /\ Head(job.todo) = "forget" /\ Continue /\ UNCHANGED <<meta, up>>
        /\ conv' = [conv EXCEPT ![c] = None] /\ named' = named \ {c}
    BY <1>6 DEF Forget, At, disk
  <2>2. Removing
    BY <2>1, StepPhase DEF At
  <2>3. job'.op = job.op /\ job'.c = c /\ job.op \notin {"rename", "init"}
    BY <1>1, <2>1, <2>2, ContinueType DEF Removing
  <2> QED BY <1>1, <2>1, <2>3 DEF TitleOK, Titled
<1>7. CASE RemoveFile
  <2>1. /\ job.todo # <<>> /\ Head(job.todo) = "remove" /\ UNCHANGED <<conv, up, named, job>>
        /\ meta' = meta \/ meta' = [meta EXCEPT ![c] = None]
    BY <1>7 DEF RemoveFile, At, memory, history
  <2>2. c \notin named
    BY <2>1, UntitledAt DEF TitleOK
  <2>3. \A d \in named : meta'[d] = meta[d]
    BY <1>1, <2>1, <2>2
  <2> QED BY <2>1, <2>3 DEF TitleOK, Titled
<1> QED BY <1>2, <1>3, <1>4, <1>5, <1>6, <1>7 DEF Step

\* Faults keep TitleOK.
LEMMA TitleFault ==
  ASSUME IInv, TitleOK, Fault
  PROVE  TitleOK'
<1> DEFINE c == job.c
<1>1. /\ c \in Conversation /\ conv \in [Conversation -> EntryType]
      /\ named \subseteq Conversation /\ JobTypes /\ MemoryTypes
  BY DEF IInv, Types, MemoryTypes, JobTypes, TitleOK
<1>2. CASE Crash \/ ThrowInit
  <2>1. /\ up' = "down" /\ job' = Idle /\ UNCHANGED <<meta, named>>
        /\ conv' = [d \in Conversation |-> None]
    BY <1>2 DEF Crash, ThrowInit, Dead
  <2>2. job'.todo = <<>>
    <3>1. Idle.todo = <<>>
      BY StartTypes
    <3> QED BY <2>1, <3>1
  <2>3. \A d \in Conversation : ~conv'[d].there
    BY <2>1 DEF None
  <2> QED BY <1>1, <2>1, <2>2, <2>3, OtherSteps DEF TitleOK, Titled
<1>3. CASE Throw
  <2>1. /\ job.todo # <<>> /\ UNCHANGED <<meta, named, up>>
        /\ conv' = conv \/ conv' = [conv EXCEPT ![c] = Prepared]
        /\ job' = IF job.op = "create" /\ Head(job.todo) \notin {"new", "remove"}
                    THEN [job EXCEPT !.todo = DeleteSteps] ELSE [job EXCEPT !.todo = <<>>]
    BY <1>3 DEF Throw, PrepareSave
  <2>2. job'.todo = <<>> \/ (job'.op = "create" /\ job'.todo = DeleteSteps)
    BY <1>1, <2>1 DEF JobTypes
  <2>3. \A d \in named : conv'[d].there = conv[d].there /\ conv'[d].title = conv[d].title
    BY <1>1, <2>1, PreparedType, PreparedTitle
  <2> QED BY <2>1, <2>2, <2>3, OtherSteps DEF TitleOK, Titled
<1> QED BY <1>2, <1>3 DEF Fault

\* The start of the process reads the titles back.
LEMMA TitleRestart ==
  ASSUME IInv, TitleOK, Restart
  PROVE  TitleOK'
<1>1. CASE Boot
  BY <1>1 DEF Boot, disk, memory, history, TitleOK, Titled
<1>2. ASSUME NEW c \in Conversation, Load(c)
      PROVE  TitleOK'
  <2>1. /\ UNCHANGED <<meta, up, named>> /\ meta[c].there /\ conv' = [conv EXCEPT ![c] = meta[c]]
        /\ job'.op = "init" /\ job'.c = c /\ job'.todo = LoadSteps(c)
    BY <1>2 DEF Load, Unloaded, Begin, disk, history
  <2>2. conv'[c] = meta[c] /\ \A d \in Conversation : d # c => conv'[d] = conv[d]
    BY <2>1 DEF IInv, Types, MemoryTypes
  <2>3. job'.todo \notin Untitled
    <3>1. LoadSteps(c) \in Recovery \cup {<<"inactive">>, <<>>}
      BY DEF LoadSteps, Recovery
    <3> QED BY <2>1, <3>1, OtherSteps
  <2> QED BY <2>1, <2>2, <2>3 DEF TitleOK, Titled
<1>3. CASE Serve
  <2>1. UNCHANGED <<meta, conv, named, job>> /\ \A c \in Conversation : meta[c].there => conv[c].there
    BY <1>3 DEF Serve, Unloaded, disk, memory, history
  <2> QED BY <2>1 DEF TitleOK, Titled
<1> QED BY <1>1, <1>2, <1>3 DEF Restart

\* A title the user was told is set stays, on disk and in memory, until the
\* user names the conversation again.
THEOREM TitleCorrect == Spec => []UserTitleIsKept
<1>1. Init => IInv /\ TitleOK
  <2>1. Init => named = {} /\ job.todo = <<>>
    BY StartTypes DEF Init
  <2> QED BY <2>1, InitKeeps, OtherSteps DEF TitleOK
<1>2. IInv /\ TitleOK /\ [Next]_vars => (IInv /\ TitleOK)'
  <2> SUFFICES ASSUME IInv, TitleOK, [Next]_vars PROVE TitleOK'
    BY NextKeeps
  <2>1. CASE UNCHANGED vars
    BY <2>1 DEF vars, disk, memory, history, TitleOK, Titled
  <2> QED BY <2>1, TitleUser, TitleBackend, TitleStepKeeps, TitleFault, TitleRestart DEF Next
<1>3. TitleOK => UserTitleIsKept
  BY DEF TitleOK, Titled, UserTitleIsKept
<1> QED BY <1>1, <1>2, <1>3, PTL DEF Spec

-----------------------------------------------------------------------------
(* The checkpoint of a run is kept.  HeldOK relates the files to the       *)
(* memory: a conversation that is not removed is in memory while the       *)
(* process serves; its checkpoint and its mark are of the run that holds   *)
(* it, or init is about to take them away.                                 *)

\* What init has still to do before the mark of a conversation is gone.
Marked ==
  {<<"recover", "count", "clear", "inactive">>, <<"count", "clear", "inactive">>,
   <<"clear", "inactive">>, <<"inactive">>}

\* The files of a conversation and its entry in memory.
FilesOK(c) ==
  /\ ~conv[c].there => conv[c].activeRun = 0
  /\ up = "down" => ~conv[c].there
  /\ c \notin removing => (conv[c].there \/ pending[c] # 0 => meta[c].there)
  /\ up = "serving" /\ c \notin removing /\ meta[c].there => conv[c].there

\* The checkpoint is of the run that holds the conversation, or is recovered.
CheckpointOK(c) ==
  conv[c].there /\ pending[c] # 0 =>
    \/ up = "serving" /\ active[c] = pending[c]
    \/ up = "init" /\ job.c = c /\ job.todo \in Recovery \cup BeforeClear

\* The mark is of the run that holds the conversation, or is taken away.
MarkOK(c) ==
  conv[c].activeRun # 0 =>
    \/ up = "serving" /\ active[c] = conv[c].activeRun
    \/ up = "init" /\ job.c = c /\ job.todo \in Marked

\* What a handler relies on.
HandlerOK ==
  /\ At("new") => pending[job.c] = 0
  /\ job.todo # <<>> /\ job.op \in {"rename", "name", "init"} => conv[job.c].there
  /\ job.op = "finalize" /\ job.todo \in AfterClear => pending[job.c] = 0
  /\ job.op = "finalize" /\ job.todo \in WithoutAnswer => conv[job.c].activeRun = 0

HeldOK ==
  /\ \A c \in Conversation : FilesOK(c) /\ CheckpointOK(c) /\ MarkOK(c)
  /\ HandlerOK

\* No handler has nothing to do before it recovers a checkpoint or a mark.
LEMMA MarkedSteps ==
  /\ <<>> \notin Recovery \cup BeforeClear \cup Marked
  /\ \A s \in Marked :
       \/ Head(s) = "inactive" /\ Tail(s) = <<>>
       \/ Head(s) \in {"recover", "count", "clear"} /\ Tail(s) \in Marked
  /\ \A s \in Recovery \cup BeforeClear : Head(s) = "clear" \/ Tail(s) \in BeforeClear
<1>1. ASSUME NEW s \in Marked
      PROVE  /\ s # <<>>
             /\ \/ Head(s) = "inactive" /\ Tail(s) = <<>>
                \/ Head(s) \in {"recover", "count", "clear"} /\ Tail(s) \in Marked
  <2>1. CASE s = <<"recover", "count", "clear", "inactive">>
    BY <2>1 DEF Marked
  <2>2. CASE s = <<"count", "clear", "inactive">>
    BY <2>2 DEF Marked
  <2>3. CASE s = <<"clear", "inactive">>
    BY <2>3 DEF Marked
  <2>4. CASE s = <<"inactive">>
    BY <2>4, SingleSteps
  <2> QED BY <2>1, <2>2, <2>3, <2>4 DEF Marked
<1> QED BY <1>1, RecoverySteps, BeforeClearSteps

\* The first step of a handler that is not asked for to create a conversation.
LEMMA NewFirst ==
  ASSUME IInv, job.todo # <<>>, Tail(job.todo) # <<>>
  PROVE  Head(Tail(job.todo)) # "new"
<1> DEFINE t == Tail(job.todo)
<1>1. CASE Starting
  <2>1. \A s \in BeforeUser : s # CreateSteps => Head(s) # "new"
    BY BeforeUserSteps
  <2>2. t \in AfterUser \cup AfterActivate \/ (t \in BeforeUser /\ t # CreateSteps)
    BY <1>1, BeforeUserSteps, AfterUserSteps DEF Starting
  <2> QED BY <2>1, <2>2, AfterUserSteps, AfterActivateSteps
<1>2. CASE Launching
  <2>1. t \in AfterActivate
    BY <1>2, AfterActivateSteps DEF Launching
  <2> QED BY <2>1, AfterActivateSteps
<1>3. CASE Finalizing
  <2>1. t \in AfterAnswer \cup AfterClear \cup WithoutAnswer
    BY <1>3, BeforeAnswerSteps, AfterAnswerSteps, AfterClearSteps, WithoutAnswerSteps DEF Finalizing
  <2> QED BY <2>1, AfterAnswerSteps, AfterClearSteps, WithoutAnswerSteps
<1>4. CASE Removing
  <2>1. CASE job.todo = <<"new", "forget", "remove">>
    BY <2>1
  <2>2. CASE job.todo = DeleteSteps
    BY <2>2 DEF DeleteSteps
  <2> QED BY <1>4, <2>1, <2>2, AfterForgetSteps DEF Removing, BeforeForget
<1>5. CASE Saving
  BY <1>5, SingleSteps DEF Saving
<1>6. CASE Recovering
  <2>1. t \in BeforeClear \cup {<<"inactive">>}
    BY <1>6, RecoverySteps, BeforeClearSteps, SingleSteps DEF Recovering
  <2> QED BY <2>1, BeforeClearSteps, SingleSteps
<1> QED BY <1>1, <1>2, <1>3, <1>4, <1>5, <1>6 DEF IInv, JobOK

\* A handler begins, or none does, and what is held stays.
LEMMA HeldBegin ==
  ASSUME HeldOK, UNCHANGED <<meta, pending, up, active, removing>>, Free,
         \A c \in Conversation : conv'[c].there = conv[c].there /\ conv'[c].activeRun = conv[c].activeRun,
         HandlerOK'
  PROVE  HeldOK'
<1>1. \A c \in Conversation : CheckpointOK(c) => CheckpointOK(c)'
  BY DEF CheckpointOK, Free
<1>2. \A c \in Conversation : MarkOK(c) => MarkOK(c)'
  BY DEF MarkOK, Free
<1>3. \A c \in Conversation : FilesOK(c) => FilesOK(c)'
  BY DEF FilesOK
<1> QED BY <1>1, <1>2, <1>3 DEF HeldOK

\* A handler that begins with a step of these has nothing to rely on.
LEMMA FreshHandler ==
  ASSUME job'.todo # <<>> => Head(job'.todo) # "new",
         job'.todo # <<>> => job'.op \in {"start", "delete", "persist"}
  PROVE  HandlerOK'
<1>1. \A s \in AfterClear \cup WithoutAnswer : s # <<>>
  BY AfterClearSteps, WithoutAnswerSteps
<1> QED BY <1>1 DEF HandlerOK, At

\* What is asked for and what the backend and the timers do keeps HeldOK.
LEMMA HeldHandlers ==
  ASSUME IInv, HeldOK, UserAction \/ Backend \/ Timer
  PROVE  HeldOK'
<1>1. conv \in [Conversation -> EntryType] /\ \A c \in Conversation : conv[c] \in EntryType
  BY DEF IInv, Types, MemoryTypes
<1>2. ASSUME UNCHANGED <<meta, pending, up, active, removing, conv, job>>
      PROVE  HeldOK'
  BY <1>2 DEF HeldOK, FilesOK, CheckpointOK, MarkOK, HandlerOK, At
<1>3. Head(DeleteSteps) = "forget" /\ DeleteSteps # <<>>
  BY DEF DeleteSteps
<1>4. ASSUME NEW c \in Conversation, NEW r \in Run, CreateConversation(c, r)
      PROVE  HeldOK'
  <2>1. Free /\ UNCHANGED <<meta, pending, up, active, removing, conv>> /\ pending[c] = 0
    BY <1>4 DEF CreateConversation, Fresh, Empty, NotStored, disk, history
  <2>2. job'.op = "create" /\ job'.c = c
    BY <1>4 DEF CreateConversation, Begin
  <2>3. HandlerOK'
    BY <2>1, <2>2 DEF HandlerOK, At
  <2> QED BY <2>1, <2>3, HeldBegin
<1>5. ASSUME NEW c \in Conversation, NEW r \in Run, StartRun(c, r)
      PROVE  HeldOK'
  <2>1. Free /\ UNCHANGED <<meta, pending, up, active, removing, conv>>
    BY <1>5 DEF StartRun, disk, history
  <2>2. job'.op = "start" /\ job'.todo = StartSteps(conv[c].title)
    BY <1>5 DEF StartRun, Begin
  <2>3. Head(StartSteps(conv[c].title)) = "user"
    BY DEF StartSteps
  <2> QED BY <2>1, <2>2, <2>3, FreshHandler, HeldBegin
<1>6. ASSUME NEW c \in Conversation, Delete(c)
      PROVE  HeldOK'
  <2>1. Free /\ UNCHANGED <<meta, pending, up, active, removing, conv>>
    BY <1>6 DEF Delete, disk, history
  <2>2. job' = job \/ (job'.op = "delete" /\ job'.todo = DeleteSteps)
    BY <1>6 DEF Delete, Begin
  <2> QED BY <2>1, <2>2, <1>2, <1>3, FreshHandler, HeldBegin
<1>7. ASSUME NEW c \in Conversation, Rename(c)
      PROVE  HeldOK'
  <2>1. /\ Free /\ UNCHANGED <<meta, pending, up, active, removing>> /\ conv[c].there
        /\ conv' = [conv EXCEPT ![c].title = "own"]
        /\ job'.op = "rename" /\ job'.c = c /\ job'.todo = <<"save">>
    BY <1>7 DEF Rename, Begin, disk
  <2>2. \A d \in Conversation : conv'[d].there = conv[d].there /\ conv'[d].activeRun = conv[d].activeRun
    BY <1>1, <2>1 DEF EntryType
  <2>3. HandlerOK'
    BY <2>1, <2>2, SingleSteps DEF HandlerOK, At
  <2> QED BY <2>1, <2>2, <2>3, HeldBegin
<1>8. ASSUME NEW r \in Run, Cancel(r) \/ Change(r) \/ WriteWork(r)
      PROVE  HeldOK'
  BY <1>8, <1>2 DEF Cancel, Change, WriteWork, disk, memory, history
<1>9. ASSUME NEW r \in Run, TitleReturns(r)
      PROVE  HeldOK'
  <2> DEFINE c == run[r].c
  <2>1. Free /\ UNCHANGED <<meta, pending, up, active, removing>> /\ c \in Conversation
    BY <1>9 DEF TitleReturns, disk, history, IInv, Types, MemoryTypes, RunType
  <2>2. CASE UNCHANGED <<conv, job>>
    BY <2>1, <2>2, <1>2
  <2>3. CASE TitleWanted(c) /\ conv' = [conv EXCEPT ![c].title = "generated"] /\ Begin("name", c, r, <<"save">>)
    <3>1. conv[c].there /\ job'.op = "name" /\ job'.c = c /\ job'.todo = <<"save">>
      BY <2>3 DEF TitleWanted, Begin
    <3>2. \A d \in Conversation : conv'[d].there = conv[d].there /\ conv'[d].activeRun = conv[d].activeRun
      BY <1>1, <2>1, <2>3 DEF EntryType
    <3>3. HandlerOK'
      BY <2>1, <3>1, <3>2, SingleSteps DEF HandlerOK, At
    <3> QED BY <2>1, <3>2, <3>3, HeldBegin
  <2> QED BY <1>9, <2>2, <2>3 DEF TitleReturns
<1>10. ASSUME NEW r \in Run, NEW result \in {"completed", "failed"}, BackendReturns(r, result)
      PROVE  HeldOK'
  <2> DEFINE c == run[r].c
  <2>1. /\ Free /\ UNCHANGED <<meta, pending, up, active, removing, conv>> /\ c \in Conversation
        /\ job'.op = "finalize" /\ job'.c = c /\ job'.todo = FinalSteps(c)
    BY <1>10 DEF BackendReturns, Begin, disk, history, IInv, Types, MemoryTypes, RunType
  <2>2. CASE conv[c].there
    <3>1. job'.todo \in BeforeAnswer
      BY <2>1, <2>2 DEF FinalSteps, BeforeAnswer
    <3>2. HandlerOK'
      BY <2>1, <3>1, BeforeAnswerSteps, AfterClearSteps, WithoutAnswerSteps DEF HandlerOK, At
    <3> QED BY <2>1, <3>2, HeldBegin
  <2>3. CASE ~conv[c].there
    <3>1. job'.todo = <<"clear", "finish">> /\ Head(job'.todo) = "clear"
      BY <2>1, <2>3 DEF FinalSteps
    <3>2. conv[c].activeRun = 0
      BY <2>1, <2>3 DEF HeldOK, FilesOK
    <3>3. HandlerOK'
      BY <2>1, <3>1, <3>2, AfterClearSteps DEF HandlerOK, At
    <3> QED BY <2>1, <3>3, HeldBegin
  <2> QED BY <2>2, <2>3
<1>11. ASSUME NEW r \in Run, Persist(r)
      PROVE  HeldOK'
  <2>1. Free /\ UNCHANGED <<meta, pending, up, active, removing, conv>>
    BY <1>11 DEF Persist, disk, history
  <2>2. job' = job \/ (job'.op = "persist" /\ job'.todo = <<"checkpoint">>)
    BY <1>11 DEF Persist
  <2> QED BY <2>1, <2>2, <1>2, SingleSteps, FreshHandler, HeldBegin
<1>12. ASSUME NEW c \in Conversation, DeleteTimesOut(c)
      PROVE  HeldOK'
  <2>1. /\ Free /\ UNCHANGED <<meta, pending, up, active, removing, conv>>
        /\ job'.op = "delete" /\ job'.todo = DeleteSteps
    BY <1>12 DEF DeleteTimesOut, Begin, disk, memory, history
  <2> QED BY <2>1, <1>3, FreshHandler, HeldBegin
<1> QED BY <1>4, <1>5, <1>6, <1>7, <1>8, <1>9, <1>10, <1>11, <1>12 DEF UserAction, Backend, Timer

\* finalize comes to what is behind the checkpoint by taking it away, and to
\* its end by taking the mark away, unless it has neither to do.
LEMMA FinalTails ==
  ASSUME IInv, job.todo # <<>>, job.op = "finalize"
  PROVE  /\ Tail(job.todo) \in AfterClear => Head(job.todo) = "clear" \/ job.todo \in AfterClear
         /\ Tail(job.todo) \in WithoutAnswer => Head(job.todo) = "inactive" \/ job.todo \in WithoutAnswer
<1> DEFINE t == job.todo
<1>1. Finalizing
  BY DEF IInv, JobOK, Starting, Launching, Removing, Saving, Recovering
<1>2. CASE t \in BeforeAnswer
  <2>1. t = <<"answer", "count", "clear", "inactive", "finish">>
    BY <1>2 DEF BeforeAnswer
  <2>2. Tail(t) # <<>> /\ Head(Tail(t)) = "count"
    BY <2>1
  <2> QED BY <2>2, AfterClearSteps, WithoutAnswerSteps
<1>3. CASE t = <<"count", "clear", "inactive", "finish">>
  <2>1. Tail(t) = <<"clear", "inactive", "finish">> /\ Head(Tail(t)) = "clear"
    BY <1>3
  <2>2. <<"clear", "inactive", "finish">> \notin WithoutAnswer
    BY DEF WithoutAnswer
  <2> QED BY <2>1, <2>2, AfterClearSteps
<1>4. CASE t = <<"clear", "inactive", "finish">>
  <2>1. Head(t) = "clear" /\ Head(Tail(t)) = "inactive"
    BY <1>4
  <2> QED BY <2>1, WithoutAnswerSteps
<1>5. CASE t \in AfterClear
  BY <1>5, AfterClearSteps, WithoutAnswerSteps
<1>6. CASE t \in WithoutAnswer
  BY <1>6, WithoutAnswerSteps, AfterClearSteps
<1> QED BY <1>1, <1>2, <1>3, <1>4, <1>5, <1>6 DEF Finalizing, AfterAnswer

\* A handler that goes on finds what it relies on.
LEMMA HandlerGoesOn ==
  ASSUME IInv, HandlerOK, job.todo # <<>>, Continue, NEW c \in Conversation, c = job.c,
         job.op \in {"rename", "name", "init"} => (conv[c].there => conv'[c].there),
         pending'[c] = 0 \/ (pending'[c] = pending[c] /\ Head(job.todo) # "clear"),
         conv'[c].activeRun = 0 \/ (conv'[c].activeRun = conv[c].activeRun /\ Head(job.todo) # "inactive")
  PROVE  HandlerOK'
<1>1. job'.op = job.op /\ job'.c = c /\ job'.todo = Tail(job.todo)
  BY ContinueType DEF IInv, Types
<1>2. ~At("new")'
  BY <1>1, NewFirst DEF At
<1>3. job'.op = "finalize" /\ job'.todo \in AfterClear => pending'[c] = 0
  BY <1>1, FinalTails DEF HandlerOK
<1>4. job'.op = "finalize" /\ job'.todo \in WithoutAnswer => conv'[c].activeRun = 0
  BY <1>1, FinalTails DEF HandlerOK
<1> QED BY <1>1, <1>2, <1>3, <1>4 DEF HandlerOK

\* A handler goes on that touches only its own conversation.
LEMMA HeldGoesOn ==
  ASSUME IInv, HeldOK, job.todo # <<>>, Continue, up' = up, removing \subseteq removing',
         NEW c \in Conversation, c = job.c,
         \A d \in Conversation : d # c =>
           meta'[d] = meta[d] /\ conv'[d] = conv[d] /\ pending'[d] = pending[d] /\ active'[d] = active[d],
         FilesOK(c)', CheckpointOK(c)', MarkOK(c)', HandlerOK'
  PROVE  HeldOK'
<1>1. ASSUME NEW d \in Conversation, d # c
      PROVE  FilesOK(d)' /\ CheckpointOK(d)' /\ MarkOK(d)'
  <2>1. FilesOK(d) /\ CheckpointOK(d) /\ MarkOK(d)
    BY DEF HeldOK
  <2>2. meta'[d] = meta[d] /\ conv'[d] = conv[d] /\ pending'[d] = pending[d] /\ active'[d] = active[d]
    BY <1>1
  <2> QED BY <1>1, <2>1, <2>2 DEF FilesOK, CheckpointOK, MarkOK
<1> QED BY <1>1 DEF HeldOK

\* A handler goes on that only takes away what it holds.
LEMMA HeldLess ==
  ASSUME IInv, HeldOK, job.todo # <<>>, Continue, up' = up, NEW c \in Conversation, c = job.c,
         conv'[c].there => conv[c].there, active'[c] = active[c],
         pending'[c] = 0 \/ (pending'[c] = pending[c] /\ Head(job.todo) # "clear"),
         conv'[c].activeRun = 0 \/ (conv'[c].activeRun = conv[c].activeRun /\ Head(job.todo) # "inactive")
  PROVE  CheckpointOK(c)' /\ MarkOK(c)'
<1>1. job'.c = c /\ job'.todo = Tail(job.todo)
  BY ContinueType DEF IInv, Types
<1>2. CheckpointOK(c) /\ MarkOK(c)
  BY DEF HeldOK
<1>3. CheckpointOK(c)'
  BY <1>1, <1>2, MarkedSteps DEF CheckpointOK
<1>4. MarkOK(c)'
  BY <1>1, <1>2, MarkedSteps DEF MarkOK
<1> QED BY <1>3, <1>4

\* What a handler saves is there, unless it is removed.
LEMMA SavedThere ==
  ASSUME IInv, HeldOK, job.todo # <<>>, Head(job.todo) \in SaveStep
  PROVE  conv[job.c].there \/ job.c \in removing
<1>1. Finalizing => conv[job.c].there \/ job.c \in removing
  BY DEF IInv, RunOK, Finalizing, Of
<1>2. Saving => job.op \in {"rename", "name"}
  BY SingleSteps DEF Saving, SaveStep
<1>3. Launching => conv[job.c].there
  BY DEF Launching
<1>4. Recovering => job.op = "init"
  BY DEF Recovering
<1> QED BY <1>1, <1>2, <1>3, <1>4, SavePhase DEF HeldOK, HandlerOK

\* What a handler prepares to save.
LEMMA PreparedMark ==
  ASSUME IInv, job.todo # <<>>, Head(job.todo) \in SaveStep
  PROVE  /\ At("activate") => Prepared.activeRun = job.r
         /\ At("inactive") => Prepared.activeRun = 0
         /\ ~At("activate") /\ ~At("inactive") => Prepared.activeRun = conv[job.c].activeRun
<1>1. conv[job.c] \in EntryType
  BY DEF IInv, Types, MemoryTypes, JobTypes
<1>2. At("activate") => Prepared = [conv[job.c] EXCEPT !.activeRun = job.r]
  BY DEF Prepared, At
<1>3. At("inactive") => Prepared = [conv[job.c] EXCEPT !.activeRun = 0]
  BY DEF Prepared, At
<1>4. ~At("activate") /\ ~At("inactive") => Prepared \in {conv[job.c], [conv[job.c] EXCEPT !.title = "fallback"]}
  BY DEF Prepared, At
<1>5. \A x : [conv[job.c] EXCEPT !.activeRun = x].activeRun = x
  BY <1>1 DEF EntryType
<1>6. [conv[job.c] EXCEPT !.title = "fallback"].activeRun = conv[job.c].activeRun
  BY <1>1 DEF EntryType
<1> QED BY <1>2, <1>3, <1>4, <1>5, <1>6

\* The memory after what a handler prepared, saved or not.
LEMMA HeldPrepared ==
  ASSUME IInv, HeldOK, PrepareSave, UNCHANGED <<pending, up>>, NEW c \in Conversation, c = job.c
  PROVE  /\ conv'[c] = Prepared /\ Prepared.there = conv[c].there
         /\ \A d \in Conversation : d # c => conv'[d] = conv[d] /\ active'[d] = active[d]
         /\ ~conv'[c].there => conv'[c].activeRun = 0
         /\ up = "serving" => CheckpointOK(c)' /\ MarkOK(c)'
         /\ ~At("activate") => active' = active
         /\ At("activate") => up = "serving"
<1>1. /\ conv \in [Conversation -> EntryType] /\ MemoryTypes /\ JobTypes /\ active \in [Conversation -> Run \cup {0}]
  BY DEF IInv, Types, MemoryTypes
<1>2. /\ job.todo # <<>> /\ Head(job.todo) \in SaveStep /\ conv' = [conv EXCEPT ![c] = Prepared]
      /\ active' = IF At("activate") THEN [active EXCEPT ![c] = job.r] ELSE active
  BY DEF PrepareSave
<1>3. /\ conv'[c] = Prepared /\ Prepared.there = conv[c].there
      /\ \A d \in Conversation : d # c => conv'[d] = conv[d] /\ active'[d] = active[d]
  BY <1>1, <1>2, PreparedType
<1>4. FilesOK(c) /\ CheckpointOK(c) /\ MarkOK(c)
  BY DEF HeldOK
<1>5. CASE At("activate")
  <2>1. Starting /\ conv[c].there /\ active[c] = 0 /\ job.r \in Run
    BY <1>2, <1>5, SavePhase DEF Starting, Of
  <2>2. up = "serving"
    <3>1. job.op # "init"
      BY <2>1 DEF Starting
    <3> QED BY <1>2, <3>1 DEF IInv, JobOK, Recovering
  <2>3. pending[c] = 0
    BY <2>1, <2>2, <1>4 DEF CheckpointOK
  <2>4. active'[c] = job.r /\ conv'[c].activeRun = job.r
    BY <1>1, <1>2, <1>3, <1>5, PreparedMark
  <2> QED BY <1>3, <1>5, <2>1, <2>2, <2>3, <2>4 DEF CheckpointOK, MarkOK
<1>6. CASE ~At("activate")
  <2>1. active' = active /\ conv'[c].activeRun \in {conv[c].activeRun, 0}
    BY <1>2, <1>3, <1>6, PreparedMark
  <2> QED BY <1>3, <1>4, <1>6, <2>1 DEF FilesOK, CheckpointOK, MarkOK
<1> QED BY <1>5, <1>6

\* The steps of a handler keep HeldOK.
LEMMA HeldStep ==
  ASSUME IInv, HeldOK, Step
  PROVE  HeldOK'
<1> SUFFICES ASSUME NEW c \in Conversation, c = job.c
    PROVE  HeldOK'
  BY DEF IInv, Types, JobTypes
<1>1. /\ conv \in [Conversation -> EntryType] /\ meta \in [Conversation -> EntryType]
      /\ pending \in [Conversation -> Run \cup {0}] /\ active \in [Conversation -> Run \cup {0}]
      /\ JobTypes /\ MemoryTypes
  BY DEF IInv, Types, DiskTypes, MemoryTypes
<1>2. FilesOK(c) /\ CheckpointOK(c) /\ MarkOK(c) /\ HandlerOK
  BY DEF HeldOK
<1>3. CASE AppendUser \/ AppendAnswer \/ AppendRecovered \/ Launch \/ Removed
  <2>1. /\ job.todo # <<>> /\ Continue /\ Head(job.todo) \notin {"clear", "inactive"}
        /\ UNCHANGED <<meta, pending, conv, active, up, removing>>
    BY <1>3 DEF AppendUser, AppendAnswer, AppendRecovered, AppendLine, Launch, Removed, At, disk, memory, history
  <2>2. FilesOK(c)'
    BY <1>2, <2>1 DEF FilesOK
  <2>3. CheckpointOK(c)' /\ MarkOK(c)'
    BY <2>1, HeldLess
  <2>4. HandlerOK'
    BY <1>2, <2>1, HandlerGoesOn
  <2> QED BY <2>1, <2>2, <2>3, <2>4, HeldGoesOn
<1>4. CASE Save
  <2>1. /\ job.todo # <<>> /\ Head(job.todo) \in SaveStep /\ Continue /\ PrepareSave
        /\ meta' = [meta EXCEPT ![c] = Prepared] /\ UNCHANGED <<pending, up, removing>>
    BY <1>4 DEF Save, PrepareSave
  <2>2. /\ conv'[c] = Prepared /\ Prepared.there = conv[c].there
        /\ \A d \in Conversation : d # c => conv'[d] = conv[d] /\ active'[d] = active[d]
        /\ ~conv'[c].there => conv'[c].activeRun = 0
        /\ up = "serving" => CheckpointOK(c)' /\ MarkOK(c)'
        /\ ~At("activate") => active' = active
        /\ At("activate") => up = "serving"
    BY <2>1, HeldPrepared
  <2>3. meta'[c] = Prepared /\ \A d \in Conversation : d # c => meta'[d] = meta[d]
    BY <1>1, <2>1
  <2>4. FilesOK(c)'
    <3>1. c \notin removing => conv[c].there
      BY <2>1, SavedThere
    <3> QED BY <1>2, <2>1, <2>2, <2>3, <3>1 DEF FilesOK
  <2>5. Head(job.todo) # "clear" /\ (conv'[c].activeRun = 0 \/ Head(job.todo) # "inactive")
    BY <2>1, <2>2, PreparedMark DEF SaveStep, At
  <2>6. CheckpointOK(c)' /\ MarkOK(c)'
    <3>1. CASE up = "serving"
      BY <2>2, <3>1
    <3>2. CASE up # "serving"
      <4>1. ~At("activate") /\ active' = active
        BY <2>2, <3>2
      <4>2. conv'[c].activeRun = 0 \/ (conv'[c].activeRun = conv[c].activeRun /\ Head(job.todo) # "inactive")
        BY <2>1, <2>2, <2>5, <4>1, PreparedMark DEF At
      <4> QED BY <2>1, <2>2, <2>5, <4>1, <4>2, HeldLess
    <3> QED BY <3>1, <3>2
  <2>7. HandlerOK'
    <3>1. conv'[c].activeRun = 0 \/ (conv'[c].activeRun = conv[c].activeRun /\ Head(job.todo) # "inactive")
          \/ At("activate")
      BY <2>1, <2>2, <2>5, PreparedMark DEF At
    <3>2. CASE At("activate")
      <4>1. Starting /\ job'.op = job.op /\ job'.c = c /\ job'.todo = Tail(job.todo)
        BY <1>1, <2>1, <3>2, SavePhase, ContinueType
      <4>2. ~At("new")'
        BY <2>1, <4>1, NewFirst DEF At
      <4> QED BY <4>1, <4>2 DEF HandlerOK, Starting
    <3> QED BY <1>2, <2>1, <2>2, <2>5, <3>1, <3>2, HandlerGoesOn
  <2> QED BY <2>1, <2>2, <2>3, <2>4, <2>6, <2>7, HeldGoesOn
<1>5. CASE New
  <2> DEFINE e == [None EXCEPT !.there = TRUE]
  <2>1. /\ job.todo # <<>> /\ Head(job.todo) = "new" /\ Continue /\ UNCHANGED <<pending, active, up, removing>>
        /\ conv' = [conv EXCEPT ![c] = e] /\ meta' = [meta EXCEPT ![c] = e] /\ e.there /\ e.activeRun = 0
    BY <1>5 DEF New, At, history, None
  <2>2. /\ conv'[c] = e /\ meta'[c] = e /\ pending[c] = 0
        /\ \A d \in Conversation : d # c => conv'[d] = conv[d] /\ meta'[d] = meta[d]
    BY <1>1, <1>2, <2>1 DEF HandlerOK, At
  <2>3. up # "down"
    BY <2>1 DEF IInv, JobOK
  <2>4. FilesOK(c)' /\ CheckpointOK(c)' /\ MarkOK(c)'
    BY <2>1, <2>2, <2>3 DEF FilesOK, CheckpointOK, MarkOK
  <2>5. HandlerOK'
    BY <1>2, <2>1, <2>2, HandlerGoesOn
  <2> QED BY <2>1, <2>2, <2>4, <2>5, HeldGoesOn
<1>6. CASE Checkpoint
  <2>1. /\ job.todo # <<>> /\ Head(job.todo) = "checkpoint" /\ Continue /\ At("checkpoint")
        /\ pending' = [pending EXCEPT ![c] = job.r] /\ UNCHANGED <<meta, conv, active, up, removing>>
    BY <1>6 DEF Checkpoint, At, memory
  <2>2. /\ Saving /\ job.op = "persist" /\ Tail(job.todo) = <<>>
        /\ job.r \in Run /\ run[job.r].st = "running" /\ run[job.r].c = c
    BY <2>1, StepPhase DEF Of
  <2>3. /\ active[c] = job.r /\ (conv[c].there \/ c \in removing) /\ up = "serving"
    <3>1. up = "serving"
      BY <2>1, <2>2 DEF IInv, JobOK, Recovering
    <3> QED BY <2>2, <3>1 DEF IInv, OwnerOK, RunOK
  <2>4. pending'[c] = job.r /\ \A d \in Conversation : d # c => pending'[d] = pending[d]
    BY <1>1, <2>1
  <2>5. FilesOK(c)' /\ CheckpointOK(c)' /\ MarkOK(c)'
    BY <1>2, <2>1, <2>3, <2>4 DEF FilesOK, CheckpointOK, MarkOK
  <2>6. job'.op = "persist" /\ job'.todo = <<>>
    BY <1>1, <2>1, <2>2, ContinueType
  <2>7. HandlerOK'
    BY <2>6 DEF HandlerOK, At
  <2> QED BY <2>1, <2>4, <2>5, <2>7, HeldGoesOn
<1>7. CASE Clear
  <2>1. /\ job.todo # <<>> /\ Head(job.todo) = "clear" /\ Continue
        /\ pending' = [pending EXCEPT ![c] = 0] /\ UNCHANGED <<meta, conv, active, up, removing>>
    BY <1>7 DEF Clear, At, memory, history
  <2>2. pending'[c] = 0 /\ \A d \in Conversation : d # c => pending'[d] = pending[d]
    BY <1>1, <2>1
  <2>3. FilesOK(c)'
    BY <1>2, <2>1, <2>2 DEF FilesOK
  <2>4. CheckpointOK(c)' /\ MarkOK(c)'
    BY <2>1, <2>2, HeldLess
  <2>5. HandlerOK'
    BY <1>2, <2>1, <2>2, HandlerGoesOn
  <2> QED BY <2>1, <2>2, <2>3, <2>4, <2>5, HeldGoesOn
<1>8. CASE Finish
  <2>1. /\ job.todo # <<>> /\ Head(job.todo) = "finish" /\ UNCHANGED <<meta, pending, conv, up, removing>>
        /\ active' = [active EXCEPT ![c] = 0]
        /\ IF c \in deleting THEN Begin("delete", c, 0, DeleteSteps) ELSE Continue
    BY <1>8 DEF Finish, At, disk
  <2>2. /\ Finalizing /\ Tail(job.todo) = <<>>
    BY <2>1, StepPhase DEF At
  <2>3. job.todo \in AfterClear \cap WithoutAnswer
    <3>1. ASSUME job.todo \in AfterClear PROVE job.todo = <<"finish">>
      <4>1. Head(<<"inactive", "finish">>) = "inactive"
        OBVIOUS
      <4> QED BY <3>1, <4>1, <2>1 DEF AfterClear
    <3>2. ASSUME job.todo \in WithoutAnswer PROVE job.todo = <<"finish">>
      <4>1. Head(<<"clear", "finish">>) = "clear"
        OBVIOUS
      <4> QED BY <3>2, <4>1, <2>1 DEF WithoutAnswer
    <3>3. job.todo \in AfterClear \cup WithoutAnswer
      BY <2>1, <2>2, BeforeAnswerSteps, AfterAnswerSteps DEF Finalizing
    <3>4. <<"finish">> \in AfterClear /\ <<"finish">> \in WithoutAnswer
      BY DEF AfterClear, WithoutAnswer
    <3> QED BY <3>1, <3>2, <3>3, <3>4
  <2>4. pending[c] = 0 /\ conv[c].activeRun = 0
    BY <1>2, <2>2, <2>3 DEF HandlerOK, Finalizing
  <2>5. /\ job'.c = c
        /\ job'.todo = <<>> \/ (job'.op = "delete" /\ job'.todo = DeleteSteps)
    <3>1. CASE c \in deleting
      BY <2>1, <3>1 DEF Begin
    <3>2. CASE c \notin deleting
      BY <1>1, <2>1, <2>2, <3>2, ContinueType
    <3> QED BY <3>1, <3>2
  <2>6. HandlerOK'
    <3>1. Head(DeleteSteps) = "forget"
      BY DEF DeleteSteps
    <3> QED BY <2>5, <3>1, FreshHandler
  <2>7. \A d \in Conversation : d # c => active'[d] = active[d]
    BY <1>1, <2>1
  <2>8. \A d \in Conversation : FilesOK(d)' /\ CheckpointOK(d)' /\ MarkOK(d)'
    <3> SUFFICES ASSUME NEW d \in Conversation
        PROVE  FilesOK(d)' /\ CheckpointOK(d)' /\ MarkOK(d)'
      OBVIOUS
    <3>1. FilesOK(d) /\ CheckpointOK(d) /\ MarkOK(d)
      BY DEF HeldOK
    <3>2. FilesOK(d)'
      BY <2>1, <3>1 DEF FilesOK
    <3>3. CheckpointOK(d)'
      BY <2>1, <2>4, <2>7, <3>1 DEF CheckpointOK
    <3>4. MarkOK(d)'
      BY <2>1, <2>4, <2>7, <3>1 DEF MarkOK
    <3> QED BY <3>2, <3>3, <3>4
  <2> QED BY <2>6, <2>8 DEF HeldOK
<1>9. CASE Forget
  <2>1. /\ job.todo # <<>> /\ Head(job.todo) = "forget" /\ Continue /\ UNCHANGED <<meta, pending, active, up>>
        /\ conv' = [conv EXCEPT ![c] = None] /\ removing' = removing \cup {c} /\ At("forget")
    BY <1>9 DEF Forget, At, disk
  <2>2. /\ conv'[c] = None /\ ~None.there /\ None.activeRun = 0
        /\ \A d \in Conversation : d # c => conv'[d] = conv[d]
    BY <1>1, <2>1 DEF None
  <2>3. FilesOK(c)' /\ CheckpointOK(c)' /\ MarkOK(c)'
    BY <2>1, <2>2 DEF FilesOK, CheckpointOK, MarkOK
  <2>4. job.op \notin {"rename", "name", "init"}
    <3>1. Removing
      BY <2>1, StepPhase
    <3> QED BY <3>1 DEF Removing
  <2>5. HandlerOK'
    BY <1>2, <2>1, <2>2, <2>4, HandlerGoesOn
  <2> QED BY <2>1, <2>2, <2>3, <2>5, HeldGoesOn
<1>10. CASE RemoveFile
  <2>1. /\ job.todo # <<>> /\ At("remove") /\ Head(job.todo) = "remove" /\ UNCHANGED <<conv, active, up, removing, job>>
        /\ meta' = meta \/ meta' = [meta EXCEPT ![c] = None]
        /\ pending' = pending \/ pending' = [pending EXCEPT ![c] = 0]
    BY <1>10 DEF RemoveFile, At, memory, history
  <2>2. /\ c \in removing /\ Removing
    BY <2>1, StepPhase
  <2>3. \A d \in Conversation : (d # c => meta'[d] = meta[d] /\ pending'[d] = pending[d]) /\ pending'[d] \in {pending[d], 0}
    BY <1>1, <2>1
  <2>4. \A d \in Conversation : FilesOK(d)' /\ CheckpointOK(d)' /\ MarkOK(d)'
    <3> SUFFICES ASSUME NEW d \in Conversation
        PROVE  FilesOK(d)' /\ CheckpointOK(d)' /\ MarkOK(d)'
      OBVIOUS
    <3>1. FilesOK(d) /\ CheckpointOK(d) /\ MarkOK(d)
      BY DEF HeldOK
    <3>2. FilesOK(d)'
      BY <2>1, <2>2, <2>3, <3>1 DEF FilesOK
    <3> QED BY <2>1, <2>3, <3>1, <3>2 DEF CheckpointOK, MarkOK
  <2>5. HandlerOK'
    BY <1>2, <2>1, <2>2, <2>3 DEF HandlerOK, At, Removing
  <2> QED BY <2>4, <2>5 DEF HeldOK
<1> QED BY <1>3, <1>4, <1>5, <1>6, <1>7, <1>8, <1>9, <1>10 DEF Step

\* Faults keep HeldOK: nothing of the files changes that it speaks of, and a
\* write that threw leaves in memory what was prepared.
LEMMA HeldFault ==
  ASSUME IInv, HeldOK, Fault
  PROVE  HeldOK'
<1> SUFFICES ASSUME NEW c \in Conversation, c = job.c
    PROVE  HeldOK'
  BY DEF IInv, Types, JobTypes
<1>1. JobTypes /\ \A d \in Conversation : FilesOK(d) /\ CheckpointOK(d) /\ MarkOK(d)
  BY DEF IInv, Types, HeldOK
<1>2. CASE Crash \/ ThrowInit
  <2>1. /\ up' = "down" /\ job' = Idle /\ UNCHANGED <<meta, pending, removing>>
        /\ conv' = [d \in Conversation |-> None]
    BY <1>2 DEF Crash, ThrowInit, Dead
  <2>2. job'.todo = <<>> /\ job'.op = "none"
    <3>1. Idle.todo = <<>> /\ Idle.op = "none"
      BY StartTypes
    <3> QED BY <2>1, <3>1
  <2>3. \A d \in Conversation : ~conv'[d].there /\ conv'[d].activeRun = 0
    BY <2>1 DEF None
  <2>4. \A d \in Conversation : FilesOK(d)' /\ CheckpointOK(d)' /\ MarkOK(d)'
    BY <1>1, <2>1, <2>3 DEF FilesOK, CheckpointOK, MarkOK
  <2>5. HandlerOK'
    BY <2>2 DEF HandlerOK, At
  <2> QED BY <2>4, <2>5 DEF HeldOK
<1>3. CASE Throw
  <2>1. /\ job.todo # <<>> /\ up = "serving" /\ UNCHANGED <<meta, pending, removing, up>>
        /\ PrepareSave \/ UNCHANGED <<conv, active>>
        /\ job' = IF job.op = "create" /\ Head(job.todo) \notin {"new", "remove"}
                    THEN [job EXCEPT !.todo = DeleteSteps] ELSE [job EXCEPT !.todo = <<>>]
    BY <1>3 DEF Throw
  <2>2. job'.todo = <<>> \/ (job'.op = "create" /\ job'.todo = DeleteSteps)
    BY <1>1, <2>1 DEF JobTypes
  <2>3. HandlerOK'
    <3>1. Head(DeleteSteps) = "forget"
      BY DEF DeleteSteps
    <3>2. \A s \in AfterClear \cup WithoutAnswer : s # <<>>
      BY AfterClearSteps, WithoutAnswerSteps
    <3> QED BY <2>2, <3>1, <3>2 DEF HandlerOK, At
  <2>4. \A d \in Conversation : FilesOK(d)' /\ CheckpointOK(d)' /\ MarkOK(d)'
    <3> SUFFICES ASSUME NEW d \in Conversation
        PROVE  FilesOK(d)' /\ CheckpointOK(d)' /\ MarkOK(d)'
      OBVIOUS
    <3>1. CASE UNCHANGED <<conv, active>> \/ (PrepareSave /\ d # c)
      <4>1. conv'[d] = conv[d] /\ active'[d] = active[d]
        BY <2>1, <3>1, HeldPrepared
      <4> QED BY <1>1, <2>1, <4>1 DEF FilesOK, CheckpointOK, MarkOK
    <3>2. CASE PrepareSave /\ d = c
      <4>1. /\ conv'[c].there = conv[c].there /\ (~conv'[c].there => conv'[c].activeRun = 0)
            /\ CheckpointOK(c)' /\ MarkOK(c)'
        BY <2>1, <3>2, HeldPrepared
      <4> QED BY <1>1, <2>1, <3>2, <4>1 DEF FilesOK
    <3> QED BY <2>1, <3>1, <3>2
  <2> QED BY <2>3, <2>4 DEF HeldOK
<1> QED BY <1>2, <1>3 DEF Fault

\* The start of the process keeps HeldOK: what it reads it recovers.
LEMMA HeldRestart ==
  ASSUME IInv, HeldOK, Restart
  PROVE  HeldOK'
<1>1. /\ \A d \in Conversation : FilesOK(d) /\ CheckpointOK(d) /\ MarkOK(d)
      /\ HandlerOK
  BY DEF HeldOK
<1>2. CASE Boot
  <2>1. up = "down" /\ up' = "init" /\ UNCHANGED <<meta, pending, conv, active, removing, job>>
    BY <1>2 DEF Boot, disk, memory, history
  <2>2. \A d \in Conversation : ~conv[d].there /\ conv[d].activeRun = 0
    BY <1>1, <2>1 DEF FilesOK
  <2>3. \A d \in Conversation : FilesOK(d)' /\ CheckpointOK(d)' /\ MarkOK(d)'
    BY <1>1, <2>1, <2>2 DEF FilesOK, CheckpointOK, MarkOK
  <2> QED BY <1>1, <2>1, <2>3 DEF HeldOK, HandlerOK, At
<1>3. ASSUME NEW c \in Conversation, Load(c)
      PROVE  HeldOK'
  <2>1. /\ UNCHANGED <<meta, pending, active, up, removing>> /\ up = "init" /\ meta[c].there /\ job.todo = <<>>
        /\ conv' = [conv EXCEPT ![c] = meta[c]]
        /\ job'.op = "init" /\ job'.c = c /\ job'.todo = LoadSteps(c)
    BY <1>3 DEF Load, Unloaded, Begin, disk, history
  <2>2. conv'[c] = meta[c] /\ \A d \in Conversation : d # c => conv'[d] = conv[d]
    BY <2>1 DEF IInv, Types, MemoryTypes
  <2>3. /\ LoadSteps(c) # <<>> => Head(LoadSteps(c)) # "new"
        /\ pending[c] # 0 => LoadSteps(c) \in Recovery
        /\ meta[c].activeRun # 0 => LoadSteps(c) \in Marked
    <3>1. LoadSteps(c) \in Recovery \cup Marked \cup {<<>>}
      BY DEF LoadSteps, Recovery, Marked
    <3>2. LoadSteps(c) # <<>> => Head(LoadSteps(c)) # "new"
      BY <3>1, RecoverySteps, MarkedSteps
    <3> QED BY <3>2 DEF LoadSteps, Recovery, Marked
  <2>4. \A d \in Conversation : d # c => FilesOK(d)' /\ CheckpointOK(d)' /\ MarkOK(d)'
    BY <1>1, <2>1, <2>2, MarkedSteps DEF FilesOK, CheckpointOK, MarkOK
  <2>5. FilesOK(c)' /\ CheckpointOK(c)' /\ MarkOK(c)'
    BY <2>1, <2>2, <2>3 DEF FilesOK, CheckpointOK, MarkOK
  <2>6. HandlerOK'
    BY <2>1, <2>2, <2>3 DEF HandlerOK, At
  <2> QED BY <2>4, <2>5, <2>6 DEF HeldOK
<1>4. CASE Serve
  <2>1. /\ up = "init" /\ up' = "serving" /\ job.todo = <<>> /\ UNCHANGED <<meta, pending, conv, active, removing, job>>
        /\ \A d \in Conversation : meta[d].there => conv[d].there
    BY <1>4 DEF Serve, Unloaded, disk, memory, history
  <2>2. \A d \in Conversation : FilesOK(d)' /\ CheckpointOK(d)' /\ MarkOK(d)'
    BY <1>1, <2>1, MarkedSteps DEF FilesOK, CheckpointOK, MarkOK
  <2> QED BY <1>1, <2>1, <2>2 DEF HeldOK, HandlerOK, At
<1> QED BY <1>2, <1>3, <1>4 DEF Restart

\* HeldOK holds from the start.
LEMMA HeldInit == Init => HeldOK
<1> SUFFICES ASSUME Init PROVE HeldOK
  OBVIOUS
<1>1. /\ \A c \in Conversation : ~meta[c].there /\ ~conv[c].there /\ conv[c].activeRun = 0 /\ pending[c] = 0
      /\ up = "serving"
  BY DEF Init, None
<1>2. job.todo = <<>> /\ job.op = "none"
  BY StartTypes DEF Init
<1>3. HandlerOK
  BY <1>2 DEF HandlerOK, At
<1> QED BY <1>1, <1>3 DEF HeldOK, FilesOK, CheckpointOK, MarkOK

\* Every step keeps HeldOK.
LEMMA HeldKeeps ==
  ASSUME IInv, HeldOK, [Next]_vars
  PROVE  HeldOK'
<1>1. CASE UNCHANGED vars
  BY <1>1 DEF vars, disk, memory, history, HeldOK, FilesOK, CheckpointOK, MarkOK, HandlerOK, At
<1> QED BY <1>1, HeldHandlers, HeldStep, HeldFault, HeldRestart DEF Next

-----------------------------------------------------------------------------
(* What was checkpointed is in the checkpoint or in the conversation, from *)
(* which init takes the checkpoint away only behind its message.           *)

Readable(c, r) == \E i \in Answers(c, r) : log[c][i].readable

Lost(c) == c \in removing \cup everTorn

SavedOK ==
  /\ \A c \in Conversation : torn[c] => c \in everTorn
  /\ \A r \in saved :
       /\ r \in Run /\ run[r].st # "unused"
       /\ Lost(run[r].c) \/ pending[run[r].c] = r \/ Readable(run[r].c, r)
  /\ up = "init" /\ job.todo \in BeforeClear /\ pending[job.c] # 0 =>
       Lost(job.c) \/ Readable(job.c, pending[job.c])

\* What is removed or torn is remembered, and every torn line is.
LEMMA TornLife ==
  ASSUME IInv, [Next]_vars
  PROVE  /\ removing \subseteq removing' /\ everTorn \subseteq everTorn'
         /\ \A c \in Conversation : torn'[c] => torn[c] \/ c \in everTorn'
<1>1. torn \in [Conversation -> BOOLEAN]
  BY DEF IInv, Types, DiskTypes
<1>2. CASE UserAction \/ Backend \/ Timer \/ Restart \/ UNCHANGED vars
  BY <1>2 DEF UserAction, CreateConversation, StartRun, Delete, Rename, Cancel, Backend, Change, WriteWork, TitleReturns,
              BackendReturns, Timer, Persist, DeleteTimesOut, Restart, Boot, Load, Serve, vars, disk, history
<1>3. CASE Step
  <2>1. everTorn' = everTorn /\ removing \subseteq removing'
    BY <1>3 DEF Step, AppendUser, AppendAnswer, AppendRecovered, AppendLine, Save, New, Launch, Checkpoint, Clear,
                Finish, Forget, RemoveFile, Removed, history
  <2>2. torn' = torn \/ torn' = [torn EXCEPT ![job.c] = FALSE]
    BY <1>3 DEF Step, AppendUser, AppendAnswer, AppendRecovered, AppendLine, Save, New, Launch, Checkpoint, Clear,
                Finish, Forget, RemoveFile, Removed, disk
  <2> QED BY <1>1, <2>1, <2>2
<1>4. CASE Fault
  <2>1. CutShort /\ removing' = removing
    BY <1>4 DEF Fault, Crash, Throw, ThrowInit
  <2>2. \/ torn' = torn /\ everTorn' = everTorn
        \/ torn' = [torn EXCEPT ![job.c] = TRUE] /\ everTorn' = everTorn \cup {job.c}
    BY <2>1 DEF CutShort
  <2> QED BY <1>1, <2>1, <2>2
<1> QED BY <1>2, <1>3, <1>4 DEF Next

\* A checkpoint is written by the handler of its run, and taken away by clear
\* or with a conversation that is removed.
LEMMA PendingLife ==
  ASSUME IInv, [Next]_vars, NEW c \in Conversation
  PROVE  \/ pending'[c] = pending[c]
         \/ Checkpoint /\ c = job.c /\ pending'[c] = job.r
         \/ Clear /\ c = job.c /\ pending'[c] = 0
         \/ c \in removing /\ pending'[c] = 0
<1>1. pending \in [Conversation -> Run \cup {0}]
  BY DEF IInv, Types, DiskTypes
<1>2. CASE UserAction \/ Backend \/ Timer \/ Fault \/ Restart \/ UNCHANGED vars
  BY <1>2 DEF UserAction, CreateConversation, StartRun, Delete, Rename, Cancel, Backend, Change, WriteWork, TitleReturns,
              BackendReturns, Timer, Persist, DeleteTimesOut, Fault, Crash, Throw, ThrowInit,
              Restart, Boot, Load, Serve, vars, disk
<1>3. CASE Checkpoint
  BY <1>1, <1>3 DEF Checkpoint
<1>4. CASE Clear
  BY <1>1, <1>4 DEF Clear
<1>5. CASE RemoveFile
  <2>1. job.c \in removing
    BY <1>5, StepPhase DEF RemoveFile, At
  <2>2. pending' = pending \/ pending' = [pending EXCEPT ![job.c] = 0]
    BY <1>5 DEF RemoveFile
  <2> QED BY <1>1, <2>1, <2>2
<1>6. CASE Step /\ ~Checkpoint /\ ~Clear /\ ~RemoveFile
  BY <1>6 DEF Step, AppendUser, AppendAnswer, AppendRecovered, AppendLine, Save, New, Launch, Finish, Forget,
              Removed, disk
<1> QED BY <1>2, <1>3, <1>4, <1>5, <1>6 DEF Next

\* A readable answer stays where it is.
LEMMA ReadableKept ==
  ASSUME IInv, [Next]_vars, NEW c \in Conversation, NEW r \in Run, Readable(c, r)
  PROVE  Readable(c, r)' \/ c \in removing
<1>1. CASE AppendUser \/ AppendAnswer \/ AppendRecovered
  <2>1. PICK m \in MessageType : log' = [log EXCEPT ![job.c] = Append(@, m)] /\ job.c \in Conversation
    BY <1>1, LineAdded
  <2>2. PICK i \in Answers(c, r) : log[c][i].readable
    BY DEF Readable
  <2>3. i \in DOMAIN log[c] /\ log[c][i].run = r /\ log[c][i].role = "assistant"
    BY DEF Answers
  <2>4. i \in DOMAIN log'[c] /\ log'[c][i] = log[c][i]
    BY <2>1, <2>3, Appended DEF IInv, Types
  <2>5. i \in Answers(c, r)'
    BY <2>3, <2>4 DEF Answers
  <2> QED BY <2>2, <2>4, <2>5 DEF Readable
<1>2. CASE ~(AppendUser \/ AppendAnswer \/ AppendRecovered)
  <2>1. log'[c] = log[c] \/ c \in removing
    BY <1>2, LogLife
  <2> QED BY <2>1 DEF Readable, Answers
<1> QED BY <1>1, <1>2

\* init goes on behind the message of a checkpoint, or comes there.
LEMMA RecoveryLife ==
  ASSUME IInv, [Next]_vars, up' = "init", job'.todo \in BeforeClear
  PROVE  AppendRecovered \/ (up = "init" /\ job.todo \in BeforeClear /\ job'.c = job.c)
<1>1. JobTypes /\ (up = "down" => job.todo = <<>>) /\ <<>> \notin BeforeClear
  BY BeforeClearSteps DEF IInv, Types, JobOK
<1>2. CASE UNCHANGED <<up, job>>
  BY <1>2
<1>3. CASE UserAction \/ Backend \/ Timer
  BY <1>3 DEF UserAction, CreateConversation, StartRun, Delete, Rename, Cancel, Backend, Change, WriteWork, TitleReturns,
              BackendReturns, Timer, Persist, DeleteTimesOut, Free
<1>4. CASE Step
  <2>1. up = "init" /\ job.todo # <<>>
    BY <1>4 DEF Step, AppendUser, AppendAnswer, AppendRecovered, AppendLine, Save, PrepareSave, New, Launch,
                Checkpoint, Clear, Finish, Forget, RemoveFile, Removed, At
  <2>2. Recovering
    BY <2>1 DEF IInv, JobOK
  <2>3. job.todo \in Recovery => AppendRecovered
    <3>1. job.todo \in Recovery => Head(job.todo) = "recover"
      BY RecoverySteps
    <3> QED BY <1>4, <3>1 DEF Step, AppendUser, AppendAnswer, AppendRecovered, Save, PrepareSave, SaveStep, New, Launch,
                Checkpoint, Clear, Finish, Forget, RemoveFile, Removed, At
  <2>4. job.todo \in BeforeClear \cup {<<"inactive">>} => Continue \/ job' = job
    <3>1. job.todo \in BeforeClear \cup {<<"inactive">>} => Head(job.todo) # "finish"
      BY BeforeClearSteps, SingleSteps
    <3> QED BY <1>4, <3>1 DEF Step, AppendUser, AppendAnswer, AppendRecovered, AppendLine, Save, New, Launch,
                Checkpoint, Clear, Finish, Forget, RemoveFile, Removed, At
  <2>5. Continue => job'.c = job.c /\ job'.todo = Tail(job.todo)
    BY <1>1, ContinueType
  <2>6. job.todo = <<"inactive">> => FALSE
    <3>1. Tail(<<"inactive">>) = <<>> /\ Head(<<"inactive">>) = "inactive"
      BY SingleSteps
    <3> QED BY <3>1, <2>4, <2>5, <1>1, BeforeClearSteps
  <2> QED BY <2>1, <2>2, <2>3, <2>4, <2>5, <2>6 DEF Recovering
<1>5. CASE Fault
  BY <1>5, <1>1 DEF Fault, Crash, Throw, ThrowInit, Dead
<1>6. CASE Boot \/ Serve
  BY <1>1, <1>6 DEF Boot, Serve
<1>7. ASSUME NEW c \in Conversation, Load(c)
      PROVE  FALSE
  <2>1. job'.todo \in Recovery \cup {<<"inactive">>, <<>>}
    BY <1>7 DEF Load, Begin, LoadSteps, Recovery
  <2> QED BY <2>1, <1>1, RecoverySteps, BeforeClearSteps, SingleSteps
<1> QED BY <1>2, <1>3, <1>4, <1>5, <1>6, <1>7 DEF Next, Restart, vars

\* When a checkpoint is taken away, its message is in the conversation.
LEMMA ClearStored ==
  ASSUME IInv, HeldOK, SavedOK, Clear, NEW c \in Conversation, c = job.c, pending[c] # 0
  PROVE  Lost(c) \/ Readable(c, pending[c])
<1>1. job.todo # <<>> /\ At("clear")
  BY DEF Clear, At
<1>2. CASE Finalizing /\ Stored(job.r, run[job.r].final)
  <2>1. job.r \in Run /\ run[job.r].st = "running" /\ run[job.r].c = c
    BY <1>2 DEF Finalizing, Of
  <2>2. active[c] = job.r /\ (conv[c].there \/ c \in removing) /\ up # "init"
    BY <2>1 DEF IInv, OwnerOK, RunOK, Live
  <2>3. c \in removing \/ pending[c] = job.r
    BY <2>2 DEF HeldOK, CheckpointOK
  <2>4. c \in removing \/ Readable(c, job.r)
    BY <1>2, <2>1 DEF Stored, Readable
  <2> QED BY <2>3, <2>4 DEF Lost
<1>3. CASE Finalizing /\ c \in removing
  BY <1>3 DEF Lost
<1>4. CASE up = "init" /\ Recovering
  <2>1. job.todo \in BeforeClear
    BY <1>1, <1>4, RecoverySteps, SingleSteps DEF Recovering, At
  <2> QED BY <1>4, <2>1 DEF SavedOK
<1> QED BY <1>1, <1>2, <1>3, <1>4, StepPhase

\* Every step keeps SavedOK.
LEMMA SavedKeeps ==
  ASSUME IInv, IInv', HeldOK, SavedOK, [Next]_vars
  PROVE  SavedOK'
<1>1. removing \subseteq removing' /\ everTorn \subseteq everTorn' /\ \A c : Lost(c) => Lost(c)'
  BY TornLife DEF Lost
<1>2. \A c \in Conversation : torn'[c] => c \in everTorn'
  BY <1>1, TornLife DEF SavedOK
<1>3. ASSUME NEW r \in saved, r \in Run, run[r].st # "unused"
      PROVE  /\ run'[r].st # "unused" /\ run'[r].c = run[r].c /\ run[r].c \in Conversation
             /\ Lost(run[r].c)' \/ pending'[run[r].c] = r \/ Readable(run[r].c, r)'
  <2> DEFINE c == run[r].c
  <2>1. run'[r].st # "unused" /\ run'[r].c = c /\ c \in Conversation
    BY <1>3, RunLife DEF IInv, Types, MemoryTypes, RunType
  <2>2. ASSUME NEW d \in Conversation, d = c
        PROVE  Lost(d)' \/ pending'[d] = r \/ Readable(d, r)'
    <3>1. CASE Lost(d)
      BY <3>1, <1>1
    <3>2. CASE Readable(d, r)
      BY <1>3, <3>2, <1>1, ReadableKept DEF Lost
    <3>3. CASE pending[d] = r
      <4>1. r # 0
        BY <1>3, RunsAssumption
      <4>2. CASE Checkpoint /\ d = job.c /\ pending'[d] = job.r
        <5>1. Saving /\ Of("running")
          BY <4>2, StepPhase DEF Checkpoint, At
        <5>2. active[d] = job.r /\ (conv[d].there \/ d \in removing) /\ up # "init"
          BY <4>2, <5>1 DEF Of, IInv, OwnerOK, RunOK, Live
        <5>3. d \in removing \/ pending[d] = job.r
          BY <5>2, <3>3, <4>1 DEF HeldOK, CheckpointOK
        <5> QED BY <5>3, <4>2, <3>3, <1>1 DEF Lost
      <4>3. CASE Clear /\ d = job.c
        <5>1. Lost(d) \/ Readable(d, r)
          BY <4>1, <4>3, <3>3, ClearStored
        <5> QED BY <5>1, <3>1, <3>2
      <4>4. CASE d \in removing
        BY <4>4, <1>1 DEF Lost
      <4> QED BY <3>3, <4>2, <4>3, <4>4, PendingLife
    <3> QED BY <1>3, <2>2, <3>1, <3>2, <3>3 DEF SavedOK
  <2>3. \E d \in Conversation : d = c /\ (Lost(d)' \/ pending'[d] = r \/ Readable(d, r)')
    BY <2>1, <2>2
  <2> QED BY <2>1, <2>3 DEF Lost, Readable, Answers
<1>4. ASSUME NEW r \in saved', r \notin saved
      PROVE  r \in Run /\ run'[r].st # "unused" /\ pending'[run'[r].c] = r
  <2>1. Checkpoint /\ r = job.r
    <3>1. CASE UserAction \/ Backend \/ Timer \/ Fault \/ Restart \/ UNCHANGED vars
      BY <1>4, <3>1 DEF UserAction, CreateConversation, StartRun, Delete, Rename, Cancel, Backend, Change, WriteWork, TitleReturns,
              BackendReturns, Timer, Persist, DeleteTimesOut, Fault, Crash, Throw, ThrowInit,
              Restart, Boot, Load, Serve, vars, history
    <3>2. CASE Step
      BY <1>4, <3>2 DEF Step, AppendUser, AppendAnswer, AppendRecovered, AppendLine, Save, New, Launch, Checkpoint,
                        Clear, Finish, Forget, RemoveFile, Removed, history
    <3> QED BY <3>1, <3>2 DEF Next
  <2>2. Of("running") /\ job.c \in Conversation
    BY <2>1, StepPhase DEF Checkpoint, At, IInv, Types, JobTypes
  <2>3. run' = run /\ pending' = [pending EXCEPT ![job.c] = job.r] /\ pending \in [Conversation -> Run \cup {0}]
    BY <2>1 DEF Checkpoint, memory, IInv, Types, DiskTypes
  <2> QED BY <2>1, <2>2, <2>3 DEF Of
<1>5. ASSUME NEW r \in saved'
      PROVE  /\ r \in Run /\ run'[r].st # "unused"
             /\ (Lost(run[r].c) \/ pending[run[r].c] = r \/ Readable(run[r].c, r))'
  <2>1. CASE r \notin saved
    BY <1>4, <2>1
  <2>2. CASE r \in saved
    <3>1. r \in Run /\ run[r].st # "unused"
      BY <2>2 DEF SavedOK
    <3>2. /\ run'[r].st # "unused" /\ run'[r].c = run[r].c
          /\ Lost(run[r].c)' \/ pending'[run[r].c] = r \/ Readable(run[r].c, r)'
      BY <1>3, <2>2, <3>1
    <3> QED BY <3>1, <3>2 DEF Lost, Readable, Answers
  <2> QED BY <2>1, <2>2
<1>6. ASSUME up' = "init", job'.todo \in BeforeClear, NEW c \in Conversation, c = job'.c,
             NEW r \in Run, r = pending'[c]
      PROVE  Lost(c)' \/ Readable(c, r)'
  <2>1. CASE AppendRecovered
    <3>1. PICK m \in MessageType :
            /\ log' = [log EXCEPT ![job.c] = Append(@, m)] /\ m.readable = ~torn[job.c]
            /\ m.role = "assistant" /\ m.run = pending[job.c]
      BY <2>1, LineAdded DEF AppendUser, AppendAnswer, AppendRecovered, At
    <3>2. /\ job'.c = job.c /\ pending' = pending
      BY <2>1, LineAdded, ContinueType DEF IInv, Types
    <3>3. CASE torn[c]
      BY <3>3, <1>1 DEF SavedOK, Lost
    <3>4. CASE ~torn[c]
      <4> DEFINE n == Len(log[c]) + 1
      <4>1. n \in DOMAIN log'[c] /\ log'[c][n] = m /\ m.readable /\ m.run = r /\ m.role = "assistant"
        BY <1>6, <3>1, <3>2, <3>4, Appended DEF IInv, Types
      <4>2. n \in Answers(c, r)'
        BY <4>1 DEF Answers
      <4> QED BY <4>1, <4>2 DEF Readable
    <3> QED BY <3>3, <3>4
  <2>2. CASE up = "init" /\ job.todo \in BeforeClear /\ job'.c = job.c
    <3>1. r # 0
      BY RunsAssumption
    <3>2. pending[c] = r
      <4>1. ~(Checkpoint /\ c = job.c)
        <5>1. \A s \in BeforeClear : Head(s) # "checkpoint"
          BY BeforeClearSteps
        <5> QED BY <5>1, <2>2 DEF Checkpoint, At
      <4> QED BY <4>1, <3>1, <1>6, PendingLife
    <3>3. Lost(c) \/ Readable(c, r)
      BY <1>6, <2>2, <3>1, <3>2 DEF SavedOK
    <3> QED BY <3>3, <1>1, ReadableKept DEF Lost
  <2> QED BY <1>6, <2>1, <2>2, RecoveryLife
<1>7. up' = "init" /\ job'.todo \in BeforeClear /\ pending'[job'.c] # 0 =>
        (Lost(job.c) \/ Readable(job.c, pending[job.c]))'
  <2> SUFFICES ASSUME up' = "init", job'.todo \in BeforeClear, pending'[job'.c] # 0
      PROVE  (Lost(job.c) \/ Readable(job.c, pending[job.c]))'
    OBVIOUS
  <2>1. job'.c \in Conversation /\ pending'[job'.c] \in Run
    BY DEF IInv, Types, JobTypes, DiskTypes
  <2>2. \E c \in Conversation, r \in Run : c = job'.c /\ r = pending'[c] /\ (Lost(c)' \/ Readable(c, r)')
    BY <1>6, <2>1
  <2> QED BY <2>2 DEF Lost, Readable, Answers
<1> QED BY <1>2, <1>5, <1>7 DEF SavedOK

\* What is checkpointed of a run is not lost: between handlers a conversation
\* that is marked has its run, a checkpoint is that of the active run, and the
\* message of a run that is over is in its conversation, unless a torn line
\* swallowed it.
THEOREM CheckpointCorrect == Spec => []CheckpointIsKept
<1>1. Init => IInv /\ HeldOK /\ SavedOK
  <2> SUFFICES ASSUME Init PROVE SavedOK
    BY InitKeeps, HeldInit
  <2>1. saved = {} /\ up = "serving" /\ \A c \in Conversation : ~torn[c]
    BY DEF Init
  <2> QED BY <2>1 DEF SavedOK
<1>2. IInv /\ HeldOK /\ SavedOK /\ [Next]_vars => (IInv /\ HeldOK /\ SavedOK)'
  BY NextKeeps, HeldKeeps, SavedKeeps
<1>3. IInv /\ HeldOK /\ SavedOK => CheckpointIsKept
  <2> SUFFICES ASSUME IInv, HeldOK, SavedOK, Free PROVE CheckpointIsKept
    BY DEF CheckpointIsKept
  <2>1. up = "serving" /\ \A c \in Conversation : FilesOK(c) /\ CheckpointOK(c) /\ MarkOK(c)
    BY DEF Free, HeldOK
  <2>2. ASSUME NEW r \in saved, ~Live(r), run[r].c \notin removing \cup everTorn
        PROVE  \E i \in Answers(run[r].c, r) : log[run[r].c][i].readable
    <3> DEFINE c == run[r].c
    <3>1. r \in Run /\ r # 0 /\ c \in Conversation
      BY <2>2, RunsAssumption DEF SavedOK, IInv, Types, MemoryTypes, RunType
    <3>2. pending[c] # r
      <4>1. ASSUME pending[c] = r PROVE FALSE
        <5>1. active[c] = r
          BY <2>1, <2>2, <3>1, <4>1 DEF FilesOK, CheckpointOK
        <5> QED BY <5>1, <2>2, <3>1 DEF IInv, OwnerOK
      <4> QED BY <4>1
    <3> QED BY <2>2, <3>1, <3>2 DEF SavedOK, Lost, Readable
  <2>3. \A c \in Conversation : /\ conv[c].activeRun # 0 => active[c] = conv[c].activeRun
                                /\ conv[c].there /\ pending[c] # 0 => active[c] = pending[c]
    BY <2>1 DEF CheckpointOK, MarkOK
  <2> QED BY <2>2, <2>3 DEF CheckpointIsKept
<1> QED BY <1>1, <1>2, <1>3, PTL DEF Spec

-----------------------------------------------------------------------------
(* The messages of a conversation are in the order of its runs.  OrderOK   *)
(* adds that runs get their ids in order, so that a run that begins is     *)
(* behind every line, and that the last line is of the run that may still  *)
(* be answered, by its backend or from its checkpoint.                     *)

LastOf(c, r) == log[c] # <<>> /\ log[c][Len(log[c])].run = r

\* The message of the user for r is in the conversation and r is not over.
Answering(r) ==
  \/ run[r].st = "running"
  \/ run[r].st = "accepted" /\ job.todo \in AfterUser \cup AfterActivate

InOrder(c) ==
  \A i \in DOMAIN log[c] :
    IF log[c][i].role = "user"
      THEN \A j \in 1 .. i - 1 : log[c][j].run < log[c][i].run
      ELSE i > 1 /\ log[c][i - 1].run = log[c][i].run

OrderOK ==
  /\ \A c \in Conversation \ removing :
       InOrder(c) /\ (pending[c] # 0 => LastOf(c, pending[c]))
  /\ \A r, s \in Run : run[r].st = "unused" /\ run[s].st # "unused" => s < r
  /\ Starting /\ job.todo \in BeforeUser => \A i \in DOMAIN log[job.c] : log[job.c][i].run < job.r
  /\ \A r \in Run : Answering(r) => run[r].c \in removing \/ LastOf(run[r].c, r)

\* A line behind the others.
LEMMA LineBehind ==
  ASSUME DiskTypes, NEW c \in Conversation, NEW m \in MessageType,
         log' = [log EXCEPT ![c] = Append(@, m)], InOrder(c),
         IF m.role = "user" THEN \A i \in DOMAIN log[c] : log[c][i].run < m.run ELSE LastOf(c, m.run)
  PROVE  InOrder(c)' /\ LastOf(c, m.run)'
<1> DEFINE n == Len(log[c]) + 1
<1>1. /\ log[c] \in Seq(MessageType) /\ log'[c] = Append(log[c], m)
  BY DEF DiskTypes
<1>2. /\ Len(log'[c]) = n /\ n \in Nat /\ DOMAIN log'[c] = 1 .. n /\ DOMAIN log[c] = 1 .. n - 1
      /\ log'[c][n] = m /\ \A i \in 1 .. n - 1 : log'[c][i] = log[c][i]
  BY <1>1
<1>3. LastOf(c, m.run)'
  <2>1. log'[c] # <<>>
    BY <1>1
  <2> QED BY <1>2, <2>1 DEF LastOf
<1>4. ASSUME NEW i \in 1 .. n
      PROVE  IF log'[c][i].role = "user"
               THEN \A j \in 1 .. i - 1 : log'[c][j].run < log'[c][i].run
               ELSE i > 1 /\ log'[c][i - 1].run = log'[c][i].run
  <2>1. CASE i = n /\ m.role = "user"
    BY <1>2, <2>1
  <2>2. CASE i = n /\ m.role # "user"
    <3>1. log[c] # <<>> /\ log[c][Len(log[c])].run = m.run /\ Len(log[c]) = n - 1
      BY <1>1, <2>2 DEF LastOf
    <3>2. n - 1 \in 1 .. n - 1
      BY <1>1, <3>1
    <3> QED BY <1>2, <2>2, <3>1, <3>2
  <2>3. CASE i # n
    <3>1. i \in 1 .. n - 1 /\ log'[c][i] = log[c][i]
      BY <1>2, <2>3
    <3>2. \A j \in 1 .. i - 1 : log'[c][j] = log[c][j]
      BY <1>2, <3>1
    <3>3. i > 1 => i - 1 \in 1 .. i - 1
      BY <3>1
    <3> QED BY <1>2, <3>1, <3>2, <3>3 DEF InOrder
  <2> QED BY <2>1, <2>2, <2>3
<1> QED BY <1>2, <1>3, <1>4 DEF InOrder

\* The line that a handler adds to its conversation is behind the others, and
\* of the run whose checkpoint is there or that is still to be answered.
LEMMA LineInOrder ==
  ASSUME IInv, HeldOK, OrderOK, NEW c \in Conversation, c = job.c, c \notin removing,
         NEW m \in MessageType, log' = [log EXCEPT ![c] = Append(@, m)],
         \/ AppendUser /\ Starting /\ m.role = "user" /\ m.run = job.r /\ job.r \in Run
         \/ AppendAnswer /\ Finalizing /\ m.role = "assistant" /\ m.run = job.r /\ job.r \in Run
         \/ /\ AppendRecovered /\ up = "init" /\ Recovering
            /\ m.role = "assistant" /\ m.run = pending[c] /\ m.status = "interrupted"
  PROVE  /\ InOrder(c)' /\ LastOf(c, m.run)'
         /\ pending[c] # 0 => pending[c] = m.run
         /\ \A r \in Run : run[r].st = "running" /\ run[r].c = c => r = m.run
<1>1. DiskTypes /\ InOrder(c) /\ (pending[c] # 0 => LastOf(c, pending[c]))
  BY DEF IInv, Types, OrderOK
<1>2. CASE AppendUser /\ Starting /\ m.role = "user" /\ m.run = job.r /\ job.r \in Run
  <2>1. job.todo # <<>> /\ At("user")
    BY <1>2 DEF AppendUser, At
  <2>2. job.todo \in BeforeUser
    BY <1>2, <2>1, AfterUserSteps DEF Starting, At
  <2>3. \A i \in DOMAIN log[c] : log[c][i].run < m.run
    BY <1>2, <2>2 DEF OrderOK
  <2>4. active[c] = 0 /\ conv[c].there
    BY <1>2, <2>1, StepPhase DEF Starting
  <2>5. \A r \in Run : ~(run[r].st = "running" /\ run[r].c = c)
    BY <2>4, RunsAssumption DEF IInv, OwnerOK
  <2>6. pending[c] = 0
    <3>1. up # "init"
      BY <1>2 DEF Starting, Of, IInv, OwnerOK, Live
    <3> QED BY <2>4, <3>1 DEF HeldOK, CheckpointOK
  <2> QED BY <1>1, <1>2, <2>3, <2>5, <2>6, LineBehind
<1>3. CASE AppendAnswer /\ Finalizing /\ m.role = "assistant" /\ m.run = job.r /\ job.r \in Run
  <2>1. run[job.r].st = "running" /\ run[job.r].c = c
    BY <1>3 DEF Finalizing, Of
  <2>2. LastOf(c, m.run)
    BY <1>3, <2>1 DEF OrderOK, Answering
  <2>3. \A r \in Run : run[r].st = "running" /\ run[r].c = c => r = m.run
    BY <1>3, <2>1 DEF IInv, OwnerOK
  <2>4. pending[c] # 0 => pending[c] = m.run
    BY <1>1, <2>2 DEF LastOf
  <2> QED BY <1>1, <1>3, <2>2, <2>3, <2>4, LineBehind
<1>4. CASE /\ AppendRecovered /\ up = "init"
           /\ m.role = "assistant" /\ m.run = pending[c]
  <2>1. pending[c] # 0
    BY <1>4, StepPhase DEF AppendRecovered, At
  <2>2. \A r \in Run : run[r].st # "running"
    BY <1>4 DEF IInv, OwnerOK, Live
  <2> QED BY <1>1, <1>4, <2>1, <2>2, LineBehind
<1> QED BY <1>2, <1>3, <1>4

\* The order is kept, and the line of the checkpoint stays the last.
LEMMA TranscriptKept ==
  ASSUME IInv, IInv', HeldOK, OrderOK, [Next]_vars, NEW c \in Conversation, c \notin removing'
  PROVE  InOrder(c)' /\ (pending[c] # 0 => LastOf(c, pending[c]))'
<1>1. c \notin removing /\ InOrder(c) /\ (pending[c] # 0 => LastOf(c, pending[c]))
  BY TornLife DEF OrderOK
<1>2. CASE c = job.c /\ (AppendUser \/ AppendAnswer \/ AppendRecovered)
  <2>1. pending' = pending
    BY <1>2, LineAdded
  <2>2. \E m \in MessageType : InOrder(c)' /\ LastOf(c, m.run)' /\ (pending[c] # 0 => pending[c] = m.run)
    BY <1>1, <1>2, LineAdded, LineInOrder
  <2> QED BY <2>1, <2>2 DEF LastOf
<1>3. CASE ~(c = job.c /\ (AppendUser \/ AppendAnswer \/ AppendRecovered))
  <2>1. log'[c] = log[c]
    <3>1. CASE AppendUser \/ AppendAnswer \/ AppendRecovered
      <4>1. \E m : log' = [log EXCEPT ![job.c] = Append(@, m)]
        BY <3>1, LineAdded
      <4> QED BY <1>3, <3>1, <4>1 DEF IInv, Types, DiskTypes
    <3>2. CASE ~(AppendUser \/ AppendAnswer \/ AppendRecovered)
      BY <1>1, <3>2, LogLife
    <3> QED BY <3>1, <3>2
  <2>2. CASE pending'[c] \in {pending[c], 0}
    BY <1>1, <2>1, <2>2 DEF InOrder, LastOf
  <2>3. CASE Checkpoint /\ c = job.c /\ pending'[c] = job.r
    <3>1. job.r \in Run /\ run[job.r].st = "running" /\ run[job.r].c = c
      BY <2>3, StepPhase DEF Checkpoint, At, Of
    <3>2. LastOf(c, job.r)
      BY <1>1, <3>1 DEF OrderOK, Answering
    <3> QED BY <1>1, <2>1, <2>3, <3>2 DEF InOrder, LastOf
  <2> QED BY <2>2, <2>3, PendingLife
<1> QED BY <1>2, <1>3

\* Runs get their ids in order.
LEMMA IdsInOrder ==
  ASSUME IInv, OrderOK, [Next]_vars, NEW r \in Run, NEW s \in Run,
         run'[r].st = "unused", run'[s].st # "unused"
  PROVE  s < r
<1>1. run[r].st = "unused"
  BY RunLife
<1>2. CASE run[s].st # "unused"
  BY <1>1, <1>2 DEF OrderOK
<1>3. CASE run[s].st = "unused"
  <2>1. NextRun(s)
    BY <1>3, RunLife
  <2>2. s <= r /\ s # r
    BY <1>1, <2>1 DEF NextRun
  <2> QED BY <2>2, RunsAssumption
<1> QED BY <1>2, <1>3

\* A handler that has the message of the user still to append has just begun,
\* or has created its conversation.
LEMMA StartLife ==
  ASSUME IInv, [Next]_vars, job'.op \in {"create", "start"}, job'.todo \in BeforeUser
  PROVE  \/ /\ Starting /\ job.todo \in BeforeUser /\ job'.c = job.c /\ job'.r = job.r
            /\ ~AppendUser /\ ~AppendAnswer /\ ~AppendRecovered /\ log' = log
         \/ \E c \in Conversation, r \in Run :
              /\ CreateConversation(c, r) \/ StartRun(c, r)
              /\ job'.c = c /\ job'.r \in {r, 0}
<1>1. JobTypes /\ <<>> \notin BeforeUser /\ DeleteSteps \notin BeforeUser
  <2>1. Head(DeleteSteps) = "forget"
    BY DEF DeleteSteps
  <2> QED BY <2>1, BeforeUserSteps DEF IInv, Types
<1>2. job.op \in {"create", "start"} /\ job.todo \in BeforeUser => Starting /\ job.todo # <<>>
  <2>1. \A s \in BeforeUser : s # <<>> /\ Head(s) \in {"new", "user"}
    BY BeforeUserSteps
  <2>2. job.todo \in BeforeUser => ~Launching
    BY <2>1, AfterActivateSteps DEF Launching
  <2>3. job.todo \in BeforeUser => ~Removing
    <3>1. CreateSteps # <<"new", "forget", "remove">>
      BY DEF CreateSteps
    <3>2. \A s \in BeforeUser : s # CreateSteps => Head(s) = "user"
      BY BeforeUserSteps
    <3>3. Head(<<"new", "forget", "remove">>) = "new" /\ Head(DeleteSteps) = "forget"
      BY DEF DeleteSteps
    <3> QED BY <2>1, <3>1, <3>2, <3>3, AfterForgetSteps DEF Removing, BeforeForget
  <2> QED BY <2>1, <2>2, <2>3 DEF IInv, JobOK, Finalizing, Saving, Recovering
<1>3. CASE UserAction
  <2>1. ASSUME NEW c \in Conversation, NEW r \in Run, CreateConversation(c, r) \/ StartRun(c, r)
        PROVE  job'.c = c /\ job'.r \in {r, 0}
    BY <2>1 DEF CreateConversation, StartRun, Begin
  <2>2. ASSUME NEW c \in Conversation, Delete(c) \/ Rename(c)
        PROVE  FALSE
    BY <1>1, <2>2, <1>2 DEF Delete, Rename, Begin, Free
  <2>3. ASSUME NEW r \in Run, Cancel(r)
        PROVE  FALSE
    BY <1>1, <2>3, <1>2 DEF Cancel, Free
  <2> QED BY <1>3, <2>1, <2>2, <2>3 DEF UserAction
<1>4. CASE Backend \/ Timer
  <2>1. ASSUME job' = job, Free PROVE FALSE
    BY <1>2, <2>1 DEF Free
  <2>2. job'.op \notin {"finalize", "name", "persist", "delete"}
    OBVIOUS
  <2>3. ASSUME NEW r \in Run, Change(r) \/ WriteWork(r) PROVE FALSE
    BY <2>1, <2>3 DEF Change, WriteWork
  <2>4. ASSUME NEW r \in Run, TitleReturns(r) PROVE FALSE
    BY <2>1, <2>2, <2>4 DEF TitleReturns, Begin
  <2>5. ASSUME NEW r \in Run, NEW result \in {"completed", "failed"}, BackendReturns(r, result) PROVE FALSE
    BY <2>2, <2>5 DEF BackendReturns, Begin
  <2>6. ASSUME NEW r \in Run, Persist(r) PROVE FALSE
    BY <2>1, <2>2, <2>6 DEF Persist
  <2>7. ASSUME NEW c \in Conversation, DeleteTimesOut(c) PROVE FALSE
    BY <2>2, <2>7 DEF DeleteTimesOut, Begin
  <2> QED BY <1>4, <2>3, <2>4, <2>5, <2>6, <2>7 DEF Backend, Timer
<1>5. CASE Step
  <2>1. job.todo # <<>>
    BY <1>5 DEF Step, AppendUser, AppendAnswer, AppendRecovered, AppendLine, Save, PrepareSave, New, Launch,
                Checkpoint, Clear, Finish, Forget, RemoveFile, Removed, At
  <2>2. CASE Continue
    <3>1. job'.op = job.op /\ job'.c = job.c /\ job'.r = job.r /\ job'.todo = Tail(job.todo)
      BY <1>1, <2>2, ContinueType
    <3>2. Starting /\ job.todo \in BeforeUser /\ Head(job.todo) = "new"
      <4>1. \A s \in AfterUser \cup AfterActivate : s \notin BeforeUser
        BY BeforeUserSteps, AfterUserSteps, AfterActivateSteps
      <4>2. CASE Starting
        BY <4>1, <4>2, <3>1, BeforeUserSteps, AfterUserSteps DEF Starting
      <4>3. CASE Launching
        BY <4>1, <4>3, <3>1, <1>1, AfterActivateSteps DEF Launching
      <4>4. CASE Removing
        <5>1. Tail(<<"new", "forget", "remove">>) = DeleteSteps /\ Tail(DeleteSteps) = <<"remove">>
          BY DEF DeleteSteps
        <5>2. <<"remove">> \notin BeforeUser
          BY BeforeUserSteps
        <5> QED BY <4>4, <3>1, <5>1, <5>2, <1>1, AfterForgetSteps DEF Removing, BeforeForget
      <4> QED BY <2>1, <3>1, <4>2, <4>3, <4>4 DEF IInv, JobOK, Finalizing, Saving, Recovering
    <3>3. ~AppendUser /\ ~AppendAnswer /\ ~AppendRecovered /\ ~RemoveFile
      BY <3>2 DEF AppendUser, AppendAnswer, AppendRecovered, RemoveFile, At
    <3>4. log' = log
      BY <1>5, <3>3 DEF Step, Save, New, Launch, Checkpoint, Clear, Finish, Forget, Removed, disk
    <3> QED BY <3>1, <3>2, <3>3, <3>4
  <2>3. CASE Finish /\ Begin("delete", job.c, 0, DeleteSteps)
    BY <1>1, <2>3 DEF Begin
  <2>4. CASE RemoveFile
    <3>1. job' = job /\ Head(job.todo) = "remove"
      BY <2>4 DEF RemoveFile, At
    <3> QED BY <3>1, BeforeUserSteps
  <2> QED BY <1>5, <2>2, <2>3, <2>4 DEF Step, AppendUser, AppendAnswer, AppendRecovered, AppendLine, Save, New, Launch,
                Checkpoint, Clear, Finish, Forget, Removed
<1>6. CASE Fault
  <2>1. job' = Idle \/ job'.todo = <<>> \/ job'.todo = DeleteSteps
    BY <1>1, <1>6 DEF Fault, Crash, Throw, ThrowInit, Dead, JobTypes
  <2> QED BY <1>1, <2>1, StartTypes
<1>7. CASE Restart
  BY <1>1, <1>2, <1>7 DEF Restart, Boot, Load, Serve, Begin, IInv, JobOK, Starting, OwnerOK, Live, Of
<1>8. CASE UNCHANGED vars
  <2>1. ~AppendUser /\ ~AppendAnswer /\ ~AppendRecovered
    <3>1. job' = job
      BY <1>8 DEF vars
    <3>2. Continue => FALSE
      <4>1. ASSUME Continue PROVE FALSE
        <5>1. Tail(job.todo) = job.todo /\ job.todo \in BeforeUser
          BY <4>1, <3>1, <1>1, ContinueType
        <5>2. \A s \in BeforeUser : Len(Tail(s)) # Len(s)
          BY DEF BeforeUser, CreateSteps
        <5> QED BY <5>1, <5>2
      <4> QED BY <4>1
    <3> QED BY <3>2 DEF AppendUser, AppendAnswer, AppendRecovered, AppendLine
  <2> QED BY <2>1, <1>2, <1>8 DEF vars, disk
<1> QED BY <1>3, <1>4, <1>5, <1>6, <1>7, <1>8 DEF Next

\* A run that begins is behind every line of its conversation.
LEMMA StartKept ==
  ASSUME IInv, IInv', OrderOK, [Next]_vars, Starting', job'.todo \in BeforeUser, NEW c \in Conversation, c = job'.c,
         NEW i \in DOMAIN log'[c]
  PROVE  log'[c][i].run < job'.r
<1>1. job'.op \in {"create", "start"} /\ job'.r \in Run
  BY DEF Starting, Of
<1>2. CASE Starting /\ job.todo \in BeforeUser /\ job'.c = job.c /\ job'.r = job.r /\ log' = log
  BY <1>2 DEF OrderOK
<1>3. ASSUME NEW r \in Run, CreateConversation(c, r) \/ StartRun(c, r), job'.r \in {r, 0}
      PROVE  log'[c][i].run < job'.r
  <2>1. job'.r = r /\ run[r].st = "unused" /\ log' = log
    BY <1>1, <1>3, RunsAssumption DEF CreateConversation, StartRun, NextRun, disk
  <2>2. log[c][i].run \in Run /\ run[log[c][i].run].st # "unused"
    BY <2>1, LineTypes DEF IInv, LogOK, Types, MessageType
  <2> QED BY <2>1, <2>2 DEF OrderOK
<1> QED BY <1>1, <1>2, <1>3, StartLife

\* The last line stays that of the run that may still be answered.
LEMMA AnsweringKept ==
  ASSUME IInv, IInv', HeldOK, OrderOK, [Next]_vars, NEW r \in Run, Answering(r)',
         NEW c \in Conversation, c = run'[r].c, c \notin removing'
  PROVE  LastOf(c, r)'
<1>1. c \notin removing /\ InOrder(c)
  BY TornLife DEF OrderOK
<1>2. run'[r].st \in {"accepted", "running"}
  BY DEF Answering
<1>3. run[r].st # "unused"
  <2>1. ASSUME run[r].st = "unused" PROVE FALSE
    <3>1. run'[r].st = "accepted" /\ Free
      BY <1>2, <2>1, RunLife
    <3>2. UserAction
      <4>1. ~Step /\ ~Fault /\ ~Restart /\ ~UNCHANGED vars
        <5>1. ~Step
          BY <3>1 DEF Free, Step, AppendUser, AppendAnswer, AppendRecovered, AppendLine, Save, PrepareSave, New, Launch,
                Checkpoint, Clear, Finish, Forget, RemoveFile, Removed, At
        <5>2. ~Fault
          <6>1. ~Throw /\ ~ThrowInit
            BY <3>1 DEF Free, Throw, ThrowInit
          <6>2. ASSUME Crash PROVE run'[r].st = "unused"
            BY <2>1, <6>2 DEF Crash, Dead, NoRun
          <6> QED BY <3>1, <6>1, <6>2 DEF Fault
        <5>3. ~Restart /\ ~UNCHANGED vars
          BY <2>1, <3>1 DEF Free, Restart, Boot, Load, Serve, vars, memory
        <5> QED BY <5>1, <5>2, <5>3
      <4>2. ~Backend /\ ~Timer
        <5>1. run \in [Run -> RunType]
          BY DEF IInv, Types, MemoryTypes
        <5>2. \A s \in Run : ~Change(s) /\ ~WriteWork(s) /\ ~Persist(s) /\ ~TitleReturns(s)
                             /\ \A result \in {"completed", "failed"} : ~BackendReturns(s, result)
          BY <2>1, <3>1, <5>1 DEF Change, WriteWork, Persist, TitleReturns, BackendReturns, RunType, memory
        <5> QED BY <2>1, <3>1, <5>2 DEF Backend, Timer, DeleteTimesOut, memory
      <4> QED BY <4>1, <4>2 DEF Next
    <3>3. job'.todo \in BeforeUser
      <4>1. job'.r = r /\ (Starting' \/ Launching')
        BY <3>1 DEF IInv, OwnerOK
      <4>2. \E t \in BeforeUser \cup BeforeForget \cup {<<>>, <<"save">>} : job'.todo = t
        <5>1. \A t : StartSteps(t) \in BeforeUser
          BY DEF StartSteps, BeforeUser
        <5>2. CreateSteps \in BeforeUser /\ <<"new", "forget", "remove">> \in BeforeForget /\ DeleteSteps \in BeforeForget
          BY DEF BeforeUser, BeforeForget
        <5>3. ASSUME NEW d \in Conversation, NEW s \in Run, CreateConversation(d, s)
              PROVE  job'.todo \in {CreateSteps, <<"new", "forget", "remove">>}
          BY <5>3 DEF CreateConversation, Begin
        <5>4. ASSUME NEW d \in Conversation, NEW s \in Run, StartRun(d, s)
              PROVE  job'.todo = StartSteps(conv[d].title)
          BY <5>4 DEF StartRun, Begin
        <5>5. ASSUME NEW d \in Conversation, Delete(d) PROVE job'.todo \in {DeleteSteps, <<>>}
          BY <3>1, <5>5 DEF Delete, Begin, Free
        <5>6. ASSUME NEW d \in Conversation, Rename(d) PROVE job'.todo = <<"save">>
          BY <5>6 DEF Rename, Begin
        <5>7. ASSUME NEW s \in Run, Cancel(s) PROVE job'.todo = <<>>
          BY <3>1, <5>7 DEF Cancel, Free
        <5> QED BY <3>2, <5>1, <5>2, <5>3, <5>4, <5>5, <5>6, <5>7 DEF UserAction
      <4>3. \A t \in BeforeForget \cup {<<>>, <<"save">>} : t \notin AfterUser \cup AfterActivate
        BY BeforeForgetSteps, AfterUserSteps, AfterActivateSteps, SingleSteps
      <4>4. \A t \in BeforeUser : t \notin AfterUser \cup AfterActivate
        BY BeforeUserSteps, AfterUserSteps, AfterActivateSteps
      <4> QED BY <4>1, <4>2, <4>3 DEF Starting, Launching
    <3>4. job'.todo \notin AfterUser \cup AfterActivate
      BY <3>3, BeforeUserSteps, AfterUserSteps, AfterActivateSteps
    <3> QED BY <3>1, <3>4 DEF Answering
  <2> QED BY <2>1
<1>4. run[r].c = c /\ run[r].st \in {"accepted", "running"}
  BY <1>2, <1>3, RunLife
<1>5. CASE AppendUser \/ AppendAnswer \/ AppendRecovered
  <2>1. /\ job.todo # <<>> /\ Continue /\ run' = run /\ job.c \in Conversation
    BY <1>5, LineAdded
  <2>2. CASE c = job.c
    <3>1. PICK m \in MessageType :
            /\ log' = [log EXCEPT ![c] = Append(@, m)]
            /\ \/ AppendUser /\ Starting /\ m.role = "user" /\ m.run = job.r /\ job.r \in Run
               \/ AppendAnswer /\ Finalizing /\ m.role = "assistant" /\ m.run = job.r /\ job.r \in Run
               \/ /\ AppendRecovered /\ up = "init" /\ Recovering
                  /\ m.role = "assistant" /\ m.run = pending[c] /\ m.status = "interrupted"
      BY <1>5, <2>2, LineAdded
    <3>2. LastOf(c, m.run)' /\ (run[r].st = "running" => r = m.run)
      BY <1>1, <1>4, <2>2, <3>1, LineInOrder
    <3>3. run[r].st = "accepted" => r = m.run
      <4>1. run[r].st = "accepted" => job.r = r /\ (Starting \/ Launching)
        BY DEF IInv, OwnerOK
      <4>2. up = "init" => run[r].st # "accepted"
        BY DEF IInv, OwnerOK, Live
      <4> QED BY <3>1, <4>1, <4>2
    <3> QED BY <1>4, <3>2, <3>3 DEF LastOf
  <2>3. CASE c # job.c
    <3>1. log'[c] = log[c]
      <4>1. \E m : log' = [log EXCEPT ![job.c] = Append(@, m)]
        BY <1>5, LineAdded
      <4> QED BY <2>3, <4>1 DEF IInv, Types, DiskTypes
    <3>2. run[r].st = "running"
      <4>1. run[r].st = "accepted" => run[r].c = job.c
        BY DEF IInv, OwnerOK, Starting, Launching, Of
      <4> QED BY <1>4, <2>3, <4>1
    <3> QED BY <1>1, <1>4, <3>1, <3>2 DEF OrderOK, Answering, LastOf
  <2> QED BY <2>2, <2>3
<1>6. CASE ~(AppendUser \/ AppendAnswer \/ AppendRecovered)
  <2>1. log'[c] = log[c]
    BY <1>1, <1>6, LogLife
  <2>2. Answering(r)
    <3>1. CASE run[r].st = "running"
      BY <3>1 DEF Answering
    <3>2. CASE run[r].st = "accepted"
      <4>1. job.r = r /\ (Starting \/ Launching) /\ up = "serving" /\ job.todo # <<>>
        <5>1. job.r = r /\ (Starting \/ Launching) /\ up = "serving"
          BY <3>2 DEF IInv, OwnerOK, Live
        <5> QED BY <5>1, BeforeUserSteps, AfterUserSteps, AfterActivateSteps DEF Starting, Launching
      <4>2. CASE job.todo \in AfterUser \cup AfterActivate
        BY <3>2, <4>2 DEF Answering
      <4>3. CASE job.todo \in BeforeUser
        <5>1. run'[r].st = "accepted" /\ job'.todo \in AfterUser \cup AfterActivate
          <6>1. ~At("launch")
            BY <4>3, BeforeUserSteps DEF At
          <6> QED BY <1>2, <3>2, <6>1, RunLife DEF Answering
        <5>2. \A s \in BeforeUser : s \notin AfterUser \cup AfterActivate
          BY BeforeUserSteps, AfterUserSteps, AfterActivateSteps
        <5>3. Head(job.todo) = "new" \/ Head(job.todo) = "user"
          BY <4>3, BeforeUserSteps
        <5>4. CASE job' = job
          BY <4>3, <5>1, <5>2, <5>4
        <5>5. CASE New
          <6>1. job'.todo = Tail(job.todo) /\ Head(job.todo) = "new"
            BY <5>5, ContinueType DEF New, At, IInv, Types
          <6>2. Tail(job.todo) \in BeforeUser
            BY <4>3, <6>1, BeforeUserSteps
          <6> QED BY <5>1, <5>2, <6>1, <6>2
        <5>6. CASE Step /\ ~New
          BY <5>3, <5>6, <1>6 DEF Step, AppendUser, Save, PrepareSave, SaveStep, Launch, Checkpoint, Clear, Finish, Forget,
                                  RemoveFile, Removed, At
        <5>7. CASE UserAction \/ Backend \/ Timer
          BY <4>1, <5>7 DEF UserAction, CreateConversation, StartRun, Delete, Rename, Cancel, Backend, Change, WriteWork,
              TitleReturns, BackendReturns, Timer, Persist, DeleteTimesOut, Free
        <5>8. CASE Fault
          <6>1. job' = Idle \/ job'.todo = <<>> \/ job'.todo = DeleteSteps
            BY <5>8 DEF Fault, Crash, Throw, ThrowInit, Dead, IInv, Types, JobTypes
          <6>2. Head(DeleteSteps) = "forget"
            BY DEF DeleteSteps
          <6> QED BY <5>1, <6>1, <6>2, StartTypes, AfterUserSteps, AfterActivateSteps
        <5>9. CASE Restart \/ UNCHANGED vars
          BY <4>1, <5>4, <5>9 DEF Restart, Boot, Load, Serve, vars
        <5> QED BY <5>5, <5>6, <5>7, <5>8, <5>9 DEF Next
      <4> QED BY <4>1, <4>2, <4>3 DEF Starting, Launching
    <3> QED BY <1>4, <3>1, <3>2
  <2> QED BY <1>1, <1>4, <2>1, <2>2 DEF OrderOK, LastOf
<1> QED BY <1>5, <1>6

\* Every step keeps OrderOK.
LEMMA OrderKeeps ==
  ASSUME IInv, IInv', HeldOK, OrderOK, [Next]_vars
  PROVE  OrderOK'
<1>1. \A c \in Conversation \ removing' : InOrder(c)' /\ (pending[c] # 0 => LastOf(c, pending[c]))'
  BY TranscriptKept
<1>2. \A r, s \in Run : run'[r].st = "unused" /\ run'[s].st # "unused" => s < r
  BY IdsInOrder
<1>3. Starting' /\ job'.todo \in BeforeUser => \A i \in DOMAIN log'[job'.c] : log'[job'.c][i].run < job'.r
  <2>1. job'.c \in Conversation
    BY DEF IInv, Types, JobTypes
  <2> QED BY <2>1, StartKept
<1>4. ASSUME NEW r \in Run, Answering(r)'
      PROVE  (run[r].c \in removing \/ LastOf(run[r].c, r))'
  <2>1. run'[r].c \in Conversation
    BY DEF IInv, Types, MemoryTypes, RunType
  <2>2. run'[r].c \in removing' \/ \E c \in Conversation : c = run'[r].c /\ LastOf(c, r)'
    BY <1>4, <2>1, AnsweringKept
  <2> QED BY <2>2 DEF LastOf
<1> QED BY <1>1, <1>2, <1>3, <1>4 DEF OrderOK

\* The messages of a conversation are in the order of its runs, those of a run
\* together behind its one user message.
THEOREM TranscriptCorrect == Spec => []TranscriptInOrder
<1>1. Init => IInv /\ HeldOK /\ OrderOK
  <2> SUFFICES ASSUME Init PROVE OrderOK
    BY InitKeeps, HeldInit
  <2>1. \A c \in Conversation : DOMAIN log[c] = {} /\ pending[c] = 0
    BY DEF Init
  <2>2. \A r \in Run : run[r].st = "unused"
    BY DEF Init, NoRun
  <2>3. job.op = "none"
    BY StartTypes DEF Init
  <2> QED BY <2>1, <2>2, <2>3 DEF OrderOK, InOrder, Answering, Starting
<1>2. IInv /\ HeldOK /\ OrderOK /\ [Next]_vars => (IInv /\ HeldOK /\ OrderOK)'
  BY NextKeeps, HeldKeeps, OrderKeeps
<1>3. OrderOK => TranscriptInOrder
  BY DEF OrderOK, InOrder, TranscriptInOrder
<1> QED BY <1>1, <1>2, <1>3, PTL DEF Spec
=============================================================================
