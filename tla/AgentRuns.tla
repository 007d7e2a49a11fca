----------------------------- MODULE AgentRuns -----------------------------
(***************************************************************************)
(* The runs of the console agent and the store of its conversations: what  *)
(* a conversation holds on disk while runs are started, checkpointed,      *)
(* finished, cancelled and deleted, when a write fails and when the        *)
(* process dies and starts again.                                          *)
(*                                                                         *)
(* The agent is one Node.js process: a handler runs to its end, or to an   *)
(* await, before another one starts.  The writes of a handler are steps    *)
(* of their own, since the process may die between two of them and each of *)
(* them may throw.  conversation.json and pending.json are written to a    *)
(* temporary file and renamed, so they change at once; messages.jsonl is   *)
(* appended to, and an append that is cut short leaves a line without its  *)
(* end, with which the next line is lost.                                  *)
(*                                                                         *)
(* A conversation is of one user; its content is the list of its messages, *)
(* each of one run.  What the backend does in a run is only that the       *)
(* message changes and that it returns; AgentStream has the rest.          *)
(***************************************************************************)
EXTENDS Naturals, Sequences, FiniteSets

CONSTANTS
  Conversation,    \* the ids a new conversation may get
  Run,             \* the ids a new run may get: 1, 2, ...
  MaxFaults        \* bound of how often a write throws or the process dies

ASSUME RunsAssumption ==
  Conversation # {} /\ Run \subseteq Nat \ {0} /\ MaxFaults \in Nat

VARIABLES
  meta,        \* c -> conversation.json
  log,         \* c -> the lines of messages.jsonl
  torn,        \* c -> whether messages.jsonl ends in the middle of a line
  pending,     \* c -> the run of the message in pending.json, 0 without one
  work,        \* c -> whether the backend's session/ or results/ is there
  up,          \* "down", "init" or "serving"
  conv,        \* c -> the conversation in memory
  run,         \* r -> the run in memory
  active,      \* c -> activeByConversation, 0 without a run
  deleting,    \* the conversations whose deletion waits for their run
  job,         \* the handler at work and the steps it has still to take
  faults,      \* how many faults there were
  reported,    \* history: r -> the outcome its clients were told
  saved,       \* history: the runs whose message was checkpointed
  removing,    \* history: the conversations whose removal began
  deleted,     \* history: those of which it was acknowledged
  outlived,    \* history: those whose run was still going at that time
  named,       \* history: those that have a title the user was told is set
  everTorn     \* history: those whose messages.jsonl once ended in a torn line

disk == <<meta, log, torn, pending, work>>
memory == <<conv, run, active, deleting>>
history == <<reported, saved, removing, deleted, outlived, named, everTorn>>
vars == <<disk, up, memory, job, faults, history>>

Outcome == {"completed", "failed", "cancelled"}

None == [there |-> FALSE, title |-> "default", activeRun |-> 0]

Idle == [op |-> "none", c |-> CHOOSE c \in Conversation : TRUE, r |-> 0, todo |-> <<>>]

NoRun == [st |-> "unused", c |-> Idle.c, aborted |-> FALSE, dirty |-> FALSE,
          final |-> "completed", naming |-> FALSE]

Init ==
  /\ meta = [c \in Conversation |-> None] /\ log = [c \in Conversation |-> <<>>]
  /\ torn = [c \in Conversation |-> FALSE] /\ pending = [c \in Conversation |-> 0]
  /\ work = [c \in Conversation |-> FALSE]
  /\ up = "serving"
  /\ conv = meta /\ run = [r \in Run |-> NoRun]
  /\ active = [c \in Conversation |-> 0] /\ deleting = {}
  /\ job = Idle /\ faults = 0
  /\ reported = [r \in Run |-> "no"] /\ saved = {} /\ removing = {} /\ deleted = {}
  /\ outlived = {} /\ named = {} /\ everTorn = {}

-----------------------------------------------------------------------------
(* Handlers begin when no other one is at work.                            *)

Free == up = "serving" /\ job.todo = <<>>

Begin(op, c, r, todo) == job' = [op |-> op, c |-> c, r |-> r, todo |-> todo]

\* Mutation of Busy: the conversation is not looked at.
NeverBusy(c) == FALSE

\* The conflict of startRun.
Busy(c) == active[c] # 0

\* The runs get their ids in order.
NextRun(r) == run[r].st = "unused" /\ \A s \in Run : run[s].st = "unused" => r <= s

\* The steps of startRun after its checks.  The input has a text, so the
\* first run of a conversation gives it a title.
StartSteps(title) ==
  IF title = "default" THEN <<"user", "count", "activate", "title", "launch">>
                       ELSE <<"user", "count", "activate", "launch">>

CreateSteps == <<"new", "user", "count", "activate", "title", "launch">>

\* Mutation of Accepted: the status is one startRun does not know.
AcceptedUnset(c, title) == [NoRun EXCEPT !.st = "queued", !.c = c, !.naming = (title = "default")]

\* The run startRun creates.
Accepted(c, title) ==
  [NoRun EXCEPT !.st = "accepted", !.c = c, !.naming = (title = "default")]

\* No file of the store is in the directory of a conversation.
NotStored(c) == ~meta[c].there /\ log[c] = <<>> /\ ~torn[c] /\ pending[c] = 0

Empty(c) == NotStored(c) /\ ~work[c]

\* A new id is not that of an earlier conversation.
Fresh(c) ==
  /\ Empty(c) /\ ~conv[c].there /\ c \notin deleted
  /\ \A r \in Run : run[r].st # "unused" => run[r].c # c

\* createConversation, with the run the first message asks for.  The runs of
\* the other conversations may leave no room for it (maxConcurrentRuns), and
\* then the conversation is deleted again.
CreateConversation(c, r) ==
  /\ Free /\ NextRun(r) /\ Fresh(c)
  /\ \/ /\ Begin("create", c, r, CreateSteps)
        /\ run' = [run EXCEPT ![r] = Accepted(c, "default")]
     \/ /\ Begin("create", c, 0, <<"new", "forget", "remove">>)
        /\ UNCHANGED run
  /\ UNCHANGED <<disk, up, conv, active, deleting, faults, history>>

\* startRun of a conversation that exists, when there is room for the run.
StartRun(c, r) ==
  /\ Free /\ NextRun(r)
  /\ conv[c].there /\ ~Busy(c)
  /\ Begin("start", c, r, StartSteps(conv[c].title))
  /\ run' = [run EXCEPT ![r] = Accepted(c, conv[c].title)]
  /\ UNCHANGED <<disk, up, conv, active, deleting, faults, history>>

Live(r) == run[r].st \in {"accepted", "running", "stuck"}

\* The backend changed the message: a checkpoint is scheduled.
Change(r) ==
  /\ Free /\ run[r].st = "running" /\ ~run[r].dirty
  /\ run' = [run EXCEPT ![r].dirty = TRUE]
  /\ UNCHANGED <<disk, up, conv, active, deleting, job, faults, history>>

\* The timer of schedulePersist.
Persist(r) ==
  /\ Free /\ run[r].st = "running" /\ run[r].dirty
  /\ run' = [run EXCEPT ![r].dirty = FALSE]
  /\ job' = IF conv[run[r].c].there
              THEN [op |-> "persist", c |-> run[r].c, r |-> r, todo |-> <<"checkpoint">>] ELSE job
  /\ UNCHANGED <<disk, up, conv, active, deleting, faults, history>>

\* Mutation of FinalSteps: the checkpoint is left behind.
StepsWithoutClear(c) ==
  IF conv[c].there THEN <<"answer", "count", "inactive", "finish">> ELSE <<"finish">>

\* Mutation of FinalSteps: the conversation is written to although it is gone.
StepsWithoutCheck(c) == <<"answer", "count", "clear", "inactive", "finish">>

\* finalize.  A conversation that is gone is not written to.
FinalSteps(c) ==
  IF conv[c].there THEN <<"answer", "count", "clear", "inactive", "finish">>
                   ELSE <<"clear", "finish">>

\* The backend creates session/, or a tool writes to results/, after an await
\* and with the directories above it: whether the conversation is still there
\* is not looked at.
WriteWork(r) ==
  /\ Free /\ run[r].st = "running" /\ ~work[run[r].c]
  /\ work' = [work EXCEPT ![run[r].c] = TRUE]
  /\ UNCHANGED <<meta, log, torn, pending, up, memory, job, faults, history>>

\* backend.run returns and finalize begins.
BackendReturns(r, result) ==
  /\ Free /\ run[r].st = "running"
  /\ run' = [run EXCEPT ![r].dirty = FALSE,
                        ![r].final = IF run[r].aborted THEN "cancelled" ELSE result]
  /\ Begin("finalize", run[r].c, r, FinalSteps(run[r].c))
  /\ UNCHANGED <<disk, up, conv, active, deleting, faults, history>>

Cancel(r) ==
  /\ Free /\ run[r].st \in {"running", "stuck"} /\ ~run[r].aborted
  /\ run' = [run EXCEPT ![r].aborted = TRUE]
  /\ UNCHANGED <<disk, up, conv, active, deleting, job, faults, history>>

\* updateConversation: the user names the conversation.  The names a user
\* gives are one title here.
Rename(c) ==
  /\ Free /\ conv[c].there /\ conv[c].title # "own"
  /\ conv' = [conv EXCEPT ![c].title = "own"]
  /\ named' = named \ {c}
  /\ Begin("rename", c, 0, <<"save">>)
  /\ UNCHANGED <<disk, up, run, active, deleting, faults, reported, saved, removing, deleted, outlived, everTorn>>

\* Mutation of TitleWanted: the title is not compared with the fallback.
TitleWantedAlways(c) == conv[c].there

\* The generated title replaces only the fallback that it was asked for.
TitleWanted(c) == conv[c].there /\ conv[c].title = "fallback"

\* generateTitle has its answer, which may be none.
TitleReturns(r) ==
  LET c == run[r].c IN
  /\ Free /\ run[r].naming
  /\ run' = [run EXCEPT ![r].naming = FALSE]
  /\ \/ UNCHANGED <<conv, job>>
     \/ /\ TitleWanted(c)
        /\ conv' = [conv EXCEPT ![c].title = "generated"]
        /\ Begin("name", c, r, <<"save">>)
  /\ UNCHANGED <<disk, up, active, deleting, faults, history>>

DeleteSteps == <<"forget", "remove">>

\* deleteConversation: cancels the run and waits for it.
Delete(c) ==
  /\ Free /\ conv[c].there /\ c \notin deleting
  /\ IF active[c] = 0
       THEN Begin("delete", c, 0, DeleteSteps) /\ UNCHANGED <<run, deleting>>
       ELSE /\ run' = [run EXCEPT ![active[c]].aborted = TRUE]
            /\ deleting' = deleting \cup {c}
            /\ UNCHANGED job
  /\ UNCHANGED <<disk, up, conv, active, faults, history>>

\* Mutation of DeleteTimesOut: the wait has no limit.
DeleteWaits(c) ==
  /\ Free /\ c \in deleting /\ ~Busy(c)
  /\ Begin("delete", c, 0, DeleteSteps)
  /\ UNCHANGED <<disk, up, memory, faults, history>>

\* The wait of cancelConversation is over after 10 s.
DeleteTimesOut(c) ==
  /\ Free /\ c \in deleting
  /\ Begin("delete", c, 0, DeleteSteps)
  /\ UNCHANGED <<disk, up, memory, faults, history>>

-----------------------------------------------------------------------------
(* The steps of a handler.                                                 *)

At(step) == job.todo # <<>> /\ Head(job.todo) = step

Continue == job' = [job EXCEPT !.todo = Tail(@)]

Line(role, status) == [run |-> job.r, role |-> role, status |-> status, readable |-> ~torn[job.c]]

\* appendFileSync of appendMessage.
AppendLine(role, status) ==
  /\ log' = [log EXCEPT ![job.c] = Append(@, Line(role, status))]
  /\ torn' = [torn EXCEPT ![job.c] = FALSE]
  /\ Continue
  /\ UNCHANGED <<meta, pending, work, up, memory, faults, history>>

AppendUser == At("user") /\ AppendLine("user", "completed")

AppendAnswer == At("answer") /\ AppendLine("assistant", run[job.r].final)

\* Mutation of Recovered: the status of the checkpoint is kept.
RecoveredAsIs(r) == [Line("assistant", "completed") EXCEPT !.run = r]

\* The message of a checkpoint, as init appends it.
Recovered(r) == [Line("assistant", "interrupted") EXCEPT !.run = r]

AppendRecovered ==
  /\ At("recover")
  /\ log' = [log EXCEPT ![job.c] = Append(@, Recovered(pending[job.c]))]
  /\ torn' = [torn EXCEPT ![job.c] = FALSE]
  /\ Continue
  /\ UNCHANGED <<meta, pending, work, up, memory, faults, history>>

\* What the handler changes in memory before it calls save.
Prepared ==
  CASE At("activate") -> [conv[job.c] EXCEPT !.activeRun = job.r]
    [] At("inactive") -> [conv[job.c] EXCEPT !.activeRun = 0]
    [] At("title") -> [conv[job.c] EXCEPT !.title = "fallback"]
    [] OTHER -> conv[job.c]

SaveStep == {"count", "save", "activate", "inactive", "title"}

PrepareSave ==
  /\ job.todo # <<>> /\ Head(job.todo) \in SaveStep
  /\ conv' = [conv EXCEPT ![job.c] = Prepared]
  /\ active' = IF At("activate") THEN [active EXCEPT ![job.c] = job.r] ELSE active

\* save of the store.
Save ==
  /\ PrepareSave /\ Continue
  /\ meta' = [meta EXCEPT ![job.c] = Prepared]
  /\ named' = IF job.op = "rename" THEN named \cup {job.c} ELSE named
  /\ UNCHANGED <<log, torn, pending, work, up, run, deleting, faults,
                 reported, saved, removing, deleted, outlived, everTorn>>

\* create of the store: on disk first, then in memory.
New ==
  /\ At("new") /\ Continue
  /\ meta' = [meta EXCEPT ![job.c] = [None EXCEPT !.there = TRUE]]
  /\ conv' = [conv EXCEPT ![job.c] = [None EXCEPT !.there = TRUE]]
  /\ UNCHANGED <<log, torn, pending, work, up, run, active, deleting, faults, history>>

\* The end of startRun: the backend and generateTitle are called.
Launch ==
  /\ At("launch") /\ Continue
  /\ run' = [run EXCEPT ![job.r].st = "running"]
  /\ UNCHANGED <<disk, up, conv, active, deleting, faults, history>>

Checkpoint ==
  /\ At("checkpoint") /\ Continue
  /\ pending' = [pending EXCEPT ![job.c] = job.r]
  /\ saved' = saved \cup {job.r}
  /\ UNCHANGED <<meta, log, torn, work, up, memory, faults, reported, removing, deleted, outlived, named, everTorn>>

Clear ==
  /\ At("clear") /\ Continue
  /\ pending' = [pending EXCEPT ![job.c] = 0]
  /\ UNCHANGED <<meta, log, torn, work, up, memory, faults, history>>

\* The end of finalize: the clients are told, and a deletion that waits for
\* the run goes on before any other handler.
Finish ==
  /\ At("finish")
  /\ run' = [run EXCEPT ![job.r] = [NoRun EXCEPT !.st = "done", !.c = job.c, !.naming = run[job.r].naming]]
  /\ active' = [active EXCEPT ![job.c] = 0]
  /\ reported' = [reported EXCEPT ![job.r] = run[job.r].final]
  /\ IF job.c \in deleting THEN Begin("delete", job.c, 0, DeleteSteps) ELSE Continue
  /\ UNCHANGED <<disk, up, conv, deleting, faults, saved, removing, deleted, outlived, named, everTorn>>

\* delete of the store, in memory.
Forget ==
  /\ At("forget") /\ Continue
  /\ conv' = [conv EXCEPT ![job.c] = None]
  /\ deleting' = deleting \ {job.c}
  /\ removing' = removing \cup {job.c}
  /\ named' = named \ {job.c}
  /\ UNCHANGED <<disk, up, run, active, faults, reported, saved, deleted, outlived, everTorn>>

\* rmSync takes the entries of the directory one by one, in any order.
RemoveFile ==
  LET c == job.c IN
  /\ At("remove") /\ ~Empty(c)
  /\ \/ meta[c].there /\ meta' = [meta EXCEPT ![c] = None] /\ UNCHANGED <<log, torn, pending, work>>
     \/ /\ log[c] # <<>> \/ torn[c]
        /\ log' = [log EXCEPT ![c] = <<>>] /\ torn' = [torn EXCEPT ![c] = FALSE]
        /\ UNCHANGED <<meta, pending, work>>
     \/ pending[c] # 0 /\ pending' = [pending EXCEPT ![c] = 0] /\ UNCHANGED <<meta, log, torn, work>>
     \/ work[c] /\ work' = [work EXCEPT ![c] = FALSE] /\ UNCHANGED <<meta, log, torn, pending>>
  /\ UNCHANGED <<up, memory, job, faults, history>>

Going(c) == \E r \in Run : run[r].st = "running" /\ run[r].c = c

\* The directory is gone, and the user is told so.
Removed ==
  /\ At("remove") /\ Empty(job.c) /\ Continue
  /\ deleted' = deleted \cup {job.c}
  /\ outlived' = IF Going(job.c) THEN outlived \cup {job.c} ELSE outlived
  /\ UNCHANGED <<disk, up, memory, faults, reported, saved, removing, named, everTorn>>

-----------------------------------------------------------------------------
(* Writes that throw, and the death of the process.                        *)

\* An append that is cut short tears the line, or writes nothing.
CutShort ==
  \/ UNCHANGED <<torn, everTorn>>
  \/ /\ job.todo # <<>> /\ Head(job.todo) \in {"user", "answer", "recover"}
     /\ torn' = [torn EXCEPT ![job.c] = TRUE]
     /\ everTorn' = everTorn \cup {job.c}

Dead ==
  /\ up' = "down" /\ job' = Idle /\ deleting' = {}
  /\ conv' = [c \in Conversation |-> None] /\ active' = [c \in Conversation |-> 0]
  /\ run' = [r \in Run |-> IF run[r].st = "unused" THEN NoRun ELSE [NoRun EXCEPT !.st = "gone", !.c = run[r].c]]

Crash ==
  /\ up # "down" /\ faults < MaxFaults
  /\ faults' = faults + 1
  /\ CutShort /\ Dead
  /\ UNCHANGED <<meta, log, pending, work, reported, saved, removing, deleted, outlived, named>>

\* What a run is after its handler threw.  Nothing is undone: once it is in
\* activeByConversation it stays there.
Thrown(r) ==
  [run[r] EXCEPT !.st = IF active'[job.c] = r THEN "stuck" ELSE "gone",
                 !.naming = @ /\ run[r].st = "running"]

\* The write of a handler throws.  createConversation deletes what it
\* created; a checkpoint that fails is only logged.
Throw ==
  /\ up = "serving" /\ faults < MaxFaults
  /\ job.todo # <<>> /\ Head(job.todo) \notin {"launch", "finish", "forget"}
  /\ (At("remove") => ~Empty(job.c))
  /\ faults' = faults + 1
  /\ CutShort
  /\ IF Head(job.todo) \in SaveStep THEN PrepareSave ELSE UNCHANGED <<conv, active>>
  /\ run' = IF job.op \in {"create", "start", "finalize"} /\ job.r # 0 /\ run[job.r].st # "unused"
              THEN [run EXCEPT ![job.r] = Thrown(job.r)] ELSE run
  /\ job' = IF job.op = "create" /\ Head(job.todo) \notin {"new", "remove"}
              THEN [job EXCEPT !.todo = DeleteSteps] ELSE [job EXCEPT !.todo = <<>>]
  /\ UNCHANGED <<meta, log, pending, work, up, deleting, reported, saved, removing, deleted, outlived, named>>

\* A write of init throws: the process does not start.
ThrowInit ==
  /\ up = "init" /\ faults < MaxFaults
  /\ job.todo # <<>>
  /\ faults' = faults + 1
  /\ CutShort /\ Dead
  /\ UNCHANGED <<meta, log, pending, work, reported, saved, removing, deleted, outlived, named>>

Boot ==
  /\ up = "down" /\ up' = "init"
  /\ UNCHANGED <<disk, memory, job, faults, history>>

Unloaded(c) == meta[c].there /\ ~conv[c].there

\* Mutation of LoadSteps: the checkpoint stays.
LoadWithoutClear(c) ==
  IF meta[c].activeRun = 0
    THEN IF pending[c] = 0 THEN <<>> ELSE <<"recover", "count">>
    ELSE IF pending[c] = 0 THEN <<"inactive">> ELSE <<"recover", "count", "inactive">>

LoadSteps(c) ==
  IF meta[c].activeRun = 0
    THEN IF pending[c] = 0 THEN <<>> ELSE <<"recover", "count", "clear">>
    ELSE IF pending[c] = 0 THEN <<"inactive">> ELSE <<"recover", "count", "clear", "inactive">>

\* init of the store: a conversation is read; a message that was pending is
\* appended as interrupted, and the conversation has no active run.
Load(c) ==
  /\ up = "init" /\ job.todo = <<>> /\ Unloaded(c)
  /\ conv' = [conv EXCEPT ![c] = meta[c]]
  /\ Begin("init", c, 0, LoadSteps(c))
  /\ UNCHANGED <<disk, up, run, active, deleting, faults, history>>

Serve ==
  /\ up = "init" /\ job.todo = <<>> /\ \A c \in Conversation : ~Unloaded(c)
  /\ up' = "serving"
  /\ UNCHANGED <<disk, memory, job, faults, history>>

-----------------------------------------------------------------------------
Step ==
  \/ AppendUser \/ AppendAnswer \/ AppendRecovered \/ Save \/ New \/ Launch
  \/ Checkpoint \/ Clear \/ Finish \/ Forget \/ RemoveFile \/ Removed

Restart == Boot \/ (\E c \in Conversation : Load(c)) \/ Serve

UserAction ==
  \/ \E c \in Conversation : \/ \E r \in Run : CreateConversation(c, r) \/ StartRun(c, r)
                             \/ Delete(c) \/ Rename(c)
  \/ \E r \in Run : Cancel(r)

Backend ==
  \E r \in Run : \/ Change(r) \/ WriteWork(r) \/ TitleReturns(r)
                 \/ \E result \in {"completed", "failed"} : BackendReturns(r, result)

Timer == (\E r \in Run : Persist(r)) \/ (\E c \in Conversation : DeleteTimesOut(c))

Fault == Crash \/ Throw \/ ThrowInit

Next == UserAction \/ Backend \/ Timer \/ Step \/ Fault \/ Restart

Spec == Init /\ [][Next]_vars

\* A handler that began goes on, the process is started again, a run that is
\* cancelled comes back from the backend, and the timer of a deletion fires.
\* The event loop takes the callbacks in the order they are due, so that one
\* that is due again and again between two handlers has its turn: SF.  A run
\* that is not cancelled need not end: it may wait for an approval.
Fairness ==
  /\ WF_vars(Step) /\ WF_vars(Restart)
  /\ \A r \in Run :
       SF_vars(run[r].aborted /\ \E result \in {"completed", "failed"} : BackendReturns(r, result))
  /\ \A c \in Conversation : SF_vars(DeleteTimesOut(c))

FairSpec == Spec /\ Fairness
-----------------------------------------------------------------------------
(* Properties.                                                             *)

\* The files, the memory and the handler have their types.
TypeOK ==
  LET Entry == [there : BOOLEAN, title : {"default", "fallback", "generated", "own"}, activeRun : Run \cup {0}]
      Message == [run : Run, role : {"user", "assistant"}, status : Outcome \cup {"interrupted"},
                  readable : BOOLEAN]
  IN
  /\ meta \in [Conversation -> Entry] /\ conv \in [Conversation -> Entry]
  /\ log \in [Conversation -> Seq(Message)] /\ torn \in [Conversation -> BOOLEAN]
  /\ work \in [Conversation -> BOOLEAN]
  /\ pending \in [Conversation -> Run \cup {0}] /\ active \in [Conversation -> Run \cup {0}]
  /\ run \in [Run -> [st : {"unused", "accepted", "running", "stuck", "done", "gone"}, c : Conversation,
                      aborted : BOOLEAN, dirty : BOOLEAN, final : Outcome, naming : BOOLEAN]]
  /\ up \in {"down", "init", "serving"} /\ deleting \subseteq Conversation
  /\ job.c \in Conversation /\ job.r \in Run \cup {0}
  /\ job.op \in {"none", "create", "start", "persist", "finalize", "rename", "name", "delete", "init"}

Answers(c, r) == {i \in DOMAIN log[c] : log[c][i].run = r /\ log[c][i].role = "assistant"}

\* A run whose end the clients were told has exactly one answer in the
\* conversation, readable and with that outcome, whatever failed or died
\* since: finalize appends before it reports, takes the checkpoint away
\* before it reports, and recovery does not repeat it.
ReportedIsStored ==
  \A r \in Run : LET c == run[r].c IN
    reported[r] # "no" /\ c \notin removing =>
      \E i \in DOMAIN log[c] :
        Answers(c, r) = {i} /\ log[c][i].readable /\ log[c][i].status = reported[r]

\* The messages of a conversation are in the order of its runs, those of a
\* run stand together behind its one user message: no second run gets into
\* the conversation before the first one is finished or recovered.
TranscriptInOrder ==
  \A c \in Conversation \ removing : \A i \in DOMAIN log[c] :
    LET m == log[c][i] IN
    IF m.role = "user"
      THEN \A j \in 1 .. i - 1 : log[c][j].run < m.run
      ELSE i > 1 /\ log[c][i - 1].run = m.run

\* An answer is repeated only by the recovery of its checkpoint, as an
\* interrupted message behind it.
RepeatedOnlyByRecovery ==
  \A c \in Conversation : \A r \in Run : \A i, j \in Answers(c, r) :
    i < j => log[c][j].status = "interrupted"

\* Between handlers a conversation that says it has an active run has it, for
\* finalize and the recovery clear the mark of every run that is over; a
\* checkpoint on disk is that of the active run, and a message that was
\* checkpointed is in the conversation once its run is over, unless a torn
\* line swallowed it.
CheckpointIsKept ==
  Free =>
    /\ \A c \in Conversation : conv[c].activeRun # 0 => active[c] = conv[c].activeRun
    /\ \A c \in Conversation : conv[c].there /\ pending[c] # 0 => active[c] = pending[c]
    /\ \A r \in saved : LET c == run[r].c IN
         ~Live(r) /\ c \notin removing \cup everTorn => \E i \in Answers(c, r) : log[c][i].readable

\* Runs of one conversation never overlap, even when one of them is stuck.
OneRunAtATime ==
  \A r, s \in Run : Live(r) /\ Live(s) /\ run[r].c = run[s].c => r = s

\* A conversation whose deletion was acknowledged does not come back: it is not
\* in memory, and no file of the store is there that a later start could load,
\* although its run may still be going after the wait timed out and has a
\* checkpoint, a title and an answer to store.  Only the session and the results
\* of such a run may be written again; a conversation whose run was over by then
\* leaves no file at all.
DeletedStaysDeleted ==
  \A c \in deleted :
    /\ ~conv[c].there /\ NotStored(c)
    /\ work[c] => c \in outlived

\* A title the user was told is set stays, on disk and in memory, until the
\* user names the conversation again: neither a generated title that comes
\* late nor a new run replaces it.
UserTitleIsKept ==
  \A c \in named : meta[c].title = "own" /\ (conv[c].there => conv[c].title = "own")

\* What a client asked to end does end: a cancelled run does not go on, it ends,
\* its process dies or its end could not be stored; and a deletion does not
\* wait forever, not even for a run that is stuck.
StoppingEnds ==
  /\ \A r \in Run : (run[r].st = "running" /\ run[r].aborted) ~> run[r].st # "running"
  /\ \A c \in Conversation : c \in deleting ~> c \notin deleting
=============================================================================
