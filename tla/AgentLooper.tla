----------------------------- MODULE AgentLooper -----------------------------
(***************************************************************************)
(* The agent loop of peco-core (agent/agent_looper.rs): `run` takes the    *)
(* user's messages off a channel, wraps up a cancelled or failed turn,     *)
(* starts a turn from the queued input, and advances the turn in flight by *)
(* one step of its ReAct cycle: request, response, tools, request, ...     *)
(* The loop owns a session (SessionOps) and writes it to a persister.      *)
(*                                                                         *)
(* One action is the stretch of code between two points where another task *)
(* can intervene: the user, who sends messages or drops the handle, the    *)
(* tool tasks, and the model.  Events and hooks that only observe are left *)
(* out; a hook that aborts or answers a call itself is a choice.           *)
(***************************************************************************)
EXTENDS SessionOps, SequencesExt

CONSTANTS
    UseStream,       \* ModelConfig.stream
    MaxIterations,   \* max_iterations: model calls in one turn
    RetryLimit,      \* LooperConfig.retry_limit
    PersistOnFailure,\* LooperConfig.persist_on_failure
    HooksIntervene,  \* hooks may abort a turn or answer a tool call
    SaveMayFail,     \* persister.save may return an error
    InflightMayFail, \* persister.save_inflight / delete_inflight may
    Heads,           \* what precedes the calls of a response
    MaxCalls,        \* bound on the calls of one response
    MaxInputs,       \* bound on the queries sent
    MaxControls,     \* bound on the other messages sent
    QueueCap,        \* bound on the channel (256 in the code)
    NoCheckpoint, NoResponse

ASSUME LooperAssumption ==
    /\ {UseStream, PersistOnFailure, HooksIntervene, SaveMayFail, InflightMayFail}
            \subseteq BOOLEAN
    /\ {MaxIterations, RetryLimit, MaxCalls, MaxInputs, MaxControls, QueueCap}
            \subseteq Nat
    /\ MaxInputs > 0   \* a session may be loaded with one in its queue
    /\ Heads \subseteq {"none", "text", "reasoning"}

VARIABLES
    session,  \* the Session the loop owns
    user,     \* what happens on the user's side:
              \*   queue    the channel: queries and control messages
              \*   queries, controls  how many were sent
              \*   closed   every speaker is dropped
              \*   dropped  the last OwnedTask is dropped
    loop,     \* the fields of AgentLooper that outlive a turn:
              \*   pc       where in an iteration of `run` the loop is
              \*   state    LooperState
              \*   armed    pending_armed
              \*   pause    pause_pending
              \*   cancel   the cancel_request latch
              \*   reason   failure_reason
    turn,     \* the state of the turn in flight:
              \*   iteration, retries, raised   the counters
              \*   text     assistant_text is not empty
              \*   response react_ctx.resolved
              \*   stream   active_stream is Some
              \*   tools    pending_tool_calls, with their tasks
              \*   spawned  active_tool_tasks is Some
    disk,     \* the persister: the session as last saved, the checkpoint
    seen      \* history: calls whose task panicked, a Pause heard in this turn

vars == <<session, user, loop, turn, disk, seen>>

-----------------------------------------------------------------------------
(* The values. *)

LooperState == {"Idle", "PreparingRequest", "Streaming", "ResolvingResponse",
                "ExecutingTools", "Done", "Failed",
                "PausedDuringTools", "PausedBeforeRequest"}
Paused == {"PausedDuringTools", "PausedBeforeRequest"}
Running == {"PreparingRequest", "Streaming", "ResolvingResponse", "ExecutingTools"}
Docked == Paused \cup {"Idle"}

\* TurnFailureReason, as far as the code tells the reasons apart.
Reason == {"none", "cancelled", "maxIterations", "other"}

Control == {"pause", "resume", "cancel", "shutdown"}
UserMsg == [kind: {"query"}, input: 1 .. MaxInputs] \cup [kind: Control, input: {0}]

\* "truncated" is Incomplete with MaxTokens, "cut" is Incomplete without a
\* finish reason; "failed" is every other status that is not Completed.
Status == {"completed", "truncated", "cut", "failed"}
Response == [status: Status, head: Heads, calls: Seq(CallIds)]

\* A PendingToolCall and its task in the JoinSet.
Tool == [call: CallIds, result: BOOLEAN,
         task: {"none", "running", "finished", "panicked"}]

FreshTurn == [iteration |-> 0, retries |-> 0, raised |-> FALSE, text |-> FALSE,
              response |-> NoResponse, stream |-> FALSE, tools |-> <<>>,
              spawned |-> FALSE]

\* A session is loaded with its queue (from_snapshot).
Init ==
    /\ session \in {NewSession, EnqueuePending(NewSession, 1)}
    /\ user = [queue |-> <<>>, queries |-> Len(session.pending), controls |-> 0,
               closed |-> FALSE, dropped |-> FALSE]
    /\ loop = [pc |-> "top", state |-> "Idle", armed |-> TRUE, pause |-> FALSE,
               cancel |-> FALSE, reason |-> "none"]
    /\ turn = FreshTurn
    /\ disk = [saved |-> session, checkpoint |-> NoCheckpoint]
    /\ seen = [panicked |-> {}, pause |-> FALSE]

-----------------------------------------------------------------------------
(* The persister: an error is logged and otherwise ignored. *)

SavedOver(s, old) == {s} \cup (IF SaveMayFail THEN {old} ELSE {})
Saves(s) == SavedOver(s, disk.saved)
InflightWrites(c) == {c} \cup (IF InflightMayFail THEN {disk.checkpoint} ELSE {})
Checkpoint(s) == [turn |-> s.turnIndex, staged |-> StagingAll(s)]

-----------------------------------------------------------------------------
(* The user. *)

HasRoom == ~user.closed /\ Len(user.queue) < QueueCap

SendQuery ==
    /\ HasRoom /\ user.queries < MaxInputs
    /\ user' = [user EXCEPT !.queries = @ + 1,
                            !.queue = Append(@, [kind |-> "query", input |-> user.queries + 1])]
    /\ UNCHANGED <<session, loop, turn, disk, seen>>

SendControl ==
    /\ HasRoom /\ user.controls < MaxControls
    /\ \E kind \in Control :
          user' = [user EXCEPT !.controls = @ + 1,
                               !.queue = Append(@, [kind |-> kind, input |-> 0])]
    /\ UNCHANGED <<session, loop, turn, disk, seen>>

\* The last handle goes: its speaker first, then the OwnedTask, whose drop sets
\* the latch from the user's thread.  A drop that finalize_cancel overwrites when
\* it resets the latch is a behaviour without DropTask.
CloseChannel ==
    /\ ~user.closed
    /\ user' = [user EXCEPT !.closed = TRUE]
    /\ UNCHANGED <<session, loop, turn, disk, seen>>

DropTask ==
    /\ user.closed /\ ~user.dropped
    /\ user' = [user EXCEPT !.dropped = TRUE]
    /\ loop' = [loop EXCEPT !.cancel = TRUE]
    /\ UNCHANGED <<session, turn, disk, seen>>

-----------------------------------------------------------------------------
(* Step 1 of an iteration: take messages.                                  *)

\* Faulty: the tasks of a batch, or its calls, are not let go of.
ClearContextKeepsTasks == [turn EXCEPT !.text = FALSE, !.response = NoResponse, !.stream = FALSE]
ClearContextKeepsCalls == [ClearContextKeepsTasks EXCEPT !.spawned = FALSE]

\* What the loop holds for the turn is dropped; the counters stay until the next
\* turn starts.
ClearContext == [turn EXCEPT !.text = FALSE, !.response = NoResponse,
                             !.stream = FALSE, !.tools = <<>>, !.spawned = FALSE]

\* Faulty: the queue is not looked at.
HasPendingWorkMissesQueue == loop.state \notin Docked \/ (loop.state = "Idle" /\ loop.cancel)

HasPendingWork ==
    \/ loop.state \notin Docked
    \/ loop.state = "Idle" /\ (loop.cancel \/ (loop.armed /\ HasPending(session)))

\* At "top" the loop blocks in recv unless it has work to do; once a message is
\* there, both recv_user_msgs and drain_user_msgs handle it and read on.
Take(kind) ==
    /\ loop.pc \in {"top", "drain"}
    /\ user.queue # <<>> /\ Head(user.queue).kind = kind
    /\ user' = [user EXCEPT !.queue = Tail(@)]

\* Faulty: only a query that finds the loop docked is armed.
TakeQueryWhenIdle ==
    /\ Take("query")
    /\ session' = EnqueuePending(session, Head(user.queue).input)
    /\ loop' = [loop EXCEPT !.pc = "drain", !.armed = @ \/ loop.state = "Idle"]
    /\ UNCHANGED <<turn, disk, seen>>

TakeQuery ==
    /\ Take("query")
    /\ session' = EnqueuePending(session, Head(user.queue).input)
    /\ loop' = [loop EXCEPT !.pc = "drain", !.armed = TRUE]
    /\ UNCHANGED <<turn, disk, seen>>

TakePause ==
    /\ Take("pause")
    /\ LET heard == loop.state \in Running
       IN  /\ loop' = [loop EXCEPT !.pc = "drain", !.pause = @ \/ heard]
           /\ seen' = [seen EXCEPT !.pause = @ \/ heard]
    /\ UNCHANGED <<session, turn, disk>>

ResumedState == IF loop.state = "PausedDuringTools" THEN "ExecutingTools"
                                                    ELSE "PreparingRequest"

TakeResume ==
    /\ Take("resume")
    /\ loop' = IF loop.state \in Paused
               THEN [loop EXCEPT !.pc = "drain", !.armed = TRUE, !.state = ResumedState]
               ELSE [loop EXCEPT !.pc = "drain", !.pause = FALSE]
    /\ UNCHANGED <<session, turn, disk, seen>>

\* StopReading: what follows in the channel stays there for now.
TakeCancel ==
    /\ Take("cancel")
    /\ loop' = [loop EXCEPT !.pc = "settle", !.cancel = TRUE]
    /\ UNCHANGED <<session, turn, disk, seen>>

\* The loop ends at once and is dropped with what it holds: the turn in flight
\* leaves no trace in the history, the rest of the channel goes unread.
TakeShutdown ==
    /\ loop.pc \in {"top", "drain"}
    /\ user.queue # <<>> /\ Head(user.queue).kind = "shutdown"
    /\ user' = [user EXCEPT !.queue = <<>>]
    /\ loop' = [loop EXCEPT !.pc = "exited", !.state = "Idle"]
    /\ turn' = ClearContext
    /\ UNCHANGED <<session, disk, seen>>

\* Step 1 is over: the channel is empty, or a Cancel stopped the reading.
ReadingOver ==
    \/ loop.pc = "settle"
    \/ user.queue = <<>> /\ (loop.pc = "drain" \/ (loop.pc = "top" /\ HasPendingWork))

-----------------------------------------------------------------------------
(* Step 2: wrap up the turn in flight, cancelled or failed.                *)

InFlight(s) == s.state # "Idle" \/ s.staged # <<>>

\* Appends several messages, numbered in their order.
StageItems(s, items) ==
    [s EXCEPT !.staged = @ \o [i \in DOMAIN items |->
                                [NewMessage(s, items[i].kind, items[i].call, <<>>)
                                    EXCEPT !.id = s.nextId + i - 1]],
              !.nextId = @ + Len(items)]

\* stage_tool_results: the calls that have a result, in the order of the calls.
StageToolResults(s, tools) ==
    LET answered == Retain(tools, {i \in DOMAIN tools : tools[i].result})
    IN  StageItems(s, [i \in DOMAIN answered |-> [kind |-> "output", call |-> answered[i].call]])

\* A turn that has nothing but the user's message is rolled back, the message
\* with it, unless a stub stands in for the response.
NeedsStub(s, reason) ==
    s.staged = <<>> /\ (turn.text \/ turn.retries > 0 \/ reason = "cancelled")

\* Faulty: the turn is frozen before the results are staged.
FreezeFirst(s, tools, reason, closing) ==
    LET stubbed == IF NeedsStub(s, reason) THEN Stage(s, "text", NoCall, <<>>) ELSE s
    IN  StageToolResults(InterruptTurn(stubbed, closing), tools)

\* plan_failure: stub, finished tool results, then the freeze.
Freeze(s, tools, reason, closing) ==
    LET stubbed == IF NeedsStub(s, reason) THEN Stage(s, "text", NoCall, <<>>) ELSE s
    IN  InterruptTurn(StageToolResults(stubbed, tools), closing)

\* abort_inflight_tools: results of tasks that have ended are kept.
Salvage(tools) ==
    [i \in DOMAIN tools |-> [tools[i] EXCEPT !.result = @ \/ tools[i].task = "finished"]]

CancelReason == IF InFlight(session) /\ loop.reason # "none" THEN loop.reason ELSE "cancelled"

\* finalize_cancel: a turn in flight is frozen and what is queued for it goes;
\* without one the queue is kept and saved, but no longer armed.
CancelTheTurn ==
    /\ IF InFlight(session)
       THEN /\ session' = Freeze(ClearPending(session), Salvage(turn.tools), CancelReason, FALSE)
            /\ \E saved \in Saves(session'), checkpoint \in InflightWrites(NoCheckpoint) :
                  disk' = [saved |-> saved, checkpoint |-> checkpoint]
       ELSE /\ session' = session
            /\ \E saved \in Saves(session) :
                  disk' = IF HasPending(session) THEN [disk EXCEPT !.saved = saved] ELSE disk
    /\ turn' = ClearContext

\* Faulty: the latch is not reset.
AfterCancelKeepsLatch(pc) ==
    [loop EXCEPT !.pc = pc, !.state = "Idle", !.armed = FALSE, !.pause = FALSE,
                 !.reason = CancelReason]

AfterCancel(pc) ==
    [loop EXCEPT !.pc = pc, !.state = "Idle", !.armed = FALSE, !.pause = FALSE,
                 !.cancel = FALSE, !.reason = CancelReason]

FinalizeCancel ==
    /\ ReadingOver /\ loop.cancel
    /\ CancelTheTurn
    /\ loop' = AfterCancel("top")
    /\ UNCHANGED <<user, seen>>

\* finalize_failure; only max_iterations asks for a closing report, which may
\* not come about.
FinalizeFailure ==
    /\ ReadingOver /\ ~loop.cancel /\ loop.state = "Failed"
    /\ LET reason == IF loop.reason = "none" THEN "other" ELSE loop.reason
       IN  /\ \E closing \in IF reason = "maxIterations" THEN BOOLEAN ELSE {FALSE} :
                 session' = Freeze(session, turn.tools, reason, closing)
           /\ loop' = [loop EXCEPT !.pc = "start", !.state = "Idle", !.pause = FALSE,
                                   !.reason = reason]
    /\ \E saved \in IF PersistOnFailure THEN Saves(session') ELSE {disk.saved},
          checkpoint \in InflightWrites(NoCheckpoint) :
            disk' = [saved |-> saved, checkpoint |-> checkpoint]
    /\ turn' = ClearContext
    /\ UNCHANGED <<user, seen>>

\* Faulty: a paused loop goes on waiting.
ChannelClosedIgnored ==
    /\ loop.pc = "top" /\ ~HasPendingWork
    /\ user.closed /\ user.queue = <<>>
    /\ IF loop.state \in Paused THEN UNCHANGED loop ELSE loop' = [loop EXCEPT !.pc = "exited"]
    /\ UNCHANGED <<session, turn, disk, user, seen>>

\* recv returned None: no message will come.  A paused turn is cancelled.
ChannelClosed ==
    /\ loop.pc = "top" /\ ~HasPendingWork
    /\ user.closed /\ user.queue = <<>>
    /\ IF loop.state \in Paused
       THEN CancelTheTurn /\ loop' = AfterCancel("exited")
       ELSE loop' = [loop EXCEPT !.pc = "exited"] /\ UNCHANGED <<session, turn, disk>>
    /\ UNCHANGED <<user, seen>>

-----------------------------------------------------------------------------
(* Steps 3 and 4: start a turn, or go on with the one in flight.           *)

SettledQuietly == ReadingOver /\ ~loop.cancel /\ loop.state # "Failed"

CanStart ==
    /\ loop.state = "Idle" /\ loop.armed
    /\ CanStartTurn(session) /\ HasPending(session)

Started == [loop EXCEPT !.pc = "react", !.state = "PreparingRequest",
                        !.armed = FALSE, !.pause = FALSE, !.reason = "none"]

StartTurnFromPending ==
    /\ (SettledQuietly \/ loop.pc = "start") /\ CanStart
    /\ session' = DequeueAndStartTurn(session)
    /\ loop' = Started
    /\ turn' = FreshTurn
    /\ seen' = [panicked |-> {}, pause |-> FALSE]
    /\ UNCHANGED <<user, disk>>

Dispatch ==
    /\ (SettledQuietly \/ loop.pc = "start") /\ ~CanStart
    /\ loop' = [loop EXCEPT !.pc = IF loop.state \in Docked THEN "top" ELSE "react"]
    /\ UNCHANGED <<session, user, turn, disk, seen>>

-----------------------------------------------------------------------------
(* Step 4: react_step, by state.                                           *)

Reacts(state) == loop.pc = "react" /\ loop.state = state
Go(state) == [loop EXCEPT !.pc = "top", !.state = state]
Fail(reason) == [loop EXCEPT !.pc = "top", !.state = "Failed", !.reason = reason]

CanRetry(truncated) ==
    /\ turn.retries < RetryLimit
    /\ ~loop.cancel
    /\ turn.iteration < MaxIterations
    /\ truncated => ~turn.raised

\* Faulty: what the failed attempt staged is left there.
BeginRetryOnTop(s, checkpoint, truncated) ==
    /\ session' = s
    /\ turn' = [turn EXCEPT !.retries = @ + 1, !.raised = @ \/ truncated,
                            !.text = FALSE, !.tools = <<>>, !.response = NoResponse,
                            !.stream = FALSE]
    /\ loop' = Go("PreparingRequest")

\* begin_retry: the staging area is taken back to what the request was made of.
BeginRetry(s, checkpoint, truncated) ==
    /\ session' = TruncateStaging(s, checkpoint)
    /\ turn' = [turn EXCEPT !.retries = @ + 1, !.raised = @ \/ truncated,
                            !.text = FALSE, !.tools = <<>>, !.response = NoResponse,
                            !.stream = FALSE]
    /\ loop' = Go("PreparingRequest")

\* A model call came to nothing, after it staged s and produced text or not.
RetryOrFail(s, text, checkpoint, truncated) ==
    IF CanRetry(truncated)
    THEN BeginRetry(s, checkpoint, truncated)
    ELSE /\ session' = s
         /\ turn' = [turn EXCEPT !.text = text, !.response = NoResponse, !.stream = FALSE]
         /\ loop' = Fail("other")

\* Landing point A of a pause.
PauseBeforeRequest ==
    /\ Reacts("PreparingRequest") /\ loop.pause
    /\ loop' = [Go("PausedBeforeRequest") EXCEPT !.pause = FALSE]
    /\ UNCHANGED <<session, user, turn, disk, seen>>

Prepares == Reacts("PreparingRequest") /\ ~loop.pause

\* The wait before a retry notices that the handle is gone.
BackoffInterrupted ==
    /\ Prepares /\ turn.retries > 0 /\ loop.cancel
    /\ loop' = Go("PreparingRequest")
    /\ UNCHANGED <<session, user, turn, disk, seen>>

\* Faulty: one call too many.
IterationsLeftLate == turn.iteration <= MaxIterations

IterationsLeft == turn.iteration < MaxIterations

ExceedIterations ==
    /\ Prepares /\ ~IterationsLeft
    /\ loop' = Fail("maxIterations")
    /\ UNCHANGED <<session, user, turn, disk, seen>>

\* Queued input joins the turn (steering); then the loop waits for the model.
SendRequest ==
    /\ Prepares /\ IterationsLeft
    /\ turn' = [turn EXCEPT !.iteration = @ + 1]
    /\ session' = DrainPendingIntoTurn(session)
    /\ \E checkpoint \in InflightWrites(Checkpoint(session')) :
          disk' = IF HasPending(session) THEN [disk EXCEPT !.checkpoint = checkpoint] ELSE disk
    /\ loop' = [loop EXCEPT !.pc = "request"]
    /\ UNCHANGED <<user, seen>>

\* Calls of a response carry ids that are new in the turn.
UsedIds == {StagingAll(session)[i].call : i \in DOMAIN StagingAll(session)}
Responses ==
    {r \in [status : Status, head : Heads,
            calls : UNION {Injection(1 .. n, CallIds \ UsedIds) : n \in 0 .. MaxCalls}] :
        r.status = "cut" => UseStream}

RequestAnswered ==
    /\ loop.pc = "request"
    /\ IF UseStream
       THEN loop' = Go("Streaming") /\ turn' = [turn EXCEPT !.stream = TRUE]
       ELSE /\ loop' = Go("ResolvingResponse")
            /\ \E r \in Responses : turn' = [turn EXCEPT !.response = r]
    /\ UNCHANGED <<session, user, disk, seen>>

\* A transient provider error may be retried ...
RequestFails ==
    /\ loop.pc = "request"
    /\ RetryOrFail(session, turn.text, Len(session.staged), FALSE)
    /\ UNCHANGED <<user, disk, seen>>

\* ... another one, or a hook that aborts the request, may not.
RequestRefused ==
    /\ loop.pc = "request"
    /\ loop' = Fail("other")
    /\ UNCHANGED <<session, user, turn, disk, seen>>

\* consume_stream_chunk.  Within STEP_POLL nothing comes, or nothing that matters.
StreamQuiet ==
    /\ Reacts("Streaming")
    /\ loop' = Go("Streaming")
    /\ UNCHANGED <<session, user, turn, disk, seen>>

StreamText ==
    /\ Reacts("Streaming") /\ "text" \in Heads
    /\ turn' = [turn EXCEPT !.text = TRUE]
    /\ loop' = Go("Streaming")
    /\ UNCHANGED <<session, user, disk, seen>>

\* complete_stream
StreamEnds ==
    /\ Reacts("Streaming")
    /\ \E r \in Responses : turn' = [turn EXCEPT !.response = r, !.stream = FALSE]
    /\ loop' = Go("ResolvingResponse")
    /\ UNCHANGED <<session, user, disk, seen>>

StreamBreaks ==
    /\ Reacts("Streaming")
    /\ RetryOrFail(session, turn.text, Len(session.staged), FALSE)
    /\ UNCHANGED <<user, disk, seen>>

\* A permanent error, or on_text_delta aborts.
StreamRefused ==
    /\ Reacts("Streaming")
    /\ turn' = [turn EXCEPT !.stream = FALSE]
    /\ loop' = Fail("other")
    /\ UNCHANGED <<session, user, disk, seen>>

\* stage_output_blocks
Blocks(r) ==
    (IF r.head = "none" THEN <<>> ELSE <<[kind |-> r.head, call |-> NoCall]>>)
        \o [i \in DOMAIN r.calls |-> [kind |-> "call", call |-> r.calls[i]]]

\* resolve_response; the anchor of a retry is taken before anything is staged.
ResolveResponse ==
    /\ Reacts("ResolvingResponse")
    /\ LET r == turn.response
           staged == StageItems(session, Blocks(r))
           text == turn.text \/ r.head = "text"
           calls == [i \in DOMAIN r.calls |->
                        [call |-> r.calls[i], result |-> FALSE, task |-> "none"]]
       IN  IF r.status = "completed"
           THEN /\ session' = staged
                /\ turn' = [turn EXCEPT !.text = text, !.response = NoResponse,
                                        !.tools = IF calls = <<>> THEN @ ELSE calls]
                /\ loop' = Go(IF calls = <<>> THEN "Done" ELSE "ExecutingTools")
           ELSE IF r.status = "failed"
           THEN /\ session' = staged
                /\ turn' = [turn EXCEPT !.text = text, !.response = NoResponse]
                /\ loop' = Fail("other")
           ELSE RetryOrFail(staged, text, Len(session.staged), r.status = "truncated")
    /\ UNCHANGED <<user, disk, seen>>

\* on_after_response aborts: the response is lost.
ResponseRefused ==
    /\ Reacts("ResolvingResponse") /\ HooksIntervene
    /\ turn' = [turn EXCEPT !.response = NoResponse]
    /\ loop' = Fail("other")
    /\ UNCHANGED <<session, user, disk, seen>>

-----------------------------------------------------------------------------
(* Step 4: the tools.                                                      *)

\* Landing point B of a pause: only before the tasks are spawned.
PauseBeforeTools ==
    /\ Reacts("ExecutingTools") /\ loop.pause /\ ~turn.spawned
    /\ loop' = [Go("PausedDuringTools") EXCEPT !.pause = FALSE]
    /\ UNCHANGED <<session, user, turn, disk, seen>>

\* finish_tool_execution: what has no result by now gets no output.
FinishTools(tools) ==
    /\ session' = StageToolResults(session, tools)
    /\ \E checkpoint \in InflightWrites(Checkpoint(session')) :
          disk' = [disk EXCEPT !.checkpoint = checkpoint]
    /\ turn' = ClearContext
    /\ loop' = Go("PreparingRequest")

Unresolved == {i \in DOMAIN turn.tools : ~turn.tools[i].result}

\* on_before_tool overrides or rejects the calls in `settled`.
Settle(settled) ==
    [i \in DOMAIN turn.tools |-> [turn.tools[i] EXCEPT !.result = @ \/ i \in settled]]

Spawns == Reacts("ExecutingTools") /\ ~turn.spawned /\ ~loop.pause

SpawnTools ==
    /\ Spawns
    /\ \E settled \in IF HooksIntervene THEN SUBSET Unresolved ELSE {{}} :
          LET spawned == Unresolved \ settled
          IN  IF spawned = {}
              THEN FinishTools(Settle(settled))
              ELSE /\ turn' = [turn EXCEPT !.spawned = TRUE,
                                  !.tools = [i \in DOMAIN @ |->
                                      [Settle(settled)[i] EXCEPT !.task =
                                          IF i \in spawned THEN "running" ELSE "none"]]]
                   /\ loop' = Go("ExecutingTools")
                   /\ UNCHANGED <<session, disk>>
    /\ UNCHANGED <<user, seen>>

\* on_before_tool aborts at some call, after it answered others before it.
ToolRefused ==
    /\ Spawns /\ HooksIntervene
    /\ \E last \in Unresolved :
          \E settled \in SUBSET {i \in Unresolved : i < last} :
              turn' = [turn EXCEPT !.tools = Settle(settled)]
    /\ loop' = Fail("other")
    /\ UNCHANGED <<session, user, disk, seen>>

\* A tool task ends, whatever the loop is doing.
TaskEnds(i) ==
    /\ loop.pc # "exited" /\ i \in DOMAIN turn.tools /\ turn.tools[i].task = "running"
    /\ \E outcome \in {"finished", "panicked"} :
          /\ turn' = [turn EXCEPT !.tools[i].task = outcome]
          /\ seen' = IF outcome = "panicked"
                     THEN [seen EXCEPT !.panicked = @ \cup {turn.tools[i].call}] ELSE seen
    /\ UNCHANGED <<session, user, loop, disk>>

Tasks(status) == {i \in DOMAIN turn.tools : turn.tools[i].task \in status}
Polls == Reacts("ExecutingTools") /\ turn.spawned

\* A result is joined, and with it every task that has ended; the batch is
\* over when the JoinSet is empty.
CollectResults ==
    /\ Polls /\ Tasks({"finished"}) # {}
    /\ LET joined == [i \in DOMAIN turn.tools |->
                        IF turn.tools[i].task = "finished"
                        THEN [turn.tools[i] EXCEPT !.result = TRUE, !.task = "none"]
                        ELSE IF turn.tools[i].task = "panicked"
                        THEN [turn.tools[i] EXCEPT !.task = "none"]
                        ELSE turn.tools[i]]
       IN  IF Tasks({"running"}) = {}
           THEN FinishTools(joined)
           ELSE /\ turn' = [turn EXCEPT !.tools = joined]
                /\ loop' = Go("ExecutingTools")
                /\ UNCHANGED <<session, disk>>
    /\ UNCHANGED <<user, seen>>

\* A task that panicked is joined first: it leaves, nothing else happens.
CollectPanic ==
    /\ Polls
    /\ \E i \in Tasks({"panicked"}) : turn' = [turn EXCEPT !.tools[i].task = "none"]
    /\ loop' = Go("ExecutingTools")
    /\ UNCHANGED <<session, user, disk, seen>>

\* The JoinSet is empty (join_next returns None).
BatchOver ==
    /\ Polls /\ Tasks({"running", "finished", "panicked"}) = {}
    /\ FinishTools(turn.tools)
    /\ UNCHANGED <<user, seen>>

PollQuiet ==
    /\ Polls
    /\ Tasks({"running"}) # {} /\ Tasks({"finished", "panicked"}) = {}
    /\ loop' = Go("ExecutingTools")
    /\ UNCHANGED <<session, user, turn, disk, seen>>

-----------------------------------------------------------------------------
(* Step 4: the end of a turn.                                              *)

\* What a strip makes of the history, by policy.
Stripped(s) ==
    {s} \cup {StripStaleContent(s, keep) : keep \in 0 .. Len(s.committed)}

\* What apply_boundary of agent/compaction.rs may do to the history, by policy: a
\* strip, a fold of all but the newest turns, one after the other.
Boundaries(s) ==
    Stripped(s) \cup
        {Compact(t, count) : t \in Stripped(s), count \in 1 .. Len(s.committed) - 1}

\* apply_boundary returns an error when the summariser fails, which it may be asked
\* for as soon as there is a turn to evict; it has stripped in place by then.
FoldFails(committed, boundary) ==
    Len(committed.committed) > 1 /\ boundary \in Stripped(committed)

\* Faulty: what a compaction did is not saved.
ResavedNot(committed, boundary, saved) == {saved}

\* What the compaction changed is saved if it returned Ok.
Resaved(committed, boundary, saved) ==
    (IF boundary = committed THEN {saved} ELSE SavedOver(boundary, saved))
        \cup (IF FoldFails(committed, boundary) THEN {saved} ELSE {})

\* Commit, save, drop the checkpoint, compact, save again if that changed
\* anything and did not fail.
CommitDone ==
    /\ Reacts("Done")
    /\ LET committed == CommitTurn(session)
       IN  \E boundary \in Boundaries(committed),
              saved \in Saves(committed),
              checkpoint \in InflightWrites(NoCheckpoint) :
                /\ session' = boundary
                /\ disk' \in {[saved |-> last, checkpoint |-> checkpoint] :
                                last \in Resaved(committed, boundary, saved)}
    /\ turn' = [turn EXCEPT !.text = FALSE]
    /\ loop' = [Go("Idle") EXCEPT !.reason = "none"]
    /\ UNCHANGED <<user, seen>>

-----------------------------------------------------------------------------

Environment == SendQuery \/ SendControl \/ CloseChannel \/ DropTask

Messages == TakeQuery \/ TakePause \/ TakeResume \/ TakeCancel \/ TakeShutdown

Finalize == FinalizeCancel \/ FinalizeFailure \/ ChannelClosed

React ==
    \/ PauseBeforeRequest \/ BackoffInterrupted \/ ExceedIterations \/ SendRequest
    \/ RequestAnswered \/ RequestFails \/ RequestRefused
    \/ StreamQuiet \/ StreamText \/ StreamEnds \/ StreamBreaks \/ StreamRefused
    \/ ResolveResponse \/ ResponseRefused
    \/ PauseBeforeTools \/ SpawnTools \/ ToolRefused
    \/ CollectResults \/ CollectPanic \/ BatchOver \/ PollQuiet
    \/ CommitDone

Run == Messages \/ Finalize \/ StartTurnFromPending \/ Dispatch \/ React

\* The loop has returned.
Exited == loop.pc = "exited" /\ UNCHANGED vars

Next == Environment \/ Run \/ (\E i \in 1 .. MaxCalls : TaskEnds(i)) \/ Exited

Spec == Init /\ [][Next]_vars

\* The runtime schedules the loop; a provider answers, fails or runs into the
\* client's timeout; a tool returns.  Nothing is asked of the user.
Fairness ==
    /\ WF_vars(Run)
    /\ SF_vars(StreamEnds \/ StreamBreaks \/ StreamRefused)
    /\ \A i \in 1 .. MaxCalls : WF_vars(TaskEnds(i))

FairSpec == Spec /\ Fairness

-----------------------------------------------------------------------------
(* Properties. *)

\* Every variable has its type.
TypeOK ==
    /\ session \in Session
    /\ user \in [queue : Seq(UserMsg), queries : 0 .. MaxInputs, controls : 0 .. MaxControls,
                 closed : BOOLEAN, dropped : BOOLEAN]
    /\ loop \in [pc : {"top", "drain", "settle", "start", "react", "request", "exited"},
                 state : LooperState, armed : BOOLEAN, pause : BOOLEAN,
                 cancel : BOOLEAN, reason : Reason]
    /\ turn \in [iteration : 0 .. MaxIterations, retries : 0 .. RetryLimit, raised : BOOLEAN,
                 text : BOOLEAN, response : Response \cup {NoResponse}, stream : BOOLEAN,
                 tools : Seq(Tool), spawned : BOOLEAN]
    /\ disk \in [saved : Session,
                 checkpoint : [turn : Nat, staged : Seq(Message)] \cup {NoCheckpoint}]
    /\ seen \in [panicked : SUBSET CallIds, pause : BOOLEAN]

\* What is queued during a turn is armed, so that step 3 takes it up if the turn
\* ends before another request does.
QueuedIsArmed == loop.state # "Idle" /\ HasPending(session) => loop.armed

\* A turn that ends well carries no failure over from another one
\* (debug_assert in the Done branch), and is paused only if it was asked to be:
\* the intention to pause does not outlive its turn.
TurnsAreIndependent ==
    /\ loop.state = "Done" => loop.reason = "none"
    /\ loop.state \in Paused => seen.pause

\* The loop is docked at Idle exactly when the session is: otherwise run would
\* spin (work to do that step 3 refuses) or leave a turn in flight unattended;
\* what the session has queued in a turn, the loop knows of; and what the loop
\* remembers of a turn is of the turn the session has.
StatesAgree ==
    /\ loop.pc # "exited" =>
          /\ loop.state = "Idle" <=> session.state = "Idle"
          /\ loop.state # "Idle" <=> session.state = "Active"
          /\ QueuedIsArmed
    /\ TurnsAreIndependent

\* No state in which the loop may block for long holds a live connection or
\* tasks; the tasks belong to ExecutingTools alone (agent_looper.rs, cancel).
DockedHoldsNothing ==
    /\ turn.stream <=> loop.state = "Streaming"
    /\ turn.spawned => loop.state = "ExecutingTools"
    /\ Tasks({"running", "finished", "panicked"}) # {} => turn.spawned
    /\ loop.state = "Idle" => turn.tools = <<>>

\* In every turn an output comes after its call, and a call has one output at
\* most, whatever was retried, cancelled, salvaged or answered by a hook: no
\* result is staged twice, none reaches another turn.
OutputsMatchCalls ==
    \A p \in DOMAIN Turns(session) :
        LET T == Turns(session)[p]
            Of(kind) == {i \in DOMAIN T : T[i].kind = kind}
        IN  /\ \A i \in Of("output") : \E j \in Of("call") : j < i /\ T[j].call = T[i].call
            /\ \A i, j \in Of("output") : T[i].call = T[j].call => i = j

DanglingCalls == {session.staged[i].call : i \in Dangling(session)}
RequestIsOut == loop.pc = "request" \/ loop.state \in {"Streaming", "ResolvingResponse"}

\* A request is never sent with a call that has no output, except for one whose
\* task panicked: nothing a retry discarded, nothing a pause left behind.
RequestsAreAnswered == RequestIsOut => DanglingCalls \subseteq seen.panicked

\* The same without that exception, as patch_dangling_tool_calls (session.rs) has
\* it: every call must be paired, or the provider rejects the request.
EveryCallIsPaired == RequestIsOut => DanglingCalls = {}

\* The checkpoint on disk is a prefix of the turn it was taken in, retries and
\* steering notwithstanding; once the turn is over its number is behind that of
\* the session, so that a row which could not be deleted is taken for stale.
CheckpointIsExact ==
    loop.pc # "exited" /\ disk.checkpoint # NoCheckpoint =>
        IF disk.checkpoint.turn = session.turnIndex
        THEN loop.state # "Idle" /\ IsPrefix(disk.checkpoint.staged, StagingAll(session))
        ELSE disk.checkpoint.turn < session.turnIndex

\* What is saved holds the history of s, or what s has it stripped of as well.
HoldsHistory(saved, s) ==
    \E h \in Stripped(saved) :
        h.committed = s.committed /\ h.pinned = s.pinned /\ h.turnIndex = s.turnIndex

\* Every write goes well, and a turn that failed is written too.
WritesHold == ~SaveMayFail /\ PersistOnFailure

\* Whenever the loop is docked at Idle the disk has the history of the session: no
\* turn ends, is closed by a notice or is folded away without being saved.  All it
\* may be behind in is a strip: mutated() of agent/compaction.rs would have it saved as
\* well, and it is not if the fold behind it fails (FoldFails).
HistoryIsSaved ==
    WritesHold /\ loop.pc # "exited" /\ loop.state = "Idle" =>
        HoldsHistory(disk.saved, session)

\* The session the loop leaves behind keeps what Session promises.
SessionIsSound == Sound(session, user.queries) /\ TurnNumbersIncrease(session)

\* A cancellation takes effect, whatever the tools and the user do.
CancelTakesEffect ==
    loop.cancel ~> (loop.pc = "exited" \/ (loop.state = "Idle" /\ ~loop.cancel))

\* Input queued while it should run is taken up, unless the turn is paused, or a
\* Cancel disarms it, or the loop ends.
QueuedInputRuns ==
    (loop.armed /\ HasPending(session)) ~>
        (~HasPending(session) \/ ~loop.armed \/ loop.state \in Paused \/ loop.pc = "exited")

\* Once the channel is closed the loop ends by itself, also when it is paused.
LoopEnds == user.closed ~> loop.pc = "exited"
=============================================================================
