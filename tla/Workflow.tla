------------------------------ MODULE Workflow ------------------------------
(***************************************************************************)
(* One run of a workflow: the engine (peco-core/src/workflow/engine.rs),   *)
(* the tasks of its steps, the handle (handle.rs) and the task that owns   *)
(* it in the server and serves the users (peco-server/src/workflow/        *)
(* active.rs).                                                             *)
(*                                                                         *)
(* A step of the model ends where the code awaits.  Which step of a level  *)
(* is collected next is left open; the code takes them in one order.       *)
(***************************************************************************)
EXTENDS Naturals, Sequences, FiniteSets

CONSTANTS
    Steps,          \* the steps of the workflow
    Missing,        \* an id that is no step
    Definitions,    \* the definitions that are tried
    MaxRequests,    \* bound on the decisions and cancellations of the users
    EventCap        \* event_buffer, 64 in the code

\* What of a WorkflowDefinition the engine looks at; inputs says whether the
\* inputs of the run are valid.
Definition ==
    [dependsOn : [Steps -> SUBSET (Steps \cup {Missing})],
     onFailure : [Steps -> {"abort", "pause", "continue"}],
     conditional : SUBSET Steps, timeout : BOOLEAN, inputs : BOOLEAN]

ASSUME WorkflowAssumption ==
    /\ IsFiniteSet(Steps) /\ Missing \notin Steps
    /\ Definitions \subseteq Definition
    /\ MaxRequests \in Nat /\ EventCap \in Nat \ {0}

VARIABLES
    definition,
    engine,     \* pc, the steps of the levels that are done, the steps not collected yet,
                \* the one waited for, aborted, the event to send and what follows it,
                \* whether the deadline is over
    tasks,      \* per step: its task
    results,    \* step_results: "none" for a step that has none
    saved,      \* the last snapshot: its state, its results, and current_level, as the
                \* steps of the levels that are done
    events,     \* the event channel
    handle,     \* the cancel flag, the approval channel, whether the handle exists
    forwarder,  \* the task that owns the handle, whether its entry is registered, its
                \* control channel, and the last lifecycle event it broadcast
    requests    \* how many requests the users made

vars == <<definition, engine, tasks, results, saved, events, handle, forwarder, requests>>

-----------------------------------------------------------------------------
(* dag.rs: the levels. *)

Unresolved(s, done) == definition.dependsOn[s] \ done

\* Faulty: a dependency that is gone is not counted for the others.
ReleasedByAny(s, done) ==
    \/ definition.dependsOn[s] = {} \/ definition.dependsOn[s] \cap done # {}

\* in_degree has come down to zero.
Released(s, done) == Cardinality(Unresolved(s, done)) = 0

\* The steps that are released once the steps of the levels before are done.
NextLevel(done) == {s \in Steps \ done : Released(s, done)}

\* The steps Kahn's algorithm gets to.
Placed ==
    LET placed[n \in 0 .. Cardinality(Steps)] ==
            IF n = 0 THEN {} ELSE placed[n - 1] \cup NextLevel(placed[n - 1])
    IN  placed[Cardinality(Steps)]

\* Faulty: only a graph without an entry node is turned down.
BuildsOnEntry == \E s \in Steps : definition.dependsOn[s] = {}

\* DagGraph::build: no unknown dependency, no self-dependency, no node left over.
Builds ==
    /\ \A s \in Steps : definition.dependsOn[s] \subseteq Steps \ {s}
    /\ Placed = Steps

-----------------------------------------------------------------------------
(* The values. *)

Terminal == {"Completed", "Failed", "Cancelled", "TimedOut"}
Lifecycle == {"Started", "Paused", "Resumed"} \cup Terminal
StepEvent == "step"

NoStep == Missing
NoEvent == "none"

Snapshot(state, done) == [state |-> state, done |-> done, results |-> results]

Init ==
    /\ definition \in Definitions
    /\ engine = [pc |-> "validating", done |-> {}, remaining |-> {}, awaited |-> NoStep,
                 aborted |-> FALSE, event |-> NoEvent, next |-> "none", late |-> FALSE]
    /\ tasks = [s \in Steps |-> "none"]
    /\ results = [s \in Steps |-> "none"]
    /\ saved = [state |-> "none", done |-> {}, results |-> [s \in Steps |-> "none"]]
    /\ events = <<>>
    /\ handle = [cancel |-> FALSE, approvals |-> <<>>, open |-> TRUE]
    /\ forwarder = [pc |-> "listening", entry |-> TRUE, control |-> <<>>, told |-> NoEvent]
    /\ requests = 0

\* send_event_await comes next, then the engine goes on at pc.
Sending(event, pc) == [engine EXCEPT !.pc = "sending", !.event = event, !.next = pc]

\* try_send: n step events, as far as there is room and a receiver.
Offered(n) ==
    IF ~handle.open THEN events
    ELSE events \o [i \in 1 .. (IF n <= EventCap - Len(events) THEN n ELSE EventCap - Len(events))
                        |-> StepEvent]

Abort(doomed) == [s \in Steps |-> IF s \in doomed /\ tasks[s] = "running" THEN "aborted" ELSE tasks[s]]

\* Faulty: a lifecycle event is offered like the event of a step.
SendLifecycleOffered ==
    /\ engine.pc = "sending"
    /\ events' = IF handle.open /\ Len(events) < EventCap THEN Append(events, engine.event) ELSE events
    /\ engine' = [engine EXCEPT !.pc = engine.next, !.event = NoEvent]
    /\ UNCHANGED <<definition, tasks, results, saved, handle, forwarder, requests>>

\* The send waits for room; without a receiver the event is lost.
SendLifecycle ==
    /\ engine.pc = "sending"
    /\ \/ handle.open /\ Len(events) < EventCap /\ events' = Append(events, engine.event)
       \/ ~handle.open /\ UNCHANGED events
    /\ engine' = [engine EXCEPT !.pc = engine.next, !.event = NoEvent]
    /\ UNCHANGED <<definition, tasks, results, saved, handle, forwarder, requests>>

-----------------------------------------------------------------------------
(* WorkflowEngine::run. *)

\* Steps 0 to 3.
Validate ==
    /\ engine.pc = "validating"
    /\ IF definition.inputs /\ Builds
       THEN engine' = Sending("Started", "level") /\ UNCHANGED saved
       ELSE engine' = Sending("Failed", "ended") /\ saved' = Snapshot("Failed", {})
    /\ UNCHANGED <<definition, tasks, results, events, handle, forwarder, requests>>

\* The budget counts everything but the wait for a decision.
DeadlinePasses ==
    /\ definition.timeout /\ ~engine.late /\ engine.pc \notin {"validating", "paused", "ended"}
    /\ engine' = [engine EXCEPT !.late = TRUE]
    /\ UNCHANGED <<definition, tasks, results, saved, events, handle, forwarder, requests>>

\* fail_timeout.
TimeOut ==
    /\ engine' = [Sending("TimedOut", "ended") EXCEPT !.remaining = {}, !.awaited = NoStep]
    /\ saved' = Snapshot("TimedOut", engine.done)

\* Steps 4 and 5: the next level, or the end.
StartLevel ==
    /\ engine.pc = "level" /\ engine.done # Steps
    /\ \/ /\ handle.cancel
          /\ engine' = Sending("Cancelled", "ended")
          /\ UNCHANGED <<tasks, results, saved, events>>
       \/ /\ ~handle.cancel /\ engine.late
          /\ TimeOut
          /\ UNCHANGED <<tasks, results, events>>
       \/ /\ ~handle.cancel /\ ~engine.late
          /\ LET level == NextLevel(engine.done)
             IN  /\ \E skipped \in SUBSET (level \cap definition.conditional) :
                       /\ results' = [s \in Steps |-> IF s \in skipped THEN "skipped" ELSE results[s]]
                       /\ tasks' = [s \in Steps |-> IF s \in level \ skipped THEN "running" ELSE tasks[s]]
                       /\ engine' = [engine EXCEPT !.pc = "collecting", !.remaining = level \ skipped]
                 /\ events' = Offered(Cardinality(level))
          /\ UNCHANGED saved
    /\ UNCHANGED <<definition, handle, forwarder, requests>>

Complete ==
    /\ engine.pc = "level" /\ engine.done = Steps
    /\ engine' = Sending("Completed", "ended")
    /\ saved' = Snapshot("Completed", engine.done)
    /\ UNCHANGED <<definition, tasks, results, events, handle, forwarder, requests>>

\* Step 4c: the next step of the level is waited for, or given up.
CollectNext ==
    /\ engine.pc = "collecting"
    /\ \E s \in engine.remaining :
          IF engine.aborted \/ handle.cancel
          THEN /\ tasks' = Abort({s})
               /\ engine' = [engine EXCEPT !.remaining = @ \ {s}]
          ELSE /\ engine' = [engine EXCEPT !.remaining = @ \ {s}, !.awaited = s, !.pc = "waiting"]
               /\ UNCHANGED tasks
    /\ UNCHANGED <<definition, results, saved, events, handle, forwarder, requests>>

\* Step 4d and the end of the level.
EndLevel ==
    /\ engine.pc = "collecting" /\ engine.remaining = {}
    /\ IF engine.aborted
       THEN /\ engine' = [engine EXCEPT !.pc = "ended"]
            /\ saved' = Snapshot("Failed", engine.done)
       ELSE /\ engine' = [engine EXCEPT !.pc = "level", !.done = @ \cup NextLevel(@)]
            /\ saved' = Snapshot("Running", engine.done \cup NextLevel(engine.done))
    /\ UNCHANGED <<definition, tasks, results, events, handle, forwarder, requests>>

Record(s, result) == results' = [results EXCEPT ![s] = result]

Done == [engine EXCEPT !.pc = "collecting", !.awaited = NoStep]

\* The task waited for is over: its result is recorded, unless it panicked; a
\* failure does what the step's policy says.
TakeResult ==
    LET s == engine.awaited
    IN  /\ engine.pc = "waiting" /\ tasks[s] \in {"success", "failed", "panicked"}
        /\ \/ /\ tasks[s] = "panicked"
              /\ engine' = Done
              /\ UNCHANGED <<results, events>>
           \/ /\ \/ tasks[s] = "success"
                 \/ tasks[s] = "failed" /\ definition.onFailure[s] = "continue"
              /\ Record(s, tasks[s])
              /\ engine' = Done
              /\ events' = Offered(1)
           \/ /\ tasks[s] = "failed" /\ definition.onFailure[s] = "abort"
              /\ Record(s, "failed")
              /\ engine' = [Sending("Failed", "collecting") EXCEPT !.aborted = TRUE, !.awaited = NoStep]
              /\ events' = Offered(1)
           \/ /\ tasks[s] = "failed" /\ definition.onFailure[s] = "pause"
              /\ engine' = Sending("Paused", "pausing")
              /\ events' = Offered(1)
              /\ UNCHANGED results
        /\ UNCHANGED <<definition, tasks, saved, handle, forwarder, requests>>

\* The deadline is over while a step is waited for, done or not.
TimeOutWaiting ==
    /\ engine.pc = "waiting" /\ engine.late
    /\ tasks' = Abort(engine.remaining \cup {engine.awaited})
    /\ TimeOut
    /\ UNCHANGED <<definition, results, events, handle, forwarder, requests>>

\* Faulty: the level that is paused counts as done.
SavePauseCountsLevel ==
    /\ engine.pc = "pausing"
    /\ \/ saved' = Snapshot("Paused", engine.done \cup NextLevel(engine.done)) /\ engine' = [engine EXCEPT !.pc = "paused"]
       \/ engine' = Sending("Failed", "dropping") /\ UNCHANGED saved
    /\ UNCHANGED <<definition, tasks, results, events, handle, forwarder, requests>>

\* The snapshot of the pause; a run that cannot save it fails.
SavePause ==
    /\ engine.pc = "pausing"
    /\ \/ saved' = Snapshot("Paused", engine.done) /\ engine' = [engine EXCEPT !.pc = "paused"]
       \/ engine' = Sending("Failed", "dropping") /\ UNCHANGED saved
    /\ UNCHANGED <<definition, tasks, results, events, handle, forwarder, requests>>

\* Faulty: the engine finds its channel open when the handle is gone.
NobodyDecidesWaits == FALSE

\* The last sender of approvals is gone.
NobodyDecides == ~handle.open /\ handle.approvals = <<>>

\* approval_rx.recv(), which looks at neither the cancel flag nor the deadline.
Decided ==
    /\ engine.pc = "paused"
    /\ \/ /\ NobodyDecides
          /\ engine' = Sending("Failed", "dropping")
          /\ UNCHANGED <<results, handle>>
       \/ /\ handle.approvals # <<>>
          /\ handle' = [handle EXCEPT !.approvals = Tail(@)]
          /\ IF Head(handle.approvals).proceed
             THEN /\ Record(engine.awaited, "failed")
                  /\ engine' = [Sending("Resumed", "collecting") EXCEPT !.awaited = NoStep]
             ELSE engine' = Sending("Failed", "dropping") /\ UNCHANGED results
    /\ UNCHANGED <<definition, tasks, saved, events, forwarder, requests>>

\* A run that fails at a pause gives up what is left of the level.
DropRemaining ==
    /\ engine.pc = "dropping"
    /\ tasks' = Abort(engine.remaining)
    /\ engine' = [engine EXCEPT !.pc = "ended", !.remaining = {}, !.awaited = NoStep]
    /\ UNCHANGED <<definition, results, saved, events, handle, forwarder, requests>>

\* execute_step_static returns, by its end or its own timeout, or panics.
TaskEnds(s) ==
    /\ tasks[s] = "running"
    /\ \E outcome \in {"success", "failed", "panicked"} : tasks' = [tasks EXCEPT ![s] = outcome]
    /\ UNCHANGED <<definition, engine, results, saved, events, handle, forwarder, requests>>

-----------------------------------------------------------------------------
(* active.rs: the users and the task that forwards the events.             *)

\* cancel_run.
CancelRun ==
    /\ requests < MaxRequests /\ forwarder.entry
    /\ forwarder' = [forwarder EXCEPT !.entry = FALSE,
                                      !.control = Append(@, [kind |-> "cancel"])]
    /\ requests' = requests + 1
    /\ UNCHANGED <<definition, engine, tasks, results, saved, events, handle>>

\* approve_run.
ApproveRun ==
    /\ requests < MaxRequests /\ forwarder.entry
    /\ \E proceed \in BOOLEAN :
          forwarder' = [forwarder EXCEPT !.control =
                           Append(@, [kind |-> "approve", proceed |-> proceed])]
    /\ requests' = requests + 1
    /\ UNCHANGED <<definition, engine, tasks, results, saved, events, handle>>

\* The event is broadcast; a pause waits for a decision, a terminal event is the last
\* (no engine ends without one, so that the channel is never found closed).
ForwardEvent ==
    /\ forwarder.pc = "listening" /\ events # <<>>
    /\ LET event == Head(events)
       IN  forwarder' = [forwarder EXCEPT !.told = IF event = StepEvent THEN @ ELSE event,
                                          !.pc = CASE event = "Paused" -> "deciding"
                                                   [] event \in Terminal -> "leaving"
                                                   [] OTHER -> "listening"]
    /\ events' = Tail(events)
    /\ UNCHANGED <<definition, engine, tasks, results, saved, handle, requests>>

\* Faulty: an approval is passed on at any time.
PassesOnAlways(command) == command.kind = "approve"

\* Only an approval that answers a pause is passed on.
PassesOn(command) == command.kind = "approve" /\ forwarder.pc = "deciding"

\* A command, read at a pause or between two events.
TakeCommand ==
    /\ forwarder.pc \in {"listening", "deciding"} /\ forwarder.control # <<>>
    /\ LET command == Head(forwarder.control)
       IN  /\ forwarder' = [forwarder EXCEPT !.control = Tail(@),
                                             !.pc = IF command.kind = "cancel" THEN "leaving"
                                                                               ELSE "listening"]
           /\ handle' = [handle EXCEPT !.cancel = @ \/ command.kind = "cancel",
                                       !.approvals = IF PassesOn(command) THEN Append(@, command) ELSE @]
    /\ UNCHANGED <<definition, engine, tasks, results, saved, events, requests>>

\* The entry is removed and the handle dropped, which cancels the run.
Leave ==
    /\ forwarder.pc = "leaving"
    /\ forwarder' = [forwarder EXCEPT !.pc = "gone", !.entry = FALSE, !.control = <<>>]
    /\ handle' = [handle EXCEPT !.cancel = TRUE, !.open = FALSE]
    /\ events' = <<>>
    /\ UNCHANGED <<definition, engine, tasks, results, saved, requests>>

-----------------------------------------------------------------------------

Engine ==
    \/ Validate \/ SendLifecycle \/ StartLevel \/ Complete \/ CollectNext \/ EndLevel
    \/ TakeResult \/ TimeOutWaiting \/ SavePause \/ Decided \/ DropRemaining

Forwarder == ForwardEvent \/ TakeCommand \/ Leave

Users == CancelRun \/ ApproveRun

Next == Engine \/ Forwarder \/ Users \/ DeadlinePasses \/ \E s \in Steps : TaskEnds(s)

\* Tasks are scheduled, and every step ends; nobody has to answer.
Fairness == WF_vars(Engine) /\ WF_vars(Forwarder) /\ \A s \in Steps : WF_vars(TaskEnds(s))

Spec == Init /\ [][Next]_vars /\ Fairness

-----------------------------------------------------------------------------
(* Properties. *)

\* What the run shows of a step: its result once recorded, "lost" once nobody will
\* record one.
StepShown(s) ==
    CASE results[s] # "none" -> results[s]
      [] results[s] = "none" /\ tasks[s] = "none" -> "waiting"
      [] OTHER -> IF s \in engine.remaining \cup {engine.awaited} THEN "working" ELSE "lost"

EndShown == engine.pc = "ended" \/ engine.next = "ended"

StatusShown ==
    CASE EndShown -> "ended"
      [] ~EndShown /\ (engine.pc = "paused" \/ engine.next = "dropping") -> "paused"
      [] OTHER -> "running"

Promise == INSTANCE WorkflowRun WITH
    dependsOn <- [s \in Steps |-> definition.dependsOn[s] \ {Missing}],
    status <- StatusShown,
    step <- [s \in Steps |-> StepShown(s)]

\* The engine keeps the promise of WorkflowRun: no step begins before what it
\* depends on is over, twice, at a pause or after the end.
KeepsThePromise == Promise!Spec

Cyclic == \E loop \in (SUBSET Steps) \ {{}} : \A s \in loop : definition.dependsOn[s] \cap loop # {}

Unknown == \E s \in Steps : Missing \in definition.dependsOn[s]

\* dag.rs:12-15: a definition is turned down if and only if a dependency is
\* unknown or the graph has a cycle; Kahn's levels find every cycle.
TurnsDownTheCyclic ==
    engine.pc \notin {"validating"} /\ definition.inputs =>
        (Cyclic \/ Unknown) = (saved.state = "Failed" /\ engine.done = {} /\ \A s \in Steps : tasks[s] = "none")

\* persistence.rs:56-61: the snapshot holds results the run has, and one for every
\* step of the levels it counts as done, unless the run is cancelled or a task panicked.
SnapshotsAreTrue ==
    /\ \A s \in Steps : saved.results[s] \in {"none", results[s]}
    /\ saved.state # "none" /\ ~handle.cancel /\ (\A s \in Steps : tasks[s] # "panicked") =>
          \A s \in saved.done : saved.results[s] # "none"

\* active.rs:133: an approval that comes when no pause was broadcast is ignored; one
\* that is passed on is for the pause the engine is at, none is left for the next.
NoDecisionIsLeft ==
    handle.approvals # <<>> =>
        /\ Len(handle.approvals) = 1
        /\ engine.pc \in {"pausing", "paused", "dropping", "ended"} \/ engine.event = "Failed"

\* engine.rs:78-82: lifecycle events are not lost, so that whoever follows the
\* broadcast of a run knows what it does, once the channel is empty.
FeedFollowsTheRun ==
    handle.open /\ events = <<>> /\ engine.pc \notin {"validating", "sending"} =>
        forwarder.told \in (CASE engine.pc \in {"pausing", "paused"} -> {"Paused"}
                              [] engine.pc = "dropping" \/ engine.aborted -> {"Failed"}
                              [] engine.pc = "ended" /\ ~engine.aborted -> Terminal
                              [] OTHER -> {"Started", "Resumed"})

Finished == engine.pc = "ended" /\ forwarder.pc = "gone" /\ ~forwarder.entry

\* The pause could not be saved and the run failed: nobody is told before a user
\* answers.
PauseUnsaved == engine.pc = "ended" /\ events = <<"Failed">>

WaitsForUser ==
    /\ engine.pc = "paused" \/ PauseUnsaved
    /\ forwarder.pc = "deciding" /\ forwarder.control = <<>> /\ forwarder.entry

\* Every run comes to its end and its entry goes, or it waits for a user who can
\* still answer: no channel, flag or deadline leaves it stuck in between.
EndsOrWaits == <>[](Finished \/ WaitsForUser)
=============================================================================
