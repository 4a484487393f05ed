# A TLA+ development of Peco's agent runtime

Peco runs language-model agents: a Rust workspace whose core (`crates/peco-core`) drives a
conversation turn by turn, and whose server (`crates/peco-server`) keeps one such conversation
alive per user, streams it to browsers and runs workflows. This directory holds TLA+ modules of
the parts that carry state and concurrency, the TLC configurations that check them, and theorems
the TLA+ proof system checks. Paths are relative to the repository.

- [The system](#the-system)
- [Modules and code](#modules-and-code)
- [Runs](#runs)
- [Fairness](#fairness)
- [Proofs](#proofs)
- [Disagreements found](#disagreements-found)
- [Not modelled](#not-modelled)
- [Plan](#plan)

## The system

| component | state it keeps | operations | what makes it correct | module |
|---|---|---|---|---|
| **Session** (`peco-core/src/session/`) | committed turns, staging area of the turn in flight, queue of input, pinned summary, counters for turns and message ids | start, stage, commit, roll back, interrupt, truncate, drain the queue, compact, strip, load, hydrate | ids never reused; inputs keep their order and are not duplicated; a closed turn has an output for every call; unsigned turn numbers never underflow and tell turns apart | `SessionOps`, `Session` |
| **Agent looper** (`agent/agent_looper.rs`) | loop state (idle, request, streaming, resolving, tools, done, failed, two pauses), flags `pending_armed`, `pause_pending`, `cancel_request`, counters, tool tasks, the session | take messages, wrap up, start a turn, one ReAct step, retry, commit and save | loop and session agree; no task or stream outlives its state; a retry undoes exactly one attempt; a checkpoint matches its turn; cancel and close take effect; queued input runs | `AgentLooper` |
| **Simple looper** (`agent/simple_looper.rs`) | a conversation in memory, one prompt | run to the end, cancel | ends, and obeys a cancellation | - |
| **Compaction policy** (`agent/compaction.rs`) | thresholds | strip or compact at a turn boundary | only on an idle session; what it changes is saved, but for a strip followed by a fold that fails | part of `AgentLooper` |
| **Context building** (`agent/context.rs`, `peco-server/src/peco/filter.rs`) | none | choose the messages of a request | the turn in flight whole and last; no call without its output; as much history as fits | `Context` |
| **Session store, crash recovery** (`peco-server/src/session_store/mod.rs`, `persistence/inflight.rs`) | snapshot and checkpoint rows | save, load, hydrate a crashed turn | no input runs twice, no finished work is lost, a stale checkpoint is never hydrated | `SessionRecovery` |
| **File persister** (`persistence/file.rs`) | append-only log and metadata | append, rewrite, load | what is loaded is what was saved | `FilePersister` |
| **Peco runs** (`peco-server/src/peco/active.rs`, `handler.rs`, `emitter.rs`) | one run per user, its runner task, its subscribers, the flags of its entry | register, attach, forward, control, reclaim, clear | one run per user; a query that was accepted arrives; the flags tell the state of the loop; history is not overwritten | `PecoRuns` |
| **Chat runs** (`peco-server/src/chat/`) | the same per conversation, without reclaim or reuse | the same | the same | - |
| **Workflow engine** (`peco-core/src/workflow/`) | the levels of the DAG, step results, approvals, snapshots | run a level, pause, decide, cancel, time out | a step runs once, after its dependencies; snapshots are true; every run ends or waits for somebody | `WorkflowRun`, `Workflow` |
| **Workflow registry, scheduler** (`peco-server/src/workflow/`) | running workflows, cron entries | start, subscribe, decide, trigger | a decision reaches the pause it was made for | part of `Workflow` |
| **Memory: supersession** (`peco-server/src/peco/memory/hook.rs`, `retire.rs`, `db/memory_supersede.rs`, `db/memory_audit.rs`) | intents, audit rows, documents | replace a memory, reconcile, restore | one task per intent; the new before the old; what is gone can be brought back; every intent closes | `MemorySupersede` |
| **Memory: consolidation** (`memory/consolidation.rs`, `cron.rs`, `knowledge-base/src/engine/similarity.rs`) | watermark, recall statistics, documents | choose a batch, cluster, distill, deduplicate, expire | a deleted memory lives on in another; every memory is looked at | `Consolidation` |
| **Knowledge base** (`peco-core/src/knowledge/`, `knowledge-base/src/`, `peco-server/src/knowledge/`, `db/documents.rs`) | files, the manifest of their hashes, ingested documents, rows | upload, delete, sync, project | what the manifest says is ingested is served; what is removed leaves; the rows say how it ended | `KnowledgeSync` |
| **Workspaces, file watcher** (`peco-server/src/workspace/`, `file_watcher/`) | a cache of workspaces, watchers counted by reference, pending actions | subscribe, unsubscribe, notice, reload | every change is taken up; a watcher lives exactly as long as it is needed | part of `KnowledgeSync` |
| tools, skills, MCP, executor; model providers; HTTP, auth, SQL; CLI, web UI | - | - | I/O, wire formats and presentation; see [Not modelled](#not-modelled) | - |

How they interact. The server's runner owns a `LooperHandle`: it sends `UserMsg`s over a bounded
channel and drains a bounded channel of events; dropping the last handle sets the cancel latch.
The looper is the only owner of its session, and calls the persister (the session store or the
file persister) at turn boundaries and after steps of a turn (the checkpoint). Compaction runs
inside the looper, between the commit of a turn and the next message. Tools run as tasks of the
looper and only hand back results. Agent steps of a workflow run a `SimpleAgentLooper` of their
own, without a session; the server's forwarding task owns the handle of a workflow run. The memory
hook is spawned by a finished turn and shares the documents and the audit table with the
consolidation worker and the restore endpoint; nothing but rows of the database keeps them apart.
Uploads, the watcher, the user and an agent's tool sync a knowledge base under one lock, and write
the outcome into rows without it.

What is hard. Messages, tool tasks and the drop of the handle interleave with the steps of the
loop; a cancellation may arrive in each state of it; a failed model call is retried after part of
its response was staged; a save may fail silently; a turn may fail, be cancelled, or be left
behind by a shutdown or a crash at any point; numbers of turns and messages are counters that
retries, rollbacks and compactions treat differently; a run is reclaimed while a client attaches to
it; decisions, deadlines and cancellations of a workflow race; memories are replaced in several
calls to two stores without a transaction; files change while they are read, and what was ingested
of them is remembered in a second place. `PROJECT.json` lists these hazards one by one, each
with the line where it bites and the properties that watch it.

## Modules and code

| module | what it is | extends |
|---|---|---|
| `SessionOps`, `Session` | mutators of a session; a session driven by any owner | |
| `SessionOpsProofs`, `SessionProofs` | lemmas and theorems about them, the file and the requests | `SessionOps`, `FilePersister`, `Context` |
| `AgentLooperProofs` | theorems about the loop with its session and disk, its tool calls, and its crashes and reloads | `SessionRecovery`, `SessionOpsProofs` |
| `PecoRunsProofs`, `WorkflowProofs`, `MemorySupersedeProofs`, `ConsolidationProofs`, `KnowledgeSyncProofs` | theorems about the module of that name | that module |
| `Context`, `FilePersister` | what is made of a session: requests, a file | `Session` |
| `AgentLooper` | the loop with its session, channel, tools and disk | `SessionOps` |
| `SessionRecovery` | the same with crashes and reloads | `AgentLooper` |
| `PecoRuns` | connections, registry, runners and loops of one user | |
| `WorkflowRun` | abstract: what a run of a workflow promises | |
| `Workflow` | the engine, its tasks, handle and forwarder; implements `WorkflowRun` | |
| `MemorySupersede`, `Consolidation` | the two halves of the memory that write | |
| `KnowledgeSync` | files, syncs, documents and rows of a knowledge base | |
| `MC...` | instances for TLC | |

### SessionOps, Session

`SessionOps.tla` has a session as a record and one operator per mutator of
`peco-core/src/session/session.rs`. A message keeps what the promises depend on: its id, its turn
number, its kind (`InputItem` and `MessageSource` together), its call id and, for a message of the
user, the inputs it was merged from. Text, token usage, descriptions and timestamps are left out.
The staging area is `userInput \o staged`, as `StagingBuffer::iter_all` yields it. `Retain` is
`Vec::retain`. The operators use no recursion, so that they can be proved about.

| TLA+ | code |
|---|---|
| `committed`, `pinned` | `Session::committed` grouped by turn, `pinned_prefix` |
| `userInput`, `staged`, `state` | the `StagingBuffer` and `SessionState` |
| `pending` | the queue of input not in any turn |
| `turnIndex`, `nextId` | `next_turn_index`, `next_message_id` |
| `RollbackTurn(s, requeue)` | `rollback_turn`, whose requeued inputs go to the front of the queue |
| `InterruptTurn(s, closing)` | `interrupt_turn_with_closing`: patch calls, notice or report, freeze |
| `Compact(s, count)` | `compact`: evict, renumber, pin a summary |
| `StripStaleContent(s, keep)` | `strip_stale_content`: the removal of reasoning |

`Session.tla` drives them in every order their guards allow; the owner is left out, so that its
invariants hold for the looper, the compaction policy and the recovery alike. `Spec` has the
mutators production code calls, `PublicSpec` adds `rollback_to_turn` and `cancel`, which are public
but called by tests only. `MaxInputs`, `MaxMessages` and `MaxTurns` bound the counters.

### AgentLooper, MCAgentLooper

`AgentLooper.tla` is `AgentLooper::run` with everything below it. An action is the code between two
points at which something else may happen: a message is taken (`Take...`), a turn is wrapped up
(`FinalizeCancel`, `FinalizeFailure`, `ChannelClosed`), a turn starts, a request goes out
(`SendRequest`) and is answered (`RequestAnswered`, `RequestFails`, `RequestRefused`), a chunk of a
stream comes, a response is resolved, tools are spawned and polled, a turn is committed. The user
(`SendQuery`, `SendControl`, `CloseChannel`, `DropTask`) and the tool tasks (`TaskEnds`) run beside
it. `loop.pc` is the place in an iteration: `top` and `drain` in step 1 (nothing read yet, or
reading on), `settle` behind a Cancel, `start` behind a failure, `react` in step 4, `request` while
`prepare_and_send_request` awaits the model.

| TLA+ | code |
|---|---|
| `loop` | `state`, `pending_armed`, `pause_pending`, `cancel_request`, `failure_reason` |
| `turn` | `react_loop_iteration`, retry counters, `react_ctx`, `active_stream`, `active_tool_tasks` |
| `disk` | what `save_snapshot` and `persist_inflight_checkpoint` left with the persister |
| `user.queue` | the channel behind `Speaker`; capacity `QueueCap` for the code's 256 |
| `seen` | no code: panicked calls, and whether a Pause was heard in this turn |

Choices are made where the code leaves them open: what a model answers (`Responses`), whether a
call fails for a transient reason, how hooks decide (`HooksIntervene`), whether a write to the
persister fails (`SaveMayFail`, `InflightMayFail`), what the compaction policy does at a boundary
(`Boundaries`), whether the closing report of a turn that ran out of iterations comes about.
A boundary is a strip (`Stripped`), a fold, or one after the other. A fold whose summariser fails
(`FoldFails`) is an error the loop only logs; by then the strip is in place, and it is not saved.
The count of summaries that failed in a row, after which a mechanical one is made, is left out: a
fold may fail at any boundary at which there is a turn to evict.
A drop of the handle while `finalize_cancel` saves is overwritten when it resets the latch; the model
has that as a behaviour in which the channel closes and `DropTask` never comes.
`BackoffInterrupted` may fire as long as a retry has been made, whether or not its deadline has
passed: there is no clock. Events and observing hooks are left out; nothing in the loop reads them.

### Context, FilePersister, MCSessionFile

Both EXTEND `Session` and `MCSessionFile` puts them together, so that requests and files are looked
at in every state a session can reach. `Context` has the strategies that cut by turn
(`SlidingWindow`, `TokenBudget` of `agent/context.rs`) and the filter the server uses
(`PecoFilter`, `peco/filter.rs`), with one token per message. `FilePersister` adds the file
`peco-cli` keeps: `FileSave` appends by position what the file does not hold yet, and rewrites a
file that holds more turns than the session. A save happens at the boundaries at which the looper
saves (`AtBoundary`).

### SessionRecovery

EXTENDS `AgentLooper`. `Reboot` stops the process between any two steps of the loop, or between the
save of a turn that ends and the deletion of its checkpoint (`LeftOver`), and starts another on
what is on disk: `FromSnapshot`, the guards of the hydration (`Hydrates`), `HydrateInflight`, the
interruption of the crashed turn, the save and the deletion that follow.

### PecoRuns

| TLA+ | code |
|---|---|
| `registry`, `runs[r].flags` | the map of `PecoActiveRuns`, the flags in a `RunEntry` |
| `runs[r].phase` | from `try_register` (`building`) over `spawn_peco_run` (`running`) to the guard (`leaving`, `gone`) |
| `Request`, `Enqueue`, `Register`, `SubscribeOwn`, `Build`, `BuildFails`, `AwaitExit` | `stream_chat`, its attach loop and `spawn_peco_run` |
| `HandleEvent`, `HandleControl`, `HandleWakeUp`, `Leave`, `DropGuard` | the runner's `select!`, `try_reclaim_if_unsubscribed`, `RunGuard::drop` |
| `Disconnect`, `EndBridge`, `DropReceiver` | `bridge_sse_response`, which notices a disconnect at its next event |
| `TakeMessage`, `StartTurn`, `Steer`, `FinishTurn`, `CancelTurn`, `Die`, `Exit` | `AgentLooper` as far as a runner can tell, with a bounded event channel whose `StateChange`s are dropped when it is full |
| `ClearSession`, `ClearWaited`, `ClearDeletes`, `FollowUpDeletes` | `clear_session`, `cancel_and_wait`, the follow-up task |

### WorkflowRun, Workflow

`WorkflowRun` is the promise: a step begins once, after all it depends on is over; nothing begins
or is recorded while the run waits for a decision or after its end. `Workflow` is the code: levels
of Kahn's algorithm (`NextLevel`, `Builds`), a task per step, the collection of a level in any
order, the failure policies, the pause with its snapshot and the wait for a decision, the deadline,
the cancel flag, the bounded event channel (`SendLifecycle` waits for room), and the forwarding
task that owns the handle (`ForwardEvent`, `TakeCommand`, `Leave`). `Promise` maps the engine's
state to the abstract one: a step shows its recorded result, `working` while its task is to be
collected, `lost` once nobody will record one. Conditions, retries and templates inside a step are
its free choice of an outcome.

### MemorySupersede

One action per call of the database or the knowledge base, for tasks that run at the same time: a
hook (`StartHook`: `WriteIntent`, `ClaimIntent`, `AddNew`, `CheckOld`, then `InsertAudit`,
`DeleteOld`, `SettleAudit` or `CancelAudit`, then `CloseIntent` or `ReleaseIntent`), a round of
reconciliation (`SelectIntent`, `ClaimNext`, `GiveUp`, `Sweep`) and a restore (`StartRestore`,
`MarkRestored`). Each call may fail (`Fails`), a write to the knowledge base also after it was done;
`Crash` takes all tasks away; `ClaimExpires` is the clock. `enforce_supersede`, off by default, is
on.

### Consolidation

One action per stage of `run_once_at`: `StartRound` reads the watermark, `Collect` lists and chooses
the batch (`Window`), `Judge` embeds and clusters (`Clusters`, `Groups`, `Victims`), `Distill` has a
group distilled, `Retire` deletes one victim, `Scan` reads footers and recall statistics and fixes
what expires (`Expires`), `WriteState` writes the watermark. Rounds overlap, as the code lets them,
and the user adds, deletes and recalls memories meanwhile (`Learn`, `Forget`, `RecallHit`). Which
memories are alike, and how old and how long they are, is given by the stock a behaviour starts
from (`MCConsolidation.tla`): a theme of four episodes with a chain of near duplicates; an episode
that was distilled twice, into near duplicates; three memories of which each would go for another;
facts of one turn, which share their time.

Which pairs of near duplicates drop one depends on those compared before, as the two loops of
`pick_dedup_victims` carry their list along. `Drops` says it of a set of pairs: a pair is in it if
and only if neither of its memories was dropped too early, by pairs of the set. There is one such
set, which `Listed` puts in order.

### KnowledgeSync

| TLA+ | code |
|---|---|
| `disk`, `manifest` | the files under `docs/`, `file_hashes.json` (`torn`: it cannot be parsed) |
| `store` | the knowledge base: a document is absent, there in part, or served |
| `rows` | the table `documents`, by its unique `relative_path` |
| `watch` | the watcher has a `KnowledgeSync` among its pending actions |
| `Change`; `StartUpload`, `Register`, `MarkProcessing`, `MarkError`; `StartDelete`, `EraseRow` | somebody writes a file; `upload_document` and its spawned task; `delete_document` |
| `StartWatch`, `StartSync` | a round of the watcher; `sync_knowledge_base` and the tool of an agent |
| `BeginSync`, `HashFile`, `DropOld`, `IngestFile`, `RemoveGone`, `SaveManifest` | `sync_kb_impl` and `process_one_file`, one action per call, under the lock of `sync_guard` |
| `ReadManifest`, `UpsertRow`, `Prune` | `reconcile_documents`, without the lock |
| `Unwatch`, `Crash` | the last connection closes (`WatcherState::release`); the process dies |

A hash is the content it is of, the id of a document the text parsed from it (`text_doc_id`), which
contents that differ in their markup share. Each call may fail; an ingestion or a removal may fail
half-way. `Free` starts the first idle task, since tasks are alike; `Starts` counts a task that starts
beside another as an event of its own, which bounds how much overlaps. Any content may be put under any
path, moved to another and come back. `seen.written` and `seen.back` remember which paths had which
contents, and which were given one once more; `Novel` says of a file that it has a content for the
first time, of a text no other path had. The properties about what is served speak of these.

## Runs

| run | question | bounds |
|---|---|---|
| `session` | What does a session promise, whatever the order of calls, what is made of it in a request, what does a file keep of it? | 1 call id, 3 inputs, 6 messages, 4 turns, budgets of up to 2 messages: two compactions with a commit in between, a requeue of merged input behind a later input, an interrupt with a dangling call and a strip all fit |
| `looper` | Do loop, session and disk agree over two streamed turns; does the loop obey a cancel, run what is queued, and end? | 2 queries (the first may have been loaded with the session), 1 control message, 2 iterations, no retry, 1 call, checkpoint writes may fail, channel of 1; with `FairSpec` |
| `looper_tools` | Are calls, tasks, outputs and checkpoints matched over a deep turn? | 1 query, 2 control messages (pause and resume), 2 calls (symmetric), 3 iterations, 1 retry, hooks intervene, streams, checkpoint writes may fail |
| `looper_panic` | Is every call paired in a request? (violated) | 1 query, 1 call |
| `session_recovery` | What is reloaded after crashes; is it all that was finished, and is the history on disk? | 3 processes one after the other, 2 queries, 1 control message, 1 iteration, 1 call, reasoning to strip before the calls, no failing writes |
| `peco_runs` | Do connections, registry, runner and loop fit together? | 2 connections (symmetric), 2 runs, 2 queries, 1 control message, clearing or panic, 2 of 3 attempts to attach, control channel of 1, event channel of 2 |
| `peco_lost` | Does a query of whoever subscribed first arrive? (violated) | the same with 3 queries, 1 attempt to attach and no control message |
| `workflow` | Does the engine keep the promise of `WorkflowRun`, do its snapshots, events and decisions tell the truth, does it end? | every graph of 3 steps (cyclic ones and an unknown dependency included); fork and chain with all mixtures of pause and abort, a condition and a deadline; 2 requests of users, event channel of 1 |
| `memory_supersede` | Do tasks on the same intents, rows and documents keep out of each other's way? | 2 documents, 2 tasks, 2 facts, 2 attempts, 2 incidents (failing calls, lost answers, crashes, restores) |
| `consolidation` | Does what is deleted live on, is the stock looked at? | 2 rounds at a time, the 4 stocks above, batches of 3, 1 model call and 1 summary, 1 incident (a failing call, a crash, or a user who adds, deletes or recalls a memory) |
| `knowledge` | Is what the manifest says served, does what is removed leave, do changes and the outcome of uploads arrive? | 2 paths, 3 contents of which 2 share their text, 2 tasks at a time, 3 events in any mixture: a change of a file, an upload, a deletion or a sync of a user, an incident (a failing call, a crash, a stop of the watcher), a task that starts beside another |
| `knowledge_shared` | Is what is listed as ready served, if a file is renamed? (violated) | 2 paths, 1 task, 2 events, no incident |

Why these bounds are enough to be worth something. In session and loop each mechanism looks at one
turn and its neighbour (a retry at the attempt before it, a checkpoint at the turn before it,
compaction at the numbers the compaction before it left), so two turns, two attempts and two
compactions exercise them; batches of two calls are the smallest in which results arrive in the
wrong order and a batch is half done when it is interrupted. Three processes are the least in which
a checkpoint left by the first is met by the third. Two runs are what a reclaim and a new
registration need. Three steps hold the smallest cycle behind an entry node, fork, join and chain.
Two documents replace each other back and forth, which is what makes intents meet. Four memories do
not fit a batch of three, so that the watermark has something to do, and more than one round is
needed. `Heads` is what a response says before its calls: it is left out in `looper`, where a turn
is told from another by its calls and inputs; text stands before the calls of `looper_tools`, and
reasoning, which a strip takes away, before those of `session_recovery`.
How much the theorems leave of the bounds is in [Proofs](#proofs): most invariants of the runs hold
for every one of them.

Larger instances were checked by hand and hold: `session_recovery` with 2 iterations, and, without
reasoning, with failing checkpoint writes alone and with failing saves alone; `HistoryIsSaved` with
3 queries, so that a fold leaves two turns of which the next boundary strips one; the properties of
`knowledge` with 3 events and any number of tasks that start beside another, for one path and for
two contents, and its invariants with 4 events and one task; `consolidation` with a request of the
user and a failing call for three of its stocks, each alone.

Each property is also run against a variant of one definition that a plausible slip would produce
(the operators marked `Faulty`, listed under `mutants`), and fails there.

Deadlock is checked in the looper's runs: the loop that has returned is `Exited`, and a loop that
waits for messages can always be sent one or lose its channel. The runs of the session and of the
memory check it too. Those of `PecoRuns`, `workflow` and the knowledge base stop where the bounds
on requests are used up and everything that was started has ended, so they do not.

## Fairness

`FairSpec` of `AgentLooper` assumes three things.

- `WF(Run)`: the runtime schedules the loop, and each await inside a step ends. Requests go through
  HTTP clients with a timeout (`model-provider/src/providers/openai/chat.rs:71-72`), polls of the
  stream and of the tasks last `STEP_POLL`, the closing report has a timeout of its own.
- `SF(StreamEnds \/ StreamBreaks \/ StreamRefused)`: a stream does not stay silent for ever; it is
  polled again and again, and the same client timeout ends it if nothing else does. Strong fairness
  because each quiet poll leaves and re-enters the place where the stream is looked at.
- `WF(TaskEnds(i))`: a tool returns or panics. The code does not force this (the timeout of the
  shell tool, `peco-core/src/tools/shell.rs:21`, is an option), so it is an assumption on tools.
  The cancellation of a turn does not depend on it, but the end of a turn does.

Nothing is assumed of the user, who may stop sending, never resume a paused turn, or keep the handle.

`Workflow` assumes `WF(Engine)`, `WF(Forwarder)` (both are spawned tasks) and `WF(TaskEnds(s))`: a
step ends, by itself or with the client timeouts of the model. A user never has to answer, which is
why `EndsOrWaits` has a run that waits as an outcome.

`MemorySupersede` assumes `WF(Step(t))` for each task, weak fairness of the start of rounds (each
finished turn and each start of the server spawns one: the user goes on talking) and of the expiry
of a claim that no live task holds.

`Consolidation` assumes `WF(Step(r))` and weak fairness of the start of a round: the clock starts
one whenever the user is opted in and idle, which is taken to happen again and again.

`KnowledgeSync` assumes that something is done as long as a task has something to do or the watcher
something to take up: requests are handled, spawned tasks run on, and a timer wakes the watcher as
long as the user has a connection (`file_watcher/watcher.rs:136`). Each task ends after finitely many
steps, so that weak fairness of all of them together is enough, and less than that of each.
Nobody has to upload, sync or delete.

`SessionRecovery` and `PecoRuns` have safety properties only.

## Proofs

Every theorem is for every value of the constants that satisfies the assumption of its module:
any number of inputs, calls, iterations, retries, connections, runs, steps, documents, files, tasks
and failing calls, where a run has two or three. The bounds in the guards are naturals and no proof
uses more of them. `PROJECT.json` lists the theorems with what each one says; here is how they go.
Each module has one inductive invariant, one lemma per action (or per group of actions that leave
the same things alone), and a short derivation of each property from the invariant.

**Session** (`SessionOpsProofs`, `SessionProofs`). One lemma per mutator (`CommitKeeps`,
`InterruptKeeps`, `CompactKeeps` and so on): from a session that is `Sound`, the mutator leads to
one that is, and keeps `TurnNumbersIncrease`. None of the properties is inductive alone. `Sound`
adds what they lean on: ids are below the counter and increase over committed turns and staging (a
new id is then larger than all of them); inputs increase over history and queue and stay below the
number that arrived; an idle session has an empty staging area (otherwise `start_turn` would put a
user message behind items of an older turn); what is staged carries the current turn number and is
no notice (otherwise a frozen turn would hold two); user messages head their turn.
`TurnNumbersIncrease` needs `Sound`, but not the other way round, which is why it is lost alone when
`rollback_to_turn` takes the counter back. The theorems are about `PublicSpec`, with
`rollback_to_turn` and `cancel`, but for `TurnNumbersTellTurnsApart`, which is about `Spec`.

**Session file** (`SessionProofs`). `FileHoldsTheHistory` speaks of a session at rest; its invariant
`Holds` says the same at all times, since no mutator changes the history and leaves a turn in
flight. The argument needs only how a mutator treats the history (`Follows`): it leaves it alone,
ends a turn with one more, makes it shorter (a compaction that evicts anything evicts a whole turn,
so that the file is rewritten), or strips it. A strip keeps the length, so the file keeps the
unstripped turns; that what lasts of a turn is the same before and after is `StripKeepsLasting`.

**Requests** (`SessionProofs`). `ContextInv` adds to the session's invariant `SummaryIsPinned`: a
summary is pinned, under turn 0, and stands nowhere else, and a turn in flight has the message it
was started with. Without it Peco could take a summary for history or lose the turn in flight: it
tells the current turn by the last message it is given. A request is a choice of messages in their
order (`Chosen`), which the lemmas describe by the positions it takes (`Picks`). Pinned messages,
history and staging area lie one after the other by turn number, so that a cut by number
is a cut where a turn begins, and takes all or nothing of a turn; hence both halves of
`RequestsNeverSplitCalls`. For `PecoSelectsWhatFits`, the ends of the history are nested, and what is
viewable of them is too, so that the first that fits is the longest there is. The theorems are about
`Spec`: after `rollback_to_turn` turn numbers no longer increase, and a cut by number is not one by
position.

**Agent looper** (`AgentLooperProofs`). The lemmas about mutators are used as they stand: the loop is
one of the owners `Session` leaves open. `CoreInv` is `Phases` (what state, place, latches, stream
and tools say about each other), `Agrees` (the session has a turn exactly when the loop has one),
`Arrivals` (the session is `Sound` for some number of inputs, and the queries in the channel are the
later ones, in order), `Checkpointed` and `Saved`. A checkpoint is exact because one of the turn in
flight can only be written once something is staged, so that the end of the turn raises the turn
number above it; this is what makes a deletion that fails harmless. `Saved` has the premise of the
property, that the persister does not fail and failed turns are saved (`WritesHold`), and says what
the property says: the disk holds the history or, where a fold failed behind a strip, one that
strips to it (`HoldsHistory`). It holds at all places, not only at Idle, since a turn is saved by the
step that ends it, before anything is stripped or folded.

The lemmas about sessions and loop do not compare inputs by `<`, but by any relation `R` that
includes it (`SoundBy(R, ...)`, `Core(R)`); the loop alone takes `R` to be `<` (`Before`).

**Tool calls** (`AgentLooperProofs`). `Calls` says that a call without an output has a tool the
loop holds, or its task panicked; that such a tool stands for a call of the staging area; and that
what a response asks for is new to the turn. With it each way a turn goes on or ends (a batch, a
retry, an interruption that patches what is open) is followed through what it stages.
`EveryRequestIsAnswered` is the positive side of the disagreement about panicking tools below.

**Crash recovery** (the last part of `AgentLooperProofs`). After a reload the order of arrival is lost: an input
that was queued in the snapshot and is in the crashed turn as well stands behind itself. So `R` is
"different, or reloaded" (`Distinct(life.reloaded)`), it grows with each reload, and the lemmas of
the loop apply to every life of the session. `Restartable` adds to `Core(R)` what makes both rows
fit to be taken up: the snapshot is a sound session whose history and pinned messages lie before
whatever the loop stages now or later (`Stored`); the checkpoint holds one turn in flight, and
may follow the history of the snapshot whenever their numbers agree (`Taken`); what a tool
returned and the loop staged is in the checkpoint as long as writes of checkpoints hold
(`InCheckpoint`). A turn ends in one of three ways, and each keeps this with the checkpoint deleted
or not, because the turn number passes that of the checkpoint (`Ended`, `Moves`).

`RecoveryInvariant` and `RestartsAreSound` assume `OneWriteHolds`: if deletions of checkpoints may
fail, then saves do not, and failed turns are saved. The code relies on it (`inflight.rs:31-32`: a
row whose deletion failed has a number below the session's, which is so if the end of its turn was
saved); Peco saves failed turns (`peco/config.rs:242`). It cannot be dropped: with saves and
deletions failing TLC violates `HistoryIsLegal` in 26 steps, with deletions failing and failed turns
not saved in 36 (and 3 inputs). `FinishedWorkIsKept` needs no assumption, since the property has a
premise of its own; what it promises of a turn of the history is that it is there, and no more than
stripped of what the disk still has (`HoldsTurns`).

**Runs of Peco** (`PecoRunsProofs`). Most holds as long as no run lost its entry to the guard of
another (`Undisturbed`; with `Orderly`, no loop panicked either): then the registered run is the
only one that is built or runs, and a run somebody listens to is never on its way out. The flags
follow the loop because the last event that tells a state, in the channel, tells that of the loop,
and if none is left the flags do (`StateTold`, `InputTold`). The history grows because at most one
run can still save, and what is saved is part of its history.

**Workflow** (`WorkflowProofs`). `RunKeepsThePromise` is the refinement of `WorkflowRun`: initial
states map to initial states and every step to a step or a stutter, from `EngineSound` and
`StepsSound` (which steps began, and what the engine has left of its level). A step is begun by the
level it is in, and levels never share a step. `OnlyTheCyclicAreTurnedDown` proves Kahn's algorithm
as `topological_levels` uses it: what no level releases is a set in which each step waits for another,
and such a set contains no step of an acyclic graph. `FeedTellsTheRun` and `DecisionsAnswerTheirPause`
follow the lifecycle events through a channel of any capacity.

**Memory** (`MemorySupersedeProofs`). Three parts that hardly touch: a claimed intent is
`processing`, not stale and claimed by one task; a task on its way to a deletion has put the
successor there (or was robbed of it); and every document that is gone has a row that vouches for it
(`Vouches`): of that document, not restored and about to be by nobody, and not cancelled unless the
answer of its deletion was lost.

**Consolidation** (`ConsolidationProofs`). What was retired has a link to each memory it was retired
for (`Accounted`). `FactsSurvive` says that no retired memories are linked only to each other, which
follows if links never lead in a circle (`Acyclic`: of any memories, one is linked to none of them).
That is not inductive, since a link appears when a deletion happens, but is decided when it is
planned; so the invariant is about the links there are and those planned by any round (`Links`).
Each half of the premise needs an invariant of its own. With times of their own, memories go for newer
ones whatever the order of the rounds (`ForNewer`): a near duplicate for the newer of the pair, an
episode for a summary, which is newer than what it was made of (`MadeOfOlder`); what is added meanwhile
has a time of its own (`AddedApart`). Without overlap the links of one round are put behind those of
all rounds before it (`NoCircle`, `MoreLinks`): they are between memories that are there, and old links
are of memories that are gone. Within a round, what expires is episodic and goes for what is semantic,
and `DropsAcyclic` is about the two loops that look for near duplicates, also where times are missing:
of the pairs among given memories take those compared last; either a memory behind the first of them
is kept, or the first itself. A batch holds nothing twice (`WindowFacts`), on which this rests.

**Knowledge base** (`KnowledgeSyncProofs`). One sync is at work at a time (`Alone`), on entries the
manifest still has (`AtWork`). Each document of the store is accounted for by the new manifest, by a
file that is gone and not yet dropped, or by the record of what an incident cut loose (`Followed`);
when nobody syncs, by the manifest (`Settles`). `WhatIsSyncedIsServed` needs a second invariant
(`Served`): entries are of contents their path has had (`Told`), what an entry says is served (`Kept`),
and what the sync has passed without an entry is outdated in the old manifest (`Passed`). It has no
hypothesis about files: contents come back, move and share texts, and the invariant, as the property,
speaks of the files that are `Novel` at the time (`Sure`). A write may take a path out of `Sure`, never
put one in whose content an entry could already be of (`PutsSure`), which is what makes it inductive.
`knowledge_shared` is what happens to files whose texts another file has.

Inductions over data (the elements of a `Listing`, the rounds of Kahn's algorithm, the last event of
a channel) are written out with the least counterexample, since an induction theorem with an operator
as its parameter is beyond the provers.

What proving changed in the models. `Context` selects messages by sets (`Chosen`), where it once
folded over sequences. `AgentLooper` assumes `MaxInputs > 0`, without which the initial choice of a
loaded input is not typed. `Cyclic` is about non-empty sets of steps. The CASE expressions of
`Promise` and of the feed have disjoint guards, and `FeedFollowsTheRun` says what was told for every
place of the engine. `Consolidation` says what clusters and victims are by closed sets and by a fixed
point, where it once was recursive, and assumes that footers name older memories. The premise
`Ranked` of `FactsSurvive` was too weak for a stock of a single memory without a time, which can go
for one that is added and that one for it; TLC's stocks are larger. `FactsSurvive` itself once spoke
of what memories lead to, and now of what is closed, which is the same and needs no paths.
`SessionRecovery` assumes that `NoCheckpoint` is not a checkpoint, and its `EndedTurns` is a union with one part per way to end a turn, which the provers take apart, where a
CASE hides its guards from them. `AcceptedMessagesArrive` was not inductive, nor true of larger
instances: a query can go into a run its sender does not watch (`seen.astray`), which is the
disagreement `peco_lost` shows. `TypeOK` of `AgentLooper` covers whole records.

Assumed of constants: the bounds are naturals, `CallIds`, `Contents` and `Texts` do not contain their
"none", the loop has at least one input, the channels of runs and workflows have room for something,
`NoCheckpoint` is no row, batches have room for a memory, the footers of the first memories name
older ones (the worker writes a footer when it distills memories that are there,
`consolidation.rs:687-701`), which may be gone, `Steps` is finite, `Text` is a function on contents; all in the
`...Assumption` of the module. The first files, stocks and definitions are any
of their type.

Only model-checked: liveness (`CancelTakesEffect`, `QueuedInputRuns`, `LoopEnds`, `EndsOrWaits`,
`StockIsCovered`, `ChangesArrive` and the like), since the backends do not treat fairness, and what
recursively defined functions compute (`Leaf`). Every invariant and every action property of the
runs that pass is a theorem.

## Disagreements found

- **A panicking tool** (`agent_looper.rs:3402`). Its call gets no output: the next request, and the
  committed turn, hold a call a provider will not accept. `RequestsAreAnswered` shows that this is
  the only way to get there.
- **A renamed file** (`knowledge/manager.rs:855`). Two files with the same text are one document. A
  rename between two syncs is an addition and a removal: the sync ingests the new path, and then
  removes the document of the old one, which is the same. The manifest and the row go on to say
  that the file is ingested, so no later sync brings it back. The same happens to a copy whose
  original is deleted, or edited.
- **A query into a run nobody watches** (`peco/handler.rs:390-391`). Subscribing and enqueuing take the
  registry's lock one after the other. If the build of the run fails in between and somebody
  registers another, the query goes into that one; its sender's receiver is of the first. The new
  run has no subscriber, may be reclaimed with the query in its channel, and the sender waits for
  events that never come. `AcceptedMessagesArrive` holds of all others (proved).

The three above are the runs that expect a violation. The following came up in runs made by hand
while the modules were written; the properties name them in their premises or in their comments.

Session and loop:

- **A strip that is not saved** (`compaction.rs:635`). A boundary strips the session in place and then
  has it folded. If the summariser fails, and has not yet failed so often that a mechanical summary
  takes its place (525-536), the error passes by the strip that was made, and the loop logs it and
  does not save (`agent_looper.rs:2207-2209`): memory and disk differ at Idle although no write
  failed, whereas `compaction.rs:352` says that a rewrite and a fold must both be on disk. The next
  save makes up for it; a restart before that brings the stripped content back. No turn and no fold is
  ever missing on disk (`HistoryIsSaved`, proved), but asked for the very history of the session TLC
  violates it in fifteen steps.
- **Turn numbers after a second compaction** (`session.rs:799`). Its comment says the remaining
  messages are numbered from 0 without gaps. The counter is not taken back, so turns committed
  after a compaction are ahead of their position, and the next compaction keeps the gap. Numbers
  still increase and never underflow (both proved), so the effect is limited to consumers that
  count by number: the sliding window of `agent/context.rs` keeps fewer turns than `max_turns`.
- **Messages behind a Cancel** (`agent_looper.rs:1703`). The documentation of `ReadDirective` says
  they are dropped with the batch; they stay in the channel and the next iteration handles them.

Runs of Peco:

- **A cleared session comes back** (`peco/handler.rs:1133`). The loop is asked to cancel and waited
  for ten seconds; if the command does not fit into the control channel, or the loop takes longer,
  the rows are deleted first and the loop saves its history over them (the follow-up deletes once
  more only if it sees the run go). The comments at 1125 and 1134 promise a new session.
- **The guard of a run** (`peco/active.rs:88`) removes the entry of its user whoever owns it: after a
  reclaim, the old runner's guard may strike out the run registered since (`seen.struck`).
- **A docked run may stay**: a bridge notices a disconnect only at its next event, and
  `notify_waiters` is lost on a runner that is not waiting; `active.rs:14-17` says such a run is
  reclaimed. A query and a cancel in one batch on a new run have the same effect.
- **A build that fails** takes along the messages its entry accepted meanwhile, though
  `handler.rs:390-391` says that an accepted message arrives.
- **A reclaim on a stale flag** lets a new run load the session while the old loop still has a save
  to make (`seen.stale`).
- **An unreadable snapshot** (`handler.rs:475`) is replaced by a new session, which overwrites it.

Workflows:

- **A decision sent early** is kept in the control channel and decides a pause that is shown later
  (`workflow/active.rs:133` says approvals outside a pause are ignored; that looks at the state when
  they are read).
- A pause whose snapshot cannot be saved fails the run, and nobody is told until a user answers; a
  cancel in the last level ends as `Completed` though steps were aborted; a panicked step counts as
  done without a result; an abort at a pause leaves no `Failed` snapshot; `Cancelled` never reaches
  snapshot or subscribers; the row of an execution stays `running` because the engine draws a run id
  of its own (`engine.rs:102` against `handler.rs:243-285`).

Crash recovery:

- With saves and checkpoint deletions both failing, a rollback leaves a checkpoint whose number the
  next turn takes, and it is hydrated as that turn's: `HistoryIsLegal` fails. `inflight.rs:31-32` and
  `agent_looper.rs:3584-3585` rule this out on the premise that one of the two succeeds.
- An input that was in the queue of the snapshot and in the crashed turn runs twice (`life.reloaded`).

Context and file:

- The sliding window drops the pinned summary, which has turn number 0; production uses the other
  filter. A strip of old turns is not written to the file; a failed save followed by a compaction
  lets the position-wise append skip turns.

Memory, supersession:

- **The answer of a deletion is lost** (`memory/retire.rs:70`): the document is gone, its row is
  cancelled and restore turns it down (`handler.rs:1534` says cancelled means not deleted). Without
  the premise `seen.unsure` TLC violates `GoneIsAudited` in nine steps.
- Two hooks with opposite decisions can leave the slot empty (accepted at `hook.rs:15`; `robbed`); an
  intent replayed after a crash may undo a newer, opposite decision; two restores at once can leave
  two documents of a slot alive.

Memory, consolidation:

- **Rounds that overlap** (`handler.rs:1881` and the clock): nothing keeps them apart. When one of
  them cannot read the watermark their candidates come in different orders, and if times are missing
  or equal each deletes what the other keeps; the last trace of a fact goes in sixteen steps. This is
  the premise `Ranked \/ ~seen.overlap` of `FactsSurvive`.
- **Victims** (`consolidation.rs:298-300`): the comment says a victim takes no further part, so that
  the newest of a group never goes. A memory that becomes a victim while it is compared goes on being
  compared, and a longer one without a time beats the newest.
- **Coverage** (`consolidation.rs:20-24`, `131-139`): memories that share their title time with the
  oldest of a batch (all without a time do) are never below the watermark and may not be looked at; a
  batch whose embedding failed counts as looked at; the watermark is raised again by a failed read
  or by the last of two overlapping rounds to write. `StockIsCovered` is what holds.
- **Recall statistics that cannot be read** (`consolidation.rs:814-815` calls it the conservative
  side): the observation period is 30 days, the time to live 60, so every memory old enough to expire
  is past the observation, and those found by a search yesterday are deleted.
- A group that was distilled is distilled again by every round while it is in the window.

Knowledge base:

- **A document nobody removes.** A failed removal of a file that is gone is tried again, with a
  comment on why (`manager.rs:876-877`); the failed removal of what a changed file had before is only
  logged (977-984), and a crash or a failing write between an ingestion and the save of the manifest
  forgets that ingestion. In each case the document stays in recall for good (`seen.left`).
- **An unreadable file counts as gone**: its hash cannot be computed, so its document is removed. If
  the manifest is then not saved, or the removal fails half-way, the old entry stays, and the next
  sync skips the file although nothing of it, or only a part, is served (`seen.unread`; two incidents).
- **A file that is changed back.** `process_one_file` hashes a file (`manager.rs:963`) and reads it
  later (986-1000). A file that is changed in between, and changed back before the next sync, has
  the hash of the one content and the document of the other in the manifest, and every later sync
  skips it. The same comes of a change whose sync has dropped the old document but could not save its
  manifest, if the file is then changed back. `Novel` excuses contents that come back.
- **Rows of an older sync.** The projection runs without the lock: one that read the manifest before
  another sync saved its own may bring back the row of a file that is gone, overwrite or prune newer
  ones, until the next sync. A deletion by the user races with it in the same way.
- **A torn manifest** (`hash_manifest.rs:63` writes over the old one): every later sync of the
  knowledge base, and every upload to it, fails.
- **The lock of a sync belongs to the workspace**, and the cache of workspaces forgets one beyond 128:
  a sync that is under way and one of the workspace opened anew do not exclude each other. Without
  the lock both invariants of `knowledge` are violated.
- **Changes while nobody is connected**, or pending when the watcher stops or the process dies, wait
  for the next sync of somebody: nothing calls `maybe_auto_sync`. The watcher's own count of
  connections (`workspace/manager.rs:66`) is in the cache entry: a connection that closes after an
  eviction takes a fresh count below zero, and the next one starts no watcher.

## Not modelled

- Simple looper: a step of a workflow is a task that ends, panics or is aborted. Chat runs: the
  registry of `PecoRuns` without its hard parts.
- Token thresholds, estimates and summaries of compaction and context: any boundary action is
  allowed, a message weighs one token.
- `PecoRuns`: the channel of a loop (256 messages) is never full; liveness. `Workflow`: saves other
  than the one at a pause succeed; cron and the rows of executions. `FilePersister`: saves succeed.
- `MemorySupersede`: one fact per turn (the code: 5), `max_hops` (16) and the batch of a sweep (50)
  are not reached; claim and audit timeouts are longer than any live call.
- `Consolidation`: the order of a listing is fixed and a listing is one step; deletions leave their
  audit rows in `MemorySupersede` only; a summary is newer than everything there is, where the code
  titles it with the start of its round (474, 691), so that a memory learned after that start is
  newer than the summary; the purge of old audit rows (`purge_audit`), which nothing
  here reads.
- Extraction of facts (model output), the reranking and deduplication of a recall, the graph.
- Workspaces and file watchers, but for the watcher's part in `KnowledgeSync`: the cache of
  workspaces, its counts of connections, reloads of agents, skills and configuration.
- `KnowledgeSync`: creating, deleting and reloading knowledge bases; a write to a file is one step,
  the listing of a directory too; the lock is of one workspace that is never evicted.
- Tools, skills, MCP servers, model providers: a tool is a task that ends or panics, a model
  anything `Responses` allows. Their wire formats, the bulk of the repository's lines, are
  conversions without protocol state.
- Parsing, chunking, embedding, search and the storage backends of a knowledge base: algorithms
  over text and vectors, but for the clusters in `Consolidation`.
- HTTP routes, authentication, SQL access, command line, templates, web UI.

## Plan

1. Reference-counted watchers of workspaces; chat runs; the simple looper.
2. Liveness of `PecoRuns`, once the code says who reclaims a run nobody wakes.
