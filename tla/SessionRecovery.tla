--------------------------- MODULE SessionRecovery ---------------------------
(***************************************************************************)
(* Peco's crash recovery: the loop of AgentLooper in a process that may    *)
(* stop between any two steps, and between the writes of one step, and a   *)
(* process that takes the session up again: load_or_new_session of         *)
(* peco-server/src/peco/handler.rs with the store of                       *)
(* peco-server/src/session_store/mod.rs.                                   *)
(*                                                                         *)
(* The store is a row for the snapshot and a row for the checkpoint; each  *)
(* write of a row is one SQL statement and is atomic.  What is in the      *)
(* channel, in the staging area or only in memory is gone with the process.*)
(***************************************************************************)
EXTENDS AgentLooper

CONSTANT MaxLives    \* bound on the processes that own the session, one after the other

ASSUME LivesAssumption == MaxLives \in Nat

\* A row that is not there is none that is.
ASSUME NoCheckpointAssumption == NoCheckpoint \notin [turn : Nat, staged : Seq(Message)]

VARIABLE
    life    \* history: nth      how many processes there were before this one
            \*          reloaded inputs a process found both in the queue of the
            \*                   snapshot and in the turn it hydrated

recoveryVars == <<vars, life>>

RecoveryInit == Init /\ life = [nth |-> 1, reloaded |-> {}]

-----------------------------------------------------------------------------
(* What the process leaves behind. *)

CancelEndsTurn ==
    /\ InFlight(session)
    /\ \/ ReadingOver /\ loop.cancel
       \/ loop.state \in Paused /\ loop.pc = "top" /\ user.closed /\ user.queue = <<>>

FailureEndsTurn == ReadingOver /\ ~loop.cancel /\ loop.state = "Failed" /\ PersistOnFailure

CancelledTurn == Freeze(ClearPending(session), Salvage(turn.tools), CancelReason, FALSE)

FailedTurns ==
    {Freeze(session, turn.tools, loop.reason, closing) :
        closing \in IF loop.reason = "maxIterations" THEN BOOLEAN ELSE {FALSE}}

\* The sessions the step under way saves before it deletes the checkpoint of the
\* turn it ends.
EndedTurns ==
    (IF CancelEndsTurn THEN {CancelledTurn} ELSE {})
        \cup (IF FailureEndsTurn THEN FailedTurns ELSE {})
        \cup (IF Reacts("Done") THEN {CommitTurn(session)} ELSE {})

\* Faulty: the checkpoint is deleted before the turn is saved.
LeftOverDeletesFirst ==
    {disk} \cup {[disk EXCEPT !.checkpoint = NoCheckpoint] : ended \in EndedTurns}

\* The rows as the last step that came to its end left them, or as they are once
\* a turn that ended is saved and its checkpoint is not deleted yet.
LeftOver == {disk} \cup {[disk EXCEPT !.saved = ended] : ended \in EndedTurns}

-----------------------------------------------------------------------------
(* The next process. *)

\* max: the counter passes every id among the messages.
Past(counter, ids) ==
    CHOOSE n \in {counter} \cup {id + 1 : id \in ids} :
        \A m \in {counter} \cup {id + 1 : id \in ids} : m <= n

IdsOf(messages) == {messages[i].id : i \in DOMAIN messages}

\* Session::from_snapshot: always Idle, with an empty staging area.
FromSnapshot(snapshot) ==
    [snapshot EXCEPT !.state = "Idle", !.userInput = <<>>, !.staged = <<>>,
        !.nextId = Past(@, IdsOf(snapshot.pinned)
                            \cup UNION {IdsOf(snapshot.committed[p]) :
                                            p \in DOMAIN snapshot.committed})]

\* Session::hydrate_inflight: the user's message heads the turn if it is there.
HydrateInflight(s, staged) ==
    LET headed == staged[1].kind = "user"
    IN  [s EXCEPT !.userInput = IF headed THEN <<staged[1]>> ELSE <<>>,
                  !.staged = IF headed THEN Tail(staged) ELSE staged,
                  !.nextId = Past(@, IdsOf(staged)),
                  !.state = "Active"]

\* Faulty: the number of the turn is not compared.
HydratesWhateverTurn(s, checkpoint) == checkpoint # NoCheckpoint /\ checkpoint.staged # <<>>

\* The guards of hydrate_inflight_turn: a row of another turn is stale.
Hydrates(s, checkpoint) ==
    /\ checkpoint # NoCheckpoint
    /\ checkpoint.turn = s.turnIndex
    /\ checkpoint.staged # <<>>

Crashed(s, checkpoint) == InterruptTurn(HydrateInflight(s, checkpoint.staged), FALSE)

Inputs(messages) == UNION {Range(messages[i].body) : i \in DOMAIN messages}

\* load_or_new_session and hydrate_inflight_turn, on the rows as they are; a
\* checkpoint that cannot be read stays.
Reload(rows, readable) ==
    LET loaded == FromSnapshot(rows.saved)
        hydrates == readable /\ Hydrates(loaded, rows.checkpoint)
    IN  /\ session' = IF hydrates THEN Crashed(loaded, rows.checkpoint) ELSE loaded
        /\ \E saved \in IF hydrates THEN SavedOver(session', rows.saved) ELSE {rows.saved},
              deleted \in {readable} \cup (IF InflightMayFail THEN {FALSE} ELSE {}) :
                disk' = [saved |-> saved,
                         checkpoint |-> IF deleted THEN NoCheckpoint ELSE rows.checkpoint]
        /\ life' = [nth |-> life.nth + 1,
                    reloaded |-> IF hydrates
                                 THEN life.reloaded \cup (Inputs(rows.checkpoint.staged)
                                                            \cap Range(loaded.pending))
                                 ELSE life.reloaded]

\* The process that owned the session is gone, by a crash or because its loop
\* returned, and a client comes back: the channel and the loop are new.
Reboot ==
    /\ life.nth < MaxLives
    /\ \E rows \in LeftOver, readable \in {TRUE} \cup (IF InflightMayFail THEN {FALSE} ELSE {}) :
          Reload(rows, readable)
    /\ user' = [user EXCEPT !.queue = <<>>, !.closed = FALSE, !.dropped = FALSE]
    /\ loop' = [pc |-> "top", state |-> "Idle", armed |-> TRUE, pause |-> FALSE,
                cancel |-> FALSE, reason |-> "none"]
    /\ turn' = FreshTurn
    /\ seen' = [panicked |-> {}, pause |-> FALSE]

RecoveryNext == Reboot \/ (Next /\ UNCHANGED life)

RecoverySpec == RecoveryInit /\ [][RecoveryNext]_recoveryVars

-----------------------------------------------------------------------------
(* Properties. *)

\* After any number of crashes a session is what Session promises: ids are not
\* handed out twice, turn numbers increase and cover the positions, a turn closed
\* by the notice of a crash has an output for each of its calls.
HistoryIsLegal ==
    /\ IdleIsClean(session) /\ UserHeadsTurn(session) /\ StagingIsCurrent(session)
    /\ IdsInOrder(session)
    /\ TurnNumbersCoverPositions(session) /\ TurnNumbersIncrease(session)
    /\ FrozenTurnsAnswered(session) /\ NoEmptyTurn(session)

\* An input stands in the history and the queue once, except for one a process
\* found in the queue of the snapshot and in the checkpoint (a message that was
\* queued when the snapshot was saved, and then taken into the turn that crashed).
InputsRunOnce ==
    LET T == Append(Turns(session), <<[body |-> session.pending]>>)
    IN  \A p \in DOMAIN T : \A i \in DOMAIN T[p] : \A k \in DOMAIN T[p][i].body :
        \A q \in DOMAIN T : \A j \in DOMAIN T[q] : \A l \in DOMAIN T[q][j].body :
             T[p][i].body[k] = T[q][j].body[l] /\ T[p][i].body[k] \notin life.reloaded =>
                <<p, i, k>> = <<q, j, l>>

\* What a process finds after any number of crashes is legal and runs nothing twice.
RestartIsSound == HistoryIsLegal /\ InputsRunOnce

\* Every turn of a history is in a later one, in its place; one that was stripped
\* may have back what it was stripped of.
HoldsTurns(new, old) ==
    /\ Len(old) <= Len(new)
    /\ \A p \in DOMAIN old : old[p] = new[p] \/ old[p] = StripTurn(new[p])

\* What ended, and what a tool returned, is there after a crash if every write
\* that was made went well: turns in their order, and outputs of the turn that
\* crashed, which the loop had staged.
FinishedWorkSurvives ==
    [][Reboot /\ WritesHold /\ ~InflightMayFail =>
        /\ HoldsTurns(session'.committed, session.committed)
        /\ \A i \in DOMAIN session.staged : session.staged[i].kind = "output" =>
              \E p \in DOMAIN session'.committed :
                  session.staged[i] \in Range(session'.committed[p])]_recoveryVars
=============================================================================
