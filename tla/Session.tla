------------------------------- MODULE Session -------------------------------
(***************************************************************************)
(* One session of peco-core driven through its public mutators, in any     *)
(* order their guards allow: the owner (the looper, the compaction policy, *)
(* the crash recovery) is left out, so what holds here holds for every     *)
(* owner.  The two mutators no production code calls, rollback_to_turn and *)
(* cancel, are in PublicNext only.                                         *)
(***************************************************************************)
EXTENDS SessionOps

CONSTANTS MaxInputs,    \* bound on the inputs that arrive
          MaxMessages,  \* bound on the message ids handed out
          MaxTurns      \* bound on the turn counter

ASSUME BoundsAssumption == MaxInputs \in Nat /\ MaxMessages \in Nat /\ MaxTurns \in Nat

VARIABLES session,      \* the Session value
          arrived       \* how many inputs have been enqueued so far

vars == <<session, arrived>>

-----------------------------------------------------------------------------
(* Bounds of the model. *)

IdsLeft(n) == session.nextId + n <= MaxMessages
TurnsLeft == session.turnIndex < MaxTurns

-----------------------------------------------------------------------------

Init == session = NewSession /\ arrived = 0

EnqueueInput ==
    /\ arrived < MaxInputs
    /\ arrived' = arrived + 1
    /\ session' = EnqueuePending(session, arrived')

StartTurnFromPending ==
    /\ IdsLeft(1) /\ TurnsLeft
    /\ HasPending(session) /\ CanStartTurn(session)
    /\ session' = DequeueAndStartTurn(session)
    /\ UNCHANGED arrived

SteerPending ==
    /\ IdsLeft(1)
    /\ HasPending(session) /\ CanStage(session)
    /\ session' = DrainPendingIntoTurn(session)
    /\ UNCHANGED arrived

StageItem ==
    /\ IdsLeft(1) /\ CanStage(session)
    /\ \/ \E kind \in {"text", "reasoning"} :
            session' = Stage(session, kind, NoCall, <<>>)
       \/ \E kind \in {"call", "output"}, c \in CallIds :
            session' = Stage(session, kind, c, <<>>)
    /\ UNCHANGED arrived

\* stage_salvage has no guard of its own; its caller has a turn in flight and
\* nothing staged.
StageSalvage ==
    /\ IdsLeft(1)
    /\ CanInterrupt(session) /\ session.staged = <<>>
    /\ session' = Stage(session, "text", NoCall, <<>>)
    /\ UNCHANGED arrived

Truncate ==
    /\ CanStage(session)
    /\ \E checkpoint \in 0 .. Len(session.staged) :
          session' = TruncateStaging(session, checkpoint)
    /\ UNCHANGED arrived

Commit ==
    /\ session.state = "Active"
    /\ session' = CommitTurn(session)
    /\ UNCHANGED arrived

\* No state guard in the code.
Rollback ==
    /\ \E requeue \in BOOLEAN : session' = RollbackTurn(session, requeue)
    /\ UNCHANGED arrived

Interrupt ==
    /\ CanInterrupt(session)
    /\ IdsLeft(Cardinality(Dangling(session)) + 1)
    /\ \E closing \in BOOLEAN : session' = InterruptTurn(session, closing)
    /\ UNCHANGED arrived

CompactHistory ==
    /\ IdsLeft(1) /\ session.state = "Idle"
    /\ \E count \in 1 .. MaxTurns : session' = Compact(session, count)
    /\ UNCHANGED arrived

StripHistory ==
    /\ session.state = "Idle"
    /\ \E keep \in 0 .. MaxTurns : session' = StripStaleContent(session, keep)
    /\ UNCHANGED arrived

DropPending ==
    /\ session' = ClearPending(session)
    /\ UNCHANGED arrived

Next ==
    \/ EnqueueInput
    \/ StartTurnFromPending
    \/ SteerPending
    \/ StageItem
    \/ StageSalvage
    \/ Truncate
    \/ Commit
    \/ Rollback
    \/ Interrupt
    \/ CompactHistory
    \/ StripHistory
    \/ DropPending

Spec == Init /\ [][Next]_vars

\* The mutators only tests call.
BackToTurn ==
    /\ \E turn \in 0 .. Len(session.committed) :
          session' = RollbackToTurn(session, turn)
    /\ UNCHANGED arrived

Cancel ==
    /\ session.state = "Active"
    /\ session' = CancelTurn(session)
    /\ UNCHANGED arrived

PublicNext == Next \/ BackToTurn \/ Cancel

PublicSpec == Init /\ [][PublicNext]_vars

-----------------------------------------------------------------------------
(* Properties. *)

\* The session is a value of its Rust type (state, buffers, counters).
TypeOK == session \in Session /\ arrived \in Nat

\* Ids increase along the history and are never reused, the pinned summary's
\* included (allocate_message_id, and truncate_staging that does not rewind it).
MessageIdsInOrder == IdsInOrder(session)

\* Every input is in the queue, in the history, or dropped for good: never in
\* two places, never before an older one (enqueue_pending, take_pending_batch,
\* and the requeue of rollback_turn that goes to the front of the queue).
InputsKeepOrder == InputsInOrder(session, arrived)

\* compact never takes a turn number below zero (usize), in whatever order turns
\* are committed, rolled back to and compacted.
NoTurnUnderflow == TurnNumbersCoverPositions(session)

\* Turn numbers tell turns apart for their consumers, the turn in flight
\* included, as long as nobody calls rollback_to_turn.
TurnNumbersSeparate == TurnNumbersIncrease(session) /\ StagingIsCurrent(session)

\* interrupt_turn leaves no dangling tool call in the history, nor does a strip
\* bring one back or leave a turn without messages: a provider would reject it.
HistoryIsLegal == FrozenTurnsAnswered(session) /\ NoEmptyTurn(session)

=============================================================================
