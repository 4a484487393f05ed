------------------------------ MODULE SessionOps ------------------------------
(***************************************************************************)
(* The session entity of peco-core (session/session.rs, session/buffer.rs) *)
(* as operators on a session value: each operator is one public mutator of *)
(* `Session`, applied when its precondition holds.  The modules that own a *)
(* session (Session, AgentLooper, SessionRecovery) put the preconditions   *)
(* in their guards: a call made in another state returns Err and changes   *)
(* nothing.                                                                *)
(*                                                                         *)
(* Data: user inputs are the numbers 1, 2, ... in their order of arrival,  *)
(* so a user message is the sequence of inputs merged into it.  Text is    *)
(* not represented.  Options are sequences of length at most one, as the   *)
(* code only ever iterates over them together with the buffers they head.  *)
(***************************************************************************)
EXTENDS Integers, Sequences, FiniteSets

CONSTANTS CallIds,   \* the call_id values the model may give a tool call
          NoCall     \* the call field of every other message

ASSUME NoCallAssumption == NoCall \notin CallIds

-----------------------------------------------------------------------------
(* Messages and sessions. *)

SessionState == {"Idle", "Active", "Cancelling", "Interrupted"}

\* InputItem together with the part of MessageSource that tells a synthetic
\* message from a real one: "notice" is the interrupt notice, "epilogue" the
\* closing report, "summary" the pinned product of compaction.
Kind == {"user", "text", "reasoning", "call", "output",
         "notice", "epilogue", "summary"}

Message == [id: Nat, turn: Nat, kind: Kind,
            call: CallIds \cup {NoCall}, body: Seq(Nat)]

Session == [state: SessionState,
            committed: Seq(Seq(Message)),
            userInput: Seq(Message),
            staged: Seq(Message),
            pending: Seq(Nat),
            pinned: Seq(Message),
            turnIndex: Nat,
            nextId: Nat]

NewSession == [state |-> "Idle", committed |-> <<>>, userInput |-> <<>>,
               staged |-> <<>>, pending |-> <<>>, pinned |-> <<>>,
               turnIndex |-> 0, nextId |-> 0]

CanStartTurn(s) == s.state = "Idle"
CanStage(s) == s.state = "Active"
HasPending(s) == s.pending # <<>>

\* staging.take_all / staging_all: the user input heads the staged messages.
StagingAll(s) == s.userInput \o s.staged

-----------------------------------------------------------------------------
(* Choosing elements of a sequence by position, in their order.  Written   *)
(* with sets and functions only, so that its properties can be proved.     *)

Increasing(f) == \A i, j \in DOMAIN f : i < j => f[i] < f[j]

Rank(D, d) == Cardinality({e \in D : e < d})

\* The elements of a finite set of numbers in order.
Listing(D) == [i \in 1 .. Cardinality(D) |-> CHOOSE d \in D : Rank(D, d) = i - 1]

\* Vec::retain: the elements of seq at the positions in D.
Retain(seq, D) == LET order == Listing(D) IN [i \in DOMAIN order |-> seq[order[i]]]

-----------------------------------------------------------------------------
(* Turn life cycle. *)

NewMessage(s, kind, call, body) ==
    [id |-> s.nextId, turn |-> s.turnIndex, kind |-> kind,
     call |-> call, body |-> body]

StartTurn(s, body) ==
    [s EXCEPT !.userInput = <<NewMessage(s, "user", NoCall, body)>>,
              !.nextId = @ + 1,
              !.state = "Active"]

\* push_staged; stage_item is the same under the guard CanStage.
Stage(s, kind, call, body) ==
    [s EXCEPT !.staged = Append(@, NewMessage(s, kind, call, body)),
              !.nextId = @ + 1]

\* Positions of the staged calls whose call_id no staged output carries.
Dangling(s) ==
    {i \in DOMAIN s.staged :
        /\ s.staged[i].kind = "call"
        /\ ~ \E j \in DOMAIN s.staged :
                s.staged[j].kind = "output" /\ s.staged[j].call = s.staged[i].call}

\* One synthetic output per dangling call, in the order of the calls.
PatchOutputs(s) ==
    LET order == Listing(Dangling(s))
    IN  [i \in DOMAIN order |->
            [NewMessage(s, "output", s.staged[order[i]].call, <<>>)
                EXCEPT !.id = s.nextId + i - 1]]

PatchDanglingToolCalls(s) ==
    [s EXCEPT !.staged = @ \o PatchOutputs(s),
              !.nextId = @ + Cardinality(Dangling(s))]

\* Faulty: the history counter is not advanced.
PushTurnForgetsCounter(s) ==
    [s EXCEPT !.committed = Append(@, StagingAll(s)), !.userInput = <<>>,
              !.staged = <<>>, !.state = "Idle"]

\* staging.take_all moved to committed, on the way back to Idle.
PushTurn(s) ==
    [s EXCEPT !.committed = Append(@, StagingAll(s)),
              !.userInput = <<>>,
              !.staged = <<>>,
              !.turnIndex = @ + 1,
              !.state = "Idle"]

ClearStaging(s) == [s EXCEPT !.userInput = <<>>, !.staged = <<>>, !.state = "Idle"]

\* An empty staging area is not committed.
CommitTurn(s) == IF StagingAll(s) = <<>> THEN [s EXCEPT !.state = "Idle"]
                                         ELSE PushTurn(s)

\* Faulty: the requeued inputs go to the back of the queue.
RollbackTurnToBack(s, requeue) ==
    IF requeue /\ s.userInput # <<>> /\ s.userInput[1].kind = "user"
    THEN [ClearStaging(s) EXCEPT !.pending = @ \o s.userInput[1].body]
    ELSE ClearStaging(s)

\* requeue puts the inputs of the user message back at the FRONT of pending;
\* they come back as one input, here as the sequence they were merged from.
RollbackTurn(s, requeue) ==
    IF requeue /\ s.userInput # <<>> /\ s.userInput[1].kind = "user"
    THEN [ClearStaging(s) EXCEPT !.pending = s.userInput[1].body \o @]
    ELSE ClearStaging(s)

CanInterrupt(s) == s.state \in {"Active", "Cancelling", "Interrupted"}

Notice(closing) == IF closing THEN "epilogue" ELSE "notice"

\* Faulty: no synthetic outputs; and: the counter stays on this path.
InterruptTurnUnpatched(s, closing) ==
    IF s.staged = <<>>
    THEN RollbackTurn(s, FALSE)
    ELSE PushTurn(Stage(s, Notice(closing), NoCall, <<>>))

InterruptTurnForgetsCounter(s, closing) ==
    IF s.staged = <<>>
    THEN RollbackTurn(s, FALSE)
    ELSE PushTurnForgetsCounter(Stage(PatchDanglingToolCalls(s), Notice(closing), NoCall, <<>>))

\* closing: an epilogue replaces the interrupt notice.
InterruptTurn(s, closing) ==
    IF s.staged = <<>>
    THEN RollbackTurn(s, FALSE)
    ELSE PushTurn(Stage(PatchDanglingToolCalls(s),
                        Notice(closing), NoCall, <<>>))

\* Never touches the user input, never rewinds nextId.
TruncateStaging(s, checkpoint) == [s EXCEPT !.staged = SubSeq(@, 1, checkpoint)]

CancelTurn(s) == [s EXCEPT !.state = "Cancelling"]

-----------------------------------------------------------------------------
(* Committed history. *)

\* No guard on the state: a turn in flight is dropped with its staging.
RollbackToTurn(s, turn) ==
    [ClearStaging(s) EXCEPT !.committed = SubSeq(@, 1, turn),
                            !.turnIndex = turn]

\* The oldest turns go, the rest is renumbered, the counter stays.
EvictCount(s, count) ==
    IF count < Len(s.committed) THEN count
    ELSE IF s.committed = <<>> THEN 0 ELSE Len(s.committed) - 1

\* Faulty: off by one.
RenumberOnceTooFar(turn, evicted) ==
    [i \in DOMAIN turn |-> [turn[i] EXCEPT !.turn = @ - (evicted + 1)]]

Renumber(turn, evicted) == [i \in DOMAIN turn |-> [turn[i] EXCEPT !.turn = @ - evicted]]

SummaryOf(s) == [NewMessage(s, "summary", NoCall, <<>>) EXCEPT !.turn = 0]

\* Faulty: the summary does not consume its id.
CompactReusesId(s, count) ==
    LET evicted == EvictCount(s, count)
    IN  IF evicted = 0
        THEN s
        ELSE [s EXCEPT !.committed = [p \in 1 .. Len(@) - evicted |->
                                        Renumber(@[p + evicted], evicted)],
                       !.pinned = <<SummaryOf(s)>>]

Compact(s, count) ==
    LET evicted == EvictCount(s, count)
    IN  IF evicted = 0
        THEN s
        ELSE [s EXCEPT !.committed = [p \in 1 .. Len(@) - evicted |->
                                        Renumber(@[p + evicted], evicted)],
                       !.pinned = <<SummaryOf(s)>>,
                       !.nextId = @ + 1]

\* Reasoning items leave the turns older than the newest `keep`; a turn that
\* holds nothing else is skipped.  Shortened arguments and outputs are data.
Kept(turn) == {i \in DOMAIN turn : turn[i].kind # "reasoning"}
StripTurn(turn) == IF Kept(turn) = {} THEN turn ELSE Retain(turn, Kept(turn))

StripStaleContent(s, keep) ==
    [s EXCEPT !.committed =
        [p \in DOMAIN @ |-> IF p + keep <= Len(s.committed) THEN StripTurn(@[p]) ELSE @[p]]]

-----------------------------------------------------------------------------
(* Pending queue. *)

EnqueuePending(s, input) == [s EXCEPT !.pending = Append(@, input)]
ClearPending(s) == [s EXCEPT !.pending = <<>>]

\* take_pending_batch, merged into one user message: of the turn in flight ...
DrainPendingIntoTurn(s) ==
    IF HasPending(s) /\ CanStage(s)
    THEN [Stage(s, "user", NoCall, s.pending) EXCEPT !.pending = <<>>]
    ELSE s

\* ... or of a new turn.
DequeueAndStartTurn(s) == [StartTurn(s, s.pending) EXCEPT !.pending = <<>>]

-----------------------------------------------------------------------------
(* What a session value promises.  Stated on values, so that every module  *)
(* that owns a session can check it, and each mutator can be proved to     *)
(* keep it on its own.                                                     *)

\* The committed turns and, last, the turn in flight (empty when there is none).
Turns(s) == Append(s.committed, StagingAll(s))

Precedes(p, i, q, j) == p < q \/ (p = q /\ i < j)

OrderedIds(T) ==
    \A p, q \in DOMAIN T : \A i \in DOMAIN T[p], j \in DOMAIN T[q] :
        Precedes(p, i, q, j) => T[p][i].id < T[q][j].id

\* all_message_refs is in the order of the ids, and no id is handed out twice:
\* an id that reached an event or a checkpoint never names another message.
IdsInOrder(s) ==
    LET T == Turns(s)
    IN  /\ OrderedIds(T)
        /\ \A p \in DOMAIN T : \A i \in DOMAIN T[p] :
              /\ T[p][i].id < s.nextId
              /\ \A k \in DOMAIN s.pinned : T[p][i].id # s.pinned[k].id
        /\ \A k \in DOMAIN s.pinned : s.pinned[k].id < s.nextId

AllBelow(v, w) == \A a \in DOMAIN v, b \in DOMAIN w : v[a] < w[b]

OrderedInputs(T) ==
    /\ \A p, q \in DOMAIN T : \A i \in DOMAIN T[p], j \in DOMAIN T[q] :
          Precedes(p, i, q, j) => AllBelow(T[p][i].body, T[q][j].body)
    /\ \A p \in DOMAIN T : \A i \in DOMAIN T[p] : Increasing(T[p][i].body)

\* Inputs stand in the history and in the queue in the order they arrived, none
\* of them twice, whatever was merged, steered, requeued or dropped.
InputsInOrder(s, last) ==
    LET T == Turns(s)
    IN  /\ OrderedInputs(T)
        /\ \A p \in DOMAIN T : \A i \in DOMAIN T[p] :
              /\ AllBelow(T[p][i].body, s.pending)
              /\ AllBelow(T[p][i].body, <<last + 1>>)
        /\ Increasing(s.pending)
        /\ AllBelow(s.pending, <<last + 1>>)

\* The subtraction in compact cannot go below zero: no message carries a turn
\* number smaller than its position, although the counter is never taken back.
TurnNumbersCoverPositions(s) ==
    /\ Len(s.committed) <= s.turnIndex
    /\ \A p \in DOMAIN s.committed : \A i \in DOMAIN s.committed[p] :
          s.committed[p][i].turn >= p - 1

\* The context filter of peco-server (peco/filter.rs) takes for the current turn
\* every message whose turn number reaches that of the last message, and groups
\* the others by equal numbers: numbers must separate the turns and increase.
TurnNumbersIncrease(s) ==
    /\ \A p, q \in DOMAIN s.committed :
         \A i \in DOMAIN s.committed[p], j \in DOMAIN s.committed[q] :
            /\ p < q => s.committed[p][i].turn < s.committed[q][j].turn
            /\ p = q => s.committed[p][i].turn = s.committed[q][j].turn
    /\ \A p \in DOMAIN s.committed : \A i \in DOMAIN s.committed[p] :
          s.committed[p][i].turn < s.turnIndex

Answered(turn, i) ==
    turn[i].kind = "call" =>
        \E j \in DOMAIN turn : turn[j].kind = "output" /\ turn[j].call = turn[i].call

Closing == {"notice", "epilogue"}

AnsweredIfClosed(turn) ==
    \A k \in DOMAIN turn : turn[k].kind \in Closing =>
        k = Len(turn) /\ \A i \in DOMAIN turn : Answered(turn, i)

\* A turn frozen by interrupt_turn ends with its notice, and leaves no call
\* without an output: a provider rejects the history otherwise.
FrozenTurnsAnswered(s) ==
    \A p \in DOMAIN s.committed : AnsweredIfClosed(s.committed[p])

\* A committed turn holds at least one message, also after a strip.
NoEmptyTurn(s) == \A p \in DOMAIN s.committed : s.committed[p] # <<>>

\* What is staged belongs to the turn in flight, which nothing has closed yet.
StagingIsCurrent(s) ==
    \A i \in DOMAIN StagingAll(s) :
        StagingAll(s)[i].turn = s.turnIndex /\ StagingAll(s)[i].kind \notin Closing

\* The staging area is headed by what the user said, never by a model's item.
UserHeadsTurn(s) == \A i \in DOMAIN s.userInput : s.userInput[i].kind = "user"

IdleIsClean(s) == s.state = "Idle" => StagingAll(s) = <<>>

\* All of it but TurnNumbersIncrease, which rollback_to_turn can break.
Sound(s, last) ==
    /\ s \in Session
    /\ IdleIsClean(s)
    /\ UserHeadsTurn(s)
    /\ StagingIsCurrent(s)
    /\ IdsInOrder(s)
    /\ InputsInOrder(s, last)
    /\ TurnNumbersCoverPositions(s)
    /\ FrozenTurnsAnswered(s)
    /\ NoEmptyTurn(s)

=============================================================================
