------------------------------- MODULE Context -------------------------------
(***************************************************************************)
(* What the model gets to see of a session: the strategies of              *)
(* peco-core/src/agent/context.rs and the filter of Peco                   *)
(* (peco-server/src/peco/filter.rs), applied to the session at any moment  *)
(* a request may be made.                                                  *)
(*                                                                         *)
(* Data: a message weighs one token.                                       *)
(***************************************************************************)
EXTENDS Session, SequencesExt, FiniteSetsExt

CONSTANT MaxBudget      \* bound on the windows and budgets that are tried

ASSUME BudgetAssumption == MaxBudget \in Nat

\* all_message_refs.
Messages == session.pinned \o FlattenSeq(session.committed) \o StagingAll(session)

TurnsOf(messages) == {messages[i].turn : i \in DOMAIN messages}

\* The messages that are in a set, in their order.
Chosen(messages, these) == Retain(messages, {i \in DOMAIN messages : messages[i] \in these})

\* Faulty: off by one.
FromTurnExclusive(messages, first) ==
    Chosen(messages, {m \in Range(messages) : m.turn > first})

FromTurn(messages, first) == Chosen(messages, {m \in Range(messages) : m.turn >= first})

\* build_sliding_window: the turns from max_turn - (max_turns - 1), or from 0.
SlidingWindow(messages, maxTurns) ==
    IF maxTurns = 0 \/ messages = <<>> THEN <<>>
    ELSE LET newest == Max(TurnsOf(messages))
         IN  FromTurn(messages, IF newest >= maxTurns - 1 THEN newest - (maxTurns - 1) ELSE 0)

\* Faulty: the budget cuts between messages.
StartsAnywhere(messages) == DOMAIN messages

\* Where the messages of a turn begin.
Starts(messages) == {i \in DOMAIN messages : i = 1 \/ messages[i - 1].turn # messages[i].turn}

\* build_token_budget: turns from the newest back, as long as they fit; the newest
\* always does.
TokenBudget(messages, budget) ==
    LET starts == Starts(messages)
        fits == {i \in starts : Len(messages) - i + 1 <= budget \/ i = Max(starts)}
    IN  IF messages = <<>> THEN <<>>
        ELSE FromTurn(messages, Min({messages[i].turn : i \in fits}))

-----------------------------------------------------------------------------
(* PecoContextFilter. *)

\* is_viewable_item: what was said, by the user or the assistant.
Viewable(m) == m.kind \in {"user", "text", "notice", "epilogue"}

View(messages) == Chosen(messages, {m \in Range(messages) : Viewable(m)})

\* select_history_turns: turns from the newest back, by what is viewable of them;
\* the first that does not fit is the end.
SelectHistoryTurns(history, budget) ==
    LET from == {i \in Starts(history) : Len(View(SubSeq(history, i, Len(history)))) <= budget}
    IN  IF from = {} THEN <<>> ELSE SubSeq(history, Min(from), Len(history))

\* The turn of the last message.
CurrentTurn(messages) == Last(messages).turn

Summaries(messages) == {m \in Range(messages) : m.kind = "summary"}

\* The summary, what is viewable of the history that fits, the turn in flight.
PecoFilter(messages, budget) ==
    LET current == CurrentTurn(messages)
        spoken == Range(messages) \ Summaries(messages)
        history == Chosen(messages, {m \in spoken : m.turn < current})
    IN  Chosen(messages, Summaries(messages))
        \o View(SelectHistoryTurns(history, budget))
        \o Chosen(messages, {m \in spoken : m.turn >= current})

-----------------------------------------------------------------------------
(* Properties: a request is made while a turn is in flight. *)

Requests(messages) ==
    {SlidingWindow(messages, n) : n \in 1 .. MaxBudget + 1}
    \cup {TokenBudget(messages, n) : n \in 0 .. MaxBudget}
    \cup {PecoFilter(messages, n) : n \in 0 .. MaxBudget}

InCall(m) == m.kind \in {"call", "output"}

\* Whatever the budget, the turn in flight is sent as a whole and last, and no call
\* without its output or output without its call: a provider rejects the request
\* otherwise (context.rs: windows and budgets keep whole turns).
RequestsAreWhole ==
    session.state = "Active" =>
        LET messages == Messages
        IN  \A request \in Requests(messages) :
                /\ IsSuffix(StagingAll(session), request)
                /\ \A m \in Range(messages), n \in Range(request) :
                      InCall(m) /\ InCall(n) /\ m.turn = n.turn /\ m.call = n.call
                          => m \in Range(request)

\* filter.rs:10-14: the summary comes first and is never dropped, then what was
\* said in whole turns, the newest, as many as the budget admits.
PecoHistoryFits ==
    session.state = "Active" =>
        LET messages == Messages
            history == FlattenSeq(session.committed)
            suffixes == {View(FromTurn(history, first)) : first \in 0 .. session.turnIndex}
        IN  \A budget \in 0 .. MaxBudget :
                LET longest == CHOOSE said \in suffixes :
                                  /\ Len(said) <= budget
                                  /\ \A other \in suffixes :
                                        Len(other) <= budget => Len(other) <= Len(said)
                IN  PecoFilter(messages, budget)
                        = session.pinned \o longest \o StagingAll(session)
=============================================================================
