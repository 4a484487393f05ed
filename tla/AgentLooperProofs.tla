-------------------------- MODULE AgentLooperProofs --------------------------
(***************************************************************************)
(* The invariants of the agent loop, for any bounds, tool calls, limits,   *)
(* hooks and failures of the persister.  The inductive invariant says what *)
(* the loop knows of the turn in flight (Phases), how the session the loop *)
(* owns agrees with it (Agrees), which inputs have reached that session    *)
(* (Arrivals), and what the persister holds of it (Checkpointed, Saved).   *)
(*                                                                         *)
(* Tool calls come after it: no output without its call, no second output, *)
(* and no request with a call that has none unless its task panicked.  The *)
(* invariant Calls ties the tools the loop holds to the calls that are     *)
(* open in the staging area; with it, each way a turn goes on or ends is   *)
(* followed through what it stages.                                        *)
(*                                                                         *)
(* The last part is about crashes and restarts.                            *)
(***************************************************************************)
EXTENDS SessionRecovery, SessionOpsProofs

-----------------------------------------------------------------------------
(* The inductive invariant.                                                *)

\* What the fields of the loop say about each other, whatever the session holds.
Phases ==
    /\ loop.pc = "request" => loop.state = "PreparingRequest"
    /\ loop.pc \in {"start", "exited"} => loop.state = "Idle"
    /\ loop.pc = "react" => loop.state \in Running \cup {"Done"}
    /\ loop.state \notin {"Idle", "Failed"} => loop.reason = "none"
    /\ loop.pause \/ loop.state \in Paused => seen.pause
    /\ turn.stream <=> loop.state = "Streaming"
    /\ turn.spawned => loop.state = "ExecutingTools"
    /\ ~turn.spawned => \A i \in DOMAIN turn.tools : turn.tools[i].task = "none"
    /\ turn.tools # <<>> => loop.state \in {"ExecutingTools", "PausedDuringTools", "Failed"}
    /\ loop.state = "ResolvingResponse" => turn.response \in Response

\* The session has a turn exactly when the loop has one; calls wait in the staging
\* area for their tools.
Agrees ==
    /\ loop.pc # "exited" =>
          session.state = IF loop.state = "Idle" THEN "Idle" ELSE "Active"
    /\ loop.pc # "exited" => QueuedIsArmed
    /\ loop.state \in {"ExecutingTools", "PausedDuringTools"} => session.staged # <<>>

\* The queries in q are later than n, none is later than last, and they are in order.
Awaits(q, n, last) ==
    /\ \A k \in DOMAIN q : q[k].kind = "query" => q[k].input \in n + 1 .. last
    /\ \A k, l \in DOMAIN q :
          k < l /\ q[k].kind = "query" /\ q[l].kind = "query" => q[k].input < q[l].input

\* The session is sound for the inputs it has taken, and the queries in the
\* channel are the later ones, in their order.
Arrivals(R) ==
    /\ TurnNumbersIncrease(session)
    /\ \E n \in 0 .. user.queries : SoundBy(R, session, n) /\ Awaits(user.queue, n, user.queries)

\* A checkpoint of the turn in flight is a prefix of it and holds something the
\* model or a tool said, so that the end of the turn will leave it behind.
Begins(p, q) == Len(p) <= Len(q) /\ \A i \in 1 .. Len(p) : p[i] = q[i]

Checkpointed ==
    disk.checkpoint # NoCheckpoint =>
        \/ disk.checkpoint.turn < session.turnIndex
        \/ /\ disk.checkpoint.turn = session.turnIndex /\ session.staged # <<>>
           /\ Begins(disk.checkpoint.staged, StagingAll(session))

\* No change of the history but a strip goes unsaved, at any time.
Saved == WritesHold => HoldsHistory(disk.saved, session)

Core(R) == TypeOK /\ Phases /\ Agrees /\ Arrivals(R)

CoreInv == Core(Before) /\ Checkpointed /\ Saved
-----------------------------------------------------------------------------
(* The operators of the loop on a session.                                 *)

Item == [kind : Kind \ Closing, call : CallIds \cup {NoCall}]

\* The messages StageItems makes of items.
NewItems(s, items) ==
    [i \in DOMAIN items |->
        [NewMessage(s, items[i].kind, items[i].call, <<>>) EXCEPT !.id = s.nextId + i - 1]]

\* The messages StageItems makes are numbered on from the counter, in their order.
LEMMA NewItemsFacts ==
  ASSUME NEW s \in Session, NEW items \in Seq(Item)
  PROVE  LET new == NewItems(s, items)
         IN  /\ new \in Seq(Message)
             /\ Len(new) = Len(items) /\ Len(new) \in Nat
             /\ DOMAIN new = 1 .. Len(items) /\ DOMAIN items = 1 .. Len(items)
             /\ \A i \in 1 .. Len(items) :
                  /\ new[i].id = s.nextId + i - 1
                  /\ new[i].turn = s.turnIndex /\ new[i].body = <<>>
                  /\ new[i].kind = items[i].kind /\ new[i].kind \notin Closing
                  /\ new[i].call = items[i].call
<1> DEFINE new == NewItems(s, items)
           c == Len(items)
<1>1. /\ s.nextId \in Nat /\ s.turnIndex \in Nat /\ <<>> \in Seq(Nat)
  BY EmptySeq DEF Session
<1>2. c \in Nat /\ DOMAIN items = 1 .. c /\ \A i \in 1 .. c : items[i] \in Item
  BY SeqElement
<1>3. new = [i \in 1 .. c |-> [NewMessage(s, items[i].kind, items[i].call, <<>>)
                                  EXCEPT !.id = s.nextId + i - 1]]
  BY <1>2 DEF NewItems
<1>4. ASSUME NEW i \in 1 .. c
      PROVE  /\ new[i] \in Message
             /\ new[i].id = s.nextId + i - 1
             /\ new[i].turn = s.turnIndex /\ new[i].body = <<>>
             /\ new[i].kind = items[i].kind /\ new[i].kind \notin Closing
             /\ new[i].call = items[i].call
  <2>1. items[i].kind \in Kind \ Closing /\ items[i].call \in CallIds \cup {NoCall}
    BY <1>2 DEF Item
  <2>2. s.nextId + i - 1 \in Nat
    BY <1>1, <1>2
  <2>3. new[i] = [id |-> s.nextId + i - 1, turn |-> s.turnIndex, kind |-> items[i].kind,
                  call |-> items[i].call, body |-> <<>>]
    BY <1>3 DEF NewMessage
  <2>4. QED
    BY <2>1, <2>2, <2>3, <1>1 DEF Message
<1>5. new \in Seq(Message) /\ Len(new) = c
  <2>1. new \in [1 .. c -> Message]
    BY <1>3, <1>4
  <2>2. QED
    BY <2>1, <1>2, SeqDef
<1>6. DOMAIN new = 1 .. c
  BY <1>3
<1> HIDE DEF new, c
<1>7. QED
  BY <1>2, <1>4, <1>5, <1>6 DEF new, c

\* What StageItems changes and what it leaves alone.
LEMMA StageItemsFields ==
  ASSUME NEW s \in Session, NEW items \in Seq(Item)
  PROVE  LET r == StageItems(s, items)
             new == NewItems(s, items)
         IN  /\ r \in Session
             /\ r.committed = s.committed /\ r.turnIndex = s.turnIndex /\ r.pinned = s.pinned
             /\ r.state = s.state /\ r.pending = s.pending /\ r.userInput = s.userInput
             /\ r.staged = s.staged \o new
             /\ StagingAll(r) = StagingAll(s) \o new
             /\ Extends(r, s, new) /\ Consumes(r, s, new)
<1> DEFINE r == StageItems(s, items)
           new == NewItems(s, items)
           head == s.userInput
           tail == s.staged
           c == Len(items)
<1>1. /\ new \in Seq(Message) /\ Len(new) = c /\ c \in Nat /\ DOMAIN new = 1 .. c
      /\ \A i \in 1 .. c : new[i].id = s.nextId + i - 1 /\ new[i].body = <<>>
  BY NewItemsFacts
<1>2. s.nextId \in Nat /\ head \in Seq(Message) /\ tail \in Seq(Message)
  BY DEF Session
<1>3. r = [s EXCEPT !.staged = tail \o new, !.nextId = s.nextId + c]
  BY DEF StageItems, NewItems
<1> HIDE DEF new, head, tail, c, r
<1>4. /\ r.committed = s.committed /\ r.turnIndex = s.turnIndex
      /\ r.state = s.state /\ r.pending = s.pending /\ r.userInput = s.userInput
      /\ r.staged = tail \o new /\ r.nextId = s.nextId + c /\ r.pinned = s.pinned
  BY <1>3 DEF Session
<1>5. r \in Session
  <2>1. tail \o new \in Seq(Message) /\ s.nextId + c \in Nat
    BY <1>1, <1>2, ConcatProperties
  <2>2. QED
    BY <2>1, <1>3 DEF Session
<1>6. StagingAll(r) = StagingAll(s) \o new
  <2>1. (head \o tail) \o new = head \o (tail \o new)
    BY SMTT(40), <1>1, <1>2, ConcatAssociative
  <2>2. QED
    BY <2>1, <1>4 DEF StagingAll, head, tail
<1>7. Extends(r, s, new)
  <2>1. \A k \in DOMAIN new : s.nextId <= new[k].id /\ new[k].id < r.nextId
    BY <1>1, <1>2, <1>4
  <2>2. \A k, l \in DOMAIN new : k < l => new[k].id < new[l].id
    BY SMTT(40), <1>1, <1>2
  <2>3. s.nextId <= r.nextId
    BY <1>1, <1>2, <1>4
  <2>4. QED
    BY <2>1, <2>2, <2>3, <1>4, <1>6 DEF Extends
<1>8. Consumes(r, s, new)
  BY <1>1, <1>4 DEF Consumes
<1>9. QED
  BY <1>4, <1>5, <1>6, <1>7, <1>8 DEF r, new, tail

\* Staging items keeps every promise of a session with a turn in flight.
LEMMA StageItemsKeeps ==
  ASSUME NEW R, NEW s \in Session, NEW n \in Nat, SoundBy(R, s, n), s.state # "Idle",
         NEW items \in Seq(Item)
  PROVE  /\ SoundBy(R, StageItems(s, items), n)
         /\ TurnNumbersIncrease(s) => TurnNumbersIncrease(StageItems(s, items))
<1> DEFINE r == StageItems(s, items)
           new == NewItems(s, items)
           all == StagingAll(s)
<1>1. /\ r \in Session
      /\ r.committed = s.committed /\ r.turnIndex = s.turnIndex
      /\ r.state = s.state /\ r.userInput = s.userInput
      /\ StagingAll(r) = all \o new
      /\ Extends(r, s, new) /\ Consumes(r, s, new)
  BY StageItemsFields
<1>2. /\ new \in Seq(Message) /\ DOMAIN new = 1 .. Len(new)
      /\ \A i \in 1 .. Len(new) : new[i].turn = s.turnIndex /\ new[i].kind \notin Closing
  BY NewItemsFacts
<1>3. all \in Seq(Message)
  BY TurnsFacts
<1>4. \A i \in DOMAIN all : all[i].turn = s.turnIndex /\ all[i].kind \notin Closing
  BY DEF SoundBy, StagingIsCurrent
<1> HIDE DEF r, new, all
<1>5. IdsInOrder(r) /\ InputsBy(R, r, n)
  BY <1>1, <1>2, ExtendingKeepsIds, ExtendingKeepsInputs DEF SoundBy
<1>6. StagingIsCurrent(r)
  <2>1. SUFFICES ASSUME NEW i \in DOMAIN (all \o new)
                 PROVE  (all \o new)[i].turn = s.turnIndex /\ (all \o new)[i].kind \notin Closing
    BY <1>1 DEF StagingIsCurrent
  <2>2. \/ i \in DOMAIN all /\ (all \o new)[i] = all[i]
        \/ i - Len(all) \in DOMAIN new /\ (all \o new)[i] = new[i - Len(all)]
    BY <1>2, <1>3, ConcatParts
  <2>3. QED
    BY <2>2, <1>2, <1>4
<1>7. IdleIsClean(r) /\ UserHeadsTurn(r)
  BY <1>1 DEF IdleIsClean, UserHeadsTurn, SoundBy
<1>8. QED
  BY <1>1, <1>5, <1>6, <1>7, SameHistory DEF SoundBy, r

\* The outputs StageToolResults stages, one for each tool that has a result.
Results(tools) ==
    LET answered == Retain(tools, {i \in DOMAIN tools : tools[i].result})
    IN  [i \in DOMAIN answered |-> [kind |-> "output", call |-> answered[i].call]]

\* Each of them stands for a tool of its own that has a result, in the order of the
\* tools.
LEMMA ResultsFacts ==
  ASSUME NEW tools \in Seq(Tool)
  PROVE  LET order == Listing({i \in DOMAIN tools : tools[i].result})
         IN  /\ Results(tools) \in Seq(Item)
             /\ \A i \in DOMAIN Results(tools) :
                  /\ order[i] \in DOMAIN tools /\ tools[order[i]].result
                  /\ Results(tools)[i].kind = "output"
                  /\ Results(tools)[i].call = tools[order[i]].call
             /\ \A i, j \in DOMAIN Results(tools) : i < j => order[i] < order[j]
             /\ \A k \in DOMAIN tools : tools[k].result =>
                  \E i \in DOMAIN Results(tools) : Results(tools)[i].call = tools[k].call
<1> DEFINE D == {i \in DOMAIN tools : tools[i].result}
           order == Listing(D)
           answered == Retain(tools, D)
           c == Len(answered)
<1>1. D \in SUBSET DOMAIN tools
  OBVIOUS
<1>5. \A d \in D : d \in DOMAIN tools /\ tools[d].result
  OBVIOUS
<1>6. \A k \in DOMAIN tools : tools[k].result => k \in D
  OBVIOUS
<1> HIDE DEF D
<1>2. /\ answered \in Seq(Tool)
      /\ \A i \in DOMAIN answered : order[i] \in D /\ answered[i] = tools[order[i]]
      /\ \A i, j \in DOMAIN answered : i < j => order[i] < order[j]
      /\ \A d \in D : \E i \in DOMAIN answered : order[i] = d
  BY <1>1, RetainFacts
<1>3. c \in Nat /\ DOMAIN answered = 1 .. c /\ \A i \in 1 .. c : answered[i] \in Tool
  BY <1>2, SeqElement, LenProperties
<1>4. Results(tools) = [i \in 1 .. c |-> [kind |-> "output", call |-> answered[i].call]]
  BY <1>3 DEF Results, D
<1> HIDE DEF order, answered, c
<1>7. Results(tools) \in Seq(Item)
  <2>1. ASSUME NEW i \in 1 .. c PROVE [kind |-> "output", call |-> answered[i].call] \in Item
    BY <1>3 DEF Tool, Item, Kind, Closing
  <2>2. Results(tools) \in [1 .. c -> Item]
    BY <2>1, <1>4
  <2>3. QED
    BY <2>2, <1>3, SeqDef
<1>8. \A i \in DOMAIN Results(tools) :
        /\ order[i] \in DOMAIN tools /\ tools[order[i]].result
        /\ Results(tools)[i].kind = "output"
        /\ Results(tools)[i].call = tools[order[i]].call
  BY <1>2, <1>3, <1>4, <1>5
<1>9. \A i, j \in DOMAIN Results(tools) : i < j => order[i] < order[j]
  BY <1>2, <1>3, <1>4
<1>10. \A k \in DOMAIN tools : tools[k].result =>
         \E i \in DOMAIN Results(tools) : Results(tools)[i].call = tools[k].call
  <2>1. ASSUME NEW k \in DOMAIN tools, tools[k].result
        PROVE  \E i \in DOMAIN Results(tools) : Results(tools)[i].call = tools[k].call
    <3>1. PICK i \in DOMAIN answered : order[i] = k
      BY <2>1, <1>2, <1>6
    <3>2. QED
      BY <3>1, <1>2, <1>3, <1>4
  <2>2. QED
    BY <2>1
<1>11. QED
  BY <1>7, <1>8, <1>9, <1>10 DEF order, D

\* StageToolResults stages the outputs Results lists.
LEMMA StageToolResultsIs ==
  ASSUME NEW s, NEW tools
  PROVE  StageToolResults(s, tools) = StageItems(s, Results(tools))
BY DEF StageToolResults, Results

\* The session before the freeze: with a stub when it has nothing else.
Stubbed(s, reason) == IF NeedsStub(s, reason) THEN Stage(s, "text", NoCall, <<>>) ELSE s

\* The stub is one message of the model, staged only when nothing else is.
LEMMA StubbedFields ==
  ASSUME NEW s \in Session, NEW reason
  PROVE  LET r == Stubbed(s, reason)
         IN  /\ r \in Session
             /\ r.committed = s.committed /\ r.turnIndex = s.turnIndex /\ r.pinned = s.pinned
             /\ r.state = s.state /\ r.pending = s.pending /\ r.userInput = s.userInput
             /\ \/ r = s
                \/ /\ s.staged = <<>> /\ DOMAIN r.staged = {1}
                   /\ r.staged[1].kind = "text" /\ r.staged # <<>>
<1>1. "text" \in Kind /\ <<>> \in Seq(Nat) /\ NoCall \in CallIds \cup {NoCall}
  BY EmptySeq DEF Kind
<1> DEFINE m == NewMessage(s, "text", NoCall, <<>>)
           t == Stage(s, "text", NoCall, <<>>)
<1>2. /\ t \in Session /\ <<m>> \in Seq(Message)
      /\ t.committed = s.committed /\ t.turnIndex = s.turnIndex /\ t.pinned = s.pinned
      /\ t.state = s.state /\ t.pending = s.pending /\ t.userInput = s.userInput
      /\ t.staged = Append(s.staged, m)
  BY <1>1, StageFields
<1>3. m.kind = "text"
  BY DEF NewMessage
<1> HIDE DEF m, t
<1>4. CASE NeedsStub(s, reason)
  <2>1. s.staged = <<>> /\ Stubbed(s, reason) = t
    BY <1>4 DEF NeedsStub, Stubbed, t
  <2>2. DOMAIN t.staged = {1} /\ t.staged[1] = m /\ t.staged # <<>>
    BY <2>1, <1>2
  <2>3. QED
    BY <2>1, <2>2, <1>2, <1>3
<1>5. CASE ~ NeedsStub(s, reason)
  BY <1>5 DEF Stubbed
<1>6. QED
  BY <1>4, <1>5

\* plan_failure ends the turn: all of it is committed, or it leaves no trace; what
\* the turn had staged is never dropped.
LEMMA FreezeFields ==
  ASSUME NEW s \in Session, NEW tools \in Seq(Tool), NEW reason, NEW closing \in BOOLEAN
  PROVE  LET r == Freeze(s, tools, reason, closing)
         IN  /\ r \in Session /\ r.state = "Idle" /\ r.pinned = s.pinned
             /\ r.pending = s.pending /\ StagingAll(r) = <<>>
             /\ \/ r.turnIndex = s.turnIndex + 1
                \/ r.turnIndex = s.turnIndex /\ r.committed = s.committed /\ s.staged = <<>>
<1> DEFINE t == Stubbed(s, reason)
           u == StageItems(t, Results(tools))
<1>1. Freeze(s, tools, reason, closing) = InterruptTurn(u, closing)
  BY StageToolResultsIs DEF Freeze, Stubbed
<1>2. /\ t \in Session /\ t.turnIndex = s.turnIndex /\ t.pinned = s.pinned /\ t.pending = s.pending
      /\ t.committed = s.committed /\ (s.staged # <<>> => t.staged = s.staged)
  BY StubbedFields
<1>3. Results(tools) \in Seq(Item)
  BY ResultsFacts
<1> HIDE DEF t
<1>4. /\ u \in Session /\ u.turnIndex = t.turnIndex /\ u.pinned = t.pinned /\ u.pending = t.pending
      /\ u.committed = t.committed /\ u.staged = t.staged \o NewItems(t, Results(tools))
  BY <1>2, <1>3, StageItemsFields
<1>5. s.staged # <<>> => u.staged # <<>>
  <2>1. NewItems(t, Results(tools)) \in Seq(Message)
    BY <1>2, <1>3, NewItemsFacts
  <2>2. t.staged \in Seq(Message)
    BY <1>2 DEF Session
  <2>3. t.staged # <<>> => t.staged \o NewItems(t, Results(tools)) # <<>>
    BY <2>1, <2>2, ConcatEqualIffEmpty
  <2>4. QED
    BY <2>3, <1>2, <1>4
<1> HIDE DEF u
<1>6. LET r == InterruptTurn(u, closing)
      IN  /\ r \in Session /\ r.state = "Idle" /\ r.pinned = u.pinned /\ r.pending = u.pending
          /\ StagingAll(r) = <<>>
          /\ u.staged = <<>> => r.turnIndex = u.turnIndex /\ r.committed = u.committed
          /\ u.staged # <<>> => r.turnIndex = u.turnIndex + 1
  BY <1>4, InterruptFields
<1>7. QED
  BY <1>1, <1>2, <1>4, <1>5, <1>6

\* Freezing a turn keeps a session sound.
LEMMA FreezeKeeps ==
  ASSUME NEW R, NEW s \in Session, NEW n \in Nat, SoundBy(R, s, n), s.state # "Idle",
         NEW tools \in Seq(Tool), NEW reason, NEW closing \in BOOLEAN
  PROVE  /\ SoundBy(R, Freeze(s, tools, reason, closing), n)
         /\ TurnNumbersIncrease(s) => TurnNumbersIncrease(Freeze(s, tools, reason, closing))
<1> DEFINE t == Stubbed(s, reason)
           u == StageItems(t, Results(tools))
<1>1. Freeze(s, tools, reason, closing) = InterruptTurn(u, closing)
  BY StageToolResultsIs DEF Freeze, Stubbed
<1>2. t \in Session /\ t.state = s.state
  BY StubbedFields
<1>3. SoundBy(R, t, n) /\ (TurnNumbersIncrease(s) => TurnNumbersIncrease(t))
  <2>1. "text" \in Kind \ Closing /\ NoCall \in CallIds \cup {NoCall}
    BY DEF Kind, Closing
  <2>2. QED
    BY <2>1, StageKeeps DEF Stubbed
<1>4. Results(tools) \in Seq(Item)
  BY ResultsFacts
<1> HIDE DEF t
<1>5. u \in Session
  BY <1>2, <1>4, StageItemsFields
<1>6. SoundBy(R, u, n) /\ (TurnNumbersIncrease(t) => TurnNumbersIncrease(u))
  BY <1>2, <1>3, <1>4, StageItemsKeeps
<1> HIDE DEF u
<1>7. SoundBy(R, InterruptTurn(u, closing), n)
      /\ (TurnNumbersIncrease(u) => TurnNumbersIncrease(InterruptTurn(u, closing)))
  BY <1>5, <1>6, InterruptKeeps
<1>8. QED
  BY <1>1, <1>3, <1>6, <1>7

\* A strip changes the turns of the history, and no more than what it takes out.
LEMMA StrippedFields ==
  ASSUME NEW s \in Session, NEW h \in Stripped(s)
  PROVE  /\ h \in Session /\ h.state = s.state /\ h.turnIndex = s.turnIndex
         /\ h.pending = s.pending /\ h.userInput = s.userInput /\ h.staged = s.staged
         /\ h.nextId = s.nextId /\ h.pinned = s.pinned
         /\ Len(h.committed) = Len(s.committed) /\ DOMAIN h.committed = DOMAIN s.committed
         /\ \A p \in DOMAIN s.committed :
              h.committed[p] = s.committed[p] \/ h.committed[p] = StripTurn(s.committed[p])
<1>1. CASE h = s
  BY <1>1
<1>2. CASE h # s
  <2>1. PICK keep \in 0 .. Len(s.committed) : h = StripStaleContent(s, keep)
    BY <1>2 DEF Stripped
  <2>2. keep \in Nat
    BY <2>1
  <2>3. QED
    BY <2>1, <2>2, StripFields
<1>3. QED
  BY <1>1, <1>2

\* A strip keeps every promise.
LEMMA StrippedKeeps ==
  ASSUME NEW R, NEW s \in Session, NEW n \in Nat, SoundBy(R, s, n), NEW h \in Stripped(s)
  PROVE  /\ SoundBy(R, h, n)
         /\ TurnNumbersIncrease(s) => TurnNumbersIncrease(h)
<1>1. CASE h = s
  BY <1>1
<1>2. CASE h # s
  <2>1. PICK keep \in 0 .. Len(s.committed) : h = StripStaleContent(s, keep)
    BY <1>2 DEF Stripped
  <2>2. keep \in Nat
    BY <2>1
  <2>3. QED
    BY <2>1, <2>2, StripKeeps
<1>3. QED
  BY <1>1, <1>2

\* What is saved as it is holds the history; so does what is saved before a strip.
LEMMA StripIsHeld ==
  ASSUME NEW saved, NEW s, s = saved \/ s \in Stripped(saved)
  PROVE  HoldsHistory(saved, s)
<1>1. s \in Stripped(saved)
  BY DEF Stripped
<1>2. QED
  BY <1>1 DEF HoldsHistory

\* What holds the history of a session has its turns, and their number.
LEMMA HeldHistory ==
  ASSUME NEW saved \in Session, NEW s, HoldsHistory(saved, s)
  PROVE  /\ saved.turnIndex = s.turnIndex /\ saved.pinned = s.pinned
         /\ Len(saved.committed) = Len(s.committed) /\ DOMAIN saved.committed = DOMAIN s.committed
         /\ \A p \in DOMAIN s.committed :
              s.committed[p] = saved.committed[p] \/ s.committed[p] = StripTurn(saved.committed[p])
<1>1. PICK h \in Stripped(saved) :
        h.committed = s.committed /\ h.pinned = s.pinned /\ h.turnIndex = s.turnIndex
  BY DEF HoldsHistory
<1>2. QED
  BY <1>1, StrippedFields

\* What a boundary makes of a history is stripped, and then folded or not.
LEMMA BoundaryIs ==
  ASSUME NEW s \in Session, NEW b \in Boundaries(s)
  PROVE  \E t \in Stripped(s) : b = t \/ \E count \in Nat : b = Compact(t, count)
<1>1. Len(s.committed) \in Nat
  BY LenProperties DEF Session
<1>2. CASE b \in Stripped(s)
  BY <1>2
<1>3. CASE b \notin Stripped(s)
  <2>1. PICK t \in Stripped(s), count \in 1 .. Len(s.committed) - 1 : b = Compact(t, count)
    BY <1>3 DEF Boundaries
  <2>2. count \in Nat
    BY <1>1, <2>1
  <2>3. QED
    BY <2>1, <2>2
<1>4. QED
  BY <1>2, <1>3

\* A compaction of a session between two turns keeps every promise, and changes
\* nothing but the history.
LEMMA BoundaryFacts ==
  ASSUME NEW R, NEW s \in Session, NEW n \in Nat, SoundBy(R, s, n), s.state = "Idle",
         NEW b \in Boundaries(s)
  PROVE  /\ SoundBy(R, b, n)
         /\ TurnNumbersIncrease(s) => TurnNumbersIncrease(b)
         /\ b \in Session /\ b.state = "Idle" /\ b.turnIndex = s.turnIndex
         /\ b.pending = s.pending /\ b.userInput = s.userInput /\ b.staged = s.staged
         /\ s.nextId <= b.nextId
<1>1. PICK t \in Stripped(s) : b = t \/ \E count \in Nat : b = Compact(t, count)
  BY BoundaryIs
<1>2. /\ SoundBy(R, t, n)
      /\ TurnNumbersIncrease(s) => TurnNumbersIncrease(t)
      /\ t \in Session /\ t.state = "Idle" /\ t.turnIndex = s.turnIndex
      /\ t.pending = s.pending /\ t.userInput = s.userInput /\ t.staged = s.staged
      /\ t.nextId = s.nextId
  BY StrippedFields, StrippedKeeps
<1>3. t.nextId \in Nat
  BY <1>2 DEF Session
<1>4. CASE b = t
  BY <1>2, <1>3, <1>4
<1>5. ASSUME NEW count \in Nat, b = Compact(t, count)
      PROVE  /\ SoundBy(R, b, n) /\ (TurnNumbersIncrease(t) => TurnNumbersIncrease(b))
             /\ b \in Session /\ b.state = t.state /\ b.turnIndex = t.turnIndex
             /\ b.pending = t.pending /\ b.userInput = t.userInput /\ b.staged = t.staged
             /\ t.nextId <= b.nextId
  <2>1. CASE EvictCount(t, count) = 0
    BY <1>2, <1>3, <1>5, <2>1 DEF Compact
  <2>2. CASE EvictCount(t, count) # 0
    <3>1. TurnNumbersCoverPositions(t)
      BY <1>2 DEF SoundBy
    <3>2. /\ b \in Session /\ b.state = t.state /\ b.turnIndex = t.turnIndex
          /\ b.pending = t.pending /\ b.userInput = t.userInput /\ b.staged = t.staged
          /\ b.nextId = t.nextId + 1
      BY <1>2, <1>5, <2>2, <3>1, CompactFields
    <3>3. SoundBy(R, b, n) /\ (TurnNumbersIncrease(t) => TurnNumbersIncrease(b))
      BY <1>2, <1>5, CompactKeeps
    <3>4. QED
      BY <1>3, <3>2, <3>3
  <2>3. QED
    BY <2>1, <2>2
<1>6. QED
  BY <1>1, <1>2, <1>4, <1>5

-----------------------------------------------------------------------------
(* What the shared parts of the actions do.                                *)

TurnType == [iteration : 0 .. MaxIterations, retries : 0 .. RetryLimit, raised : BOOLEAN,
             text : BOOLEAN, response : Response \cup {NoResponse}, stream : BOOLEAN,
             tools : Seq(Tool), spawned : BOOLEAN]

CheckpointType == [turn : Nat, staged : Seq(Message)]
DiskType == [saved : Session, checkpoint : CheckpointType \cup {NoCheckpoint}]

\* The types of the variables the proofs mostly need.
LEMMA Types ==
  ASSUME TypeOK
  PROVE  /\ session \in Session /\ turn \in TurnType /\ disk \in DiskType
         /\ turn.tools \in Seq(Tool) /\ disk.saved \in Session
         /\ session.staged \in Seq(Message) /\ StagingAll(session) \in Seq(Message)
         /\ session.turnIndex \in Nat
<1>1. session \in Session /\ turn \in TurnType /\ disk \in DiskType
  BY DEF TypeOK, TurnType, DiskType, CheckpointType
<1>2. turn.tools \in Seq(Tool)
  BY <1>1 DEF TurnType
<1>3. disk.saved \in Session
  BY <1>1 DEF DiskType
<1>4. session.staged \in Seq(Message) /\ session.turnIndex \in Nat
  BY <1>1 DEF Session
<1>5. QED
  BY <1>1, <1>2, <1>3, <1>4, TurnsFacts

\* Dropping the context leaves the counters.
LEMMA ClearContextFacts ==
  ASSUME TypeOK
  PROVE  LET r == ClearContext
         IN  /\ r \in TurnType
             /\ r.iteration = turn.iteration /\ r.retries = turn.retries
             /\ r.stream = FALSE /\ r.spawned = FALSE /\ r.tools = <<>>
<1>1. turn \in TurnType
  BY Types
<1>2. PICK e : e = <<>>
  OBVIOUS
<1>3. e \in Seq(Tool)
  BY <1>2, EmptySeq
<1>4. ClearContext = [turn EXCEPT !.text = FALSE, !.response = NoResponse,
                                  !.stream = FALSE, !.tools = e, !.spawned = FALSE]
  BY <1>2 DEF ClearContext
<1>5. QED
  BY <1>1, <1>2, <1>3, <1>4 DEF TurnType

\* A new turn starts from nothing.
LEMMA FreshTurnFacts ==
  /\ FreshTurn \in TurnType
  /\ FreshTurn.stream = FALSE /\ FreshTurn.spawned = FALSE /\ FreshTurn.tools = <<>>
<1>1. PICK e : e = <<>>
  OBVIOUS
<1>2. e \in Seq(Tool)
  BY <1>1, EmptySeq
<1>3. FreshTurn = [iteration |-> 0, retries |-> 0, raised |-> FALSE, text |-> FALSE,
                   response |-> NoResponse, stream |-> FALSE, tools |-> e, spawned |-> FALSE]
  BY <1>1 DEF FreshTurn
<1>4. 0 \in 0 .. MaxIterations /\ 0 \in 0 .. RetryLimit
  BY LooperAssumption
<1>5. QED
  BY <1>1, <1>2, <1>3, <1>4 DEF TurnType

\* Nothing is staged in a session between two turns.
LEMMA IdleHasNothing ==
  ASSUME NEW R, NEW s \in Session, NEW n, SoundBy(R, s, n), s.state = "Idle"
  PROVE  s.staged = <<>> /\ s.userInput = <<>> /\ StagingAll(s) = <<>>
<1>1. StagingAll(s) = <<>>
  BY DEF SoundBy, IdleIsClean
<1>2. s.staged \in Seq(Message) /\ s.userInput \in Seq(Message)
  BY DEF Session
<1>3. QED
  BY <1>1, <1>2, ConcatEqualIffEmpty DEF StagingAll

\* A tool with another result is a tool.
LEMMA ToolWithResult ==
  ASSUME NEW t \in Tool, NEW b \in BOOLEAN
  PROVE  LET r == [t EXCEPT !.result = b]
         IN  r \in Tool /\ r.call = t.call /\ r.result = b /\ r.task = t.task
BY DEF Tool

\* Results of tasks that ended are kept, whatever else a tool is.
LEMMA SalvageFacts ==
  ASSUME NEW tools \in Seq(Tool)
  PROVE  /\ Salvage(tools) \in Seq(Tool) /\ DOMAIN Salvage(tools) = DOMAIN tools
         /\ \A i \in DOMAIN tools : Salvage(tools)[i].call = tools[i].call
<1> DEFINE ends(i) == tools[i].result \/ tools[i].task = "finished"
<1>1. Len(tools) \in Nat /\ DOMAIN tools = 1 .. Len(tools) /\ \A i \in DOMAIN tools : tools[i] \in Tool
  BY SeqElement, LenProperties
<1>2. \A i \in DOMAIN tools : ends(i) \in BOOLEAN
  BY <1>1 DEF Tool
<1>3. Salvage(tools) = [i \in 1 .. Len(tools) |-> [tools[i] EXCEPT !.result = ends(i)]]
  BY <1>1 DEF Salvage
<1> HIDE DEF ends
<1>4. ASSUME NEW i \in 1 .. Len(tools)
      PROVE  Salvage(tools)[i] \in Tool /\ Salvage(tools)[i].call = tools[i].call
  <2>1. tools[i] \in Tool /\ ends(i) \in BOOLEAN
    BY <1>1, <1>2
  <2>2. [tools[i] EXCEPT !.result = ends(i)] \in Tool
        /\ [tools[i] EXCEPT !.result = ends(i)].call = tools[i].call
    BY <2>1, ToolWithResult
  <2>3. Salvage(tools)[i] = [tools[i] EXCEPT !.result = ends(i)]
    BY <1>3
  <2>4. QED
    BY <2>2, <2>3
<1>5. Salvage(tools) \in [1 .. Len(tools) -> Tool]
  <2>1. DOMAIN Salvage(tools) = 1 .. Len(tools)
    BY <1>3
  <2>2. QED
    BY <2>1, <1>3, <1>4
<1>6. QED
  BY <1>1, <1>4, <1>5, SeqDef

\* Cancelling a turn ends it, or there was none; what is on disk follows.
LEMMA CancelFacts ==
  ASSUME NEW R, TypeOK, NEW n \in Nat, SoundBy(R, session, n), CancelTheTurn
  PROVE  /\ SoundBy(R, session', n)
         /\ TurnNumbersIncrease(session) => TurnNumbersIncrease(session')
         /\ session' \in Session /\ session'.state = "Idle"
         /\ session'.turnIndex \in {session.turnIndex, session.turnIndex + 1}
         /\ session.staged # <<>> => session'.turnIndex = session.turnIndex + 1
         /\ turn' = ClearContext
         /\ disk' \in DiskType
         /\ disk'.checkpoint \in {disk.checkpoint, NoCheckpoint}
         /\ \/ disk'.saved = session'
            \/ disk'.saved = disk.saved /\ (SaveMayFail \/ session' = session)
<1>1. session \in Session /\ disk \in DiskType /\ turn.tools \in Seq(Tool)
  BY Types
<1>2. turn' = ClearContext
  BY DEF CancelTheTurn
<1>3. CASE InFlight(session)
  <2> DEFINE c == ClearPending(session)
             tools == Salvage(turn.tools)
  <2>1. session.state # "Idle"
    BY <1>1, <1>3, IdleHasNothing DEF InFlight
  <2>2. c \in Session /\ c.state = session.state /\ c.staged = session.staged
        /\ c.turnIndex = session.turnIndex
    BY <1>1, ClearPendingFields DEF SameTurn
  <2>3. SoundBy(R, c, n) /\ (TurnNumbersIncrease(session) => TurnNumbersIncrease(c))
    BY <1>1, ClearPendingKeeps
  <2>4. tools \in Seq(Tool)
    BY <1>1, SalvageFacts
  <2>5. session' = Freeze(c, tools, CancelReason, FALSE)
    BY <1>3 DEF CancelTheTurn
  <2> HIDE DEF c, tools
  <2>6. PICK why, closing : closing \in BOOLEAN /\ session' = Freeze(c, tools, why, closing)
    BY Zenon, <2>5
  <2>7. LET r == Freeze(c, tools, why, closing)
        IN  /\ SoundBy(R, r, n)
            /\ TurnNumbersIncrease(c) => TurnNumbersIncrease(r)
            /\ r \in Session /\ r.state = "Idle"
            /\ r.turnIndex \in {c.turnIndex, c.turnIndex + 1}
            /\ c.staged # <<>> => r.turnIndex = c.turnIndex + 1
    <3>1. c \in Session /\ SoundBy(R, c, n) /\ c.state # "Idle" /\ closing \in BOOLEAN
      BY <2>1, <2>2, <2>3, <2>6
    <3>2. QED
      BY <2>4, <3>1, FreezeKeeps, FreezeFields
  <2>8. PICK saved \in Saves(session'), checkpoint \in InflightWrites(NoCheckpoint) :
          disk' = [saved |-> saved, checkpoint |-> checkpoint]
    BY <1>3 DEF CancelTheTurn
  <2>9. /\ saved = session' \/ (saved = disk.saved /\ SaveMayFail)
        /\ checkpoint \in {disk.checkpoint, NoCheckpoint}
    BY <2>8 DEF Saves, SavedOver, InflightWrites
  <2>10. session' \in Session
    BY <2>5, <2>6, <2>7
  <2>11. disk' \in DiskType
    BY <1>1, <2>8, <2>9, <2>10 DEF DiskType
  <2>12. QED
    BY <1>2, <2>2, <2>3, <2>5, <2>6, <2>7, <2>8, <2>9, <2>10, <2>11
<1>4. CASE ~ InFlight(session)
  <2>1. session' = session /\ session.state = "Idle" /\ session.staged = <<>>
    BY <1>4 DEF CancelTheTurn, InFlight
  <2>2. PICK saved \in Saves(session) :
          disk' = IF HasPending(session) THEN [disk EXCEPT !.saved = saved] ELSE disk
    BY <1>4 DEF CancelTheTurn
  <2>3. saved = session \/ saved = disk.saved
    BY <2>2 DEF Saves, SavedOver
  <2>4. /\ disk' \in DiskType /\ disk'.checkpoint = disk.checkpoint
        /\ disk'.saved = session \/ disk'.saved = disk.saved
    BY <1>1, <2>2, <2>3 DEF DiskType
  <2>5. session.turnIndex \in {session.turnIndex, session.turnIndex + 1}
    OBVIOUS
  <2>6. QED
    BY <1>1, <1>2, <2>1, <2>4, <2>5
<1>5. QED
  BY <1>3, <1>4

\* A model call that came to nothing: the turn goes back to its request, or fails.
LEMMA RetryFacts ==
  ASSUME TypeOK, NEW s, NEW text \in BOOLEAN, NEW cp, NEW truncated \in BOOLEAN,
         RetryOrFail(s, text, cp, truncated)
  PROVE  /\ turn' \in TurnType /\ turn'.stream = FALSE /\ turn'.spawned = turn.spawned
         /\ \/ /\ session' = TruncateStaging(s, cp)
               /\ loop' = Go("PreparingRequest") /\ turn'.tools = <<>>
            \/ session' = s /\ loop' = Fail("other") /\ turn'.tools = turn.tools
<1>1. turn \in TurnType
  BY Types
<1>2. CASE CanRetry(truncated)
  <2>1. PICK e : e = <<>>
    OBVIOUS
  <2>2. e \in Seq(Tool)
    BY <2>1, EmptySeq
  <2>3. PICK b : b = (turn.raised \/ truncated)
    OBVIOUS
  <2>4. b \in BOOLEAN
    BY <1>1, <2>3, Zenon DEF TurnType
  <2>5. turn' = [turn EXCEPT !.retries = turn.retries + 1, !.raised = b, !.text = FALSE,
                             !.tools = e, !.response = NoResponse, !.stream = FALSE]
    BY <1>2, <2>1, <2>3 DEF RetryOrFail, BeginRetry
  <2>6. turn.retries + 1 \in 0 .. RetryLimit
    BY <1>1, <1>2, LooperAssumption DEF CanRetry, TurnType
  <2>7. turn' \in TurnType /\ turn'.stream = FALSE /\ turn'.spawned = turn.spawned /\ turn'.tools = e
    BY <1>1, <2>2, <2>4, <2>5, <2>6 DEF TurnType
  <2>8. session' = TruncateStaging(s, cp) /\ loop' = Go("PreparingRequest")
    BY <1>2 DEF RetryOrFail, BeginRetry
  <2>9. QED
    BY <2>1, <2>7, <2>8
<1>3. CASE ~ CanRetry(truncated)
  <2>1. /\ session' = s /\ loop' = Fail("other")
        /\ turn' = [turn EXCEPT !.text = text, !.response = NoResponse, !.stream = FALSE]
    BY <1>3 DEF RetryOrFail
  <2>2. QED
    BY <1>1, <2>1 DEF TurnType
<1>4. QED
  BY <1>2, <1>3

\* The end of a batch of tools: what has a result gets its output, and the turn goes
\* back to the model.
LEMMA FinishFacts ==
  ASSUME TypeOK, NEW tools \in Seq(Tool), FinishTools(tools)
  PROVE  /\ session' = StageItems(session, Results(tools)) /\ Results(tools) \in Seq(Item)
         /\ SameTurn(session', session) /\ session'.pending = session.pending
         /\ session'.staged = session.staged \o NewItems(session, Results(tools))
         /\ StagingAll(session') = StagingAll(session) \o NewItems(session, Results(tools))
         /\ NewItems(session, Results(tools)) \in Seq(Message)
         /\ turn' = ClearContext /\ loop' = Go("PreparingRequest")
         /\ disk' \in DiskType /\ disk'.saved = disk.saved
         /\ disk'.checkpoint \in {disk.checkpoint, Checkpoint(session')}
<1>1. session \in Session /\ disk \in DiskType /\ Results(tools) \in Seq(Item)
  BY Types, ResultsFacts
<1>2. session' = StageItems(session, Results(tools)) /\ turn' = ClearContext
      /\ loop' = Go("PreparingRequest")
  BY StageToolResultsIs DEF FinishTools
<1>3. /\ SameTurn(session', session) /\ session'.pending = session.pending
      /\ session'.staged = session.staged \o NewItems(session, Results(tools))
      /\ StagingAll(session') = StagingAll(session) \o NewItems(session, Results(tools))
  BY <1>1, <1>2, StageItemsFields DEF SameTurn
<1>4. NewItems(session, Results(tools)) \in Seq(Message)
  BY <1>1, NewItemsFacts
<1>5. PICK s : s = session'
  OBVIOUS
<1>6. s \in Session
  BY <1>3, <1>5 DEF SameTurn
<1>7. PICK checkpoint \in {disk.checkpoint, Checkpoint(s)} :
        disk' = [disk EXCEPT !.checkpoint = checkpoint]
  BY <1>5 DEF FinishTools, InflightWrites
<1>8. Checkpoint(s) \in CheckpointType
  <2>1. StagingAll(s) \in Seq(Message) /\ s.turnIndex \in Nat
    BY <1>6, TurnsFacts DEF Session
  <2>2. QED
    BY <2>1 DEF Checkpoint, CheckpointType
<1>9. disk' \in DiskType /\ disk'.saved = disk.saved /\ disk'.checkpoint = checkpoint
  <2>1. checkpoint \in CheckpointType \cup {NoCheckpoint}
    BY <1>1, <1>7, <1>8 DEF DiskType
  <2>2. QED
    BY <1>1, <1>7, <2>1 DEF DiskType
<1>10. Checkpoint(s) = Checkpoint(session')
  BY <1>5
<1>11. QED
  BY <1>1, <1>2, <1>3, <1>4, <1>7, <1>9, <1>10

\* The blocks of a response: what precedes the calls, one block at most, then the
\* calls in their order.
LEMMA BlocksFacts ==
  ASSUME NEW r \in Response
  PROVE  /\ Blocks(r) \in Seq(Item) /\ r.calls \in Seq(CallIds)
         /\ \E h \in 0 .. 1 :
              /\ Len(Blocks(r)) = h + Len(r.calls)
              /\ \A i \in 1 .. h : Blocks(r)[i].kind \in {"text", "reasoning"}
              /\ \A k \in 1 .. Len(r.calls) :
                   Blocks(r)[h + k].kind = "call" /\ Blocks(r)[h + k].call = r.calls[k]
<1> DEFINE head == IF r.head = "none" THEN <<>> ELSE <<[kind |-> r.head, call |-> NoCall]>>
           calls == [i \in DOMAIN r.calls |-> [kind |-> "call", call |-> r.calls[i]]]
           c == Len(r.calls)
<1>1. r.calls \in Seq(CallIds) /\ r.head \in {"none", "text", "reasoning"}
  BY LooperAssumption DEF Response
<1>2. c \in Nat /\ DOMAIN r.calls = 1 .. c /\ \A i \in 1 .. c : r.calls[i] \in CallIds
  BY <1>1, SeqElement, LenProperties
<1>3. /\ calls \in Seq(Item) /\ Len(calls) = c
      /\ \A i \in 1 .. c : calls[i].kind = "call" /\ calls[i].call = r.calls[i]
  <2>1. \A i \in 1 .. c : [kind |-> "call", call |-> r.calls[i]] \in Item
    BY <1>2 DEF Item, Kind, Closing
  <2>2. calls \in [1 .. c -> Item]
    BY <1>2, <2>1
  <2>3. \A i \in 1 .. c : calls[i].kind = "call" /\ calls[i].call = r.calls[i]
    BY <1>2
  <2> HIDE DEF calls, c
  <2>4. QED
    BY <1>2, <2>2, <2>3, SeqDef
<1>4. /\ head \in Seq(Item) /\ Len(head) \in 0 .. 1
      /\ \A i \in 1 .. Len(head) : head[i].kind \in {"text", "reasoning"}
  <2>1. CASE r.head = "none"
    <3>1. head = <<>>
      BY <2>1
    <3> HIDE DEF head
    <3>2. QED
      BY <3>1, EmptySeq
  <2>2. CASE r.head # "none"
    <3> DEFINE x == [kind |-> r.head, call |-> NoCall]
    <3>1. head = <<x>>
      BY <2>2
    <3>2. x \in Item /\ x.kind \in {"text", "reasoning"}
      BY <1>1, <2>2 DEF Item, Kind, Closing
    <3> HIDE DEF x, head
    <3>3. <<x>> \in Seq(Item) /\ Len(<<x>>) = 1 /\ <<x>>[1] = x
      BY <3>2
    <3>4. QED
      BY <3>1, <3>2, <3>3
  <2>3. QED
    BY <2>1, <2>2
<1>5. Blocks(r) = head \o calls
  BY DEF Blocks
<1> HIDE DEF head, calls
<1>6. /\ head \o calls \in Seq(Item) /\ Len(head \o calls) = Len(head) + Len(calls)
      /\ \A i \in 1 .. Len(head) : (head \o calls)[i] = head[i]
      /\ \A j \in 1 .. Len(calls) : (head \o calls)[Len(head) + j] = calls[j]
  BY <1>3, <1>4, ConcatParts
<1>7. PICK h \in 0 .. 1 : h = Len(head)
  BY <1>4
<1>8. \A i \in 1 .. h : Blocks(r)[i].kind \in {"text", "reasoning"}
  BY <1>4, <1>5, <1>6, <1>7
<1>9. \A k \in 1 .. Len(r.calls) :
        Blocks(r)[h + k].kind = "call" /\ Blocks(r)[h + k].call = r.calls[k]
  BY ZenonT(60), <1>3, <1>5, <1>6, <1>7
<1>10. Blocks(r) \in Seq(Item) /\ Len(Blocks(r)) = h + Len(r.calls)
  BY <1>3, <1>5, <1>6, <1>7
<1>11. QED
  BY <1>1, <1>8, <1>9, <1>10

\* The tools a response asks for.
NewTools(r) == [i \in DOMAIN r.calls |-> [call |-> r.calls[i], result |-> FALSE, task |-> "none"]]

\* They wait, one for each call.
LEMMA NewToolsFacts ==
  ASSUME NEW r \in Response
  PROVE  /\ NewTools(r) \in Seq(Tool)
         /\ DOMAIN NewTools(r) = DOMAIN r.calls /\ r.calls \in Seq(CallIds)
         /\ \A i \in DOMAIN r.calls : /\ NewTools(r)[i].call = r.calls[i]
                                      /\ NewTools(r)[i].task = "none"
<1>1. r.calls \in Seq(CallIds)
  BY DEF Response
<1>2. Len(r.calls) \in Nat /\ DOMAIN r.calls = 1 .. Len(r.calls)
      /\ \A i \in DOMAIN r.calls : r.calls[i] \in CallIds
  BY <1>1, SeqElement, LenProperties
<1>3. \A i \in DOMAIN r.calls : [call |-> r.calls[i], result |-> FALSE, task |-> "none"] \in Tool
  BY <1>2 DEF Tool
<1>4. NewTools(r) \in [1 .. Len(r.calls) -> Tool]
  BY <1>2, <1>3 DEF NewTools
<1>5. QED
  BY <1>1, <1>2, <1>4, SeqDef DEF NewTools

\* What a response makes of the session, the tools and the state of the loop.
LEMMA ResolveFacts ==
  ASSUME TypeOK, turn.response \in Response, ResolveResponse
  PROVE  LET t == StageItems(session, Blocks(turn.response))
         IN  /\ turn' \in TurnType /\ turn'.spawned = turn.spawned
             /\ turn'.stream \in {turn.stream, FALSE}
             /\ \/ session' = t /\ loop' = Go("Done") /\ turn'.tools = turn.tools
                   /\ turn.response.calls = <<>>
                \/ session' = t /\ loop' = Go("ExecutingTools")
                   /\ turn'.tools = NewTools(turn.response) /\ turn.response.calls # <<>>
                \/ session' = t /\ loop' = Fail("other") /\ turn'.tools = turn.tools
                \/ session' = TruncateStaging(t, Len(session.staged))
                   /\ loop' = Go("PreparingRequest") /\ turn'.tools = <<>>
<1> DEFINE r == turn.response
           t == StageItems(session, Blocks(r))
           text == turn.text \/ r.head = "text"
<1>1. turn \in TurnType
  BY Types
<1>2. PICK b : b = text
  OBVIOUS
<1>3. b \in BOOLEAN
  BY <1>1, <1>2, Zenon DEF TurnType
<1>4. NewTools(r) \in Seq(Tool) /\ (NewTools(r) = <<>> <=> r.calls = <<>>)
  <2>1. /\ NewTools(r) \in Seq(Tool) /\ DOMAIN NewTools(r) = DOMAIN r.calls /\ r.calls \in Seq(CallIds)
    BY NewToolsFacts
  <2>2. QED
    BY <2>1, EmptyDomain
<1>5. CASE r.status = "completed"
  <2>1. /\ session' = t
        /\ turn' = [turn EXCEPT !.text = b, !.response = NoResponse,
                                !.tools = IF NewTools(r) = <<>> THEN turn.tools ELSE NewTools(r)]
        /\ loop' = Go(IF NewTools(r) = <<>> THEN "Done" ELSE "ExecutingTools")
    BY <1>2, <1>5 DEF ResolveResponse, NewTools
  <2>2. PICK tools : tools = IF NewTools(r) = <<>> THEN turn.tools ELSE NewTools(r)
    OBVIOUS
  <2>3. tools \in Seq(Tool)
    BY <1>1, <1>4, <2>2 DEF TurnType
  <2> HIDE DEF r, t, text
  <2>4. turn' = [turn EXCEPT !.text = b, !.response = NoResponse, !.tools = tools]
    BY <2>1, <2>2
  <2>5. /\ turn' \in TurnType /\ turn'.spawned = turn.spawned /\ turn'.stream = turn.stream
        /\ turn'.tools = tools
    BY <1>1, <1>3, <2>3, <2>4 DEF TurnType
  <2>6. QED
    BY <1>4, <2>1, <2>2, <2>5 DEF r, t
<1>6. CASE r.status = "failed"
  <2>1. /\ session' = t /\ turn' = [turn EXCEPT !.text = b, !.response = NoResponse]
        /\ loop' = Fail("other")
    BY <1>2, <1>6 DEF ResolveResponse
  <2>2. /\ turn' \in TurnType /\ turn'.spawned = turn.spawned /\ turn'.stream = turn.stream
        /\ turn'.tools = turn.tools
    BY <1>1, <1>3, <2>1 DEF TurnType
  <2>3. QED
    BY <2>1, <2>2
<1>7. CASE r.status # "completed" /\ r.status # "failed"
  <2>1. RetryOrFail(t, b, Len(session.staged), r.status = "truncated")
    BY <1>2, <1>7 DEF ResolveResponse
  <2>2. (r.status = "truncated") \in BOOLEAN
    OBVIOUS
  <2>3. PICK u : u = t
    OBVIOUS
  <2>4. PICK trunc \in BOOLEAN : trunc = (r.status = "truncated")
    BY <2>2
  <2>5. PICK l : l = Len(session.staged)
    OBVIOUS
  <2> HIDE DEF r, t, text
  <2>6. RetryOrFail(u, b, l, trunc)
    BY <2>1, <2>3, <2>4, <2>5
  <2>7. /\ turn' \in TurnType /\ turn'.stream = FALSE /\ turn'.spawned = turn.spawned
        /\ \/ /\ session' = TruncateStaging(u, l)
              /\ loop' = Go("PreparingRequest") /\ turn'.tools = <<>>
           \/ session' = u /\ loop' = Fail("other") /\ turn'.tools = turn.tools
    BY <1>3, <2>6, RetryFacts
  <2>8. QED
    BY <2>3, <2>5, <2>7 DEF t, r
<1>8. QED
  BY <1>5, <1>6, <1>7

\* Steering and the next model call.
LEMMA SendRequestFacts ==
  ASSUME TypeOK, CanStage(session), SendRequest
  PROVE  /\ turn' \in TurnType /\ turn'.tools = turn.tools
         /\ turn'.stream = turn.stream /\ turn'.spawned = turn.spawned
         /\ session' = DrainPendingIntoTurn(session) /\ SameTurn(session', session)
         /\ session'.pending = <<>>
         /\ disk' \in DiskType /\ disk'.saved = disk.saved
         /\ \E new \in Seq(Message) :
              /\ session'.staged = session.staged \o new
              /\ StagingAll(session') = StagingAll(session) \o new
              /\ \A i \in DOMAIN new : new[i].kind = "user"
              /\ \/ disk'.checkpoint = disk.checkpoint
                 \/ disk'.checkpoint = Checkpoint(session') /\ new # <<>>
<1>1. session \in Session /\ disk \in DiskType /\ turn \in TurnType
  BY Types
<1>2. session' = DrainPendingIntoTurn(session) /\ turn' = [turn EXCEPT !.iteration = turn.iteration + 1]
      /\ turn.iteration < MaxIterations
  BY DEF SendRequest, IterationsLeft
<1>3. turn.iteration + 1 \in 0 .. MaxIterations
  BY <1>1, <1>2, LooperAssumption DEF TurnType
<1>4. /\ turn' \in TurnType /\ turn'.tools = turn.tools
      /\ turn'.stream = turn.stream /\ turn'.spawned = turn.spawned
  BY <1>1, <1>2, <1>3 DEF TurnType
<1>5. /\ SameTurn(session', session) /\ session'.pending = <<>>
      /\ \E new \in Seq(Message) :
              /\ session'.staged = session.staged \o new
              /\ StagingAll(session') = StagingAll(session) \o new
              /\ \A i \in DOMAIN new : new[i].kind = "user"
              /\ HasPending(session) => new # <<>>
  BY <1>1, <1>2, DrainFields
<1>6. PICK s : s = session'
  OBVIOUS
<1>7. s \in Session
  BY <1>5, <1>6 DEF SameTurn
<1>8. Checkpoint(s) \in CheckpointType /\ Checkpoint(s) = Checkpoint(session')
  <2>1. StagingAll(s) \in Seq(Message) /\ s.turnIndex \in Nat
    BY <1>7, TurnsFacts DEF Session
  <2>2. QED
    BY <2>1, <1>6 DEF Checkpoint, CheckpointType
<1>9. PICK checkpoint \in {disk.checkpoint, Checkpoint(s)} :
        disk' = IF HasPending(session) THEN [disk EXCEPT !.checkpoint = checkpoint] ELSE disk
  BY <1>6 DEF SendRequest, InflightWrites
<1>10. /\ disk' \in DiskType /\ disk'.saved = disk.saved
       /\ \/ disk'.checkpoint = disk.checkpoint
          \/ HasPending(session) /\ disk'.checkpoint = Checkpoint(s)
  <2>1. checkpoint \in CheckpointType \cup {NoCheckpoint}
    BY <1>1, <1>8, <1>9 DEF DiskType
  <2>2. QED
    BY <1>1, <1>9, <2>1 DEF DiskType
<1>11. QED
  BY <1>2, <1>4, <1>5, <1>8, <1>10

\* A failed turn is frozen: what is on disk follows, if it is to.
LEMMA FailureFacts ==
  ASSUME NEW R, TypeOK, NEW n \in Nat, SoundBy(R, session, n), session.state # "Idle", FinalizeFailure
  PROVE  /\ SoundBy(R, session', n)
         /\ TurnNumbersIncrease(session) => TurnNumbersIncrease(session')
         /\ session' \in Session /\ session'.state = "Idle"
         /\ session'.turnIndex \in {session.turnIndex, session.turnIndex + 1}
         /\ session.staged # <<>> => session'.turnIndex = session.turnIndex + 1
         /\ turn' = ClearContext
         /\ \E reason \in Reason :
              loop' = [loop EXCEPT !.pc = "start", !.state = "Idle", !.pause = FALSE,
                                   !.reason = reason]
         /\ disk' \in DiskType
         /\ disk'.checkpoint \in {disk.checkpoint, NoCheckpoint}
         /\ disk'.saved = session' \/ SaveMayFail \/ ~PersistOnFailure
<1>1. session \in Session /\ disk \in DiskType /\ turn.tools \in Seq(Tool)
  BY Types
<1>2. turn' = ClearContext
  BY DEF FinalizeFailure
<1>3. PICK reason : reason = IF loop.reason = "none" THEN "other" ELSE loop.reason
  OBVIOUS
<1>4. reason \in Reason
  BY <1>3 DEF TypeOK, Reason
<1>5. loop' = [loop EXCEPT !.pc = "start", !.state = "Idle", !.pause = FALSE, !.reason = reason]
  BY <1>3 DEF FinalizeFailure
<1>6. PICK closing \in BOOLEAN : session' = Freeze(session, turn.tools, reason, closing)
  <2>1. \E closing \in IF reason = "maxIterations" THEN BOOLEAN ELSE {FALSE} :
           session' = Freeze(session, turn.tools, reason, closing)
    BY <1>3 DEF FinalizeFailure
  <2>2. QED
    BY <2>1
<1>7. LET r == Freeze(session, turn.tools, reason, closing)
      IN  /\ SoundBy(R, r, n)
          /\ TurnNumbersIncrease(session) => TurnNumbersIncrease(r)
          /\ r \in Session /\ r.state = "Idle"
          /\ r.turnIndex \in {session.turnIndex, session.turnIndex + 1}
          /\ session.staged # <<>> => r.turnIndex = session.turnIndex + 1
  BY <1>1, FreezeKeeps, FreezeFields
<1>8. PICK saved \in IF PersistOnFailure THEN Saves(session') ELSE {disk.saved},
           checkpoint \in InflightWrites(NoCheckpoint) :
          disk' = [saved |-> saved, checkpoint |-> checkpoint]
  BY DEF FinalizeFailure
<1>9. /\ saved = session' \/ (saved = disk.saved /\ (SaveMayFail \/ ~PersistOnFailure))
      /\ checkpoint \in {disk.checkpoint, NoCheckpoint}
  BY <1>8 DEF Saves, SavedOver, InflightWrites
<1>10. session' \in Session
  BY <1>6, <1>7
<1>11. disk' \in DiskType
  BY <1>1, <1>8, <1>9, <1>10 DEF DiskType
<1>12. QED
  BY <1>2, <1>4, <1>5, <1>6, <1>7, <1>8, <1>9, <1>10, <1>11

\* A turn that ends well is in the history, and what the compaction makes of the
\* history is saved.
LEMMA CommitDoneFacts ==
  ASSUME NEW R, TypeOK, NEW n \in Nat, SoundBy(R, session, n), CommitDone
  PROVE  /\ SoundBy(R, session', n)
         /\ TurnNumbersIncrease(session) => TurnNumbersIncrease(session')
         /\ session' \in Boundaries(CommitTurn(session))
         /\ session' \in Session /\ session'.state = "Idle"
         /\ session'.turnIndex \in {session.turnIndex, session.turnIndex + 1}
         /\ session.staged # <<>> => session'.turnIndex = session.turnIndex + 1
         /\ turn' \in TurnType /\ turn'.tools = turn.tools
         /\ turn'.stream = turn.stream /\ turn'.spawned = turn.spawned
         /\ disk' \in DiskType
         /\ disk'.checkpoint \in {disk.checkpoint, NoCheckpoint}
         /\ HoldsHistory(disk'.saved, session') \/ SaveMayFail
<1> DEFINE committed == CommitTurn(session)
<1>1. session \in Session /\ disk \in DiskType /\ turn \in TurnType
  BY Types
<1>2. turn' = [turn EXCEPT !.text = FALSE]
  BY DEF CommitDone
<1>3. PICK boundary \in Boundaries(committed), saved \in Saves(committed),
           checkpoint \in InflightWrites(NoCheckpoint) :
        /\ session' = boundary
        /\ disk' \in {[saved |-> last, checkpoint |-> checkpoint] :
                        last \in Resaved(committed, boundary, saved)}
  BY DEF CommitDone
<1>4. PICK last \in Resaved(committed, boundary, saved) :
        disk' = [saved |-> last, checkpoint |-> checkpoint]
  BY <1>3
<1>5. /\ SoundBy(R, committed, n)
      /\ TurnNumbersIncrease(session) => TurnNumbersIncrease(committed)
  BY <1>1, CommitKeeps
<1>6. /\ committed \in Session /\ committed.state = "Idle"
      /\ StagingAll(session) = <<>> => committed.turnIndex = session.turnIndex
      /\ StagingAll(session) # <<>> => committed.turnIndex = session.turnIndex + 1
  BY <1>1, CommitFields
<1>7. session.staged # <<>> => StagingAll(session) # <<>>
  <2>1. session.staged \in Seq(Message) /\ session.userInput \in Seq(Message)
    BY <1>1 DEF Session
  <2>2. QED
    BY <2>1, ConcatEqualIffEmpty DEF StagingAll
<1> HIDE DEF committed
<1>8. /\ SoundBy(R, boundary, n)
      /\ TurnNumbersIncrease(committed) => TurnNumbersIncrease(boundary)
      /\ boundary \in Session /\ boundary.state = "Idle" /\ boundary.turnIndex = committed.turnIndex
  <2>1. SoundBy(R, committed, n) /\ committed \in Session /\ committed.state = "Idle"
    BY <1>5, <1>6
  <2>2. QED
    BY <2>1, BoundaryFacts
<1>9. /\ saved = committed \/ (saved = disk.saved /\ SaveMayFail)
      /\ \/ last = saved /\ boundary \in Stripped(committed)
         \/ last = boundary
         \/ last = saved /\ SaveMayFail
      /\ checkpoint \in {disk.checkpoint, NoCheckpoint}
  BY <1>3, <1>4 DEF Saves, SavedOver, InflightWrites, Resaved, FoldFails, Stripped
<1>10. HoldsHistory(last, boundary) \/ SaveMayFail
  BY <1>9, StripIsHeld
<1>11. last \in Session /\ disk' \in DiskType
  <2>1. last \in Session
    BY <1>1, <1>6, <1>8, <1>9 DEF DiskType
  <2>2. QED
    BY <1>1, <1>4, <1>9, <2>1 DEF DiskType
<1>12. /\ turn' \in TurnType /\ turn'.tools = turn.tools
       /\ turn'.stream = turn.stream /\ turn'.spawned = turn.spawned
  BY <1>1, <1>2 DEF TurnType
<1>13. session' \in Boundaries(CommitTurn(session))
  BY <1>3 DEF committed
<1>14. QED
  BY <1>3, <1>4, <1>5, <1>6, <1>7, <1>8, <1>9, <1>10, <1>11, <1>12, <1>13

-----------------------------------------------------------------------------
(* The steps by what they do to the session and the disk.                  *)

\* The steps that touch neither.
Quiet ==
    \/ Environment
    \/ TakePause \/ TakeResume \/ TakeCancel \/ TakeShutdown
    \/ Dispatch
    \/ PauseBeforeRequest \/ BackoffInterrupted \/ ExceedIterations
    \/ RequestAnswered \/ RequestRefused
    \/ StreamQuiet \/ StreamText \/ StreamEnds \/ StreamRefused \/ ResponseRefused
    \/ PauseBeforeTools \/ ToolRefused \/ CollectPanic \/ PollQuiet
    \/ \E i \in 1 .. MaxCalls : TaskEnds(i)
    \/ Exited

\* A quiet step leaves the session and the disk as they are.
LEMMA QuietIsQuiet ==
  ASSUME Quiet
  PROVE  session' = session /\ disk' = disk
<1>1. CASE Environment
  BY <1>1 DEF Environment, SendQuery, SendControl, CloseChannel, DropTask
<1>2. CASE TakePause \/ TakeResume \/ TakeCancel \/ TakeShutdown \/ Dispatch
  BY <1>2 DEF TakePause, TakeResume, TakeCancel, TakeShutdown, Dispatch
<1>3. CASE PauseBeforeRequest \/ BackoffInterrupted \/ ExceedIterations \/ RequestAnswered
           \/ RequestRefused
  BY <1>3 DEF PauseBeforeRequest, BackoffInterrupted, ExceedIterations, RequestAnswered, RequestRefused
<1>4. CASE StreamQuiet \/ StreamText \/ StreamEnds \/ StreamRefused \/ ResponseRefused
  BY <1>4 DEF StreamQuiet, StreamText, StreamEnds, StreamRefused, ResponseRefused
<1>5. CASE PauseBeforeTools \/ ToolRefused \/ CollectPanic \/ PollQuiet
  BY <1>5 DEF PauseBeforeTools, ToolRefused, CollectPanic, PollQuiet
<1>6. CASE \E i \in 1 .. MaxCalls : TaskEnds(i)
  BY <1>6 DEF TaskEnds
<1>7. CASE Exited
  BY <1>7 DEF Exited, vars
<1>8. QED
  BY <1>1, <1>2, <1>3, <1>4, <1>5, <1>6, <1>7 DEF Quiet

\* The others, one by one.
LEMMA NextSplit ==
  ASSUME Next
  PROVE  \/ Quiet \/ TakeQuery \/ FinalizeCancel \/ FinalizeFailure \/ ChannelClosed
         \/ StartTurnFromPending \/ SendRequest \/ RequestFails \/ StreamBreaks
         \/ ResolveResponse \/ SpawnTools \/ CollectResults \/ BatchOver \/ CommitDone
BY DEF Next, Run, Messages, Finalize, React, Quiet

-----------------------------------------------------------------------------
(* The tools of a batch.                                                   *)

\* What a function on the positions of tools does when it maps each to a tool with
\* the same call: it is a sequence of tools again.
LEMMA ToolsByPosition ==
  ASSUME NEW tools \in Seq(Tool), NEW f,
         DOMAIN f = DOMAIN tools, \A i \in DOMAIN tools : f[i] \in Tool,
         f = [i \in DOMAIN f |-> f[i]]
  PROVE  f \in Seq(Tool)
<1>1. Len(tools) \in Nat /\ DOMAIN tools = 1 .. Len(tools)
  BY LenProperties
<1>2. f \in [1 .. Len(tools) -> Tool]
  BY <1>1
<1>3. QED
  BY <1>1, <1>2, SeqDef

\* A hook that answers calls settles them and leaves the rest alone.
LEMMA SettleFacts ==
  ASSUME TypeOK, NEW settled
  PROVE  LET r == Settle(settled)
         IN  /\ r \in Seq(Tool) /\ DOMAIN r = DOMAIN turn.tools
             /\ \A i \in DOMAIN turn.tools :
                  /\ r[i] \in Tool
                  /\ r[i].call = turn.tools[i].call /\ r[i].task = turn.tools[i].task
                  /\ r[i].result <=> turn.tools[i].result \/ i \in settled
<1> DEFINE tools == turn.tools
           r == Settle(settled)
           has(i) == tools[i].result \/ i \in settled
<1>1. tools \in Seq(Tool)
  BY Types
<1>2. \A i \in DOMAIN tools : tools[i] \in Tool
  BY <1>1, SeqElement
<1>3. r = [i \in DOMAIN tools |-> [tools[i] EXCEPT !.result = has(i)]]
  BY DEF Settle
<1>4. \A i \in DOMAIN tools : has(i) \in BOOLEAN
  BY <1>2 DEF Tool
<1>5. \A i \in DOMAIN tools : has(i) <=> tools[i].result \/ i \in settled
  OBVIOUS
<1> HIDE DEF tools, r, has
<1>6. ASSUME NEW i \in DOMAIN tools
      PROVE  /\ r[i] \in Tool
             /\ r[i].call = tools[i].call /\ r[i].task = tools[i].task
             /\ r[i].result = has(i)
  <2>1. tools[i] \in Tool /\ has(i) \in BOOLEAN
    BY <1>2, <1>4
  <2>2. LET t == [tools[i] EXCEPT !.result = has(i)]
        IN  t \in Tool /\ t.call = tools[i].call /\ t.result = has(i) /\ t.task = tools[i].task
    BY <2>1, ToolWithResult
  <2>3. r[i] = [tools[i] EXCEPT !.result = has(i)]
    BY <1>3
  <2>4. QED
    BY <2>2, <2>3
<1>7. DOMAIN r = DOMAIN tools /\ r = [i \in DOMAIN r |-> r[i]]
  BY <1>3
<1>8. r \in Seq(Tool)
  BY <1>1, <1>6, <1>7, ToolsByPosition
<1>9. \A i \in DOMAIN tools : r[i].result <=> tools[i].result \/ i \in settled
  BY <1>5, <1>6
<1>10. QED
  BY <1>6, <1>7, <1>8, <1>9 DEF r, tools

\* A tool with another task is a tool.
LEMMA ToolWithTask ==
  ASSUME NEW t \in Tool, NEW x \in {"none", "running", "finished", "panicked"}
  PROVE  LET r == [t EXCEPT !.task = x]
         IN  r \in Tool /\ r.call = t.call /\ r.result = t.result /\ r.task = x
BY DEF Tool

\* Spawning: every call is settled and the batch is over, or each of the others has
\* a task that runs.
LEMMA SpawnFacts ==
  ASSUME TypeOK, SpawnTools
  PROVE  \/ \E settled : /\ FinishTools(Settle(settled))
                         /\ \A i \in DOMAIN turn.tools : Settle(settled)[i].result
         \/ /\ session' = session /\ disk' = disk /\ loop' = Go("ExecutingTools")
            /\ turn' \in TurnType /\ turn'.spawned = TRUE /\ turn'.stream = turn.stream
            /\ DOMAIN turn'.tools = DOMAIN turn.tools
            /\ \A i \in DOMAIN turn.tools :
                 /\ turn'.tools[i].call = turn.tools[i].call
                 /\ turn'.tools[i].result \/ turn'.tools[i].task = "running"
<1> DEFINE tools == turn.tools
<1>1. turn \in TurnType /\ tools \in Seq(Tool) /\ \A i \in DOMAIN tools : tools[i] \in Tool
  BY Types, SeqElement
<1>2. PICK settled \in IF HooksIntervene THEN SUBSET Unresolved ELSE {{}} :
        LET spawned == Unresolved \ settled
        IN  IF spawned = {}
            THEN FinishTools(Settle(settled))
            ELSE /\ turn' = [turn EXCEPT !.spawned = TRUE,
                                !.tools = [i \in DOMAIN @ |->
                                    [Settle(settled)[i] EXCEPT !.task =
                                        IF i \in spawned THEN "running" ELSE "none"]]]
                 /\ loop' = Go("ExecutingTools")
                 /\ UNCHANGED <<session, disk>>
  BY DEF SpawnTools
<1> DEFINE spawned == Unresolved \ settled
           set == Settle(settled)
<1>3. /\ set \in Seq(Tool) /\ DOMAIN set = DOMAIN tools
      /\ \A i \in DOMAIN tools : /\ set[i] \in Tool /\ set[i].call = tools[i].call
                                 /\ set[i].result <=> tools[i].result \/ i \in settled
  BY SettleFacts
<1>4. \A i \in DOMAIN tools : i \in spawned <=> ~ tools[i].result /\ i \notin settled
  BY DEF Unresolved
<1>5. CASE spawned = {}
  <2>1. FinishTools(Settle(settled))
    BY <1>2, <1>5
  <2>2. \A i \in DOMAIN tools : Settle(settled)[i].result
    BY <1>3, <1>4, <1>5
  <2>3. QED
    BY <2>1, <2>2
<1>6. CASE spawned # {}
  <2> DEFINE task(i) == IF i \in spawned THEN "running" ELSE "none"
             f == [i \in DOMAIN tools |-> [set[i] EXCEPT !.task = task(i)]]
  <2>1. /\ turn' = [turn EXCEPT !.spawned = TRUE, !.tools = f]
        /\ loop' = Go("ExecutingTools") /\ session' = session /\ disk' = disk
    BY <1>2, <1>6
  <2>2. \A i \in DOMAIN tools : /\ task(i) \in {"none", "running", "finished", "panicked"}
                                /\ i \in spawned => task(i) = "running"
    OBVIOUS
  <2>3. DOMAIN f = DOMAIN tools /\ f = [i \in DOMAIN f |-> f[i]]
        /\ \A i \in DOMAIN tools : f[i] = [set[i] EXCEPT !.task = task(i)]
    OBVIOUS
  <2> HIDE DEF f, task, set, spawned
  <2>4. ASSUME NEW i \in DOMAIN tools
        PROVE  f[i] \in Tool /\ f[i].call = tools[i].call /\ (f[i].result \/ f[i].task = "running")
    <3>1. set[i] \in Tool /\ task(i) \in {"none", "running", "finished", "panicked"}
      BY <1>3, <2>2
    <3>2. LET t == [set[i] EXCEPT !.task = task(i)]
          IN  t \in Tool /\ t.call = set[i].call /\ t.result = set[i].result /\ t.task = task(i)
      BY <3>1, ToolWithTask
    <3>3. set[i].result \/ i \in spawned
      BY <1>3, <1>4
    <3>4. QED
      BY <1>3, <2>2, <2>3, <3>2, <3>3
  <2>5. f \in Seq(Tool)
    BY <1>1, <2>3, <2>4, ToolsByPosition
  <2>6. turn' \in TurnType /\ turn'.spawned = TRUE /\ turn'.stream = turn.stream /\ turn'.tools = f
    BY <1>1, <2>1, <2>5 DEF TurnType
  <2>7. QED
    BY <2>1, <2>3, <2>4, <2>6
<1>7. QED
  BY <1>5, <1>6

\* The tools after a join: what finished has its result, what panicked has left.
Joined ==
    [i \in DOMAIN turn.tools |->
        IF turn.tools[i].task = "finished"
        THEN [turn.tools[i] EXCEPT !.result = TRUE, !.task = "none"]
        ELSE IF turn.tools[i].task = "panicked"
        THEN [turn.tools[i] EXCEPT !.task = "none"]
        ELSE turn.tools[i]]

\* A join loses no result, and lets nothing go that still runs.
LEMMA JoinedFacts ==
  ASSUME TypeOK
  PROVE  /\ Joined \in Seq(Tool) /\ DOMAIN Joined = DOMAIN turn.tools
         /\ \A i \in DOMAIN turn.tools :
              /\ Joined[i].call = turn.tools[i].call
              /\ Joined[i].task \in {"none", "running"}
              /\ Joined[i].task = "running" <=> turn.tools[i].task = "running"
              /\ turn.tools[i].result \/ turn.tools[i].task = "finished" => Joined[i].result
<1> DEFINE tools == turn.tools
<1>1. tools \in Seq(Tool) /\ \A i \in DOMAIN tools : tools[i] \in Tool
  BY Types, SeqElement
<1>2. DOMAIN Joined = DOMAIN tools /\ Joined = [i \in DOMAIN Joined |-> Joined[i]]
  BY DEF Joined
<1>3. ASSUME NEW i \in DOMAIN tools
      PROVE  /\ Joined[i] \in Tool /\ Joined[i].call = tools[i].call
             /\ Joined[i].task \in {"none", "running"}
             /\ Joined[i].task = "running" <=> tools[i].task = "running"
             /\ tools[i].result \/ tools[i].task = "finished" => Joined[i].result
  <2> DEFINE t == tools[i]
  <2>1. Joined[i] = IF t.task = "finished" THEN [t EXCEPT !.result = TRUE, !.task = "none"]
                    ELSE IF t.task = "panicked" THEN [t EXCEPT !.task = "none"] ELSE t
    BY DEF Joined
  <2>2. t \in Tool
    BY <1>1
  <2> HIDE DEF t
  <2>3. CASE t.task = "finished"
    BY <2>1, <2>2, <2>3 DEF Tool, t
  <2>4. CASE t.task = "panicked"
    BY <2>1, <2>2, <2>4 DEF Tool, t
  <2>5. CASE t.task \notin {"finished", "panicked"}
    BY <2>1, <2>2, <2>5 DEF Tool, t
  <2>6. QED
    BY <2>3, <2>4, <2>5
<1>4. Joined \in Seq(Tool)
  BY <1>1, <1>2, <1>3, ToolsByPosition
<1>5. QED
  BY <1>2, <1>3, <1>4

\* Collecting: the batch is over when nothing runs any more, or it goes on.
LEMMA CollectFacts ==
  ASSUME TypeOK, CollectResults
  PROVE  \/ /\ FinishTools(Joined)
            /\ \A i \in DOMAIN turn.tools : turn.tools[i].task # "running"
         \/ /\ session' = session /\ disk' = disk /\ loop' = Go("ExecutingTools")
            /\ turn' \in TurnType /\ turn'.tools = Joined
            /\ turn'.stream = turn.stream /\ turn'.spawned = turn.spawned
<1>1. turn \in TurnType /\ Joined \in Seq(Tool)
  BY Types, JoinedFacts
<1>2. CASE Tasks({"running"}) = {}
  <2>1. FinishTools(Joined)
    BY <1>2 DEF CollectResults, Joined
  <2>2. QED
    BY <1>2, <2>1 DEF Tasks
<1>3. CASE Tasks({"running"}) # {}
  <2>1. /\ turn' = [turn EXCEPT !.tools = Joined]
        /\ loop' = Go("ExecutingTools") /\ session' = session /\ disk' = disk
    BY <1>3 DEF CollectResults, Joined
  <2>2. QED
    BY <1>1, <2>1 DEF TurnType
<1>4. QED
  BY <1>2, <1>3

-----------------------------------------------------------------------------
(* What a step keeps, part by part.                                        *)

\* While the loop is at work on a turn, the session has one.
LEMMA AtWork ==
  ASSUME Agrees, Phases
  PROVE  /\ loop.pc = "request" => session.state = "Active"
         /\ loop.pc = "react" => session.state = "Active"
         /\ FinalizeFailure => session.state = "Active"
         /\ StartTurnFromPending => session.state = "Idle"
BY DEF Agrees, Phases, Running, FinalizeFailure, ReadingOver, StartTurnFromPending, CanStart,
       CanStartTurn

\* ... which is Active, so that it can be staged to.
LEMMA ActiveStages ==
  ASSUME NEW s, s.state = "Active"
  PROVE  CanStage(s) /\ s.state # "Idle"
BY DEF CanStage

\* A model call that came to nothing before anything was staged leaves the staging
\* area as it was.
LEMMA RetryAsItWas ==
  ASSUME TypeOK, NEW text \in BOOLEAN,
         RetryOrFail(session, text, Len(session.staged), FALSE)
  PROVE  /\ session' \in {session, TruncateStaging(session, Len(session.staged))}
         /\ SameTurn(session', session) /\ session'.staged = session.staged
         /\ session'.pending = session.pending
<1>1. session \in Session /\ session.staged \in Seq(Message)
  BY Types
<1>2. <<>> \in Seq(Message) /\ session.staged = session.staged \o <<>>
  BY <1>1, ConcatEmptySeq, EmptySeq
<1>3. SameTurn(session, session)
  BY <1>1 DEF SameTurn
<1>4. LET r == TruncateStaging(session, Len(session.staged))
      IN  SameTurn(r, session) /\ r.staged = session.staged /\ r.pending = session.pending
  <2>1. PICK e : e = <<>>
    OBVIOUS
  <2>2. e \in Seq(Message) /\ session.staged = session.staged \o e
    BY <1>2, <2>1
  <2>3. QED
    BY <1>1, <1>3, <2>2, TruncateBack
<1>5. session' \in {session, TruncateStaging(session, Len(session.staged))}
  <2>1. PICK l : l = Len(session.staged)
    OBVIOUS
  <2>2. RetryOrFail(session, text, l, FALSE)
    BY <2>1
  <2>3. FALSE \in BOOLEAN
    OBVIOUS
  <2>4. session' = TruncateStaging(session, l) \/ session' = session
    BY <2>2, <2>3, RetryFacts
  <2>5. QED
    BY <2>1, <2>4
<1>6. QED
  BY <1>3, <1>4, <1>5

\* A response leaves what was staged where it was, or is taken back as a whole.
LEMMA ResolveSession ==
  ASSUME TypeOK, turn.response \in Response, ResolveResponse
  PROVE  LET items == Blocks(turn.response)
             new == NewItems(session, items)
             t == StageItems(session, items)
         IN  /\ items \in Seq(Item) /\ new \in Seq(Message)
             /\ SameTurn(t, session) /\ t.pending = session.pending
             /\ t.staged = session.staged \o new /\ StagingAll(t) = StagingAll(session) \o new
             /\ SameTurn(session', session) /\ session'.pending = session.pending
             /\ \/ session' = t
                \/ /\ session' = TruncateStaging(t, Len(session.staged))
                   /\ session'.staged = session.staged
<1> DEFINE items == Blocks(turn.response)
           new == NewItems(session, items)
           t == StageItems(session, items)
<1>1. session \in Session /\ items \in Seq(Item)
  BY Types, BlocksFacts
<1>2. new \in Seq(Message)
  BY <1>1, NewItemsFacts
<1>3. /\ SameTurn(t, session) /\ t.pending = session.pending
      /\ t.staged = session.staged \o new /\ StagingAll(t) = StagingAll(session) \o new
  BY <1>1, StageItemsFields DEF SameTurn
<1>4. session' = t \/ session' = TruncateStaging(t, Len(session.staged))
  BY ResolveFacts
<1> HIDE DEF t, new, items
<1>5. LET r == TruncateStaging(t, Len(session.staged))
      IN  SameTurn(r, session) /\ r.staged = session.staged /\ r.pending = session.pending
  <2>1. t \in Session
    BY <1>3 DEF SameTurn
  <2>2. QED
    BY <2>1, <1>1, <1>2, <1>3, TruncateBack
<1>6. /\ SameTurn(session', session) /\ session'.pending = session.pending
      /\ \/ session' = t
         \/ /\ session' = TruncateStaging(t, Len(session.staged))
            /\ session'.staged = session.staged
  BY <1>3, <1>4, <1>5
<1>7. QED
  BY <1>1, <1>2, <1>3, <1>6 DEF t, new, items

\* Every step but the arrival of a query keeps the session sound.
LEMMA SoundStep ==
  ASSUME NEW R, TypeOK, Phases, Agrees, NEW n \in Nat, SoundBy(R, session, n), Next, ~TakeQuery
  PROVE  SoundBy(R, session', n) /\ (TurnNumbersIncrease(session) => TurnNumbersIncrease(session'))
<1>0. session \in Session /\ session.staged \in Seq(Message) /\ turn \in TurnType
  BY Types
<1>1. CASE Quiet
  BY <1>1, QuietIsQuiet
<1>2. CASE FinalizeCancel
  BY <1>2, CancelFacts DEF FinalizeCancel
<1>3. CASE FinalizeFailure
  <2>1. session.state # "Idle"
    BY <1>3, AtWork
  <2>2. QED
    BY <1>3, <2>1, FailureFacts
<1>4. CASE ChannelClosed
  BY <1>4, CancelFacts DEF ChannelClosed
<1>5. CASE StartTurnFromPending
  <2>1. CanStartTurn(session) /\ session' = DequeueAndStartTurn(session)
    BY <1>5 DEF StartTurnFromPending, CanStart
  <2>2. QED
    BY <1>0, <2>1, DequeueKeeps
<1>6. CASE SendRequest
  <2>1. CanStage(session)
    BY <1>6, AtWork, ActiveStages DEF SendRequest, Prepares, Reacts
  <2>2. session' = DrainPendingIntoTurn(session)
    BY <1>6 DEF SendRequest
  <2>3. QED
    BY <1>0, <2>1, <2>2, DrainKeeps
<1>7. CASE RequestFails \/ StreamBreaks
  <2>1. CanStage(session)
    BY <1>7, AtWork, ActiveStages DEF RequestFails, StreamBreaks, Reacts
  <2>2. turn.text \in BOOLEAN
    BY <1>0 DEF TurnType
  <2>3. session' \in {session, TruncateStaging(session, Len(session.staged))}
    BY <1>7, <2>2, RetryAsItWas DEF RequestFails, StreamBreaks
  <2>4. Len(session.staged) \in 0 .. Len(session.staged)
    BY <1>0
  <2>5. QED
    BY <1>0, <2>1, <2>3, <2>4, TruncateKeeps
<1>8. CASE ResolveResponse
  <2> DEFINE items == Blocks(turn.response)
             new == NewItems(session, items)
             t == StageItems(session, items)
  <2>1. session.state = "Active" /\ turn.response \in Response
    BY <1>8, AtWork DEF ResolveResponse, Reacts, Phases
  <2>2. /\ items \in Seq(Item) /\ new \in Seq(Message)
        /\ SameTurn(t, session) /\ t.staged = session.staged \o new
        /\ session' = t \/ session' = TruncateStaging(t, Len(session.staged))
    BY <1>8, <2>1, ResolveSession
  <2>3. SoundBy(R, t, n) /\ (TurnNumbersIncrease(session) => TurnNumbersIncrease(t))
    BY <1>0, <2>1, <2>2, StageItemsKeeps
  <2> HIDE DEF t, new, items
  <2>4. CanStage(t) /\ t \in Session
    BY <2>1, <2>2 DEF SameTurn, CanStage
  <2>5. Len(session.staged) \in 0 .. Len(t.staged)
    BY <1>0, <2>2, ConcatParts
  <2>6. /\ SoundBy(R, TruncateStaging(t, Len(session.staged)), n)
        /\ TurnNumbersIncrease(t) => TurnNumbersIncrease(TruncateStaging(t, Len(session.staged)))
    BY <2>3, <2>4, <2>5, TruncateKeeps
  <2>7. QED
    BY <2>2, <2>3, <2>6
<1>9. ASSUME NEW tools \in Seq(Tool), FinishTools(tools), session.state = "Active"
      PROVE  SoundBy(R, session', n) /\ (TurnNumbersIncrease(session) => TurnNumbersIncrease(session'))
  <2>1. session' = StageItems(session, Results(tools)) /\ Results(tools) \in Seq(Item)
    BY <1>9, FinishFacts
  <2>2. QED
    BY <1>0, <1>9, <2>1, StageItemsKeeps
<1>10. CASE SpawnTools
  <2>1. session.state = "Active"
    BY <1>10, AtWork DEF SpawnTools, Spawns, Reacts
  <2>2. CASE session' = session
    BY <2>2
  <2>3. CASE \E settled : FinishTools(Settle(settled))
    <3>1. PICK settled : FinishTools(Settle(settled))
      BY <2>3
    <3>2. PICK tools : tools = Settle(settled)
      OBVIOUS
    <3>3. tools \in Seq(Tool)
      BY <3>2, SettleFacts
    <3>4. FinishTools(tools)
      BY <3>1, <3>2
    <3>5. QED
      BY <1>9, <2>1, <3>3, <3>4
  <2>4. QED
    BY <1>10, <2>2, <2>3, SpawnFacts
<1>11. CASE CollectResults
  <2>1. session.state = "Active"
    BY <1>11, AtWork DEF CollectResults, Polls, Reacts
  <2>2. CASE session' = session
    BY <2>2
  <2>3. CASE FinishTools(Joined)
    <3>1. PICK tools : tools = Joined
      OBVIOUS
    <3>2. tools \in Seq(Tool)
      BY <3>1, JoinedFacts
    <3>3. FinishTools(tools)
      BY <2>3, <3>1
    <3>4. QED
      BY <1>9, <2>1, <3>2, <3>3
  <2>4. QED
    BY <1>11, <2>2, <2>3, CollectFacts
<1>12. CASE BatchOver
  <2>1. session.state = "Active" /\ FinishTools(turn.tools)
    BY <1>12, AtWork DEF BatchOver, Polls, Reacts
  <2>2. turn.tools \in Seq(Tool)
    BY Types
  <2>3. PICK tools : tools = turn.tools
    OBVIOUS
  <2>4. QED
    BY <1>9, <2>1, <2>2, <2>3
<1>13. CASE CommitDone
  BY <1>13, CommitDoneFacts
<1>14. QED
  BY <1>1, <1>2, <1>3, <1>4, <1>5, <1>6, <1>7, <1>8, <1>10, <1>11, <1>12, <1>13, NextSplit

UserType == [queue : Seq(UserMsg), queries : 0 .. MaxInputs, controls : 0 .. MaxControls,
             closed : BOOLEAN, dropped : BOOLEAN]

\* A message that is sent goes to the end of the channel.
LEMMA AwaitsMore ==
  ASSUME NEW q \in Seq(UserMsg), NEW n \in Nat, NEW last \in Nat, NEW m \in UserMsg,
         n <= last, Awaits(q, n, last)
  PROVE  /\ m.kind # "query" => Awaits(Append(q, m), n, last)
         /\ m.kind = "query" /\ m.input = last + 1 => Awaits(Append(q, m), n, last + 1)
<1> DEFINE r == Append(q, m)
           c == Len(q)
<1>1. /\ c \in Nat /\ DOMAIN q = 1 .. c /\ DOMAIN r = 1 .. c + 1 /\ r[c + 1] = m
      /\ \A k \in 1 .. c : r[k] = q[k]
  OBVIOUS
<1> HIDE DEF r, c
<1>2. /\ \A k \in 1 .. c : q[k].kind = "query" => q[k].input \in n + 1 .. last
      /\ \A k, l \in 1 .. c :
            k < l /\ q[k].kind = "query" /\ q[l].kind = "query" => q[k].input < q[l].input
  BY <1>1 DEF Awaits
<1>3. ASSUME m.kind # "query" PROVE Awaits(r, n, last)
  <2>1. \A k \in 1 .. c + 1 : r[k].kind = "query" => k \in 1 .. c /\ r[k] = q[k]
    BY <1>1, <1>3
  <2>2. QED
    BY <2>1, <1>1, <1>2 DEF Awaits
<1>4. ASSUME m.kind = "query", m.input = last + 1 PROVE Awaits(r, n, last + 1)
  <2>1. \A k \in 1 .. c + 1 : k # c + 1 => k \in 1 .. c /\ r[k] = q[k]
    BY <1>1
  <2>2. ASSUME NEW k \in 1 .. c + 1, r[k].kind = "query" PROVE r[k].input \in n + 1 .. last + 1
    <3>1. CASE k = c + 1
      BY <3>1, <1>1, <1>4
    <3>2. CASE k # c + 1
      BY <3>2, <2>1, <2>2, <1>2
    <3>3. QED
      BY <3>1, <3>2
  <2>3. ASSUME NEW k \in 1 .. c + 1, NEW l \in 1 .. c + 1, k < l,
               r[k].kind = "query", r[l].kind = "query"
        PROVE  r[k].input < r[l].input
    <3>1. k \in 1 .. c /\ r[k] = q[k]
      BY <2>3, <1>1
    <3>2. q[k].input \in n + 1 .. last
      BY <3>1, <2>3, <1>2
    <3>3. CASE l = c + 1
      BY <3>1, <3>2, <3>3, <1>1, <1>4
    <3>4. CASE l # c + 1
      BY <3>1, <3>4, <2>1, <2>3, <1>2
    <3>5. QED
      BY <3>3, <3>4
  <2>4. QED
    BY <2>2, <2>3, <1>1 DEF Awaits
<1>5. QED
  BY <1>3, <1>4 DEF r

\* The channel is read from its front.
LEMMA AwaitsLess ==
  ASSUME NEW q \in Seq(UserMsg), NEW n \in Nat, NEW last \in Nat, q # <<>>, Awaits(q, n, last)
  PROVE  /\ Tail(q) \in Seq(UserMsg) /\ Head(q) \in UserMsg
         /\ Awaits(Tail(q), n, last)
         /\ Head(q).kind = "query" =>
              Head(q).input \in n + 1 .. last /\ Awaits(Tail(q), Head(q).input, last)
<1> DEFINE r == Tail(q)
           c == Len(q)
<1>1. /\ c \in Nat /\ c >= 1 /\ DOMAIN q = 1 .. c /\ DOMAIN r = 1 .. c - 1 /\ Head(q) = q[1]
      /\ \A k \in 1 .. c - 1 : r[k] = q[k + 1]
      /\ r \in Seq(UserMsg) /\ q[1] \in UserMsg
  OBVIOUS
<1> HIDE DEF r, c
<1>2. /\ \A k \in 1 .. c : q[k].kind = "query" => q[k].input \in n + 1 .. last
      /\ \A k, l \in 1 .. c :
            k < l /\ q[k].kind = "query" /\ q[l].kind = "query" => q[k].input < q[l].input
  BY <1>1 DEF Awaits
<1>3. \A k \in 1 .. c - 1 : k + 1 \in 1 .. c /\ 1 < k + 1
  BY <1>1
<1>4. \A k, l \in DOMAIN r :
          k < l /\ r[k].kind = "query" /\ r[l].kind = "query" => r[k].input < r[l].input
  <2>1. \A k, l \in 1 .. c - 1 : k < l => k + 1 < l + 1
    BY <1>1
  <2>2. QED
    BY SMTT(40), <2>1, <1>1, <1>2, <1>3
<1>5. \A k \in DOMAIN r : r[k].kind = "query" => r[k].input \in n + 1 .. last
  BY <1>1, <1>2, <1>3
<1>6. ASSUME q[1].kind = "query"
      PROVE  q[1].input \in n + 1 .. last /\ Awaits(r, q[1].input, last)
  <2>1. q[1].input \in n + 1 .. last
    BY <1>1, <1>2, <1>6
  <2>2. ASSUME NEW k \in DOMAIN r, r[k].kind = "query" PROVE r[k].input \in q[1].input + 1 .. last
    <3>1. k + 1 \in 1 .. c /\ 1 < k + 1 /\ r[k] = q[k + 1] /\ 1 \in 1 .. c
      BY <1>1, <1>3
    <3>2. q[1].input < q[k + 1].input
      BY <3>1, <2>2, <1>2, <1>6
    <3>3. q[k + 1].input \in n + 1 .. last
      BY <3>1, <2>2, <1>2
    <3>4. QED
      BY <3>1, <3>2, <3>3, <2>1
  <2>3. QED
    BY <2>1, <2>2, <1>4 DEF Awaits
<1>7. QED
  BY <1>1, <1>4, <1>5, <1>6 DEF Awaits, r

\* What is sound for the inputs up to n is sound when more have been sent.
LEMMA SoundMonotone ==
  ASSUME NEW R, NEW s \in Session, NEW n \in Nat, NEW m \in Nat, n <= m, SoundBy(R, s, n)
  PROVE  SoundBy(R, s, m)
<1>1. ASSUME NEW v \in Seq(Nat), AllBelow(v, <<n + 1>>) PROVE AllBelow(v, <<m + 1>>)
  BY <1>1 DEF AllBelow
<1>2. s.pending \in Seq(Nat)
  BY DEF Session
<1>3. ASSUME NEW p \in DOMAIN Turns(s), NEW i \in DOMAIN Turns(s)[p]
      PROVE  Turns(s)[p][i].body \in Seq(Nat)
  <2>1. Turns(s)[p] \in Seq(Message)
    BY TurnsFacts
  <2>2. Turns(s)[p][i] \in Message
    BY <2>1, SeqElement
  <2>3. QED
    BY <2>2 DEF Message
<1>4. InputsBy(R, s, m)
  BY <1>1, <1>2, <1>3 DEF SoundBy, InputsBy
<1>5. QED
  BY <1>4 DEF SoundBy

\* What a step does to the user's side.
LEMMA UserFacts ==
  ASSUME TypeOK, Next
  PROVE  /\ user' \in UserType
         /\ \/ user'.queue = user.queue /\ user'.queries = user.queries
            \/ user'.queue = <<>> /\ user'.queries = user.queries
            \/ user.queue # <<>> /\ user'.queue = Tail(user.queue) /\ user'.queries = user.queries
            \/ \E m \in UserMsg :
                 /\ user'.queue = Append(user.queue, m)
                 /\ \/ m.kind # "query" /\ user'.queries = user.queries
                    \/ m.kind = "query" /\ m.input = user.queries + 1
                       /\ user'.queries = user.queries + 1
<1>1. user \in UserType /\ user.queue \in Seq(UserMsg)
  BY DEF TypeOK, UserType
<1>2. CASE user' = user
  BY <1>1, <1>2
<1>3. CASE SendQuery
  <2>1. PICK m : m = [kind |-> "query", input |-> user.queries + 1]
    OBVIOUS
  <2>2. user.queries < MaxInputs /\ user.queries \in 0 .. MaxInputs /\ MaxInputs \in Nat
    BY <1>1, <1>3, LooperAssumption DEF SendQuery, UserType
  <2>3. m \in UserMsg /\ m.kind = "query" /\ m.input = user.queries + 1
    BY <2>1, <2>2 DEF UserMsg
  <2>4. PICK q : q = Append(user.queue, m)
    OBVIOUS
  <2>5. q \in Seq(UserMsg)
    BY <1>1, <2>3, <2>4
  <2>6. user' = [user EXCEPT !.queries = user.queries + 1, !.queue = q]
    BY <1>3, <2>1, <2>4 DEF SendQuery
  <2>7. user.queries + 1 \in 0 .. MaxInputs
    BY <2>2
  <2>8. user' \in UserType /\ user'.queue = q /\ user'.queries = user.queries + 1
    BY <1>1, <2>5, <2>6, <2>7 DEF UserType
  <2>9. QED
    BY <2>3, <2>4, <2>8
<1>4. CASE SendControl
  <2>1. PICK kind \in Control :
          user' = [user EXCEPT !.controls = @ + 1,
                               !.queue = Append(@, [kind |-> kind, input |-> 0])]
    BY <1>4 DEF SendControl
  <2>2. PICK m : m = [kind |-> kind, input |-> 0]
    OBVIOUS
  <2>3. m \in UserMsg /\ m.kind # "query"
    BY <2>1, <2>2 DEF UserMsg, Control
  <2>4. PICK q : q = Append(user.queue, m)
    OBVIOUS
  <2>5. q \in Seq(UserMsg)
    BY <1>1, <2>3, <2>4
  <2>6. user.controls < MaxControls /\ user.controls \in 0 .. MaxControls /\ MaxControls \in Nat
    BY <1>1, <1>4, LooperAssumption DEF SendControl, UserType
  <2>7. user' = [user EXCEPT !.controls = user.controls + 1, !.queue = q]
    BY <2>1, <2>2, <2>4
  <2>8. user.controls + 1 \in 0 .. MaxControls
    BY <2>6
  <2>9. user' \in UserType /\ user'.queue = q /\ user'.queries = user.queries
    BY <1>1, <2>5, <2>7, <2>8 DEF UserType
  <2>10. QED
    BY <2>3, <2>4, <2>9
<1>5. CASE CloseChannel \/ DropTask
  BY <1>1, <1>5 DEF CloseChannel, DropTask, UserType
<1>6. CASE \E kind : Take(kind)
  <2>1. user.queue # <<>> /\ user' = [user EXCEPT !.queue = Tail(user.queue)]
    BY <1>6 DEF Take
  <2>2. PICK q : q = Tail(user.queue)
    OBVIOUS
  <2>3. q \in Seq(UserMsg)
    BY <1>1, <2>1, <2>2
  <2>4. user' \in UserType /\ user'.queue = q /\ user'.queries = user.queries
    BY <1>1, <2>1, <2>2, <2>3 DEF UserType
  <2>5. QED
    BY <2>1, <2>2, <2>4
<1>7. CASE TakeShutdown
  <2>1. PICK e : e = <<>>
    OBVIOUS
  <2>2. e \in Seq(UserMsg) /\ user' = [user EXCEPT !.queue = e]
    BY <1>7, <2>1, EmptySeq DEF TakeShutdown
  <2>3. QED
    BY <1>1, <2>1, <2>2 DEF UserType
<1>8. CASE Environment
  BY <1>3, <1>4, <1>5, <1>8 DEF Environment
<1>9. CASE Messages
  BY <1>6, <1>7, <1>9 DEF Messages, TakeQuery, TakePause, TakeResume, TakeCancel
<1>10. CASE Finalize \/ StartTurnFromPending \/ Dispatch
  BY <1>2, <1>10 DEF Finalize, FinalizeCancel, FinalizeFailure, ChannelClosed,
                     StartTurnFromPending, Dispatch
<1>11. CASE React
  <2>1. CASE PauseBeforeRequest \/ BackoffInterrupted \/ ExceedIterations \/ SendRequest
             \/ RequestAnswered \/ RequestFails \/ RequestRefused
    BY <1>2, <2>1 DEF PauseBeforeRequest, BackoffInterrupted, ExceedIterations, SendRequest,
                      RequestAnswered, RequestFails, RequestRefused
  <2>2. CASE StreamQuiet \/ StreamText \/ StreamEnds \/ StreamBreaks \/ StreamRefused
             \/ ResolveResponse \/ ResponseRefused
    BY <1>2, <2>2 DEF StreamQuiet, StreamText, StreamEnds, StreamBreaks, StreamRefused,
                      ResolveResponse, ResponseRefused
  <2>3. CASE PauseBeforeTools \/ SpawnTools \/ ToolRefused \/ CollectResults \/ CollectPanic
             \/ BatchOver \/ PollQuiet \/ CommitDone
    BY <1>2, <2>3 DEF PauseBeforeTools, SpawnTools, ToolRefused, CollectResults, CollectPanic,
                      BatchOver, PollQuiet, CommitDone
  <2>4. QED
    BY <1>11, <2>1, <2>2, <2>3 DEF React
<1>12. CASE (\E i \in 1 .. MaxCalls : TaskEnds(i)) \/ Exited
  BY <1>2, <1>12 DEF TaskEnds, Exited, vars
<1>13. QED
  BY <1>8, <1>9, <1>10, <1>11, <1>12 DEF Next, Run

\* Inputs reach the session in the order they were sent, each of them once.
LEMMA ArrivalsStep ==
  ASSUME NEW R, Before \subseteq R, TypeOK, Phases, Agrees, Arrivals(R), Next
  PROVE  Arrivals(R)'
<1>1. session \in Session /\ user \in UserType /\ user.queue \in Seq(UserMsg)
      /\ user.queries \in Nat
  BY LooperAssumption DEF TypeOK, UserType
<1>2. PICK n \in 0 .. user.queries : SoundBy(R, session, n) /\ Awaits(user.queue, n, user.queries)
  BY DEF Arrivals
<1>3. n \in Nat /\ n <= user.queries
  BY <1>1, <1>2
<1>4. CASE TakeQuery
  <2>1. /\ user.queue # <<>> /\ Head(user.queue).kind = "query"
        /\ user' = [user EXCEPT !.queue = Tail(user.queue)]
        /\ session' = EnqueuePending(session, Head(user.queue).input)
    BY <1>4 DEF TakeQuery, Take
  <2>2. PICK input : input = Head(user.queue).input
    OBVIOUS
  <2>3. input \in n + 1 .. user.queries /\ Awaits(Tail(user.queue), input, user.queries)
    BY <1>1, <1>2, <1>3, <2>1, <2>2, AwaitsLess
  <2>4. PICK m \in Nat : input = m + 1 /\ n <= m
    <3>1. input - 1 \in Nat /\ input = (input - 1) + 1 /\ n <= input - 1
      BY <1>1, <1>3, <2>3
    <3>2. QED
      BY <3>1
  <2>5. SoundBy(R, session, m)
    BY <1>1, <1>2, <1>3, <2>4, SoundMonotone
  <2>6. /\ SoundBy(R, EnqueuePending(session, m + 1), m + 1)
        /\ TurnNumbersIncrease(session) => TurnNumbersIncrease(EnqueuePending(session, m + 1))
    BY <1>1, <2>4, <2>5, EnqueueKeeps
  <2>7. SoundBy(R, session', input) /\ TurnNumbersIncrease(session')
    BY <2>1, <2>2, <2>4, <2>6 DEF Arrivals
  <2>8. user'.queue = Tail(user.queue) /\ user'.queries = user.queries
    BY <1>1, <2>1 DEF UserType
  <2>9. input \in 0 .. user'.queries
    BY <1>1, <1>3, <2>3, <2>8
  <2>10. QED
    BY <2>3, <2>7, <2>8, <2>9 DEF Arrivals
<1>5. CASE ~TakeQuery
  <2>1. SoundBy(R, session', n) /\ TurnNumbersIncrease(session')
    BY <1>2, <1>3, <1>5, SoundStep DEF Arrivals
  <2>2. n \in 0 .. user'.queries /\ Awaits(user'.queue, n, user'.queries)
    <3>1. CASE user'.queue = user.queue /\ user'.queries = user.queries
      BY <1>2, <3>1
    <3>2. CASE user'.queue = <<>> /\ user'.queries = user.queries
      <4>1. DOMAIN <<>> = {}
        OBVIOUS
      <4>2. QED
        BY <1>2, <3>2, <4>1 DEF Awaits
    <3>3. CASE user.queue # <<>> /\ user'.queue = Tail(user.queue) /\ user'.queries = user.queries
      BY <1>1, <1>2, <1>3, <3>3, AwaitsLess
    <3>4. ASSUME NEW m \in UserMsg, user'.queue = Append(user.queue, m),
                 \/ m.kind # "query" /\ user'.queries = user.queries
                 \/ m.kind = "query" /\ m.input = user.queries + 1
                    /\ user'.queries = user.queries + 1
          PROVE  n \in 0 .. user'.queries /\ Awaits(user'.queue, n, user'.queries)
      <4>1. n \in 0 .. user.queries + 1
        BY <1>1, <1>2
      <4>2. QED
        BY <1>1, <1>2, <1>3, <3>4, <4>1, AwaitsMore
    <3>5. QED
      BY <3>1, <3>2, <3>3, <3>4, UserFacts
  <2>3. QED
    BY <2>1, <2>2 DEF Arrivals
<1>6. QED
  BY <1>4, <1>5

LoopType == [pc : {"top", "drain", "settle", "start", "react", "request", "exited"},
             state : LooperState, armed : BOOLEAN, pause : BOOLEAN,
             cancel : BOOLEAN, reason : Reason]
SeenType == [panicked : SUBSET CallIds, pause : BOOLEAN]

\* The loop goes back to the top of run in another state ...
LEMMA GoFacts ==
  ASSUME TypeOK, NEW x \in LooperState
  PROVE  LET r == Go(x)
         IN  /\ r \in LoopType /\ r.pc = "top" /\ r.state = x /\ r.armed = loop.armed
             /\ r.pause = loop.pause /\ r.cancel = loop.cancel /\ r.reason = loop.reason
<1>1. loop \in LoopType
  BY DEF TypeOK, LoopType
<1>2. QED
  BY <1>1 DEF Go, LoopType

\* ... or with a failure.
LEMMA FailFacts ==
  ASSUME TypeOK, NEW x \in Reason
  PROVE  LET r == Fail(x)
         IN  /\ r \in LoopType /\ r.pc = "top" /\ r.state = "Failed" /\ r.armed = loop.armed
             /\ r.pause = loop.pause /\ r.cancel = loop.cancel /\ r.reason = x
<1>1. loop \in LoopType
  BY DEF TypeOK, LoopType
<1>2. QED
  BY <1>1 DEF Fail, LoopType, LooperState

\* What a step must say of the loop and the turn for the proofs below.
Typed == loop' \in LoopType /\ turn' \in TurnType /\ seen' \in SeenType

\* What the user does, and what the loop reads of it.
LEMMA MessagesLoop ==
  ASSUME TypeOK, Phases, Environment \/ Messages
  PROVE  Typed /\ Phases'
<1>0. loop \in LoopType /\ turn \in TurnType /\ seen \in SeenType
  BY DEF TypeOK, LoopType, TurnType, SeenType
<1>1. CASE SendQuery \/ SendControl \/ CloseChannel
  BY <1>0, <1>1 DEF SendQuery, SendControl, CloseChannel, Typed, Phases
<1>2. CASE DropTask
  <2>1. turn' = turn /\ seen' = seen /\ loop' = [loop EXCEPT !.cancel = TRUE]
    BY <1>2 DEF DropTask
  <2>2. QED
    BY <1>0, <2>1 DEF LoopType, Typed, Phases
<1>3. CASE TakeQuery
  <2>1. /\ turn' = turn /\ seen' = seen
        /\ loop' = [loop EXCEPT !.pc = "drain", !.armed = TRUE]
    BY <1>3 DEF TakeQuery
  <2>2. QED
    BY <1>0, <2>1 DEF LoopType, Typed, Phases
<1>4. CASE TakePause
  <2> DEFINE heard == loop.state \in Running
  <2>1. PICK a \in BOOLEAN : a <=> loop.pause \/ heard
    OBVIOUS
  <2>2. PICK b \in BOOLEAN : b <=> seen.pause \/ heard
    OBVIOUS
  <2>3. a = (loop.pause \/ heard) /\ b = (seen.pause \/ heard)
    BY <1>0, <2>1, <2>2, Zenon DEF LoopType, SeenType
  <2>4. /\ turn' = turn /\ loop' = [loop EXCEPT !.pc = "drain", !.pause = a]
        /\ seen' = [seen EXCEPT !.pause = b]
    BY <1>4, <2>3 DEF TakePause
  <2> HIDE DEF heard
  <2>5. /\ loop' \in LoopType /\ loop'.pc = "drain" /\ loop'.state = loop.state /\ loop'.pause = a
        /\ loop'.reason = loop.reason /\ seen' \in SeenType /\ seen'.pause = b
    BY <1>0, <2>4 DEF LoopType, SeenType
  <2>6. loop'.pause \/ loop'.state \in Paused => seen'.pause
    BY <2>1, <2>2, <2>5 DEF Phases
  <2>7. QED
    BY <1>0, <2>4, <2>5, <2>6 DEF Typed, Phases
<1>5. CASE TakeResume
  <2>0. turn' = turn /\ seen' = seen /\ (turn.stream = FALSE \/ loop.state \notin Paused)
    BY <1>0, <1>5 DEF TakeResume, Phases, Paused, TurnType
  <2>1. CASE loop.state \in Paused
    <3>1. /\ turn' = turn /\ seen' = seen
          /\ loop' = [loop EXCEPT !.pc = "drain", !.armed = TRUE, !.state = ResumedState]
      BY <1>5, <2>1 DEF TakeResume
    <3>2. /\ loop.state = "PausedDuringTools" => ResumedState = "ExecutingTools"
          /\ loop.state = "PausedBeforeRequest" => ResumedState = "PreparingRequest"
      BY DEF ResumedState
    <3>3. loop.state \in {"PausedDuringTools", "PausedBeforeRequest"}
      BY <2>1 DEF Paused
    <3>4. ResumedState \in LooperState
      BY <3>2, <3>3 DEF LooperState
    <3>5. PICK x \in LooperState : x = ResumedState
      BY <3>4
    <3>6. loop' = [loop EXCEPT !.pc = "drain", !.armed = TRUE, !.state = x]
      BY <3>1, <3>5
    <3>7. /\ loop' \in LoopType /\ loop'.pc = "drain" /\ loop'.state = x /\ loop'.pause = loop.pause
          /\ loop'.reason = loop.reason
      BY <1>0, <3>6 DEF LoopType
    <3>8. QED
      BY <1>0, <3>1, <3>2, <3>3, <3>5, <3>7 DEF Typed, Phases, Paused
  <2>2. CASE loop.state \notin Paused
    <3>1. /\ turn' = turn /\ seen' = seen
          /\ loop' = [loop EXCEPT !.pc = "drain", !.pause = FALSE]
      BY <1>5, <2>2 DEF TakeResume
    <3>2. QED
      BY <1>0, <3>1 DEF LoopType, Typed, Phases
  <2>3. QED
    BY <2>1, <2>2
<1>6. CASE TakeCancel
  <2>1. /\ turn' = turn /\ seen' = seen
        /\ loop' = [loop EXCEPT !.pc = "settle", !.cancel = TRUE]
    BY <1>6 DEF TakeCancel
  <2>2. QED
    BY <1>0, <2>1 DEF LoopType, Typed, Phases
<1>7. CASE TakeShutdown
  <2>1. /\ turn' = ClearContext /\ seen' = seen
        /\ loop' = [loop EXCEPT !.pc = "exited", !.state = "Idle"]
    BY <1>7 DEF TakeShutdown
  <2>2. /\ loop' \in LoopType /\ loop'.pc = "exited" /\ loop'.state = "Idle"
        /\ loop'.pause = loop.pause /\ loop'.reason = loop.reason
    BY <1>0, <2>1 DEF LoopType, LooperState
  <2>3. /\ turn' \in TurnType /\ turn'.stream = FALSE /\ turn'.spawned = FALSE /\ turn'.tools = <<>>
    BY <2>1, ClearContextFacts
  <2>4. DOMAIN turn'.tools = {}
    BY <2>3
  <2>5. QED
    BY <1>0, <2>1, <2>2, <2>3, <2>4 DEF Typed, Phases, Paused
<1>8. QED
  BY <1>1, <1>2, <1>3, <1>4, <1>5, <1>6, <1>7 DEF Environment, Messages

\* A loop that has let go of its turn is in order.
LEMMA LetGo ==
  ASSUME TypeOK, turn' \in TurnType, turn'.stream = FALSE, turn'.spawned = FALSE,
         turn'.tools = <<>>, seen' = seen, loop' \in LoopType, loop'.state = "Idle",
         loop'.pause = FALSE, loop'.pc \in {"top", "start", "exited"}
  PROVE  Typed /\ Phases'
<1>1. seen \in SeenType /\ DOMAIN turn'.tools = {}
  BY DEF TypeOK, SeenType
<1>2. QED
  BY <1>1 DEF Typed, Phases, Paused

\* The end of a turn, the start of the next, and the step into react_step.
LEMMA SettleLoop ==
  ASSUME TypeOK, Phases, Finalize \/ StartTurnFromPending \/ Dispatch \/ CommitDone
  PROVE  Typed /\ Phases'
<1>0. loop \in LoopType /\ turn \in TurnType /\ seen \in SeenType
  BY DEF TypeOK, LoopType, TurnType, SeenType
<1>1. ASSUME NEW pc \in {"top", "exited"}, CancelTheTurn, loop' = AfterCancel(pc), seen' = seen
      PROVE  Typed /\ Phases'
  <2>1. turn' = ClearContext
    BY <1>1 DEF CancelTheTurn
  <2>2. CancelReason \in Reason
    BY <1>0 DEF CancelReason, Reason, LoopType
  <2>3. PICK why \in Reason : why = CancelReason
    BY <2>2
  <2>4. loop' = [loop EXCEPT !.pc = pc, !.state = "Idle", !.armed = FALSE, !.pause = FALSE,
                             !.cancel = FALSE, !.reason = why]
    BY <1>1, <2>3 DEF AfterCancel
  <2>5. /\ loop' \in LoopType /\ loop'.state = "Idle" /\ loop'.pause = FALSE
        /\ loop'.pc \in {"top", "start", "exited"}
    BY <1>0, <2>4 DEF LoopType, LooperState
  <2>6. QED
    BY <1>1, <2>1, <2>5, ClearContextFacts, LetGo
<1>2. CASE FinalizeCancel
  BY <1>1, <1>2 DEF FinalizeCancel
<1>3. CASE FinalizeFailure
  <2>1. turn' = ClearContext /\ seen' = seen
    BY <1>3 DEF FinalizeFailure
  <2>2. PICK why : why = IF loop.reason = "none" THEN "other" ELSE loop.reason
    OBVIOUS
  <2>3. why \in Reason
    BY <1>0, <2>2 DEF Reason, LoopType
  <2>4. loop' = [loop EXCEPT !.pc = "start", !.state = "Idle", !.pause = FALSE, !.reason = why]
    BY <1>3, <2>2 DEF FinalizeFailure
  <2>5. /\ loop' \in LoopType /\ loop'.state = "Idle" /\ loop'.pause = FALSE
        /\ loop'.pc \in {"top", "start", "exited"}
    BY <1>0, <2>3, <2>4 DEF LoopType, LooperState
  <2>6. QED
    BY <2>1, <2>5, ClearContextFacts, LetGo
<1>4. CASE ChannelClosed
  <2>1. CASE loop.state \in Paused
    <3>1. CancelTheTurn /\ loop' = AfterCancel("exited") /\ seen' = seen
      BY <1>4, <2>1 DEF ChannelClosed
    <3>2. "exited" \in {"top", "exited"}
      OBVIOUS
    <3>3. QED
      BY <1>1, <3>1, <3>2
  <2>2. CASE loop.state \notin Paused
    <3>1. /\ loop' = [loop EXCEPT !.pc = "exited"] /\ turn' = turn /\ seen' = seen
          /\ loop.state = "Idle"
      BY <1>4, <2>2 DEF ChannelClosed, HasPendingWork, Docked, Paused
    <3>2. QED
      BY <1>0, <3>1 DEF LoopType, Typed, Phases
  <2>3. QED
    BY <2>1, <2>2
<1>5. CASE StartTurnFromPending
  <2>1. /\ loop' = Started /\ turn' = FreshTurn /\ seen' = [panicked |-> {}, pause |-> FALSE]
    BY <1>5 DEF StartTurnFromPending
  <2>2. /\ loop' \in LoopType /\ loop'.pc = "react" /\ loop'.state = "PreparingRequest"
        /\ loop'.pause = FALSE /\ loop'.reason = "none"
    BY <1>0, <2>1 DEF LoopType, LooperState, Reason, Started
  <2>3. seen' \in SeenType
    BY <2>1 DEF SeenType
  <2>4. turn' \in TurnType /\ turn'.stream = FALSE /\ turn'.spawned = FALSE /\ turn'.tools = <<>>
    BY <2>1, FreshTurnFacts
  <2>5. DOMAIN turn'.tools = {}
    BY <2>4
  <2>6. QED
    BY <2>2, <2>3, <2>4, <2>5 DEF Typed, Phases, Paused, Running
<1>6. CASE Dispatch
  <2>1. /\ turn' = turn /\ seen' = seen
        /\ loop' = [loop EXCEPT !.pc = IF loop.state \in Docked THEN "top" ELSE "react"]
    BY <1>6 DEF Dispatch
  <2>2. PICK pc \in {"top", "react"} : /\ pc = IF loop.state \in Docked THEN "top" ELSE "react"
                                       /\ pc = "react" => loop.state \notin Docked
    OBVIOUS
  <2>3. loop' = [loop EXCEPT !.pc = pc]
    BY <2>1, <2>2
  <2>4. /\ loop' \in LoopType /\ loop'.pc = pc /\ loop'.state = loop.state
        /\ loop'.pause = loop.pause /\ loop'.reason = loop.reason
    BY <1>0, <2>3 DEF LoopType
  <2>5. pc = "react" => loop.state \in Running \cup {"Done"}
    <3>1. loop.state \in LooperState /\ (loop.pc = "start" => loop.state = "Idle")
      BY <1>0 DEF LoopType, Phases
    <3>2. loop.state # "Failed"
      BY <1>6, <3>1 DEF Dispatch, SettledQuietly
    <3>3. QED
      BY <2>2, <3>1, <3>2 DEF LooperState, Docked, Paused, Running
  <2>6. QED
    BY <1>0, <2>1, <2>4, <2>5 DEF Typed, Phases
<1>7. CASE CommitDone
  <2>1. /\ turn' = [turn EXCEPT !.text = FALSE] /\ seen' = seen /\ loop.state = "Done"
        /\ loop' = [Go("Idle") EXCEPT !.reason = "none"]
    BY <1>7 DEF CommitDone, Reacts
  <2>2. PICK g : g = Go("Idle")
    OBVIOUS
  <2>3. "Idle" \in LooperState
    BY DEF LooperState
  <2>4. g \in LoopType /\ g.pc = "top" /\ g.state = "Idle" /\ g.pause = loop.pause
    BY <2>2, <2>3, GoFacts
  <2>5. loop' = [g EXCEPT !.reason = "none"]
    BY <2>1, <2>2
  <2>6. loop' \in LoopType /\ loop'.pc = "top" /\ loop'.state = "Idle" /\ loop'.pause = loop.pause
    BY <2>4, <2>5 DEF LoopType, Reason
  <2>7. /\ turn' \in TurnType /\ turn'.tools = turn.tools
        /\ turn'.stream = turn.stream /\ turn'.spawned = turn.spawned
    BY <1>0, <2>1 DEF TurnType
  <2>8. turn.tools = <<>> /\ turn.stream = FALSE /\ turn.spawned = FALSE
    BY <1>0, <2>1 DEF Phases, TurnType
  <2>9. DOMAIN turn'.tools = {}
    BY <2>7, <2>8
  <2>10. QED
    BY <1>0, <2>1, <2>6, <2>7, <2>8, <2>9 DEF Typed, Phases, Paused
<1>8. QED
  BY <1>2, <1>3, <1>4, <1>5, <1>6, <1>7 DEF Finalize

\* A step that goes on with the turn and holds neither a stream, nor tools.
LEMMA HoldsNothing ==
  ASSUME TypeOK, Phases, NEW x \in {"PreparingRequest", "ResolvingResponse", "Done"},
         loop' = Go(x), seen' = seen, loop.state \notin {"Idle", "Failed"},
         turn' \in TurnType, turn'.stream = FALSE, turn'.spawned = FALSE, turn'.tools = <<>>,
         x = "ResolvingResponse" => turn'.response \in Response
  PROVE  Typed /\ Phases'
<1>1. seen \in SeenType /\ DOMAIN turn'.tools = {}
  BY DEF TypeOK, SeenType
<1>2. x \in LooperState
  BY DEF LooperState
<1>3. /\ loop' \in LoopType /\ loop'.pc = "top" /\ loop'.state = x
      /\ loop'.pause = loop.pause /\ loop'.reason = loop.reason
  BY <1>2, GoFacts
<1>4. QED
  BY <1>1, <1>3 DEF Typed, Phases, Paused

\* A turn that fails lets go of the stream and has no tasks.
LEMMA FailsClean ==
  ASSUME TypeOK, Phases, NEW reason \in Reason, loop' = Fail(reason), seen' = seen,
         turn' \in TurnType, turn'.stream = FALSE, turn'.spawned = FALSE,
         \A i \in DOMAIN turn'.tools : turn'.tools[i].task = "none"
  PROVE  Typed /\ Phases'
<1>1. seen \in SeenType
  BY DEF TypeOK, SeenType
<1>2. loop' \in LoopType /\ loop'.pc = "top" /\ loop'.state = "Failed" /\ loop'.pause = loop.pause
  BY FailFacts
<1>3. QED
  BY <1>1, <1>2 DEF Typed, Phases, Paused

\* A step that goes on with the turn, in a state that fits what is held.
LEMMA Continues ==
  ASSUME TypeOK, Phases, NEW x \in Running, loop' = Go(x), seen' = seen,
         loop.state \notin {"Idle", "Failed"}, turn' \in TurnType,
         turn'.stream <=> x = "Streaming",
         turn'.spawned => x = "ExecutingTools",
         ~turn'.spawned => \A i \in DOMAIN turn'.tools : turn'.tools[i].task = "none",
         turn'.tools # <<>> => x = "ExecutingTools",
         x = "ResolvingResponse" => turn'.response \in Response
  PROVE  Typed /\ Phases'
<1>1. seen \in SeenType
  BY DEF TypeOK, SeenType
<1>2. x \in LooperState
  BY DEF LooperState, Running
<1>3. /\ loop' \in LoopType /\ loop'.pc = "top" /\ loop'.state = x
      /\ loop'.pause = loop.pause /\ loop'.reason = loop.reason
  BY <1>2, GoFacts
<1>4. QED
  BY <1>1, <1>3 DEF Typed, Phases, Paused, Running

\* A response of the model is one of the responses there are.
LEMMA ResponsesAre ==
  ASSUME NEW r \in Responses
  PROVE  r \in Response /\ \A i, j \in DOMAIN r.calls : r.calls[i] = r.calls[j] => i = j
<1>1. PICK n \in 0 .. MaxCalls : r.calls \in Injection(1 .. n, CallIds \ UsedIds)
  BY DEF Responses
<1>2. r.calls \in [1 .. n -> CallIds \ UsedIds] /\ IsInjective(r.calls)
  BY <1>1 DEF Injection
<1>3. n \in Nat /\ r.calls \in Seq(CallIds)
  BY <1>2, LooperAssumption
<1>4. r \in Response
  BY <1>3 DEF Responses, Response
<1>5. QED
  BY <1>2, <1>4 DEF IsInjective

\* Where the loop is in a turn, what it holds.
LEMMA HoldsBy ==
  ASSUME TypeOK, Phases
  PROVE  /\ turn \in TurnType /\ loop \in LoopType /\ seen \in SeenType
         /\ loop.pc = "request" => loop.state = "PreparingRequest"
         /\ loop.state \in {"PreparingRequest", "Streaming", "ResolvingResponse", "Done"} =>
              turn.spawned = FALSE /\ turn.tools = <<>> /\ DOMAIN turn.tools = {}
         /\ loop.state # "Streaming" => turn.stream = FALSE
<1>1. turn \in TurnType /\ loop \in LoopType /\ seen \in SeenType
  BY DEF TypeOK, TurnType, LoopType, SeenType
<1>2. /\ turn.spawned \in BOOLEAN /\ turn.stream \in BOOLEAN
  BY <1>1 DEF TurnType
<1>3. DOMAIN <<>> = {}
  OBVIOUS
<1>4. QED
  BY <1>1, <1>2, <1>3 DEF Phases

\* A model call that came to nothing leaves the loop in order.
LEMMA RetryLoop ==
  ASSUME TypeOK, Phases, seen' = seen,
         loop.state \in {"PreparingRequest", "Streaming", "ResolvingResponse"},
         NEW s, NEW text \in BOOLEAN, NEW cp, NEW truncated \in BOOLEAN,
         RetryOrFail(s, text, cp, truncated)
  PROVE  Typed /\ Phases'
<1>1. turn.spawned = FALSE /\ turn.tools = <<>> /\ DOMAIN turn.tools = {}
  BY HoldsBy
<1>2. turn' \in TurnType /\ turn'.stream = FALSE /\ turn'.spawned = FALSE
  BY <1>1, RetryFacts
<1>3. \/ loop' = Go("PreparingRequest") /\ turn'.tools = <<>>
      \/ loop' = Fail("other") /\ turn'.tools = turn.tools
  BY RetryFacts
<1>4. "other" \in Reason
  BY DEF Reason
<1>5. CASE loop' = Go("PreparingRequest") /\ turn'.tools = <<>>
  BY <1>2, <1>5, HoldsNothing
<1>6. CASE loop' = Fail("other") /\ turn'.tools = turn.tools
  BY <1>1, <1>2, <1>4, <1>6, FailsClean
<1>7. QED
  BY <1>3, <1>5, <1>6

\* So does the end of a batch.
LEMMA FinishLoop ==
  ASSUME TypeOK, Phases, seen' = seen, loop.state = "ExecutingTools",
         NEW tools, FinishTools(tools)
  PROVE  Typed /\ Phases'
<1>1. turn' = ClearContext /\ loop' = Go("PreparingRequest")
  BY DEF FinishTools
<1>2. QED
  BY <1>1, ClearContextFacts, HoldsNothing

\* A request that is prepared, and what becomes of it.
LEMMA RequestLoop ==
  ASSUME TypeOK, Phases,
         \/ PauseBeforeRequest \/ BackoffInterrupted \/ ExceedIterations
         \/ (SendRequest /\ CanStage(session))
         \/ RequestAnswered \/ RequestFails \/ RequestRefused
  PROVE  Typed /\ Phases'
<1>0. turn \in TurnType /\ loop \in LoopType /\ seen \in SeenType
  BY HoldsBy
<1>1. /\ loop.state = "PreparingRequest" /\ seen' = seen
      /\ turn.spawned = FALSE /\ turn.tools = <<>> /\ DOMAIN turn.tools = {}
      /\ turn.stream = FALSE
  <2>1. loop.state = "PreparingRequest" /\ seen' = seen
    BY HoldsBy DEF PauseBeforeRequest, BackoffInterrupted, ExceedIterations, SendRequest,
       RequestAnswered, RequestFails, RequestRefused, Prepares, Reacts
  <2>2. QED
    BY <2>1, HoldsBy
<1>2. CASE PauseBeforeRequest
  <2>1. /\ turn' = turn /\ loop.pause
        /\ loop' = [Go("PausedBeforeRequest") EXCEPT !.pause = FALSE]
    BY <1>2 DEF PauseBeforeRequest
  <2>2. PICK g : g = Go("PausedBeforeRequest")
    OBVIOUS
  <2>3. "PausedBeforeRequest" \in LooperState
    BY DEF LooperState
  <2>4. g \in LoopType /\ g.pc = "top" /\ g.state = "PausedBeforeRequest"
        /\ g.reason = loop.reason
    BY <2>2, <2>3, GoFacts
  <2>5. loop' = [g EXCEPT !.pause = FALSE]
    BY <2>1, <2>2
  <2>6. /\ loop' \in LoopType /\ loop'.pc = "top" /\ loop'.state = "PausedBeforeRequest"
        /\ loop'.reason = loop.reason
    BY <2>4, <2>5 DEF LoopType
  <2>7. QED
    BY <1>0, <1>1, <2>1, <2>6 DEF Typed, Phases, Paused
<1>3. CASE BackoffInterrupted
  <2>1. loop' = Go("PreparingRequest") /\ turn' = turn
    BY <1>3 DEF BackoffInterrupted
  <2>2. QED
    BY <1>0, <1>1, <2>1, HoldsNothing
<1>4. CASE ExceedIterations
  <2>1. loop' = Fail("maxIterations") /\ turn' = turn /\ "maxIterations" \in Reason
    BY <1>4 DEF ExceedIterations, Reason
  <2>2. QED
    BY <1>0, <1>1, <2>1, FailsClean
<1>5. CASE SendRequest /\ CanStage(session)
  <2>1. /\ turn' \in TurnType /\ turn'.tools = turn.tools
        /\ turn'.stream = turn.stream /\ turn'.spawned = turn.spawned
    BY <1>5, SendRequestFacts
  <2>2. loop' = [loop EXCEPT !.pc = "request"]
    BY <1>5 DEF SendRequest
  <2>3. /\ loop' \in LoopType /\ loop'.pc = "request" /\ loop'.state = loop.state
        /\ loop'.pause = loop.pause /\ loop'.reason = loop.reason
    BY <1>0, <2>2 DEF LoopType
  <2>4. QED
    BY <1>0, <1>1, <2>1, <2>3 DEF Typed, Phases, Paused
<1>6. CASE RequestAnswered
  <2>1. CASE UseStream
    <3>1. loop' = Go("Streaming") /\ turn' = [turn EXCEPT !.stream = TRUE]
      BY <1>6, <2>1 DEF RequestAnswered
    <3>2. /\ turn' \in TurnType /\ turn'.stream = TRUE /\ turn'.tools = <<>>
          /\ turn'.spawned = FALSE
      BY <1>0, <1>1, <3>1 DEF TurnType
    <3>3. "Streaming" \in Running /\ DOMAIN turn'.tools = {}
      BY <1>1, <3>2 DEF Running
    <3>4. QED
      BY <1>1, <3>1, <3>2, <3>3, Continues
  <2>2. CASE ~UseStream
    <3>1. PICK r \in Responses : turn' = [turn EXCEPT !.response = r]
      BY <1>6, <2>2 DEF RequestAnswered
    <3>2. loop' = Go("ResolvingResponse")
      BY <1>6, <2>2 DEF RequestAnswered
    <3>3. r \in Response
      BY ResponsesAre
    <3>4. /\ turn' \in TurnType /\ turn'.stream = FALSE /\ turn'.tools = <<>>
          /\ turn'.spawned = FALSE /\ turn'.response \in Response
      BY <1>0, <1>1, <3>1, <3>3 DEF TurnType
    <3>5. QED
      BY <1>1, <3>2, <3>4, HoldsNothing
  <2>3. QED
    BY <2>1, <2>2
<1>7. CASE RequestFails
  <2>1. RetryOrFail(session, turn.text, Len(session.staged), FALSE) /\ turn.text \in BOOLEAN
    BY <1>0, <1>7 DEF RequestFails, TurnType
  <2>2. QED
    BY <1>1, <2>1, RetryLoop
<1>8. CASE RequestRefused
  <2>1. loop' = Fail("other") /\ turn' = turn /\ "other" \in Reason
    BY <1>8 DEF RequestRefused, Reason
  <2>2. QED
    BY <1>0, <1>1, <2>1, FailsClean
<1>9. QED
  BY <1>2, <1>3, <1>4, <1>5, <1>6, <1>7, <1>8

\* The stream, and what the response makes of the loop.
LEMMA ResponseLoop ==
  ASSUME TypeOK, Phases,
         \/ StreamQuiet \/ StreamText \/ StreamEnds \/ StreamBreaks \/ StreamRefused
         \/ ResolveResponse \/ ResponseRefused
  PROVE  Typed /\ Phases'
<1>0. turn \in TurnType /\ loop \in LoopType /\ seen \in SeenType
  BY HoldsBy
<1>1. seen' = seen /\ loop.state \in {"Streaming", "ResolvingResponse"}
  BY DEF StreamQuiet, StreamText, StreamEnds, StreamBreaks, StreamRefused,
     ResolveResponse, ResponseRefused, Reacts
<1>2. turn.spawned = FALSE /\ turn.tools = <<>> /\ DOMAIN turn.tools = {}
  BY <1>1, HoldsBy
<1>3. "Streaming" \in Running /\ "other" \in Reason
  BY DEF Running, Reason
<1>4. CASE StreamQuiet
  <2>1. loop' = Go("Streaming") /\ turn' = turn /\ turn.stream
    BY <1>4 DEF StreamQuiet, Reacts, Phases
  <2>2. QED
    BY <1>0, <1>1, <1>2, <1>3, <2>1, Continues
<1>5. CASE StreamText
  <2>1. loop' = Go("Streaming") /\ turn' = [turn EXCEPT !.text = TRUE] /\ turn.stream
    BY <1>5 DEF StreamText, Reacts, Phases
  <2>2. /\ turn' \in TurnType /\ turn'.stream /\ turn'.tools = turn.tools
        /\ turn'.spawned = FALSE
    BY <1>0, <1>2, <2>1 DEF TurnType
  <2>3. QED
    BY <1>1, <1>2, <1>3, <2>1, <2>2, Continues
<1>6. CASE StreamEnds
  <2>1. PICK r \in Responses : turn' = [turn EXCEPT !.response = r, !.stream = FALSE]
    BY <1>6 DEF StreamEnds
  <2>2. r \in Response /\ loop' = Go("ResolvingResponse")
    BY <1>6, ResponsesAre DEF StreamEnds
  <2>3. /\ turn' \in TurnType /\ turn'.stream = FALSE /\ turn'.tools = <<>>
        /\ turn'.spawned = FALSE /\ turn'.response \in Response
    BY <1>0, <1>2, <2>1, <2>2 DEF TurnType
  <2>4. QED
    BY <1>1, <2>2, <2>3, HoldsNothing
<1>7. CASE StreamBreaks
  <2>1. RetryOrFail(session, turn.text, Len(session.staged), FALSE) /\ turn.text \in BOOLEAN
    BY <1>0, <1>7 DEF StreamBreaks, TurnType
  <2>2. QED
    BY <1>1, <2>1, RetryLoop
<1>8. CASE StreamRefused
  <2>1. loop' = Fail("other") /\ turn' = [turn EXCEPT !.stream = FALSE]
    BY <1>8 DEF StreamRefused
  <2>2. /\ turn' \in TurnType /\ turn'.stream = FALSE /\ turn'.tools = turn.tools
        /\ turn'.spawned = FALSE
    BY <1>0, <1>2, <2>1 DEF TurnType
  <2>3. QED
    BY <1>1, <1>2, <1>3, <2>1, <2>2, FailsClean
<1>9. CASE ResolveResponse
  <2>1. loop.state = "ResolvingResponse" /\ turn.response \in Response /\ turn.stream = FALSE
    BY <1>0, <1>9, HoldsBy DEF ResolveResponse, Reacts, Phases
  <2>2. turn' \in TurnType /\ turn'.spawned = FALSE /\ turn'.stream = FALSE
    BY <1>2, <1>9, <2>1, ResolveFacts
  <2>3. \/ loop' = Go("Done") /\ turn'.tools = turn.tools
        \/ loop' = Go("ExecutingTools") /\ turn'.tools = NewTools(turn.response)
        \/ loop' = Fail("other") /\ turn'.tools = turn.tools
        \/ loop' = Go("PreparingRequest") /\ turn'.tools = <<>>
    BY <1>9, <2>1, ResolveFacts
  <2>4. CASE loop' = Go("Done") /\ turn'.tools = turn.tools
    BY <1>1, <1>2, <2>1, <2>2, <2>4, HoldsNothing
  <2>5. CASE loop' = Go("ExecutingTools") /\ turn'.tools = NewTools(turn.response)
    <3>1. \A i \in DOMAIN turn'.tools : turn'.tools[i].task = "none"
      BY <2>1, <2>5, NewToolsFacts
    <3>2. "ExecutingTools" \in Running
      BY DEF Running
    <3>3. QED
      BY <1>1, <2>2, <2>5, <3>1, <3>2, Continues
  <2>6. CASE loop' = Fail("other") /\ turn'.tools = turn.tools
    BY <1>1, <1>2, <1>3, <2>2, <2>6, FailsClean
  <2>7. CASE loop' = Go("PreparingRequest") /\ turn'.tools = <<>>
    BY <1>1, <2>1, <2>2, <2>7, HoldsNothing
  <2>8. QED
    BY <2>3, <2>4, <2>5, <2>6, <2>7
<1>10. CASE ResponseRefused
  <2>1. /\ loop' = Fail("other") /\ turn' = [turn EXCEPT !.response = NoResponse]
        /\ turn.stream = FALSE
    BY <1>10, HoldsBy DEF ResponseRefused, Reacts
  <2>2. /\ turn' \in TurnType /\ turn'.stream = FALSE /\ turn'.tools = turn.tools
        /\ turn'.spawned = FALSE
    BY <1>0, <1>2, <2>1 DEF TurnType
  <2>3. QED
    BY <1>1, <1>2, <1>3, <2>1, <2>2, FailsClean
<1>11. QED
  BY <1>4, <1>5, <1>6, <1>7, <1>8, <1>9, <1>10

\* One tool of a batch with another task.
LEMMA OneTaskFacts ==
  ASSUME TypeOK, NEW i \in DOMAIN turn.tools,
         NEW x \in {"none", "running", "finished", "panicked"},
         turn' = [turn EXCEPT !.tools[i].task = x]
  PROVE  /\ turn' \in TurnType /\ turn'.stream = turn.stream /\ turn'.spawned = turn.spawned
         /\ DOMAIN turn'.tools = DOMAIN turn.tools
         /\ turn'.tools \in Seq(Tool)
         /\ \A k \in DOMAIN turn.tools :
              /\ turn'.tools[k].call = turn.tools[k].call
              /\ turn'.tools[k].result = turn.tools[k].result
              /\ turn'.tools[k].task = IF k = i THEN x ELSE turn.tools[k].task
<1>1. turn \in TurnType /\ turn.tools \in Seq(Tool)
  BY Types
<1>2. turn.tools[i] \in Tool
  BY <1>1, ElementOfSeq
<1>3. PICK t : t = [turn.tools[i] EXCEPT !.task = x]
  OBVIOUS
<1>4. t \in Tool /\ t.call = turn.tools[i].call /\ t.result = turn.tools[i].result /\ t.task = x
  BY <1>2, <1>3, ToolWithTask
<1>5. PICK f : f = [turn.tools EXCEPT ![i] = t]
  OBVIOUS
<1>6. f \in Seq(Tool) /\ DOMAIN f = DOMAIN turn.tools
      /\ \A k \in DOMAIN turn.tools : f[k] = IF k = i THEN t ELSE turn.tools[k]
  BY <1>1, <1>4, <1>5, ExceptSeq
<1>7. turn' = [turn EXCEPT !.tools = f]
  BY <1>3, <1>5
<1>8. /\ turn' \in TurnType /\ turn'.stream = turn.stream /\ turn'.spawned = turn.spawned
      /\ turn'.tools = f
  BY <1>1, <1>6, <1>7 DEF TurnType
<1>9. ASSUME NEW k \in DOMAIN turn.tools
      PROVE  /\ f[k].call = turn.tools[k].call /\ f[k].result = turn.tools[k].result
             /\ f[k].task = IF k = i THEN x ELSE turn.tools[k].task
  <2>1. f[k] = IF k = i THEN t ELSE turn.tools[k]
    BY <1>6
  <2>2. CASE k = i
    BY <1>4, <2>1, <2>2
  <2>3. CASE k # i
    BY <2>1, <2>3
  <2>4. QED
    BY <2>2, <2>3
<1>10. QED
  BY <1>6, <1>8, <1>9

\* The tools: a pause before them, their start, their results.
LEMMA ToolsLoop ==
  ASSUME TypeOK, Phases,
         \/ PauseBeforeTools \/ SpawnTools \/ ToolRefused
         \/ CollectResults \/ CollectPanic \/ BatchOver \/ PollQuiet
  PROVE  Typed /\ Phases'
<1>0. turn \in TurnType /\ loop \in LoopType /\ seen \in SeenType
  BY HoldsBy
<1>1. seen' = seen /\ loop.state = "ExecutingTools" /\ turn.stream = FALSE
  <2>1. seen' = seen /\ loop.state = "ExecutingTools"
    BY DEF PauseBeforeTools, SpawnTools, ToolRefused, CollectResults, CollectPanic,
       BatchOver, PollQuiet, Spawns, Polls, Reacts
  <2>2. QED
    BY <2>1, HoldsBy
<1>2. "ExecutingTools" \in Running /\ "other" \in Reason /\ "PausedDuringTools" \in LooperState
  BY DEF Running, Reason, LooperState
<1>3. CASE PauseBeforeTools
  <2>1. /\ turn' = turn /\ loop.pause /\ ~turn.spawned
        /\ loop' = [Go("PausedDuringTools") EXCEPT !.pause = FALSE]
    BY <1>3 DEF PauseBeforeTools
  <2>2. PICK g : g = Go("PausedDuringTools")
    OBVIOUS
  <2>3. g \in LoopType /\ g.pc = "top" /\ g.state = "PausedDuringTools"
        /\ g.reason = loop.reason
    BY <1>2, <2>2, GoFacts
  <2>4. loop' = [g EXCEPT !.pause = FALSE]
    BY <2>1, <2>2
  <2>5. /\ loop' \in LoopType /\ loop'.pc = "top" /\ loop'.state = "PausedDuringTools"
        /\ loop'.reason = loop.reason
    BY <2>3, <2>4 DEF LoopType
  <2>6. QED
    BY <1>0, <1>1, <2>1, <2>5 DEF Typed, Phases, Paused
<1>4. CASE SpawnTools
  <2>1. CASE \E settled : FinishTools(Settle(settled))
    BY <1>1, <2>1, FinishLoop
  <2>2. CASE /\ loop' = Go("ExecutingTools") /\ turn' \in TurnType
             /\ turn'.spawned = TRUE /\ turn'.stream = turn.stream
    BY <1>1, <1>2, <2>2, Continues
  <2>3. QED
    BY <1>4, <2>1, <2>2, SpawnFacts
<1>5. CASE ToolRefused
  <2>1. loop' = Fail("other") /\ ~turn.spawned
    BY <1>5 DEF ToolRefused, Spawns
  <2>2. PICK settled : turn' = [turn EXCEPT !.tools = Settle(settled)]
    BY <1>5 DEF ToolRefused
  <2>3. PICK f : f = Settle(settled)
    OBVIOUS
  <2>4. f \in Seq(Tool) /\ DOMAIN f = DOMAIN turn.tools
        /\ \A i \in DOMAIN f : f[i].task = turn.tools[i].task
    BY <2>3, SettleFacts
  <2>5. turn' = [turn EXCEPT !.tools = f]
    BY <2>2, <2>3
  <2>6. /\ turn' \in TurnType /\ turn'.stream = FALSE /\ turn'.tools = f
        /\ turn'.spawned = FALSE
    BY <1>0, <1>1, <2>1, <2>4, <2>5 DEF TurnType
  <2>7. \A i \in DOMAIN turn'.tools : turn'.tools[i].task = "none"
    BY <2>1, <2>4, <2>6 DEF Phases
  <2>8. QED
    BY <1>1, <1>2, <2>1, <2>6, <2>7, FailsClean
<1>6. CASE CollectResults
  <2>1. CASE FinishTools(Joined)
    BY <1>1, <2>1, FinishLoop
  <2>2. CASE /\ loop' = Go("ExecutingTools") /\ turn' \in TurnType
             /\ turn'.stream = turn.stream /\ turn'.spawned = turn.spawned
    <3>1. turn.spawned = TRUE
      BY <1>0, <1>6 DEF CollectResults, Polls, TurnType
    <3>2. QED
      BY <1>1, <1>2, <2>2, <3>1, Continues
  <2>3. QED
    BY <1>6, <2>1, <2>2, CollectFacts
<1>7. CASE CollectPanic
  <2>1. PICK i \in Tasks({"panicked"}) : turn' = [turn EXCEPT !.tools[i].task = "none"]
    BY <1>7 DEF CollectPanic
  <2>2. i \in DOMAIN turn.tools /\ loop' = Go("ExecutingTools") /\ turn.spawned = TRUE
    BY <1>0, <1>7 DEF CollectPanic, Tasks, Polls, TurnType
  <2>3. "none" \in {"none", "running", "finished", "panicked"}
    OBVIOUS
  <2>4. turn' \in TurnType /\ turn'.stream = turn.stream /\ turn'.spawned = turn.spawned
    BY <2>1, <2>2, <2>3, OneTaskFacts
  <2>5. QED
    BY <1>1, <1>2, <2>2, <2>4, Continues
<1>8. CASE BatchOver
  BY <1>1, <1>8, FinishLoop DEF BatchOver
<1>9. CASE PollQuiet
  <2>1. turn' = turn /\ loop' = Go("ExecutingTools") /\ turn.spawned = TRUE
    BY <1>0, <1>9 DEF PollQuiet, Polls, TurnType
  <2>2. QED
    BY <1>0, <1>1, <1>2, <2>1, Continues
<1>10. QED
  BY <1>3, <1>4, <1>5, <1>6, <1>7, <1>8, <1>9

\* A task that ends is one that was spawned.
LEMMA TaskLoop ==
  ASSUME TypeOK, Phases, NEW i, TaskEnds(i)
  PROVE  /\ Typed /\ Phases'
         /\ DOMAIN turn'.tools = DOMAIN turn.tools /\ i \in DOMAIN turn.tools
         /\ \A k \in DOMAIN turn.tools :
              /\ turn'.tools[k].call = turn.tools[k].call
              /\ turn'.tools[k].result = turn.tools[k].result
              /\ k # i => turn'.tools[k].task = turn.tools[k].task
         /\ \/ turn'.tools[i].task = "finished" /\ seen' = seen
            \/ seen'.panicked = seen.panicked \cup {turn.tools[i].call}
<1>0. turn \in TurnType /\ loop \in LoopType /\ seen \in SeenType /\ turn.tools \in Seq(Tool)
  BY HoldsBy, Types
<1>1. /\ i \in DOMAIN turn.tools /\ turn.tools[i].task = "running" /\ loop' = loop
      /\ turn.spawned
  BY DEF TaskEnds, Phases
<1>2. PICK outcome \in {"finished", "panicked"} :
        /\ turn' = [turn EXCEPT !.tools[i].task = outcome]
        /\ seen' = IF outcome = "panicked"
                   THEN [seen EXCEPT !.panicked = @ \cup {turn.tools[i].call}] ELSE seen
  BY DEF TaskEnds
<1>3. outcome \in {"none", "running", "finished", "panicked"}
  OBVIOUS
<1>4. /\ turn' \in TurnType /\ turn'.stream = turn.stream /\ turn'.spawned = turn.spawned
      /\ DOMAIN turn'.tools = DOMAIN turn.tools /\ turn'.tools \in Seq(Tool)
      /\ \A k \in DOMAIN turn.tools :
           /\ turn'.tools[k].call = turn.tools[k].call
           /\ turn'.tools[k].result = turn.tools[k].result
           /\ turn'.tools[k].task = IF k = i THEN outcome ELSE turn.tools[k].task
  BY <1>1, <1>2, <1>3, OneTaskFacts
<1>5. /\ seen' \in SeenType /\ seen'.pause = seen.pause
      /\ \/ outcome = "finished" /\ seen' = seen
         \/ seen'.panicked = seen.panicked \cup {turn.tools[i].call}
  <2>1. turn.tools[i].call \in CallIds
    <3>1. turn.tools[i] \in Tool
      BY <1>0, <1>1, ElementOfSeq, LenProperties
    <3>2. QED
      BY <3>1 DEF Tool
  <2>2. PICK ids : ids = seen.panicked \cup {turn.tools[i].call}
    OBVIOUS
  <2>3. ids \in SUBSET CallIds
    BY <1>0, <2>1, <2>2 DEF SeenType
  <2>4. CASE outcome = "panicked"
    <3>1. seen' = [seen EXCEPT !.panicked = ids]
      BY <1>2, <2>2, <2>4
    <3>2. QED
      BY <1>0, <2>2, <2>3, <3>1 DEF SeenType
  <2>5. CASE outcome = "finished"
    BY <1>0, <1>2, <2>5
  <2>6. QED
    BY <2>4, <2>5
<1>6. DOMAIN <<>> = {}
  OBVIOUS
<1>7. Typed
  BY <1>0, <1>1, <1>4, <1>5 DEF Typed
<1>8. turn.tools # <<>>
  BY <1>1, <1>6
<1>9. Phases'
  BY <1>0, <1>1, <1>4, <1>5, <1>8 DEF Phases, TurnType
<1>10. QED
  BY <1>1, <1>4, <1>5, <1>7, <1>9

\* Every step keeps the loop and what it holds in order.
LEMMA PhasesStep ==
  ASSUME TypeOK, Phases, Agrees, Next
  PROVE  Typed /\ Phases'
<1>1. CASE Environment \/ Messages
  BY <1>1, MessagesLoop
<1>2. CASE Finalize \/ StartTurnFromPending \/ Dispatch \/ CommitDone
  BY <1>2, SettleLoop
<1>3. CASE \/ PauseBeforeRequest \/ BackoffInterrupted \/ ExceedIterations
           \/ SendRequest \/ RequestAnswered \/ RequestFails \/ RequestRefused
  <2>1. SendRequest => CanStage(session)
    BY AtWork, ActiveStages DEF SendRequest, Prepares, Reacts
  <2>2. QED
    BY <1>3, <2>1, RequestLoop
<1>4. CASE \/ StreamQuiet \/ StreamText \/ StreamEnds \/ StreamBreaks \/ StreamRefused
           \/ ResolveResponse \/ ResponseRefused
  BY <1>4, ResponseLoop
<1>5. CASE \/ PauseBeforeTools \/ SpawnTools \/ ToolRefused
           \/ CollectResults \/ CollectPanic \/ BatchOver \/ PollQuiet
  BY <1>5, ToolsLoop
<1>6. CASE \E i \in 1 .. MaxCalls : TaskEnds(i)
  BY <1>6, TaskLoop
<1>7. CASE Exited
  <2>1. loop' = loop /\ turn' = turn /\ seen' = seen
    BY <1>7 DEF Exited, vars
  <2>2. QED
    BY <2>1, HoldsBy DEF Typed, Phases
<1>8. QED
  BY <1>1, <1>2, <1>3, <1>4, <1>5, <1>6, <1>7 DEF Next, Run, React

-----------------------------------------------------------------------------
(* What a step does to the session and the disk.                           *)

\* The turn goes on, or there is none: at most something is staged, and a checkpoint
\* that is taken is of what is staged then.
Carries ==
    /\ SameTurn(session', session) /\ disk'.saved = disk.saved
    /\ \E new \in Seq(Message) :
          /\ session'.staged = session.staged \o new
          /\ StagingAll(session') = StagingAll(session) \o new
    /\ \/ disk'.checkpoint = disk.checkpoint
       \/ disk'.checkpoint = Checkpoint(session') /\ session'.staged # <<>>

\* The turn ends, or there is none: what it had staged is counted, and the history is
\* saved if it is to be.
Ends ==
    /\ session' \in Session /\ session'.state = "Idle"
    /\ session'.turnIndex \in {session.turnIndex, session.turnIndex + 1}
    /\ session.staged # <<>> => session'.turnIndex = session.turnIndex + 1
    /\ disk'.checkpoint \in {disk.checkpoint, NoCheckpoint}
    /\ \/ HoldsHistory(disk'.saved, session') \/ ~WritesHold
       \/ disk'.saved = disk.saved /\ session' = session

\* A turn starts.
Starts ==
    /\ session.state = "Idle" /\ session' \in Session /\ disk' = disk
    /\ session'.committed = session.committed /\ session'.turnIndex = session.turnIndex
    /\ session'.pinned = session.pinned /\ session'.staged = session.staged

\* Staging nothing changes nothing that is staged.
LEMMA StagesNothing ==
  ASSUME NEW s \in Session, NEW r, SameTurn(r, s), r.staged = s.staged
  PROVE  \E new \in Seq(Message) :
            r.staged = s.staged \o new /\ StagingAll(r) = StagingAll(s) \o new
<1>1. PICK e : e = <<>>
  OBVIOUS
<1>2. e \in Seq(Message)
  BY <1>1, EmptySeq
<1>3. s.staged \in Seq(Message) /\ s.userInput \in Seq(Message)
  BY DEF Session
<1>4. StagingAll(s) \in Seq(Message) /\ StagingAll(r) = StagingAll(s)
  BY <1>3, ConcatProperties DEF StagingAll, SameTurn
<1>5. s.staged \o e = s.staged /\ StagingAll(s) \o e = StagingAll(s)
  BY <1>1, <1>3, <1>4, ConcatEmptySeq
<1>6. QED
  BY <1>2, <1>4, <1>5

\* The end of a batch carries the turn on.
LEMMA FinishCarries ==
  ASSUME TypeOK, Agrees, loop.state = "ExecutingTools", NEW tools \in Seq(Tool),
         FinishTools(tools)
  PROVE  Carries /\ disk' \in DiskType
<1>1. session.staged \in Seq(Message) /\ session.staged # <<>>
  BY Types DEF Agrees
<1>2. PICK new \in Seq(Message) :
        /\ session'.staged = session.staged \o new
        /\ StagingAll(session') = StagingAll(session) \o new
  BY FinishFacts
<1>3. session'.staged # <<>>
  <2>1. Len(session.staged) > 0 /\ Len(session'.staged) = Len(session.staged) + Len(new)
        /\ Len(new) \in Nat /\ Len(session.staged) \in Nat
    BY <1>1, <1>2, ConcatProperties, EmptySeq, LenProperties
  <2>2. Len(session'.staged) # 0
    BY <2>1
  <2>3. QED
    BY <2>2
<1>4. /\ SameTurn(session', session) /\ disk' \in DiskType /\ disk'.saved = disk.saved
      /\ disk'.checkpoint \in {disk.checkpoint, Checkpoint(session')}
  BY FinishFacts
<1>5. QED
  BY <1>2, <1>3, <1>4 DEF Carries

\* Every step carries the turn on, ends it, or starts one; only four of them end one.
LEMMA StoreStep ==
  ASSUME NEW R, TypeOK, Phases, Agrees, Arrivals(R), Next
  PROVE  /\ Carries \/ Ends \/ Starts
         /\ Carries \/ StartTurnFromPending \/ Finalize \/ CommitDone
         /\ disk' \in DiskType /\ session' \in Session
<1>0. session \in Session /\ disk \in DiskType /\ SameTurn(session, session)
  BY Types DEF SameTurn
<1>1. PICK n \in Nat : SoundBy(R, session, n)
  <2>1. user.queries \in Nat
    BY LooperAssumption DEF TypeOK
  <2>2. QED
    BY <2>1 DEF Arrivals
<1>2. ASSUME SameTurn(session', session), session'.staged = session.staged, disk' = disk
      PROVE  Carries /\ disk' \in DiskType /\ session' \in Session
  BY <1>0, <1>2, StagesNothing DEF Carries, SameTurn
<1>3. CASE Quiet
  <2>1. session' = session /\ disk' = disk
    BY <1>3, QuietIsQuiet
  <2>2. QED
    BY <1>0, <1>2, <2>1
<1>4. CASE TakeQuery
  <2>1. /\ session' = EnqueuePending(session, Head(user.queue).input) /\ disk' = disk
        /\ user.queue # <<>>
    BY <1>4 DEF TakeQuery, Take
  <2>2. PICK input : input = Head(user.queue).input
    OBVIOUS
  <2>3. user.queue \in Seq(UserMsg)
    BY DEF TypeOK
  <2>4. Head(user.queue) \in UserMsg
    BY <2>1, <2>3, HeadTailProperties
  <2>5. input \in Nat
    BY <2>2, <2>4, LooperAssumption DEF UserMsg
  <2>6. SameTurn(session', session) /\ session'.staged = session.staged
    BY <1>0, <2>1, <2>2, <2>5, EnqueueFields
  <2>7. QED
    BY <1>2, <2>1, <2>6
<1>5. ASSUME CancelTheTurn
      PROVE  Ends /\ disk' \in DiskType /\ session' \in Session
  BY <1>1, <1>5, CancelFacts, StripIsHeld DEF Ends, WritesHold
<1>6. CASE FinalizeCancel
  BY <1>5, <1>6 DEF FinalizeCancel, Finalize
<1>7. CASE FinalizeFailure
  <2>1. session.state # "Idle"
    BY <1>7, AtWork, ActiveStages
  <2>2. Ends /\ disk' \in DiskType /\ session' \in Session
    BY <1>1, <1>7, <2>1, FailureFacts, StripIsHeld DEF Ends, WritesHold
  <2>3. QED
    BY <1>7, <2>2 DEF Finalize
<1>8. CASE ChannelClosed
  <2>1. CASE loop.state \in Paused
    BY <1>5, <1>8, <2>1 DEF ChannelClosed, Finalize
  <2>2. CASE loop.state \notin Paused
    <3>1. session' = session /\ disk' = disk
      BY <1>8, <2>2 DEF ChannelClosed
    <3>2. QED
      BY <1>0, <1>2, <3>1
  <2>3. QED
    BY <2>1, <2>2
<1>9. CASE StartTurnFromPending
  <2>1. session' = DequeueAndStartTurn(session) /\ disk' = disk /\ session.state = "Idle"
    BY <1>9, AtWork DEF StartTurnFromPending
  <2>2. Starts /\ disk' \in DiskType /\ session' \in Session
    BY <1>0, <2>1, DequeueFields DEF Starts
  <2>3. QED
    BY <1>9, <2>2
<1>10. CASE SendRequest
  <2>1. CanStage(session)
    BY <1>10, AtWork, ActiveStages DEF SendRequest, Prepares, Reacts
  <2>2. /\ SameTurn(session', session) /\ disk' \in DiskType /\ disk'.saved = disk.saved
        /\ session' \in Session
    BY <1>10, <2>1, SendRequestFacts DEF SameTurn
  <2>3. PICK new \in Seq(Message) :
          /\ session'.staged = session.staged \o new
          /\ StagingAll(session') = StagingAll(session) \o new
          /\ \/ disk'.checkpoint = disk.checkpoint
             \/ disk'.checkpoint = Checkpoint(session') /\ new # <<>>
    BY <1>10, <2>1, SendRequestFacts
  <2>4. new # <<>> => session'.staged # <<>>
    <3>1. session.staged \in Seq(Message)
      BY Types
    <3>2. Len(session'.staged) = Len(session.staged) + Len(new)
          /\ Len(new) \in Nat /\ Len(session.staged) \in Nat /\ (new # <<>> => Len(new) # 0)
      BY <2>3, <3>1, ConcatProperties, EmptySeq, LenProperties
    <3>3. new # <<>> => Len(session'.staged) # 0
      BY <3>2
    <3>4. QED
      BY <3>3
  <2>5. QED
    BY <2>2, <2>3, <2>4 DEF Carries
<1>11. ASSUME NEW text \in BOOLEAN, disk' = disk,
              RetryOrFail(session, text, Len(session.staged), FALSE)
       PROVE  Carries /\ disk' \in DiskType /\ session' \in Session
  BY <1>2, <1>11, RetryAsItWas
<1>12. CASE RequestFails \/ StreamBreaks
  <2>1. turn.text \in BOOLEAN /\ disk' = disk
        /\ RetryOrFail(session, turn.text, Len(session.staged), FALSE)
    BY <1>12 DEF RequestFails, StreamBreaks, TypeOK
  <2>2. QED
    BY <1>11, <2>1
<1>13. CASE ResolveResponse
  <2>1. turn.response \in Response /\ disk' = disk
    BY <1>13 DEF ResolveResponse, Reacts, Phases
  <2>2. PICK t, new :
          /\ t = StageItems(session, Blocks(turn.response))
          /\ new = NewItems(session, Blocks(turn.response))
    OBVIOUS
  <2>3. /\ t.staged = session.staged \o new /\ StagingAll(t) = StagingAll(session) \o new
        /\ SameTurn(session', session) /\ new \in Seq(Message)
        /\ session' = t \/ session'.staged = session.staged
    BY <1>13, <2>1, <2>2, ResolveSession
  <2>4. CASE session' = t
    BY <1>0, <2>1, <2>3, <2>4 DEF Carries, SameTurn
  <2>5. CASE session'.staged = session.staged
    BY <1>2, <2>1, <2>3, <2>5
  <2>6. QED
    BY <2>3, <2>4, <2>5
<1>14. ASSUME NEW tools \in Seq(Tool), loop.state = "ExecutingTools", FinishTools(tools)
       PROVE  Carries /\ disk' \in DiskType /\ session' \in Session
  BY <1>14, FinishCarries DEF Carries, SameTurn
<1>15. CASE SpawnTools
  <2>1. loop.state = "ExecutingTools"
    BY <1>15 DEF SpawnTools, Spawns, Reacts
  <2>2. CASE \E settled : FinishTools(Settle(settled))
    BY <1>14, <2>1, <2>2, SettleFacts
  <2>3. CASE session' = session /\ disk' = disk
    BY <1>0, <1>2, <2>3
  <2>4. QED
    BY <1>15, <2>2, <2>3, SpawnFacts
<1>16. CASE CollectResults
  <2>1. loop.state = "ExecutingTools"
    BY <1>16 DEF CollectResults, Polls, Reacts
  <2>2. CASE FinishTools(Joined)
    BY <1>14, <2>1, <2>2, JoinedFacts
  <2>3. CASE session' = session /\ disk' = disk
    BY <1>0, <1>2, <2>3
  <2>4. QED
    BY <1>16, <2>2, <2>3, CollectFacts
<1>17. CASE BatchOver
  <2>1. loop.state = "ExecutingTools" /\ FinishTools(turn.tools)
    BY <1>17 DEF BatchOver, Polls, Reacts
  <2>2. QED
    BY <1>14, <2>1, Types
<1>18. CASE CommitDone
  BY <1>1, <1>18, CommitDoneFacts DEF Ends, WritesHold
<1>19. QED
  BY <1>3, <1>4, <1>6, <1>7, <1>8, <1>9, <1>10, <1>12, <1>13, <1>15, <1>16, <1>17, <1>18,
     NextSplit DEF Finalize

\* What a step stages comes behind the checkpoint; the end of a turn leaves it behind.
LEMMA CheckpointedStep ==
  ASSUME NEW R, TypeOK, Phases, Agrees, Arrivals(R), Checkpointed, Next
  PROVE  Checkpointed'
<1>0. session \in Session /\ disk \in DiskType /\ StagingAll(session) \in Seq(Message)
      /\ session.turnIndex \in Nat
  BY Types
<1>1. session' \in Session /\ disk' \in DiskType
  BY StoreStep
<1>2. session'.turnIndex \in Nat
  BY <1>1 DEF Session
<1>3. disk.checkpoint # NoCheckpoint =>
        disk.checkpoint.turn \in Nat /\ disk.checkpoint.staged \in Seq(Message)
  BY <1>0 DEF DiskType, CheckpointType
<1>4. CASE Carries
  <2>1. session'.turnIndex = session.turnIndex
    BY <1>4 DEF Carries, SameTurn
  <2>2. PICK new \in Seq(Message) :
          /\ session'.staged = session.staged \o new
          /\ StagingAll(session') = StagingAll(session) \o new
    BY <1>4 DEF Carries
  <2>3. CASE disk'.checkpoint = disk.checkpoint
    <3>1. SUFFICES ASSUME disk.checkpoint # NoCheckpoint,
                          ~(disk.checkpoint.turn < session.turnIndex)
                   PROVE  /\ disk.checkpoint.turn = session.turnIndex /\ session'.staged # <<>>
                          /\ Begins(disk.checkpoint.staged, StagingAll(session'))
      BY <2>1, <2>3 DEF Checkpointed
    <3>2. /\ disk.checkpoint.turn = session.turnIndex /\ session.staged # <<>>
          /\ Begins(disk.checkpoint.staged, StagingAll(session))
      BY <3>1 DEF Checkpointed
    <3>3. session'.staged # <<>>
      <4>1. session.staged \in Seq(Message)
        BY Types
      <4>2. Len(session'.staged) = Len(session.staged) + Len(new)
            /\ Len(new) \in Nat /\ Len(session.staged) \in Nat /\ Len(session.staged) # 0
        BY <2>2, <3>2, <4>1, ConcatProperties, EmptySeq, LenProperties
      <4>3. Len(session'.staged) # 0
        BY <4>2
      <4>4. QED
        BY <4>3
    <3>4. Begins(disk.checkpoint.staged, StagingAll(session'))
      <4>1. PICK a \in Seq(Message) : a = StagingAll(session)
        BY <1>0
      <4>2. PICK p \in Seq(Message) : p = disk.checkpoint.staged
        BY <1>3, <3>1
      <4>3. Len(p) \in Nat /\ Len(p) <= Len(a) /\ \A i \in 1 .. Len(p) : p[i] = a[i]
        BY <3>2, <4>1, <4>2, LenProperties DEF Begins
      <4>4. /\ Len(a) \in Nat /\ Len(new) \in Nat /\ Len(a \o new) = Len(a) + Len(new)
            /\ \A i \in 1 .. Len(a) : (a \o new)[i] = a[i]
        BY <4>1, ConcatParts
      <4>5. Len(p) <= Len(a \o new) /\ \A i \in 1 .. Len(p) : i \in 1 .. Len(a)
        BY <4>3, <4>4
      <4>6. Begins(p, a \o new)
        BY <4>3, <4>4, <4>5 DEF Begins
      <4>7. QED
        BY <2>2, <4>1, <4>2, <4>6
    <3>5. QED
      BY <3>2, <3>3, <3>4
  <2>4. CASE disk'.checkpoint = Checkpoint(session') /\ session'.staged # <<>>
    <3>1. disk'.checkpoint.turn = session'.turnIndex
          /\ disk'.checkpoint.staged = StagingAll(session')
      BY <2>4 DEF Checkpoint
    <3>2. StagingAll(session') \in Seq(Message)
      BY <1>0, <2>2, ConcatProperties
    <3>3. Begins(disk'.checkpoint.staged, StagingAll(session'))
      BY <3>1, <3>2, LenProperties DEF Begins
    <3>4. QED
      BY <2>4, <3>1, <3>3 DEF Checkpointed
  <2>5. QED
    BY <1>4, <2>3, <2>4 DEF Carries
<1>5. CASE Ends
  <2>1. SUFFICES ASSUME disk'.checkpoint # NoCheckpoint
                 PROVE  disk'.checkpoint.turn < session'.turnIndex
    BY DEF Checkpointed
  <2>2. disk'.checkpoint = disk.checkpoint /\ disk.checkpoint # NoCheckpoint
    BY <1>5, <2>1 DEF Ends
  <2>3. \/ disk.checkpoint.turn < session.turnIndex
        \/ disk.checkpoint.turn = session.turnIndex /\ session.staged # <<>>
    BY <2>2 DEF Checkpointed
  <2>4. QED
    BY <1>0, <1>2, <1>3, <1>5, <2>2, <2>3 DEF Ends
<1>6. CASE Starts
  <2>1. PICK n : SoundBy(R, session, n)
    BY DEF Arrivals
  <2>2. session.staged = <<>>
    BY <1>0, <1>6, <2>1, IdleHasNothing DEF Starts
  <2>3. disk'.checkpoint # NoCheckpoint => disk'.checkpoint.turn < session'.turnIndex
    BY <1>6, <2>2 DEF Checkpointed, Starts
  <2>4. QED
    BY <2>3 DEF Checkpointed
<1>7. QED
  BY <1>4, <1>5, <1>6, StoreStep

\* No step changes the history and leaves more than a strip of it unsaved.
LEMMA SavedStep ==
  ASSUME NEW R, TypeOK, Phases, Agrees, Arrivals(R), Saved, Next
  PROVE  Saved'
<1>1. SUFFICES ASSUME WritesHold
               PROVE  HoldsHistory(disk'.saved, session')
  BY DEF Saved, WritesHold
<1>2. HoldsHistory(disk.saved, session)
  BY <1>1 DEF Saved
<1>3. CASE Carries
  BY <1>2, <1>3 DEF Carries, SameTurn, HoldsHistory
<1>4. CASE Ends
  BY <1>1, <1>2, <1>4 DEF Ends
<1>5. CASE Starts
  BY <1>2, <1>5 DEF Starts, HoldsHistory
<1>6. QED
  BY <1>3, <1>4, <1>5, StoreStep

\* A turn that goes on: the loop stays armed for what is queued.
LEMMA AgreesGoes ==
  ASSUME Agrees, loop.pc # "exited", loop.state # "Idle", loop'.state # "Idle",
         loop'.armed = loop.armed, SameTurn(session', session),
         session'.pending \in {session.pending, <<>>},
         loop'.state \in {"ExecutingTools", "PausedDuringTools"} => session'.staged # <<>>
  PROVE  Agrees'
BY DEF Agrees, QueuedIsArmed, HasPending, SameTurn

\* A turn that is over, in the loop and in the session.
LEMMA AgreesEnds ==
  ASSUME loop'.state = "Idle", session'.state = "Idle" \/ loop'.pc = "exited"
  PROVE  Agrees'
BY DEF Agrees, QueuedIsArmed

\* What a step of react_step makes of the state of the loop.
LEMMA ReactGoes ==
  ASSUME TypeOK, Phases, React, ~CommitDone
  PROVE  /\ loop.pc # "exited" /\ loop.state # "Idle" /\ loop'.state # "Idle"
         /\ loop'.armed = loop.armed
         /\ loop'.state \in {"ExecutingTools", "PausedDuringTools"} =>
              loop.state = "ExecutingTools" \/ ResolveResponse
<1>0. loop \in LoopType /\ (loop.pc = "request" => loop.state = "PreparingRequest")
  BY HoldsBy
<1>1. \A x \in LooperState : Go(x).armed = loop.armed /\ Go(x).state = x
  BY GoFacts
<1>2. \A x \in Reason : Fail(x).armed = loop.armed /\ Fail(x).state = "Failed"
  BY FailFacts
<1>3. ASSUME NEW x \in {"PausedBeforeRequest", "PausedDuringTools"},
             loop' = [Go(x) EXCEPT !.pause = FALSE]
      PROVE  loop'.armed = loop.armed /\ loop'.state = x
  <2>1. PICK g : g = Go(x)
    OBVIOUS
  <2>2. x \in LooperState
    BY DEF LooperState
  <2>3. g \in LoopType /\ g.armed = loop.armed /\ g.state = x
    BY <2>1, <2>2, GoFacts
  <2>4. loop' = [g EXCEPT !.pause = FALSE]
    BY <1>3, <2>1
  <2>5. QED
    BY <2>3, <2>4 DEF LoopType
<1>4. /\ {"PreparingRequest", "Streaming", "ResolvingResponse", "ExecutingTools", "Done"}
            \subseteq LooperState
      /\ {"other", "maxIterations"} \subseteq Reason
  BY DEF LooperState, Reason
<1>5. CASE PauseBeforeRequest
  BY <1>3, <1>5 DEF PauseBeforeRequest, Reacts
<1>6. CASE BackoffInterrupted \/ ExceedIterations
  BY <1>1, <1>2, <1>4, <1>6 DEF BackoffInterrupted, ExceedIterations, Prepares, Reacts
<1>7. CASE SendRequest
  <2>1. loop' = [loop EXCEPT !.pc = "request"] /\ loop.state = "PreparingRequest"
        /\ loop.pc = "react"
    BY <1>7 DEF SendRequest, Prepares, Reacts
  <2>2. loop'.armed = loop.armed /\ loop'.state = loop.state
    BY <1>0, <2>1 DEF LoopType
  <2>3. QED
    BY <2>1, <2>2
<1>8. CASE RequestAnswered \/ RequestRefused
  BY <1>0, <1>1, <1>2, <1>4, <1>8 DEF RequestAnswered, RequestRefused
<1>9. ASSUME NEW s, NEW text \in BOOLEAN, NEW cp, NEW tr \in BOOLEAN, RetryOrFail(s, text, cp, tr)
      PROVE  loop'.armed = loop.armed /\ loop'.state \in {"PreparingRequest", "Failed"}
  BY <1>1, <1>2, <1>4, <1>9 DEF RetryOrFail, BeginRetry
<1>10. CASE RequestFails \/ StreamBreaks
  <2>1. turn.text \in BOOLEAN
    BY DEF TypeOK
  <2>2. RetryOrFail(session, turn.text, Len(session.staged), FALSE)
        /\ loop.pc \in {"request", "react"} /\ loop.state \in {"PreparingRequest", "Streaming"}
    BY <1>0, <1>10 DEF RequestFails, StreamBreaks, Reacts
  <2>3. QED
    BY <1>9, <2>1, <2>2
<1>11. CASE StreamQuiet \/ StreamText \/ StreamEnds \/ StreamRefused \/ ResponseRefused
  BY ZenonT(60), <1>1, <1>2, <1>4, <1>11 DEF StreamQuiet, StreamText, StreamEnds, StreamRefused,
     ResponseRefused, Reacts
<1>12. CASE ResolveResponse
  <2>1. loop.pc = "react" /\ loop.state = "ResolvingResponse" /\ turn.response \in Response
    BY <1>12 DEF ResolveResponse, Reacts, Phases
  <2>2. \/ loop' = Go("Done") \/ loop' = Go("ExecutingTools") \/ loop' = Fail("other")
        \/ loop' = Go("PreparingRequest")
    BY <1>12, <2>1, ResolveFacts
  <2>3. QED
    BY <1>1, <1>2, <1>4, <1>12, <2>1, <2>2
<1>13. CASE PauseBeforeTools
  BY <1>3, <1>13 DEF PauseBeforeTools, Reacts
<1>14. CASE SpawnTools
  <2>1. loop.pc = "react" /\ loop.state = "ExecutingTools"
    BY <1>14 DEF SpawnTools, Spawns, Reacts
  <2>2. loop' = Go("PreparingRequest") \/ loop' = Go("ExecutingTools")
    BY <1>14, SpawnFacts DEF FinishTools
  <2>3. QED
    BY <1>1, <1>4, <2>1, <2>2
<1>15. CASE CollectResults
  <2>1. loop.pc = "react" /\ loop.state = "ExecutingTools"
    BY <1>15 DEF CollectResults, Polls, Reacts
  <2>2. loop' = Go("PreparingRequest") \/ loop' = Go("ExecutingTools")
    BY <1>15, CollectFacts DEF FinishTools
  <2>3. QED
    BY <1>1, <1>4, <2>1, <2>2
<1>16. CASE ToolRefused \/ CollectPanic \/ BatchOver \/ PollQuiet
  BY <1>1, <1>2, <1>4, <1>16 DEF ToolRefused, CollectPanic, BatchOver, PollQuiet, FinishTools,
     Spawns, Polls, Reacts
<1>17. QED
  BY <1>5, <1>6, <1>7, <1>8, <1>10, <1>11, <1>12, <1>13, <1>14, <1>15, <1>16 DEF React

\* What a step of react_step makes of the session the loop agrees with.
LEMMA ReactSession ==
  ASSUME TypeOK, Phases, Agrees, React, ~CommitDone
  PROVE  /\ SameTurn(session', session) /\ session'.pending \in {session.pending, <<>>}
         /\ \/ \E new \in Seq(Message) : session'.staged = session.staged \o new
            \/ session'.staged = session.staged
<1>0. session \in Session /\ SameTurn(session, session)
  BY Types DEF SameTurn
<1>1. CASE SendRequest
  <2>1. CanStage(session)
    BY <1>1, AtWork, ActiveStages DEF SendRequest, Prepares, Reacts
  <2>2. QED
    BY <1>1, <2>1, SendRequestFacts
<1>2. CASE RequestFails \/ StreamBreaks
  <2>1. turn.text \in BOOLEAN
    BY DEF TypeOK
  <2>2. RetryOrFail(session, turn.text, Len(session.staged), FALSE)
    BY <1>2 DEF RequestFails, StreamBreaks
  <2>3. QED
    BY <2>1, <2>2, RetryAsItWas
<1>3. CASE ResolveResponse
  <2>1. turn.response \in Response
    BY <1>3 DEF ResolveResponse, Reacts, Phases
  <2>2. QED
    BY <1>3, <2>1, ResolveSession
<1>4. ASSUME NEW tools \in Seq(Tool), FinishTools(tools)
      PROVE  /\ SameTurn(session', session) /\ session'.pending = session.pending
             /\ \E new \in Seq(Message) : session'.staged = session.staged \o new
  BY <1>4, FinishFacts
<1>5. CASE SpawnTools
  <2>1. CASE \E settled : FinishTools(Settle(settled))
    BY <1>4, <2>1, SettleFacts
  <2>2. CASE session' = session
    BY <1>0, <2>2
  <2>3. QED
    BY <1>5, <2>1, <2>2, SpawnFacts
<1>6. CASE CollectResults
  <2>1. CASE FinishTools(Joined)
    BY <1>4, <2>1, JoinedFacts
  <2>2. CASE session' = session
    BY <1>0, <2>2
  <2>3. QED
    BY <1>6, <2>1, <2>2, CollectFacts
<1>7. CASE BatchOver
  BY <1>4, <1>7, Types DEF BatchOver
<1>8. CASE Quiet
  <2>1. session' = session
    BY <1>8, QuietIsQuiet
  <2>2. QED
    BY <1>0, <2>1
<1>9. QED
  BY <1>1, <1>2, <1>3, <1>5, <1>6, <1>7, <1>8 DEF React, Quiet

\* A response that asks for tools has staged their calls.
LEMMA CallsAreStaged ==
  ASSUME TypeOK, Phases, ResolveResponse, loop'.state \in {"ExecutingTools", "PausedDuringTools"}
  PROVE  session'.staged # <<>>
<1>1. turn.response \in Response
  BY DEF ResolveResponse, Reacts, Phases
<1>2. /\ session' = StageItems(session, Blocks(turn.response))
      /\ turn.response.calls # <<>>
  <2>1. Go("Done").state = "Done" /\ Go("PreparingRequest").state = "PreparingRequest"
        /\ Fail("other").state = "Failed"
    BY GoFacts, FailFacts DEF LooperState, Reason
  <2>2. QED
    BY <1>1, <2>1, ResolveFacts
<1>3. PICK new \in Seq(Message), h \in 0 .. 1 :
        /\ session'.staged = session.staged \o new
        /\ Len(new) = h + Len(turn.response.calls)
  <2>1. /\ session \in Session /\ Blocks(turn.response) \in Seq(Item)
        /\ \E h \in 0 .. 1 : Len(Blocks(turn.response)) = h + Len(turn.response.calls)
    BY <1>1, Types, BlocksFacts
  <2>2. /\ NewItems(session, Blocks(turn.response)) \in Seq(Message)
        /\ Len(NewItems(session, Blocks(turn.response))) = Len(Blocks(turn.response))
    BY <2>1, NewItemsFacts
  <2>3. session'.staged = session.staged \o NewItems(session, Blocks(turn.response))
    BY <1>2, <2>1, StageItemsFields
  <2>4. QED
    BY <2>1, <2>2, <2>3
<1>4. turn.response.calls \in Seq(CallIds)
  BY <1>1, BlocksFacts
<1>5. Len(turn.response.calls) \in Nat /\ Len(turn.response.calls) # 0
  BY <1>2, <1>4, EmptySeq, LenProperties
<1>6. session.staged \in Seq(Message)
  BY Types
<1>7. Len(session'.staged) = Len(session.staged) + Len(new)
      /\ Len(session.staged) \in Nat /\ Len(new) > 0
  <2>1. Len(session'.staged) = Len(session.staged) + Len(new) /\ Len(session.staged) \in Nat
    BY ZenonT(60), <1>3, <1>6, ConcatProperties, LenProperties
  <2>2. Len(new) > 0
    BY <1>3, <1>5
  <2>3. QED
    BY <2>1, <2>2
<1>8. Len(session'.staged) # 0
  BY <1>7
<1>9. QED
  BY <1>8

\* Every step keeps the loop and the session in agreement.
LEMMA AgreesStep ==
  ASSUME NEW R, TypeOK, Phases, Agrees, Arrivals(R), Next
  PROVE  Agrees'
<1>0. session \in Session /\ loop \in LoopType /\ SameTurn(session, session)
  BY Types, HoldsBy DEF SameTurn
<1>1. PICK n \in Nat : SoundBy(R, session, n)
  <2>1. user.queries \in Nat
    BY LooperAssumption DEF TypeOK
  <2>2. QED
    BY <2>1 DEF Arrivals
<1>2. ASSUME session' = session, loop'.state = loop.state,
             loop'.armed = loop.armed, loop.pc # "exited"
      PROVE  Agrees'
  BY <1>2 DEF Agrees, QueuedIsArmed
<1>3. CASE Environment \/ Exited
  <2>1. session' = session /\ loop'.state = loop.state /\ loop'.armed = loop.armed
        /\ loop'.pc = loop.pc
    BY <1>0, <1>3 DEF Environment, SendQuery, SendControl, CloseChannel, DropTask, Exited, vars,
       LoopType
  <2>2. QED
    BY <2>1 DEF Agrees, QueuedIsArmed
<1>4. CASE TakeQuery
  <2>1. /\ session' = EnqueuePending(session, Head(user.queue).input)
        /\ user.queue # <<>> /\ loop.pc \in {"top", "drain"}
        /\ loop' = [loop EXCEPT !.pc = "drain", !.armed = TRUE]
    BY <1>4 DEF TakeQuery, Take
  <2>2. PICK input : input = Head(user.queue).input
    OBVIOUS
  <2>3. Head(user.queue) \in UserMsg
    BY <2>1, HeadTailProperties DEF TypeOK
  <2>4. input \in Nat
    BY <2>2, <2>3, LooperAssumption DEF UserMsg
  <2>5. SameTurn(session', session) /\ session'.staged = session.staged
    BY <1>0, <2>1, <2>2, <2>4, EnqueueFields
  <2>6. loop'.state = loop.state /\ loop'.armed = TRUE
    BY <1>0, <2>1 DEF LoopType
  <2>7. QED
    BY <2>1, <2>5, <2>6 DEF Agrees, QueuedIsArmed, SameTurn
<1>5. CASE TakePause \/ TakeCancel
  <2>1. PICK b : b = (loop.pause \/ loop.state \in Running)
    OBVIOUS
  <2>2. \/ loop' = [loop EXCEPT !.pc = "drain", !.pause = b]
        \/ loop' = [loop EXCEPT !.pc = "settle", !.cancel = TRUE]
    BY <1>5, <2>1 DEF TakePause, TakeCancel
  <2>3. session' = session /\ loop.pc \in {"top", "drain"}
    BY <1>5 DEF TakePause, TakeCancel, Take
  <2>4. loop'.state = loop.state /\ loop'.armed = loop.armed
    BY <1>0, <2>2 DEF LoopType
  <2>5. QED
    BY <1>2, <2>3, <2>4
<1>6. CASE TakeResume
  <2>1. session' = session /\ loop.pc \in {"top", "drain"}
    BY <1>6 DEF TakeResume, Take
  <2>2. CASE loop.state \in Paused
    <3>1. PICK x : x = ResumedState
      OBVIOUS
    <3>2. loop' = [loop EXCEPT !.pc = "drain", !.armed = TRUE, !.state = x]
      BY <1>6, <2>2, <3>1 DEF TakeResume
    <3>3. loop'.state = x /\ loop'.armed = TRUE
      BY <1>0, <3>2 DEF LoopType
    <3>4. /\ x \in {"ExecutingTools", "PreparingRequest"} /\ loop.state # "Idle"
          /\ x = "ExecutingTools" => loop.state = "PausedDuringTools"
      BY <2>2, <3>1 DEF ResumedState, Paused
    <3>5. QED
      BY <2>1, <3>3, <3>4 DEF Agrees, QueuedIsArmed
  <2>3. CASE loop.state \notin Paused
    <3>1. loop' = [loop EXCEPT !.pc = "drain", !.pause = FALSE]
      BY <1>6, <2>3 DEF TakeResume
    <3>2. loop'.state = loop.state /\ loop'.armed = loop.armed
      BY <1>0, <3>1 DEF LoopType
    <3>3. QED
      BY <1>2, <2>1, <3>2
  <2>4. QED
    BY <2>2, <2>3
<1>7. CASE TakeShutdown
  <2>1. loop' = [loop EXCEPT !.pc = "exited", !.state = "Idle"]
    BY <1>7 DEF TakeShutdown
  <2>2. loop'.pc = "exited" /\ loop'.state = "Idle"
    BY <1>0, <2>1 DEF LoopType
  <2>3. QED
    BY <2>2, AgreesEnds
<1>8. ASSUME NEW pc, CancelTheTurn, loop' = AfterCancel(pc)
      PROVE  Agrees'
  <2>1. session'.state = "Idle"
    BY <1>1, <1>8, CancelFacts
  <2>2. PICK why : why = CancelReason
    OBVIOUS
  <2>3. loop' = [loop EXCEPT !.pc = pc, !.state = "Idle", !.armed = FALSE, !.pause = FALSE,
                             !.cancel = FALSE, !.reason = why]
    BY <1>8, <2>2 DEF AfterCancel
  <2>4. loop'.state = "Idle"
    BY <1>0, <2>3 DEF LoopType
  <2>5. QED
    BY <2>1, <2>4, AgreesEnds
<1>9. CASE FinalizeCancel
  BY <1>8, <1>9 DEF FinalizeCancel
<1>10. CASE FinalizeFailure
  <2>1. session.state # "Idle"
    BY <1>10, AtWork, ActiveStages
  <2>2. session'.state = "Idle"
    BY <1>1, <1>10, <2>1, FailureFacts
  <2>3. PICK reason : loop' = [loop EXCEPT !.pc = "start", !.state = "Idle", !.pause = FALSE,
                                           !.reason = reason]
    BY <1>1, <1>10, <2>1, FailureFacts
  <2>4. loop'.state = "Idle"
    BY <1>0, <2>3 DEF LoopType
  <2>5. QED
    BY <2>2, <2>4, AgreesEnds
<1>11. CASE ChannelClosed
  <2>1. CASE loop.state \in Paused
    BY <1>8, <1>11, <2>1 DEF ChannelClosed
  <2>2. CASE loop.state \notin Paused
    <3>1. loop' = [loop EXCEPT !.pc = "exited"] /\ loop.state = "Idle"
      BY <1>11, <2>2 DEF ChannelClosed, HasPendingWork, Docked, Paused
    <3>2. loop'.pc = "exited" /\ loop'.state = "Idle"
      BY <1>0, <3>1 DEF LoopType
    <3>3. QED
      BY <3>2, AgreesEnds
  <2>3. QED
    BY <2>1, <2>2
<1>12. CASE StartTurnFromPending
  <2>1. session' = DequeueAndStartTurn(session) /\ loop' = Started
    BY <1>12 DEF StartTurnFromPending
  <2>2. session'.state = "Active" /\ session'.pending = <<>>
    BY <1>0, <2>1, DequeueFields
  <2>3. loop'.state = "PreparingRequest"
    BY <1>0, <2>1 DEF Started, LoopType
  <2>4. QED
    BY <2>2, <2>3 DEF Agrees, QueuedIsArmed, HasPending
<1>13. CASE Dispatch
  <2>1. PICK pc : pc = IF loop.state \in Docked THEN "top" ELSE "react"
    OBVIOUS
  <2>2. loop' = [loop EXCEPT !.pc = pc] /\ session' = session
    BY <1>13, <2>1 DEF Dispatch
  <2>3. loop'.state = loop.state /\ loop'.armed = loop.armed
    BY <1>0, <2>2 DEF LoopType
  <2>4. loop.pc # "exited"
    BY <1>13 DEF Dispatch, SettledQuietly, ReadingOver
  <2>5. QED
    BY <1>2, <2>2, <2>3, <2>4
<1>14. CASE \E i \in 1 .. MaxCalls : TaskEnds(i)
  BY <1>2, <1>14 DEF TaskEnds
<1>15. CASE CommitDone
  <2>1. session'.state = "Idle"
    BY <1>1, <1>15, CommitDoneFacts
  <2>2. PICK g : g = Go("Idle")
    OBVIOUS
  <2>3. g \in LoopType /\ g.state = "Idle" /\ loop' = [g EXCEPT !.reason = "none"]
    BY <1>15, <2>2, GoFacts DEF CommitDone, LooperState
  <2>4. loop'.state = "Idle"
    BY <2>3 DEF LoopType
  <2>5. QED
    BY <2>1, <2>4, AgreesEnds
<1>16. CASE React /\ ~CommitDone
  <2>1. /\ loop.pc # "exited" /\ loop.state # "Idle" /\ loop'.state # "Idle"
        /\ loop'.armed = loop.armed
        /\ loop'.state \in {"ExecutingTools", "PausedDuringTools"} =>
             loop.state = "ExecutingTools" \/ ResolveResponse
    BY <1>16, ReactGoes
  <2>2. /\ SameTurn(session', session) /\ session'.pending \in {session.pending, <<>>}
        /\ \/ \E new \in Seq(Message) : session'.staged = session.staged \o new
           \/ session'.staged = session.staged
    BY <1>16, ReactSession
  <2>3. loop.state = "ExecutingTools" => session'.staged # <<>>
    <3>1. SUFFICES ASSUME session.staged # <<>>
                   PROVE  session'.staged # <<>>
      BY DEF Agrees
    <3>2. CASE \E new \in Seq(Message) : session'.staged = session.staged \o new
      <4>1. PICK new \in Seq(Message) : session'.staged = session.staged \o new
        BY <3>2
      <4>2. Len(session'.staged) = Len(session.staged) + Len(new)
            /\ Len(new) \in Nat /\ Len(session.staged) \in Nat /\ Len(session.staged) # 0
        BY <3>1, <4>1, Types, ConcatProperties, EmptySeq, LenProperties
      <4>3. Len(session'.staged) # 0
        BY <4>2
      <4>4. QED
        BY <4>3
    <3>3. QED
      BY <2>2, <3>1, <3>2
  <2>4. loop'.state \in {"ExecutingTools", "PausedDuringTools"} => session'.staged # <<>>
    BY <2>1, <2>3, CallsAreStaged
  <2>5. QED
    BY <2>1, <2>2, <2>4, AgreesGoes
<1>17. QED
  BY <1>3, <1>4, <1>5, <1>6, <1>7, <1>9, <1>10, <1>11, <1>12, <1>13, <1>14, <1>15, <1>16
     DEF Next, Run, Messages, Finalize

-----------------------------------------------------------------------------
(* The invariants.                                                         *)

\* The initial states are in order, also when a session is loaded with an input.
LEMMA InitCore == Init => CoreInv
<1>1. SUFFICES ASSUME Init
               PROVE  CoreInv
  OBVIOUS
<1>2. SoundBy(Before, NewSession, 0) /\ TurnNumbersIncrease(NewSession)
  BY NewSessionSound
<1>3. NewSession \in Session /\ NewSession.state = "Idle" /\ NewSession.pending = <<>>
  BY <1>2 DEF SoundBy, NewSession
<1>4. PICK loaded : loaded = EnqueuePending(NewSession, 1)
  OBVIOUS
<1>5. /\ SoundBy(Before, loaded, 1) /\ TurnNumbersIncrease(loaded)
      /\ loaded \in Session /\ loaded.state = "Idle" /\ loaded.pending = Append(<<>>, 1)
  <2>1. SoundBy(Before, EnqueuePending(NewSession, 0 + 1), 0 + 1)
        /\ TurnNumbersIncrease(EnqueuePending(NewSession, 0 + 1))
    BY <1>2, <1>3, EnqueueKeeps
  <2>2. SameTurn(loaded, NewSession) /\ loaded.pending = Append(NewSession.pending, 1)
    BY <1>3, <1>4, EnqueueFields
  <2>3. QED
    BY <1>3, <1>4, <2>1, <2>2 DEF SameTurn
<1>6. /\ session \in Session /\ session.state = "Idle"
      /\ TurnNumbersIncrease(session) /\ SoundBy(Before, session, Len(session.pending))
      /\ Len(session.pending) \in 0 .. 1
  <2>1. Len(NewSession.pending) = 0 /\ Len(loaded.pending) = 1
    <3>1. PICK e \in Seq(Nat) : e = <<>> /\ Len(e) = 0
      BY EmptySeq
    <3>2. Len(Append(e, 1)) = 1
      BY <3>1, AppendProperties
    <3>3. QED
      BY <1>3, <1>5, <3>1, <3>2
  <2>2. CASE session = NewSession
    BY <1>2, <1>3, <2>1, <2>2
  <2>3. CASE session = loaded
    <3>1. Len(session.pending) = 1
      BY <2>1, <2>3
    <3>2. SoundBy(Before, session, 1)
      BY <1>5, <2>3
    <3>3. SoundBy(Before, session, Len(session.pending))
      BY <3>1, <3>2, Zenon
    <3>4. QED
      BY <1>5, <2>3, <3>1, <3>3
  <2>4. QED
    BY <1>1, <1>4, <2>2, <2>3 DEF Init
<1>7. user = [queue |-> <<>>, queries |-> Len(session.pending), controls |-> 0,
              closed |-> FALSE, dropped |-> FALSE]
  BY <1>1 DEF Init
<1>8. user \in UserType /\ user.queue = <<>> /\ user.queries = Len(session.pending)
  <2>1. Len(session.pending) \in 0 .. MaxInputs /\ 0 \in 0 .. MaxControls
    <3>1. PICK l \in 0 .. 1 : l = Len(session.pending)
      BY <1>6
    <3>2. l \in 0 .. MaxInputs /\ 0 \in 0 .. MaxControls
      BY LooperAssumption
    <3>3. QED
      BY <3>1, <3>2
  <2>2. PICK q \in Seq(UserMsg) : q = <<>>
    BY EmptySeq
  <2>3. QED
    BY <1>7, <2>1, <2>2 DEF UserType
<1>9. /\ loop \in LoopType /\ loop.pc = "top" /\ loop.state = "Idle" /\ loop.pause = FALSE
  BY <1>1 DEF Init, LoopType, LooperState, Reason
<1>10. /\ turn \in TurnType /\ turn.stream = FALSE /\ turn.spawned = FALSE /\ turn.tools = <<>>
  BY <1>1, FreshTurnFacts DEF Init
<1>11. /\ disk \in DiskType /\ disk.saved = session /\ disk.checkpoint = NoCheckpoint
  BY <1>1, <1>6 DEF Init, DiskType
<1>12. seen \in SeenType
  BY <1>1 DEF Init, SeenType
<1>13. TypeOK
  BY <1>6, <1>8, <1>9, <1>10, <1>11, <1>12
     DEF TypeOK, UserType, LoopType, TurnType, DiskType, CheckpointType, SeenType
<1>14. Phases
  <2>1. DOMAIN turn.tools = {}
    BY <1>10
  <2>2. QED
    BY <1>9, <1>10, <2>1 DEF Phases, Paused
<1>15. Agrees
  BY <1>6, <1>9 DEF Agrees, QueuedIsArmed
<1>16. Arrivals(Before)
  <2>1. DOMAIN <<>> = {}
    OBVIOUS
  <2>2. Awaits(user.queue, Len(session.pending), user.queries)
    BY <1>8, <2>1 DEF Awaits
  <2>3. Len(session.pending) \in 0 .. user.queries
    BY <1>6, <1>8
  <2>4. QED
    BY <1>6, <2>2, <2>3 DEF Arrivals
<1>17. Checkpointed /\ Saved
  BY <1>11, StripIsHeld DEF Checkpointed, Saved
<1>18. QED
  BY <1>13, <1>14, <1>15, <1>16, <1>17 DEF CoreInv, Core

\* Every step keeps the types.
LEMMA TypesStep ==
  ASSUME NEW R, TypeOK, Phases, Agrees, Arrivals(R), Next
  PROVE  TypeOK'
<1>1. Typed
  BY PhasesStep
<1>2. user' \in UserType
  BY UserFacts
<1>3. session' \in Session /\ disk' \in DiskType
  BY StoreStep
<1>4. QED
  BY <1>1, <1>2, <1>3
     DEF TypeOK, Typed, UserType, LoopType, TurnType, DiskType, CheckpointType, SeenType

\* The loop keeps its part of the invariant, whatever relation inputs stand in, as
\* long as a later one may follow an earlier one.
LEMMA CoreKeeps ==
  ASSUME NEW R, Before \subseteq R, Core(R), [Next]_vars
  PROVE  Core(R)'
<1>1. TypeOK /\ Phases /\ Agrees /\ Arrivals(R)
  BY DEF Core
<1>2. CASE Next
  <2>1. TypeOK'
    BY <1>1, <1>2, TypesStep
  <2>2. Phases' /\ Agrees'
    BY <1>1, <1>2, PhasesStep, AgreesStep
  <2>3. Arrivals(R)'
    BY <1>1, <1>2, ArrivalsStep
  <2>4. QED
    BY <2>1, <2>2, <2>3 DEF Core
<1>3. CASE UNCHANGED vars
  <2>1. /\ session' = session /\ user' = user /\ loop' = loop /\ turn' = turn /\ disk' = disk
        /\ seen' = seen
    BY <1>3 DEF vars
  <2>2. TypeOK'
    BY <1>1, <2>1 DEF TypeOK
  <2>3. Phases' /\ Agrees'
    BY <1>1, <2>1 DEF Phases, Agrees, QueuedIsArmed
  <2>4. Arrivals(R)'
    BY <1>1, <2>1 DEF Arrivals
  <2>5. QED
    BY <2>2, <2>3, <2>4 DEF Core
<1>4. QED
  BY <1>2, <1>3

\* The invariant is kept.
LEMMA CoreStep == CoreInv /\ [Next]_vars => CoreInv'
<1>1. SUFFICES ASSUME CoreInv, [Next]_vars
               PROVE  CoreInv'
  OBVIOUS
<1>2. TypeOK /\ Phases /\ Agrees /\ Arrivals(Before) /\ Checkpointed /\ Saved
  BY <1>1 DEF CoreInv, Core
<1>3. Core(Before)'
  BY <1>1, CoreKeeps DEF CoreInv
<1>4. Checkpointed' /\ Saved'
  <2>1. CASE Next
    BY <1>2, <2>1, CheckpointedStep, SavedStep
  <2>2. CASE UNCHANGED vars
    BY <1>2, <2>2 DEF Checkpointed, Saved, WritesHold, vars
  <2>3. QED
    BY <1>1, <2>1, <2>2
<1>5. QED
  BY <1>3, <1>4 DEF CoreInv

\* The inductive invariant of the agent loop.
THEOREM LooperInvariant == Spec => []CoreInv
BY InitCore, CoreStep, PTL DEF Spec

\* Type correctness: no step of the loop, of a tool task or of the user leaves a
\* variable outside its type; the counters of a turn stay within their limits.
THEOREM LooperTypeOK == Spec => []TypeOK
<1>1. CoreInv => TypeOK
  BY DEF CoreInv, Core
<1>2. QED
  BY <1>1, LooperInvariant, PTL

\* The loop is docked at Idle exactly when the session is, knows of what is queued,
\* and carries neither a failure nor a pause over from another turn.
THEOREM LoopAndSessionAgree == Spec => []StatesAgree
<1>1. CoreInv => StatesAgree
  <2>1. SUFFICES ASSUME CoreInv
                 PROVE  StatesAgree
    OBVIOUS
  <2>2. Phases /\ Agrees
    BY <2>1 DEF CoreInv, Core
  <2>3. TurnsAreIndependent
    BY <2>2 DEF Phases, TurnsAreIndependent
  <2>4. ASSUME loop.pc # "exited"
        PROVE  /\ loop.state = "Idle" <=> session.state = "Idle"
               /\ loop.state # "Idle" <=> session.state = "Active"
               /\ QueuedIsArmed
    BY <2>2, <2>4 DEF Agrees
  <2>5. QED
    BY <2>3, <2>4 DEF StatesAgree
<1>2. QED
  BY <1>1, LooperInvariant, PTL

\* A docked loop holds no connection and no tasks, however it got there.
THEOREM NothingHeldWhenDocked == Spec => []DockedHoldsNothing
<1>1. CoreInv => DockedHoldsNothing
  <2>1. SUFFICES ASSUME CoreInv
                 PROVE  DockedHoldsNothing
    OBVIOUS
  <2>2. Phases
    BY <2>1 DEF CoreInv, Core
  <2>3. Tasks({"running", "finished", "panicked"}) # {} => turn.spawned
    BY <2>2 DEF Phases, Tasks
  <2>4. QED
    BY <2>2, <2>3 DEF Phases, DockedHoldsNothing
<1>2. QED
  BY <1>1, LooperInvariant, PTL

\* Whatever is retried, steered, cancelled or frozen, the session of the loop keeps
\* what Session promises.
THEOREM LoopKeepsSession == Spec => []SessionIsSound
<1>1. CoreInv => SessionIsSound
  <2>1. SUFFICES ASSUME CoreInv
                 PROVE  SessionIsSound
    OBVIOUS
  <2>2. session \in Session /\ user.queries \in Nat
    BY <2>1, LooperAssumption DEF CoreInv, Core, TypeOK
  <2>3. TurnNumbersIncrease(session)
        /\ \E n \in 0 .. user.queries : SoundBy(Before, session, n)
    BY <2>1 DEF CoreInv, Core, Arrivals
  <2>4. SoundBy(Before, session, user.queries)
    BY <2>2, <2>3, SoundMonotone
  <2>5. QED
    BY <2>2, <2>3, <2>4, SoundIsBefore DEF SessionIsSound
<1>2. QED
  BY <1>1, LooperInvariant, PTL

\* What begins with a sequence has it as a prefix.
LEMMA BeginsIsPrefix ==
  ASSUME NEW S, NEW p \in Seq(S), NEW q \in Seq(S), Begins(p, q)
  PROVE  IsPrefix(p, q)
<1>1. Len(p) \in Nat /\ Len(q) \in Nat /\ Len(p) <= Len(q)
      /\ \A i \in 1 .. Len(p) : p[i] = q[i]
  BY LenProperties DEF Begins
<1>2. /\ SubSeq(p, 1, Len(p)) \in Seq(S) /\ SubSeq(q, 1, Len(p)) \in Seq(S)
      /\ Len(SubSeq(p, 1, Len(p))) = Len(p) /\ Len(SubSeq(q, 1, Len(p))) = Len(p)
      /\ \A i \in 1 .. Len(p) : SubSeq(p, 1, Len(p))[i] = p[i]
      /\ \A i \in 1 .. Len(p) : SubSeq(q, 1, Len(p))[i] = q[i]
  BY <1>1, SubSeqProperties
<1>3. SubSeq(p, 1, Len(p)) = SubSeq(q, 1, Len(p))
  BY <1>1, <1>2, SeqEqual
<1>4. QED
  BY <1>1, <1>3 DEF IsPrefix

\* A checkpoint on disk is a prefix of the turn in flight or is known to be stale,
\* with any retries, steering and failures of the persister.
THEOREM CheckpointsAreExact == Spec => []CheckpointIsExact
<1>1. CoreInv => CheckpointIsExact
  <2>1. SUFFICES ASSUME CoreInv, loop.pc # "exited", disk.checkpoint # NoCheckpoint
                 PROVE  IF disk.checkpoint.turn = session.turnIndex
                        THEN loop.state # "Idle"
                             /\ IsPrefix(disk.checkpoint.staged, StagingAll(session))
                        ELSE disk.checkpoint.turn < session.turnIndex
    BY DEF CheckpointIsExact
  <2>2. TypeOK /\ Agrees /\ Arrivals(Before) /\ Checkpointed
    BY <2>1 DEF CoreInv, Core
  <2>3. session \in Session /\ session.turnIndex \in Nat
        /\ disk.checkpoint.turn \in Nat /\ disk.checkpoint.staged \in Seq(Message)
        /\ StagingAll(session) \in Seq(Message)
    BY <2>1, <2>2, Types DEF DiskType, CheckpointType
  <2>4. CASE disk.checkpoint.turn < session.turnIndex
    BY <2>3, <2>4
  <2>5. CASE /\ disk.checkpoint.turn = session.turnIndex /\ session.staged # <<>>
             /\ Begins(disk.checkpoint.staged, StagingAll(session))
    <3>1. PICK n : SoundBy(Before, session, n)
      BY <2>2 DEF Arrivals
    <3>2. session.state # "Idle"
      BY <2>3, <2>5, <3>1, IdleHasNothing
    <3>3. loop.state # "Idle"
      BY <2>1, <2>2, <3>2 DEF Agrees
    <3>4. PICK p \in Seq(Message), q \in Seq(Message) :
            p = disk.checkpoint.staged /\ q = StagingAll(session)
      BY <2>3
    <3>5. IsPrefix(p, q)
      BY <2>5, <3>4, BeginsIsPrefix
    <3>6. QED
      BY <2>5, <3>3, <3>4, <3>5
  <2>6. QED
    BY <2>1, <2>2, <2>4, <2>5 DEF Checkpointed
<1>2. QED
  BY <1>1, LooperInvariant, PTL

\* With a persister that does not fail, the disk has the history of an idle loop, or
\* what the loop has stripped it of as well: nothing but a strip goes unsaved.
THEOREM HistoryIsOnDisk == Spec => []HistoryIsSaved
<1>1. CoreInv => HistoryIsSaved
  BY DEF CoreInv, Saved, HistoryIsSaved
<1>2. QED
  BY <1>1, LooperInvariant, PTL

-----------------------------------------------------------------------------
(* The outputs of a batch.                                                 *)

\* The outputs of tools that stand for open calls answer just those with a result.
LEMMA ResultsAnswer ==
  ASSUME NEW s \in Session, NEW T, NEW tools \in Seq(Tool),
         \A i \in DOMAIN tools : tools[i].call \in Open(T),
         \A i, j \in DOMAIN tools : tools[i].call = tools[j].call => i = j
  PROVE  LET new == NewItems(s, Results(tools))
         IN  /\ new \in Seq(Message)
             /\ \A k \in DOMAIN new : new[k].kind = "output" /\ new[k].call \in Open(T)
             /\ \A k, l \in DOMAIN new : new[k].call = new[l].call => k = l
             /\ \A i \in DOMAIN tools : tools[i].result =>
                  \E k \in DOMAIN new : new[k].call = tools[i].call
<1> DEFINE new == NewItems(s, Results(tools))
           order == Listing({i \in DOMAIN tools : tools[i].result})
<1>1. Results(tools) \in Seq(Item)
  BY ResultsFacts
<1>2. /\ new \in Seq(Message) /\ DOMAIN new = DOMAIN Results(tools)
      /\ \A k \in DOMAIN new : /\ new[k].kind = Results(tools)[k].kind
                               /\ new[k].call = Results(tools)[k].call
                               /\ k \in Nat
  BY <1>1, NewItemsFacts
<1>3. \A k \in DOMAIN new : /\ order[k] \in DOMAIN tools /\ tools[order[k]].result
                            /\ new[k].kind = "output" /\ new[k].call = tools[order[k]].call
  BY SMTT(40), <1>2, ResultsFacts
<1>4. \A k, l \in DOMAIN new : k < l => order[k] < order[l]
  BY <1>2, ResultsFacts
<1>5. DOMAIN tools \subseteq Nat
  BY LenProperties
<1>6. ASSUME NEW k \in DOMAIN new, NEW l \in DOMAIN new, new[k].call = new[l].call
      PROVE  k = l
  <2>1. order[k] = order[l] /\ order[k] \in Nat
    BY <1>3, <1>5, <1>6
  <2>2. k \in Nat /\ l \in Nat
    BY <1>2
  <2>3. ASSUME k < l
        PROVE  FALSE
    <3>1. order[k] < order[l]
      BY <1>4, <2>3
    <3>2. QED
      BY <2>1, <3>1
  <2>4. ASSUME l < k
        PROVE  FALSE
    <3>1. order[l] < order[k]
      BY <1>4, <2>4
    <3>2. QED
      BY <2>1, <3>1
  <2>5. QED
    BY <2>2, <2>3, <2>4
<1>7. ASSUME NEW i \in DOMAIN tools, tools[i].result
      PROVE  \E k \in DOMAIN new : new[k].call = tools[i].call
  <2>1. PICK k \in DOMAIN Results(tools) : Results(tools)[k].call = tools[i].call
    BY <1>7, ResultsFacts
  <2>2. QED
    BY <1>2, <2>1
<1>8. QED
  BY <1>2, <1>3, <1>6, <1>7

-----------------------------------------------------------------------------
(* The history.                                                            *)

\* A compaction of the history keeps every turn that stays paired.
LEMMA BoundaryPaired ==
  ASSUME NEW R, NEW s \in Session, NEW n \in Nat, SoundBy(R, s, n), s.state = "Idle", HistoryPaired(s),
         NEW b \in Boundaries(s)
  PROVE  HistoryPaired(b)
<1>1. ASSUME NEW h \in Stripped(s)
      PROVE  SoundBy(R, h, n) /\ h \in Session /\ HistoryPaired(h)
  <2>1. SoundBy(R, h, n) /\ h \in Session
    BY StrippedKeeps, StrippedFields
  <2>2. /\ DOMAIN h.committed = DOMAIN s.committed
        /\ \A p \in DOMAIN s.committed :
             h.committed[p] = s.committed[p] \/ h.committed[p] = StripTurn(s.committed[p])
    BY StrippedFields
  <2>3. ASSUME NEW p \in DOMAIN s.committed
        PROVE  Paired(h.committed[p])
    <3>1. s.committed[p] \in Seq(Message)
      BY SeqElement DEF Session
    <3>2. Paired(s.committed[p])
      BY DEF HistoryPaired
    <3>3. QED
      BY <2>2, <3>1, <3>2, StripPaired
  <2>4. QED
    BY <2>1, <2>2, <2>3 DEF HistoryPaired
<1>2. ASSUME NEW t \in Session, SoundBy(R, t, n), HistoryPaired(t), NEW count \in Nat
      PROVE  HistoryPaired(Compact(t, count))
  <2>1. TurnNumbersCoverPositions(t)
    BY <1>2 DEF SoundBy
  <2>2. CASE EvictCount(t, count) = 0
    BY <1>2, <2>2 DEF Compact
  <2>3. CASE EvictCount(t, count) # 0
    <3> DEFINE e == EvictCount(t, count)
               r == Compact(t, count)
    <3>3. DOMAIN r.committed = 1 .. Len(t.committed) - e
      BY <2>1, <2>3, CompactFields
    <3>4. \A p \in 1 .. Len(t.committed) - e :
            /\ p + e \in DOMAIN t.committed
            /\ DOMAIN r.committed[p] = DOMAIN t.committed[p + e]
            /\ Len(r.committed[p]) = Len(t.committed[p + e])
            /\ \A i \in DOMAIN r.committed[p] :
                 /\ r.committed[p][i].id = t.committed[p + e][i].id
                 /\ r.committed[p][i].kind = t.committed[p + e][i].kind
                 /\ r.committed[p][i].call = t.committed[p + e][i].call
                 /\ r.committed[p][i].body = t.committed[p + e][i].body
                 /\ r.committed[p][i].turn = t.committed[p + e][i].turn - e
      BY <2>1, <2>3, CompactFields
    <3> HIDE DEF e, r
    <3>5. ASSUME NEW p \in DOMAIN r.committed
          PROVE  Paired(r.committed[p])
      <4>1. Paired(t.committed[p + e])
        BY <1>2, <3>3, <3>4 DEF HistoryPaired
      <4>2. QED
        BY <3>3, <3>4, <4>1, SamePaired
    <3>6. HistoryPaired(r)
      BY <3>5 DEF HistoryPaired
    <3>7. QED
      BY <3>6 DEF r
  <2>4. QED
    BY <2>2, <2>3
<1>3. PICK t \in Stripped(s) : b = t \/ \E count \in Nat : b = Compact(t, count)
  BY BoundaryIs
<1>4. QED
  BY <1>1, <1>2, <1>3

\* The tools of a turn stand for open calls, each for its own.
Stand(tools, T) ==
    /\ \A i \in DOMAIN tools : tools[i].call \in Open(T)
    /\ \A i, j \in DOMAIN tools : tools[i].call = tools[j].call => i = j

\* The end of a batch stages an output for each tool that has a result.
LEMMA ResultsTidy ==
  ASSUME NEW s \in Session, Tidy(StagingAll(s)), NEW tools \in Seq(Tool),
         Stand(tools, StagingAll(s))
  PROVE  LET T == StagingAll(s)
             U == T \o NewItems(s, Results(tools))
         IN  /\ Tidy(U) /\ Open(U) \subseteq Open(T)
             /\ \A i \in DOMAIN tools : tools[i].result => tools[i].call \notin Open(U)
<1>1. PICK T, new : T = StagingAll(s) /\ new = NewItems(s, Results(tools))
  OBVIOUS
<1>2. T \in Seq(Message)
  BY <1>1, TurnsFacts
<1>3. /\ \A i \in DOMAIN tools : tools[i].call \in Open(T)
      /\ \A i, j \in DOMAIN tools : tools[i].call = tools[j].call => i = j
  BY <1>1 DEF Stand
<1>4. /\ new \in Seq(Message)
      /\ \A k \in DOMAIN new : new[k].kind = "output" /\ new[k].call \in Open(T)
      /\ \A k, l \in DOMAIN new : new[k].call = new[l].call => k = l
      /\ \A i \in DOMAIN tools : tools[i].result =>
           \E k \in DOMAIN new : new[k].call = tools[i].call
  <2>1. LET made == NewItems(s, Results(tools))
        IN  /\ made \in Seq(Message)
            /\ \A k \in DOMAIN made : made[k].kind = "output" /\ made[k].call \in Open(T)
            /\ \A k, l \in DOMAIN made : made[k].call = made[l].call => k = l
            /\ \A i \in DOMAIN tools : tools[i].result =>
                 \E k \in DOMAIN made : made[k].call = tools[i].call
    BY <1>3, ResultsAnswer
  <2>2. QED
    BY <1>1, <2>1
<1>5. Tidy(T \o new) /\ Open(T \o new) = Open(T) \ {new[k].call : k \in DOMAIN new}
  BY <1>1, <1>2, <1>4, AnswersTidy
<1>6. QED
  BY <1>1, <1>4, <1>5

\* A frozen turn joins the history paired: results for tools that have one,
\* synthetic outputs for every other call.
LEMMA FreezePaired ==
  ASSUME NEW R, NEW s \in Session, NEW n \in Nat, SoundBy(R, s, n), HistoryPaired(s),
         Tidy(StagingAll(s)), NEW tools \in Seq(Tool), Stand(tools, StagingAll(s)),
         NEW reason, NEW closing \in BOOLEAN
  PROVE  /\ HistoryPaired(Freeze(s, tools, reason, closing))
         /\ StagingAll(Freeze(s, tools, reason, closing)) = <<>>
<1> DEFINE t == Stubbed(s, reason)
           u == StageItems(t, Results(tools))
           v == PatchDanglingToolCalls(u)
           w == Stage(v, Notice(closing), NoCall, <<>>)
<1>0. /\ "text" \in Kind /\ <<>> \in Seq(Nat) /\ NoCall \in CallIds \cup {NoCall}
      /\ Notice(closing) \in Kind /\ Notice(closing) \notin {"call", "output"}
  BY EmptySeq DEF Kind, Notice
<1>1. Freeze(s, tools, reason, closing) = InterruptTurn(u, closing)
  BY StageToolResultsIs DEF Freeze, Stubbed
<1>2. /\ t \in Session /\ t.committed = s.committed /\ t.userInput = s.userInput
  BY StubbedFields
<1>3. Tidy(StagingAll(t)) /\ Open(StagingAll(t)) = Open(StagingAll(s))
  <2>1. CASE NeedsStub(s, reason)
    <3>1. PICK m : m = NewMessage(s, "text", NoCall, <<>>)
      OBVIOUS
    <3>2. StagingAll(t) = StagingAll(s) \o <<m>> /\ <<m>> \in Seq(Message)
      BY <1>0, <2>1, <3>1, StageFields DEF Stubbed
    <3>3. m.kind = "text" /\ m \in Message
      BY <3>1, <3>2 DEF NewMessage
    <3>4. StagingAll(s) \in Seq(Message)
      BY TurnsFacts
    <3>5. QED
      BY <3>2, <3>3, <3>4, WordsTidy
  <2>2. CASE ~ NeedsStub(s, reason)
    BY <2>2 DEF Stubbed
  <2>3. QED
    BY <2>1, <2>2
<1>4. Results(tools) \in Seq(Item)
  BY ResultsFacts
<1> HIDE DEF t
<1>5. /\ u \in Session /\ u.committed = t.committed /\ u.userInput = t.userInput
      /\ StagingAll(u) = StagingAll(t) \o NewItems(t, Results(tools))
  BY <1>2, <1>4, StageItemsFields
<1>6. Tidy(StagingAll(u))
  <2>1. Stand(tools, StagingAll(t))
    BY <1>3 DEF Stand
  <2>2. QED
    BY <1>2, <1>3, <1>5, <2>1, ResultsTidy
<1>7. UserHeadsTurn(u)
  BY <1>2, <1>5 DEF SoundBy, UserHeadsTurn
<1> HIDE DEF u
<1>8. /\ v \in Session /\ v.committed = u.committed
      /\ StagingAll(v) = StagingAll(u) \o PatchOutputs(u)
      /\ PatchOutputs(u) \in Seq(Message)
  BY <1>5, PatchFields, PatchOutputsFacts
<1>9. Tidy(StagingAll(v))
  <2>1. PICK T, new : T = StagingAll(u) /\ new = PatchOutputs(u)
    OBVIOUS
  <2>2. T \in Seq(Message) /\ new \in Seq(Message)
    BY <1>5, <1>8, <2>1, TurnsFacts
  <2>3. /\ \A k \in DOMAIN new : new[k].kind = "output" /\ new[k].call \in Open(T)
        /\ \A k, l \in DOMAIN new : new[k].call = new[l].call => k = l
    BY <1>5, <1>6, <1>7, <2>1, PatchesAnswer DEF Tidy
  <2>4. Tidy(T \o new)
    BY <1>6, <2>1, <2>2, <2>3, AnswersTidy
  <2>5. QED
    BY <1>8, <2>1, <2>4
<1> HIDE DEF v
<1>10. Tidy(StagingAll(w)) /\ StagingAll(w) \in Seq(Message)
  <2>1. PICK m : m = NewMessage(v, Notice(closing), NoCall, <<>>)
    OBVIOUS
  <2>2. StagingAll(w) = StagingAll(v) \o <<m>> /\ <<m>> \in Seq(Message) /\ w \in Session
    BY <1>0, <1>8, <2>1, StageFields
  <2>3. m.kind = Notice(closing) /\ m \in Message
    BY <2>1, <2>2 DEF NewMessage
  <2>4. StagingAll(v) \in Seq(Message) /\ StagingAll(w) \in Seq(Message)
    BY <1>8, <2>2, TurnsFacts
  <2>5. QED
    BY <1>0, <1>9, <2>2, <2>3, <2>4, WordsTidy
<1> DEFINE r == InterruptTurn(u, closing)
<1>11. /\ r.committed = u.committed \/ r.committed = Append(u.committed, StagingAll(w))
       /\ StagingAll(r) = <<>>
  BY <1>5, InterruptFields DEF v
<1>12. (HistoryPaired(u) /\ HistoryPaired(r)) \/ r.committed = Append(u.committed, StagingAll(w))
  BY <1>2, <1>5, <1>11 DEF HistoryPaired
<1>13. HistoryPaired(u)
  BY <1>2, <1>5 DEF HistoryPaired
<1> HIDE DEF r, w
<1>14. r.committed = Append(u.committed, StagingAll(w)) => HistoryPaired(r)
  BY <1>5, <1>10, <1>13, AppendPaired DEF Tidy
<1>15. QED
  BY <1>1, <1>11, <1>12, <1>14 DEF r

-----------------------------------------------------------------------------
(* The invariant.                                                          *)

\* The calls of a response are new in the turn, and none is asked for twice.
New(calls, T) ==
    /\ \A i, j \in DOMAIN calls : calls[i] = calls[j] => i = j
    /\ \A i \in DOMAIN calls : \A k \in DOMAIN T : T[k].call # calls[i]

\* A tool of a batch that was spawned has its result, will have it, or panicked.
Accounted(tool, panicked) ==
    tool.result \/ tool.task \in {"running", "finished"} \/ tool.call \in panicked

\* A call that is open has a tool, or its task panicked; a turn that failed, or that a
\* Shutdown left where it was, makes no further request.
OpenHaveTools ==
    loop.pc # "exited" /\ loop.state # "Failed" =>
        \A c \in Open(StagingAll(session)) :
            c \in seen.panicked \/ \E i \in DOMAIN turn.tools : turn.tools[i].call = c

Calls ==
    /\ HistoryPaired(session)
    /\ Tidy(StagingAll(session))
    /\ Stand(turn.tools, StagingAll(session))
    /\ loop.state = "ResolvingResponse" => New(turn.response.calls, StagingAll(session))
    /\ turn.spawned => \A i \in DOMAIN turn.tools : Accounted(turn.tools[i], seen.panicked)
    /\ OpenHaveTools

\* A response of the model asks for nothing that is in the turn already.
LEMMA ResponsesAreNew ==
  ASSUME NEW r \in Responses
  PROVE  New(r.calls, StagingAll(session))
<1>1. \A i, j \in DOMAIN r.calls : r.calls[i] = r.calls[j] => i = j
  BY ResponsesAre
<1>2. PICK n \in 0 .. MaxCalls : r.calls \in Injection(1 .. n, CallIds \ UsedIds)
  BY DEF Responses
<1>3. r.calls \in [1 .. n -> CallIds \ UsedIds]
  BY <1>2 DEF Injection
<1>4. \A i \in DOMAIN r.calls : r.calls[i] \notin UsedIds
  BY <1>3
<1>5. \A k \in DOMAIN StagingAll(session) : StagingAll(session)[k].call \in UsedIds
  BY DEF UsedIds
<1>6. QED
  BY <1>1, <1>4, <1>5 DEF New

-----------------------------------------------------------------------------
(* Steps that stage nothing, and the end of a turn.                        *)

\* A step that leaves what is staged, and the calls of the tools, as they are.
LEMMA SameCalls ==
  ASSUME Calls,
         session'.committed = session.committed, StagingAll(session') = StagingAll(session),
         DOMAIN turn'.tools = DOMAIN turn.tools,
         \A i \in DOMAIN turn.tools : turn'.tools[i].call = turn.tools[i].call,
         loop'.state = "ResolvingResponse" =>
            \/ loop.state = "ResolvingResponse" /\ turn'.response = turn.response
            \/ New(turn'.response.calls, StagingAll(session)),
         turn'.spawned =>
            \A i \in DOMAIN turn.tools : Accounted(turn'.tools[i], seen'.panicked),
         seen.panicked \subseteq seen'.panicked,
         loop'.pc # "exited" /\ loop'.state # "Failed" =>
            loop.pc # "exited" /\ loop.state # "Failed"
  PROVE  Calls'
<1>1. HistoryPaired(session')
  BY DEF Calls, HistoryPaired
<1>2. Tidy(StagingAll(session'))
  BY DEF Calls
<1>3. Stand(turn'.tools, StagingAll(session'))
  BY DEF Calls, Stand
<1>4. loop'.state = "ResolvingResponse" => New(turn'.response.calls, StagingAll(session'))
  BY DEF Calls
<1>5. OpenHaveTools'
  BY DEF Calls, OpenHaveTools
<1>6. QED
  BY <1>1, <1>2, <1>3, <1>4, <1>5 DEF Calls

\* A turn that has ended.
LEMMA EndCalls ==
  ASSUME HistoryPaired(session'), StagingAll(session') = <<>>, turn'.tools = <<>>,
         turn'.spawned = FALSE, loop'.state # "ResolvingResponse"
  PROVE  Calls'
<1>1. DOMAIN <<>> = {}
  OBVIOUS
<1>2. PICK e : e = <<>>
  OBVIOUS
<1>3. Tidy(e) /\ Open(e) = {} /\ DOMAIN e = {}
  BY <1>1, <1>2, NoCallsTidy
<1>4. Stand(turn'.tools, StagingAll(session'))
  BY <1>2, <1>3 DEF Stand
<1>5. OpenHaveTools'
  BY <1>2, <1>3 DEF OpenHaveTools
<1>6. QED
  BY <1>2, <1>3, <1>4, <1>5 DEF Calls

\* What the user does, and what the loop reads of it.
LEMMA MessagesCalls ==
  ASSUME TypeOK, Phases, Calls, Environment \/ Messages \/ Dispatch \/ Exited
  PROVE  Calls'
<1>0. loop \in LoopType /\ seen \in SeenType /\ session \in Session
  BY HoldsBy, Types
<1>1. ASSUME session' = session, turn' = turn, seen'.panicked = seen.panicked,
             loop'.state = loop.state \/ loop'.state \in {"ExecutingTools", "PreparingRequest"},
             loop'.pc # "exited" /\ loop'.state # "Failed" =>
                loop.pc # "exited" /\ loop.state # "Failed"
      PROVE  Calls'
  <2>1. turn'.spawned =>
          \A i \in DOMAIN turn.tools : Accounted(turn'.tools[i], seen'.panicked)
    BY <1>1 DEF Calls
  <2>2. QED
    BY <1>1, <2>1, SameCalls
<1>2. CASE Environment \/ Exited
  BY <1>0, <1>1, <1>2 DEF Environment, SendQuery, SendControl, CloseChannel, DropTask, Exited,
     vars, LoopType
<1>3. CASE TakeQuery
  <2>1. /\ session' = EnqueuePending(session, Head(user.queue).input)
        /\ loop' = [loop EXCEPT !.pc = "drain", !.armed = TRUE]
        /\ turn' = turn /\ seen' = seen /\ user.queue # <<>> /\ loop.pc \in {"top", "drain"}
    BY <1>3 DEF TakeQuery, Take
  <2>2. Head(user.queue) \in UserMsg
    BY <2>1, HeadTailProperties DEF TypeOK
  <2>3. PICK input : input = Head(user.queue).input
    OBVIOUS
  <2>4. input \in Nat
    BY <2>2, <2>3, LooperAssumption DEF UserMsg
  <2>5. SameTurn(session', session) /\ session'.staged = session.staged
    BY <1>0, <2>1, <2>3, <2>4, EnqueueFields
  <2>6. session'.committed = session.committed /\ StagingAll(session') = StagingAll(session)
    BY <2>5 DEF SameTurn, StagingAll
  <2>7. loop'.state = loop.state
    BY <1>0, <2>1 DEF LoopType
  <2>8. turn'.spawned =>
          \A i \in DOMAIN turn.tools : Accounted(turn'.tools[i], seen'.panicked)
    BY <2>1 DEF Calls
  <2>9. QED
    BY <2>1, <2>6, <2>7, <2>8, SameCalls
<1>4. CASE TakePause
  <2>1. /\ session' = session /\ turn' = turn /\ loop.pc \in {"top", "drain"}
        /\ loop'.state = loop.state /\ seen'.panicked = seen.panicked
    BY <1>0, <1>4 DEF TakePause, Take, LoopType, SeenType
  <2>2. QED
    BY <1>1, <2>1
<1>5. CASE TakeResume
  <2>1. /\ session' = session /\ turn' = turn /\ loop.pc \in {"top", "drain"} /\ seen' = seen
        /\ \/ loop'.state = loop.state
           \/ loop.state \in Paused /\ loop'.state \in {"ExecutingTools", "PreparingRequest"}
    BY <1>0, <1>5 DEF TakeResume, Take, LoopType, ResumedState
  <2>2. loop.state \in Paused => loop.state # "Failed"
    BY DEF Paused
  <2>3. QED
    BY <1>1, <2>1, <2>2
<1>6. CASE TakeCancel
  <2>1. /\ session' = session /\ turn' = turn /\ loop.pc \in {"top", "drain"} /\ seen' = seen
        /\ loop'.state = loop.state
    BY <1>0, <1>6 DEF TakeCancel, Take, LoopType
  <2>2. QED
    BY <1>1, <2>1
<1>7. CASE TakeShutdown
  <2>1. /\ session' = session /\ turn' = ClearContext /\ seen' = seen
        /\ loop'.pc = "exited" /\ loop'.state = "Idle"
    BY <1>0, <1>7 DEF TakeShutdown, LoopType
  <2>2. turn'.tools = <<>> /\ turn'.spawned = FALSE
    BY <2>1, ClearContextFacts
  <2>3. DOMAIN turn'.tools = {}
    <3>1. DOMAIN <<>> = {}
      OBVIOUS
    <3>2. QED
      BY <2>2, <3>1
  <2>4. Stand(turn'.tools, StagingAll(session'))
    BY <2>3 DEF Stand
  <2>5. QED
    BY <2>1, <2>2, <2>4 DEF Calls, OpenHaveTools
<1>8. CASE Dispatch
  <2>1. /\ session' = session /\ turn' = turn /\ seen' = seen /\ loop'.state = loop.state
        /\ loop.pc # "exited" /\ loop.state # "Failed"
    BY <1>0, <1>8 DEF Dispatch, SettledQuietly, ReadingOver, Phases, LoopType
  <2>2. QED
    BY <1>1, <2>1
<1>9. QED
  BY <1>2, <1>3, <1>4, <1>5, <1>6, <1>7, <1>8 DEF Messages

\* A cancelled turn joins the history paired, or there was none.
LEMMA CancelCalls ==
  ASSUME NEW R, TypeOK, Calls, NEW n \in Nat, SoundBy(R, session, n), CancelTheTurn
  PROVE  HistoryPaired(session') /\ StagingAll(session') = <<>>
<1>1. session \in Session /\ turn.tools \in Seq(Tool)
  BY Types
<1>2. CASE InFlight(session)
  <2> DEFINE c == ClearPending(session)
             tools == Salvage(turn.tools)
  <2>1. c \in Session /\ SameTurn(c, session) /\ c.staged = session.staged
    BY <1>1, ClearPendingFields DEF SameTurn
  <2>2. SoundBy(R, c, n)
    BY <1>1, ClearPendingKeeps
  <2>3. /\ tools \in Seq(Tool) /\ DOMAIN tools = DOMAIN turn.tools
        /\ \A i \in DOMAIN turn.tools : tools[i].call = turn.tools[i].call
    BY <1>1, SalvageFacts
  <2>4. session' = Freeze(c, tools, CancelReason, FALSE)
    BY <1>2 DEF CancelTheTurn
  <2> HIDE DEF c, tools
  <2>5. StagingAll(c) = StagingAll(session) /\ HistoryPaired(c)
    BY <2>1 DEF SameTurn, StagingAll, Calls, HistoryPaired
  <2>6. Tidy(StagingAll(c)) /\ Stand(tools, StagingAll(c))
    BY <2>3, <2>5 DEF Calls, Stand
  <2>7. PICK why : why = CancelReason
    OBVIOUS
  <2>8. HistoryPaired(Freeze(c, tools, why, FALSE)) /\ StagingAll(Freeze(c, tools, why, FALSE)) = <<>>
    BY <2>1, <2>2, <2>3, <2>5, <2>6, FreezePaired
  <2>9. QED
    BY <2>4, <2>7, <2>8
<1>3. CASE ~ InFlight(session)
  <2>1. session' = session /\ session.state = "Idle"
    BY <1>3 DEF CancelTheTurn, InFlight
  <2>2. StagingAll(session) = <<>>
    BY <1>1, <2>1, IdleHasNothing
  <2>3. QED
    BY <2>1, <2>2 DEF Calls
<1>4. QED
  BY <1>2, <1>3

\* So does one that failed, or ended well.
LEMMA EndsCalls ==
  ASSUME NEW R, TypeOK, Phases, Agrees, Calls, NEW n \in Nat, SoundBy(R, session, n),
         Finalize \/ CommitDone
  PROVE  Calls'
<1>0. session \in Session /\ turn.tools \in Seq(Tool) /\ loop \in LoopType /\ turn \in TurnType
  BY HoldsBy, Types
<1>1. ClearContext.tools = <<>> /\ ClearContext.spawned = FALSE
  BY ClearContextFacts
<1>2. ASSUME NEW pc
      PROVE  AfterCancel(pc).state = "Idle"
  <2>1. loop \in LoopType
    BY <1>0
  <2>2. QED
    BY <2>1 DEF AfterCancel, LoopType
<1>3. CASE FinalizeCancel
  <2>1. CancelTheTurn /\ loop' = AfterCancel("top")
    BY <1>3 DEF FinalizeCancel
  <2>2. HistoryPaired(session') /\ StagingAll(session') = <<>>
    BY <2>1, CancelCalls
  <2>3. turn' = ClearContext
    BY <2>1 DEF CancelTheTurn
  <2>4. QED
    BY <1>1, <1>2, <2>1, <2>2, <2>3, EndCalls
<1>4. CASE FinalizeFailure
  <2>1. session.state # "Idle"
    BY <1>4, AtWork
  <2>2. PICK reason : reason = IF loop.reason = "none" THEN "other" ELSE loop.reason
    OBVIOUS
  <2>3. PICK closing \in BOOLEAN : session' = Freeze(session, turn.tools, reason, closing)
    <3>1. \E closing \in IF reason = "maxIterations" THEN BOOLEAN ELSE {FALSE} :
             session' = Freeze(session, turn.tools, reason, closing)
      BY <1>4, <2>2 DEF FinalizeFailure
    <3>2. QED
      BY <3>1
  <2>4. HistoryPaired(session') /\ StagingAll(session') = <<>>
    <3>1. HistoryPaired(session) /\ Tidy(StagingAll(session)) /\ Stand(turn.tools, StagingAll(session))
      BY DEF Calls
    <3>2. QED
      BY <1>0, <2>3, <3>1, FreezePaired
  <2>5. turn' = ClearContext /\ loop'.state = "Idle"
    BY <1>0, <1>4 DEF FinalizeFailure, LoopType
  <2>6. QED
    BY <1>1, <2>4, <2>5, EndCalls
<1>5. CASE ChannelClosed
  <2>1. CASE loop.state \in Paused
    <3>1. CancelTheTurn /\ loop' = AfterCancel("exited")
      BY <1>5, <2>1 DEF ChannelClosed
    <3>2. HistoryPaired(session') /\ StagingAll(session') = <<>>
      BY <3>1, CancelCalls
    <3>3. turn' = ClearContext
      BY <3>1 DEF CancelTheTurn
    <3>4. QED
      BY <1>1, <1>2, <3>1, <3>2, <3>3, EndCalls
  <2>2. CASE loop.state \notin Paused
    <3>1. /\ session' = session /\ turn' = turn /\ seen' = seen /\ loop'.pc = "exited"
          /\ loop'.state = loop.state
      BY <1>0, <1>5, <2>2 DEF ChannelClosed, LoopType
    <3>2. QED
      BY <3>1 DEF Calls, OpenHaveTools
  <2>3. QED
    BY <2>1, <2>2
<1>6. CASE CommitDone
  <2> DEFINE c == CommitTurn(session)
  <2>1. session' \in Boundaries(c) /\ loop' = [Go("Idle") EXCEPT !.reason = "none"]
        /\ loop.state = "Done"
    BY <1>6, CommitDoneFacts DEF CommitDone, Reacts
  <2>2. turn.tools = <<>> /\ turn.spawned = FALSE
    BY <2>1, HoldsBy
  <2>3. turn'.tools = <<>> /\ turn'.spawned = FALSE
    BY <1>6, <2>2, CommitDoneFacts
  <2>4. /\ c \in Session /\ c.state = "Idle" /\ StagingAll(c) = <<>>
        /\ c.committed = session.committed \/ c.committed = Append(session.committed, StagingAll(session))
    BY <1>0, CommitFields
  <2>5. SoundBy(R, c, n)
    BY <1>0, CommitKeeps
  <2> HIDE DEF c
  <2>6. HistoryPaired(c)
    <3>1. StagingAll(session) \in Seq(Message) /\ HistoryPaired(session) /\ Paired(StagingAll(session))
      BY <1>0, TurnsFacts DEF Calls, Tidy
    <3>2. CASE c.committed = session.committed
      BY <3>1, <3>2 DEF HistoryPaired
    <3>3. CASE c.committed = Append(session.committed, StagingAll(session))
      BY <1>0, <3>1, <3>3, AppendPaired
    <3>4. QED
      BY <2>4, <3>2, <3>3
  <2>7. HistoryPaired(session')
    BY <2>1, <2>4, <2>5, <2>6, BoundaryPaired
  <2>8. StagingAll(session') = <<>>
    <3>1. PICK b : b = session'
      OBVIOUS
    <3>2. c \in Session /\ SoundBy(R, c, n) /\ c.state = "Idle" /\ b \in Boundaries(c)
      BY <2>1, <2>4, <2>5, <3>1
    <3>3. b.userInput = c.userInput /\ b.staged = c.staged
      BY <3>2, BoundaryFacts
    <3>4. QED
      BY <2>4, <3>1, <3>3 DEF StagingAll
  <2>9. loop'.state = "Idle"
    <3>1. PICK g : g = Go("Idle")
      OBVIOUS
    <3>2. g \in LoopType /\ g.state = "Idle"
      BY <3>1, GoFacts DEF LooperState
    <3>3. loop' = [g EXCEPT !.reason = "none"]
      BY <2>1, <3>1
    <3>4. QED
      BY <3>2, <3>3 DEF LoopType
  <2>10. QED
    BY <2>3, <2>7, <2>8, <2>9, EndCalls
<1>7. QED
  BY <1>3, <1>4, <1>5, <1>6 DEF Finalize

\* A turn starts with what the user said, and nothing of another one.
LEMMA StartCalls ==
  ASSUME NEW R, TypeOK, Calls, NEW n \in Nat, SoundBy(R, session, n), SoundBy(R, session', n),
         StartTurnFromPending
  PROVE  Calls'
<1>0. session \in Session /\ loop \in LoopType
  BY Types DEF TypeOK, LoopType
<1>1. /\ session.state = "Idle" /\ session' = DequeueAndStartTurn(session)
      /\ turn' = FreshTurn /\ loop' = Started
  BY DEF StartTurnFromPending, CanStart, CanStartTurn
<1>2. session.staged = <<>>
  BY <1>0, <1>1, IdleHasNothing
<1>3. /\ session' \in Session /\ session'.committed = session.committed /\ session'.staged = <<>>
  BY <1>0, <1>1, <1>2, DequeueFields
<1>4. loop'.state = "PreparingRequest"
  BY <1>0, <1>1 DEF Started, LoopType
<1>5. turn'.tools = <<>> /\ turn'.spawned = FALSE
  BY <1>1, FreshTurnFacts
<1>6. HistoryPaired(session')
  BY <1>3 DEF Calls, HistoryPaired
<1>7. StagingAll(session') = session'.userInput
  <2>1. session'.userInput \in Seq(Message)
    BY <1>3 DEF Session
  <2>2. session'.userInput \o <<>> = session'.userInput
    BY <2>1, ConcatEmptySeq
  <2>3. QED
    BY <1>3, <2>2 DEF StagingAll
<1>8. \A i \in DOMAIN StagingAll(session') : StagingAll(session')[i].kind \notin {"call", "output"}
  BY <1>7 DEF SoundBy, UserHeadsTurn
<1>9. Tidy(StagingAll(session')) /\ Open(StagingAll(session')) = {}
  BY <1>8, NoCallsTidy
<1>10. DOMAIN turn'.tools = {}
  <2>1. DOMAIN <<>> = {}
    OBVIOUS
  <2>2. QED
    BY <1>5, <2>1
<1>11. Stand(turn'.tools, StagingAll(session'))
  BY <1>10 DEF Stand
<1>12. OpenHaveTools'
  BY <1>9 DEF OpenHaveTools
<1>13. QED
  BY <1>4, <1>5, <1>6, <1>9, <1>11, <1>12 DEF Calls

-----------------------------------------------------------------------------
(* Steps within a turn.                                                    *)

\* Steering stages what the user said.
LEMMA SendCalls ==
  ASSUME TypeOK, Phases, Agrees, Calls, SendRequest
  PROVE  Calls'
<1>0. session \in Session /\ loop \in LoopType /\ StagingAll(session) \in Seq(Message)
  BY Types, HoldsBy
<1>1. CanStage(session) /\ loop.state = "PreparingRequest" /\ seen' = seen
      /\ loop.pc = "react"
  BY AtWork, ActiveStages DEF SendRequest, Prepares, Reacts
<1>2. turn.tools = <<>> /\ turn.spawned = FALSE
  BY <1>1, HoldsBy
<1>3. PICK new \in Seq(Message) :
        /\ StagingAll(session') = StagingAll(session) \o new
        /\ \A i \in DOMAIN new : new[i].kind = "user"
  BY <1>1, SendRequestFacts
<1>4. /\ turn'.tools = turn.tools /\ turn'.spawned = turn.spawned
      /\ session'.committed = session.committed
  BY <1>1, SendRequestFacts DEF SameTurn
<1>5. loop'.state = "PreparingRequest"
  BY <1>0, <1>1 DEF SendRequest, LoopType
<1>6. PICK T : T = StagingAll(session)
  OBVIOUS
<1>7. Tidy(T \o new) /\ Open(T \o new) = Open(T)
  <2>1. {new[k].call : k \in {l \in DOMAIN new : new[l].kind = "call"}} = {}
    BY <1>3
  <2>2. Tidy(T) /\ T \in Seq(Message)
    BY <1>0, <1>6 DEF Calls
  <2>3. /\ \A k \in DOMAIN new : new[k].kind # "output"
        /\ \A k, l \in DOMAIN new : new[k].kind = "call" /\ new[l].kind = "call"
                                    /\ new[k].call = new[l].call => k = l
        /\ \A k \in DOMAIN new : new[k].kind = "call" =>
              \A i \in DOMAIN T : T[i].call # new[k].call
    BY <1>3
  <2>4. Tidy(T \o new) /\ Open(T \o new) = Open(T) \cup {}
    BY <2>1, <2>2, <2>3, AsksTidy
  <2>5. QED
    BY <2>4
<1>8. Tidy(StagingAll(session')) /\ Open(StagingAll(session')) = Open(StagingAll(session))
  BY <1>3, <1>6, <1>7
<1>9. HistoryPaired(session')
  BY <1>4 DEF Calls, HistoryPaired
<1>10. Stand(turn'.tools, StagingAll(session'))
  BY <1>4, <1>8 DEF Calls, Stand
<1>11. OpenHaveTools'
  BY <1>1, <1>4, <1>8 DEF Calls, OpenHaveTools
<1>12. QED
  BY <1>2, <1>4, <1>5, <1>8, <1>9, <1>10, <1>11 DEF Calls

\* The blocks of a response ask for its calls and for nothing else.
LEMMA BlocksAsk ==
  ASSUME NEW s \in Session, Tidy(StagingAll(s)), NEW r \in Response,
         New(r.calls, StagingAll(s))
  PROVE  LET T == StagingAll(s)
             U == T \o NewItems(s, Blocks(r))
         IN  /\ Tidy(U)
             /\ \A c \in Open(T) : c \in Open(U)
             /\ \A i \in DOMAIN r.calls : r.calls[i] \in Open(U)
             /\ \A c \in Open(U) : c \in Open(T) \/ \E i \in DOMAIN r.calls : c = r.calls[i]
<1>1. PICK T, new : T = StagingAll(s) /\ new = NewItems(s, Blocks(r))
  OBVIOUS
<1>2. T \in Seq(Message)
  BY <1>1, TurnsFacts
<1>3. Blocks(r) \in Seq(Item) /\ r.calls \in Seq(CallIds)
  BY BlocksFacts
<1>4. PICK n : n = Len(r.calls)
  OBVIOUS
<1>5. PICK h \in 0 .. 1 :
        /\ Len(Blocks(r)) = h + n
        /\ \A i \in 1 .. h : Blocks(r)[i].kind \in {"text", "reasoning"}
        /\ \A k \in 1 .. n : Blocks(r)[h + k].kind = "call" /\ Blocks(r)[h + k].call = r.calls[k]
  BY <1>4, BlocksFacts
<1>6. n \in Nat /\ DOMAIN r.calls = 1 .. n
  BY <1>3, <1>4, LenProperties
<1>7. /\ new \in Seq(Message) /\ DOMAIN new = 1 .. h + n
      /\ \A i \in 1 .. h + n : new[i].kind = Blocks(r)[i].kind /\ new[i].call = Blocks(r)[i].call
  BY <1>1, <1>3, <1>5, NewItemsFacts
<1>8. \A i \in 1 .. h : new[i].kind \in {"text", "reasoning"}
  BY <1>5, <1>6, <1>7
<1>9. \A k \in 1 .. n : h + k \in DOMAIN new /\ new[h + k].kind = "call" /\ new[h + k].call = r.calls[k]
  <2>1. SUFFICES ASSUME NEW k \in 1 .. n
                 PROVE  h + k \in DOMAIN new /\ new[h + k].kind = "call"
                        /\ new[h + k].call = r.calls[k]
    OBVIOUS
  <2>2. h + k \in 1 .. h + n
    BY <1>6
  <2>3. Blocks(r)[h + k].kind = "call" /\ Blocks(r)[h + k].call = r.calls[k]
    BY <1>5
  <2>4. QED
    BY <1>7, <2>2, <2>3
<1>10. \A i \in DOMAIN new : i \in 1 .. h \/ (i - h \in 1 .. n /\ i = h + (i - h))
  BY <1>6, <1>7
<1>11. ASSUME NEW i \in DOMAIN new
       PROVE  /\ new[i].kind # "output"
              /\ new[i].kind = "call" => i - h \in DOMAIN r.calls /\ new[i].call = r.calls[i - h]
                                         /\ i \in Int
  <2>1. CASE i \in 1 .. h
    BY <1>8, <2>1
  <2>2. CASE i - h \in 1 .. n /\ i = h + (i - h)
    <3>1. PICK k \in 1 .. n : k = i - h /\ i = h + k
      BY <2>2
    <3>2. new[i].kind = "call" /\ new[i].call = r.calls[k] /\ i \in Int
      BY <1>6, <1>9, <3>1
    <3>3. QED
      BY <1>6, <3>1, <3>2
  <2>3. QED
    BY <1>10, <2>1, <2>2
<1> DEFINE asked == {new[k].call : k \in {l \in DOMAIN new : new[l].kind = "call"}}
<1>12. Tidy(T \o new) /\ Open(T \o new) = Open(T) \cup asked
  <2>1. /\ \A k \in DOMAIN new : new[k].kind # "output"
        /\ \A k \in DOMAIN new : new[k].kind = "call" =>
              \A i \in DOMAIN T : T[i].call # new[k].call
    BY <1>1, <1>11 DEF New
  <2>2. ASSUME NEW k \in DOMAIN new, NEW l \in DOMAIN new, new[k].kind = "call",
               new[l].kind = "call", new[k].call = new[l].call
        PROVE  k = l
    <3>1. k - h = l - h
      BY <1>11, <2>2 DEF New
    <3>2. k \in Int /\ l \in Int
      BY <1>11, <2>2
    <3>3. QED
      BY <3>1, <3>2
  <2>3. QED
    BY ZenonT(60), <1>1, <1>2, <1>7, <2>1, <2>2, AsksTidy
<1>13. \A c \in asked : \E i \in DOMAIN r.calls : c = r.calls[i]
  BY <1>11
<1>14. \A i \in DOMAIN r.calls : r.calls[i] \in asked
  BY <1>6, <1>9
<1> HIDE DEF asked
<1>15. QED
  BY <1>1, <1>12, <1>13, <1>14

\* A response asks for tools, comes to nothing, or ends the turn.
LEMMA ResolveCalls ==
  ASSUME TypeOK, Phases, Calls, ResolveResponse
  PROVE  Calls'
<1> DEFINE r == turn.response
           new == NewItems(session, Blocks(r))
           t == StageItems(session, Blocks(r))
<1>0. /\ session \in Session /\ loop \in LoopType /\ StagingAll(session) \in Seq(Message)
  BY Types, HoldsBy
<1>1. loop.state = "ResolvingResponse" /\ loop.pc = "react" /\ seen' = seen
      /\ r \in Response /\ New(r.calls, StagingAll(session))
  BY DEF ResolveResponse, Reacts, Phases, Calls
<1>2. turn.tools = <<>> /\ turn.spawned = FALSE /\ DOMAIN turn.tools = {}
  BY <1>1, HoldsBy
<1>3. turn'.spawned = FALSE
  BY <1>1, <1>2, ResolveFacts
<1>4. /\ Go("Done").state = "Done" /\ Go("PreparingRequest").state = "PreparingRequest"
      /\ Fail("other").state = "Failed" /\ Go("ExecutingTools").state = "ExecutingTools"
  BY GoFacts, FailFacts DEF LooperState, Reason
<1>5. /\ SameTurn(t, session) /\ StagingAll(t) = StagingAll(session) \o new
      /\ SameTurn(session', session)
      /\ session' = t \/ session'.staged = session.staged
  BY <1>1, ResolveSession
<1>6. /\ Tidy(StagingAll(t))
      /\ \A c \in Open(StagingAll(session)) : c \in Open(StagingAll(t))
      /\ \A i \in DOMAIN r.calls : r.calls[i] \in Open(StagingAll(t))
      /\ \A c \in Open(StagingAll(t)) :
           c \in Open(StagingAll(session)) \/ \E i \in DOMAIN r.calls : c = r.calls[i]
  <2>1. Tidy(StagingAll(session))
    BY DEF Calls
  <2>2. LET U == StagingAll(session) \o NewItems(session, Blocks(r))
        IN  /\ Tidy(U)
            /\ \A c \in Open(StagingAll(session)) : c \in Open(U)
            /\ \A i \in DOMAIN r.calls : r.calls[i] \in Open(U)
            /\ \A c \in Open(U) :
                 c \in Open(StagingAll(session)) \/ \E i \in DOMAIN r.calls : c = r.calls[i]
    BY <1>0, <1>1, <2>1, BlocksAsk
  <2>3. QED
    BY <1>5, <2>2
<1>7. \/ session' = t /\ loop'.state = "Done" /\ turn'.tools = <<>> /\ r.calls = <<>>
      \/ session' = t /\ loop'.state = "ExecutingTools" /\ turn'.tools = NewTools(r)
      \/ session' = t /\ loop'.state = "Failed" /\ turn'.tools = <<>>
      \/ session'.staged = session.staged /\ loop'.state \in {"PreparingRequest", "Failed"}
         /\ turn'.tools = <<>>
  <2>1. session' = TruncateStaging(t, Len(session.staged)) => session'.staged = session.staged
    <3>1. PICK x, y : x = t /\ y = new
      OBVIOUS
    <3>2. /\ y \in Seq(Message) /\ x.staged = session.staged \o y
          /\ SameTurn(x, session) /\ x.pending = session.pending /\ x \in Session
      BY <1>1, <3>1, ResolveSession DEF SameTurn
    <3>3. TruncateStaging(x, Len(session.staged)).staged = session.staged
      BY <1>0, <3>2, TruncateBack
    <3>4. QED
      BY <3>1, <3>3
  <2>2. QED
    BY <1>1, <1>2, <1>4, <2>1, ResolveFacts
<1>8. HistoryPaired(session')
  BY <1>5 DEF SameTurn, Calls, HistoryPaired
<1> HIDE DEF t, new, r
<1>9. DOMAIN <<>> = {}
  OBVIOUS
<1>10. \A c \in Open(StagingAll(session)) : c \in seen.panicked
  BY <1>1, <1>2 DEF Calls, OpenHaveTools
<1>11. CASE session' = t /\ loop'.state = "ExecutingTools" /\ turn'.tools = NewTools(r)
  <2>1. /\ DOMAIN turn'.tools = DOMAIN r.calls
        /\ \A i \in DOMAIN r.calls : turn'.tools[i].call = r.calls[i]
    BY <1>1, <1>11, NewToolsFacts
  <2>2. Stand(turn'.tools, StagingAll(session'))
    BY <1>1, <1>6, <1>11, <2>1 DEF Stand, New
  <2>3. OpenHaveTools'
    BY <1>1, <1>6, <1>10, <1>11, <2>1 DEF OpenHaveTools
  <2>4. QED
    BY <1>3, <1>6, <1>8, <1>11, <2>2, <2>3 DEF Calls
<1>12. CASE session' = t /\ turn'.tools = <<>>
            /\ (loop'.state = "Failed" \/ (loop'.state = "Done" /\ r.calls = <<>>))
  <2>1. Stand(turn'.tools, StagingAll(session'))
    BY <1>9, <1>12 DEF Stand
  <2>2. OpenHaveTools'
    BY <1>1, <1>6, <1>9, <1>10, <1>12 DEF OpenHaveTools
  <2>3. QED
    BY <1>3, <1>6, <1>8, <1>12, <2>1, <2>2 DEF Calls
<1>13. CASE session'.staged = session.staged /\ turn'.tools = <<>>
            /\ loop'.state \in {"PreparingRequest", "Failed"}
  <2>1. StagingAll(session') = StagingAll(session) /\ session'.committed = session.committed
    BY <1>5, <1>13 DEF SameTurn, StagingAll
  <2>2. loop.pc # "exited" /\ loop.state # "Failed" /\ turn'.spawned = FALSE
    BY <1>1, <1>3
  <2>3. QED
    BY <1>1, <1>2, <1>13, <2>1, <2>2, SameCalls
<1>14. QED
  BY <1>7, <1>11, <1>12, <1>13

\* The request and the stream, up to the response.
LEMMA RequestCalls ==
  ASSUME TypeOK, Phases, Calls,
         \/ PauseBeforeRequest \/ BackoffInterrupted \/ ExceedIterations
         \/ RequestAnswered \/ RequestFails \/ RequestRefused
         \/ StreamQuiet \/ StreamText \/ StreamEnds \/ StreamBreaks \/ StreamRefused
         \/ ResponseRefused
  PROVE  Calls'
<1>0. turn \in TurnType /\ loop \in LoopType /\ session \in Session
  BY HoldsBy, Types
<1>1. /\ loop.pc # "exited" /\ loop.state # "Failed" /\ seen' = seen
      /\ turn.spawned = FALSE /\ turn.tools = <<>> /\ DOMAIN turn.tools = {}
  <2>1. /\ loop.pc \in {"react", "request"} /\ seen' = seen
        /\ loop.state \in {"PreparingRequest", "Streaming", "ResolvingResponse"}
    BY HoldsBy DEF PauseBeforeRequest, BackoffInterrupted, ExceedIterations, RequestAnswered,
       RequestFails, RequestRefused, StreamQuiet, StreamText, StreamEnds, StreamBreaks,
       StreamRefused, ResponseRefused, Prepares, Reacts
  <2>2. QED
    BY <2>1, HoldsBy
<1>2. /\ Go("PreparingRequest").state = "PreparingRequest" /\ Go("Streaming").state = "Streaming"
      /\ Fail("other").state = "Failed" /\ Fail("maxIterations").state = "Failed"
      /\ Go("ResolvingResponse").state = "ResolvingResponse"
  BY GoFacts, FailFacts DEF LooperState, Reason
<1>3. ASSUME session'.committed = session.committed, session'.staged = session.staged,
             session'.userInput = session.userInput,
             turn'.tools = <<>>, turn'.spawned = FALSE,
             \/ loop'.state # "ResolvingResponse"
             \/ New(turn'.response.calls, StagingAll(session))
      PROVE  Calls'
  <2>1. StagingAll(session') = StagingAll(session)
    BY <1>3 DEF StagingAll
  <2>2. QED
    BY <1>1, <1>3, <2>1, SameCalls
<1>4. CASE PauseBeforeRequest
  <2>1. session' = session /\ turn' = turn
        /\ loop' = [Go("PausedBeforeRequest") EXCEPT !.pause = FALSE]
    BY <1>4 DEF PauseBeforeRequest
  <2>2. PICK g : g = Go("PausedBeforeRequest")
    OBVIOUS
  <2>3. g \in LoopType /\ g.state = "PausedBeforeRequest"
    BY <2>2, GoFacts DEF LooperState
  <2>4. loop' = [g EXCEPT !.pause = FALSE]
    BY <2>1, <2>2
  <2>5. loop'.state = "PausedBeforeRequest"
    BY <2>3, <2>4 DEF LoopType
  <2>6. QED
    BY <1>1, <1>3, <2>1, <2>5
<1>5. CASE BackoffInterrupted \/ ExceedIterations \/ RequestRefused \/ StreamQuiet
  <2>1. /\ session' = session /\ turn' = turn
        /\ loop' \in {Go("PreparingRequest"), Go("Streaming"), Fail("other"), Fail("maxIterations")}
    BY <1>5 DEF BackoffInterrupted, ExceedIterations, RequestRefused, StreamQuiet
  <2>2. QED
    BY <1>1, <1>2, <1>3, <2>1
<1>6. CASE StreamText \/ StreamRefused \/ ResponseRefused
  <2>1. /\ session' = session /\ turn'.tools = turn.tools /\ turn'.spawned = turn.spawned
        /\ loop' \in {Go("Streaming"), Fail("other")}
    BY <1>0, <1>6 DEF StreamText, StreamRefused, ResponseRefused, TurnType
  <2>2. QED
    BY <1>1, <1>2, <1>3, <2>1
<1>7. CASE RequestFails \/ StreamBreaks
  <2>1. turn.text \in BOOLEAN /\ RetryOrFail(session, turn.text, Len(session.staged), FALSE)
    BY <1>7 DEF RequestFails, StreamBreaks, TypeOK
  <2>2. SameTurn(session', session) /\ session'.staged = session.staged
    BY <2>1, RetryAsItWas
  <2>3. /\ turn'.spawned = turn.spawned
        /\ \/ loop' = Go("PreparingRequest") /\ turn'.tools = <<>>
           \/ loop' = Fail("other") /\ turn'.tools = turn.tools
    BY <2>1, RetryFacts
  <2>4. QED
    BY <1>1, <1>2, <1>3, <2>2, <2>3 DEF SameTurn
<1>8. CASE StreamEnds \/ (RequestAnswered /\ ~UseStream)
  <2>1. /\ session' = session
        /\ \E r \in Responses : \/ turn' = [turn EXCEPT !.response = r]
                                \/ turn' = [turn EXCEPT !.response = r, !.stream = FALSE]
    BY <1>8 DEF StreamEnds, RequestAnswered
  <2>2. PICK r \in Responses : \/ turn' = [turn EXCEPT !.response = r]
                               \/ turn' = [turn EXCEPT !.response = r, !.stream = FALSE]
    BY <2>1
  <2>3. turn'.response = r /\ turn'.tools = turn.tools /\ turn'.spawned = turn.spawned
    BY <1>0, <2>2 DEF TurnType
  <2>4. New(r.calls, StagingAll(session))
    BY ResponsesAreNew
  <2>5. QED
    BY <1>1, <1>3, <2>1, <2>3, <2>4
<1>9. CASE RequestAnswered /\ UseStream
  <2>1. /\ session' = session /\ loop' = Go("Streaming")
        /\ turn' = [turn EXCEPT !.stream = TRUE]
    BY <1>9 DEF RequestAnswered
  <2>2. turn'.tools = turn.tools /\ turn'.spawned = turn.spawned
    BY <1>0, <2>1 DEF TurnType
  <2>3. QED
    BY <1>1, <1>2, <1>3, <2>1, <2>2
<1>10. QED
  BY <1>4, <1>5, <1>6, <1>7, <1>8, <1>9

\* The end of a batch: every call that is left open panicked.
LEMMA FinishCalls ==
  ASSUME TypeOK, Phases, Calls, loop.state = "ExecutingTools", seen' = seen,
         NEW tools \in Seq(Tool), DOMAIN tools = DOMAIN turn.tools,
         \A i \in DOMAIN turn.tools : tools[i].call = turn.tools[i].call,
         \A i \in DOMAIN turn.tools : tools[i].result \/ tools[i].call \in seen.panicked,
         FinishTools(tools)
  PROVE  Calls'
<1>1. /\ session \in Session /\ SameTurn(session', session)
      /\ StagingAll(session') = StagingAll(session) \o NewItems(session, Results(tools))
      /\ turn' = ClearContext /\ loop' = Go("PreparingRequest")
  BY Types, FinishFacts
<1>2. /\ turn'.tools = <<>> /\ turn'.spawned = FALSE /\ loop'.state = "PreparingRequest"
  BY <1>1, ClearContextFacts, GoFacts DEF LooperState
<1>3. DOMAIN turn'.tools = {}
  <2>1. DOMAIN <<>> = {}
    OBVIOUS
  <2>2. QED
    BY <1>2, <2>1
<1>4. Tidy(StagingAll(session)) /\ Stand(tools, StagingAll(session))
  BY DEF Calls, Stand
<1>5. /\ Tidy(StagingAll(session'))
      /\ Open(StagingAll(session')) \subseteq Open(StagingAll(session))
      /\ \A i \in DOMAIN tools : tools[i].result => tools[i].call \notin Open(StagingAll(session'))
  BY <1>1, <1>4, ResultsTidy
<1>6. loop.pc # "exited"
  BY DEF Phases
<1>7. \A c \in Open(StagingAll(session')) : c \in seen'.panicked
  <2>1. SUFFICES ASSUME NEW c \in Open(StagingAll(session')), c \notin seen.panicked
                 PROVE  FALSE
    OBVIOUS
  <2>2. PICK i \in DOMAIN turn.tools : turn.tools[i].call = c
    BY <1>5, <1>6, <2>1 DEF Calls, OpenHaveTools
  <2>3. QED
    BY <1>5, <2>1, <2>2
<1>8. OpenHaveTools'
  BY <1>7 DEF OpenHaveTools
<1>9. HistoryPaired(session')
  BY <1>1 DEF SameTurn, Calls, HistoryPaired
<1>10. Stand(turn'.tools, StagingAll(session'))
  BY <1>3 DEF Stand
<1>11. QED
  BY <1>2, <1>5, <1>8, <1>9, <1>10 DEF Calls

\* The tools: a pause before them, their start, their results.
LEMMA ToolsCalls ==
  ASSUME TypeOK, Phases, Calls,
         \/ PauseBeforeTools \/ SpawnTools \/ ToolRefused
         \/ CollectResults \/ CollectPanic \/ BatchOver \/ PollQuiet
  PROVE  Calls'
<1>0. turn \in TurnType /\ loop \in LoopType /\ turn.tools \in Seq(Tool)
      /\ \A i \in DOMAIN turn.tools : turn.tools[i] \in Tool
  BY HoldsBy, Types, SeqElement
<1>1. /\ seen' = seen /\ loop.state = "ExecutingTools" /\ loop.pc # "exited"
      /\ loop.state # "Failed"
  BY DEF PauseBeforeTools, SpawnTools, ToolRefused, CollectResults, CollectPanic,
     BatchOver, PollQuiet, Spawns, Polls, Reacts
<1>2. Go("ExecutingTools").state = "ExecutingTools" /\ Fail("other").state = "Failed"
  BY GoFacts, FailFacts DEF LooperState, Reason
<1>3. ASSUME session' = session, DOMAIN turn'.tools = DOMAIN turn.tools,
             \A i \in DOMAIN turn.tools : turn'.tools[i].call = turn.tools[i].call,
             loop'.state # "ResolvingResponse",
             turn'.spawned =>
                \A i \in DOMAIN turn.tools : Accounted(turn'.tools[i], seen.panicked)
      PROVE  Calls'
  BY <1>1, <1>3, SameCalls
<1>4. CASE PauseBeforeTools
  <2>1. /\ session' = session /\ turn' = turn /\ ~turn.spawned
        /\ loop' = [Go("PausedDuringTools") EXCEPT !.pause = FALSE]
    BY <1>4 DEF PauseBeforeTools
  <2>2. PICK g : g = Go("PausedDuringTools")
    OBVIOUS
  <2>3. g \in LoopType /\ g.state = "PausedDuringTools"
    BY <2>2, GoFacts DEF LooperState
  <2>4. loop' = [g EXCEPT !.pause = FALSE]
    BY <2>1, <2>2
  <2>5. loop'.state = "PausedDuringTools"
    BY <2>3, <2>4 DEF LoopType
  <2>6. QED
    BY <1>3, <2>1, <2>5
<1>5. CASE SpawnTools
  <2>1. ASSUME NEW settled, FinishTools(Settle(settled)),
               \A i \in DOMAIN turn.tools : Settle(settled)[i].result
        PROVE  Calls'
    <3>1. /\ Settle(settled) \in Seq(Tool) /\ DOMAIN Settle(settled) = DOMAIN turn.tools
          /\ \A i \in DOMAIN turn.tools : Settle(settled)[i].call = turn.tools[i].call
      BY SettleFacts
    <3>2. QED
      BY <1>1, <2>1, <3>1, FinishCalls
  <2>2. CASE /\ session' = session /\ loop' = Go("ExecutingTools")
             /\ DOMAIN turn'.tools = DOMAIN turn.tools
             /\ \A i \in DOMAIN turn.tools :
                  /\ turn'.tools[i].call = turn.tools[i].call
                  /\ turn'.tools[i].result \/ turn'.tools[i].task = "running"
    <3>1. \A i \in DOMAIN turn.tools : Accounted(turn'.tools[i], seen.panicked)
      BY <2>2 DEF Accounted
    <3>2. QED
      BY <1>2, <1>3, <2>2, <3>1
  <2>3. QED
    BY <1>5, <2>1, <2>2, SpawnFacts
<1>6. CASE ToolRefused
  <2>1. PICK settled : turn' = [turn EXCEPT !.tools = Settle(settled)]
    BY <1>6 DEF ToolRefused
  <2>2. session' = session /\ loop' = Fail("other") /\ turn.spawned = FALSE
    BY <1>0, <1>6 DEF ToolRefused, Spawns, TurnType
  <2>3. PICK f : f = Settle(settled)
    OBVIOUS
  <2>4. /\ DOMAIN f = DOMAIN turn.tools
        /\ \A i \in DOMAIN turn.tools : f[i].call = turn.tools[i].call
    BY <2>3, SettleFacts
  <2>5. turn' = [turn EXCEPT !.tools = f]
    BY <2>1, <2>3
  <2>6. turn'.tools = f /\ turn'.spawned = FALSE
    BY <1>0, <2>2, <2>5 DEF TurnType
  <2>7. QED
    BY <1>2, <1>3, <2>2, <2>4, <2>6
<1>7. CASE CollectResults
  <2>1. turn.spawned = TRUE
    BY <1>0, <1>7 DEF CollectResults, Polls, TurnType
  <2>2. \A i \in DOMAIN turn.tools : Accounted(turn.tools[i], seen.panicked)
    BY <2>1 DEF Calls
  <2>3. /\ Joined \in Seq(Tool) /\ DOMAIN Joined = DOMAIN turn.tools
        /\ \A i \in DOMAIN turn.tools :
             /\ Joined[i].call = turn.tools[i].call
             /\ Joined[i].task = "running" <=> turn.tools[i].task = "running"
             /\ turn.tools[i].result \/ turn.tools[i].task = "finished" => Joined[i].result
    BY JoinedFacts
  <2>4. CASE FinishTools(Joined) /\ \A i \in DOMAIN turn.tools : turn.tools[i].task # "running"
    <3>1. \A i \in DOMAIN turn.tools : Joined[i].result \/ Joined[i].call \in seen.panicked
      BY <2>2, <2>3, <2>4 DEF Accounted
    <3>2. QED
      BY <1>1, <2>3, <2>4, <3>1, FinishCalls
  <2>5. CASE session' = session /\ loop' = Go("ExecutingTools") /\ turn'.tools = Joined
    <3>1. \A i \in DOMAIN turn.tools : Accounted(turn'.tools[i], seen.panicked)
      BY <2>2, <2>3, <2>5 DEF Accounted
    <3>2. QED
      BY <1>2, <1>3, <2>3, <2>5, <3>1
  <2>6. QED
    BY <1>7, <2>4, <2>5, CollectFacts
<1>8. CASE CollectPanic
  <2>1. PICK i \in Tasks({"panicked"}) : turn' = [turn EXCEPT !.tools[i].task = "none"]
    BY <1>8 DEF CollectPanic
  <2>2. /\ i \in DOMAIN turn.tools /\ turn.tools[i].task = "panicked"
        /\ session' = session /\ loop' = Go("ExecutingTools") /\ turn.spawned
    BY <1>8 DEF CollectPanic, Tasks, Polls
  <2>3. "none" \in {"none", "running", "finished", "panicked"}
    OBVIOUS
  <2>4. /\ DOMAIN turn'.tools = DOMAIN turn.tools
        /\ \A k \in DOMAIN turn.tools :
             /\ turn'.tools[k].call = turn.tools[k].call
             /\ turn'.tools[k].result = turn.tools[k].result
             /\ turn'.tools[k].task = IF k = i THEN "none" ELSE turn.tools[k].task
    BY <2>1, <2>2, <2>3, OneTaskFacts
  <2>5. \A k \in DOMAIN turn.tools : Accounted(turn'.tools[k], seen.panicked)
    BY <2>2, <2>4 DEF Calls, Accounted
  <2>6. QED
    BY <1>2, <1>3, <2>2, <2>4, <2>5
<1>9. CASE BatchOver
  <2>1. FinishTools(turn.tools) /\ turn.spawned
        /\ Tasks({"running", "finished", "panicked"}) = {}
    BY <1>9 DEF BatchOver, Polls
  <2>2. \A i \in DOMAIN turn.tools : turn.tools[i].result \/ turn.tools[i].call \in seen.panicked
    BY <2>1 DEF Tasks, Calls, Accounted
  <2>3. QED
    BY <1>0, <1>1, <2>1, <2>2, FinishCalls
<1>10. CASE PollQuiet
  <2>1. session' = session /\ turn' = turn /\ loop' = Go("ExecutingTools")
    BY <1>10 DEF PollQuiet
  <2>2. turn'.spawned =>
          \A i \in DOMAIN turn.tools : Accounted(turn'.tools[i], seen.panicked)
    BY <2>1 DEF Calls
  <2>3. QED
    BY <1>2, <1>3, <2>1, <2>2
<1>11. QED
  BY <1>4, <1>5, <1>6, <1>7, <1>8, <1>9, <1>10

\* A task ends with a result to come, or it panicked.
LEMMA TaskCalls ==
  ASSUME TypeOK, Phases, Calls, NEW i, TaskEnds(i)
  PROVE  Calls'
<1>1. /\ DOMAIN turn'.tools = DOMAIN turn.tools /\ i \in DOMAIN turn.tools
      /\ \A k \in DOMAIN turn.tools :
           /\ turn'.tools[k].call = turn.tools[k].call
           /\ turn'.tools[k].result = turn.tools[k].result
           /\ k # i => turn'.tools[k].task = turn.tools[k].task
      /\ \/ turn'.tools[i].task = "finished" /\ seen' = seen
         \/ seen'.panicked = seen.panicked \cup {turn.tools[i].call}
  BY TaskLoop
<1>2. session' = session /\ loop' = loop /\ turn.tools[i].task = "running"
  BY DEF TaskEnds
<1>3. turn.spawned /\ loop.state = "ExecutingTools"
  BY <1>1, <1>2 DEF Phases
<1>4. \A k \in DOMAIN turn.tools : Accounted(turn'.tools[k], seen'.panicked)
  BY <1>1, <1>3 DEF Calls, Accounted
<1>5. seen.panicked \subseteq seen'.panicked
  BY <1>1
<1>6. QED
  BY <1>1, <1>2, <1>3, <1>4, <1>5, SameCalls

-----------------------------------------------------------------------------
(* The theorems.                                                           *)

\* No turn, no calls.
LEMMA InitCalls == Init => Calls
<1>1. SUFFICES ASSUME Init
               PROVE  Calls
  OBVIOUS
<1>2. NewSession \in Session
  BY NewSessionSound DEF SoundBy
<1>3. NewSession.committed = <<>> /\ NewSession.staged = <<>> /\ NewSession.userInput = <<>>
  BY DEF NewSession
<1>4. /\ EnqueuePending(NewSession, 1).committed = <<>>
      /\ EnqueuePending(NewSession, 1).staged = <<>>
      /\ EnqueuePending(NewSession, 1).userInput = <<>>
  BY <1>2, <1>3, EnqueueFields DEF SameTurn
<1>5. session.committed = <<>> /\ session.staged = <<>> /\ session.userInput = <<>>
  BY <1>1, <1>3, <1>4 DEF Init
<1>6. loop.state = "Idle" /\ turn.tools = <<>> /\ turn.spawned = FALSE
  BY <1>1, FreshTurnFacts DEF Init
<1>7. DOMAIN <<>> = {} /\ <<>> \o <<>> = <<>>
  OBVIOUS
<1>8. PICK e : e = <<>>
  OBVIOUS
<1>9. StagingAll(session) = e /\ DOMAIN e = {}
  BY <1>5, <1>7, <1>8 DEF StagingAll
<1>10. Tidy(StagingAll(session)) /\ Open(StagingAll(session)) = {}
  BY <1>9, NoCallsTidy
<1>11. HistoryPaired(session)
  BY <1>5, <1>7 DEF HistoryPaired
<1>12. Stand(turn.tools, StagingAll(session))
  BY <1>6, <1>7 DEF Stand
<1>13. OpenHaveTools
  BY <1>10 DEF OpenHaveTools
<1>14. QED
  BY <1>6, <1>10, <1>11, <1>12, <1>13 DEF Calls

\* The invariant is kept.
LEMMA CallsStep == CoreInv /\ Calls /\ [Next]_vars => Calls'
<1>1. SUFFICES ASSUME CoreInv, Calls, [Next]_vars
               PROVE  Calls'
  OBVIOUS
<1>2. TypeOK /\ Phases /\ Agrees /\ Arrivals(Before)
  BY <1>1 DEF CoreInv, Core
<1>3. PICK n \in Nat : SoundBy(Before, session, n)
  <2>1. user.queries \in Nat
    BY <1>2, LooperAssumption DEF TypeOK
  <2>2. QED
    BY <1>2, <2>1 DEF Arrivals
<1>4. CASE Environment \/ Messages \/ Dispatch \/ Exited
  BY <1>1, <1>2, <1>4, MessagesCalls
<1>5. CASE Finalize \/ CommitDone
  BY <1>1, <1>2, <1>3, <1>5, EndsCalls
<1>6. CASE StartTurnFromPending
  <2>1. Next /\ ~TakeQuery
    <3>1. Next
      BY <1>6 DEF Next, Run
    <3>2. loop'.pc = "react"
      BY <1>2, <1>6 DEF StartTurnFromPending, Started, TypeOK
    <3>3. TakeQuery => loop'.pc = "drain"
      BY <1>2 DEF TakeQuery, TypeOK
    <3>4. QED
      BY <3>1, <3>2, <3>3
  <2>2. SoundBy(Before, session', n)
    BY <1>2, <1>3, <2>1, SoundStep
  <2>3. QED
    BY <1>1, <1>2, <1>3, <1>6, <2>2, StartCalls
<1>7. CASE SendRequest
  BY <1>1, <1>2, <1>7, SendCalls
<1>8. CASE ResolveResponse
  BY <1>1, <1>2, <1>8, ResolveCalls
<1>9. CASE \/ PauseBeforeRequest \/ BackoffInterrupted \/ ExceedIterations
           \/ RequestAnswered \/ RequestFails \/ RequestRefused
           \/ StreamQuiet \/ StreamText \/ StreamEnds \/ StreamBreaks \/ StreamRefused
           \/ ResponseRefused
  BY <1>1, <1>2, <1>9, RequestCalls
<1>10. CASE \/ PauseBeforeTools \/ SpawnTools \/ ToolRefused
            \/ CollectResults \/ CollectPanic \/ BatchOver \/ PollQuiet
  BY <1>1, <1>2, <1>10, ToolsCalls
<1>11. CASE \E i \in 1 .. MaxCalls : TaskEnds(i)
  BY <1>1, <1>2, <1>11, TaskCalls
<1>12. CASE UNCHANGED vars
  BY <1>1, <1>12 DEF vars, Calls, HistoryPaired, OpenHaveTools
<1>13. QED
  BY <1>1, <1>4, <1>5, <1>6, <1>7, <1>8, <1>9, <1>10, <1>11, <1>12 DEF Next, Run, React

\* The invariant of the loop with what it says of calls and outputs.
THEOREM CallsInvariant == Spec => [](CoreInv /\ Calls)
BY InitCore, InitCalls, CoreStep, CallsStep, PTL DEF Spec

\* In every turn, committed or in flight, an output comes after its call and no call
\* has two, whatever was retried, cancelled, salvaged or answered by a hook.
THEOREM EveryOutputHasItsCall == Spec => []OutputsMatchCalls
<1>1. CoreInv /\ Calls => OutputsMatchCalls
  <2>1. SUFFICES ASSUME CoreInv, Calls
                 PROVE  OutputsMatchCalls
    OBVIOUS
  <2>2. session \in Session
    BY <2>1, Types DEF CoreInv, Core
  <2>3. \A p \in DOMAIN Turns(session) : Paired(Turns(session)[p])
    <3>1. SUFFICES ASSUME NEW p \in DOMAIN Turns(session)
                   PROVE  Paired(Turns(session)[p])
      OBVIOUS
    <3>2. p \in DOMAIN session.committed \/ Turns(session)[p] = StagingAll(session)
      <4>1. PICK c : c = Len(session.committed)
        OBVIOUS
      <4>2. /\ c \in Nat /\ p \in 1 .. c + 1 /\ DOMAIN session.committed = 1 .. c
            /\ Turns(session)[c + 1] = StagingAll(session)
        BY <2>2, <4>1, TurnsFacts
      <4>3. QED
        BY <4>2
    <3>3. p \in DOMAIN session.committed => Turns(session)[p] = session.committed[p]
      BY <2>2, TurnsFacts
    <3>4. QED
      BY <2>1, <3>2, <3>3 DEF Calls, HistoryPaired, Tidy
  <2>4. QED
    BY <2>3 DEF OutputsMatchCalls, Paired
<1>2. QED
  BY <1>1, CallsInvariant, PTL

\* Whenever a request is out, every call of the turn has its output, but for those
\* whose task panicked.
THEOREM EveryRequestIsAnswered == Spec => []RequestsAreAnswered
<1>1. CoreInv /\ Calls => RequestsAreAnswered
  <2>1. SUFFICES ASSUME CoreInv, Calls, RequestIsOut
                 PROVE  DanglingCalls \subseteq seen.panicked
    BY DEF RequestsAreAnswered
  <2>2. TypeOK /\ Phases /\ Arrivals(Before)
    BY <2>1 DEF CoreInv, Core
  <2>3. session \in Session /\ UserHeadsTurn(session)
    BY <2>2, Types DEF Arrivals, SoundBy
  <2>4. loop.state \in {"PreparingRequest", "Streaming", "ResolvingResponse"} /\ loop.pc # "exited"
    BY <2>1, <2>2 DEF RequestIsOut, Phases
  <2>5. DOMAIN turn.tools = {}
    BY <2>2, <2>4, HoldsBy
  <2>6. \A c \in Open(StagingAll(session)) : c \in seen.panicked
    BY <2>1, <2>4, <2>5 DEF Calls, OpenHaveTools
  <2>7. Open(StagingAll(session)) = DanglingCalls
    BY <2>3, OpenIsDangling DEF DanglingCalls
  <2>8. QED
    BY <2>6, <2>7
<1>2. QED
  BY <1>1, CallsInvariant, PTL

-----------------------------------------------------------------------------
(* Crash recovery.                                                         *)
(*                                                                         *)
(* The invariants of SessionRecovery, for any number of crashes.  Inputs   *)
(* are compared by a relation R, "different, or taken up twice by a        *)
(* reload" (Distinct), where the loop alone keeps the order of arrival.    *)
(* The inductive invariant says that both rows of the store can be taken   *)
(* up: what the checkpoint holds may follow the history of the snapshot    *)
(* whenever their turn numbers agree, and so may whatever the session      *)
(* stages from now on.                                                     *)

\* A store that loses the deletion of a checkpoint (agent_looper.rs
\* clear_inflight_checkpoint ignores its outcome) does not also lose the snapshot of
\* the turn that was in it, by a failed save or because failed turns are not saved.
\* Without it the row of an ended turn would be taken up again.
OneWriteHolds == InflightMayFail => ~SaveMayFail /\ PersistOnFailure

-----------------------------------------------------------------------------
(* The inductive invariant.                                                *)

\* Two inputs are different, or one of them was reloaded.
Distinct(X) == {w \in Nat \X Nat : w[1] # w[2] \/ w[1] \in X \/ w[2] \in X}

\* The messages in m may follow the history of s.
Follows(R, s, m) ==
    /\ \A p \in DOMAIN s.committed : \A i \in DOMAIN s.committed[p], k \in DOMAIN m :
          /\ s.committed[p][i].id < m[k].id
          /\ Precede(R, s.committed[p][i].body, m[k].body)
    /\ \A l \in DOMAIN s.pinned, k \in DOMAIN m : s.pinned[l].id # m[k].id

\* m is what a turn of that number may hold while it is in flight.
Whole(R, m, number, last) ==
    /\ \A k \in DOMAIN m :
          /\ m[k].turn = number /\ m[k].kind \notin Closing
          /\ Chain(R, m[k].body) /\ AllBelow(m[k].body, <<last + 1>>)
    /\ \A k, l \in DOMAIN m : k < l => m[k].id < m[l].id /\ Precede(R, m[k].body, m[l].body)

\* Whatever t stages, now or later, from its queue or the channel, may follow the
\* history of s.
Behind(R, s, t, queue) ==
    /\ Follows(R, s, StagingAll(t))
    /\ \A p \in DOMAIN s.committed : \A i \in DOMAIN s.committed[p] :
          /\ s.committed[p][i].id < t.nextId
          /\ Precede(R, s.committed[p][i].body, t.pending)
          /\ \A k \in DOMAIN queue :
                queue[k].kind = "query" => AllBelow(s.committed[p][i].body, <<queue[k].input>>)
    /\ \A l \in DOMAIN s.pinned : s.pinned[l].id < t.nextId

-----------------------------------------------------------------------------
(* Sessions that are taken up.                                             *)

\* A sound session's staging area is a turn in flight that may follow its history.
LEMMA SoundFollows ==
  ASSUME NEW R, NEW s, NEW n \in Nat, SoundBy(R, s, n)
  PROVE  /\ Follows(R, s, StagingAll(s))
         /\ Whole(R, StagingAll(s), s.turnIndex, n)
         /\ \A p \in DOMAIN s.committed : \A i \in DOMAIN s.committed[p] :
              /\ s.committed[p][i] \in Message /\ s.committed[p][i].body \in Seq(Nat)
              /\ s.committed[p][i].id < s.nextId
              /\ Precede(R, s.committed[p][i].body, s.pending)
              /\ AllBelow(s.committed[p][i].body, <<n + 1>>)
         /\ \A l \in DOMAIN s.pinned : s.pinned[l].id < s.nextId
         /\ \A k \in DOMAIN StagingAll(s) : Precede(R, StagingAll(s)[k].body, s.pending)
<1> DEFINE T == Turns(s)
           last == Len(s.committed) + 1
<1>0. s \in Session
  BY DEF SoundBy
<1>1. /\ last \in Nat /\ DOMAIN T = 1 .. last /\ DOMAIN s.committed = 1 .. Len(s.committed)
      /\ Len(s.committed) \in Nat
      /\ \A p \in 1 .. Len(s.committed) : T[p] = s.committed[p]
      /\ T[last] = StagingAll(s)
  <2>1. /\ Len(s.committed) \in Nat /\ DOMAIN s.committed = 1 .. Len(s.committed)
        /\ DOMAIN Turns(s) = 1 .. Len(s.committed) + 1
        /\ \A p \in 1 .. Len(s.committed) : Turns(s)[p] = s.committed[p]
        /\ Turns(s)[Len(s.committed) + 1] = StagingAll(s)
    BY <1>0, TurnsFacts
  <2>2. Len(s.committed) + 1 \in Nat
    BY <2>1
  <2>3. QED
    BY <2>1, <2>2
<1>2. /\ OrderedIds(T) /\ OrderedBy(R, T)
      /\ \A p \in DOMAIN T : \A i \in DOMAIN T[p] :
            /\ T[p][i].id < s.nextId
            /\ \A k \in DOMAIN s.pinned : T[p][i].id # s.pinned[k].id
            /\ Precede(R, T[p][i].body, s.pending)
            /\ AllBelow(T[p][i].body, <<n + 1>>)
      /\ \A k \in DOMAIN s.pinned : s.pinned[k].id < s.nextId
  BY DEF SoundBy, IdsInOrder, InputsBy
<1>3. \A p \in DOMAIN T : \A i \in DOMAIN T[p] : T[p][i] \in Message /\ T[p][i].body \in Seq(Nat)
  BY <1>0, BodiesAre
<1> HIDE DEF T
<1>4. last \in DOMAIN T /\ \A p \in DOMAIN s.committed : p \in DOMAIN T /\ p < last
  BY <1>1
<1>5. \A k \in DOMAIN StagingAll(s) : StagingAll(s)[k].turn = s.turnIndex
                                      /\ StagingAll(s)[k].kind \notin Closing
  BY DEF SoundBy, StagingIsCurrent
<1> HIDE DEF last
<1>6. Follows(R, s, StagingAll(s))
  BY <1>1, <1>2, <1>4 DEF Follows, OrderedIds, OrderedBy, Precedes
<1>7. Whole(R, StagingAll(s), s.turnIndex, n)
  BY <1>1, <1>2, <1>4, <1>5 DEF Whole, OrderedIds, OrderedBy, Precedes
<1>8. QED
  BY <1>1, <1>2, <1>3, <1>4, <1>6, <1>7

\* The counter a session is given passes the ids: it is the largest of what it may be.
LEMMA PastIs ==
  ASSUME NEW counter \in Nat, NEW ids \in SUBSET Nat,
         NEW top \in {counter} \cup {id + 1 : id \in ids},
         \A m \in {counter} \cup {id + 1 : id \in ids} : m <= top
  PROVE  Past(counter, ids) = top
<1> DEFINE S == {counter} \cup {id + 1 : id \in ids}
<1>1. S \subseteq Nat
  OBVIOUS
<1>2. Past(counter, ids) \in S /\ \A m \in S : m <= Past(counter, ids)
  BY DEF Past
<1>3. QED
  BY <1>1, <1>2

\* The fields of a message.
LEMMA MessagesAre ==
  ASSUME NEW m \in Seq(Message)
  PROVE  \A k \in DOMAIN m : m[k] \in Message /\ m[k].id \in Nat /\ m[k].body \in Seq(Nat)
<1>1. ASSUME NEW k \in DOMAIN m
      PROVE  m[k] \in Message /\ m[k].id \in Nat /\ m[k].body \in Seq(Nat)
  <2>1. m[k] \in Message
    BY SeqElement
  <2>2. QED
    BY <2>1 DEF Message
<1>2. QED
  BY <1>1

\* The counter passes the ids of a turn, which increase.
LEMMA PastTurn ==
  ASSUME NEW counter \in Nat, NEW m \in Seq(Message), m # <<>>,
         \A k, l \in DOMAIN m : k < l => m[k].id < m[l].id
  PROVE  /\ Past(counter, IdsOf(m)) \in Nat /\ counter <= Past(counter, IdsOf(m))
         /\ \A k \in DOMAIN m : m[k].id < Past(counter, IdsOf(m))
<1> DEFINE ids == IdsOf(m)
           c == Len(m)
           next == m[c].id + 1
           top == IF counter <= next THEN next ELSE counter
<1>1. c \in Nat /\ c # 0 /\ DOMAIN m = 1 .. c
  BY EmptySeq, LenProperties
<1>2. \A k \in DOMAIN m : m[k] \in Message /\ m[k].id \in Nat
  BY MessagesAre
<1>3. c \in DOMAIN m /\ \A k \in DOMAIN m : k = c \/ k < c
  BY <1>1
<1>4. next \in Nat /\ \A k \in DOMAIN m : m[k].id + 1 <= next
  BY <1>2, <1>3
<1>5. ids \in SUBSET Nat /\ next \in {id + 1 : id \in ids} /\ \A id \in ids : id + 1 <= next
  BY <1>2, <1>3, <1>4 DEF IdsOf
<1> HIDE DEF ids, next, c
<1>6. top \in {counter} \cup {id + 1 : id \in ids} /\ top \in Nat /\ counter <= top /\ next <= top
      /\ \A a \in {counter} \cup {id + 1 : id \in ids} : a <= top
  BY <1>4, <1>5
<1>7. Past(counter, ids) = top
  BY <1>5, <1>6, PastIs
<1>8. \A k \in DOMAIN m : m[k].id < top
  BY <1>2, <1>4, <1>6
<1>9. QED
  BY <1>6, <1>7, <1>8 DEF ids

\* A turn that is hydrated is in flight as the checkpoint has it.
LEMMA HydrateFields ==
  ASSUME NEW s \in Session, NEW m \in Seq(Message), m # <<>>,
         \A k, l \in DOMAIN m : k < l => m[k].id < m[l].id
  PROVE  LET h == HydrateInflight(s, m)
         IN  /\ h \in Session /\ h.state = "Active" /\ h.committed = s.committed
             /\ h.pending = s.pending /\ h.pinned = s.pinned /\ h.turnIndex = s.turnIndex
             /\ StagingAll(h) = m /\ UserHeadsTurn(h) /\ s.nextId <= h.nextId
             /\ \A k \in DOMAIN m : m[k].id < h.nextId
             /\ h.staged = <<>> => \A k \in DOMAIN m : m[k].kind = "user"
<1> DEFINE next == Past(s.nextId, IdsOf(m))
           h == HydrateInflight(s, m)
<1>1. s.nextId \in Nat
  BY DEF Session
<1>2. next \in Nat /\ s.nextId <= next /\ \A k \in DOMAIN m : m[k].id < next
  BY <1>1, PastTurn
<1> HIDE DEF next
<1>3. m[1] \in Message /\ Tail(m) \in Seq(Message) /\ Len(m) \in Nat /\ Len(m) # 0
  BY EmptySeq, LenProperties
<1>4. PICK head, tail :
        /\ head = IF m[1].kind = "user" THEN <<m[1]>> ELSE <<>>
        /\ tail = IF m[1].kind = "user" THEN Tail(m) ELSE m
  OBVIOUS
<1>5. head \in Seq(Message) /\ tail \in Seq(Message) /\ head \o tail = m
  BY <1>3, <1>4
<1>6. h = [s EXCEPT !.userInput = head, !.staged = tail, !.nextId = next, !.state = "Active"]
  BY <1>4 DEF HydrateInflight, next
<1>7. \A i \in DOMAIN head : head[i].kind = "user"
  BY <1>3, <1>4
<1>8. tail = <<>> => \A k \in DOMAIN m : m[k].kind = "user"
  <2>1. tail = <<>> => m[1].kind = "user" /\ Len(Tail(m)) = 0
    BY <1>3, <1>4, EmptySeq
  <2>2. Len(Tail(m)) = Len(m) - 1 /\ DOMAIN m = 1 .. Len(m)
    BY <1>3, LenProperties
  <2>3. tail = <<>> => Len(m) = 1
    BY <1>3, <2>1, <2>2
  <2>4. QED
    BY <2>1, <2>2, <2>3
<1> HIDE DEF h
<1>9. /\ h \in Session /\ h.state = "Active" /\ h.committed = s.committed
      /\ h.pending = s.pending /\ h.pinned = s.pinned /\ h.turnIndex = s.turnIndex
      /\ h.userInput = head /\ h.staged = tail /\ h.nextId = next
  BY <1>2, <1>5, <1>6 DEF Session, SessionState
<1>10. StagingAll(h) = m /\ UserHeadsTurn(h)
  BY <1>5, <1>7, <1>9 DEF StagingAll, UserHeadsTurn
<1>11. QED
  BY <1>2, <1>8, <1>9, <1>10 DEF h

\* It is sound if what the checkpoint has may follow the history, and what is queued
\* may follow that.
LEMMA HydrateKeeps ==
  ASSUME NEW R, NEW s, NEW n \in Nat, SoundBy(R, s, n),
         NEW m \in Seq(Message), m # <<>>, Whole(R, m, s.turnIndex, n), Follows(R, s, m),
         \A k \in DOMAIN m : Precede(R, m[k].body, s.pending)
  PROVE  SoundBy(R, HydrateInflight(s, m), n)
<1> DEFINE h == HydrateInflight(s, m)
           T == Turns(h)
           last == Len(s.committed) + 1
<1>0. s \in Session
  BY DEF SoundBy
<1>1. \A k, l \in DOMAIN m : k < l => m[k].id < m[l].id
  BY DEF Whole
<1>2. /\ h \in Session /\ h.state = "Active" /\ h.committed = s.committed
      /\ h.pending = s.pending /\ h.pinned = s.pinned /\ h.turnIndex = s.turnIndex
      /\ StagingAll(h) = m /\ UserHeadsTurn(h) /\ s.nextId <= h.nextId
      /\ \A k \in DOMAIN m : m[k].id < h.nextId
  BY <1>0, <1>1, HydrateFields
<1> HIDE DEF h
<1>3. s.nextId \in Nat /\ h.nextId \in Nat
  BY <1>0, <1>2 DEF Session
<1>4. /\ Len(s.committed) \in Nat /\ DOMAIN s.committed = 1 .. Len(s.committed)
      /\ DOMAIN T = 1 .. last /\ last = Len(s.committed) + 1
      /\ \A p \in 1 .. Len(s.committed) : T[p] = s.committed[p]
      /\ T[last] = m /\ DOMAIN m = 1 .. Len(m) /\ Len(m) \in Nat
  BY <1>2, TurnsFacts, LenProperties
<1>5. /\ OrderedIds(Turns(s)) /\ OrderedBy(R, Turns(s))
      /\ DOMAIN Turns(s) = 1 .. Len(s.committed) + 1
      /\ \A p \in 1 .. Len(s.committed) : Turns(s)[p] = s.committed[p]
      /\ Chain(R, s.pending) /\ AllBelow(s.pending, <<n + 1>>)
  BY <1>0, TurnsFacts DEF SoundBy, IdsInOrder, InputsBy
<1>6. /\ \A p \in DOMAIN s.committed : \A i \in DOMAIN s.committed[p] :
           /\ s.committed[p][i].id \in Nat
           /\ s.committed[p][i].id < s.nextId
           /\ Precede(R, s.committed[p][i].body, s.pending)
           /\ AllBelow(s.committed[p][i].body, <<n + 1>>)
           /\ Chain(R, s.committed[p][i].body)
           /\ \A l \in DOMAIN s.pinned : s.committed[p][i].id # s.pinned[l].id
      /\ \A l \in DOMAIN s.pinned : s.pinned[l].id < s.nextId /\ s.pinned[l].id \in Nat
  <2>1. \A p \in DOMAIN s.committed : \A i \in DOMAIN s.committed[p] :
           /\ s.committed[p][i].id \in Nat
           /\ s.committed[p][i].id < s.nextId
           /\ Precede(R, s.committed[p][i].body, s.pending)
           /\ AllBelow(s.committed[p][i].body, <<n + 1>>)
    BY SoundFollows DEF Message
  <2>2. \A p \in DOMAIN s.committed : p \in DOMAIN Turns(s) /\ Turns(s)[p] = s.committed[p]
    BY <1>4, <1>5
  <2>3. \A p \in DOMAIN s.committed : \A i \in DOMAIN s.committed[p] :
           /\ Chain(R, s.committed[p][i].body)
           /\ \A l \in DOMAIN s.pinned : s.committed[p][i].id # s.pinned[l].id
    BY <1>5, <2>2 DEF OrderedBy, SoundBy, IdsInOrder
  <2>4. \A l \in DOMAIN s.pinned : s.pinned[l].id < s.nextId
    BY DEF SoundBy, IdsInOrder
  <2>5. s.pinned \in Seq(Message)
    BY <1>0 DEF Session
  <2>6. \A l \in DOMAIN s.pinned : s.pinned[l].id \in Nat
    BY <2>5, MessagesAre
  <2>7. QED
    BY <2>1, <2>3, <2>4, <2>6
<1>14. \A p \in DOMAIN T : \/ p = last
                           \/ /\ p \in DOMAIN s.committed /\ T[p] = s.committed[p] /\ p # last
                              /\ p \in DOMAIN Turns(s) /\ Turns(s)[p] = s.committed[p]
  BY <1>4, <1>5
<1> HIDE DEF T, last
<1>7. OrderedIds(T) /\ OrderedBy(R, T)
  <2>1. ASSUME NEW p \in DOMAIN T, NEW q \in DOMAIN T, NEW i \in DOMAIN T[p], NEW j \in DOMAIN T[q],
               Precedes(p, i, q, j)
        PROVE  T[p][i].id < T[q][j].id /\ Precede(R, T[p][i].body, T[q][j].body)
    <3>1. CASE p = last
      <4>1. q = last /\ i < j
        BY <1>4, <2>1, <3>1 DEF Precedes
      <4>2. QED
        BY <1>4, <2>1, <3>1, <4>1 DEF Whole
    <3>2. CASE p # last /\ q = last
      BY <1>4, <1>14, <2>1, <3>2 DEF Follows
    <3>3. CASE p # last /\ q # last
      BY <1>5, <1>14, <2>1, <3>3 DEF OrderedIds, OrderedBy
    <3>4. QED
      BY <3>1, <3>2, <3>3
  <2>2. \A p \in DOMAIN T : \A i \in DOMAIN T[p] : Chain(R, T[p][i].body)
    BY <1>4, <1>6, <1>14 DEF Whole
  <2>3. QED
    BY <2>1, <2>2 DEF OrderedIds, OrderedBy
<1>8. \A k \in DOMAIN m : m[k].id \in Nat
  BY MessagesAre
<1>9. IdsInOrder(h)
  <2>1. \A p \in DOMAIN T : \A i \in DOMAIN T[p] :
           T[p][i].id < h.nextId /\ \A l \in DOMAIN h.pinned : T[p][i].id # h.pinned[l].id
    <3>1. ASSUME NEW p \in DOMAIN T, NEW i \in DOMAIN T[p], p = last
          PROVE  T[p][i].id < h.nextId /\ \A l \in DOMAIN h.pinned : T[p][i].id # h.pinned[l].id
      BY <1>2, <1>4, <3>1 DEF Follows
    <3>2. ASSUME NEW p \in DOMAIN s.committed, NEW i \in DOMAIN s.committed[p]
          PROVE  /\ s.committed[p][i].id < h.nextId
                 /\ \A l \in DOMAIN h.pinned : s.committed[p][i].id # h.pinned[l].id
      BY <1>2, <1>3, <1>6
    <3>3. QED
      BY <1>14, <3>1, <3>2
  <2>2. \A l \in DOMAIN h.pinned : h.pinned[l].id < h.nextId
    BY <1>2, <1>3, <1>6
  <2>3. QED
    BY <1>7, <2>1, <2>2 DEF IdsInOrder, T
<1>10. InputsBy(R, h, n)
  <2>1. \A p \in DOMAIN T : \A i \in DOMAIN T[p] :
           Precede(R, T[p][i].body, h.pending) /\ AllBelow(T[p][i].body, <<n + 1>>)
    BY <1>2, <1>4, <1>6, <1>14 DEF Whole
  <2>2. QED
    BY <1>2, <1>5, <1>7, <2>1 DEF InputsBy, T
<1>11. IdleIsClean(h) /\ StagingIsCurrent(h)
  BY <1>2 DEF IdleIsClean, StagingIsCurrent, Whole
<1>12. TurnNumbersCoverPositions(h) /\ FrozenTurnsAnswered(h) /\ NoEmptyTurn(h)
  BY <1>2 DEF SoundBy, TurnNumbersCoverPositions, FrozenTurnsAnswered, NoEmptyTurn
<1>13. QED
  BY <1>2, <1>9, <1>10, <1>11, <1>12 DEF SoundBy, h

-----------------------------------------------------------------------------
(* What a step adds to the session.                                        *)

\* r goes on from s: its counter is not behind, and what it has staged was staged in s
\* or is new, with an id of its own and at most the inputs that were queued.
GoesOn(r, s) ==
    /\ s.nextId <= r.nextId
    /\ \A k \in DOMAIN StagingAll(r) :
          \/ \E j \in DOMAIN StagingAll(s) : StagingAll(r)[k] = StagingAll(s)[j]
          \/ /\ s.nextId <= StagingAll(r)[k].id
             /\ StagingAll(r)[k].body = <<>> \/ StagingAll(r)[k].body = s.pending

\* Beginning with is transitive.
LEMMA BeginsTransitive ==
  ASSUME NEW p \in Seq(Message), NEW q \in Seq(Message), NEW r \in Seq(Message),
         Begins(p, q), Begins(q, r)
  PROVE  Begins(p, r)
<1>1. Len(p) \in Nat /\ Len(q) \in Nat /\ Len(r) \in Nat
  BY LenProperties
<1>2. QED
  BY <1>1 DEF Begins

\* What is staged is added at the end.
LEMMA ExtendsBegins ==
  ASSUME NEW s \in Session, NEW r \in Session, NEW new \in Seq(Message), Extends(r, s, new)
  PROVE  s.nextId <= r.nextId /\ Begins(StagingAll(s), StagingAll(r))
<1>1. PICK a \in Seq(Message) : a = StagingAll(s)
  BY TurnsFacts
<1>2. StagingAll(r) = a \o new /\ s.nextId <= r.nextId
  BY <1>1 DEF Extends
<1>3. /\ Len(a) \in Nat /\ Len(new) \in Nat /\ Len(a \o new) = Len(a) + Len(new)
      /\ \A i \in 1 .. Len(a) : (a \o new)[i] = a[i]
  BY ConcatParts
<1>4. Begins(a, a \o new)
  BY <1>3 DEF Begins
<1>5. QED
  BY <1>1, <1>2, <1>4

\* What is staged goes on from what was.
LEMMA ExtendsGoesOn ==
  ASSUME NEW s \in Session, NEW r \in Session, NEW new \in Seq(Message), Extends(r, s, new),
         \A k \in DOMAIN new : new[k].body = <<>> \/ new[k].body = s.pending
  PROVE  GoesOn(r, s)
<1>1. PICK a \in Seq(Message) : a = StagingAll(s)
  BY TurnsFacts
<1>2. /\ StagingAll(r) = a \o new /\ s.nextId <= r.nextId
      /\ \A k \in DOMAIN new : s.nextId <= new[k].id
  BY <1>1 DEF Extends
<1>3. /\ DOMAIN a = 1 .. Len(a) /\ DOMAIN new = 1 .. Len(new)
      /\ DOMAIN (a \o new) = 1 .. Len(a) + Len(new)
      /\ \A i \in 1 .. Len(a) + Len(new) :
              \/ i \in 1 .. Len(a) /\ (a \o new)[i] = a[i]
              \/ i - Len(a) \in 1 .. Len(new) /\ (a \o new)[i] = new[i - Len(a)]
  BY ConcatParts
<1>4. QED
  BY <1>1, <1>2, <1>3 DEF GoesOn

\* A turn that is frozen keeps all it had staged, in its place.
LEMMA InterruptGrows ==
  ASSUME NEW s \in Session, NEW closing \in BOOLEAN
  PROVE  LET r == InterruptTurn(s, closing)
         IN  /\ s.nextId <= r.nextId
             /\ s.staged # <<>> =>
                  \E full \in Seq(Message) :
                     r.committed = Append(s.committed, full) /\ Begins(StagingAll(s), full)
<1> DEFINE r == InterruptTurn(s, closing)
           u == PatchDanglingToolCalls(s)
           t == Stage(u, Notice(closing), NoCall, <<>>)
<1>1. CASE s.staged = <<>>
  <2>1. r = ClearStaging(s)
    BY <1>1 DEF InterruptTurn, RollbackTurn
  <2>2. ClearStaging(s).nextId = s.nextId /\ s.nextId \in Nat
    BY ClearStagingFields DEF Session
  <2>3. QED
    BY <2>1, <2>2, <1>1
<1>2. CASE s.staged # <<>>
  <2>1. r = PushTurn(t)
    BY <1>2 DEF InterruptTurn
  <2>2. /\ u \in Session /\ u.committed = s.committed
        /\ Extends(u, s, PatchOutputs(s)) /\ PatchOutputs(s) \in Seq(Message)
    BY PatchFields, PatchOutputsFacts
  <2>3. Notice(closing) \in Kind /\ NoCall \in CallIds \cup {NoCall} /\ <<>> \in Seq(Nat)
    BY EmptySeq DEF Notice, Kind
  <2>4. PICK kind \in Kind : kind = Notice(closing)
    BY <2>3
  <2>5. LET tt == Stage(u, kind, NoCall, <<>>)
            m == NewMessage(u, kind, NoCall, <<>>)
        IN  /\ tt \in Session /\ <<m>> \in Seq(Message)
            /\ tt.committed = u.committed /\ Extends(tt, u, <<m>>)
    BY <2>2, <2>3, StageFields
  <2>6. PICK new \in Seq(Message) : t \in Session /\ t.committed = u.committed /\ Extends(t, u, new)
    BY <2>4, <2>5
  <2> HIDE DEF u, t
  <2>7. /\ s.nextId <= u.nextId /\ Begins(StagingAll(s), StagingAll(u))
        /\ u.nextId <= t.nextId /\ Begins(StagingAll(u), StagingAll(t))
    BY <2>2, <2>6, ExtendsBegins
  <2>8. /\ StagingAll(s) \in Seq(Message) /\ StagingAll(u) \in Seq(Message)
        /\ StagingAll(t) \in Seq(Message)
    BY <2>2, <2>6, TurnsFacts
  <2>9. Begins(StagingAll(s), StagingAll(t))
    BY <2>7, <2>8, BeginsTransitive
  <2>10. r.committed = Append(t.committed, StagingAll(t)) /\ r.nextId = t.nextId
    BY <2>1, <2>6, PushTurnFields
  <2>11. s.nextId \in Nat /\ u.nextId \in Nat /\ t.nextId \in Nat
    BY <2>2, <2>6 DEF Session
  <2>12. QED
    BY <2>2, <2>6, <2>7, <2>8, <2>9, <2>10, <2>11
<1>3. QED
  BY <1>1, <1>2

\* r is s with its turn ended: in the history with all it had staged, or rolled back
\* when it had nothing but the user's message.
Ended(r, s) ==
    /\ r \in Session /\ r.state = "Idle" /\ s.nextId <= r.nextId /\ r.pinned = s.pinned
    /\ r.pending = s.pending \/ r.pending = <<>>
    /\ \/ /\ r.turnIndex = s.turnIndex + 1
          /\ \E full \in Seq(Message) :
                r.committed = Append(s.committed, full) /\ Begins(StagingAll(s), full)
       \/ r.turnIndex = s.turnIndex /\ r.committed = s.committed /\ s.staged = <<>>

\* interrupt_turn ends the turn.
LEMMA InterruptEnds ==
  ASSUME NEW s \in Session, NEW closing \in BOOLEAN
  PROVE  Ended(InterruptTurn(s, closing), s)
<1> DEFINE r == InterruptTurn(s, closing)
<1>1. /\ r \in Session /\ r.state = "Idle" /\ r.pinned = s.pinned /\ r.pending = s.pending
      /\ s.staged = <<>> => r.turnIndex = s.turnIndex /\ r.committed = s.committed
      /\ s.staged # <<>> => r.turnIndex = s.turnIndex + 1
  BY InterruptFields
<1>2. /\ s.nextId <= r.nextId
      /\ s.staged # <<>> =>
           \E full \in Seq(Message) :
              r.committed = Append(s.committed, full) /\ Begins(StagingAll(s), full)
  BY InterruptGrows
<1> HIDE DEF r
<1>3. Ended(r, s)
  BY <1>1, <1>2 DEF Ended
<1>4. QED
  BY <1>3 DEF r

\* What is staged before the end of a turn, or dropped from the queue, makes no difference.
LEMMA EndedAfter ==
  ASSUME NEW s \in Session, NEW u \in Session, NEW r, Ended(r, u),
         u.committed = s.committed, u.turnIndex = s.turnIndex, u.pinned = s.pinned,
         u.pending = s.pending \/ u.pending = <<>>, s.nextId <= u.nextId,
         Begins(StagingAll(s), StagingAll(u)), u.staged = <<>> => s.staged = <<>>
  PROVE  Ended(r, s)
<1>1. s.nextId \in Nat /\ u.nextId \in Nat /\ (r \in Session => r.nextId \in Nat)
  BY DEF Session
<1>2. s.nextId <= r.nextId
  BY <1>1 DEF Ended
<1>3. CASE u.staged = <<>> /\ r.turnIndex = u.turnIndex /\ r.committed = u.committed
  BY <1>2, <1>3 DEF Ended
<1>4. CASE /\ r.turnIndex = u.turnIndex + 1
           /\ \E full \in Seq(Message) :
                r.committed = Append(u.committed, full) /\ Begins(StagingAll(u), full)
  <2>1. PICK full \in Seq(Message) :
           r.committed = Append(u.committed, full) /\ Begins(StagingAll(u), full)
    BY <1>4
  <2>2. StagingAll(s) \in Seq(Message) /\ StagingAll(u) \in Seq(Message)
    BY TurnsFacts
  <2>3. Begins(StagingAll(s), full)
    BY <2>1, <2>2, BeginsTransitive
  <2>4. QED
    BY <1>2, <1>4, <2>1, <2>3 DEF Ended
<1>5. QED
  BY <1>3, <1>4 DEF Ended

\* Messages begin with themselves.
LEMMA BeginsItself ==
  ASSUME NEW m \in Seq(Message)
  PROVE  Begins(m, m)
BY LenProperties DEF Begins

\* The wrap-up of a cancelled or failed turn ends it.
LEMMA FreezeEnds ==
  ASSUME NEW s \in Session, NEW tools \in Seq(Tool), NEW reason, NEW closing \in BOOLEAN
  PROVE  Ended(Freeze(s, tools, reason, closing), s)
<1> DEFINE t == Stubbed(s, reason)
           u == StageItems(t, Results(tools))
           r == InterruptTurn(u, closing)
<1>1. Freeze(s, tools, reason, closing) = r
  BY StageToolResultsIs DEF Freeze, Stubbed
<1>2. /\ t \in Session /\ t.committed = s.committed /\ t.turnIndex = s.turnIndex
      /\ t.pinned = s.pinned /\ t.pending = s.pending
      /\ t.staged = <<>> => s.staged = <<>>
  BY StubbedFields
<1>3. s.nextId <= t.nextId /\ Begins(StagingAll(s), StagingAll(t))
  <2>1. "text" \in Kind /\ NoCall \in CallIds \cup {NoCall} /\ <<>> \in Seq(Nat)
    BY EmptySeq DEF Kind
  <2>2. PICK tt \in Session, new \in Seq(Message) :
           tt = Stage(s, "text", NoCall, <<>>) /\ Extends(tt, s, new)
    <3>1. LET r2 == Stage(s, "text", NoCall, <<>>)
              m == NewMessage(s, "text", NoCall, <<>>)
          IN  r2 \in Session /\ <<m>> \in Seq(Message) /\ Extends(r2, s, <<m>>)
      BY <2>1, StageFields
    <3>2. QED
      BY <3>1
  <2>3. s.nextId <= tt.nextId /\ Begins(StagingAll(s), StagingAll(tt))
    BY <2>2, ExtendsBegins
  <2>4. s.nextId <= s.nextId /\ Begins(StagingAll(s), StagingAll(s))
    <3>1. s.nextId \in Nat /\ StagingAll(s) \in Seq(Message)
      BY TurnsFacts DEF Session
    <3>2. QED
      BY <3>1, BeginsItself
  <2>5. t = tt \/ t = s
    BY <2>2 DEF Stubbed
  <2>6. QED
    BY <2>3, <2>4, <2>5
<1>4. Results(tools) \in Seq(Item)
  BY ResultsFacts
<1> HIDE DEF t
<1>5. /\ u \in Session /\ u.committed = t.committed /\ u.turnIndex = t.turnIndex
      /\ u.pinned = t.pinned /\ u.pending = t.pending
      /\ Extends(u, t, NewItems(t, Results(tools)))
      /\ u.staged = t.staged \o NewItems(t, Results(tools))
      /\ NewItems(t, Results(tools)) \in Seq(Message)
  BY <1>2, <1>4, StageItemsFields, NewItemsFacts
<1>6. t.nextId <= u.nextId /\ Begins(StagingAll(t), StagingAll(u))
  BY <1>2, <1>5, ExtendsBegins
<1>7. u.staged = <<>> => t.staged = <<>>
  <2>1. t.staged \in Seq(Message)
    BY <1>2 DEF Session
  <2>2. t.staged \o NewItems(t, Results(tools)) = <<>> => t.staged = <<>>
    BY <1>5, <2>1, ConcatEqualIffEmpty
  <2>3. QED
    BY <1>5, <2>2
<1> HIDE DEF u
<1>8. Ended(r, u)
  BY <1>5, InterruptEnds
<1> HIDE DEF r
<1>9. Ended(r, t)
  BY <1>2, <1>5, <1>6, <1>7, <1>8, EndedAfter
<1>10. Ended(r, s)
  BY <1>2, <1>3, <1>9, EndedAfter
<1>11. QED
  BY <1>1, <1>10

\* So does the cancellation, which drops the queue first.
LEMMA CancelEnds ==
  ASSUME NEW s \in Session, NEW tools \in Seq(Tool), NEW reason, NEW closing \in BOOLEAN
  PROVE  Ended(Freeze(ClearPending(s), tools, reason, closing), s)
<1> DEFINE c == ClearPending(s)
           r == Freeze(c, tools, reason, closing)
<1>1. /\ c \in Session /\ c.committed = s.committed /\ c.turnIndex = s.turnIndex
      /\ c.pinned = s.pinned /\ c.pending = <<>> /\ c.staged = s.staged
      /\ StagingAll(c) = StagingAll(s)
  BY ClearPendingFields DEF SameTurn, StagingAll
<1>2. c.nextId = s.nextId /\ s.nextId \in Nat
  BY DEF ClearPending, Session
<1> HIDE DEF c
<1>3. Ended(r, c)
  BY <1>1, FreezeEnds
<1> HIDE DEF r
<1>4. Begins(StagingAll(s), StagingAll(c))
  BY <1>1, TurnsFacts, BeginsItself
<1>5. s.nextId <= c.nextId
  BY <1>2
<1>6. Ended(r, s)
  BY <1>1, <1>3, <1>4, <1>5, EndedAfter
<1>7. QED
  BY <1>6 DEF r, c

\* So does the commit.
LEMMA CommitEnds ==
  ASSUME NEW s \in Session
  PROVE  Ended(CommitTurn(s), s)
<1> DEFINE r == CommitTurn(s)
<1>1. /\ r \in Session /\ r.state = "Idle" /\ r.pending = s.pending /\ r.pinned = s.pinned
      /\ StagingAll(s) = <<>> => r.turnIndex = s.turnIndex /\ r.committed = s.committed
      /\ StagingAll(s) # <<>> => /\ r.turnIndex = s.turnIndex + 1
                                 /\ r.committed = Append(s.committed, StagingAll(s))
  BY CommitFields
<1>2. r.nextId = s.nextId /\ s.nextId \in Nat
  BY PushTurnFields DEF CommitTurn, Session
<1>3. StagingAll(s) \in Seq(Message) /\ Begins(StagingAll(s), StagingAll(s))
  BY TurnsFacts, BeginsItself
<1>4. StagingAll(s) = <<>> => s.staged = <<>>
  <2>1. s.staged \in Seq(Message) /\ s.userInput \in Seq(Message)
    BY DEF Session
  <2>2. QED
    BY <2>1, ConcatEqualIffEmpty DEF StagingAll
<1> HIDE DEF r
<1>5. s.nextId <= r.nextId
  BY <1>2
<1>6. Ended(r, s)
  BY <1>1, <1>3, <1>4, <1>5 DEF Ended
<1>7. QED
  BY <1>6 DEF r

-----------------------------------------------------------------------------
(* What a step of the loop does to the session and the rows.               *)

\* What it stages is new, what it queues is the query it took, and outputs that are
\* staged for the next request are in the checkpoint.
Adds ==
    /\ GoesOn(session', session)
    /\ \/ session'.pending = session.pending \/ session'.pending = <<>>
       \/ /\ user.queue # <<>> /\ Head(user.queue).kind = "query"
          /\ session'.pending = Append(session.pending, Head(user.queue).input)
    /\ \A k \in DOMAIN StagingAll(session') : StagingAll(session')[k].kind = "output" =>
          \/ \E j \in DOMAIN StagingAll(session) : StagingAll(session')[k] = StagingAll(session)[j]
          \/ disk'.checkpoint = Checkpoint(session') \/ InflightMayFail

\* The history changes with the number of the turn only; a row that is written has the
\* session as it is then, or as it is before the history is compacted.
Moves ==
    /\ \/ session'.turnIndex = session.turnIndex + 1
       \/ /\ session'.turnIndex = session.turnIndex /\ session'.committed = session.committed
          /\ session'.pinned = session.pinned
    /\ \/ disk'.saved = disk.saved
       \/ disk'.saved = session' /\ session'.state = "Idle"
       \/ /\ disk'.saved = CommitTurn(session) /\ StagingAll(session) # <<>>
          /\ session'.state = "Idle" /\ session'.nextId >= CommitTurn(session).nextId
          /\ session'.pending = session.pending
    /\ \/ disk'.checkpoint = disk.checkpoint
       \/ disk'.checkpoint = NoCheckpoint /\ session'.state = "Idle"
       \/ disk'.checkpoint = Checkpoint(session') /\ session'.staged # <<>>

\* A turn in flight is headed by what the user said.
Headed == session.state # "Idle" => session.userInput # <<>>

\* A step that stages nothing adds nothing.
LEMMA AddsNothing ==
  ASSUME session \in Session, session.nextId <= session'.nextId,
         StagingAll(session') = StagingAll(session) \/ StagingAll(session') = <<>>,
         session'.pending = session.pending \/ session'.pending = <<>>
  PROVE  Adds
<1>1. PICK a \in Seq(Message) : a = StagingAll(session)
  BY TurnsFacts
<1>2. PICK b : b = StagingAll(session')
  OBVIOUS
<1>3. \A k \in DOMAIN b : \E j \in DOMAIN a : b[k] = a[j]
  <2>1. CASE b = a
    BY <2>1
  <2>2. CASE b = <<>>
    BY <2>2
  <2>3. QED
    BY <1>1, <1>2, <2>1, <2>2
<1>4. GoesOn(session', session)
  BY <1>1, <1>2, <1>3 DEF GoesOn
<1>5. QED
  BY <1>1, <1>2, <1>3, <1>4 DEF Adds

\* A step that stages items adds them, and outputs only with a checkpoint.
LEMMA AddsItems ==
  ASSUME session \in Session, session' \in Session,
         session'.pending = session.pending \/ session'.pending = <<>>,
         NEW new \in Seq(Message), Extends(session', session, new),
         \A k \in DOMAIN new : new[k].body = <<>> \/ new[k].body = session.pending,
         \/ \A k \in DOMAIN new : new[k].kind # "output"
         \/ disk'.checkpoint = Checkpoint(session') \/ InflightMayFail
  PROVE  Adds
<1>1. PICK t \in Session : t = session'
  OBVIOUS
<1>2. Extends(t, session, new)
  BY <1>1
<1>3. GoesOn(t, session)
  BY <1>2, ExtendsGoesOn
<1>4. PICK a \in Seq(Message) : a = StagingAll(session)
  BY TurnsFacts
<1>5. StagingAll(t) = a \o new
  BY <1>2, <1>4 DEF Extends
<1>6. /\ DOMAIN a = 1 .. Len(a) /\ DOMAIN new = 1 .. Len(new)
      /\ DOMAIN (a \o new) = 1 .. Len(a) + Len(new)
      /\ \A i \in 1 .. Len(a) + Len(new) :
              \/ i \in 1 .. Len(a) /\ (a \o new)[i] = a[i]
              \/ i - Len(a) \in 1 .. Len(new) /\ (a \o new)[i] = new[i - Len(a)]
  BY ConcatParts
<1>7. \A k \in DOMAIN (a \o new) :
         \/ \E j \in DOMAIN a : (a \o new)[k] = a[j]
         \/ \E j \in DOMAIN new : (a \o new)[k] = new[j]
  BY <1>6
<1>8. QED
  BY <1>1, <1>3, <1>4, <1>5, <1>7 DEF Adds

\* The end of a turn.
LEMMA EndedMoves ==
  ASSUME NEW R, session \in Session, NEW n \in Nat, SoundBy(R, session', n),
         Ended(session', session)
  PROVE  /\ Adds /\ session'.state = "Idle" /\ StagingAll(session') = <<>>
         /\ \/ session'.turnIndex = session.turnIndex + 1
            \/ /\ session'.turnIndex = session.turnIndex /\ session'.committed = session.committed
               /\ session'.pinned = session.pinned
<1>1. PICK t : t = session'
  OBVIOUS
<1>2. t \in Session /\ t.state = "Idle" /\ SoundBy(R, t, n)
  BY <1>1 DEF Ended
<1>3. StagingAll(t) = <<>>
  BY <1>2, IdleHasNothing
<1>4. session.nextId <= session'.nextId
      /\ (session'.pending = session.pending \/ session'.pending = <<>>)
  BY DEF Ended
<1>5. Adds
  BY <1>1, <1>3, <1>4, AddsNothing
<1>6. QED
  BY <1>1, <1>2, <1>3, <1>5 DEF Ended

\* A cancellation ends the turn or leaves the history.
LEMMA CancelMoves ==
  ASSUME NEW R, TypeOK, NEW n \in Nat, SoundBy(R, session, n), CancelTheTurn
  PROVE  Adds /\ Moves /\ session'.state = "Idle"
<1>0. session \in Session /\ disk \in DiskType /\ turn.tools \in Seq(Tool)
  BY Types
<1>1. /\ SoundBy(R, session', n) /\ session'.state = "Idle"
      /\ disk'.checkpoint \in {disk.checkpoint, NoCheckpoint}
      /\ disk'.saved = session' \/ disk'.saved = disk.saved
  BY CancelFacts
<1>2. CASE InFlight(session)
  <2>1. session' = Freeze(ClearPending(session), Salvage(turn.tools), CancelReason, FALSE)
    BY <1>2 DEF CancelTheTurn
  <2>2. PICK tools, why, closing :
          /\ tools = Salvage(turn.tools) /\ closing \in BOOLEAN
          /\ session' = Freeze(ClearPending(session), tools, why, closing)
    BY Zenon, <2>1
  <2>3. tools \in Seq(Tool)
    BY <1>0, <2>2, SalvageFacts
  <2>4. Ended(session', session)
    BY <1>0, <2>2, <2>3, CancelEnds
  <2>5. QED
    BY <1>0, <1>1, <2>4, EndedMoves DEF Moves
<1>3. CASE ~InFlight(session)
  <2>1. session' = session
    BY <1>3 DEF CancelTheTurn
  <2>2. session.nextId <= session.nextId
    BY <1>0 DEF Session
  <2>3. Adds
    BY <1>0, <2>1, <2>2, AddsNothing
  <2>4. QED
    BY <1>1, <2>1, <2>3 DEF Moves
<1>4. QED
  BY <1>2, <1>3

\* A failed turn ends, saved or not.
LEMMA FailureMoves ==
  ASSUME NEW R, TypeOK, NEW n \in Nat, SoundBy(R, session, n), session.state # "Idle",
         FinalizeFailure
  PROVE  Adds /\ Moves /\ session'.state = "Idle"
<1>0. session \in Session /\ disk \in DiskType /\ turn.tools \in Seq(Tool)
  BY Types
<1>1. /\ SoundBy(R, session', n) /\ session'.state = "Idle"
      /\ disk'.checkpoint \in {disk.checkpoint, NoCheckpoint}
  BY FailureFacts
<1>2. PICK reason, closing :
         closing \in BOOLEAN /\ session' = Freeze(session, turn.tools, reason, closing)
  <2>1. PICK reason : reason = IF loop.reason = "none" THEN "other" ELSE loop.reason
    OBVIOUS
  <2>2. \E closing \in IF reason = "maxIterations" THEN BOOLEAN ELSE {FALSE} :
           session' = Freeze(session, turn.tools, reason, closing)
    BY <2>1 DEF FinalizeFailure
  <2>3. QED
    BY <2>2
<1>3. Ended(session', session)
  BY <1>0, <1>2, FreezeEnds
<1>4. disk'.saved = session' \/ disk'.saved = disk.saved
  BY DEF FinalizeFailure, Saves, SavedOver
<1>5. QED
  BY <1>0, <1>1, <1>3, <1>4, EndedMoves DEF Moves

\* A turn that is done ends.
LEMMA CommitMoves ==
  ASSUME NEW R, TypeOK, NEW n \in Nat, SoundBy(R, session, n), session.userInput # <<>>,
         CommitDone
  PROVE  Adds /\ Moves /\ session'.state = "Idle"
<1> DEFINE c == CommitTurn(session)
<1>0. session \in Session /\ disk \in DiskType
  BY Types
<1>1. /\ SoundBy(R, session', n) /\ session'.state = "Idle" /\ session' \in Session
      /\ session' \in Boundaries(c)
      /\ disk'.checkpoint \in {disk.checkpoint, NoCheckpoint}
  BY CommitDoneFacts
<1>2. StagingAll(session) # <<>>
  <2>1. session.staged \in Seq(Message) /\ session.userInput \in Seq(Message)
    BY <1>0 DEF Session
  <2>2. QED
    BY <2>1, ConcatEqualIffEmpty DEF StagingAll
<1>3. /\ c \in Session /\ c.state = "Idle" /\ c.turnIndex = session.turnIndex + 1
      /\ c.pending = session.pending /\ SoundBy(R, c, n)
  BY <1>0, <1>2, CommitFields, CommitKeeps
<1>4. c.nextId = session.nextId /\ session.nextId \in Nat
  BY <1>0, <1>2, PushTurnFields DEF CommitTurn, Session
<1>5. disk'.saved = session' \/ disk'.saved = disk.saved \/ disk'.saved = c
  <2>1. PICK boundary \in Boundaries(c), saved \in Saves(c), checkpoint \in InflightWrites(NoCheckpoint) :
          /\ session' = boundary
          /\ disk' \in {[saved |-> last, checkpoint |-> checkpoint] :
                          last \in Resaved(c, boundary, saved)}
    BY DEF CommitDone
  <2>2. PICK last \in Resaved(c, boundary, saved) :
          disk' = [saved |-> last, checkpoint |-> checkpoint]
    BY <2>1
  <2> HIDE DEF c
  <2>3. saved = c \/ saved = disk.saved
    BY <2>1 DEF Saves, SavedOver
  <2>4. last = boundary \/ last = saved
    BY <2>2 DEF Resaved, SavedOver
  <2>5. QED
    BY <2>1, <2>2, <2>3, <2>4
<1> HIDE DEF c
<1>6. PICK b : b = session'
  OBVIOUS
<1>7. b \in Session /\ b.state = "Idle" /\ SoundBy(R, b, n) /\ b \in Boundaries(c)
  BY <1>1, <1>6
<1>8. c.nextId <= b.nextId /\ b.turnIndex = c.turnIndex /\ b.pending = c.pending
  BY <1>3, <1>7, BoundaryFacts
<1>9. StagingAll(b) = <<>>
  BY <1>7, IdleHasNothing
<1>10. Adds
  BY <1>0, <1>3, <1>4, <1>6, <1>8, <1>9, AddsNothing
<1>11. b.nextId >= c.nextId
  BY <1>4, <1>7, <1>8 DEF Session
<1>12. QED
  BY <1>1, <1>2, <1>3, <1>5, <1>6, <1>8, <1>10, <1>11 DEF Moves, c

\* The end of a batch stages outputs, and takes a checkpoint of them.
LEMMA FinishAdds ==
  ASSUME TypeOK, NEW tools \in Seq(Tool), FinishTools(tools)
  PROVE  Adds
<1>1. session \in Session
  BY Types
<1>2. /\ session' = StageItems(session, Results(tools)) /\ Results(tools) \in Seq(Item)
      /\ session'.pending = session.pending
  BY FinishFacts
<1>3. PICK items \in Seq(Item) : session' = StageItems(session, items)
  BY <1>2
<1>4. LET r == StageItems(session, items)
      IN  r \in Session /\ Extends(r, session, NewItems(session, items))
  BY <1>1, StageItemsFields
<1>5. /\ NewItems(session, items) \in Seq(Message)
      /\ \A k \in DOMAIN NewItems(session, items) : NewItems(session, items)[k].body = <<>>
  BY <1>1, NewItemsFacts
<1>6. disk'.checkpoint = Checkpoint(session') \/ InflightMayFail
  BY DEF FinishTools, InflightWrites
<1>7. PICK new \in Seq(Message) :
        /\ session' \in Session /\ Extends(session', session, new)
        /\ \A k \in DOMAIN new : new[k].body = <<>>
  BY <1>3, <1>4, <1>5
<1>8. QED
  BY <1>1, <1>2, <1>6, <1>7, AddsItems

\* A response is staged, or nothing of it is.
LEMMA ResolveAdds ==
  ASSUME TypeOK, turn.response \in Response, ResolveResponse
  PROVE  Adds
<1> DEFINE items == Blocks(turn.response)
           new == NewItems(session, items)
           t == StageItems(session, items)
<1>1. session \in Session
  BY Types
<1>2. /\ items \in Seq(Item) /\ new \in Seq(Message)
      /\ SameTurn(session', session) /\ session'.pending = session.pending
      /\ \/ session' = t
         \/ /\ session' = TruncateStaging(t, Len(session.staged))
            /\ session'.staged = session.staged
  BY ResolveSession
<1>3. \A i \in DOMAIN items : items[i].kind # "output"
  <2>1. PICK h \in 0 .. 1 :
          /\ Len(items) = h + Len(turn.response.calls)
          /\ \A i \in 1 .. h : items[i].kind \in {"text", "reasoning"}
          /\ \A k \in 1 .. Len(turn.response.calls) : items[h + k].kind = "call"
    BY BlocksFacts
  <2>2. turn.response.calls \in Seq(CallIds)
    BY BlocksFacts
  <2> HIDE DEF items
  <2>3. Len(turn.response.calls) \in Nat /\ DOMAIN items = 1 .. Len(items)
    BY <1>2, <2>2, LenProperties
  <2>4. \A i \in DOMAIN items : i \in 1 .. h \/ i - h \in 1 .. Len(turn.response.calls)
    BY <2>1, <2>3
  <2>5. \A i \in DOMAIN items : h + (i - h) = i
    BY <2>1, <2>3
  <2>6. QED
    BY <2>1, <2>4, <2>5
<1> HIDE DEF items
<1>4. /\ DOMAIN new = DOMAIN items
      /\ \A k \in DOMAIN new : new[k].body = <<>> /\ new[k].kind = items[k].kind
  BY <1>1, <1>2, NewItemsFacts
<1>5. t \in Session /\ Extends(t, session, new)
  BY <1>1, <1>2, StageItemsFields
<1>6. session.nextId <= t.nextId
  BY <1>5 DEF Extends
<1> HIDE DEF t, new
<1>7. CASE session' = t
  <2>1. \A k \in DOMAIN new : new[k].kind # "output"
    BY <1>3, <1>4
  <2>2. QED
    BY <1>1, <1>2, <1>4, <1>5, <1>7, <2>1, AddsItems
<1>8. CASE session' = TruncateStaging(t, Len(session.staged)) /\ session'.staged = session.staged
  <2>1. session'.nextId = t.nextId
    BY <1>5, <1>8 DEF TruncateStaging, Session
  <2>2. StagingAll(session') = StagingAll(session)
    BY <1>2, <1>8 DEF StagingAll, SameTurn
  <2>3. QED
    BY <1>1, <1>2, <1>6, <2>1, <2>2, AddsNothing
<1>9. QED
  BY <1>2, <1>7, <1>8

\* Steering stages the queue.
LEMMA SendAdds ==
  ASSUME TypeOK, CanStage(session), SendRequest
  PROVE  Adds
<1>1. session \in Session /\ session.nextId <= session.nextId
  BY Types DEF Session
<1>2. session' = DrainPendingIntoTurn(session) /\ session' \in Session /\ session'.pending = <<>>
  BY SendRequestFacts DEF SameTurn
<1>3. CASE ~HasPending(session)
  <2>1. session' = session
    BY <1>2, <1>3 DEF DrainPendingIntoTurn
  <2>2. QED
    BY <1>1, <2>1, AddsNothing
<1>4. CASE HasPending(session)
  <2> DEFINE t == Stage(session, "user", NoCall, session.pending)
             m == NewMessage(session, "user", NoCall, session.pending)
  <2>1. "user" \in Kind /\ NoCall \in CallIds \cup {NoCall} /\ session.pending \in Seq(Nat)
    BY <1>1 DEF Kind, Session
  <2>2. t \in Session /\ <<m>> \in Seq(Message) /\ Extends(t, session, <<m>>)
    BY <1>1, <2>1, StageFields
  <2>3. m.body = session.pending /\ m.kind = "user"
    BY DEF NewMessage
  <2> HIDE DEF t, m
  <2>4. PICK new \in Seq(Message) :
           /\ Extends(t, session, new)
           /\ \A k \in DOMAIN new : new[k].body = session.pending /\ new[k].kind = "user"
    <3>1. \A k \in DOMAIN <<m>> : <<m>>[k] = m
      OBVIOUS
    <3>2. QED
      BY <2>2, <2>3, <3>1
  <2>5. session' = [t EXCEPT !.pending = <<>>]
    BY <1>2, <1>4 DEF DrainPendingIntoTurn, t
  <2>6. /\ session'.committed = t.committed /\ session'.pinned = t.pinned
        /\ session'.nextId = t.nextId /\ StagingAll(session') = StagingAll(t)
    BY <2>2, <2>5 DEF Session, StagingAll
  <2>7. Extends(session', session, new)
    BY <2>4, <2>6 DEF Extends
  <2>8. QED
    BY <1>1, <1>2, <2>4, <2>7, AddsItems
<1>5. QED
  BY <1>3, <1>4

\* A turn starts with the queue.
LEMMA StartAdds ==
  ASSUME TypeOK, session.staged = <<>>, session' = DequeueAndStartTurn(session)
  PROVE  Adds /\ session'.userInput # <<>>
<1> DEFINE m == NewMessage(session, "user", NoCall, session.pending)
<1>1. session \in Session /\ session.nextId \in Nat /\ session.pending \in Seq(Nat)
      /\ session.turnIndex \in Nat
  BY Types DEF Session
<1>2. m.id = session.nextId /\ m.body = session.pending /\ m.kind = "user" /\ m \in Message
  BY <1>1 DEF NewMessage, Message, Kind
<1> HIDE DEF m
<1>3. /\ session'.userInput = <<m>> /\ session'.nextId = session.nextId + 1
      /\ session'.pending = <<>> /\ session'.staged = <<>>
  BY <1>1 DEF DequeueAndStartTurn, StartTurn, Session, m
<1>4. <<m>> \in Seq(Message)
  BY <1>2
<1>5. StagingAll(session') = <<m>>
  BY <1>3, <1>4, ConcatEmptySeq DEF StagingAll
<1>6. GoesOn(session', session)
  BY <1>1, <1>2, <1>3, <1>5 DEF GoesOn
<1>7. \A k \in DOMAIN StagingAll(session') : StagingAll(session')[k].kind # "output"
  BY <1>2, <1>5
<1>8. QED
  BY <1>3, <1>4, <1>6, <1>7 DEF Adds

\* Every step of the loop adds and moves no more than that.
LEMMA LooperStep ==
  ASSUME NEW R, TypeOK, Phases, Agrees, Arrivals(R), Headed, Next
  PROVE  Adds /\ Moves /\ Headed'
<1>0. session \in Session /\ session.nextId <= session.nextId
  BY Types DEF Session
<1>1. PICK n \in Nat : SoundBy(R, session, n)
  <2>1. user.queries \in Nat
    BY LooperAssumption DEF TypeOK
  <2>2. QED
    BY <2>1 DEF Arrivals
<1>2. CASE Finalize \/ CommitDone
  <2>1. CASE CancelTheTurn
    BY <1>1, <2>1, CancelMoves DEF Headed
  <2>2. CASE FinalizeFailure
    <3>1. session.state # "Idle"
      BY <2>2, AtWork
    <3>2. QED
      BY <1>1, <2>2, <3>1, FailureMoves DEF Headed
  <2>3. CASE ChannelClosed /\ ~CancelTheTurn
    <3>1. session' = session /\ disk' = disk
      BY <2>3 DEF ChannelClosed
    <3>2. QED
      BY <1>0, <3>1, AddsNothing DEF Moves, Headed
  <2>4. CASE CommitDone
    <3>1. session.userInput # <<>>
      BY <2>4, AtWork DEF CommitDone, Reacts, Headed
    <3>2. QED
      BY <1>1, <2>4, <3>1, CommitMoves DEF Headed
  <2>5. QED
    BY <1>2, <2>1, <2>2, <2>3, <2>4 DEF Finalize, FinalizeCancel
<1>3. CASE StartTurnFromPending
  <2>1. /\ session' = DequeueAndStartTurn(session) /\ disk' = disk /\ session.state = "Idle"
    BY <1>3, AtWork DEF StartTurnFromPending
  <2>2. session.staged = <<>>
    BY <1>0, <1>1, <2>1, IdleHasNothing
  <2>3. Adds /\ session'.userInput # <<>>
    BY <2>1, <2>2, StartAdds
  <2>4. /\ session'.committed = session.committed /\ session'.turnIndex = session.turnIndex
        /\ session'.pinned = session.pinned
    BY <1>0, <2>1, DequeueFields
  <2>5. QED
    BY <2>1, <2>3, <2>4 DEF Moves, Headed
<1>4. CASE ~(Finalize \/ CommitDone \/ StartTurnFromPending)
  <2>1. Carries
    BY <1>4, StoreStep
  <2>2. Moves /\ Headed'
    BY <2>1 DEF Carries, Moves, SameTurn, Headed
  <2>3. CASE Quiet
    <3>1. session' = session
      BY <2>3, QuietIsQuiet
    <3>2. QED
      BY <1>0, <2>2, <3>1, AddsNothing
  <2>4. CASE TakeQuery
    <3>1. PICK input : /\ input = Head(user.queue).input
                       /\ session' = EnqueuePending(session, input)
                       /\ user.queue # <<>> /\ Head(user.queue).kind = "query"
      BY <2>4 DEF TakeQuery, Take
    <3>2. /\ session'.pending = Append(session.pending, input)
          /\ session'.nextId = session.nextId /\ StagingAll(session') = StagingAll(session)
      BY <1>0, <3>1 DEF EnqueuePending, Session, StagingAll
    <3>3. PICK a \in Seq(Message) : a = StagingAll(session)
      BY <1>0, TurnsFacts
    <3>4. GoesOn(session', session)
      BY <1>0, <3>2, <3>3 DEF GoesOn
    <3>5. Adds
      BY <3>1, <3>2, <3>3, <3>4 DEF Adds
    <3>6. QED
      BY <2>2, <3>5
  <2>5. CASE SendRequest
    <3>1. CanStage(session)
      BY <2>5, AtWork, ActiveStages DEF SendRequest, Prepares, Reacts
    <3>2. QED
      BY <2>2, <2>5, <3>1, SendAdds
  <2>6. CASE RequestFails \/ StreamBreaks
    <3>1. /\ turn.text \in BOOLEAN
          /\ RetryOrFail(session, turn.text, Len(session.staged), FALSE)
      BY <2>6 DEF RequestFails, StreamBreaks, TypeOK
    <3>2. /\ session'.staged = session.staged /\ session'.pending = session.pending
          /\ session'.userInput = session.userInput /\ session'.nextId = session.nextId
      BY <1>0, <3>1, RetryAsItWas DEF SameTurn, TruncateStaging, Session
    <3>3. StagingAll(session') = StagingAll(session)
      BY <3>2 DEF StagingAll
    <3>4. QED
      BY <1>0, <2>2, <3>2, <3>3, AddsNothing
  <2>7. CASE ResolveResponse
    <3>1. turn.response \in Response
      BY <2>7 DEF ResolveResponse, Reacts, Phases
    <3>2. QED
      BY <2>2, <2>7, <3>1, ResolveAdds
  <2>8. CASE SpawnTools
    <3>1. CASE \E settled : FinishTools(Settle(settled))
      BY <2>2, <3>1, SettleFacts, FinishAdds
    <3>2. CASE session' = session
      BY <1>0, <2>2, <3>2, AddsNothing
    <3>3. QED
      BY <2>8, <3>1, <3>2, SpawnFacts
  <2>9. CASE CollectResults
    <3>1. CASE FinishTools(Joined)
      BY <2>2, <3>1, JoinedFacts, FinishAdds
    <3>2. CASE session' = session
      BY <1>0, <2>2, <3>2, AddsNothing
    <3>3. QED
      BY <2>9, <3>1, <3>2, CollectFacts
  <2>10. CASE BatchOver
    <3>1. FinishTools(turn.tools)
      BY <2>10 DEF BatchOver
    <3>2. QED
      BY <2>2, <3>1, Types, FinishAdds
  <2>11. QED
    BY <1>4, <2>3, <2>4, <2>5, <2>6, <2>7, <2>8, <2>9, <2>10, NextSplit DEF Finalize
<1>5. QED
  BY <1>2, <1>3, <1>4

-----------------------------------------------------------------------------
(* The inductive invariant of recovery.                                    *)

\* The snapshot is a session a process may take up: all the session holds, or is yet
\* to receive, may follow the history in it.
Stored(R) ==
    /\ SoundBy(R, disk.saved, user.queries) /\ TurnNumbersIncrease(disk.saved)
    /\ disk.saved.state = "Idle"
    /\ Behind(R, disk.saved, session, user.queue)

\* The checkpoint is what a turn in flight holds, and may be taken up with either
\* history whose next turn has its number.
Taken(R) ==
    disk.checkpoint # NoCheckpoint =>
        /\ disk.checkpoint.staged # <<>> /\ disk.checkpoint.turn <= session.turnIndex
        /\ Whole(R, disk.checkpoint.staged, disk.checkpoint.turn, user.queries)
        /\ disk.checkpoint.turn = disk.saved.turnIndex =>
              Follows(R, disk.saved, disk.checkpoint.staged)
        /\ disk.checkpoint.turn = session.turnIndex =>
              Follows(R, session, disk.checkpoint.staged)

\* An output that is staged is in the checkpoint of this turn, unless a write failed.
InCheckpoint ==
    ~InflightMayFail =>
        \A k \in DOMAIN StagingAll(session) : StagingAll(session)[k].kind = "output" =>
            /\ disk.checkpoint # NoCheckpoint /\ disk.checkpoint.turn = session.turnIndex
            /\ \E j \in DOMAIN disk.checkpoint.staged :
                  disk.checkpoint.staged[j] = StagingAll(session)[k]

Restartable(R) == Core(R) /\ Saved /\ Headed /\ Stored(R) /\ Taken(R) /\ InCheckpoint

RecoveryInv == \E R : R = Distinct(life.reloaded) /\ Restartable(R)

-----------------------------------------------------------------------------
(* A step of the loop keeps it.                                            *)

\* Two inputs in their order of arrival are different.
LEMMA DistinctIs ==
  ASSUME NEW X
  PROVE  Before \subseteq Distinct(X) /\ \A a, b \in Nat : a # b => <<a, b>> \in Distinct(X)
BY DEF Before, Distinct

\* What is sent from now on has a later number than what is queued or was taken.
LEMMA AwaitsOn ==
  ASSUME TypeOK, Next, NEW n \in Nat, n <= user.queries, Awaits(user.queue, n, user.queries)
  PROVE  /\ Awaits(user'.queue, n, user'.queries) /\ user'.queue \in Seq(UserMsg)
         /\ user'.queries \in Nat /\ user.queries <= user'.queries /\ n <= user'.queries
<1>1. user.queue \in Seq(UserMsg) /\ user.queries \in Nat
  BY LooperAssumption DEF TypeOK
<1>2. /\ user' \in UserType
      /\ \/ user'.queue = user.queue /\ user'.queries = user.queries
         \/ user'.queue = <<>> /\ user'.queries = user.queries
         \/ user.queue # <<>> /\ user'.queue = Tail(user.queue) /\ user'.queries = user.queries
         \/ \E m \in UserMsg :
              /\ user'.queue = Append(user.queue, m)
              /\ \/ m.kind # "query" /\ user'.queries = user.queries
                 \/ m.kind = "query" /\ m.input = user.queries + 1
                    /\ user'.queries = user.queries + 1
  BY UserFacts
<1>3. user'.queue \in Seq(UserMsg) /\ user'.queries \in Nat
  BY <1>2, LooperAssumption DEF UserType
<1>4. CASE user'.queue = user.queue /\ user'.queries = user.queries
  BY <1>1, <1>3, <1>4
<1>5. CASE user'.queue = <<>> /\ user'.queries = user.queries
  <2>1. DOMAIN user'.queue = {}
    BY <1>5
  <2>2. Awaits(user'.queue, n, user'.queries)
    BY <2>1 DEF Awaits
  <2>3. QED
    BY <1>1, <1>3, <1>5, <2>2
<1>6. CASE user.queue # <<>> /\ user'.queue = Tail(user.queue) /\ user'.queries = user.queries
  <2>1. Awaits(Tail(user.queue), n, user.queries)
    BY <1>1, <1>6, AwaitsLess
  <2>2. QED
    BY <1>1, <1>3, <1>6, <2>1
<1>7. ASSUME NEW m \in UserMsg, user'.queue = Append(user.queue, m),
             \/ m.kind # "query" /\ user'.queries = user.queries
             \/ m.kind = "query" /\ m.input = user.queries + 1
                /\ user'.queries = user.queries + 1
      PROVE  Awaits(user'.queue, n, user'.queries) /\ user.queries <= user'.queries
  <2>1. /\ m.kind # "query" => Awaits(Append(user.queue, m), n, user.queries)
        /\ m.kind = "query" /\ m.input = user.queries + 1 =>
              Awaits(Append(user.queue, m), n, user.queries + 1)
    BY <1>1, AwaitsMore
  <2>2. QED
    BY <1>1, <1>7, <2>1
<1>8. QED
  BY <1>1, <1>2, <1>3, <1>4, <1>5, <1>6, <1>7

\* A sound session, as it was saved: what comes after it may follow it.
LEMMA NewRow ==
  ASSUME NEW R, Before \subseteq R, NEW s, NEW n \in Nat, SoundBy(R, s, n),
         NEW t \in Session, s.nextId <= t.nextId, t.pending = s.pending,
         StagingAll(t) = StagingAll(s) \/ StagingAll(t) = <<>>,
         NEW q \in Seq(UserMsg), NEW last \in Nat, Awaits(q, n, last)
  PROVE  Behind(R, s, t, q)
<1>1. s \in Session /\ s.nextId \in Nat /\ t.nextId \in Nat
  BY DEF SoundBy, Session
<1>2. /\ Follows(R, s, StagingAll(s))
      /\ \A p \in DOMAIN s.committed : \A i \in DOMAIN s.committed[p] :
              /\ s.committed[p][i] \in Message /\ s.committed[p][i].body \in Seq(Nat)
              /\ s.committed[p][i].id < s.nextId
              /\ Precede(R, s.committed[p][i].body, s.pending)
              /\ AllBelow(s.committed[p][i].body, <<n + 1>>)
      /\ \A l \in DOMAIN s.pinned : s.pinned[l].id < s.nextId
  BY SoundFollows
<1>3. Follows(R, s, StagingAll(t))
  <2>1. CASE StagingAll(t) = StagingAll(s)
    BY <1>2, <2>1
  <2>2. CASE StagingAll(t) = <<>>
    <3>1. DOMAIN StagingAll(t) = {}
      BY <2>2
    <3>2. QED
      BY <3>1 DEF Follows
  <2>3. QED
    BY <2>1, <2>2
<1>4. \A l \in DOMAIN s.pinned : s.pinned[l].id < t.nextId
  <2>1. s.pinned \in Seq(Message)
    BY <1>1 DEF Session
  <2>2. \A l \in DOMAIN s.pinned : s.pinned[l].id \in Nat
    BY <2>1, MessagesAre
  <2>3. QED
    BY <1>1, <1>2, <2>2
<1>5. ASSUME NEW p \in DOMAIN s.committed, NEW i \in DOMAIN s.committed[p]
      PROVE  /\ s.committed[p][i].id < t.nextId
             /\ Precede(R, s.committed[p][i].body, t.pending)
             /\ \A k \in DOMAIN q :
                   q[k].kind = "query" => AllBelow(s.committed[p][i].body, <<q[k].input>>)
  <2>1. PICK m \in Message : m = s.committed[p][i]
    BY <1>2
  <2>2. /\ m.body \in Seq(Nat) /\ m.id < s.nextId /\ m.id \in Nat
        /\ Precede(R, m.body, s.pending) /\ AllBelow(m.body, <<n + 1>>)
    BY <1>2, <2>1 DEF Message
  <2>3. ASSUME NEW k \in DOMAIN q, q[k].kind = "query"
        PROVE  AllBelow(m.body, <<q[k].input>>)
    <3>1. q[k].input \in n + 1 .. last
      BY <2>3 DEF Awaits
    <3>2. \A a \in DOMAIN m.body : m.body[a] \in Nat /\ m.body[a] < n + 1
      BY <2>2 DEF AllBelow
    <3>3. QED
      BY <3>1, <3>2 DEF AllBelow
  <2>4. m.id < t.nextId
    BY <1>1, <2>2
  <2>5. QED
    BY <2>1, <2>2, <2>3, <2>4
<1>6. QED
  BY <1>3, <1>4, <1>5 DEF Behind

\* What a step adds may follow what the old session could be followed by.
LEMMA BehindKeeps ==
  ASSUME NEW R, Before \subseteq R, TypeOK, Next, NEW s, SoundBy(R, s, user.queries),
         Behind(R, s, session, user.queue), session' \in Session, Adds
  PROVE  Behind(R, s, session', user'.queue)
<1>1. /\ s \in Session /\ session.nextId \in Nat /\ session'.nextId \in Nat
      /\ session \in Session /\ session.pending \in Seq(Nat)
      /\ user.queue \in Seq(UserMsg) /\ user.queries \in Nat
  BY LooperAssumption DEF SoundBy, Session, TypeOK
<1>2. PICK t : t = session'
  OBVIOUS
<1>3. t.nextId \in Nat /\ GoesOn(t, session) /\ session.nextId <= t.nextId
  BY <1>1, <1>2 DEF Adds, GoesOn
<1>4. ASSUME NEW m, m.body \in Seq(Nat), m.id \in Nat, m.id < session.nextId,
             Precede(R, m.body, session.pending), AllBelow(m.body, <<user.queries + 1>>),
             \A k \in DOMAIN user.queue :
                user.queue[k].kind = "query" => AllBelow(m.body, <<user.queue[k].input>>)
      PROVE  /\ m.id < t.nextId
             /\ Precede(R, m.body, session'.pending)
             /\ \A k \in DOMAIN user'.queue :
                   user'.queue[k].kind = "query" => AllBelow(m.body, <<user'.queue[k].input>>)
  <2>1. m.id < t.nextId
    BY <1>1, <1>3, <1>4
  <2>2. Precede(R, m.body, session'.pending)
    <3>1. CASE session'.pending = session.pending
      BY <1>4, <3>1
    <3>2. CASE session'.pending = <<>>
      BY <3>2 DEF Precede
    <3>3. CASE /\ user.queue # <<>> /\ Head(user.queue).kind = "query"
               /\ session'.pending = Append(session.pending, Head(user.queue).input)
      <4>1. PICK input : input = Head(user.queue).input
        OBVIOUS
      <4>2. user.queue[1].input = input /\ 1 \in DOMAIN user.queue /\ user.queue[1].kind = "query"
            /\ user.queue[1] \in UserMsg
        BY <1>1, <3>3, <4>1, EmptySeq, LenProperties
      <4>3. input \in Nat
        BY <4>2, LooperAssumption DEF UserMsg
      <4>4. AllBelow(m.body, <<input>>)
        BY <1>4, <4>2
      <4>5. \A a \in DOMAIN m.body : m.body[a] \in Nat /\ m.body[a] < input
        BY <1>4, <4>4 DEF AllBelow
      <4>6. \A a \in DOMAIN m.body : <<m.body[a], input>> \in R
        BY <4>3, <4>5, BeforeIs
      <4>7. PICK v : v = Append(session.pending, input)
        OBVIOUS
      <4>8. \A b \in DOMAIN v : \/ b \in DOMAIN session.pending /\ v[b] = session.pending[b]
                                \/ v[b] = input
        <5>1. /\ Len(session.pending) \in Nat /\ Len(v) = Len(session.pending) + 1
              /\ DOMAIN v = 1 .. Len(v) /\ DOMAIN session.pending = 1 .. Len(session.pending)
              /\ \A b \in 1 .. Len(session.pending) : v[b] = session.pending[b]
              /\ v[Len(session.pending) + 1] = input
          BY <1>1, <4>3, <4>7, AppendProperties, LenProperties
        <5>2. QED
          BY <5>1
      <4>9. QED
        BY <1>4, <3>3, <4>1, <4>6, <4>7, <4>8 DEF Precede
    <3>4. QED
      BY <3>1, <3>2, <3>3 DEF Adds
  <2>3. ASSUME NEW k \in DOMAIN user'.queue, user'.queue[k].kind = "query"
        PROVE  AllBelow(m.body, <<user'.queue[k].input>>)
    <3>1. CASE user'.queue = user.queue
      BY <1>4, <2>3, <3>1
    <3>2. CASE user'.queue = <<>>
      BY <2>3, <3>2
    <3>3. CASE user.queue # <<>> /\ user'.queue = Tail(user.queue)
      <4>1. k + 1 \in DOMAIN user.queue /\ user'.queue[k] = user.queue[k + 1]
        BY <1>1, <2>3, <3>3, LenProperties
      <4>2. QED
        BY <1>4, <2>3, <4>1
    <3>4. ASSUME NEW n \in UserMsg, user'.queue = Append(user.queue, n),
                 n.kind = "query" => n.input = user.queries + 1
          PROVE  AllBelow(m.body, <<user'.queue[k].input>>)
      <4>1. /\ Len(user.queue) \in Nat /\ Len(user'.queue) = Len(user.queue) + 1
            /\ DOMAIN user'.queue = 1 .. Len(user'.queue)
            /\ DOMAIN user.queue = 1 .. Len(user.queue)
            /\ \A b \in 1 .. Len(user.queue) : user'.queue[b] = user.queue[b]
            /\ user'.queue[Len(user.queue) + 1] = n
        BY <1>1, <3>4, AppendProperties, LenProperties
      <4>2. \/ k \in DOMAIN user.queue /\ user'.queue[k] = user.queue[k]
            \/ user'.queue[k] = n
        BY <2>3, <4>1
      <4>3. QED
        BY <1>4, <2>3, <3>4, <4>2
    <3>5. QED
      BY <3>1, <3>2, <3>3, <3>4, UserFacts
  <2>4. QED
    BY <2>1, <2>2, <2>3
<1>5. \A p \in DOMAIN s.committed : \A i \in DOMAIN s.committed[p] :
          /\ s.committed[p][i].body \in Seq(Nat) /\ s.committed[p][i].id \in Nat
          /\ s.committed[p][i].id < session.nextId
          /\ Precede(R, s.committed[p][i].body, session.pending)
          /\ AllBelow(s.committed[p][i].body, <<user.queries + 1>>)
          /\ \A k \in DOMAIN user.queue :
                user.queue[k].kind = "query" =>
                    AllBelow(s.committed[p][i].body, <<user.queue[k].input>>)
  <2>1. \A p \in DOMAIN s.committed : \A i \in DOMAIN s.committed[p] :
          /\ s.committed[p][i].body \in Seq(Nat) /\ s.committed[p][i].id \in Nat
          /\ AllBelow(s.committed[p][i].body, <<user.queries + 1>>)
    BY <1>1, SoundFollows DEF Message
  <2>2. QED
    BY <2>1 DEF Behind
<1>6. \A l \in DOMAIN s.pinned : s.pinned[l].id \in Nat /\ s.pinned[l].id < session.nextId
  <2>1. s.pinned \in Seq(Message)
    BY <1>1 DEF Session
  <2>2. \A l \in DOMAIN s.pinned : s.pinned[l].id \in Nat
    BY <2>1, MessagesAre
  <2>3. QED
    BY <2>2 DEF Behind
<1>7. Follows(R, s, StagingAll(t))
  <2>1. PICK a \in Seq(Message) : a = StagingAll(session)
    BY <1>1, TurnsFacts
  <2>2. PICK b \in Seq(Message) : b = StagingAll(t)
    BY <1>2, TurnsFacts
  <2>3. \A k \in DOMAIN b : \/ \E j \in DOMAIN a : b[k] = a[j]
                            \/ /\ session.nextId <= b[k].id
                               /\ b[k].body = <<>> \/ b[k].body = session.pending
    BY <1>3, <2>1, <2>2 DEF GoesOn
  <2>4. Follows(R, s, a)
    BY <2>1 DEF Behind
  <2>5. \A k \in DOMAIN b : b[k].id \in Nat
    BY MessagesAre
  <2>6. ASSUME NEW p \in DOMAIN s.committed, NEW i \in DOMAIN s.committed[p], NEW k \in DOMAIN b
        PROVE  /\ s.committed[p][i].id < b[k].id
               /\ Precede(R, s.committed[p][i].body, b[k].body)
    <3>1. CASE \E j \in DOMAIN a : b[k] = a[j]
      BY <2>4, <2>6, <3>1 DEF Follows
    <3>2. CASE /\ session.nextId <= b[k].id
               /\ b[k].body = <<>> \/ b[k].body = session.pending
      <4>1. s.committed[p][i].id < b[k].id
        BY <1>1, <1>5, <2>5, <3>2
      <4>2. Precede(R, s.committed[p][i].body, <<>>)
        BY DEF Precede
      <4>3. QED
        BY <1>5, <3>2, <4>1, <4>2
    <3>3. QED
      BY <2>3, <3>1, <3>2
  <2>7. ASSUME NEW l \in DOMAIN s.pinned, NEW k \in DOMAIN b
        PROVE  s.pinned[l].id # b[k].id
    <3>1. CASE \E j \in DOMAIN a : b[k] = a[j]
      BY <2>4, <2>7, <3>1 DEF Follows
    <3>2. CASE session.nextId <= b[k].id
      BY <1>1, <1>6, <2>5, <3>2
    <3>3. QED
      BY <2>3, <3>1, <3>2
  <2>8. QED
    BY <2>2, <2>6, <2>7 DEF Follows
<1>8. \A l \in DOMAIN s.pinned : s.pinned[l].id < t.nextId
  BY <1>1, <1>3, <1>6
<1>9. \A p \in DOMAIN s.committed : \A i \in DOMAIN s.committed[p] :
         /\ s.committed[p][i].id < t.nextId
         /\ Precede(R, s.committed[p][i].body, t.pending)
         /\ \A k \in DOMAIN user'.queue :
               user'.queue[k].kind = "query" =>
                   AllBelow(s.committed[p][i].body, <<user'.queue[k].input>>)
  BY <1>2, <1>4, <1>5
<1>10. QED
  BY <1>2, <1>7, <1>8, <1>9 DEF Behind

\* What the old session or a turn in flight was below stays below.
LEMMA WholeMonotone ==
  ASSUME NEW R, NEW m \in Seq(Message), NEW number, NEW n \in Nat, NEW last \in Nat, n <= last,
         Whole(R, m, number, n)
  PROVE  Whole(R, m, number, last)
<1>1. ASSUME NEW k \in DOMAIN m
      PROVE  AllBelow(m[k].body, <<last + 1>>)
  <2>1. m[k].body \in Seq(Nat)
    BY MessagesAre
  <2>2. \A a \in DOMAIN m[k].body : m[k].body[a] \in Nat /\ m[k].body[a] < n + 1
    BY <2>1 DEF Whole, AllBelow
  <2>3. QED
    BY <2>2 DEF AllBelow
<1>2. QED
  BY <1>1 DEF Whole

\* What the rows hold after a step of the loop.
LEMMA StoredStep ==
  ASSUME NEW R, Before \subseteq R, Core(R), Core(R)', Headed, Stored(R), Next
  PROVE  Stored(R)'
<1>1. TypeOK /\ Phases /\ Agrees /\ Arrivals(R) /\ session' \in Session
  BY DEF Core, TypeOK
<1>2. Adds /\ Moves
  BY <1>1, LooperStep
<1>3. PICK n \in 0 .. user.queries :
        SoundBy(R, session, n) /\ Awaits(user.queue, n, user.queries)
  BY <1>1 DEF Arrivals
<1>4. /\ Awaits(user'.queue, n, user'.queries) /\ user'.queue \in Seq(UserMsg)
      /\ user.queries \in Nat /\ user'.queries \in Nat /\ user.queries <= user'.queries
      /\ n \in Nat /\ n <= user'.queries /\ session \in Session
  <2>1. user.queries \in Nat /\ n \in Nat /\ n <= user.queries /\ session \in Session
    BY <1>1, LooperAssumption DEF TypeOK
  <2>2. QED
    BY <1>1, <1>3, <2>1, AwaitsOn
<1>5. PICK b, q, last : b = session' /\ q = user'.queue /\ last = user'.queries
  OBVIOUS
<1>6. b \in Session /\ q \in Seq(UserMsg) /\ last \in Nat
  BY <1>1, <1>4, <1>5
<1>7. TurnNumbersIncrease(b) /\ \E k \in 0 .. last : SoundBy(R, b, k) /\ Awaits(q, k, last)
  BY <1>5 DEF Core, Arrivals
<1>8. PICK k \in 0 .. last : SoundBy(R, b, k) /\ Awaits(q, k, last)
  BY <1>7
<1>9. k \in Nat /\ k <= last
  BY <1>6, <1>8
<1>10. CASE disk'.saved = disk.saved
  <2>1. SoundBy(R, disk.saved, user.queries) /\ Behind(R, disk.saved, session, user.queue)
    BY DEF Stored
  <2>2. SoundBy(R, disk.saved, last)
    BY <1>4, <1>5, <2>1, SoundMonotone DEF SoundBy
  <2>3. Behind(R, disk.saved, b, q)
    BY <1>1, <1>2, <1>5, <2>1, BehindKeeps
  <2>4. QED
    BY <1>5, <1>10, <2>2, <2>3 DEF Stored
<1>11. CASE disk'.saved = session' /\ session'.state = "Idle"
  <2>1. SoundBy(R, b, last)
    BY <1>6, <1>8, <1>9, SoundMonotone
  <2>2. b.nextId <= b.nextId
    BY <1>6 DEF Session
  <2>3. Behind(R, b, b, q)
    BY <1>6, <1>8, <1>9, <2>2, NewRow
  <2>4. QED
    BY <1>5, <1>7, <1>11, <2>1, <2>3 DEF Stored
<1>12. CASE /\ disk'.saved = CommitTurn(session) /\ StagingAll(session) # <<>>
            /\ session'.state = "Idle" /\ session'.nextId >= CommitTurn(session).nextId
            /\ session'.pending = session.pending
  <2>1. PICK c : c = CommitTurn(session)
    OBVIOUS
  <2>2. /\ c \in Session /\ c.state = "Idle" /\ c.pending = session.pending
        /\ SoundBy(R, c, n) /\ TurnNumbersIncrease(c)
    <3>1. TurnNumbersIncrease(session)
      BY <1>1 DEF Arrivals
    <3>2. QED
      BY <1>3, <1>4, <2>1, <3>1, CommitFields, CommitKeeps
  <2>3. StagingAll(b) = <<>>
    BY <1>5, <1>6, <1>8, <1>12, IdleHasNothing
  <2>4. c.nextId <= b.nextId
    BY <1>5, <1>6, <1>12, <2>1, <2>2 DEF Session
  <2>5. b.pending = c.pending
    BY <1>5, <1>12, <2>2
  <2>6. Behind(R, c, b, q)
    BY <1>4, <1>5, <1>6, <2>2, <2>3, <2>4, <2>5, NewRow
  <2>7. SoundBy(R, c, last)
    BY <1>4, <1>5, <2>2, SoundMonotone
  <2>8. QED
    BY <1>5, <1>12, <2>1, <2>2, <2>6, <2>7 DEF Stored
<1>13. QED
  BY <1>2, <1>10, <1>11, <1>12 DEF Moves

\* The checkpoint after a step of the loop.
LEMMA TakenStep ==
  ASSUME NEW R, Before \subseteq R, Core(R), Core(R)', Headed, Stored(R)', Taken(R), Next
  PROVE  Taken(R)'
<1>1. TypeOK /\ Phases /\ Agrees /\ Arrivals(R) /\ session' \in Session
  BY DEF Core, TypeOK
<1>2. Adds /\ Moves
  BY <1>1, LooperStep
<1>3. /\ user.queries \in Nat /\ user'.queries \in Nat /\ user.queries <= user'.queries
      /\ session.turnIndex \in Nat /\ disk \in DiskType
  <2>1. PICK n \in 0 .. user.queries : Awaits(user.queue, n, user.queries)
    BY <1>1 DEF Arrivals
  <2>2. user.queries \in Nat /\ n \in Nat /\ n <= user.queries
    BY <1>1, LooperAssumption DEF TypeOK
  <2>3. QED
    BY <1>1, <2>1, <2>2, AwaitsOn, Types
<1>4. PICK b, last : b = session' /\ last = user'.queries
  OBVIOUS
<1>5. CASE disk'.checkpoint = disk.checkpoint
  <2>1. SUFFICES ASSUME disk.checkpoint # NoCheckpoint PROVE Taken(R)'
    BY <1>5 DEF Taken
  <2>2. PICK c \in CheckpointType : c = disk.checkpoint
    BY <1>3, <2>1 DEF DiskType
  <2>3. /\ c.staged # <<>> /\ c.turn <= session.turnIndex
        /\ Whole(R, c.staged, c.turn, user.queries)
        /\ c.turn = disk.saved.turnIndex => Follows(R, disk.saved, c.staged)
        /\ c.turn = session.turnIndex => Follows(R, session, c.staged)
    BY <2>1, <2>2 DEF Taken
  <2>4. c.turn \in Nat /\ c.staged \in Seq(Message)
    BY <2>2 DEF CheckpointType
  <2>5. Whole(R, c.staged, c.turn, last)
    BY <1>3, <1>4, <2>3, <2>4, WholeMonotone
  <2>6. c.turn <= b.turnIndex /\ (c.turn = b.turnIndex => Follows(R, b, c.staged))
    <3>1. CASE b.turnIndex = session.turnIndex + 1
      BY <1>3, <2>3, <2>4, <3>1
    <3>2. CASE /\ b.turnIndex = session.turnIndex /\ b.committed = session.committed
               /\ b.pinned = session.pinned
      BY <2>3, <3>2 DEF Follows
    <3>3. QED
      BY <1>2, <1>4, <3>1, <3>2 DEF Moves
  <2>7. c.turn = disk'.saved.turnIndex => Follows(R, disk'.saved, c.staged)
    <3>1. CASE disk'.saved = disk.saved
      BY <2>3, <3>1
    <3>2. CASE disk'.saved = session'
      BY <1>4, <2>6, <3>2
    <3>3. CASE disk'.saved = CommitTurn(session) /\ StagingAll(session) # <<>>
      <4>1. disk'.saved.turnIndex = session.turnIndex + 1
        BY <1>1, <3>3, Types, CommitFields
      <4>2. QED
        BY <1>3, <2>3, <2>4, <4>1
    <3>4. QED
      BY <1>2, <3>1, <3>2, <3>3 DEF Moves
  <2>8. QED
    BY <1>4, <1>5, <2>2, <2>3, <2>5, <2>6, <2>7 DEF Taken
<1>6. CASE disk'.checkpoint = NoCheckpoint
  BY <1>6 DEF Taken
<1>7. CASE disk'.checkpoint = Checkpoint(session') /\ session'.staged # <<>>
  <2>1. b \in Session
    BY <1>1, <1>4
  <2>2. PICK c : c.turn = b.turnIndex /\ c.staged = StagingAll(b) /\ c = disk'.checkpoint
    BY <1>4, <1>7 DEF Checkpoint
  <2>3. PICK k \in 0 .. last : SoundBy(R, b, k)
    BY <1>4 DEF Core, Arrivals
  <2>4. k \in Nat /\ last \in Nat /\ k <= last
    BY <1>3, <1>4, <2>3
  <2>5. SoundBy(R, b, last)
    BY <2>1, <2>3, <2>4, SoundMonotone
  <2>6. Follows(R, b, StagingAll(b)) /\ Whole(R, StagingAll(b), b.turnIndex, last)
    BY <2>4, <2>5, SoundFollows
  <2>7. Follows(R, disk'.saved, StagingAll(b))
    BY <1>4 DEF Stored, Behind
  <2>8. StagingAll(b) # <<>>
    <3>1. b.userInput \in Seq(Message) /\ b.staged \in Seq(Message) /\ b.staged # <<>>
      BY <1>4, <1>7, <2>1 DEF Session
    <3>2. QED
      BY <3>1, ConcatEqualIffEmpty DEF StagingAll
  <2>9. b.turnIndex <= b.turnIndex
    BY <2>1 DEF Session
  <2>10. QED
    BY <1>4, <2>2, <2>6, <2>7, <2>8, <2>9 DEF Taken
<1>8. QED
  BY <1>2, <1>5, <1>6, <1>7 DEF Moves

\* The outputs in it.
LEMMA InCheckpointStep ==
  ASSUME NEW R, Core(R), Core(R)', Headed, InCheckpoint, Next
  PROVE  InCheckpoint'
<1>1. TypeOK /\ Phases /\ Agrees /\ Arrivals(R) /\ session' \in Session
  BY DEF Core, TypeOK
<1>2. Adds /\ Moves
  BY <1>1, LooperStep
<1>3. PICK b : b = session'
  OBVIOUS
<1>4. PICK a : a = StagingAll(session)
  OBVIOUS
<1>5. SUFFICES ASSUME ~InflightMayFail, NEW k \in DOMAIN StagingAll(b),
                      StagingAll(b)[k].kind = "output"
               PROVE  /\ disk'.checkpoint # NoCheckpoint /\ disk'.checkpoint.turn = b.turnIndex
                      /\ \E j \in DOMAIN disk'.checkpoint.staged :
                            disk'.checkpoint.staged[j] = StagingAll(b)[k]
  BY <1>3 DEF InCheckpoint
<1>6. PICK n \in Nat : SoundBy(R, session, n)
  <2>1. user.queries \in Nat
    BY <1>1, LooperAssumption DEF TypeOK
  <2>2. QED
    BY <1>1, <2>1 DEF Arrivals
<1>7. PICK m : SoundBy(R, b, m)
  BY <1>3 DEF Core, Arrivals
<1>8. StagingAll(b)[k].turn = b.turnIndex
      /\ \A j \in DOMAIN a : a[j].turn = session.turnIndex
  BY <1>4, <1>5, <1>6, <1>7 DEF SoundBy, StagingIsCurrent
<1>9. CASE disk'.checkpoint = Checkpoint(session')
  <2>1. Checkpoint(b) \in [turn : Nat, staged : Seq(Message)]
    BY <1>1, <1>3, TurnsFacts DEF Checkpoint, Session
  <2>2. Checkpoint(b).turn = b.turnIndex /\ Checkpoint(b).staged = StagingAll(b)
    BY DEF Checkpoint
  <2>3. QED
    BY <1>3, <1>5, <1>9, <2>1, <2>2, NoCheckpointAssumption
<1>10. CASE \E j \in DOMAIN a : StagingAll(b)[k] = a[j]
  <2>1. PICK j \in DOMAIN a : StagingAll(b)[k] = a[j]
    BY <1>10
  <2>2. b.turnIndex = session.turnIndex
    BY <1>8, <2>1
  <2>3. /\ disk.checkpoint # NoCheckpoint /\ disk.checkpoint.turn = session.turnIndex
        /\ \E i \in DOMAIN disk.checkpoint.staged : disk.checkpoint.staged[i] = a[j]
    BY <1>4, <1>5, <2>1 DEF InCheckpoint
  <2>4. CASE disk'.checkpoint = disk.checkpoint
    BY <2>1, <2>2, <2>3, <2>4
  <2>5. CASE session'.state = "Idle"
    <3>1. StagingAll(b) = <<>>
      BY <1>1, <1>3, <1>7, <2>5, IdleHasNothing
    <3>2. QED
      BY <1>5, <3>1
  <2>6. QED
    BY <1>2, <1>9, <2>4, <2>5 DEF Moves
<1>11. QED
  BY <1>2, <1>3, <1>4, <1>5, <1>9, <1>10 DEF Adds

\* Every step of the loop leaves rows that can be taken up.
LEMMA LoopRestartable ==
  ASSUME NEW R, Before \subseteq R, Restartable(R), [Next]_vars
  PROVE  Restartable(R)'
<1>1. /\ Core(R) /\ Saved /\ Headed /\ Stored(R) /\ Taken(R) /\ InCheckpoint
      /\ TypeOK /\ Phases /\ Agrees /\ Arrivals(R)
  BY DEF Restartable, Core
<1>2. Core(R)'
  BY <1>1, CoreKeeps
<1>3. CASE Next
  <2>1. Saved'
    BY <1>1, <1>3, SavedStep
  <2>2. Headed'
    BY <1>1, <1>3, LooperStep
  <2>3. Stored(R)'
    BY <1>1, <1>2, <1>3, StoredStep
  <2>4. Taken(R)'
    BY <1>1, <1>2, <1>3, <2>3, TakenStep
  <2>5. InCheckpoint'
    BY <1>1, <1>2, <1>3, InCheckpointStep
  <2>6. QED
    BY <1>2, <2>1, <2>2, <2>3, <2>4, <2>5 DEF Restartable
<1>4. CASE UNCHANGED vars
  <2>1. /\ session' = session /\ user' = user /\ disk' = disk
    BY <1>4 DEF vars
  <2>2. Saved' /\ Headed' /\ Stored(R)' /\ Taken(R)' /\ InCheckpoint'
    BY <1>1, <2>1 DEF Saved, WritesHold, Headed, Stored, Taken, InCheckpoint
  <2>3. QED
    BY <1>2, <2>2 DEF Restartable
<1>5. QED
  BY <1>3, <1>4

-----------------------------------------------------------------------------
(* The next process.                                                       *)

\* A sound session is loaded as it was saved: the counter passes the ids already.
LEMMA LoadedAsSaved ==
  ASSUME NEW R, NEW s, NEW n \in Nat, SoundBy(R, s, n), s.state = "Idle"
  PROVE  FromSnapshot(s) = s
<1> DEFINE ids == IdsOf(s.pinned)
                    \cup UNION {IdsOf(s.committed[p]) : p \in DOMAIN s.committed}
<1>1. /\ s \in Session /\ s.nextId \in Nat /\ s.pinned \in Seq(Message)
      /\ s.staged = <<>> /\ s.userInput = <<>>
  BY IdleHasNothing DEF SoundBy, Session
<1>2. \A p \in DOMAIN s.committed : \A i \in DOMAIN s.committed[p] :
         s.committed[p][i].id \in Nat /\ s.committed[p][i].id < s.nextId
  BY SoundFollows DEF Message
<1>3. \A l \in DOMAIN s.pinned : s.pinned[l].id \in Nat /\ s.pinned[l].id < s.nextId
  BY <1>1, MessagesAre, SoundFollows
<1>4. \A id \in ids : id \in Nat /\ id < s.nextId
  BY <1>2, <1>3 DEF IdsOf
<1> HIDE DEF ids
<1>5. \A m \in {s.nextId} \cup {id + 1 : id \in ids} : m <= s.nextId
  BY <1>1, <1>4
<1>6. Past(s.nextId, ids) = s.nextId
  BY <1>1, <1>4, <1>5, PastIs
<1>7. FromSnapshot(s) = [s EXCEPT !.state = "Idle", !.userInput = <<>>, !.staged = <<>>,
                                  !.nextId = s.nextId]
  BY <1>6 DEF FromSnapshot, ids
<1>8. FromSnapshot(s) = [s EXCEPT !.state = s.state, !.userInput = s.userInput,
                                  !.staged = s.staged, !.nextId = s.nextId]
  BY <1>1, <1>7
<1>9. QED
  BY <1>1, <1>8 DEF Session

\* What the process that is gone left in the rows: the last step's, or the turn it
\* ended.
LEMMA RowsLeft ==
  ASSUME NEW R, Core(R), Stored(R), NEW rows \in LeftOver
  PROVE  /\ SoundBy(R, rows.saved, user.queries) /\ TurnNumbersIncrease(rows.saved)
         /\ rows.saved.state = "Idle" /\ rows.checkpoint = disk.checkpoint
         /\ rows = disk \/ Ended(rows.saved, session)
<1>1. TypeOK /\ Phases /\ Agrees /\ Arrivals(R)
  BY DEF Core
<1>2. /\ session \in Session /\ disk \in DiskType /\ turn.tools \in Seq(Tool)
      /\ user.queries \in Nat /\ Salvage(turn.tools) \in Seq(Tool)
  BY <1>1, Types, SalvageFacts, LooperAssumption DEF TypeOK
<1>3. PICK n \in 0 .. user.queries : SoundBy(R, session, n)
  BY <1>1 DEF Arrivals
<1>4. n \in Nat /\ n <= user.queries /\ TurnNumbersIncrease(session)
  BY <1>1, <1>2, <1>3 DEF Arrivals
<1>5. CASE rows = disk
  BY <1>5 DEF Stored
<1>6. ASSUME NEW ended \in EndedTurns
      PROVE  Ended(ended, session) /\ SoundBy(R, ended, n) /\ TurnNumbersIncrease(ended)
  <2>1. CASE CancelEndsTurn /\ ended = CancelledTurn
    <3>1. ended = CancelledTurn
      BY <2>1
    <3>2. PICK tools, why, closing :
            /\ tools = Salvage(turn.tools) /\ closing \in BOOLEAN
            /\ ended = Freeze(ClearPending(session), tools, why, closing)
      BY Zenon, <3>1 DEF CancelledTurn
    <3>3. tools \in Seq(Tool)
      BY <1>2, <3>2
    <3>4. session.state # "Idle"
      BY <1>2, <1>3, <2>1, IdleHasNothing DEF CancelEndsTurn, InFlight
    <3>5. PICK c : c = ClearPending(session)
      OBVIOUS
    <3>6. /\ c \in Session /\ c.state # "Idle" /\ SoundBy(R, c, n) /\ TurnNumbersIncrease(c)
      BY <1>2, <1>3, <1>4, <3>4, <3>5, ClearPendingFields, ClearPendingKeeps DEF SameTurn
    <3>7. SoundBy(R, Freeze(c, tools, why, closing), n)
          /\ TurnNumbersIncrease(Freeze(c, tools, why, closing))
      BY <1>4, <3>2, <3>3, <3>6, FreezeKeeps
    <3>8. QED
      BY <1>2, <3>2, <3>3, <3>5, <3>7, CancelEnds
  <2>2. CASE FailureEndsTurn /\ ended \in FailedTurns
    <3>1. PICK closing \in IF loop.reason = "maxIterations" THEN BOOLEAN ELSE {FALSE} :
             ended = Freeze(session, turn.tools, loop.reason, closing)
      BY <2>2 DEF FailedTurns
    <3>2. closing \in BOOLEAN
      BY <3>1
    <3>3. session.state # "Idle"
      BY <1>1, <2>2 DEF FailureEndsTurn, ReadingOver, Agrees
    <3>4. SoundBy(R, Freeze(session, turn.tools, loop.reason, closing), n)
          /\ TurnNumbersIncrease(Freeze(session, turn.tools, loop.reason, closing))
      BY <1>2, <1>3, <1>4, <3>2, <3>3, FreezeKeeps
    <3>5. QED
      BY <1>2, <3>1, <3>2, <3>4, FreezeEnds
  <2>3. CASE ended = CommitTurn(session)
    <3>1. SoundBy(R, CommitTurn(session), n) /\ TurnNumbersIncrease(CommitTurn(session))
      BY <1>2, <1>3, <1>4, CommitKeeps
    <3>2. QED
      BY <1>2, <2>3, <3>1, CommitEnds
  <2>4. QED
    BY <1>6, <2>1, <2>2, <2>3 DEF EndedTurns
<1>7. ASSUME NEW ended \in EndedTurns, rows = [disk EXCEPT !.saved = ended]
      PROVE  /\ SoundBy(R, rows.saved, user.queries) /\ TurnNumbersIncrease(rows.saved)
             /\ rows.saved.state = "Idle" /\ rows.checkpoint = disk.checkpoint
             /\ Ended(rows.saved, session)
  <2>1. rows.saved = ended /\ rows.checkpoint = disk.checkpoint
    BY <1>2, <1>7 DEF DiskType
  <2>2. Ended(ended, session) /\ SoundBy(R, ended, n) /\ TurnNumbersIncrease(ended)
    BY <1>6
  <2>3. ended \in Session /\ ended.state = "Idle"
    BY <2>2 DEF Ended
  <2>4. SoundBy(R, ended, user.queries)
    BY <1>2, <1>4, <2>2, <2>3, SoundMonotone
  <2>5. QED
    BY <2>1, <2>2, <2>3, <2>4
<1>8. QED
  BY <1>5, <1>7 DEF LeftOver

\* A checkpoint that may be hydrated may follow the row that was left.
LEMMA RowsTaken ==
  ASSUME NEW R, Core(R), Stored(R), Taken(R), NEW rows \in LeftOver,
         rows.checkpoint # NoCheckpoint
  PROVE  /\ rows.checkpoint.staged # <<>> /\ rows.checkpoint.staged \in Seq(Message)
         /\ rows.checkpoint.turn \in Nat
         /\ Whole(R, rows.checkpoint.staged, rows.checkpoint.turn, user.queries)
         /\ rows.checkpoint.turn = rows.saved.turnIndex =>
               Follows(R, rows.saved, rows.checkpoint.staged)
<1>1. rows.checkpoint = disk.checkpoint /\ (rows = disk \/ Ended(rows.saved, session))
  BY RowsLeft
<1>2. PICK c \in CheckpointType : c = rows.checkpoint
  BY <1>1, Types DEF Core, DiskType
<1>3. /\ c.staged # <<>> /\ c.turn <= session.turnIndex
      /\ Whole(R, c.staged, c.turn, user.queries)
      /\ c.turn = disk.saved.turnIndex => Follows(R, disk.saved, c.staged)
      /\ c.turn = session.turnIndex => Follows(R, session, c.staged)
  BY <1>1, <1>2 DEF Taken
<1>4. c.turn \in Nat /\ c.staged \in Seq(Message) /\ session.turnIndex \in Nat
  BY <1>2, Types DEF CheckpointType, Core
<1>5. c.turn = rows.saved.turnIndex => Follows(R, rows.saved, c.staged)
  <2>1. CASE rows = disk
    BY <1>3, <2>1
  <2>2. CASE Ended(rows.saved, session) /\ rows.saved.turnIndex = session.turnIndex + 1
    BY <1>3, <1>4, <2>2
  <2>3. CASE Ended(rows.saved, session) /\ rows.saved.turnIndex = session.turnIndex
    <3>1. /\ rows.saved.committed = session.committed /\ rows.saved.pinned = session.pinned
      BY <1>4, <2>3 DEF Ended
    <3>2. QED
      BY <1>3, <2>3, <3>1 DEF Follows
  <2>4. QED
    BY <1>1, <2>1, <2>2, <2>3 DEF Ended
<1>6. QED
  BY <1>2, <1>3, <1>4, <1>5

\* A crashed turn is frozen as it was hydrated.
LEMMA CrashedFacts ==
  ASSUME NEW R, NEW s, NEW n \in Nat, SoundBy(R, s, n), TurnNumbersIncrease(s),
         NEW c, c.staged \in Seq(Message), c.staged # <<>>,
         Whole(R, c.staged, s.turnIndex, n), Follows(R, s, c.staged),
         \A k \in DOMAIN c.staged : Precede(R, c.staged[k].body, s.pending),
         NEW r, r = Crashed(s, c)
  PROVE  /\ SoundBy(R, r, n) /\ TurnNumbersIncrease(r)
         /\ r.state = "Idle" /\ r.pending = s.pending /\ r.pinned = s.pinned
         /\ s.nextId <= r.nextId
         /\ \/ /\ r.turnIndex = s.turnIndex + 1
               /\ \E full \in Seq(Message) :
                     r.committed = Append(s.committed, full) /\ Begins(c.staged, full)
            \/ /\ r.turnIndex = s.turnIndex /\ r.committed = s.committed
               /\ \A k \in DOMAIN c.staged : c.staged[k].kind = "user"
<1>1. PICK m \in Seq(Message) : m = c.staged
  OBVIOUS
<1>2. PICK h : h = HydrateInflight(s, m)
  OBVIOUS
<1>3. s \in Session /\ \A k, l \in DOMAIN m : k < l => m[k].id < m[l].id
  BY <1>1 DEF SoundBy, Whole
<1>4. /\ h \in Session /\ h.committed = s.committed
      /\ h.pending = s.pending /\ h.pinned = s.pinned /\ h.turnIndex = s.turnIndex
      /\ StagingAll(h) = m /\ s.nextId <= h.nextId
      /\ h.staged = <<>> => \A k \in DOMAIN m : m[k].kind = "user"
  BY <1>1, <1>2, <1>3, HydrateFields
<1>5. SoundBy(R, h, n)
  BY <1>1, <1>2, HydrateKeeps
<1>6. TurnNumbersIncrease(h)
  BY <1>4 DEF TurnNumbersIncrease
<1>7. PICK closing \in BOOLEAN : r = InterruptTurn(h, closing)
  <2>1. Crashed(s, c) = InterruptTurn(h, FALSE)
    BY <1>1, <1>2 DEF Crashed
  <2>2. PICK closing : closing = FALSE
    OBVIOUS
  <2>3. QED
    BY Zenon, <2>1, <2>2
<1>8. SoundBy(R, r, n) /\ TurnNumbersIncrease(r)
  BY <1>4, <1>5, <1>6, <1>7, InterruptKeeps
<1>9. Ended(r, h) /\ r.pending = h.pending
  BY <1>4, <1>7, InterruptEnds, InterruptFields
<1>10. s.nextId <= r.nextId
  <2>1. s.nextId \in Nat /\ h.nextId \in Nat /\ r.nextId \in Nat /\ h.nextId <= r.nextId
    BY <1>3, <1>4, <1>9 DEF Ended, Session
  <2>2. QED
    BY <1>4, <2>1
<1>11. QED
  BY <1>1, <1>4, <1>7, <1>8, <1>9, <1>10 DEF Ended

\* What a process that takes the session up makes of the rows, if it can read the
\* checkpoint, and deletes it.
Reloads(rows, readable, deleted, saved) ==
    /\ readable \/ InflightMayFail
    /\ deleted \/ InflightMayFail
    /\ disk' = [saved |-> saved,
                checkpoint |-> IF deleted THEN NoCheckpoint ELSE rows.checkpoint]
    /\ \/ /\ readable /\ Hydrates(rows.saved, rows.checkpoint)
          /\ session' = Crashed(rows.saved, rows.checkpoint)
          /\ saved \in SavedOver(session', rows.saved)
          /\ life'.reloaded = life.reloaded \cup (Inputs(rows.checkpoint.staged)
                                                   \cap Range(rows.saved.pending))
       \/ /\ ~(readable /\ Hydrates(rows.saved, rows.checkpoint))
          /\ session' = rows.saved /\ saved = rows.saved
          /\ life'.reloaded = life.reloaded

\* A new process does that with the rows that were left over.
LEMMA ReloadIs ==
  ASSUME NEW R, Core(R), Stored(R), Reboot
  PROVE  \E rows \in LeftOver, readable \in BOOLEAN, deleted \in BOOLEAN :
            \E saved : Reloads(rows, readable, deleted, saved)
<1>1. PICK rows \in LeftOver, readable \in {TRUE} \cup (IF InflightMayFail THEN {FALSE} ELSE {}) :
        Reload(rows, readable)
  BY DEF Reboot
<1>2. readable \in BOOLEAN /\ (readable \/ InflightMayFail)
  BY Zenon, <1>1
<1>3. FromSnapshot(rows.saved) = rows.saved
  <2>1. user.queries \in Nat /\ SoundBy(R, rows.saved, user.queries) /\ rows.saved.state = "Idle"
    BY RowsLeft, LooperAssumption DEF Core, TypeOK
  <2>2. QED
    BY <2>1, LoadedAsSaved
<1>4. PICK s, c : s = rows.saved /\ c = rows.checkpoint
  OBVIOUS
<1>6. /\ session' = IF readable /\ Hydrates(s, c) THEN Crashed(s, c) ELSE s
      /\ life'.reloaded = IF readable /\ Hydrates(s, c)
                          THEN life.reloaded \cup (Inputs(c.staged) \cap Range(s.pending))
                          ELSE life.reloaded
  BY <1>1, <1>3, <1>4 DEF Reload
<1>7. PICK saved, deleted :
        /\ saved \in IF readable /\ Hydrates(s, c) THEN SavedOver(session', s) ELSE {s}
        /\ deleted \in {readable} \cup (IF InflightMayFail THEN {FALSE} ELSE {})
        /\ disk' = [saved |-> saved, checkpoint |-> IF deleted THEN NoCheckpoint ELSE c]
  BY Zenon, <1>1, <1>3, <1>4 DEF Reload
<1>8. deleted \in BOOLEAN /\ (deleted \/ InflightMayFail)
  BY Zenon, <1>2, <1>7
<1>9. CASE readable /\ Hydrates(s, c)
  BY <1>2, <1>4, <1>6, <1>7, <1>8, <1>9 DEF Reloads
<1>10. CASE ~(readable /\ Hydrates(s, c))
  BY <1>2, <1>4, <1>6, <1>7, <1>8, <1>10 DEF Reloads
<1>11. QED
  BY <1>9, <1>10

\* What holds for the old relation holds for one that allows more.
LEMMA FollowsWeaker ==
  ASSUME NEW R, NEW Q, R \subseteq Q, NEW s, NEW m, NEW number, NEW n
  PROVE  /\ Follows(R, s, m) => Follows(Q, s, m)
         /\ Whole(R, m, number, n) => Whole(Q, m, number, n)
<1>1. \A v, w : Precede(R, v, w) => Precede(Q, v, w)
  BY DEF Precede
<1>2. \A v : Chain(R, v) => Chain(Q, v)
  BY DEF Chain
<1>3. QED
  BY <1>1, <1>2 DEF Follows, Whole

\* s is the session the rows have, r the one the next process makes of it and saves.
Restarts(Q, s, r) ==
    /\ s \in Session /\ SoundBy(Q, s, user.queries) /\ TurnNumbersIncrease(s) /\ s.state = "Idle"
    /\ s = disk.saved \/ Ended(s, session)
    /\ disk.checkpoint # NoCheckpoint /\ disk.checkpoint.turn = s.turnIndex =>
          Follows(Q, s, disk.checkpoint.staged)
    /\ r \in Session /\ SoundBy(Q, r, user.queries) /\ TurnNumbersIncrease(r) /\ r.state = "Idle"
    /\ s.nextId <= r.nextId /\ r.pending = s.pending /\ r.pinned = s.pinned
    /\ \/ r = s /\ (Hydrates(s, disk.checkpoint) => InflightMayFail)
       \/ /\ Hydrates(s, disk.checkpoint) /\ r.turnIndex = s.turnIndex + 1
          /\ \E full \in Seq(Message) :
                r.committed = Append(s.committed, full) /\ Begins(disk.checkpoint.staged, full)
       \/ /\ r.turnIndex = s.turnIndex /\ r.committed = s.committed
          /\ \A k \in DOMAIN disk.checkpoint.staged : disk.checkpoint.staged[k].kind = "user"
    /\ session' = r
    /\ disk'.saved = r \/ (disk'.saved = s /\ SaveMayFail)
    /\ \/ disk'.checkpoint = NoCheckpoint
       \/ disk'.checkpoint = disk.checkpoint /\ InflightMayFail
    /\ disk' = [saved |-> disk'.saved, checkpoint |-> disk'.checkpoint]

\* The session of the next process is sound, and so is the one it was made of.
LEMMA RebootFacts ==
  ASSUME NEW R, Core(R), Stored(R), Taken(R), R = Distinct(life.reloaded),
         NEW Q, Q = Distinct(life'.reloaded), Reboot
  PROVE  /\ R \subseteq Q /\ user.queries \in Nat
         /\ \E s, r : Restarts(Q, s, r)
<1>1. user.queries \in Nat
  BY LooperAssumption DEF Core, TypeOK
<1>2. PICK rows \in LeftOver, readable \in BOOLEAN, deleted \in BOOLEAN :
        \E saved : Reloads(rows, readable, deleted, saved)
  BY ReloadIs
<1>3. PICK saved : Reloads(rows, readable, deleted, saved)
  BY <1>2
<1>4. /\ readable \/ InflightMayFail
      /\ deleted \/ InflightMayFail
      /\ disk' = [saved |-> saved,
                  checkpoint |-> IF deleted THEN NoCheckpoint ELSE rows.checkpoint]
      /\ \/ /\ readable /\ Hydrates(rows.saved, rows.checkpoint)
            /\ session' = Crashed(rows.saved, rows.checkpoint)
            /\ saved \in SavedOver(session', rows.saved)
            /\ life'.reloaded = life.reloaded \cup (Inputs(rows.checkpoint.staged)
                                                     \cap Range(rows.saved.pending))
         \/ /\ ~(readable /\ Hydrates(rows.saved, rows.checkpoint))
            /\ session' = rows.saved /\ saved = rows.saved
            /\ life'.reloaded = life.reloaded
  BY <1>3 DEF Reloads
<1>5. PICK s, c, n : s = rows.saved /\ c = rows.checkpoint /\ n = user.queries
  OBVIOUS
<1>6. /\ SoundBy(R, s, n) /\ TurnNumbersIncrease(s) /\ s.state = "Idle" /\ n \in Nat
      /\ c = disk.checkpoint /\ (s = disk.saved \/ Ended(s, session)) /\ s \in Session
  BY <1>1, <1>5, RowsLeft DEF SoundBy
<1>7. R \subseteq Q
  BY <1>4 DEF Distinct
<1>8. SoundBy(Q, s, n)
  BY <1>6, <1>7, SoundWeaker
<1>9. c # NoCheckpoint =>
        /\ c.staged # <<>> /\ c.staged \in Seq(Message) /\ Whole(Q, c.staged, c.turn, n)
        /\ c.turn = s.turnIndex => Follows(Q, s, c.staged)
  <2>1. c # NoCheckpoint =>
          /\ c.staged # <<>> /\ c.staged \in Seq(Message) /\ Whole(R, c.staged, c.turn, n)
          /\ c.turn = s.turnIndex => Follows(R, s, c.staged)
    BY <1>5, RowsTaken
  <2>2. QED
    BY <1>7, <2>1, FollowsWeaker
<1>10. /\ disk'.saved = saved /\ disk' = [saved |-> saved, checkpoint |-> disk'.checkpoint]
       /\ disk'.checkpoint = NoCheckpoint \/ (disk'.checkpoint = c /\ InflightMayFail)
  BY <1>4, <1>5
<1>11. PICK r : r = session'
  OBVIOUS
<1>12. CASE /\ readable /\ Hydrates(s, c)
            /\ session' = Crashed(s, c) /\ saved \in SavedOver(session', s)
            /\ life'.reloaded = life.reloaded \cup (Inputs(c.staged) \cap Range(s.pending))
  <2>1. c # NoCheckpoint /\ c.turn = s.turnIndex
    BY <1>12 DEF Hydrates
  <2>2. ASSUME NEW k \in DOMAIN c.staged
        PROVE  Precede(Q, c.staged[k].body, s.pending)
    <3>1. PICK v \in Seq(Nat), w \in Seq(Nat) : v = c.staged[k].body /\ w = s.pending
      <4>1. c.staged[k].body \in Seq(Nat)
        BY <1>9, <2>1, MessagesAre
      <4>2. s.pending \in Seq(Nat)
        BY <1>6 DEF Session
      <4>3. QED
        BY <4>1, <4>2
    <3>2. ASSUME NEW a \in DOMAIN v, NEW b \in DOMAIN w
          PROVE  <<v[a], w[b]>> \in Q
      <4>1. v[a] \in Nat /\ w[b] \in Nat
        BY <3>2, SeqElement
      <4>2. v[a] \in Range(v) /\ w[b] \in Range(w)
        BY <3>2 DEF Range
      <4>3. Range(v) \subseteq Inputs(c.staged)
        BY <2>2, <3>1 DEF Inputs
      <4>4. v[a] = w[b] => v[a] \in life'.reloaded
        BY <1>12, <3>1, <4>2, <4>3
      <4>5. QED
        BY <4>1, <4>4 DEF Distinct
    <3>3. QED
      BY <3>1, <3>2 DEF Precede
  <2>3. Whole(Q, c.staged, s.turnIndex, n) /\ Follows(Q, s, c.staged)
        /\ c.staged \in Seq(Message) /\ c.staged # <<>>
        /\ r = Crashed(s, c) /\ SoundBy(Q, s, n) /\ TurnNumbersIncrease(s) /\ n \in Nat
    BY <1>6, <1>8, <1>9, <1>11, <1>12, <2>1
  <2>4. /\ SoundBy(Q, r, n) /\ TurnNumbersIncrease(r)
        /\ r.state = "Idle" /\ r.pending = s.pending /\ r.pinned = s.pinned
        /\ s.nextId <= r.nextId
        /\ \/ /\ r.turnIndex = s.turnIndex + 1
              /\ \E full \in Seq(Message) :
                    r.committed = Append(s.committed, full) /\ Begins(c.staged, full)
           \/ /\ r.turnIndex = s.turnIndex /\ r.committed = s.committed
              /\ \A k \in DOMAIN c.staged : c.staged[k].kind = "user"
    BY <2>2, <2>3, CrashedFacts
  <2>5. (saved = r \/ (saved = s /\ SaveMayFail)) /\ r \in Session
    BY <1>11, <1>12, <2>4 DEF SavedOver, SoundBy
  <2>6. Restarts(Q, s, r)
    BY <1>5, <1>6, <1>8, <1>9, <1>10, <1>11, <1>12, <2>4, <2>5 DEF Restarts
  <2>7. QED
    BY <1>1, <1>7, <2>6
<1>13. CASE ~(readable /\ Hydrates(s, c)) /\ session' = s /\ saved = s
  <2>1. r = s /\ s.nextId <= s.nextId
    BY <1>6, <1>11, <1>13 DEF Session
  <2>2. Hydrates(s, c) => InflightMayFail
    BY <1>4, <1>13
  <2>3. Restarts(Q, s, r)
    BY <1>5, <1>6, <1>8, <1>9, <1>10, <1>11, <1>13, <2>1, <2>2 DEF Restarts
  <2>4. QED
    BY <1>1, <1>7, <2>3
<1>14. QED
  BY <1>4, <1>5, <1>12, <1>13

\* The next process starts where a loop may start.
LEMMA RebootCore ==
  ASSUME NEW R, Core(R), NEW Q, NEW s, NEW r, Restarts(Q, s, r), user.queries \in Nat, Reboot
  PROVE  /\ Core(Q)' /\ StagingAll(r) = <<>>
         /\ user'.queue = <<>> /\ user'.queries = user.queries
<1>1. TypeOK
  BY DEF Core
<1>2. /\ user' = [user EXCEPT !.queue = <<>>, !.closed = FALSE, !.dropped = FALSE]
      /\ loop' = [pc |-> "top", state |-> "Idle", armed |-> TRUE, pause |-> FALSE,
                  cancel |-> FALSE, reason |-> "none"]
      /\ turn' = FreshTurn
      /\ seen' = [panicked |-> {}, pause |-> FALSE]
  BY DEF Reboot
<1>3. /\ r \in Session /\ SoundBy(Q, r, user.queries) /\ TurnNumbersIncrease(r)
      /\ r.state = "Idle" /\ session' = r
  BY DEF Restarts
<1>4. user' \in UserType /\ user'.queue = <<>> /\ user'.queries = user.queries
  <2>1. user \in UserType
    BY <1>1 DEF TypeOK, UserType
  <2>2. PICK q \in Seq(UserMsg) : q = <<>>
    BY EmptySeq
  <2>3. user' = [user EXCEPT !.queue = q, !.closed = FALSE, !.dropped = FALSE]
    BY <1>2, <2>2
  <2>4. QED
    BY <2>1, <2>2, <2>3 DEF UserType
<1>5. /\ loop' \in LoopType /\ loop'.pc = "top" /\ loop'.state = "Idle" /\ loop'.pause = FALSE
  BY <1>2 DEF LoopType, LooperState, Reason
<1>6. /\ turn' \in TurnType /\ turn'.stream = FALSE /\ turn'.spawned = FALSE /\ turn'.tools = <<>>
  BY <1>2, FreshTurnFacts
<1>7. disk' \in DiskType
  <2>1. disk \in DiskType
    BY <1>1, Types
  <2>2. disk'.saved \in Session /\ disk'.checkpoint \in CheckpointType \cup {NoCheckpoint}
    BY <2>1 DEF Restarts, DiskType
  <2>3. disk' = [saved |-> disk'.saved, checkpoint |-> disk'.checkpoint]
    BY DEF Restarts
  <2>4. QED
    BY <2>2, <2>3 DEF DiskType
<1>8. seen' \in SeenType
  BY <1>2 DEF SeenType
<1>9. TypeOK'
  BY <1>3, <1>4, <1>5, <1>6, <1>7, <1>8
     DEF TypeOK, UserType, LoopType, TurnType, DiskType, CheckpointType, SeenType
<1>10. Phases'
  <2>1. DOMAIN turn'.tools = {}
    BY <1>6
  <2>2. QED
    BY <1>5, <1>6, <2>1 DEF Phases, Paused
<1>11. Agrees'
  BY <1>3, <1>5 DEF Agrees, QueuedIsArmed
<1>12. Arrivals(Q)'
  <2>1. DOMAIN user'.queue = {}
    BY <1>4
  <2>2. Awaits(user'.queue, user'.queries, user'.queries)
    BY <2>1 DEF Awaits
  <2>3. user'.queries \in 0 .. user'.queries
    BY <1>4
  <2>4. QED
    BY <1>3, <1>4, <2>2, <2>3 DEF Arrivals
<1>13. StagingAll(r) = <<>>
  BY <1>3, IdleHasNothing
<1>14. QED
  BY <1>4, <1>9, <1>10, <1>11, <1>12, <1>13 DEF Core

\* Rows that are left behind can be taken up once more, unless both writes of the end
\* of a turn failed.
LEMMA RebootRestartable ==
  ASSUME NEW R, Restartable(R), R = Distinct(life.reloaded), OneWriteHolds,
         NEW Q, Q = Distinct(life'.reloaded), Reboot
  PROVE  Restartable(Q)'
<1>1. Core(R) /\ Saved /\ Stored(R) /\ Taken(R) /\ session.turnIndex \in Nat /\ disk \in DiskType
  BY Types DEF Restartable, Core
<1>2. PICK s, r : Restarts(Q, s, r)
  BY <1>1, RebootFacts
<1>3. R \subseteq Q /\ user.queries \in Nat
  BY <1>1, RebootFacts
<1>4. /\ Core(Q)' /\ StagingAll(r) = <<>> /\ user'.queue = <<>> /\ user'.queries = user.queries
  BY <1>1, <1>2, <1>3, RebootCore
<1>5. /\ s \in Session /\ SoundBy(Q, s, user.queries) /\ TurnNumbersIncrease(s) /\ s.state = "Idle"
      /\ r \in Session /\ SoundBy(Q, r, user.queries) /\ TurnNumbersIncrease(r) /\ r.state = "Idle"
      /\ s.nextId <= r.nextId /\ r.pending = s.pending /\ r.pinned = s.pinned
      /\ session' = r /\ (disk'.saved = r \/ disk'.saved = s) /\ (~SaveMayFail => disk'.saved = r)
  BY <1>2 DEF Restarts
<1>6. Saved' /\ Headed' /\ InCheckpoint'
  <2>1. DOMAIN StagingAll(session') = {}
    BY <1>4, <1>5
  <2>2. QED
    BY <1>5, <2>1, StripIsHeld DEF Saved, WritesHold, Headed, InCheckpoint
<1>7. Stored(Q)'
  <2>1. PICK q \in Seq(UserMsg) : q = user'.queue /\ DOMAIN q = {}
    <3>1. <<>> \in Seq(UserMsg) /\ DOMAIN <<>> = {}
      BY EmptySeq
    <3>2. QED
      BY <1>4, <3>1
  <2>2. Awaits(q, user.queries, user.queries)
    BY <2>1 DEF Awaits
  <2>3. Before \subseteq Q /\ r.nextId <= r.nextId
    BY <1>5, DistinctIs DEF Session
  <2>4. Behind(Q, r, r, q)
    BY <1>3, <1>5, <2>2, <2>3, NewRow
  <2>5. Behind(Q, s, r, q)
    BY <1>3, <1>4, <1>5, <2>2, <2>3, NewRow
  <2>6. QED
    BY <1>4, <1>5, <2>1, <2>4, <2>5 DEF Stored
<1>8. Taken(Q)'
  <2>1. CASE disk'.checkpoint = NoCheckpoint
    BY <2>1 DEF Taken
  <2>2. CASE disk'.checkpoint = disk.checkpoint /\ disk.checkpoint # NoCheckpoint /\ InflightMayFail
    <3>1. disk'.saved = r /\ disk.saved.turnIndex = session.turnIndex
      <4>1. WritesHold /\ disk.saved \in Session
        BY <1>1, <2>2 DEF OneWriteHolds, WritesHold, DiskType
      <4>2. disk.saved.turnIndex = session.turnIndex
        BY <1>1, <4>1, HeldHistory DEF Saved
      <4>3. QED
        BY <1>5, <4>1, <4>2 DEF WritesHold
    <3>2. PICK c \in CheckpointType : c = disk.checkpoint
      BY <1>1, <2>2 DEF DiskType
    <3>3. c.staged # <<>> /\ c.turn <= session.turnIndex
          /\ Whole(R, c.staged, c.turn, user.queries) /\ c.turn \in Nat
      BY <1>1, <2>2, <3>2 DEF Taken, CheckpointType
    <3>4. Whole(Q, c.staged, c.turn, user.queries)
      BY <1>3, <3>3, FollowsWeaker
    <3>5. session.turnIndex <= s.turnIndex /\ s.turnIndex \in Nat
      BY <1>1, <1>2, <1>5, <3>1 DEF Restarts, Ended, Session
    <3>6. c.turn = s.turnIndex => Follows(Q, s, c.staged)
      BY <1>2, <2>2, <3>2 DEF Restarts
    <3>7. c.turn <= r.turnIndex /\ (c.turn = r.turnIndex => Follows(Q, r, c.staged))
      <4>1. CASE r.turnIndex = s.turnIndex + 1
        BY <3>3, <3>5, <4>1, <1>1
      <4>2. CASE r.turnIndex = s.turnIndex /\ r.committed = s.committed
        <5>1. Follows(Q, s, c.staged) => Follows(Q, r, c.staged)
          BY <1>5, <4>2 DEF Follows
        <5>2. QED
          BY <1>1, <3>3, <3>5, <3>6, <4>2, <5>1
      <4>3. QED
        BY <1>2, <4>1, <4>2 DEF Restarts
    <3>8. QED
      BY <1>4, <1>5, <2>2, <3>1, <3>2, <3>3, <3>4, <3>7 DEF Taken
  <2>3. QED
    BY <1>2, <2>1, <2>2 DEF Restarts
<1>9. QED
  BY <1>4, <1>6, <1>7, <1>8 DEF Restartable

-----------------------------------------------------------------------------
(* The theorems.                                                           *)

\* At first the session is what was loaded, and there is no checkpoint.
LEMMA RecoveryInitially == RecoveryInit => RecoveryInv
<1>1. SUFFICES ASSUME RecoveryInit
               PROVE  RecoveryInv
  OBVIOUS
<1>2. Init /\ CoreInv
  BY <1>1, InitCore DEF RecoveryInit
<1>3. /\ TypeOK /\ Phases /\ Agrees /\ Arrivals(Before) /\ Saved
  BY <1>2 DEF CoreInv, Core
<1>4. /\ disk.saved = session /\ disk.checkpoint = NoCheckpoint /\ session.state = "Idle"
  BY <1>2 DEF Init, NewSession, EnqueuePending
<1>5. PICK R : R = Distinct(life.reloaded)
  OBVIOUS
<1>6. Before \subseteq R
  BY <1>5, DistinctIs
<1>7. PICK n \in 0 .. user.queries :
        SoundBy(Before, session, n) /\ Awaits(user.queue, n, user.queries)
  BY <1>3 DEF Arrivals
<1>8. /\ user.queries \in Nat /\ n \in Nat /\ n <= user.queries /\ session \in Session
      /\ user.queue \in Seq(UserMsg) /\ session.nextId <= session.nextId
  BY <1>3, LooperAssumption DEF TypeOK, Session
<1>9. SoundBy(R, session, n) /\ SoundBy(R, session, user.queries)
  <2>1. SoundBy(R, session, n)
    BY <1>6, <1>7, <1>8, SoundWeaker
  <2>2. QED
    BY <1>8, <2>1, SoundMonotone
<1>10. Core(R)
  BY <1>3, <1>7, <1>9 DEF Core, Arrivals
<1>11. Stored(R)
  <2>1. Behind(R, session, session, user.queue)
    BY <1>6, <1>7, <1>8, <1>9, NewRow
  <2>2. QED
    BY <1>3, <1>4, <1>9, <2>1 DEF Stored, Arrivals
<1>12. Headed /\ Taken(R) /\ InCheckpoint
  <2>1. StagingAll(session) = <<>>
    BY <1>4, <1>8, <1>9, IdleHasNothing
  <2>2. DOMAIN StagingAll(session) = {}
    BY <2>1
  <2>3. QED
    BY <1>4, <2>2 DEF Headed, Taken, InCheckpoint
<1>13. QED
  BY <1>3, <1>5, <1>10, <1>11, <1>12 DEF Restartable, RecoveryInv

\* Steps of the loop and of the next process keep the invariant.
LEMMA RecoveryStep ==
  ASSUME OneWriteHolds, RecoveryInv, [RecoveryNext]_recoveryVars
  PROVE  RecoveryInv'
<1>1. PICK R : R = Distinct(life.reloaded) /\ Restartable(R)
  BY DEF RecoveryInv
<1>2. PICK Q : Q = Distinct(life'.reloaded)
  OBVIOUS
<1>3. CASE Reboot
  <2>1. Restartable(Q)'
    BY <1>1, <1>2, <1>3, RebootRestartable
  <2>2. QED
    BY <1>2, <2>1 DEF RecoveryInv
<1>4. CASE [Next]_vars /\ life' = life
  <2>1. Before \subseteq R
    BY <1>1, DistinctIs
  <2>2. Restartable(R)'
    BY <1>1, <1>4, <2>1, LoopRestartable
  <2>3. R = Distinct(life'.reloaded)
    BY <1>1, <1>4
  <2>4. QED
    BY <2>2, <2>3 DEF RecoveryInv
<1>5. QED
  BY <1>3, <1>4 DEF RecoveryNext, recoveryVars

\* The inductive invariant of recovery.
THEOREM RecoveryInvariant ==
  ASSUME OneWriteHolds
  PROVE  RecoverySpec => []RecoveryInv
<1>1. RecoveryInv /\ [RecoveryNext]_recoveryVars => RecoveryInv'
  BY RecoveryStep
<1>2. QED
  BY <1>1, RecoveryInitially, PTL DEF RecoverySpec

\* Inputs at two places of the history or the queue are different, but for the
\* reloaded ones.
LEMMA OnceEach ==
  ASSUME NEW X, NEW s, NEW n \in Nat, SoundBy(Distinct(X), s, n)
  PROVE  LET T == Append(Turns(s), <<[body |-> s.pending]>>)
         IN  \A p, q \in DOMAIN T : \A i \in DOMAIN T[p], j \in DOMAIN T[q] :
               \A k \in DOMAIN T[p][i].body, l \in DOMAIN T[q][j].body :
                  T[p][i].body[k] = T[q][j].body[l] /\ T[p][i].body[k] \notin X =>
                     <<p, i, k>> = <<q, j, l>>
<1> DEFINE T == Append(Turns(s), <<[body |-> s.pending]>>)
           R == Distinct(X)
           queued == <<[body |-> s.pending]>>
<1>1. /\ s \in Session /\ Turns(s) \in Seq(Seq(Message)) /\ OrderedBy(R, Turns(s))
      /\ \A a \in DOMAIN Turns(s) : \A b \in DOMAIN Turns(s)[a] :
            Precede(R, Turns(s)[a][b].body, s.pending)
      /\ Chain(R, s.pending)
  BY TurnsFacts DEF SoundBy, InputsBy
<1>2. PICK U \in Seq(Seq(Message)) : U = Turns(s)
  BY <1>1
<1>3. PICK d : d = Len(U) + 1
  OBVIOUS
<1>4. /\ d \in Nat /\ d \notin DOMAIN U /\ T[d] = queued
      /\ \A a \in DOMAIN T : \/ a \in DOMAIN U /\ a \in Nat /\ T[a] = U[a] /\ a < d
                             \/ a = d
  <2>1. /\ Len(U) \in Nat /\ DOMAIN U = 1 .. Len(U) /\ DOMAIN T = 1 .. Len(U) + 1
        /\ \A a \in 1 .. Len(U) : T[a] = U[a]
        /\ T[Len(U) + 1] = queued
    BY <1>2, LenProperties
  <2>2. PICK c \in Nat : c = Len(U)
    BY <2>1
  <2>3. \A a \in 1 .. c + 1 : (a \in Nat /\ a \in 1 .. c /\ a < c + 1) \/ a = c + 1
    OBVIOUS
  <2>4. c + 1 \in Nat /\ c + 1 \notin 1 .. c
    OBVIOUS
  <2> HIDE DEF queued
  <2>5. d = c + 1 /\ DOMAIN U = 1 .. c /\ DOMAIN T = 1 .. c + 1 /\ T[d] = queued
    BY <1>3, <2>1, <2>2
  <2>6. \A a \in 1 .. c : T[a] = U[a]
    BY <2>1, <2>2
  <2>7. QED
    BY <2>3, <2>4, <2>5, <2>6
<1>5. DOMAIN queued = {1} /\ queued[1].body = s.pending
  OBVIOUS
<1> HIDE DEF queued, R, T
<1>6. \A a \in DOMAIN T : \A b \in DOMAIN T[a] : Chain(R, T[a][b].body)
  BY <1>1, <1>2, <1>4, <1>5 DEF OrderedBy
<1>7. \A a, e \in DOMAIN T : \A b \in DOMAIN T[a], f \in DOMAIN T[e] :
         Precedes(a, b, e, f) => Precede(R, T[a][b].body, T[e][f].body)
  <2>1. ASSUME NEW a \in DOMAIN T, NEW e \in DOMAIN T,
               NEW b \in DOMAIN T[a], NEW f \in DOMAIN T[e], Precedes(a, b, e, f)
        PROVE  Precede(R, T[a][b].body, T[e][f].body)
    <3>1. CASE a \in DOMAIN U /\ T[a] = U[a] /\ e \in DOMAIN U /\ T[e] = U[e]
      BY <1>1, <1>2, <2>1, <3>1 DEF OrderedBy
    <3>2. CASE a \in DOMAIN U /\ T[a] = U[a] /\ e = d
      BY <1>1, <1>2, <1>4, <1>5, <2>1, <3>2
    <3>3. CASE a = d /\ (e = d \/ (e \in Nat /\ e < d))
      <4>1. e = d /\ b < f
        BY <1>4, <2>1, <3>3 DEF Precedes
      <4>2. b = 1 /\ f = 1
        BY <1>4, <1>5, <2>1, <3>3, <4>1
      <4>3. QED
        BY <4>1, <4>2
    <3>4. QED
      BY <1>4, <3>1, <3>2, <3>3
  <2>2. QED
    BY <2>1
<1>8. ASSUME NEW p \in DOMAIN T, NEW q \in DOMAIN T, NEW i \in DOMAIN T[p], NEW j \in DOMAIN T[q],
             NEW k \in DOMAIN T[p][i].body, NEW l \in DOMAIN T[q][j].body,
             T[p][i].body[k] = T[q][j].body[l], T[p][i].body[k] \notin X
      PROVE  <<p, i, k>> = <<q, j, l>>
  <2>1. PICK x : x = T[p][i].body[k] /\ x = T[q][j].body[l]
    BY <1>8
  <2>2. <<x, x>> \notin R
    BY <1>8, <2>1 DEF R, Distinct
  <2>3. p \in Nat /\ q \in Nat /\ i \in Nat /\ j \in Nat /\ k \in Nat /\ l \in Nat
    <3>1. \A a \in DOMAIN T : a \in Nat /\ \A b \in DOMAIN T[a] :
             b \in Nat /\ T[a][b].body \in Seq(Nat)
      <4>1. ASSUME NEW a \in DOMAIN U, NEW b \in DOMAIN U[a]
            PROVE  b \in Nat /\ U[a][b].body \in Seq(Nat)
        <5>1. U[a] \in Seq(Message)
          BY SeqElement
        <5>2. PICK m \in Seq(Message) : m = U[a]
          BY <5>1
        <5>3. DOMAIN m \subseteq Nat
          BY LenProperties
        <5>4. QED
          BY <4>1, <5>2, <5>3, MessagesAre
      <4>2. s.pending \in Seq(Nat)
        BY <1>1 DEF Session
      <4>3. ASSUME NEW b \in DOMAIN T[d]
            PROVE  b \in Nat /\ T[d][b].body \in Seq(Nat)
        <5>1. b = 1
          BY <1>4, <1>5, <4>3
        <5>2. QED
          BY <1>4, <1>5, <4>2, <5>1
      <4>4. QED
        BY <1>4, <4>1, <4>3
    <3>2. \A v \in Seq(Nat) : DOMAIN v \subseteq Nat
      BY LenProperties
    <3>3. QED
      BY <3>1, <3>2
  <2>4. ~Precedes(p, i, q, j) /\ ~Precedes(q, j, p, i)
    <3>1. PICK v, w : v = T[p][i].body /\ w = T[q][j].body
      OBVIOUS
    <3>2. k \in DOMAIN v /\ l \in DOMAIN w /\ v[k] = x /\ w[l] = x
      BY <2>1, <3>1
    <3>3. ~Precede(R, v, w) /\ ~Precede(R, w, v)
      BY <2>2, <3>2 DEF Precede
    <3>4. QED
      BY <1>7, <3>1, <3>3
  <2>5. p = q /\ i = j
    BY <2>3, <2>4 DEF Precedes
  <2>6. ~(k < l) /\ ~(l < k)
    <3>1. PICK v : v = T[p][i].body
      OBVIOUS
    <3>2. k \in DOMAIN v /\ l \in DOMAIN v /\ v[k] = x /\ v[l] = x
      BY <2>1, <2>5, <3>1
    <3>3. Chain(R, v)
      BY <1>6, <3>1
    <3>4. QED
      BY <2>2, <3>2, <3>3 DEF Chain
  <2>7. QED
    BY <2>3, <2>5, <2>6
<1>9. QED
  BY <1>8 DEF T

\* After any number of crashes the session a process finds is legal, and no input
\* stands in it twice but for those found both queued and in the checkpoint.
THEOREM RestartsAreSound ==
  ASSUME OneWriteHolds
  PROVE  RecoverySpec => []RestartIsSound
<1>1. RecoveryInv => RestartIsSound
  <2>1. SUFFICES ASSUME RecoveryInv
                 PROVE  RestartIsSound
    OBVIOUS
  <2>2. PICK R : R = Distinct(life.reloaded) /\ Restartable(R)
    BY <2>1 DEF RecoveryInv
  <2>3. TypeOK /\ Arrivals(R)
    BY <2>2 DEF Restartable, Core
  <2>4. TurnNumbersIncrease(session) /\ \E n \in 0 .. user.queries : SoundBy(R, session, n)
    BY <2>3 DEF Arrivals
  <2>5. user.queries \in Nat
    BY <2>3, LooperAssumption DEF TypeOK
  <2>6. PICK n \in Nat : SoundBy(Distinct(life.reloaded), session, n)
    BY <2>2, <2>4, <2>5
  <2>7. HistoryIsLegal
    BY <2>4, <2>6 DEF HistoryIsLegal, SoundBy
  <2>8. InputsRunOnce
    BY <2>6, OnceEach DEF InputsRunOnce
  <2>9. QED
    BY <2>7, <2>8 DEF RestartIsSound
<1>2. QED
  BY <1>1, RecoveryInvariant, PTL

\* A turn more leaves those before it where they were.
LEMMA AppendBegins ==
  ASSUME NEW p \in Seq(Seq(Message)), NEW q \in Seq(Seq(Message)), NEW x \in Seq(Message),
         Begins(p, q)
  PROVE  Begins(p, Append(q, x))
         /\ Len(q) + 1 \in DOMAIN Append(q, x) /\ Append(q, x)[Len(q) + 1] = x
<1>1. Len(p) \in Nat /\ Len(q) \in Nat
  BY LenProperties
<1>2. PICK r \in Seq(Seq(Message)) : r = Append(q, x)
  BY AppendProperties
<1>3. Len(r) = Len(q) + 1 /\ DOMAIN r = 1 .. Len(r) /\ r[Len(q) + 1] = x
      /\ \A i \in 1 .. Len(q) : r[i] = q[i]
  BY <1>2, AppendProperties, LenProperties
<1>4. Begins(p, r)
  <2>1. Len(p) <= Len(q) /\ \A i \in 1 .. Len(p) : p[i] = q[i]
    BY DEF Begins
  <2>2. Len(p) <= Len(r) /\ \A i \in 1 .. Len(p) : i \in 1 .. Len(q)
    BY <1>1, <1>3, <2>1
  <2>3. QED
    BY <1>3, <2>1, <2>2 DEF Begins
<1>5. Len(q) + 1 \in DOMAIN r
  BY <1>1, <1>3
<1>6. QED
  BY <1>2, <1>3, <1>4, <1>5

\* What ended, and what tools returned, is in the history of the next process.
LEMMA SurvivesStep ==
  ASSUME RecoveryInv, Reboot, WritesHold, ~InflightMayFail
  PROVE  /\ HoldsTurns(session'.committed, session.committed)
         /\ \A i \in DOMAIN session.staged : session.staged[i].kind = "output" =>
               \E p \in DOMAIN session'.committed :
                  session.staged[i] \in Range(session'.committed[p])
<1>1. PICK R : R = Distinct(life.reloaded) /\ Restartable(R)
  BY DEF RecoveryInv
<1>2. Core(R) /\ Saved /\ Stored(R) /\ Taken(R) /\ InCheckpoint /\ session \in Session
  BY <1>1 DEF Restartable, Core, TypeOK
<1>3. PICK Q, s, r : Q = Distinct(life'.reloaded) /\ Restarts(Q, s, r)
  BY <1>1, <1>2, RebootFacts
<1>4. /\ s \in Session /\ r \in Session /\ session' = r /\ (s = disk.saved \/ Ended(s, session))
      /\ \/ r = s /\ ~Hydrates(s, disk.checkpoint)
         \/ \E full \in Seq(Message) :
               r.committed = Append(s.committed, full) /\ Begins(disk.checkpoint.staged, full)
         \/ /\ r.committed = s.committed
            /\ \A k \in DOMAIN disk.checkpoint.staged : disk.checkpoint.staged[k].kind = "user"
  BY <1>3 DEF Restarts
<1>5. /\ disk.saved.turnIndex = session.turnIndex
      /\ Len(disk.saved.committed) = Len(session.committed)
      /\ \A p \in DOMAIN session.committed :
            \/ session.committed[p] = disk.saved.committed[p]
            \/ session.committed[p] = StripTurn(disk.saved.committed[p])
  <2>1. disk.saved \in Session
    BY <1>2, Types DEF Core, DiskType
  <2>2. QED
    BY <1>2, <2>1, HeldHistory DEF Saved
<1>6. PICK A \in Seq(Seq(Message)), B \in Seq(Seq(Message)), C \in Seq(Seq(Message)) :
         A = session.committed /\ B = s.committed /\ C = r.committed
  BY <1>2, <1>4 DEF Session
<1>7. Begins(A, A) /\ Begins(B, B)
  BY LenProperties DEF Begins
<1>8. \/ s = disk.saved
      \/ B = A /\ session.staged = <<>>
      \/ \E full \in Seq(Message) : B = Append(A, full) /\ Begins(StagingAll(session), full)
  BY <1>4, <1>6 DEF Ended
<1>9. C = B \/ \E full \in Seq(Message) : C = Append(B, full)
  BY <1>4, <1>6
<1>10. Begins(B, C) /\ (s = disk.saved \/ Begins(A, B))
  <2>1. ASSUME NEW full \in Seq(Message), B = Append(A, full)
        PROVE  Begins(A, B)
    BY <1>7, <2>1, AppendBegins
  <2>2. ASSUME NEW full \in Seq(Message), C = Append(B, full)
        PROVE  Begins(B, C)
    BY <1>7, <2>2, AppendBegins
  <2>3. QED
    BY <1>7, <1>8, <1>9, <2>1, <2>2
<1>11. /\ Len(A) \in Nat /\ Len(B) \in Nat /\ Len(C) \in Nat
       /\ DOMAIN A = 1 .. Len(A) /\ DOMAIN B = 1 .. Len(B) /\ DOMAIN C = 1 .. Len(C)
  BY LenProperties
<1>12. HoldsTurns(C, A)
  <2>1. CASE s = disk.saved
    <3>1. /\ Len(B) = Len(A)
          /\ \A p \in DOMAIN A : A[p] = B[p] \/ A[p] = StripTurn(B[p])
      BY <1>5, <1>6, <2>1
    <3>2. Len(A) <= Len(C) /\ \A p \in DOMAIN A : C[p] = B[p]
      BY <1>10, <1>11, <3>1 DEF Begins
    <3>3. QED
      BY <3>1, <3>2 DEF HoldsTurns
  <2>2. CASE Begins(A, B)
    <3>1. Begins(A, C)
      BY <1>10, <1>11, <2>2 DEF Begins
    <3>2. Len(A) <= Len(C) /\ \A p \in DOMAIN A : C[p] = A[p]
      BY <1>11, <3>1 DEF Begins
    <3>3. QED
      BY <3>2 DEF HoldsTurns
  <2>3. QED
    BY <1>10, <2>1, <2>2
<1>13. ASSUME NEW i \in DOMAIN session.staged, session.staged[i].kind = "output"
       PROVE  \E p \in DOMAIN C : session.staged[i] \in Range(C[p])
  <2>1. PICK a \in Seq(Message) : a = StagingAll(session)
    BY <1>2, TurnsFacts
  <2>2. PICK k \in DOMAIN a : a[k] = session.staged[i]
    <3>1. PICK u \in Seq(Message), v \in Seq(Message) :
             u = session.userInput /\ v = session.staged
      BY <1>2 DEF Session
    <3>2. a = u \o v
      BY <2>1, <3>1 DEF StagingAll
    <3>3. /\ DOMAIN v = 1 .. Len(v) /\ DOMAIN (u \o v) = 1 .. Len(u) + Len(v)
          /\ \A j \in 1 .. Len(v) :
                Len(u) + j \in 1 .. Len(u) + Len(v) /\ (u \o v)[Len(u) + j] = v[j]
      BY ConcatParts
    <3>4. i \in 1 .. Len(v)
      BY <3>1, <3>3
    <3>5. Len(u) + i \in DOMAIN a /\ a[Len(u) + i] = v[i]
      BY <3>2, <3>3, <3>4
    <3>6. QED
      BY <3>1, <3>5
  <2>3. ASSUME NEW full \in Seq(Message), NEW m \in Seq(Message), Begins(m, full),
               NEW j \in DOMAIN m
        PROVE  m[j] \in Range(full)
    <3>1. /\ Len(full) \in Nat /\ Len(m) \in Nat
          /\ DOMAIN full = 1 .. Len(full) /\ DOMAIN m = 1 .. Len(m)
      BY LenProperties
    <3>2. j \in DOMAIN full /\ full[j] = m[j]
      BY <2>3, <3>1 DEF Begins
    <3>3. QED
      BY <3>2 DEF Range
  <2>4. CASE \E full \in Seq(Message) : B = Append(A, full) /\ Begins(StagingAll(session), full)
    <3>1. PICK full \in Seq(Message) : B = Append(A, full) /\ Begins(a, full)
      BY <2>1, <2>4
    <3>2. PICK p \in DOMAIN B : B[p] = full
      BY <1>7, <3>1, AppendBegins
    <3>3. p \in DOMAIN C /\ C[p] = full
      BY <1>10, <1>11, <3>2 DEF Begins
    <3>4. a[k] \in Range(full)
      BY <2>3, <3>1
    <3>5. QED
      BY <2>2, <3>3, <3>4
  <2>5. CASE s = disk.saved
    <3>1. PICK c : c = disk.checkpoint
      OBVIOUS
    <3>2. /\ c # NoCheckpoint /\ c.turn = session.turnIndex
          /\ \E j \in DOMAIN c.staged : c.staged[j] = a[k]
      BY <1>2, <1>13, <2>1, <2>2, <3>1 DEF InCheckpoint
    <3>3. c.staged # <<>> /\ c.staged \in Seq(Message)
      BY <1>2, <3>1, <3>2, Types DEF Taken, Core, DiskType, CheckpointType
    <3>4. Hydrates(s, c)
      BY <1>5, <2>5, <3>2, <3>3 DEF Hydrates
    <3>5. PICK j \in DOMAIN c.staged : c.staged[j] = a[k]
      BY <3>2
    <3>6. c.staged[j].kind # "user"
      BY <1>13, <2>2, <3>5
    <3>7. PICK full \in Seq(Message) : C = Append(B, full) /\ Begins(c.staged, full)
      BY <1>4, <1>6, <3>1, <3>4, <3>6
    <3>8. PICK p \in DOMAIN C : C[p] = full
      BY <1>7, <3>7, AppendBegins
    <3>9. a[k] \in Range(full)
      BY <2>3, <3>3, <3>5, <3>7
    <3>10. QED
      BY <2>2, <3>8, <3>9
  <2>6. CASE session.staged = <<>>
    BY <1>13, <2>6
  <2>7. QED
    BY <1>8, <2>4, <2>5, <2>6
<1>14. QED
  BY <1>4, <1>6, <1>12, <1>13

\* When every write goes well, a crash loses no turn of the history, changes none but
\* to undo a strip, and keeps what tools returned in the turn it interrupts.
THEOREM FinishedWorkIsKept == RecoverySpec => FinishedWorkSurvives
<1> DEFINE Survives ==
      Reboot /\ WritesHold /\ ~InflightMayFail =>
        /\ HoldsTurns(session'.committed, session.committed)
        /\ \A i \in DOMAIN session.staged : session.staged[i].kind = "output" =>
              \E p \in DOMAIN session'.committed :
                  session.staged[i] \in Range(session'.committed[p])
<1>1. CASE OneWriteHolds
  <2>1. RecoverySpec => []RecoveryInv
    BY <1>1, RecoveryInvariant
  <2>2. RecoveryInv /\ [RecoveryNext]_recoveryVars => [Survives]_recoveryVars
    BY SurvivesStep
  <2>3. RecoverySpec => [][Survives]_recoveryVars
    BY <2>1, <2>2, PTL DEF RecoverySpec
  <2>4. QED
    BY <2>3 DEF FinishedWorkSurvives
<1>2. CASE ~OneWriteHolds
  <2>1. [RecoveryNext]_recoveryVars => [Survives]_recoveryVars
    BY <1>2 DEF OneWriteHolds
  <2>2. RecoverySpec => [][Survives]_recoveryVars
    BY <2>1, PTL DEF RecoverySpec
  <2>3. QED
    BY <2>2 DEF FinishedWorkSurvives
<1>3. QED
  BY <1>1, <1>2
=============================================================================
