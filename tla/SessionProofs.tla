---------------------------- MODULE SessionProofs ----------------------------
(***************************************************************************)
(* The invariants of Session, for any number of call ids, inputs, messages *)
(* and turns.  Sound (SessionOps) is inductive on its own; the increase of *)
(* turn numbers is an invariant of Spec only, since rollback_to_turn of    *)
(* PublicSpec can break it.  What a session file holds (FilePersister)     *)
(* follows from the few ways in which a mutator treats the history; what a *)
(* request holds (Context), from where a summary and the turn in flight    *)
(* stand among the messages and from the turn numbers.                     *)
(***************************************************************************)
EXTENDS FilePersister, Context, SessionOpsProofs

\* The inductive invariants.
PublicInv == arrived \in Nat /\ SoundBy(Before, session, arrived)

Inv == PublicInv /\ TurnNumbersIncrease(session)

\* One step of the production mutators.
LEMMA NextKeeps ==
  ASSUME PublicInv, Next
  PROVE  /\ PublicInv'
         /\ TurnNumbersIncrease(session) => TurnNumbersIncrease(session)'
<1>1. arrived \in Nat /\ SoundBy(Before, session, arrived) /\ session \in Session
  BY DEF PublicInv, SoundBy
<1>2. CASE EnqueueInput
  <2>1. arrived' = arrived + 1 /\ session' = EnqueuePending(session, arrived + 1)
    BY <1>2 DEF EnqueueInput
  <2>2. QED
    BY <1>1, <2>1, EnqueueKeeps DEF PublicInv
<1>3. CASE StartTurnFromPending
  BY <1>1, <1>3, DequeueKeeps DEF StartTurnFromPending, PublicInv
<1>4. CASE SteerPending
  BY <1>1, <1>4, DrainKeeps DEF SteerPending, PublicInv
<1>5. CASE StageItem
  <2>1. session.state # "Idle" /\ arrived' = arrived
    BY <1>5 DEF StageItem, CanStage
  <2>2. CASE \E kind \in {"text", "reasoning"} : session' = Stage(session, kind, NoCall, <<>>)
    <3>1. \A kind \in {"text", "reasoning"} : kind \in Kind \ Closing
      BY DEF Kind, Closing
    <3>2. NoCall \in CallIds \cup {NoCall}
      OBVIOUS
    <3>3. QED
      BY <1>1, <2>1, <2>2, <3>1, <3>2, StageKeeps DEF PublicInv
  <2>3. CASE \E kind \in {"call", "output"}, c \in CallIds : session' = Stage(session, kind, c, <<>>)
    <3>1. \A kind \in {"call", "output"} : kind \in Kind \ Closing
      BY DEF Kind, Closing
    <3>2. \A c \in CallIds : c \in CallIds \cup {NoCall}
      OBVIOUS
    <3>3. QED
      BY <1>1, <2>1, <2>3, <3>1, <3>2, StageKeeps DEF PublicInv
  <2>4. QED
    BY <1>5, <2>2, <2>3 DEF StageItem
<1>6. CASE StageSalvage
  <2>1. /\ session.state # "Idle" /\ arrived' = arrived
        /\ session' = Stage(session, "text", NoCall, <<>>)
    BY <1>6 DEF StageSalvage, CanInterrupt
  <2>2. "text" \in Kind \ Closing /\ NoCall \in CallIds \cup {NoCall}
    BY DEF Kind, Closing
  <2>3. QED
    BY <1>1, <2>1, <2>2, StageKeeps DEF PublicInv
<1>7. CASE Truncate
  BY <1>1, <1>7, TruncateKeeps DEF Truncate, PublicInv
<1>8. CASE Commit
  BY <1>1, <1>8, CommitKeeps DEF Commit, PublicInv
<1>9. CASE Rollback
  BY <1>1, <1>9, RollbackKeeps DEF Rollback, PublicInv
<1>10. CASE Interrupt
  BY <1>1, <1>10, InterruptKeeps DEF Interrupt, PublicInv
<1>11. CASE CompactHistory
  <2>1. \A count \in 1 .. MaxTurns : count \in Nat
    BY BoundsAssumption
  <2>2. QED
    BY <1>1, <1>11, <2>1, CompactKeeps DEF CompactHistory, PublicInv
<1>12. CASE StripHistory
  <2>1. \A keep \in 0 .. MaxTurns : keep \in Nat
    BY BoundsAssumption
  <2>2. QED
    BY <1>1, <1>12, <2>1, StripKeeps DEF StripHistory, PublicInv
<1>13. CASE DropPending
  BY <1>1, <1>13, ClearPendingKeeps DEF DropPending, PublicInv
<1>14. QED
  BY <1>2, <1>3, <1>4, <1>5, <1>6, <1>7, <1>8, <1>9, <1>10, <1>11, <1>12, <1>13 DEF Next

\* One step of the two mutators only tests call.
LEMMA PublicNextKeeps ==
  ASSUME PublicInv, PublicNext
  PROVE  PublicInv'
<1>1. arrived \in Nat /\ SoundBy(Before, session, arrived) /\ session \in Session
  BY DEF PublicInv, SoundBy
<1>2. CASE Next
  BY <1>2, NextKeeps
<1>3. CASE BackToTurn
  BY <1>1, <1>3, RollbackToTurnKeeps DEF BackToTurn, PublicInv
<1>4. CASE Cancel
  <2>1. arrived' = arrived /\ session' = [session EXCEPT !.state = "Cancelling"]
    BY <1>4 DEF Cancel, CancelTurn
  <2>2. "Cancelling" \in SessionState /\ "Cancelling" # "Idle"
    BY DEF SessionState
  <2>3. QED
    BY <1>1, <2>1, <2>2, StateKeeps DEF PublicInv
<1>5. QED
  BY <1>2, <1>3, <1>4 DEF PublicNext

\* The inductive invariant, for the mutators production code calls ...
THEOREM SessionInvariant == Spec => []Inv
<1>1. Init => Inv
  BY NewSessionSound DEF Init, Inv, PublicInv
<1>2. Inv /\ [Next]_vars => Inv'
  <2>1. SUFFICES ASSUME Inv, [Next]_vars PROVE Inv'
    OBVIOUS
  <2>2. CASE Next
    BY <2>1, <2>2, NextKeeps DEF Inv
  <2>3. CASE UNCHANGED vars
    BY <2>1, <2>3 DEF Inv, PublicInv, vars
  <2>4. QED
    BY <2>1, <2>2, <2>3
<1>3. QED
  BY <1>1, <1>2, PTL DEF Spec

\* ... and for all of them.
THEOREM PublicInvariant == PublicSpec => []PublicInv
<1>1. Init => PublicInv
  BY NewSessionSound DEF Init, PublicInv
<1>2. PublicInv /\ [PublicNext]_vars => PublicInv'
  <2>1. SUFFICES ASSUME PublicInv, [PublicNext]_vars PROVE PublicInv'
    OBVIOUS
  <2>2. CASE PublicNext
    BY <2>1, <2>2, PublicNextKeeps
  <2>3. CASE UNCHANGED vars
    BY <2>1, <2>3 DEF PublicInv, vars
  <2>4. QED
    BY <2>1, <2>2, <2>3
<1>3. QED
  BY <1>1, <1>2, PTL DEF PublicSpec

\* Type correctness: no mutator leaves the session outside its type.
THEOREM TypeCorrect == PublicSpec => []TypeOK
<1>1. PublicInv => TypeOK
  BY DEF PublicInv, SoundBy, TypeOK
<1>2. QED
  BY <1>1, PublicInvariant, PTL

\* Message ids increase along the history and are never handed out twice.
THEOREM IdsNeverReused == PublicSpec => []MessageIdsInOrder
<1>1. PublicInv => MessageIdsInOrder
  BY DEF PublicInv, SoundBy, MessageIdsInOrder
<1>2. QED
  BY <1>1, PublicInvariant, PTL

\* No input is duplicated or overtakes an older one.
THEOREM InputsNeverReordered == PublicSpec => []InputsKeepOrder
<1>1. PublicInv => InputsKeepOrder
  BY SoundIsBefore DEF PublicInv, Sound, InputsKeepOrder
<1>2. QED
  BY <1>1, PublicInvariant, PTL

\* compact never subtracts below zero.
THEOREM CompactNeverUnderflows == PublicSpec => []NoTurnUnderflow
<1>1. PublicInv => NoTurnUnderflow
  BY DEF PublicInv, SoundBy, NoTurnUnderflow
<1>2. QED
  BY <1>1, PublicInvariant, PTL

\* A turn frozen by interrupt_turn has an output for every call, for ever, and no
\* committed turn is empty.
THEOREM HistoryStaysLegal == PublicSpec => []HistoryIsLegal
<1>1. PublicInv => HistoryIsLegal
  BY DEF PublicInv, SoundBy, HistoryIsLegal
<1>2. QED
  BY <1>1, PublicInvariant, PTL

\* Turn numbers tell the turns apart, whatever is compacted in between.
THEOREM TurnNumbersTellTurnsApart == Spec => []TurnNumbersSeparate
<1>1. Inv => TurnNumbersSeparate
  BY DEF Inv, PublicInv, SoundBy, TurnNumbersSeparate
<1>2. QED
  BY <1>1, SessionInvariant, PTL

-----------------------------------------------------------------------------
(* The session file.                                                       *)

\* Keeping every position keeps the sequence.
LEMMA RetainAll ==
  ASSUME NEW S, NEW seq \in Seq(S)
  PROVE  Retain(seq, DOMAIN seq) = seq
<1> DEFINE n == Len(seq)
           f == [i \in 1 .. n |-> i]
<1>1. n \in Nat /\ DOMAIN seq = 1 .. n /\ seq \in [1 .. n -> S]
  BY LenProperties
<1>2. Cardinality(1 .. n) = n
  <2> HIDE DEF n
  <2>1. n \in Int /\ 1 \in Int /\ (IF 1 > n THEN 0 ELSE n - 1 + 1) = n
    BY <1>1
  <2>2. QED
    BY <2>1, FS_Interval
<1>3. f \in Listings(1 .. n)
  BY <1>1, <1>2 DEF Listings, Increasing
<1>4. Listing(1 .. n) = f
  BY <1>1, <1>2, <1>3, ListingIs
<1>5. QED
  BY <1>1, <1>4 DEF Retain

\* A strip leaves what lasts, and nothing else goes with a second one.
LEMMA StripKeepsLasting ==
  ASSUME NEW turn \in Seq(Message)
  PROVE  Lasting(StripTurn(turn)) = Lasting(turn)
<1> DEFINE w == Retain(turn, Kept(turn))
<1>1. CASE Kept(turn) = {}
  BY <1>1 DEF StripTurn
<1>2. CASE Kept(turn) # {}
  <2>1. Kept(turn) \in SUBSET DOMAIN turn
    BY DEF Kept
  <2>2. /\ w \in Seq(Message)
        /\ \A i \in DOMAIN w : Listing(Kept(turn))[i] \in Kept(turn)
                               /\ w[i] = turn[Listing(Kept(turn))[i]]
    BY <2>1, RetainFacts
  <2>3. Kept(w) = DOMAIN w
    BY <2>2 DEF Kept
  <2>4. Retain(w, Kept(w)) = w
    BY <2>2, <2>3, RetainAll
  <2>5. QED
    BY <1>2, <2>4 DEF StripTurn, Lasting
<1>3. QED
  BY <1>1, <1>2

\* The four ways a mutator treats the history of s: it leaves it alone; it ends
\* the turn in flight; it makes the history shorter; or it strips it.
LeavesAlone(s, r) ==
    /\ r.committed = s.committed /\ r.turnIndex = s.turnIndex
    /\ r.pinned = s.pinned /\ s.nextId <= r.nextId

EndsTurn(s, r) ==
    /\ s.state # "Idle" /\ r.state = "Idle"
    /\ \E turn \in Seq(Message) : r.committed = Append(s.committed, turn)
    /\ r.pinned = s.pinned /\ s.nextId <= r.nextId

Shortens(s, r) ==
    /\ s.state = "Idle" /\ r.state = "Idle"
    /\ Len(r.committed) < Len(s.committed)

Strips(s, r) ==
    /\ s.state = "Idle" /\ r.state = "Idle"
    /\ Len(r.committed) = Len(s.committed)
    /\ \A p \in DOMAIN s.committed : Lasting(r.committed[p]) = Lasting(s.committed[p])
    /\ r.turnIndex = s.turnIndex /\ r.pinned = s.pinned /\ r.nextId = s.nextId

Follows(s, r) == LeavesAlone(s, r) \/ EndsTurn(s, r) \/ Shortens(s, r) \/ Strips(s, r)

\* Staging a message leaves the history alone.
LEMMA StageLeavesAlone ==
  ASSUME NEW s \in Session, NEW kind, NEW call, NEW body
  PROVE  LeavesAlone(s, Stage(s, kind, call, body))
<1>1. s.nextId \in Nat
  BY DEF Session
<1>2. QED
  BY <1>1 DEF Stage, LeavesAlone, Session

\* An interrupted turn is rolled back or ends.
LEMMA InterruptFollows ==
  ASSUME NEW s \in Session, s.state # "Idle", NEW closing \in BOOLEAN
  PROVE  Follows(s, InterruptTurn(s, closing))
<1>1. CASE s.staged = <<>>
  <2>1. InterruptTurn(s, closing) = ClearStaging(s)
    BY <1>1 DEF InterruptTurn, RollbackTurn
  <2>2. s.nextId \in Nat
    BY DEF Session
  <2>3. LeavesAlone(s, ClearStaging(s))
    BY <2>2, ClearStagingFields DEF LeavesAlone
  <2>4. QED
    BY <2>1, <2>3 DEF Follows
<1>2. CASE s.staged # <<>>
  <2> DEFINE u == PatchDanglingToolCalls(s)
             t == Stage(u, Notice(closing), NoCall, <<>>)
  <2>1. InterruptTurn(s, closing) = PushTurn(t)
    BY <1>2 DEF InterruptTurn
  <2>2. /\ u \in Session /\ u.committed = s.committed
        /\ u.pinned = s.pinned /\ u.nextId >= s.nextId
    BY PatchFields DEF Extends
  <2>3. Notice(closing) \in Kind /\ NoCall \in CallIds \cup {NoCall} /\ <<>> \in Seq(Nat)
    BY EmptySeq DEF Notice, Kind
  <2>4. /\ t \in Session /\ t.committed = u.committed
        /\ t.pinned = u.pinned /\ t.nextId = u.nextId + 1
    BY <2>2, <2>3, StageFields
  <2>5. StagingAll(t) \in Seq(Message)
    BY <2>4, TurnsFacts
  <2>6. /\ PushTurn(t).committed = Append(t.committed, StagingAll(t))
        /\ PushTurn(t).state = "Idle" /\ PushTurn(t).pinned = t.pinned
        /\ PushTurn(t).nextId = t.nextId
    BY <2>4, PushTurnFields
  <2>7. s.nextId \in Nat /\ u.nextId \in Nat
    BY <2>2 DEF Session
  <2>8. EndsTurn(s, PushTurn(t))
    <3>1. PushTurn(t).committed = Append(s.committed, StagingAll(t))
      BY <2>2, <2>4, <2>6
    <3>2. PushTurn(t).nextId = u.nextId + 1 /\ s.nextId <= u.nextId + 1
      BY <2>2, <2>4, <2>6, <2>7
    <3>3. QED
      BY <2>2, <2>4, <2>5, <2>6, <3>1, <3>2 DEF EndsTurn
  <2>9. QED
    BY <2>1, <2>8 DEF Follows
<1>3. QED
  BY <1>1, <1>2

\* A commit ends the turn, unless nothing is staged.
LEMMA CommitFollows ==
  ASSUME NEW s \in Session, s.state # "Idle"
  PROVE  Follows(s, CommitTurn(s))
<1>1. s.nextId \in Nat /\ StagingAll(s) \in Seq(Message)
  BY TurnsFacts DEF Session
<1>2. CASE StagingAll(s) = <<>>
  BY <1>1, <1>2 DEF CommitTurn, Follows, LeavesAlone, Session
<1>3. CASE StagingAll(s) # <<>>
  <2>1. CommitTurn(s) = PushTurn(s)
    BY <1>3 DEF CommitTurn
  <2>2. EndsTurn(s, PushTurn(s))
    BY <1>1, PushTurnFields DEF EndsTurn
  <2>3. QED
    BY <2>1, <2>2 DEF Follows
<1>4. QED
  BY <1>2, <1>3

\* A compaction that evicts something makes the history shorter.
LEMMA CompactFollows ==
  ASSUME NEW s \in Session, s.state = "Idle", TurnNumbersCoverPositions(s), NEW count \in Nat
  PROVE  Follows(s, Compact(s, count))
<1> DEFINE e == EvictCount(s, count)
           r == Compact(s, count)
           L == Len(s.committed)
<1>1. CASE e = 0
  <2>1. r = s /\ s.nextId \in Nat
    BY <1>1 DEF Compact, Session
  <2>2. QED
    BY <2>1 DEF Follows, LeavesAlone
<1>2. CASE e # 0
  <2>1. /\ L \in Nat /\ e \in Nat \ {0} /\ r.state = s.state
        /\ Len(r.committed) = L - e
    BY <1>2, CompactFields
  <2>2. L - e < L
    BY <2>1
  <2>3. Shortens(s, r)
    BY <2>1, <2>2 DEF Shortens
  <2>4. QED
    BY <2>3 DEF Follows
<1>3. QED
  BY <1>1, <1>2

\* A strip of stale content is one.
LEMMA StripFollows ==
  ASSUME NEW s \in Session, s.state = "Idle", NEW keep \in Nat
  PROVE  Follows(s, StripStaleContent(s, keep))
<1> DEFINE r == StripStaleContent(s, keep)
<1>1. /\ r.turnIndex = s.turnIndex /\ r.state = s.state
      /\ r.nextId = s.nextId /\ r.pinned = s.pinned
      /\ Len(r.committed) = Len(s.committed)
      /\ \A p \in DOMAIN s.committed :
            r.committed[p] = s.committed[p] \/ r.committed[p] = StripTurn(s.committed[p])
  BY StripFields
<1>2. \A p \in DOMAIN s.committed : s.committed[p] \in Seq(Message)
  BY SeqElement DEF Session
<1>3. \A p \in DOMAIN s.committed : Lasting(r.committed[p]) = Lasting(s.committed[p])
  BY <1>1, <1>2, StripKeepsLasting
<1>4. QED
  BY <1>1, <1>3 DEF Follows, Strips

\* Every mutator treats the history in one of these ways.
LEMMA NextFollows ==
  ASSUME PublicInv, Next
  PROVE  Follows(session, session')
<1>1. session \in Session /\ session.nextId \in Nat /\ TurnNumbersCoverPositions(session)
  BY DEF PublicInv, SoundBy, Session
<1>2. CASE EnqueueInput
  BY <1>1, <1>2 DEF EnqueueInput, EnqueuePending, Follows, LeavesAlone, Session
<1>3. CASE StartTurnFromPending
  BY <1>1, <1>3
     DEF StartTurnFromPending, DequeueAndStartTurn, StartTurn, Follows, LeavesAlone, Session
<1>4. CASE SteerPending
  BY <1>1, <1>4
     DEF SteerPending, DrainPendingIntoTurn, Stage, Follows, LeavesAlone, Session
<1>5. CASE StageItem
  BY <1>1, <1>5, StageLeavesAlone DEF StageItem, Follows
<1>6. CASE StageSalvage
  BY <1>1, <1>6, StageLeavesAlone DEF StageSalvage, Follows
<1>7. CASE Truncate
  BY <1>1, <1>7 DEF Truncate, TruncateStaging, Follows, LeavesAlone, Session
<1>8. CASE Commit
  BY <1>1, <1>8, CommitFollows DEF Commit
<1>9. CASE Rollback
  BY <1>1, <1>9 DEF Rollback, RollbackTurn, ClearStaging, Follows, LeavesAlone, Session
<1>10. CASE Interrupt
  BY <1>1, <1>10, InterruptFollows DEF Interrupt, CanInterrupt
<1>11. CASE CompactHistory
  <2>1. \A count \in 1 .. MaxTurns : count \in Nat
    BY BoundsAssumption
  <2>2. QED
    BY <1>1, <1>11, <2>1, CompactFollows DEF CompactHistory
<1>12. CASE StripHistory
  <2>1. \A keep \in 0 .. MaxTurns : keep \in Nat
    BY BoundsAssumption
  <2>2. QED
    BY <1>1, <1>12, <2>1, StripFollows DEF StripHistory
<1>13. CASE DropPending
  BY <1>1, <1>13 DEF DropPending, ClearPending, Follows, LeavesAlone, Session
<1>14. QED
  BY <1>2, <1>3, <1>4, <1>5, <1>6, <1>7, <1>8, <1>9, <1>10, <1>11, <1>12, <1>13 DEF Next

\* What the file holds, also while a turn is in flight: no mutator that leaves a
\* turn in flight changes the history.
Holds(f, s) ==
    /\ f.committed \in Seq(Seq(Message))
    /\ Len(f.committed) = Len(s.committed)
    /\ \A p \in DOMAIN f.committed : Lasting(f.committed[p]) = Lasting(s.committed[p])
    /\ f.pinned = s.pinned
    /\ f.turnIndex = s.turnIndex
    /\ f.nextId \in Nat /\ f.nextId <= s.nextId

FileInv == PublicInv /\ Holds(file, session)

\* A save catches up with what a mutator did.
LEMMA SaveHolds ==
  ASSUME NEW f, NEW s \in Session, NEW r \in Session, Holds(f, s), Follows(s, r)
  PROVE  Holds(FileSave(f, r), r)
<1> DEFINE old == f.committed
           new == r.committed
           L == Len(old)
           g == FileSave(f, r)
<1>1. /\ new \in Seq(Seq(Message)) /\ old \in Seq(Seq(Message))
      /\ s.committed \in Seq(Seq(Message)) /\ L = Len(s.committed)
      /\ L \in Nat /\ Len(new) \in Nat /\ r.nextId \in Nat
      /\ DOMAIN old = 1 .. L /\ DOMAIN new = 1 .. Len(new)
      /\ DOMAIN s.committed = 1 .. L
  <2>1. /\ new \in Seq(Seq(Message)) /\ s.committed \in Seq(Seq(Message))
        /\ r.nextId \in Nat
    BY DEF Session
  <2>2. old \in Seq(Seq(Message)) /\ L = Len(s.committed)
    BY DEF Holds
  <2>3. QED
    BY <2>1, <2>2, LenProperties
<1>2. /\ g.pinned = r.pinned /\ g.turnIndex = r.turnIndex /\ g.nextId = r.nextId
      /\ g.committed = IF L > Len(new) THEN new ELSE old \o SubSeq(new, L + 1, Len(new))
  BY DEF FileSave, FileOf
<1>3. CASE Shortens(s, r)
  <2> HIDE DEF new, L, g
  <2>1. g.committed = new
    BY <1>1, <1>2, <1>3 DEF Shortens, new
  <2>2. g.nextId \in Nat /\ g.nextId <= r.nextId
    BY <1>1, <1>2
  <2>3. QED
    BY <1>1, <1>2, <2>1, <2>2 DEF Holds, new, g
<1>4. CASE EndsTurn(s, r)
  <2>1. PICK turn \in Seq(Message) : new = Append(s.committed, turn)
    BY <1>4 DEF EndsTurn
  <2> HIDE DEF old, new, L, g
  <2>2. Len(new) = L + 1 /\ new[L + 1] = turn /\ \A p \in 1 .. L : new[p] = s.committed[p]
    BY <1>1, <2>1
  <2>3. SubSeq(new, L + 1, Len(new)) = <<turn>>
    <3>1. /\ Len(SubSeq(new, L + 1, L + 1)) = 1
          /\ SubSeq(new, L + 1, L + 1)[1] = new[L + 1]
          /\ SubSeq(new, L + 1, L + 1) \in Seq(Seq(Message))
      BY <1>1, <2>2
    <3>2. \A w \in Seq(Seq(Message)) : Len(w) = 1 => w = <<w[1]>>
      OBVIOUS
    <3>3. QED
      BY <2>2, <3>1, <3>2
  <2>4. g.committed = Append(old, turn)
    BY <1>1, <1>2, <2>2, <2>3
  <2>5. /\ g.committed \in Seq(Seq(Message)) /\ Len(g.committed) = L + 1
        /\ DOMAIN g.committed = 1 .. L + 1
        /\ g.committed[L + 1] = turn /\ \A p \in 1 .. L : g.committed[p] = old[p]
    BY <1>1, <2>1, <2>4
  <2>6. \A p \in 1 .. L : Lasting(old[p]) = Lasting(s.committed[p])
    BY <1>1 DEF Holds, old
  <2>7. \A p \in DOMAIN g.committed : Lasting(g.committed[p]) = Lasting(new[p])
    <3>1. \A p \in 1 .. L + 1 : p \in 1 .. L \/ p = L + 1
      BY <1>1
    <3>2. QED
      BY <2>2, <2>5, <2>6, <3>1
  <2>8. g.nextId \in Nat /\ g.nextId <= r.nextId
    BY <1>1, <1>2
  <2>9. QED
    BY <1>2, <2>2, <2>5, <2>7, <2>8 DEF Holds, new, g
<1>5. CASE LeavesAlone(s, r) \/ Strips(s, r)
  <2>1. /\ Len(new) = L
        /\ \A p \in 1 .. L : Lasting(new[p]) = Lasting(s.committed[p])
    BY <1>1, <1>5 DEF LeavesAlone, Strips
  <2> HIDE DEF old, new, L, g
  <2>2. SubSeq(new, L + 1, Len(new)) = <<>>
    BY <1>1, <2>1
  <2>3. g.committed = old
    BY <1>1, <1>2, <2>1, <2>2
  <2>4. \A p \in DOMAIN old : Lasting(old[p]) = Lasting(new[p])
    BY <1>1, <2>1 DEF Holds, old
  <2>5. L = Len(old)
    BY DEF L
  <2>6. g.nextId \in Nat /\ g.nextId <= r.nextId
    BY <1>1, <1>2
  <2>7. QED
    BY <1>1, <1>2, <2>1, <2>3, <2>4, <2>5, <2>6 DEF Holds, new, g
<1>6. QED
  BY <1>3, <1>4, <1>5 DEF Follows

\* Between the boundaries a mutator leaves the history alone, and the file stays.
LEMMA StaleHolds ==
  ASSUME NEW f, NEW s \in Session, NEW r \in Session, Holds(f, s), Follows(s, r),
         ~(r.state = "Idle" /\ (s.state # "Idle" \/ r.committed # s.committed))
  PROVE  Holds(f, r)
<1>1. s.nextId \in Nat /\ r.nextId \in Nat
  BY DEF Session
<1>2. LeavesAlone(s, r) \/ Strips(s, r)
  <2>1. Shortens(s, r) => r.committed = s.committed /\ Len(r.committed) < Len(s.committed)
    BY DEF Shortens
  <2>2. Len(s.committed) \in Nat
    BY TurnsFacts
  <2>3. ~Shortens(s, r)
    BY <2>1, <2>2
  <2>4. ~EndsTurn(s, r)
    BY DEF EndsTurn
  <2>5. QED
    BY <2>3, <2>4 DEF Follows
<1>3. /\ r.committed = s.committed /\ r.turnIndex = s.turnIndex
      /\ r.pinned = s.pinned /\ s.nextId <= r.nextId
  BY <1>1, <1>2 DEF LeavesAlone, Strips
<1>4. QED
  BY <1>1, <1>3 DEF Holds

\* One step of the session and its file.
LEMMA FileNextKeeps ==
  ASSUME FileInv, FileNext
  PROVE  FileInv'
<1>1. PublicInv /\ Next
  BY DEF FileInv, FileNext
<1>2. PublicInv' /\ Follows(session, session')
  BY <1>1, NextKeeps, NextFollows
<1>3. session \in Session /\ session' \in Session /\ Holds(file, session)
  BY <1>1, <1>2 DEF PublicInv, SoundBy, FileInv
<1>4. CASE AtBoundary /\ file' = FileSave(file, session')
  <2>1. Holds(file', session')
    BY <1>2, <1>3, <1>4, SaveHolds
  <2>2. QED
    BY <1>2, <2>1 DEF FileInv
<1>5. CASE ~AtBoundary /\ UNCHANGED file
  <2>1. Holds(file, session')
    BY <1>2, <1>3, <1>5, StaleHolds DEF AtBoundary
  <2>2. QED
    BY <1>2, <1>5, <2>1 DEF FileInv
<1>6. QED
  BY <1>4, <1>5 DEF FileNext

\* The file beside the session.
THEOREM FileInvariant == FileSpec => []FileInv
<1>1. FileInit => FileInv
  <2>1. SUFFICES ASSUME FileInit PROVE FileInv
    OBVIOUS
  <2>2. PublicInv
    BY <2>1, NewSessionSound DEF FileInit, Init, PublicInv
  <2>3. session = NewSession /\ file = FileOf(NewSession)
    BY <2>1 DEF FileInit, Init, NewFile
  <2>4. <<>> \in Seq(Seq(Message))
    BY EmptySeq
  <2>5. Holds(file, session)
    BY <2>3, <2>4 DEF Holds, FileOf, NewSession
  <2>6. QED
    BY <2>2, <2>5 DEF FileInv
<1>2. FileInv /\ [FileNext]_fileVars => FileInv'
  <2>1. SUFFICES ASSUME FileInv, [FileNext]_fileVars PROVE FileInv'
    OBVIOUS
  <2>2. CASE FileNext
    BY <2>1, <2>2, FileNextKeeps
  <2>3. CASE UNCHANGED fileVars
    BY <2>1, <2>3 DEF FileInv, PublicInv, fileVars
  <2>4. QED
    BY <2>1, <2>2, <2>3
<1>3. QED
  BY <1>1, <1>2, PTL DEF FileSpec

\* At rest the session file holds the history of the session, whatever was
\* compacted and stripped between two saves (FileSessionPersister::save).
THEOREM FileIsTheHistory == FileSpec => []FileHoldsTheHistory
<1>1. FileInv => FileHoldsTheHistory
  BY DEF FileInv, Holds, FileHoldsTheHistory
<1>2. QED
  BY <1>1, FileInvariant, PTL

-----------------------------------------------------------------------------
(* The requests made of a session.  They choose messages by what they are; *)
(* what is chosen is described by the positions it picks, in order.        *)

\* f gives the positions in seq of the elements of r, which are those in M, in order.
Picks(f, r, seq, M) ==
    /\ \A i \in DOMAIN r : f[i] \in DOMAIN seq /\ seq[f[i]] \in M /\ r[i] = seq[f[i]]
    /\ \A i, j \in DOMAIN r : i < j => f[i] < f[j]
    /\ \A d \in DOMAIN seq : seq[d] \in M => \E i \in DOMAIN r : f[i] = d

\* Chosen picks the elements that are in the set ...
LEMMA ChosenPicks ==
  ASSUME NEW S, NEW seq \in Seq(S), NEW M
  PROVE  /\ Chosen(seq, M) \in Seq(S)
         /\ \E f : Picks(f, Chosen(seq, M), seq, M)
<1>1. PICK L \in Nat : L = Len(seq) /\ DOMAIN seq = 1 .. L
  BY LenProperties
<1>2. PICK D \in SUBSET (1 .. L) : D = {i \in DOMAIN seq : seq[i] \in M}
  BY <1>1
<1>3. PICK r \in Seq(S) : r = Retain(seq, D)
  BY <1>1, <1>2, RetainFacts
<1>4. PICK f : f = Listing(D)
  OBVIOUS
<1>5. /\ DOMAIN r = DOMAIN f
      /\ \A i \in DOMAIN r : f[i] \in D /\ r[i] = seq[f[i]]
  BY <1>1, <1>2, <1>3, <1>4, RetainFacts
<1>6. \A i, j \in DOMAIN r : i < j => f[i] < f[j]
  BY <1>1, <1>2, <1>3, <1>4, RetainFacts
<1>10. \A d \in D : \E i \in DOMAIN r : f[i] = d
  <2>1. D \in SUBSET DOMAIN seq
    BY <1>1
  <2>2. /\ f \in [1 .. Cardinality(D) -> D]
        /\ \A d \in D : \E i \in 1 .. Cardinality(D) : f[i] = d
    BY <1>4, ListingFacts
  <2>3. QED
    BY <1>5, <2>2
<1>7. Picks(f, r, seq, M)
  BY <1>2, <1>5, <1>6, <1>10 DEF Picks
<1>8. Chosen(seq, M) = r
  BY <1>2, <1>3 DEF Chosen
<1>9. QED
  BY <1>7, <1>8

\* ... and what picks them is what Chosen returns.
LEMMA PicksChosen ==
  ASSUME NEW S, NEW seq \in Seq(S), NEW M, NEW r \in Seq(S), NEW f, Picks(f, r, seq, M)
  PROVE  Chosen(seq, M) = r
<1>1. PICK D \in SUBSET DOMAIN seq : D = {i \in DOMAIN seq : seq[i] \in M}
  OBVIOUS
<1>2. PICK g : g = [i \in DOMAIN r |-> f[i]]
  OBVIOUS
<1>3. \A i \in DOMAIN r : f[i] \in D /\ g[i] = f[i] /\ r[i] = seq[g[i]]
  BY <1>1, <1>2 DEF Picks
<1>4. g \in [DOMAIN r -> D] /\ Increasing(g) /\ \A d \in D : \E i \in DOMAIN r : g[i] = d
  <2>1. g \in [DOMAIN r -> D]
    BY <1>2, <1>3
  <2>2. QED
    BY <1>1, <1>2, <1>3, <2>1 DEF Picks, Increasing
<1>5. Retain(seq, D) = r
  BY <1>3, <1>4, RetainIs
<1>6. QED
  BY <1>1, <1>5 DEF Chosen

\* Chosen returns elements of the sequence that are in the set, and all of them.
LEMMA ChosenFacts ==
  ASSUME NEW S, NEW seq \in Seq(S), NEW M
  PROVE  /\ Chosen(seq, M) \in Seq(S)
         /\ Range(Chosen(seq, M)) = Range(seq) \cap M
<1>0. PICK r \in Seq(S) : r = Chosen(seq, M)
  BY ChosenPicks
<1>1. PICK f : Picks(f, r, seq, M)
  BY <1>0, ChosenPicks
<1>2. Range(r) = Range(seq) \cap M
  BY <1>1 DEF Picks, Range
<1>3. QED
  BY <1>0, <1>2

\* What is chosen depends on which elements of the sequence are in the set.
LEMMA ChosenSame ==
  ASSUME NEW seq, NEW M, NEW N, Range(seq) \cap M = Range(seq) \cap N
  PROVE  Chosen(seq, M) = Chosen(seq, N)
<1>1. \A i \in DOMAIN seq : seq[i] \in M <=> seq[i] \in N
  BY DEF Range
<1>2. QED
  BY <1>1 DEF Chosen

\* All of it.
LEMMA ChosenAll ==
  ASSUME NEW S, NEW seq \in Seq(S), NEW M, Range(seq) \subseteq M
  PROVE  Chosen(seq, M) = seq
<1>1. PICK f : f = [i \in DOMAIN seq |-> i]
  OBVIOUS
<1>2. \A i \in DOMAIN seq : f[i] = i /\ seq[i] \in M
  BY <1>1 DEF Range
<1>3. Picks(f, seq, seq, M)
  BY <1>2 DEF Picks
<1>4. QED
  BY <1>3, PicksChosen

\* Nothing of it.
LEMMA ChosenNone ==
  ASSUME NEW S, NEW seq \in Seq(S), NEW M, Range(seq) \cap M = {}
  PROVE  Chosen(seq, M) = <<>>
<1>1. Chosen(seq, M) \in Seq(S) /\ Range(Chosen(seq, M)) = {}
  BY ChosenFacts
<1>2. PICK c \in Seq(S) : c = Chosen(seq, M)
  BY <1>1
<1>3. DOMAIN c = {}
  BY <1>1, <1>2 DEF Range
<1>4. QED
  BY <1>2, <1>3, EmptyDomain

\* Of two parts, each on its own.
LEMMA ChosenConcat ==
  ASSUME NEW S, NEW a \in Seq(S), NEW b \in Seq(S), NEW M
  PROVE  Chosen(a \o b, M) = Chosen(a, M) \o Chosen(b, M)
<1>0. PICK p \in Seq(S), q \in Seq(S) : p = Chosen(a, M) /\ q = Chosen(b, M)
  BY ChosenPicks
<1>1. PICK f : Picks(f, p, a, M)
  BY <1>0, ChosenPicks
<1>2. PICK g : Picks(g, q, b, M)
  BY <1>0, ChosenPicks
<1>3. PICK k \in Nat, l \in Nat : /\ k = Len(a) /\ DOMAIN a = 1 .. k
                                  /\ l = Len(b) /\ DOMAIN b = 1 .. l
  BY LenProperties
<1>4. PICK m \in Nat, n \in Nat : /\ m = Len(p) /\ DOMAIN p = 1 .. m
                                  /\ n = Len(q) /\ DOMAIN q = 1 .. n
  BY LenProperties
<1>5. PICK c \in Seq(S), r \in Seq(S) : c = a \o b /\ r = p \o q
  BY ConcatProperties
<1>6. /\ DOMAIN c = 1 .. k + l
      /\ \A i \in 1 .. k : c[i] = a[i]
      /\ \A i \in 1 .. l : k + i \in 1 .. k + l /\ c[k + i] = b[i]
  <2>1. /\ DOMAIN (a \o b) = 1 .. Len(a) + Len(b)
        /\ \A i \in 1 .. Len(a) : (a \o b)[i] = a[i]
        /\ \A j \in 1 .. Len(b) :
             Len(a) + j \in 1 .. Len(a) + Len(b) /\ (a \o b)[Len(a) + j] = b[j]
    BY ConcatParts
  <2>2. QED
    BY <1>3, <1>5, <2>1
<1>7. /\ DOMAIN r = 1 .. m + n
      /\ \A i \in 1 .. m : r[i] = p[i]
      /\ \A i \in 1 .. n : m + i \in 1 .. m + n /\ r[m + i] = q[i]
  <2>1. /\ DOMAIN (p \o q) = 1 .. Len(p) + Len(q)
        /\ \A i \in 1 .. Len(p) : (p \o q)[i] = p[i]
        /\ \A j \in 1 .. Len(q) :
             Len(p) + j \in 1 .. Len(p) + Len(q) /\ (p \o q)[Len(p) + j] = q[j]
    BY ConcatParts
  <2>2. QED
    BY <1>4, <1>5, <2>1
<1>8. PICK h : h = [i \in 1 .. m + n |-> IF i <= m THEN f[i] ELSE k + g[i - m]]
  OBVIOUS
<1>9. \A i \in 1 .. m : /\ h[i] = f[i] /\ f[i] \in 1 .. k
                        /\ a[f[i]] \in M /\ p[i] = a[f[i]]
  <2>1. ASSUME NEW i \in 1 .. m
        PROVE  h[i] = f[i]
    <3>1. i \in 1 .. m + n /\ i <= m
      OBVIOUS
    <3>2. QED
      BY <1>8, <3>1
  <2>2. QED
    BY <1>1, <1>3, <1>4, <2>1 DEF Picks
<1>10. \A i \in 1 .. n : /\ h[m + i] = k + g[i] /\ g[i] \in 1 .. l
                         /\ b[g[i]] \in M /\ q[i] = b[g[i]]
  <2>1. ASSUME NEW i \in 1 .. n
        PROVE  h[m + i] = k + g[i]
    <3>1. m + i \in 1 .. m + n /\ ~(m + i <= m) /\ (m + i) - m = i
      OBVIOUS
    <3>2. QED
      BY <1>8, <3>1
  <2>2. QED
    BY <1>2, <1>3, <1>4, <2>1 DEF Picks
<1>11. \A i \in 1 .. m + n : i \in 1 .. m \/ \E j \in 1 .. n : i = m + j
  <2>1. ASSUME NEW i \in 1 .. m + n, ~(i <= m)
        PROVE  i - m \in 1 .. n /\ i = m + (i - m)
    BY <2>1
  <2>2. QED
    BY <2>1
<1>12. \A d \in 1 .. k + l : d \in 1 .. k \/ \E e \in 1 .. l : d = k + e
  <2>1. ASSUME NEW d \in 1 .. k + l, ~(d <= k)
        PROVE  d - k \in 1 .. l /\ d = k + (d - k)
    BY <2>1
  <2>2. QED
    BY <2>1
<1>13. ASSUME NEW i \in 1 .. m + n
       PROVE  h[i] \in 1 .. k + l /\ c[h[i]] \in M /\ r[i] = c[h[i]]
  <2>1. CASE i \in 1 .. m
    <3>1. f[i] \in 1 .. k + l
      BY <1>9, <2>1
    <3>2. QED
      BY <1>6, <1>7, <1>9, <2>1, <3>1
  <2>2. CASE \E j \in 1 .. n : i = m + j
    <3>1. PICK j \in 1 .. n : i = m + j
      BY <2>2
    <3>2. h[i] = k + g[j] /\ g[j] \in 1 .. l /\ b[g[j]] \in M /\ q[j] = b[g[j]]
      BY <1>10, <3>1
    <3>3. k + g[j] \in 1 .. k + l /\ c[k + g[j]] = b[g[j]]
      BY <1>6, <3>2
    <3>4. r[i] = q[j]
      BY <1>7, <3>1
    <3>5. QED
      BY <3>2, <3>3, <3>4
  <2>3. QED
    BY <1>11, <2>1, <2>2
<1>14. ASSUME NEW i \in 1 .. m + n, NEW j \in 1 .. m + n, i < j
       PROVE  h[i] < h[j]
  <2>1. CASE i \in 1 .. m /\ j \in 1 .. m
    BY <1>1, <1>4, <1>9, <1>14, <2>1 DEF Picks
  <2>2. CASE i \in 1 .. m /\ \E y \in 1 .. n : j = m + y
    <3>1. PICK y \in 1 .. n : j = m + y
      BY <2>2
    <3>2. h[i] \in 1 .. k
      BY <1>9, <2>2
    <3>3. h[j] = k + g[y] /\ g[y] \in 1 .. l
      BY <1>10, <3>1
    <3>4. PICK hi \in 1 .. k, gy \in 1 .. l : hi = h[i] /\ gy = g[y]
      BY <3>2, <3>3
    <3>5. hi < k + gy
      OBVIOUS
    <3>6. QED
      BY <3>3, <3>4, <3>5
  <2>3. ASSUME NEW x \in 1 .. n, NEW y \in 1 .. n, i = m + x, j = m + y
        PROVE  h[i] < h[j]
    <3>1. x < y
      BY <1>14, <2>3
    <3>2. g[x] < g[y] /\ g[x] \in 1 .. l /\ g[y] \in 1 .. l
      BY <1>2, <1>4, <1>10, <3>1 DEF Picks
    <3>3. PICK gx \in 1 .. l, gy \in 1 .. l : gx = g[x] /\ gy = g[y]
      BY <3>2
    <3>4. k + gx < k + gy
      BY <3>2, <3>3
    <3>5. h[m + x] = k + g[x] /\ h[m + y] = k + g[y]
      BY <1>10
    <3>6. QED
      BY <2>3, <3>3, <3>4, <3>5
  <2>4. i \in 1 .. m \/ j \notin 1 .. m
    BY <1>14
  <2>5. QED
    BY <1>11, <2>1, <2>2, <2>3, <2>4
<1>15. ASSUME NEW d \in 1 .. k + l, c[d] \in M
       PROVE  \E i \in 1 .. m + n : h[i] = d
  <2>1. CASE d \in 1 .. k
    <3>1. PICK i \in 1 .. m : f[i] = d
      BY <1>1, <1>3, <1>4, <1>6, <1>15, <2>1 DEF Picks
    <3>2. i \in 1 .. m + n
      OBVIOUS
    <3>3. QED
      BY <1>9, <3>1, <3>2
  <2>2. ASSUME NEW e \in 1 .. l, d = k + e
        PROVE  \E i \in 1 .. m + n : h[i] = d
    <3>1. PICK i \in 1 .. n : g[i] = e
      BY <1>2, <1>3, <1>4, <1>6, <1>15, <2>2 DEF Picks
    <3>2. m + i \in 1 .. m + n
      OBVIOUS
    <3>4. h[m + i] = d
      BY <1>10, <2>2, <3>1
    <3>3. QED
      BY <3>2, <3>4
  <2>3. QED
    BY <1>12, <2>1, <2>2
<1>16. Picks(h, r, c, M)
  BY <1>6, <1>7, <1>13, <1>14, <1>15 DEF Picks
<1>17. Chosen(c, M) = r
  BY <1>16, PicksChosen
<1>18. QED
  BY <1>0, <1>5, <1>17

-----------------------------------------------------------------------------
(* Turns one after the other. *)

\* F is the first n of seqs one after the other: its elements are theirs, in the
\* order of the sequences.
Flattens(S, F, seqs, n) ==
    /\ F \in Seq(S)
    /\ \A k \in DOMAIN F : \E p \in 1 .. n : \E i \in DOMAIN seqs[p] : F[k] = seqs[p][i]
    /\ \A k, l \in DOMAIN F : k < l =>
          \E p, q \in 1 .. n : \E i \in DOMAIN seqs[p], j \in DOMAIN seqs[q] :
             p <= q /\ F[k] = seqs[p][i] /\ F[l] = seqs[q][j]

\* One more sequence, behind the others.
LEMMA FlattensOneMore ==
  ASSUME NEW S, NEW seqs \in Seq(Seq(S)), NEW n \in Nat, n + 1 \in DOMAIN seqs,
         NEW F, Flattens(S, F, seqs, n)
  PROVE  Flattens(S, F \o seqs[n + 1], seqs, n + 1)
<1>1. PICK u \in Seq(S) : u = seqs[n + 1]
  BY SeqElement
<1>2. F \in Seq(S)
  BY DEF Flattens
<1>3. PICK k \in Nat, l \in Nat : /\ k = Len(F) /\ DOMAIN F = 1 .. k
                                  /\ l = Len(u) /\ DOMAIN u = 1 .. l
  BY <1>2, LenProperties
<1>4. PICK c \in Seq(S) : c = F \o u
  BY <1>2, ConcatProperties
<1>5. /\ DOMAIN c = 1 .. k + l
      /\ \A x \in 1 .. k + l :
           \/ x \in 1 .. k /\ c[x] = F[x]
           \/ x - k \in 1 .. l /\ c[x] = u[x - k]
  BY <1>2, <1>3, <1>4, ConcatParts
<1>6. ASSUME NEW x \in 1 .. k
      PROVE  \E p \in 1 .. n : \E i \in DOMAIN seqs[p] : F[x] = seqs[p][i]
  BY <1>3 DEF Flattens
<1>7. \A p \in 1 .. n : p \in 1 .. n + 1 /\ p <= n + 1
  OBVIOUS
<1>8. n + 1 \in 1 .. n + 1 /\ n + 1 <= n + 1
  OBVIOUS
<1>9. ASSUME NEW x \in 1 .. k + l
      PROVE  \E p \in 1 .. n + 1 : \E i \in DOMAIN seqs[p] : c[x] = seqs[p][i]
  <2>1. CASE x \in 1 .. k /\ c[x] = F[x]
    BY <1>6, <1>7, <2>1
  <2>2. CASE x - k \in 1 .. l /\ c[x] = u[x - k]
    BY <1>1, <1>3, <1>8, <2>2
  <2>3. QED
    BY <1>5, <2>1, <2>2
<1>10. ASSUME NEW x \in 1 .. k + l, NEW y \in 1 .. k + l, x < y
       PROVE  \E p, q \in 1 .. n + 1 : \E i \in DOMAIN seqs[p], j \in DOMAIN seqs[q] :
                 p <= q /\ c[x] = seqs[p][i] /\ c[y] = seqs[q][j]
  <2>1. CASE y \in 1 .. k /\ c[y] = F[y]
    <3>1. x \in 1 .. k
      BY <1>10, <2>1
    <3>2. ~ (x - k \in 1 .. l)
      BY <3>1
    <3>3. c[x] = F[x]
      BY <1>5, <3>2
    <3>4. QED
      <4>1. PICK p \in 1 .. n, q \in 1 .. n :
               \E i \in DOMAIN seqs[p], j \in DOMAIN seqs[q] :
                  p <= q /\ F[x] = seqs[p][i] /\ F[y] = seqs[q][j]
        <5>1. x \in DOMAIN F /\ y \in DOMAIN F /\ x < y
          BY <1>3, <1>10, <2>1, <3>1
        <5>2. \E p, q \in 1 .. n : \E i \in DOMAIN seqs[p], j \in DOMAIN seqs[q] :
                 p <= q /\ F[x] = seqs[p][i] /\ F[y] = seqs[q][j]
          BY ZenonT(30), <5>1 DEF Flattens
        <5>3. QED
          BY ZenonT(30), <5>2
      <4>2. p \in 1 .. n + 1 /\ q \in 1 .. n + 1
        BY <1>7
      <4>3. QED
        BY <2>1, <3>3, <4>1, <4>2
  <2>2. CASE y - k \in 1 .. l /\ c[y] = u[y - k]
    <3>1. PICK p \in 1 .. n + 1 : \E i \in DOMAIN seqs[p] : c[x] = seqs[p][i]
      BY <1>9
    <3>2. p <= n + 1
      OBVIOUS
    <3>3. y - k \in DOMAIN seqs[n + 1] /\ c[y] = seqs[n + 1][y - k]
      BY <1>1, <1>3, <2>2
    <3>4. QED
      BY <1>8, <3>1, <3>2, <3>3
  <2>3. QED
    BY <1>5, <2>1, <2>2
<1>11. Flattens(S, c, seqs, n + 1)
  <2>1. DOMAIN c = 1 .. k + l
    BY <1>5
  <2>2. QED
    <3>1. \A x \in DOMAIN c : \E p \in 1 .. n + 1 : \E i \in DOMAIN seqs[p] : c[x] = seqs[p][i]
      BY Zenon, <2>1, <1>9
    <3>2. \A x, y \in DOMAIN c : x < y =>
             \E p, q \in 1 .. n + 1 : \E i \in DOMAIN seqs[p], j \in DOMAIN seqs[q] :
                p <= q /\ c[x] = seqs[p][i] /\ c[y] = seqs[q][j]
      <4>1. SUFFICES ASSUME NEW x \in DOMAIN c, NEW y \in DOMAIN c, x < y
                     PROVE  \E p, q \in 1 .. n + 1 :
                               \E i \in DOMAIN seqs[p], j \in DOMAIN seqs[q] :
                                  p <= q /\ c[x] = seqs[p][i] /\ c[y] = seqs[q][j]
        OBVIOUS
      <4>2. x \in 1 .. k + l /\ y \in 1 .. k + l
        BY <2>1, <4>1
      <4>3. QED
        BY Zenon, <1>10, <4>1, <4>2
    <3>3. QED
      BY Zenon, <3>1, <3>2 DEF Flattens
<1>12. QED
  BY <1>1, <1>4, <1>11

\* How FlattenSeq builds its result: g[i] is the first i sequences.
Builds(g, seqs, n) ==
    g = [i \in 1 .. n |-> IF i = 1 THEN seqs[i] ELSE g[i - 1] \o seqs[i]]

\* What FlattenSeq defines exists, by a least number without it.
LEMMA BuildsExists ==
  ASSUME NEW seqs, NEW n \in Nat
  PROVE  \E g : Builds(g, seqs, n)
<1> DEFINE Bad == {k \in Nat : ~ \E g : Builds(g, seqs, k)}
<1>1. SUFFICES Bad = {}
  OBVIOUS
<1>2. SUFFICES ASSUME Bad # {} PROVE FALSE
  OBVIOUS
<1>3. PICK k \in Bad : \A m \in Bad : k <= m
  BY <1>2, LeastNumber
<1>4. CASE k = 0
  <2>1. PICK g : g = [i \in 1 .. 0 |-> 0]
    OBVIOUS
  <2>2. Builds(g, seqs, 0)
    BY <2>1 DEF Builds
  <2>3. QED
    BY <1>4, <2>2
<1>5. CASE k # 0
  <2>1. PICK m \in Nat : k = m + 1
    <3>1. k - 1 \in Nat /\ k = (k - 1) + 1
      BY <1>5
    <3>2. QED
      BY <3>1
  <2>2. m \notin Bad
    BY <1>3, <2>1
  <2>3. PICK g : Builds(g, seqs, m)
    BY <2>2
  <2>4. PICK h : h = [i \in 1 .. m + 1 |->
                        IF i <= m THEN g[i] ELSE IF i = 1 THEN seqs[i] ELSE g[m] \o seqs[i]]
    OBVIOUS
  <2>5. DOMAIN h = 1 .. m + 1 /\ \A i \in 1 .. m : h[i] = g[i]
    <3>1. ASSUME NEW i \in 1 .. m
          PROVE  i \in 1 .. m + 1 /\ i <= m
      OBVIOUS
    <3>2. QED
      BY <2>4, <3>1
  <2>6. ASSUME NEW i \in 1 .. m + 1
        PROVE  h[i] = IF i = 1 THEN seqs[i] ELSE h[i - 1] \o seqs[i]
    <3>1. CASE i = 1
      <4>1. CASE i <= m
        <5>1. i \in 1 .. m
          BY <4>1
        <5>2. g[i] = seqs[i] /\ h[i] = g[i]
          BY <2>3, <2>5, <3>1, <5>1 DEF Builds
        <5>3. QED
          BY <3>1, <5>2
      <4>2. CASE ~(i <= m)
        <5>1. h[i] = seqs[i]
          BY <2>4, <3>1, <4>2
        <5>2. QED
          BY <3>1, <5>1
      <4>3. QED
        BY <4>1, <4>2
    <3>2. CASE i # 1 /\ i <= m
      <4>1. i \in 1 .. m /\ i - 1 \in 1 .. m
        BY <3>2
      <4>2. g[i] = g[i - 1] \o seqs[i]
        BY <2>3, <3>2, <4>1 DEF Builds
      <4>3. QED
        BY <2>5, <3>2, <4>1, <4>2
    <3>3. CASE i # 1 /\ ~(i <= m)
      <4>1. i = m + 1 /\ i - 1 = m /\ m \in 1 .. m
        BY <3>3
      <4>2. h[i] = g[m] \o seqs[i]
        BY <2>4, <3>3
      <4>3. QED
        BY <2>5, <3>3, <4>1, <4>2
    <3>4. QED
      BY <3>1, <3>2, <3>3
  <2>7. Builds(h, seqs, m + 1)
    <3>1. h = [i \in 1 .. m + 1 |-> h[i]]
      BY <2>4
    <3>2. QED
      BY <2>6, <3>1 DEF Builds
  <2>8. QED
    BY <2>1, <2>7
<1>6. QED
  BY <1>4, <1>5

\* What FlattenSeq returns.
LEMMA FlattenFacts ==
  ASSUME NEW S, NEW seqs \in Seq(Seq(S))
  PROVE  Flattens(S, FlattenSeq(seqs), seqs, Len(seqs))
<1>1. PICK n \in Nat : n = Len(seqs) /\ DOMAIN seqs = 1 .. n
  BY LenProperties
<1>2. CASE n = 0
  <2>1. seqs = <<>> /\ FlattenSeq(seqs) = seqs
    BY <1>1, <1>2, EmptySeq DEF FlattenSeq
  <2>2. <<>> \in Seq(S) /\ DOMAIN <<>> = {}
    OBVIOUS
  <2>3. QED
    BY <2>1, <2>2 DEF Flattens
<1>3. CASE n # 0
  <2> DEFINE rule(g) == [i \in 1 .. Len(seqs) |-> IF i = 1 THEN seqs[i] ELSE g[i - 1] \o seqs[i]]
  <2>1. \E g : g = rule(g)
    <3>1. PICK g : Builds(g, seqs, n)
      BY BuildsExists
    <3>2. QED
      BY <1>1, <3>1 DEF Builds
  <2>2. PICK f : f = CHOOSE g : g = rule(g)
    OBVIOUS
  <2>3. f = rule(f)
    BY <2>1, <2>2
  <2>4. FlattenSeq(seqs) = f[n]
    BY <1>1, <1>3, <2>2 DEF FlattenSeq
  <2>5. Builds(f, seqs, n)
    BY <1>1, <2>3 DEF Builds
  <2> HIDE DEF rule
  <2>6. \A k \in 1 .. n : Flattens(S, f[k], seqs, k)
    <3> DEFINE Bad == {k \in 1 .. n : ~ Flattens(S, f[k], seqs, k)}
    <3>1. SUFFICES ASSUME Bad # {} PROVE FALSE
      OBVIOUS
    <3>2. Bad \in SUBSET Nat
      OBVIOUS
    <3>3. PICK k \in Bad : \A m \in Bad : k <= m
      BY <3>1, <3>2, LeastNumber
    <3>4. CASE k = 1
      <4>1. f[1] = seqs[1]
        BY <2>5, <3>4 DEF Builds
      <4>2. seqs[1] \in Seq(S) /\ 1 \in 1 .. 1
        BY <1>1, <3>4, SeqElement
      <4>3. QED
        <5>1. PICK u \in Seq(S) : u = seqs[1]
          BY <4>2
        <5>2. /\ \A x \in DOMAIN u : \E p \in 1 .. 1 : \E i \in DOMAIN seqs[p] : u[x] = seqs[p][i]
              /\ \A x, y \in DOMAIN u : x < y =>
                    \E p, q \in 1 .. 1 : \E i \in DOMAIN seqs[p], j \in DOMAIN seqs[q] :
                       p <= q /\ u[x] = seqs[p][i] /\ u[y] = seqs[q][j]
          <6>1. \A p, q \in 1 .. 1 : p <= q
            OBVIOUS
          <6>2. QED
            BY <4>2, <5>1, <6>1
        <5>3. Flattens(S, u, seqs, 1)
          BY <5>2 DEF Flattens
        <5>4. QED
          BY <3>4, <4>1, <5>1, <5>3
    <3>5. CASE k # 1
      <4>1. PICK m \in 1 .. n : k = m + 1
        <5>1. k - 1 \in 1 .. n /\ k = (k - 1) + 1
          BY <3>5
        <5>2. QED
          BY <5>1
      <4>2. Flattens(S, f[m], seqs, m)
        BY <3>3, <4>1
      <4>3. f[m + 1] = f[m] \o seqs[m + 1]
        <5>1. (m + 1) - 1 = m
          OBVIOUS
        <5>2. QED
          BY <2>5, <3>5, <4>1, <5>1 DEF Builds
      <4>4. m \in Nat /\ m + 1 \in DOMAIN seqs
        BY <1>1, <4>1
      <4>5. QED
        BY <4>1, <4>2, <4>3, <4>4, FlattensOneMore
    <3>6. QED
      BY <3>4, <3>5
  <2>7. n \in 1 .. n
    BY <1>3
  <2>8. QED
    BY <1>1, <2>4, <2>6, <2>7
<1>4. QED
  BY <1>2, <1>3

-----------------------------------------------------------------------------
(* Ends of sequences, least and greatest numbers. *)

\* The second part of a concatenation is its end.
LEMMA SuffixOf ==
  ASSUME NEW S, NEW a \in Seq(S), NEW b \in Seq(S)
  PROVE  IsSuffix(b, a \o b)
<1>1. PICK k \in Nat, l \in Nat : k = Len(a) /\ l = Len(b)
  BY LenProperties
<1>2. PICK c \in Seq(S) : c = a \o b
  BY ConcatProperties
<1>3. /\ Len(c) = k + l
      /\ \A j \in 1 .. l : c[k + j] = b[j]
  BY <1>1, <1>2, ConcatParts
<1>4. PICK rb : rb = [i \in 1 .. l |-> b[(l - i) + 1]]
  OBVIOUS
<1>5. PICK rc : rc = [i \in 1 .. k + l |-> c[((k + l) - i) + 1]]
  OBVIOUS
<1>6. Reverse(b) = rb /\ Reverse(c) = rc
  BY <1>1, <1>3, <1>4, <1>5 DEF Reverse
<1>7. rb \in Seq(S) /\ rc \in Seq(S) /\ Len(rb) = l /\ Len(rc) = k + l
  <2>1. ASSUME NEW i \in 1 .. l
        PROVE  b[(l - i) + 1] \in S
    <3>1. (l - i) + 1 \in 1 .. l
      OBVIOUS
    <3>2. QED
      BY <1>1, <3>1, ElementOfSeq
  <2>2. ASSUME NEW i \in 1 .. k + l
        PROVE  c[((k + l) - i) + 1] \in S
    <3>1. ((k + l) - i) + 1 \in 1 .. k + l
      OBVIOUS
    <3>2. QED
      BY <1>3, <3>1, ElementOfSeq
  <2>3. rb \in [1 .. l -> S] /\ rc \in [1 .. k + l -> S] /\ k + l \in Nat
    BY <1>4, <1>5, <2>1, <2>2
  <2>4. rb \in Seq(S) /\ rc \in Seq(S)
    BY <2>3, SeqDef
  <2>5. QED
    BY <2>3, <2>4
<1>8. ASSUME NEW i \in 1 .. l
      PROVE  rb[i] = rc[i]
  <2>1. /\ (l - i) + 1 \in 1 .. l /\ i \in 1 .. k + l
        /\ ((k + l) - i) + 1 = k + ((l - i) + 1)
    OBVIOUS
  <2>2. c[k + ((l - i) + 1)] = b[(l - i) + 1]
    BY <1>3, <2>1
  <2>3. QED
    BY <1>4, <1>5, <2>1, <2>2
<1>9. SubSeq(rb, 1, l) = SubSeq(rc, 1, l) /\ l <= k + l
  <2>1. l <= k + l
    OBVIOUS
  <2>2. /\ SubSeq(rb, 1, l) = [i \in 1 .. l |-> rb[i]]
        /\ SubSeq(rc, 1, l) = [i \in 1 .. l |-> rc[i]]
    <3>1. \A i \in 1 .. l : (1 + i) - 1 = i
      OBVIOUS
    <3>2. l = (l - 1) + 1
      OBVIOUS
    <3>3. QED
      BY <1>7, <2>1, <3>1, <3>2
  <2>3. QED
    BY <1>8, <2>1, <2>2
<1>10. QED
  BY <1>2, <1>6, <1>7, <1>9 DEF IsSuffix, IsPrefix

\* The least of a set of naturals.
LEMMA MinFacts ==
  ASSUME NEW T \in SUBSET Nat, T # {}
  PROVE  Min(T) \in T /\ \A t \in T : Min(T) <= t
<1>1. \E x \in T : \A y \in T : x =< y
  BY LeastNumber
<1>2. QED
  BY <1>1 DEF Min

\* The greatest of one that is bounded.
LEMMA MaxFacts ==
  ASSUME NEW n \in Nat, NEW T \in SUBSET (0 .. n), T # {}
  PROVE  Max(T) \in T /\ \A t \in T : t <= Max(T)
<1>1. PICK U \in SUBSET Nat : U = {k \in 0 .. n : n - k \in T}
  <2>1. {k \in 0 .. n : n - k \in T} \in SUBSET Nat
    OBVIOUS
  <2>2. QED
    BY <2>1
<1>2. U # {}
  <2>1. PICK t \in T : t \in 0 .. n
    OBVIOUS
  <2>2. n - t \in 0 .. n /\ n - (n - t) = t
    BY <2>1
  <2>3. QED
    BY <1>1, <2>2
<1>3. PICK u \in U : \A v \in U : u <= v
  BY <1>2, LeastNumber
<1>4. n - u \in T /\ u \in 0 .. n
  BY <1>1
<1>5. ASSUME NEW t \in T
      PROVE  n - u >= t
  <2>1. t \in 0 .. n /\ n - t \in 0 .. n /\ n - (n - t) = t
    OBVIOUS
  <2>2. u <= n - t
    BY <1>1, <1>3, <2>1
  <2>3. QED
    BY <1>4, <2>1, <2>2
<1>6. \E x \in T : \A y \in T : x >= y
  BY <1>4, <1>5
<1>7. Max(T) \in T /\ \A y \in T : Max(T) >= y
  BY <1>6 DEF Max
<1>8. QED
  BY <1>7

-----------------------------------------------------------------------------
(* What the session holds when a request is made. *)

NoSummary(messages) == \A i \in DOMAIN messages : messages[i].kind # "summary"

\* A summary is pinned, under turn 0, and nothing else is; and a turn in flight has
\* its user message.
SummaryIsPinned(s) ==
    /\ \A k \in DOMAIN s.pinned : s.pinned[k].kind = "summary" /\ s.pinned[k].turn = 0
    /\ \A p \in DOMAIN s.committed : NoSummary(s.committed[p])
    /\ NoSummary(s.userInput) /\ NoSummary(s.staged)
    /\ s.state = "Active" => s.userInput # <<>>

\* Of two parts without a summary.
LEMMA NoSummaryConcat ==
  ASSUME NEW a \in Seq(Message), NEW b \in Seq(Message), NoSummary(a), NoSummary(b)
  PROVE  NoSummary(a \o b)
BY ConcatParts DEF NoSummary

\* A message more, that is not a summary.
LEMMA NoSummaryAppend ==
  ASSUME NEW a \in Seq(Message), NEW m \in Message, NoSummary(a), m.kind # "summary"
  PROVE  NoSummary(Append(a, m))
<1>1. PICK k \in Nat, c \in Seq(Message) :
         k = Len(a) /\ DOMAIN a = 1 .. k /\ c = Append(a, m)
  BY LenProperties, AppendProperties
<1>2. /\ DOMAIN c = 1 .. k + 1 /\ c[k + 1] = m
      /\ \A i \in 1 .. k : c[i] = a[i]
  BY <1>1, AppendProperties, LenProperties
<1>3. \A i \in 1 .. k + 1 : i \in 1 .. k \/ i = k + 1
  BY <1>1
<1>4. NoSummary(c)
  BY <1>1, <1>2, <1>3 DEF NoSummary
<1>5. QED
  BY <1>1, <1>4

\* Staging.
LEMMA StageKeepsSummary ==
  ASSUME NEW s \in Session, SummaryIsPinned(s), NEW kind \in Kind \ {"summary"},
         NEW call \in CallIds \cup {NoCall}, NEW body \in Seq(Nat)
  PROVE  SummaryIsPinned(Stage(s, kind, call, body))
<1>0. kind \in Kind
  OBVIOUS
<1>1. PICK r : r = Stage(s, kind, call, body)
  OBVIOUS
<1>2. PICK m : m = NewMessage(s, kind, call, body)
  OBVIOUS
<1>3. <<m>> \in Seq(Message) /\ m.kind # "summary"
  BY <1>0, <1>2, StageFields DEF NewMessage
<1>4. m \in Message
  BY <1>3, ElementOfSeq
<1>5. /\ r.committed = s.committed /\ r.state = s.state /\ r.pinned = s.pinned
      /\ r.userInput = s.userInput /\ r.staged = Append(s.staged, m)
  BY <1>1, <1>2 DEF Stage, Session
<1>6. s.staged \in Seq(Message) /\ NoSummary(s.staged)
  BY DEF Session, SummaryIsPinned
<1>7. NoSummary(r.staged)
  BY <1>3, <1>4, <1>5, <1>6, NoSummaryAppend
<1>8. SummaryIsPinned(r)
  BY <1>5, <1>7 DEF SummaryIsPinned
<1>9. QED
  BY <1>1, <1>8

\* Pushing a turn.
LEMMA PushTurnKeepsSummary ==
  ASSUME NEW s \in Session, SummaryIsPinned(s)
  PROVE  SummaryIsPinned(PushTurn(s))
<1>1. PICK g \in Seq(Message) : g = StagingAll(s)
  BY TurnsFacts
<1>2. NoSummary(g)
  BY <1>1, NoSummaryConcat DEF StagingAll, Session, SummaryIsPinned
<1>3. PICK c \in Seq(Seq(Message)) : c = s.committed
  BY DEF Session
<1>4. PICK r : r = PushTurn(s)
  OBVIOUS
<1>5. /\ r.committed = Append(c, g) /\ r.pinned = s.pinned
      /\ r.userInput = <<>> /\ r.state = "Idle"
  BY <1>1, <1>3, <1>4, PushTurnFields
<1>6. r.staged = <<>>
  BY <1>4 DEF PushTurn, Session
<1>7. NoSummary(<<>>)
  BY DEF NoSummary
<1>8. \A p \in DOMAIN Append(c, g) : NoSummary(Append(c, g)[p])
  <2>1. PICK k \in Nat, d \in Seq(Seq(Message)) :
           k = Len(c) /\ DOMAIN c = 1 .. k /\ d = Append(c, g)
    BY LenProperties, AppendProperties
  <2>2. /\ DOMAIN d = 1 .. k + 1 /\ d[k + 1] = g
        /\ \A i \in 1 .. k : d[i] = c[i]
    BY <2>1, AppendProperties, LenProperties
  <2>3. \A i \in 1 .. k + 1 : i \in 1 .. k \/ i = k + 1
    BY <2>1
  <2>4. \A i \in 1 .. k : NoSummary(c[i])
    BY <1>3, <2>1 DEF SummaryIsPinned
  <2>5. QED
    BY <1>2, <2>1, <2>2, <2>3, <2>4
<1>9. SummaryIsPinned(r)
  BY <1>5, <1>6, <1>7, <1>8 DEF SummaryIsPinned
<1>10. QED
  BY <1>4, <1>9

\* Dropping the turn in flight, whatever the queue.
LEMMA RollbackKeepsSummary ==
  ASSUME NEW s \in Session, SummaryIsPinned(s), NEW requeue \in BOOLEAN
  PROVE  SummaryIsPinned(RollbackTurn(s, requeue))
<1>1. PICK r : r = RollbackTurn(s, requeue)
  OBVIOUS
<1>2. /\ r.committed = s.committed /\ r.pinned = s.pinned /\ r.state = "Idle"
      /\ r.userInput = <<>> /\ r.staged = <<>>
  BY <1>1 DEF RollbackTurn, ClearStaging, Session
<1>3. NoSummary(<<>>)
  BY DEF NoSummary
<1>4. SummaryIsPinned(r)
  BY <1>2, <1>3 DEF SummaryIsPinned
<1>5. QED
  BY <1>1, <1>4

\* Interrupting it.
LEMMA InterruptKeepsSummary ==
  ASSUME NEW s \in Session, SummaryIsPinned(s), NEW closing \in BOOLEAN
  PROVE  SummaryIsPinned(InterruptTurn(s, closing))
<1>1. CASE s.staged = <<>>
  BY <1>1, RollbackKeepsSummary DEF InterruptTurn
<1>2. CASE s.staged # <<>>
  <2>1. PICK u : u = PatchDanglingToolCalls(s)
    OBVIOUS
  <2>2. PICK new \in Seq(Message) : new = PatchOutputs(s) /\ NoSummary(new)
    BY PatchOutputsFacts DEF NoSummary
  <2>3. /\ u \in Session /\ u.committed = s.committed /\ u.state = s.state
        /\ u.userInput = s.userInput /\ u.pinned = s.pinned
    BY <2>1, PatchFields DEF Extends
  <2>4. u.staged = s.staged \o new
    BY <2>1, <2>2 DEF PatchDanglingToolCalls, Session
  <2>5. NoSummary(u.staged)
    BY <2>2, <2>4, NoSummaryConcat DEF Session, SummaryIsPinned
  <2>6. SummaryIsPinned(u)
    BY <2>3, <2>5 DEF SummaryIsPinned
  <2>7. Notice(closing) \in Kind \ {"summary"} /\ <<>> \in Seq(Nat) /\ NoCall \in CallIds \cup {NoCall}
    BY DEF Notice, Kind
  <2>8. PICK t : t = Stage(u, Notice(closing), NoCall, <<>>)
    OBVIOUS
  <2>9. t \in Session /\ SummaryIsPinned(t)
    BY <2>3, <2>6, <2>7, <2>8, StageFields, StageKeepsSummary
  <2>10. SummaryIsPinned(PushTurn(t))
    BY <2>9, PushTurnKeepsSummary
  <2>11. QED
    BY <1>2, <2>1, <2>8, <2>10 DEF InterruptTurn
<1>3. QED
  BY <1>1, <1>2

\* Compacting.
LEMMA CompactKeepsSummary ==
  ASSUME NEW s \in Session, SummaryIsPinned(s), TurnNumbersCoverPositions(s), NEW count \in Nat
  PROVE  SummaryIsPinned(Compact(s, count))
<1>1. CASE EvictCount(s, count) = 0
  BY <1>1 DEF Compact
<1>2. CASE EvictCount(s, count) # 0
  <2> DEFINE e == EvictCount(s, count)
             r == Compact(s, count)
             L == Len(s.committed)
  <2>2. r.state = s.state /\ r.userInput = s.userInput /\ r.staged = s.staged
    BY <1>2 DEF Compact, Session
  <2>3. DOMAIN r.committed = 1 .. L - e
    BY <1>2, CompactFields
  <2>1. \A p \in 1 .. L - e :
            /\ p + e \in DOMAIN s.committed
            /\ DOMAIN r.committed[p] = DOMAIN s.committed[p + e]
            /\ Len(r.committed[p]) = Len(s.committed[p + e])
            /\ \A i \in DOMAIN r.committed[p] :
                 /\ r.committed[p][i].id = s.committed[p + e][i].id
                 /\ r.committed[p][i].kind = s.committed[p + e][i].kind
                 /\ r.committed[p][i].call = s.committed[p + e][i].call
                 /\ r.committed[p][i].body = s.committed[p + e][i].body
                 /\ r.committed[p][i].turn = s.committed[p + e][i].turn - e
    BY <1>2, CompactFields
  <2>4. r.pinned = <<SummaryOf(s)>>
    BY <1>2 DEF Compact, Session
  <2>5. SummaryOf(s).kind = "summary" /\ SummaryOf(s).turn = 0
    BY DEF SummaryOf, NewMessage
  <2>6. \A k \in DOMAIN r.pinned : r.pinned[k].kind = "summary" /\ r.pinned[k].turn = 0
    BY <2>4, <2>5
  <2>7. \A p \in DOMAIN r.committed : NoSummary(r.committed[p])
    BY <2>1, <2>3 DEF SummaryIsPinned, NoSummary
  <2>8. SummaryIsPinned(r)
    BY <2>2, <2>6, <2>7 DEF SummaryIsPinned
  <2>9. QED
    BY <2>8
<1>3. QED
  BY <1>1, <1>2

\* Stripping.
LEMMA StripKeepsSummary ==
  ASSUME NEW s \in Session, SummaryIsPinned(s), NEW keep \in Nat
  PROVE  SummaryIsPinned(StripStaleContent(s, keep))
<1>1. PICK r : r = StripStaleContent(s, keep)
  OBVIOUS
<1>2. /\ r.state = s.state /\ r.userInput = s.userInput /\ r.staged = s.staged
      /\ r.pinned = s.pinned /\ DOMAIN r.committed = DOMAIN s.committed
      /\ \A p \in DOMAIN s.committed :
            r.committed[p] = s.committed[p] \/ r.committed[p] = StripTurn(s.committed[p])
  BY <1>1, StripFields
<1>3. ASSUME NEW turn \in Seq(Message), NoSummary(turn)
      PROVE  NoSummary(StripTurn(turn))
  BY <1>3, StripTurnFacts DEF NoSummary
<1>4. \A p \in DOMAIN s.committed : s.committed[p] \in Seq(Message) /\ NoSummary(s.committed[p])
  BY SeqElement DEF Session, SummaryIsPinned
<1>5. \A p \in DOMAIN r.committed : NoSummary(r.committed[p])
  BY <1>2, <1>3, <1>4
<1>6. SummaryIsPinned(r)
  BY <1>2, <1>5 DEF SummaryIsPinned
<1>7. QED
  BY <1>1, <1>6

\* One step of the production mutators.
LEMMA NextKeepsSummary ==
  ASSUME PublicInv, SummaryIsPinned(session), Next
  PROVE  SummaryIsPinned(session')
<1>1. /\ session \in Session /\ session.pending \in Seq(Nat)
      /\ TurnNumbersCoverPositions(session)
  BY DEF PublicInv, SoundBy, Session
<1>2. CASE EnqueueInput
  BY <1>1, <1>2 DEF EnqueueInput, EnqueuePending, SummaryIsPinned, Session
<1>3. CASE StartTurnFromPending
  <2>1. PICK m : m = NewMessage(session, "user", NoCall, session.pending)
    OBVIOUS
  <2>2. /\ session'.committed = session.committed /\ session'.pinned = session.pinned
        /\ session'.userInput = <<m>> /\ session'.staged = session.staged
    BY <1>1, <1>3, <2>1 DEF StartTurnFromPending, DequeueAndStartTurn, StartTurn, Session
  <2>3. m.kind # "summary"
    BY <2>1 DEF NewMessage
  <2>4. NoSummary(<<m>>) /\ <<m>> # <<>>
    BY <2>3 DEF NoSummary
  <2>5. QED
    BY <2>2, <2>4 DEF SummaryIsPinned
<1>4. CASE SteerPending
  <2>1. PICK t : t = Stage(session, "user", NoCall, session.pending)
    OBVIOUS
  <2>2. "user" \in Kind \ {"summary"} /\ NoCall \in CallIds \cup {NoCall}
    BY DEF Kind
  <2>3. SummaryIsPinned(t) /\ t \in Session
    BY <1>1, <2>1, <2>2, StageKeepsSummary, StageFields
  <2>4. session' = [t EXCEPT !.pending = <<>>]
    BY <1>4, <2>1 DEF SteerPending, DrainPendingIntoTurn
  <2>5. QED
    BY <2>3, <2>4 DEF SummaryIsPinned, Session
<1>5. CASE StageItem
  <2>1. \A kind \in {"text", "reasoning", "call", "output"} : kind \in Kind \ {"summary"}
    BY DEF Kind
  <2>2. <<>> \in Seq(Nat) /\ \A c \in CallIds \cup {NoCall} : c \in CallIds \cup {NoCall}
    OBVIOUS
  <2>3. \E kind \in {"text", "reasoning", "call", "output"}, c \in CallIds \cup {NoCall} :
           session' = Stage(session, kind, c, <<>>)
    BY <1>5 DEF StageItem
  <2>4. QED
    BY <1>1, <2>1, <2>2, <2>3, StageKeepsSummary
<1>6. CASE StageSalvage
  <2>1. session' = Stage(session, "text", NoCall, <<>>)
    BY <1>6 DEF StageSalvage
  <2>2. "text" \in Kind \ {"summary"} /\ NoCall \in CallIds \cup {NoCall} /\ <<>> \in Seq(Nat)
    BY DEF Kind
  <2>3. QED
    BY <1>1, <2>1, <2>2, StageKeepsSummary
<1>7. CASE Truncate
  <2>1. PICK c \in 0 .. Len(session.staged) : session' = TruncateStaging(session, c)
    BY <1>7 DEF Truncate
  <2>2. PICK g \in Seq(Message) : g = session.staged
    BY <1>1 DEF Session
  <2>3. PICK k \in Nat : k = Len(g) /\ DOMAIN g = 1 .. k /\ c \in 0 .. k
    BY <2>1, <2>2, LenProperties
  <2>4. \A i \in 1 .. c : i \in DOMAIN g /\ g[i] \in Message
    BY <2>3, ElementOfSeq
  <2>5. /\ DOMAIN SubSeq(g, 1, c) = 1 .. c
        /\ \A i \in 1 .. c : SubSeq(g, 1, c)[i] = g[i]
    BY <2>3, <2>4
  <2>6. NoSummary(SubSeq(g, 1, c))
    BY <2>2, <2>4, <2>5 DEF SummaryIsPinned, NoSummary
  <2>7. QED
    BY <1>1, <2>1, <2>2, <2>6 DEF TruncateStaging, SummaryIsPinned, Session
<1>8. CASE Commit
  <2>1. CASE StagingAll(session) = <<>>
    BY <1>1, <1>8, <2>1 DEF Commit, CommitTurn, SummaryIsPinned, Session
  <2>2. CASE StagingAll(session) # <<>>
    BY <1>1, <1>8, <2>2, PushTurnKeepsSummary DEF Commit, CommitTurn
  <2>3. QED
    BY <2>1, <2>2
<1>9. CASE Rollback
  BY <1>1, <1>9, RollbackKeepsSummary DEF Rollback
<1>10. CASE Interrupt
  BY <1>1, <1>10, InterruptKeepsSummary DEF Interrupt
<1>11. CASE CompactHistory
  <2>1. \A count \in 1 .. MaxTurns : count \in Nat
    BY BoundsAssumption
  <2>2. QED
    BY <1>1, <1>11, <2>1, CompactKeepsSummary DEF CompactHistory
<1>12. CASE StripHistory
  <2>1. \A keep \in 0 .. MaxTurns : keep \in Nat
    BY BoundsAssumption
  <2>2. QED
    BY <1>1, <1>12, <2>1, StripKeepsSummary DEF StripHistory
<1>13. CASE DropPending
  BY <1>1, <1>13 DEF DropPending, ClearPending, SummaryIsPinned, Session
<1>14. QED
  BY <1>2, <1>3, <1>4, <1>5, <1>6, <1>7, <1>8, <1>9, <1>10, <1>11, <1>12, <1>13 DEF Next

\* The inductive invariant of what a request is made of.
ContextInv == Inv /\ SummaryIsPinned(session)

\* It holds whatever the mutators do.
THEOREM ContextInvariant == Spec => []ContextInv
<1>1. Init => ContextInv
  <2>1. SUFFICES ASSUME Init PROVE SummaryIsPinned(session) /\ Inv
    BY DEF ContextInv
  <2>2. SummaryIsPinned(session)
    BY <2>1 DEF Init, NewSession, SummaryIsPinned, NoSummary
  <2>3. Inv
    BY <2>1, NewSessionSound DEF Init, Inv, PublicInv
  <2>4. QED
    BY <2>2, <2>3
<1>2. ContextInv /\ [Next]_vars => ContextInv'
  <2>1. SUFFICES ASSUME ContextInv, [Next]_vars PROVE ContextInv'
    OBVIOUS
  <2>2. CASE Next
    <3>1. Inv'
      BY <2>1, <2>2, NextKeeps DEF ContextInv, Inv
    <3>2. SummaryIsPinned(session')
      BY <2>1, <2>2, NextKeepsSummary DEF ContextInv, Inv
    <3>3. QED
      BY <3>1, <3>2 DEF ContextInv
  <2>3. CASE UNCHANGED vars
    BY <2>1, <2>3 DEF ContextInv, Inv, PublicInv, vars
  <2>4. QED
    BY <2>1, <2>2, <2>3
<1>3. QED
  BY <1>1, <1>2, PTL DEF Spec

-----------------------------------------------------------------------------
(* The requests. *)

\* All messages M: the pinned summary P, the history H and the turn in flight G, of
\* number T.
Parts(M, P, H, G, T) ==
    /\ P \in Seq(Message) /\ H \in Seq(Message) /\ G \in Seq(Message) /\ T \in Nat
    /\ \A i \in DOMAIN P : P[i].kind = "summary" /\ P[i].turn = 0
    /\ \A i \in DOMAIN H : H[i].kind # "summary" /\ H[i].turn < T
    /\ \A i, j \in DOMAIN H : i < j => H[i].turn <= H[j].turn
    /\ \A i \in DOMAIN G : G[i].kind # "summary" /\ G[i].turn = T
    /\ G # <<>>
    /\ M = P \o H \o G

\* They are what a request is made of.
LEMMA PartsOfSession ==
  ASSUME ContextInv, session.state = "Active"
  PROVE  Parts(Messages, session.pinned, FlattenSeq(session.committed),
               StagingAll(session), session.turnIndex)
<1>1. /\ session \in Session /\ StagingIsCurrent(session)
      /\ TurnNumbersIncrease(session) /\ SummaryIsPinned(session)
  BY DEF ContextInv, Inv, PublicInv, SoundBy
<1>2. PICK c \in Seq(Seq(Message)), T \in Nat : c = session.committed /\ T = session.turnIndex
  BY <1>1 DEF Session
<1>3. PICK H : H = FlattenSeq(c)
  OBVIOUS
<1>4. Flattens(Message, H, c, Len(c)) /\ DOMAIN c = 1 .. Len(c)
  BY <1>3, FlattenFacts, LenProperties
<1>5. H \in Seq(Message)
  BY <1>4 DEF Flattens
<1>6. ASSUME NEW p \in DOMAIN c, NEW i \in DOMAIN c[p]
      PROVE  c[p][i].kind # "summary" /\ c[p][i].turn < T /\ c[p][i].turn \in Nat
  <2>1. c[p][i] \in Message
    BY SeqElement
  <2>2. QED
    BY <1>1, <1>2, <2>1 DEF SummaryIsPinned, NoSummary, TurnNumbersIncrease, Message
<1>7. ASSUME NEW p \in DOMAIN c, NEW i \in DOMAIN c[p],
             NEW q \in DOMAIN c, NEW j \in DOMAIN c[q], p <= q
      PROVE  c[p][i].turn <= c[q][j].turn
  <2>1. p \in Nat /\ q \in Nat /\ (p < q \/ p = q)
    BY <1>4, <1>7
  <2>2. c[p][i].turn \in Nat /\ c[q][j].turn \in Nat
    BY <1>6
  <2>3. c[p][i].turn < c[q][j].turn \/ c[p][i].turn = c[q][j].turn
    BY <1>1, <1>2, <2>1 DEF TurnNumbersIncrease
  <2>4. QED
    BY <2>2, <2>3
<1>8. ASSUME NEW k \in DOMAIN H
      PROVE  H[k].kind # "summary" /\ H[k].turn < T
  <2>1. PICK p \in DOMAIN c : \E i \in DOMAIN c[p] : H[k] = c[p][i]
    <3>1. \E p \in 1 .. Len(c) : \E i \in DOMAIN c[p] : H[k] = c[p][i]
      BY Zenon, <1>4 DEF Flattens
    <3>2. QED
      BY <1>4, <3>1
  <2>2. QED
    BY <1>6, <2>1
<1>9. ASSUME NEW k \in DOMAIN H, NEW l \in DOMAIN H, k < l
      PROVE  H[k].turn <= H[l].turn
  <2>1. \E p, q \in DOMAIN c : \E i \in DOMAIN c[p], j \in DOMAIN c[q] :
           p <= q /\ H[k] = c[p][i] /\ H[l] = c[q][j]
    <3>1. \E p, q \in 1 .. Len(c) : \E i \in DOMAIN c[p], j \in DOMAIN c[q] :
             p <= q /\ H[k] = c[p][i] /\ H[l] = c[q][j]
      BY Zenon, <1>4, <1>9 DEF Flattens
    <3>2. QED
      BY Zenon, <1>4, <3>1
  <2>2. QED
    BY <1>7, <2>1
<1>10. PICK G \in Seq(Message) : G = StagingAll(session)
  BY <1>1, TurnsFacts
<1>11. \A i \in DOMAIN G : G[i].kind # "summary" /\ G[i].turn = T
  <2>1. NoSummary(G)
    BY <1>1, <1>10, NoSummaryConcat DEF StagingAll, Session, SummaryIsPinned
  <2>2. QED
    BY <1>1, <1>2, <1>10, <2>1 DEF NoSummary, StagingIsCurrent
<1>12. G # <<>>
  <2>1. PICK u \in Seq(Message), v \in Seq(Message) :
           u = session.userInput /\ v = session.staged /\ u # <<>>
    BY <1>1 DEF Session, SummaryIsPinned
  <2>2. Len(u) \in Nat \ {0} /\ Len(v) \in Nat /\ Len(u \o v) = Len(u) + Len(v)
    BY <2>1, ConcatParts, EmptySeq
  <2>3. Len(u \o v) # 0
    BY <2>2
  <2>4. QED
    BY <1>10, <2>1, <2>3 DEF StagingAll
<1>13. PICK P \in Seq(Message) : P = session.pinned
  BY <1>1 DEF Session
<1>14. \A i \in DOMAIN P : P[i].kind = "summary" /\ P[i].turn = 0
  BY <1>1, <1>13 DEF SummaryIsPinned
<1>15. Messages = P \o H \o G
  BY <1>2, <1>3, <1>10, <1>13 DEF Messages
<1>16. Parts(Messages, P, H, G, T)
  BY <1>5, <1>8, <1>9, <1>11, <1>12, <1>14, <1>15 DEF Parts
<1>17. QED
  BY <1>2, <1>3, <1>10, <1>13, <1>16

\* The elements of a concatenation.
LEMMA RangeConcat ==
  ASSUME NEW S, NEW a \in Seq(S), NEW b \in Seq(S)
  PROVE  Range(a \o b) = Range(a) \cup Range(b)
<1>1. PICK k \in Nat, l \in Nat, c \in Seq(S) : k = Len(a) /\ l = Len(b) /\ c = a \o b
  BY LenProperties, ConcatProperties
<1>2. /\ DOMAIN a = 1 .. k /\ DOMAIN b = 1 .. l /\ DOMAIN c = 1 .. k + l
      /\ \A i \in 1 .. k : i \in 1 .. k + l /\ c[i] = a[i]
      /\ \A j \in 1 .. l : k + j \in 1 .. k + l /\ c[k + j] = b[j]
      /\ \A i \in 1 .. k + l :
           \/ i \in 1 .. k /\ c[i] = a[i]
           \/ i - k \in 1 .. l /\ c[i] = b[i - k]
  BY <1>1, ConcatParts
<1>3. \A i \in DOMAIN c : c[i] \in Range(a) \cup Range(b)
  BY <1>2 DEF Range
<1>4. (\A i \in DOMAIN a : a[i] \in Range(c)) /\ \A j \in DOMAIN b : b[j] \in Range(c)
  BY <1>2 DEF Range
<1>5. Range(c) = Range(a) \cup Range(b)
  BY <1>3, <1>4 DEF Range
<1>6. QED
  BY <1>1, <1>5

\* Of the three parts.
LEMMA RangeParts ==
  ASSUME NEW P \in Seq(Message), NEW H \in Seq(Message), NEW G \in Seq(Message)
  PROVE  /\ P \o H \in Seq(Message) /\ P \o H \o G \in Seq(Message)
         /\ Range(P \o H \o G) = Range(P) \cup Range(H) \cup Range(G)
<1>1. PICK Q \in Seq(Message) : Q = P \o H
  BY ConcatProperties
<1>2. Q \o G \in Seq(Message) /\ Range(Q \o G) = Range(Q) \cup Range(G)
  BY <1>1, ConcatProperties, RangeConcat
<1>3. Range(Q) = Range(P) \cup Range(H)
  BY <1>1, RangeConcat
<1>4. QED
  BY <1>1, <1>2, <1>3

\* Of two parts of a session.
LEMMA ChosenOfTwo ==
  \A a, b \in Seq(Message) : \A X : Chosen(a \o b, X) = Chosen(a, X) \o Chosen(b, X)
<1>1. ASSUME NEW a \in Seq(Message), NEW b \in Seq(Message), NEW X
      PROVE  Chosen(a \o b, X) = Chosen(a, X) \o Chosen(b, X)
  BY ChosenConcat
<1>2. QED
  BY <1>1

\* A request that starts at a turn number up to the current one ends with the turn
\* in flight, and has all of a turn or nothing.
LEMMA FromTurnIsWhole ==
  ASSUME NEW P, NEW H, NEW G, NEW T, NEW M, Parts(M, P, H, G, T),
         NEW first \in Nat, first <= T
  PROVE  /\ IsSuffix(G, FromTurn(M, first))
         /\ \A m \in Range(M), n \in Range(FromTurn(M, first)) :
               m.turn = n.turn => m \in Range(FromTurn(M, first))
<1>1. P \in Seq(Message) /\ H \in Seq(Message) /\ G \in Seq(Message)
  BY DEF Parts
<1>2. M = P \o H \o G
  BY DEF Parts
<1>11. M \in Seq(Message)
  BY <1>1, <1>2, RangeParts
<1>3. PICK X : X = {m \in Range(M) : m.turn >= first}
  OBVIOUS
<1>4. FromTurn(M, first) = Chosen(M, X)
  BY <1>3 DEF FromTurn
<1>5. Range(Chosen(M, X)) = X
  <2>2. Range(Chosen(M, X)) = Range(M) \cap X
    BY <1>11, ChosenFacts
  <2>3. X \subseteq Range(M)
    BY <1>3
  <2>4. QED
    BY <2>2, <2>3
<1>6. Range(G) \subseteq X
  <2>1. T >= first
    BY DEF Parts
  <2>2. \A i \in DOMAIN G : G[i].turn = T
    BY DEF Parts
  <2>3. Range(G) \subseteq Range(M)
    <3>1. Range(M) = Range(P) \cup Range(H) \cup Range(G)
      BY SMTT(40), <1>1, <1>2, RangeParts
    <3>2. QED
      BY <3>1
  <2>4. QED
    BY <1>3, <2>1, <2>2, <2>3 DEF Range
<1>7. Chosen(G, X) = G
  BY <1>1, <1>6, ChosenAll
<1>8. IsSuffix(G, Chosen(M, X))
  <2>1. PICK Q : Q = P \o H
    OBVIOUS
  <2>2. M = Q \o G
    BY <1>2, <2>1
  <2>0. Q \in Seq(Message) /\ G \in Seq(Message)
    BY <1>1, <2>1, RangeParts
  <2>3. Chosen(Q \o G, X) = Chosen(Q, X) \o Chosen(G, X)
    BY <2>0, ChosenOfTwo
  <2>4. PICK a \in Seq(Message) : a = Chosen(Q, X)
    BY <2>0, ChosenFacts
  <2>5. Chosen(M, X) = a \o G
    BY <1>7, <2>2, <2>3, <2>4
  <2>6. QED
    BY <1>1, <2>5, SuffixOf
<1>9. \A m \in Range(M), n \in X : m.turn = n.turn => m \in X
  BY <1>3
<1>10. QED
  BY <1>2, <1>4, <1>5, <1>8, <1>9

\* The turn numbers of the messages go up to that of the turn in flight.
LEMMA TurnsUpTo ==
  ASSUME NEW P, NEW H, NEW G, NEW T, NEW M, Parts(M, P, H, G, T)
  PROVE  /\ M \in Seq(Message) /\ M # <<>> /\ Len(M) \in Nat \ {0} /\ T \in Nat
         /\ \A i \in DOMAIN M : M[i].turn \in Nat /\ M[i].turn <= T
         /\ Last(M).turn = T
<1>1. /\ P \in Seq(Message) /\ H \in Seq(Message) /\ G \in Seq(Message)
      /\ T \in Nat /\ G # <<>>
  BY DEF Parts
<1>2. M \in Seq(Message)
  BY <1>1, RangeParts DEF Parts
<1>3. Range(M) = Range(P) \cup Range(H) \cup Range(G)
  BY <1>1, RangeParts DEF Parts
<1>4. ASSUME NEW m \in Range(M)
      PROVE  m.turn \in Nat /\ m.turn <= T
  <2>1. m \in Message
    BY <1>2, SeqElement DEF Range
  <2>2. m.turn \in Nat
    BY <2>1 DEF Message
  <2>3. m.turn = 0 \/ m.turn < T \/ m.turn = T
    BY <1>3 DEF Parts, Range
  <2>4. QED
    BY <1>1, <2>2, <2>3
<1>5. \A i \in DOMAIN M : M[i].turn \in Nat /\ M[i].turn <= T
  BY <1>4 DEF Range
<1>6. PICK Q : Q \in Seq(Message) /\ M = Q \o G
  BY <1>1, RangeParts DEF Parts
<1>7. PICK k \in Nat, l \in Nat \ {0} : k = Len(Q) /\ l = Len(G) /\ DOMAIN G = 1 .. l
  BY <1>1, <1>6, LenProperties, EmptySeq
<1>8. Len(M) = k + l /\ \A j \in 1 .. l : M[k + j] = G[j]
  BY <1>1, <1>6, <1>7, ConcatParts
<1>9. l \in 1 .. l /\ k + l # 0 /\ k + l \in Nat
  BY <1>7
<1>10. Last(M) = G[l] /\ G[l].turn = T
  BY <1>7, <1>8, <1>9 DEF Last, Parts
<1>11. M # <<>>
  BY <1>2, <1>8, <1>9, EmptySeq
<1>12. QED
  BY <1>1, <1>2, <1>5, <1>8, <1>9, <1>10, <1>11

\* What a window asks for starts at a turn number up to the current one.
LEMMA WindowStarts ==
  ASSUME NEW P, NEW H, NEW G, NEW T, NEW M, Parts(M, P, H, G, T),
         NEW maxTurns \in Nat \ {0}
  PROVE  \E first \in Nat : first <= T /\ SlidingWindow(M, maxTurns) = FromTurn(M, first)
<1>1. /\ M \in Seq(Message) /\ M # <<>> /\ Len(M) \in Nat \ {0} /\ T \in Nat
      /\ \A i \in DOMAIN M : M[i].turn \in Nat /\ M[i].turn <= T
  BY TurnsUpTo
<1>2. PICK N : N = TurnsOf(M)
  OBVIOUS
<1>3. N \in SUBSET (0 .. T) /\ N # {}
  <2>1. 1 \in DOMAIN M
    BY <1>1, LenProperties
  <2>2. M[1].turn \in N
    BY <1>2, <2>1 DEF TurnsOf
  <2>3. \A t \in N : t \in 0 .. T
    <3>1. SUFFICES ASSUME NEW i \in DOMAIN M PROVE M[i].turn \in 0 .. T
      BY <1>2 DEF TurnsOf
    <3>2. M[i].turn \in Nat /\ M[i].turn <= T /\ T \in Nat
      BY <1>1
    <3>3. QED
      BY <3>2
  <2>4. QED
    BY <2>2, <2>3
<1>4. PICK newest : newest = Max(N)
  OBVIOUS
<1>5. newest \in 0 .. T
  BY <1>1, <1>3, <1>4, MaxFacts
<1>6. PICK first : first = IF newest >= maxTurns - 1 THEN newest - (maxTurns - 1) ELSE 0
  OBVIOUS
<1>7. first \in Nat /\ first <= T
  BY <1>1, <1>5, <1>6
<1>8. SlidingWindow(M, maxTurns) = FromTurn(M, first)
  BY <1>1, <1>2, <1>4, <1>6 DEF SlidingWindow
<1>9. QED
  BY <1>7, <1>8

\* And what a budget asks for.
LEMMA BudgetStarts ==
  ASSUME NEW P, NEW H, NEW G, NEW T, NEW M, Parts(M, P, H, G, T),
         NEW budget \in Nat
  PROVE  \E first \in Nat : first <= T /\ TokenBudget(M, budget) = FromTurn(M, first)
<1>1. /\ M \in Seq(Message) /\ M # <<>> /\ Len(M) \in Nat \ {0} /\ T \in Nat
      /\ \A i \in DOMAIN M : M[i].turn \in Nat /\ M[i].turn <= T
  BY TurnsUpTo
<1>2. PICK k \in Nat : k = Len(M) /\ DOMAIN M = 1 .. k /\ 1 \in 1 .. k
  BY <1>1, LenProperties
<1>3. PICK starts : starts = Starts(M)
  OBVIOUS
<1>4. starts \in SUBSET (0 .. k) /\ starts \subseteq 1 .. k /\ starts # {}
  <2>1. starts \subseteq 1 .. k
    BY <1>2, <1>3 DEF Starts
  <2>2. 1 \in starts
    BY <1>2, <1>3 DEF Starts
  <2>3. QED
    BY <2>1, <2>2
<1>5. Max(starts) \in starts
  BY <1>4, MaxFacts
<1>6. PICK fits : fits = {i \in starts : Len(M) - i + 1 <= budget \/ i = Max(starts)}
  OBVIOUS
<1>7. fits # {} /\ fits \subseteq DOMAIN M
  BY <1>2, <1>4, <1>5, <1>6
<1>8. PICK N : N = {M[i].turn : i \in fits}
  OBVIOUS
<1>9. N \in SUBSET Nat /\ N # {} /\ \A t \in N : t <= T
  BY <1>1, <1>7, <1>8
<1>10. Min(N) \in N
  BY <1>9, MinFacts
<1>11. TokenBudget(M, budget) = FromTurn(M, Min(N))
  BY <1>1, <1>3, <1>6, <1>8 DEF TokenBudget
<1>12. QED
  BY <1>9, <1>10, <1>11

\* What is chosen of the three parts: all of one of them, and nothing of the others.
LEMMA OnePartChosen ==
  ASSUME NEW P, NEW H, NEW G, NEW T, NEW M, Parts(M, P, H, G, T), NEW X
  PROVE  /\ Range(P) \subseteq X /\ Range(H) \cap X = {} /\ Range(G) \cap X = {}
               => Chosen(M, X) = P
         /\ Range(P) \cap X = {} /\ Range(H) \subseteq X /\ Range(G) \cap X = {}
               => Chosen(M, X) = H
         /\ Range(P) \cap X = {} /\ Range(H) \cap X = {} /\ Range(G) \subseteq X
               => Chosen(M, X) = G
<1>1. P \in Seq(Message) /\ H \in Seq(Message) /\ G \in Seq(Message)
  BY DEF Parts
<1>2. PICK Q : Q = P \o H
  OBVIOUS
<1>3. Q \in Seq(Message) /\ G \in Seq(Message)
  BY <1>1, <1>2, RangeParts
<1>4. Chosen(Q \o G, X) = Chosen(Q, X) \o Chosen(G, X)
  BY <1>3, ChosenOfTwo
<1>5. Chosen(P \o H, X) = Chosen(P, X) \o Chosen(H, X)
  BY <1>1, ChosenOfTwo
<1>6. Chosen(M, X) = (Chosen(P, X) \o Chosen(H, X)) \o Chosen(G, X)
  BY <1>2, <1>4, <1>5 DEF Parts
<1>7. /\ P \o <<>> = P /\ <<>> \o H = H /\ H \o <<>> = H /\ <<>> \o G = G
      /\ <<>> \o <<>> = <<>>
  BY <1>1, ConcatEmptySeq, EmptySeq
<1>8. /\ Range(P) \subseteq X => Chosen(P, X) = P
      /\ Range(H) \subseteq X => Chosen(H, X) = H
      /\ Range(G) \subseteq X => Chosen(G, X) = G
  BY <1>1, ChosenAll
<1>9. /\ Range(P) \cap X = {} => Chosen(P, X) = <<>>
      /\ Range(H) \cap X = {} => Chosen(H, X) = <<>>
      /\ Range(G) \cap X = {} => Chosen(G, X) = <<>>
  BY <1>1, ChosenNone
<1>10. QED
  BY <1>6, <1>7, <1>8, <1>9

\* The filter of Peco: the summary, what it selects of the history, the turn in flight.
LEMMA PecoFilterIs ==
  ASSUME NEW P, NEW H, NEW G, NEW T, NEW M, Parts(M, P, H, G, T), NEW budget
  PROVE  PecoFilter(M, budget) = P \o View(SelectHistoryTurns(H, budget)) \o G
<1>1. P \in Seq(Message) /\ H \in Seq(Message) /\ G \in Seq(Message) /\ T \in Nat
  BY DEF Parts
<1>2. /\ \A m \in Range(P) : m.kind = "summary"
      /\ \A m \in Range(H) : m.kind # "summary" /\ m.turn < T
      /\ \A m \in Range(G) : m.kind # "summary" /\ m.turn = T
  BY DEF Parts, Range
<1>3. Range(M) = Range(P) \cup Range(H) \cup Range(G)
  BY <1>1, RangeParts DEF Parts
<1>4. CurrentTurn(M) = T
  <2>1. Last(M).turn = T
    BY TurnsUpTo
  <2>2. QED
    BY <2>1 DEF CurrentTurn
<1>5. \A m \in Range(H) : m.turn \in Nat /\ ~(m.turn >= T)
  <2>1. \A m \in Range(H) : m \in Message
    BY <1>1, SeqElement DEF Range
  <2>2. QED
    BY <1>1, <1>2, <2>1 DEF Message
<1>6. PICK spoken : spoken = Range(M) \ Summaries(M)
  OBVIOUS
<1>7. spoken = Range(H) \cup Range(G) /\ Summaries(M) = Range(P)
  BY <1>2, <1>3, <1>6 DEF Summaries
<1>8. Chosen(M, Summaries(M)) = P
  <2>1. Range(H) \cap Range(P) = {} /\ Range(G) \cap Range(P) = {}
    BY <1>2
  <2>2. QED
    BY <1>1, <1>7, <2>1, OnePartChosen
<1>9. Chosen(M, {m \in spoken : m.turn < T}) = H
  <2>1. PICK X : X = {m \in spoken : m.turn < T}
    OBVIOUS
  <2>2. Range(P) \cap X = {} /\ Range(H) \subseteq X /\ Range(G) \cap X = {}
    BY <1>1, <1>2, <1>7, <2>1
  <2>3. QED
    BY <1>1, <2>1, <2>2, OnePartChosen
<1>10. Chosen(M, {m \in spoken : m.turn >= T}) = G
  <2>1. PICK X : X = {m \in spoken : m.turn >= T}
    OBVIOUS
  <2>2. Range(P) \cap X = {} /\ Range(H) \cap X = {} /\ Range(G) \subseteq X
    BY <1>1, <1>2, <1>5, <1>7, <2>1
  <2>3. QED
    BY <1>1, <2>1, <2>2, OnePartChosen
<1>11. QED
  BY <1>4, <1>6, <1>8, <1>9, <1>10 DEF PecoFilter

\* What can be viewed.
ToView == {m \in Message : Viewable(m)}

\* View chooses it.
LEMMA ViewFacts ==
  ASSUME NEW q, q \in Seq(Message)
  PROVE  /\ View(q) = Chosen(q, ToView)
         /\ View(q) \in Seq(Message)
         /\ \A m \in Range(View(q)) : m \in Range(q) /\ Viewable(m)
<1>1. \A m \in Range(q) : m \in Message
  BY SeqElement DEF Range
<1>2. PICK X : X = {m \in Range(q) : Viewable(m)}
  OBVIOUS
<1>3. View(q) = Chosen(q, X)
  BY <1>2 DEF View
<1>4. Chosen(q, X) = Chosen(q, ToView)
  <2>1. Range(q) \cap X = Range(q) \cap ToView
    BY <1>1, <1>2 DEF ToView
  <2>2. QED
    BY <2>1, ChosenSame
<1>5. Chosen(q, X) \in Seq(Message) /\ Range(Chosen(q, X)) = Range(q) \cap X
  BY ChosenFacts
<1>6. QED
  BY <1>2, <1>3, <1>4, <1>5

\* What is selected of the history: nothing, or its end from where a turn starts.
LEMMA SelectIs ==
  ASSUME NEW H, H \in Seq(Message), NEW budget
  PROVE  LET from == {i \in Starts(H) : Len(View(SubSeq(H, i, Len(H)))) <= budget}
         IN  /\ from = {} => SelectHistoryTurns(H, budget) = <<>>
             /\ from # {} => /\ Min(from) \in from /\ \A i \in from : Min(from) <= i
                             /\ SelectHistoryTurns(H, budget) = SubSeq(H, Min(from), Len(H))
             /\ SelectHistoryTurns(H, budget) \in Seq(Message)
<1>1. PICK from : from = {i \in Starts(H) : Len(View(SubSeq(H, i, Len(H)))) <= budget}
  OBVIOUS
<1>2. SelectHistoryTurns(H, budget) = IF from = {} THEN <<>> ELSE SubSeq(H, Min(from), Len(H))
  BY <1>1 DEF SelectHistoryTurns
<1>3. PICK k \in Nat : k = Len(H) /\ DOMAIN H = 1 .. k
  BY LenProperties
<1>4. from \in SUBSET Nat /\ from \subseteq DOMAIN H
  BY <1>1, <1>3 DEF Starts
<1>5. from # {} => Min(from) \in from /\ \A i \in from : Min(from) <= i
  BY <1>4, MinFacts
<1>6. \A i \in DOMAIN H : SubSeq(H, i, Len(H)) \in Seq(Message)
  <2>1. SUFFICES ASSUME NEW i \in 1 .. k PROVE SubSeq(H, i, k) \in Seq(Message)
    BY <1>3
  <2>2. \A j \in i .. k : H[j] \in Message
    BY <1>3, ElementOfSeq
  <2>3. QED
    BY <2>2, SubSeqProperties
<1>7. <<>> \in Seq(Message)
  OBVIOUS
<1>8. SelectHistoryTurns(H, budget) \in Seq(Message)
  BY <1>2, <1>4, <1>5, <1>6, <1>7
<1>9. QED
  BY <1>1, <1>2, <1>5, <1>8

\* No call goes without its output in what the filter lets through.
LEMMA PecoFilterIsWhole ==
  ASSUME NEW P, NEW H, NEW G, NEW T, NEW M, Parts(M, P, H, G, T), NEW budget
  PROVE  /\ IsSuffix(G, PecoFilter(M, budget))
         /\ \A m \in Range(M), n \in Range(PecoFilter(M, budget)) :
               InCall(m) /\ InCall(n) /\ m.turn = n.turn => m \in Range(PecoFilter(M, budget))
<1>1. P \in Seq(Message) /\ H \in Seq(Message) /\ G \in Seq(Message) /\ T \in Nat
  BY DEF Parts
<1>2. /\ \A m \in Range(P) : m.kind = "summary"
      /\ \A m \in Range(H) : m \in Message /\ m.turn < T
      /\ \A m \in Range(G) : m.turn = T
  BY <1>1, SeqElement DEF Parts, Range
<1>3. PICK V : V = View(SelectHistoryTurns(H, budget))
  OBVIOUS
<1>4. V \in Seq(Message) /\ \A m \in Range(V) : Viewable(m)
  BY <1>1, <1>3, SelectIs, ViewFacts
<1>5. PICK request : request = P \o V \o G
  OBVIOUS
<1>6. PecoFilter(M, budget) = request
  <2>1. PecoFilter(M, budget) = P \o View(SelectHistoryTurns(H, budget)) \o G
    BY PecoFilterIs
  <2>2. QED
    BY <1>3, <1>5, <2>1
<1>7. Range(M) = Range(P) \cup Range(H) \cup Range(G)
  BY <1>1, RangeParts DEF Parts
<1>8. Range(request) = Range(P) \cup Range(V) \cup Range(G)
  BY <1>1, <1>4, <1>5, RangeParts
<1>9. IsSuffix(G, request)
  BY <1>1, <1>4, <1>5, RangeParts, SuffixOf
<1>10. ASSUME NEW m \in Range(M), NEW n \in Range(request),
              InCall(m), InCall(n), m.turn = n.turn
       PROVE  m \in Range(request)
  <2>1. n \in Range(G)
    BY <1>2, <1>4, <1>8, <1>10 DEF InCall, Viewable
  <2>2. m.turn = T
    BY <1>2, <1>10, <2>1
  <2>3. m \notin Range(P)
    BY <1>2, <1>10 DEF InCall
  <2>4. \A h \in Range(H) : h.turn # T
    BY <1>1, <1>2 DEF Message
  <2>5. m \in Range(G)
    BY <1>7, <2>2, <2>3, <2>4
  <2>6. QED
    BY <1>8, <2>5
<1>11. QED
  BY <1>6, <1>9, <1>10

\* Whatever the budget, a request ends with the turn in flight, and has no call
\* without its output or output without its call.
THEOREM RequestsNeverSplitCalls == Spec => []RequestsAreWhole
<1>1. ContextInv => RequestsAreWhole
  <2>1. SUFFICES ASSUME ContextInv, session.state = "Active", NEW request \in Requests(Messages)
                 PROVE  /\ IsSuffix(StagingAll(session), request)
                        /\ \A m \in Range(Messages), n \in Range(request) :
                              InCall(m) /\ InCall(n) /\ m.turn = n.turn
                                 => m \in Range(request)
    BY DEF RequestsAreWhole
  <2>2. PICK P, H, G, T : /\ P = session.pinned /\ H = FlattenSeq(session.committed)
                          /\ G = StagingAll(session) /\ T = session.turnIndex
    OBVIOUS
  <2>5. PICK M : M = Messages
    OBVIOUS
  <2>3. Parts(M, P, H, G, T)
    BY <2>1, <2>2, <2>5, PartsOfSession
  <2>6. \A first \in Nat : first <= T =>
           /\ IsSuffix(G, FromTurn(M, first))
           /\ \A m \in Range(M), n \in Range(FromTurn(M, first)) :
                 m.turn = n.turn => m \in Range(FromTurn(M, first))
    BY <2>3, FromTurnIsWhole
  <2>7. CASE request \in {SlidingWindow(Messages, n) : n \in 1 .. MaxBudget + 1}
    <3>1. PICK k \in 1 .. MaxBudget + 1 : request = SlidingWindow(M, k)
      BY <2>5, <2>7
    <3>2. k \in Nat \ {0}
      BY BudgetAssumption
    <3>3. \E first \in Nat : first <= T /\ SlidingWindow(M, k) = FromTurn(M, first)
      BY <2>3, <3>2, WindowStarts
    <3>4. QED
      BY <2>2, <2>5, <2>6, <3>1, <3>3
  <2>8. CASE request \in {TokenBudget(Messages, n) : n \in 0 .. MaxBudget}
    <3>1. PICK k \in 0 .. MaxBudget : request = TokenBudget(M, k)
      BY <2>5, <2>8
    <3>2. k \in Nat
      BY BudgetAssumption
    <3>3. \E first \in Nat : first <= T /\ TokenBudget(M, k) = FromTurn(M, first)
      BY <2>3, <3>2, BudgetStarts
    <3>4. QED
      BY <2>2, <2>5, <2>6, <3>1, <3>3
  <2>9. CASE request \in {PecoFilter(Messages, n) : n \in 0 .. MaxBudget}
    <3>1. PICK k \in 0 .. MaxBudget : request = PecoFilter(M, k)
      BY <2>5, <2>9
    <3>2. QED
      BY <2>2, <2>3, <2>5, <3>1, PecoFilterIsWhole
  <2>10. QED
    BY <2>7, <2>8, <2>9 DEF Requests
<1>2. QED
  BY <1>1, ContextInvariant, PTL

-----------------------------------------------------------------------------
(* What the filter of Peco selects of the history. *)

\* The end of a sequence.
LEMMA TailFacts ==
  ASSUME NEW S, NEW seq \in Seq(S), NEW i \in DOMAIN seq
  PROVE  LET r == SubSeq(seq, i, Len(seq))
         IN  /\ r \in Seq(S) /\ DOMAIN r = 1 .. Len(seq) - i + 1
             /\ \A j \in 1 .. Len(seq) - i + 1 :
                   i + j - 1 \in DOMAIN seq /\ r[j] = seq[i + j - 1]
<1>1. PICK k \in Nat : k = Len(seq) /\ DOMAIN seq = 1 .. k
  BY LenProperties
<1>2. i \in 1 .. k /\ k - i + 1 \in Nat
  BY <1>1
<1>3. \A j \in i .. k : seq[j] \in S
  BY <1>1, <1>2, ElementOfSeq
<1>4. PICK r : r = SubSeq(seq, i, k)
  OBVIOUS
<1>5. /\ r \in Seq(S) /\ Len(r) = k - i + 1
      /\ \A j \in 1 .. k - i + 1 : r[j] = seq[i + j - 1]
  BY <1>1, <1>2, <1>3, <1>4, SubSeqProperties
<1>6. DOMAIN r = 1 .. k - i + 1
  BY <1>2, <1>5, LenProperties
<1>7. \A j \in 1 .. k - i + 1 : i + j - 1 \in 1 .. k
  BY <1>2
<1>8. QED
  BY <1>1, <1>4, <1>5, <1>6, <1>7

\* From i on: up to j, and from j on.
LEMMA TwoHalves ==
  ASSUME NEW S, NEW seq \in Seq(S), NEW i \in DOMAIN seq, NEW j \in DOMAIN seq, i <= j
  PROVE  /\ SubSeq(seq, i, j - 1) \in Seq(S)
         /\ SubSeq(seq, i, Len(seq)) = SubSeq(seq, i, j - 1) \o SubSeq(seq, j, Len(seq))
<1>1. PICK k \in Nat : k = Len(seq) /\ DOMAIN seq = 1 .. k
  BY LenProperties
<1>0. i \in 1 .. k /\ j \in 1 .. k
  BY <1>1
<1>2. PICK n \in Nat : n = j - i /\ i \in 1 .. k /\ j \in 1 .. k /\ j = i + n
  <2>1. j - i \in Nat /\ j = i + (j - i)
    BY <1>0
  <2>2. QED
    BY <1>0, <2>1
<1>3. PICK a : a = SubSeq(seq, i, j - 1)
  OBVIOUS
<1>4. PICK b : b = SubSeq(seq, j, k)
  OBVIOUS
<1>5. PICK r : r = SubSeq(seq, i, k)
  OBVIOUS
<1>6. /\ a \in Seq(S) /\ Len(a) = n /\ DOMAIN a = 1 .. n
      /\ \A x \in 1 .. n : a[x] = seq[i + x - 1]
  <2>1. \A x \in i .. j - 1 : seq[x] \in S
    BY <1>1, <1>2, ElementOfSeq
  <2>0. i \in Int /\ j - 1 \in Int /\ i \in Nat /\ j \in Nat
    BY <1>0
  <2>4. /\ (j - 1) - i + 1 = j - i
        /\ i <= j - 1 => j - i # 0
        /\ j - i # 0 => i <= j - 1
    BY <1>0
  <2>2. (j - 1) - i + 1 = n /\ (i <= j - 1 => n # 0) /\ (n # 0 => i <= j - 1)
    BY <1>2, <2>4
  <2>3. /\ a \in Seq(S)
        /\ Len(a) = IF i <= j - 1 THEN (j - 1) - i + 1 ELSE 0
        /\ \A x \in 1 .. (j - 1) - i + 1 : a[x] = seq[i + x - 1]
    <3>1. PICK e \in Int : e = j - 1
      BY <2>0
    <3>2. \A x \in i .. e : seq[x] \in S
      BY <2>1, <3>1
    <3>3. /\ SubSeq(seq, i, e) \in Seq(S)
          /\ Len(SubSeq(seq, i, e)) = IF i <= e THEN e - i + 1 ELSE 0
          /\ \A x \in 1 .. e - i + 1 : SubSeq(seq, i, e)[x] = seq[i + x - 1]
      BY <2>0, <3>2, SubSeqProperties
    <3>4. QED
      BY <1>3, <3>1, <3>3
  <2>5. Len(a) = n
    BY <2>2, <2>3
  <2>6. QED
    BY <2>2, <2>3, <2>5, LenProperties
<1>7. /\ b \in Seq(S) /\ DOMAIN b = 1 .. k - j + 1
      /\ \A x \in 1 .. k - j + 1 : b[x] = seq[j + x - 1]
  BY <1>1, <1>4, TailFacts
<1>8. /\ r \in Seq(S) /\ DOMAIN r = 1 .. k - i + 1
      /\ \A x \in 1 .. k - i + 1 : r[x] = seq[i + x - 1]
  BY <1>1, <1>5, TailFacts
<1>9. Len(b) = k - j + 1 /\ Len(r) = k - i + 1
  <2>1. k - j + 1 \in Nat /\ k - i + 1 \in Nat
    BY <1>0
  <2>2. Len(b) \in Nat /\ DOMAIN b = 1 .. Len(b) /\ Len(r) \in Nat /\ DOMAIN r = 1 .. Len(r)
    BY <1>7, <1>8, LenProperties
  <2>3. QED
    BY <1>7, <1>8, <2>1, <2>2
<1>10. PICK c : c = a \o b
  OBVIOUS
<1>11. /\ c \in Seq(S) /\ Len(c) = k - i + 1
       /\ \A x \in 1 .. k - i + 1 :
            \/ x \in 1 .. n /\ c[x] = a[x]
            \/ x - n \in 1 .. k - j + 1 /\ c[x] = b[x - n]
  <2>1. n + (k - j + 1) = k - i + 1
    BY <1>2
  <2>2. /\ c \in Seq(S) /\ Len(c) = Len(a) + Len(b)
        /\ \A x \in 1 .. Len(a) + Len(b) :
             \/ x \in 1 .. Len(a) /\ c[x] = a[x]
             \/ x - Len(a) \in 1 .. Len(b) /\ c[x] = b[x - Len(a)]
    BY <1>6, <1>7, <1>10, ConcatParts
  <2>3. QED
    BY <1>6, <1>9, <2>1, <2>2
<1>12. ASSUME NEW x \in 1 .. k - i + 1
       PROVE  c[x] = r[x]
  <2>1. CASE x \in 1 .. n /\ c[x] = a[x]
    BY <1>6, <1>8, <2>1
  <2>2. CASE x - n \in 1 .. k - j + 1 /\ c[x] = b[x - n]
    <3>1. j + (x - n) - 1 = i + x - 1
      BY <1>2
    <3>2. QED
      BY <1>7, <1>8, <2>2, <3>1
  <2>3. QED
    BY <1>11, <2>1, <2>2
<1>13. c = r
  BY <1>8, <1>9, <1>11, <1>12, SeqEqual
<1>14. QED
  BY <1>1, <1>3, <1>4, <1>5, <1>6, <1>10, <1>13

\* Choosing an end.
LEMMA ChosenTail ==
  ASSUME NEW S, NEW seq \in Seq(S), NEW X, NEW i \in DOMAIN seq,
         \A j \in DOMAIN seq : seq[j] \in X <=> i <= j
  PROVE  Chosen(seq, X) = SubSeq(seq, i, Len(seq))
<1>1. PICK k \in Nat : k = Len(seq) /\ DOMAIN seq = 1 .. k /\ i \in 1 .. k
  BY LenProperties
<1>2. PICK n \in Nat : n = k - i + 1
  BY <1>1
<1>3. PICK r : r = SubSeq(seq, i, k)
  OBVIOUS
<1>4. /\ r \in Seq(S) /\ DOMAIN r = 1 .. n
      /\ \A j \in 1 .. n : i + j - 1 \in DOMAIN seq /\ r[j] = seq[i + j - 1]
  BY <1>1, <1>2, <1>3, TailFacts
<1>5. PICK f : f = [j \in 1 .. n |-> i + j - 1]
  OBVIOUS
<1>6. \A j \in DOMAIN r : f[j] \in DOMAIN seq /\ seq[f[j]] \in X /\ r[j] = seq[f[j]]
  <2>1. SUFFICES ASSUME NEW j \in 1 .. n
                 PROVE  f[j] \in DOMAIN seq /\ seq[f[j]] \in X /\ r[j] = seq[f[j]]
    BY <1>4
  <2>2. f[j] = i + j - 1 /\ i <= i + j - 1
    BY <1>1, <1>5
  <2>3. QED
    BY <1>4, <2>2
<1>7. \A j, l \in DOMAIN r : j < l => f[j] < f[l]
  BY <1>1, <1>4, <1>5
<1>8. \A d \in DOMAIN seq : seq[d] \in X => \E j \in DOMAIN r : f[j] = d
  <2>1. SUFFICES ASSUME NEW d \in 1 .. k, i <= d PROVE \E j \in 1 .. n : f[j] = d
    BY <1>1, <1>4
  <2>2. d - i + 1 \in 1 .. n /\ i + (d - i + 1) - 1 = d
    BY <1>1, <1>2, <2>1
  <2>3. f[d - i + 1] = d
    BY <1>5, <2>2
  <2>4. QED
    BY <2>2, <2>3
<1>9. Picks(f, r, seq, X)
  BY <1>6, <1>7, <1>8 DEF Picks
<1>10. QED
  BY <1>1, <1>3, <1>4, <1>9, PicksChosen

\* What is viewable of the history from i on.
SaidFrom(H, i) == View(SubSeq(H, i, Len(H)))

\* The later it starts, the less it is; and as much of it is the same.
LEMMA SaidLess ==
  ASSUME NEW P, NEW H, NEW G, NEW T, NEW M, Parts(M, P, H, G, T),
         NEW i \in DOMAIN H, NEW j \in DOMAIN H, i <= j
  PROVE  /\ SaidFrom(H, i) \in Seq(Message)
         /\ Len(SaidFrom(H, i)) \in Nat /\ Len(SaidFrom(H, j)) \in Nat
         /\ Len(SaidFrom(H, j)) <= Len(SaidFrom(H, i))
         /\ Len(SaidFrom(H, j)) = Len(SaidFrom(H, i)) => SaidFrom(H, j) = SaidFrom(H, i)
<1>0. H \in Seq(Message)
  BY DEF Parts
<1>1. PICK a : a = SubSeq(H, i, j - 1)
  OBVIOUS
<1>2. PICK b : b = SubSeq(H, j, Len(H))
  OBVIOUS
<1>3. PICK r : r = SubSeq(H, i, Len(H))
  OBVIOUS
<1>4. a \in Seq(Message) /\ r = a \o b
  BY <1>0, <1>1, <1>2, <1>3, TwoHalves
<1>5. b \in Seq(Message) /\ r \in Seq(Message)
  BY <1>0, <1>2, <1>3, TailFacts
<1>6. a \in Seq(Message) /\ b \in Seq(Message)
  BY <1>4, <1>5
<1>7. Chosen(a \o b, ToView) = Chosen(a, ToView) \o Chosen(b, ToView)
  BY <1>6, ChosenOfTwo
<1>8. /\ View(r) = Chosen(r, ToView) /\ View(r) \in Seq(Message)
      /\ View(b) = Chosen(b, ToView) /\ View(b) \in Seq(Message)
  BY <1>5, ViewFacts
<1>9. PICK v, w, x : v = Chosen(a, ToView) /\ w = View(b) /\ x = View(r)
  OBVIOUS
<1>10. v \in Seq(Message)
  BY <1>4, <1>9, ChosenFacts
<1>11. x = v \o w /\ w \in Seq(Message) /\ x \in Seq(Message)
  BY <1>4, <1>7, <1>8, <1>9
<1>12. Len(v) \in Nat /\ Len(w) \in Nat /\ Len(x) = Len(v) + Len(w)
  BY <1>10, <1>11, ConcatParts
<1>13. ASSUME Len(w) = Len(x)
       PROVE  w = x
  <2>1. Len(v) = 0
    BY <1>12, <1>13
  <2>2. v = <<>>
    BY <1>10, <2>1, EmptySeq
  <2>3. QED
    BY <1>11, <2>2, ConcatEmptySeq
<1>14. Len(x) \in Nat /\ Len(w) <= Len(x)
  BY <1>12
<1>15. SaidFrom(H, i) = x /\ SaidFrom(H, j) = w
  BY <1>2, <1>3, <1>9 DEF SaidFrom
<1>16. QED
  BY <1>11, <1>12, <1>13, <1>14, <1>15

\* The turns of a history from a number on are its end, from where a turn starts,
\* and every such end begins with some number.
LEMMA HistoryEnds ==
  ASSUME NEW P, NEW H, NEW G, NEW T, NEW M, Parts(M, P, H, G, T)
  PROVE  /\ \A i \in Starts(H) : \E first \in 0 .. T :
               FromTurn(H, first) = SubSeq(H, i, Len(H))
         /\ \A first \in 0 .. T :
               \/ FromTurn(H, first) = <<>>
               \/ \E i \in Starts(H) : FromTurn(H, first) = SubSeq(H, i, Len(H))
         /\ FromTurn(H, T) = <<>>
<1>1. H \in Seq(Message) /\ T \in Nat
  BY DEF Parts
<1>2. PICK k \in Nat : k = Len(H) /\ DOMAIN H = 1 .. k
  BY <1>1, LenProperties
<1>3. \A i \in 1 .. k : H[i] \in Message /\ H[i].turn \in Nat /\ H[i].turn < T
  <2>1. \A i \in 1 .. k : H[i] \in Message
    BY <1>1, <1>2, ElementOfSeq
  <2>2. QED
    BY <1>2, <2>1 DEF Parts, Message
<1>4. \A i, j \in 1 .. k : i < j => H[i].turn <= H[j].turn
  BY <1>2 DEF Parts
<1>5. ASSUME NEW first \in Nat, NEW i \in 1 .. k,
             \A j \in 1 .. k : H[j].turn >= first <=> i <= j
      PROVE  FromTurn(H, first) = SubSeq(H, i, Len(H))
  <2>1. PICK X : X = {m \in Range(H) : m.turn >= first}
    OBVIOUS
  <2>2. \A j \in DOMAIN H : H[j] \in X <=> i <= j
    BY <1>2, <1>5, <2>1 DEF Range
  <2>3. FromTurn(H, first) = Chosen(H, X)
    BY <2>1 DEF FromTurn
  <2>4. QED
    BY <1>1, <1>2, <2>2, <2>3, ChosenTail
<1>6. ASSUME NEW i \in Starts(H)
      PROVE  \E first \in 0 .. T : FromTurn(H, first) = SubSeq(H, i, Len(H))
  <2>1. i \in 1 .. k /\ (i = 1 \/ H[i - 1].turn # H[i].turn)
    BY <1>2 DEF Starts
  <2>2. PICK first : first = H[i].turn
    OBVIOUS
  <2>3. first \in Nat /\ first \in 0 .. T
    BY <1>1, <1>3, <2>1, <2>2
  <2>4. ASSUME NEW j \in 1 .. k
        PROVE  H[j].turn >= first <=> i <= j
    <3>1. CASE i <= j
      <4>1. i = j \/ i < j
        BY <2>1, <3>1
      <4>2. first = H[j].turn \/ first <= H[j].turn
        BY <1>4, <2>1, <2>2, <4>1
      <4>3. H[j].turn \in Nat
        BY <1>3
      <4>4. QED
        BY <2>3, <3>1, <4>2, <4>3
    <3>2. CASE ~(i <= j)
      <4>1. i # 1 /\ i - 1 \in 1 .. k /\ i - 1 < i /\ (j = i - 1 \/ j < i - 1)
        BY <2>1, <3>2
      <4>2. H[i - 1].turn <= first /\ H[i - 1].turn # first
        BY <1>4, <2>1, <2>2, <4>1
      <4>3. H[j].turn <= H[i - 1].turn
        BY <1>3, <1>4, <4>1
      <4>4. H[j].turn \in Nat /\ H[i - 1].turn \in Nat
        BY <1>3, <4>1
      <4>5. QED
        BY <2>3, <3>2, <4>2, <4>3, <4>4
    <3>3. QED
      BY <3>1, <3>2
  <2>5. QED
    BY <1>5, <2>1, <2>3, <2>4
<1>7. ASSUME NEW first \in 0 .. T
      PROVE  \/ FromTurn(H, first) = <<>>
             \/ \E i \in Starts(H) : FromTurn(H, first) = SubSeq(H, i, Len(H))
  <2>1. PICK D : D = {i \in 1 .. k : H[i].turn >= first}
    OBVIOUS
  <2>2. CASE D = {}
    <3>1. PICK X : X = {m \in Range(H) : m.turn >= first}
      OBVIOUS
    <3>2. Range(H) \cap X = {}
      BY <1>2, <2>1, <2>2, <3>1 DEF Range
    <3>3. Chosen(H, X) = <<>>
      BY <1>1, <3>2, ChosenNone
    <3>4. QED
      BY <3>1, <3>3 DEF FromTurn
  <2>3. CASE D # {}
    <3>1. D \in SUBSET Nat
      BY <2>1
    <3>2. PICK i \in D : \A j \in D : i <= j
      BY <2>3, <3>1, LeastNumber
    <3>3. i \in 1 .. k /\ H[i].turn >= first
      BY <2>1
    <3>4. ASSUME NEW j \in 1 .. k
          PROVE  H[j].turn >= first <=> i <= j
      <4>1. CASE i <= j
        <5>1. i = j \/ i < j
          BY <3>3, <4>1
        <5>2. H[j].turn = H[i].turn \/ H[i].turn <= H[j].turn
          BY <1>4, <3>3, <5>1
        <5>3. H[i].turn \in Nat /\ H[j].turn \in Nat
          BY <1>3, <3>3
        <5>4. QED
          BY <3>3, <4>1, <5>2, <5>3
      <4>2. CASE ~(i <= j)
        BY <2>1, <3>2, <4>2
      <4>3. QED
        BY <4>1, <4>2
    <3>5. i \in Starts(H)
      <4>1. SUFFICES ASSUME i # 1 PROVE H[i - 1].turn # H[i].turn
        BY <1>2, <3>3 DEF Starts
      <4>2. i - 1 \in 1 .. k /\ ~(i <= i - 1)
        BY <3>3, <4>1
      <4>3. ~(H[i - 1].turn >= first)
        BY <3>4, <4>2
      <4>4. QED
        BY <3>3, <4>3
    <3>6. FromTurn(H, first) = SubSeq(H, i, Len(H))
      <4>1. first \in Nat
        OBVIOUS
      <4>2. QED
        BY <1>5, <3>3, <3>4, <4>1
    <3>7. QED
      BY <3>5, <3>6
  <2>4. QED
    BY <2>2, <2>3
<1>8. FromTurn(H, T) = <<>>
  <2>1. PICK X : X = {m \in Range(H) : m.turn >= T}
    OBVIOUS
  <2>2. \A i \in 1 .. k : ~(H[i].turn >= T)
    BY <1>1, <1>3
  <2>3. Range(H) \cap X = {}
    BY <1>2, <2>1, <2>2 DEF Range
  <2>4. Chosen(H, X) = <<>>
    BY <1>1, <2>3, ChosenNone
  <2>5. QED
    BY <2>1, <2>4 DEF FromTurn
<1>9. QED
  BY <1>6, <1>7, <1>8

\* What the filter selects is the longest of what may be said of the history within
\* the budget.
LEMMA SelectsLongest ==
  ASSUME NEW P, NEW H, NEW G, NEW T, NEW M, Parts(M, P, H, G, T), NEW budget \in Nat
  PROVE  LET suffixes == {View(FromTurn(H, first)) : first \in 0 .. T}
             longest == CHOOSE said \in suffixes :
                           /\ Len(said) <= budget
                           /\ \A other \in suffixes :
                                 Len(other) <= budget => Len(other) <= Len(said)
         IN  View(SelectHistoryTurns(H, budget)) = longest
<1> DEFINE Best(said, suffixes) ==
             /\ Len(said) <= budget
             /\ \A other \in suffixes : Len(other) <= budget => Len(other) <= Len(said)
<1>1. H \in Seq(Message) /\ T \in Nat
  BY DEF Parts
<1>2. PICK suffixes : suffixes = {View(FromTurn(H, first)) : first \in 0 .. T}
  OBVIOUS
<1>3. PICK V : V = View(SelectHistoryTurns(H, budget))
  OBVIOUS
<1>4. View(<<>>) = <<>>
  <2>1. <<>> \in Seq(Message)
    OBVIOUS
  <2>2. Range(<<>>) \cap ToView = {}
    BY DEF Range
  <2>3. Chosen(<<>>, ToView) = <<>>
    BY <2>1, <2>2, ChosenNone
  <2>4. View(<<>>) = Chosen(<<>>, ToView)
    BY <2>1, ViewFacts
  <2>5. QED
    BY <2>3, <2>4
<1>5. <<>> \in suffixes
  <2>1. T \in 0 .. T /\ FromTurn(H, T) = <<>>
    BY <1>1, HistoryEnds
  <2>2. QED
    BY <1>2, <1>4, <2>1
<1>6. \A i \in Starts(H) : SaidFrom(H, i) \in suffixes
  <2>1. \A i \in Starts(H) : \E first \in 0 .. T : FromTurn(H, first) = SubSeq(H, i, Len(H))
    BY HistoryEnds
  <2>2. QED
    BY <1>2, <2>1 DEF SaidFrom
<1>7. \A said \in suffixes : said = <<>> \/ \E i \in Starts(H) : said = SaidFrom(H, i)
  <2>1. \A first \in 0 .. T : \/ FromTurn(H, first) = <<>>
                              \/ \E i \in Starts(H) : FromTurn(H, first) = SubSeq(H, i, Len(H))
    BY HistoryEnds
  <2>2. QED
    BY <1>2, <1>4, <2>1 DEF SaidFrom
<1>8. Starts(H) \subseteq DOMAIN H /\ DOMAIN H \subseteq Nat
  BY <1>1, LenProperties DEF Starts
<1>9. ASSUME NEW i \in Starts(H), NEW j \in Starts(H), i <= j
      PROVE  /\ Len(SaidFrom(H, i)) \in Nat /\ Len(SaidFrom(H, j)) \in Nat
             /\ Len(SaidFrom(H, j)) <= Len(SaidFrom(H, i))
             /\ Len(SaidFrom(H, j)) = Len(SaidFrom(H, i)) => SaidFrom(H, j) = SaidFrom(H, i)
  <2>1. i \in DOMAIN H /\ j \in DOMAIN H
    BY <1>8
  <2>2. QED
    BY <1>9, <2>1, SaidLess
<1>10. ASSUME NEW i \in Starts(H)
       PROVE  SaidFrom(H, i) \in Seq(Message) /\ Len(SaidFrom(H, i)) \in Nat
  <2>1. i \in DOMAIN H /\ i <= i
    BY <1>8
  <2>2. QED
    BY <2>1, SaidLess
<1>11. PICK from : from = {i \in Starts(H) : Len(SaidFrom(H, i)) <= budget}
  OBVIOUS
<1>12. from = {i \in Starts(H) : Len(View(SubSeq(H, i, Len(H)))) <= budget}
  BY <1>11 DEF SaidFrom
<1>13. Len(<<>>) = 0 /\ 0 <= budget /\ budget \in Nat
  OBVIOUS
<1>14. V \in suffixes /\ Best(V, suffixes) /\ \A said \in suffixes : Best(said, suffixes) => said = V
  <2>1. CASE from = {}
    <3>1. V = <<>>
      BY <1>1, <1>3, <1>4, <1>12, <2>1, SelectIs
    <3>2. \A said \in suffixes : Len(said) <= budget => said = <<>>
      BY <1>7, <1>11, <2>1
    <3>3. QED
      BY <1>5, <1>13, <3>1, <3>2
  <2>2. CASE from # {}
    <3>1. PICK c \in from : /\ \A i \in from : c <= i
                            /\ SelectHistoryTurns(H, budget) = SubSeq(H, c, Len(H))
      BY <1>1, <1>12, <2>2, SelectIs
    <3>2. c \in Starts(H) /\ Len(SaidFrom(H, c)) <= budget
      BY <1>11
    <3>3. V = SaidFrom(H, c)
      BY <1>3, <3>1 DEF SaidFrom
    <3>4. Len(V) \in Nat /\ V \in Seq(Message) /\ V \in suffixes /\ Len(V) <= budget
      BY <1>6, <1>10, <3>2, <3>3
    <3>5. ASSUME NEW other \in suffixes, Len(other) <= budget
          PROVE  Len(other) \in Nat /\ Len(other) <= Len(V) /\ (Len(other) = Len(V) => other = V)
      <4>1. CASE other = <<>>
        <5>1. Len(V) = 0 => V = <<>>
          BY <3>4, EmptySeq
        <5>2. QED
          BY <1>13, <3>4, <4>1, <5>1
      <4>2. ASSUME NEW i \in Starts(H), other = SaidFrom(H, i)
            PROVE  /\ Len(other) \in Nat /\ Len(other) <= Len(V)
                   /\ Len(other) = Len(V) => other = V
        <5>1. i \in from
          BY <1>11, <3>5, <4>2
        <5>2. c <= i
          BY <3>1, <5>1
        <5>3. QED
          BY <1>9, <3>2, <3>3, <4>2, <5>2
      <4>3. QED
        BY <1>7, <4>1, <4>2
    <3>6. ASSUME NEW said \in suffixes, Best(said, suffixes)
          PROVE  said = V
      <4>1. Len(said) <= budget /\ Len(V) <= Len(said)
        BY <3>4, <3>6
      <4>2. Len(said) \in Nat /\ Len(said) <= Len(V) /\ (Len(said) = Len(V) => said = V)
        BY <3>5, <4>1
      <4>3. QED
        BY <3>4, <4>1, <4>2
    <3>7. QED
      BY <3>4, <3>5, <3>6
  <2>3. QED
    BY <2>1, <2>2
<1>15. V = CHOOSE said \in suffixes : Best(said, suffixes)
  BY <1>14
<1>16. QED
  BY <1>2, <1>3, <1>15

\* filter.rs: the summary first, then the newest whole turns of what was said that
\* the budget admits, as many as it admits, then the turn in flight.
THEOREM PecoSelectsWhatFits == Spec => []PecoHistoryFits
<1>1. ContextInv => PecoHistoryFits
  <2>1. SUFFICES ASSUME ContextInv, session.state = "Active", NEW budget \in 0 .. MaxBudget
                 PROVE  LET history == FlattenSeq(session.committed)
                            suffixes == {View(FromTurn(history, first)) :
                                            first \in 0 .. session.turnIndex}
                            longest == CHOOSE said \in suffixes :
                                          /\ Len(said) <= budget
                                          /\ \A other \in suffixes :
                                                Len(other) <= budget => Len(other) <= Len(said)
                        IN  PecoFilter(Messages, budget)
                               = session.pinned \o longest \o StagingAll(session)
    BY DEF PecoHistoryFits
  <2>2. PICK P, H, G, T, M : /\ P = session.pinned /\ H = FlattenSeq(session.committed)
                             /\ G = StagingAll(session) /\ T = session.turnIndex
                             /\ M = Messages
    OBVIOUS
  <2>3. Parts(M, P, H, G, T)
    BY <2>1, <2>2, PartsOfSession
  <2>4. budget \in Nat
    BY BudgetAssumption
  <2>5. PecoFilter(M, budget) = P \o View(SelectHistoryTurns(H, budget)) \o G
    BY <2>3, PecoFilterIs
  <2>6. LET suffixes == {View(FromTurn(H, first)) : first \in 0 .. T}
            longest == CHOOSE said \in suffixes :
                          /\ Len(said) <= budget
                          /\ \A other \in suffixes :
                                Len(other) <= budget => Len(other) <= Len(said)
        IN  View(SelectHistoryTurns(H, budget)) = longest
    BY <2>3, <2>4, SelectsLongest
  <2>7. QED
    BY <2>2, <2>5, <2>6
<1>2. QED
  BY <1>1, ContextInvariant, PTL

=============================================================================
