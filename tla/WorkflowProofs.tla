--------------------------- MODULE WorkflowProofs ----------------------------
(***************************************************************************)
(* Workflow keeps the promise of WorkflowRun, and its other invariants,    *)
(* for any set of steps, any definitions, any capacity of the event        *)
(* channel and any number of requests.                                     *)
(***************************************************************************)
EXTENDS Workflow, FiniteSetTheorems, SequenceTheorems, WellFoundedInduction, TLAPS

-----------------------------------------------------------------------------
(* The levels: Kahn's algorithm finds every cycle.                         *)

\* Numbers with a property have a least one.
LEMMA LeastNumber ==
  ASSUME NEW S \in SUBSET Nat, S # {}
  PROVE  \E n \in S : \A m \in S : n =< m
<1>1. PICK n \in S : \A m \in S : ~ (<<m, n>> \in OpToRel(<, Nat))
  BY NatLessThanWellFounded, WFMin
<1>2. \A m \in S : ~(m < n)
  BY <1>1 DEF OpToRel
<1>3. QED
  BY <1>2

\* There are as many steps as a number says.
LEMMA StepsAreCounted ==
  /\ Cardinality(Steps) \in Nat
  /\ \A S \in SUBSET Steps : IsFiniteSet(S) /\ Cardinality(S) \in Nat
BY WorkflowAssumption, FS_Subset, FS_CardinalityType

\* A step is released when nothing it depends on is left.
LEMMA ReleasedFacts ==
  ASSUME definition \in Definition, NEW s \in Steps, NEW done \in SUBSET Steps
  PROVE  Released(s, done) <=> definition.dependsOn[s] \subseteq done
<1>1. IsFiniteSet(Steps \cup {Missing})
  BY WorkflowAssumption, FS_AddElement
<1>2. Unresolved(s, done) \subseteq Steps \cup {Missing}
  BY DEF Definition, Unresolved
<1>3. IsFiniteSet(Unresolved(s, done))
  BY <1>1, <1>2, FS_Subset
<1>4. Cardinality(Unresolved(s, done)) = 0 <=> Unresolved(s, done) = {}
  BY <1>3, FS_EmptySet
<1>5. QED
  BY <1>4 DEF Released, Unresolved

\* The steps of the next level.
LEMMA LevelFacts ==
  ASSUME definition \in Definition, NEW done \in SUBSET Steps
  PROVE  /\ NextLevel(done) \subseteq Steps \ done
         /\ \A s \in Steps \ done :
               s \in NextLevel(done) <=> definition.dependsOn[s] \subseteq done
BY ReleasedFacts DEF NextLevel

\* The steps of the first n levels.
Levels(f, top) ==
    f = [n \in 0 .. top |-> IF n = 0 THEN {} ELSE f[n - 1] \cup NextLevel(f[n - 1])]

\* One level more.
LEMMA LevelMore ==
  ASSUME NEW top \in Nat, NEW f, Levels(f, top)
  PROVE  \E g : Levels(g, top + 1)
<1> DEFINE g == [n \in 0 .. top + 1 |->
                   IF n = top + 1 THEN f[top] \cup NextLevel(f[top]) ELSE f[n]]
<1>1. \A n \in 0 .. top : f[n] = IF n = 0 THEN {} ELSE f[n - 1] \cup NextLevel(f[n - 1])
  BY DEF Levels
<1>2. \A n \in 0 .. top + 1 : g[n] = IF n = top + 1 THEN f[top] \cup NextLevel(f[top]) ELSE f[n]
  OBVIOUS
<1>3. g = [n \in 0 .. top + 1 |-> g[n]]
  OBVIOUS
<1> HIDE DEF g
<1>4. ASSUME NEW n \in 0 .. top + 1
      PROVE  g[n] = IF n = 0 THEN {} ELSE g[n - 1] \cup NextLevel(g[n - 1])
  <2>1. CASE n = 0
    <3>1. 0 \in 0 .. top /\ 0 \in 0 .. top + 1 /\ 0 # top + 1
      OBVIOUS
    <3>2. f[0] = {} /\ g[0] = f[0]
      BY <1>1, <1>2, <3>1
    <3>3. QED
      BY <2>1, <3>2
  <2>2. CASE n = top + 1
    <3>1. g[n - 1] = f[top] /\ n # 0
      BY <1>2, <2>2
    <3>2. QED
      BY <1>2, <2>2, <3>1
  <2>3. CASE n \in 1 .. top
    <3>1. g[n] = f[n] /\ g[n - 1] = f[n - 1] /\ n # 0 /\ n \in 0 .. top
      BY <1>2, <2>3
    <3>2. f[n] = f[n - 1] \cup NextLevel(f[n - 1])
      BY <1>1, <3>1
    <3>3. QED
      BY <3>1, <3>2
  <2>4. QED
    BY <2>1, <2>2, <2>3
<1>5. Levels(g, top + 1)
  BY <1>3, <1>4 DEF Levels
<1>6. QED
  BY <1>5

\* There are that many levels, for any number.
LEMMA LevelsExist ==
  ASSUME NEW top \in Nat
  PROVE  \E f : Levels(f, top)
<1> DEFINE Bad == {n \in Nat : ~ \E f : Levels(f, n)}
<1>1. SUFFICES ASSUME Bad # {} PROVE FALSE
  OBVIOUS
<1>2. PICK n \in Bad : \A m \in Bad : n =< m
  BY <1>1, LeastNumber
<1>3. CASE n = 0
  <2>1. Levels([k \in 0 .. 0 |-> {}], 0)
    BY DEF Levels
  <2>2. QED
    BY <1>3, <2>1
<1>4. CASE n # 0
  <2>1. n - 1 \in Nat /\ n - 1 \notin Bad /\ (n - 1) + 1 = n
    BY <1>2, <1>4
  <2>2. \E f : Levels(f, n - 1)
    BY <2>1
  <2>3. \E f : Levels(f, n)
    BY <2>1, <2>2, LevelMore
  <2>4. QED
    BY <2>3
<1>5. QED
  BY <1>3, <1>4

\* Placed is the last of them.
LEMMA PlacedFacts ==
  \E f : Levels(f, Cardinality(Steps)) /\ Placed = f[Cardinality(Steps)]
<1> DEFINE top == Cardinality(Steps)
           placed == CHOOSE f : Levels(f, top)
<1>1. top \in Nat
  BY StepsAreCounted
<1>2. Levels(placed, top)
  BY <1>1, LevelsExist
<1>3. Placed = placed[top]
  BY DEF Placed, Levels
<1>4. QED
  BY <1>2, <1>3

\* Every level is a set of steps; the first is empty.
LEMMA LevelsGrow ==
  ASSUME definition \in Definition, NEW top \in Nat, NEW f, Levels(f, top)
  PROVE  /\ \A n \in 0 .. top : f[n] \subseteq Steps
         /\ f[0] = {}
         /\ \A n \in 1 .. top : f[n] = f[n - 1] \cup NextLevel(f[n - 1])
<1>1. \A n \in 0 .. top : f[n] = IF n = 0 THEN {} ELSE f[n - 1] \cup NextLevel(f[n - 1])
  BY DEF Levels
<1>2. f[0] = {}
  <2>1. 0 \in 0 .. top
    OBVIOUS
  <2>2. QED
    BY <1>1, <2>1
<1>3. ASSUME NEW n \in 1 .. top
      PROVE  f[n] = f[n - 1] \cup NextLevel(f[n - 1])
  <2>1. n \in 0 .. top /\ n # 0
    OBVIOUS
  <2>2. QED
    BY <1>1, <2>1
<1> DEFINE Bad == {n \in 0 .. top : ~ (f[n] \subseteq Steps)}
<1> Bad \in SUBSET Nat
  OBVIOUS
<1>4. ASSUME Bad # {} PROVE FALSE
  <2>1. PICK n \in Bad : \A m \in Bad : n =< m
    BY <1>4, LeastNumber, Zenon
  <2>2. n \in 1 .. top
    BY <1>2, <2>1
  <2>3. n - 1 \in 0 .. top /\ n - 1 \notin Bad
    BY <2>1, <2>2
  <2>4. f[n - 1] \subseteq Steps /\ NextLevel(f[n - 1]) \subseteq Steps
    BY <2>3 DEF NextLevel
  <2>5. f[n] \subseteq Steps
    BY <1>3, <2>2, <2>4
  <2>6. QED
    BY <2>1, <2>5
<1>5. QED
  BY <1>2, <1>3, <1>4

\* No step of a cycle is on a level.
LEMMA CyclesStayOut ==
  ASSUME definition \in Definition, NEW top \in Nat, NEW f, Levels(f, top),
         NEW loop \in SUBSET Steps, \A s \in loop : definition.dependsOn[s] \cap loop # {},
         NEW k \in 0 .. top
  PROVE  f[k] \cap loop = {}
<1> DEFINE Bad == {n \in 0 .. top : f[n] \cap loop # {}}
<1>1. SUFFICES ASSUME Bad # {} PROVE FALSE
  OBVIOUS
<1> Bad \in SUBSET Nat
  OBVIOUS
<1>2. PICK n \in Bad : \A m \in Bad : n =< m
  BY <1>1, LeastNumber, Zenon
<1>3. n \in 1 .. top
  BY <1>2, LevelsGrow
<1>4. n - 1 \in 0 .. top /\ n - 1 \notin Bad
  BY <1>2, <1>3
<1>5. PICK s \in loop : s \in f[n] /\ s \notin f[n - 1]
  BY <1>2, <1>4
<1>6. s \in NextLevel(f[n - 1]) /\ f[n - 1] \subseteq Steps
  BY <1>3, <1>4, <1>5, LevelsGrow
<1>7. definition.dependsOn[s] \subseteq f[n - 1]
  BY <1>6, LevelFacts
<1>8. QED
  BY <1>4, <1>5, <1>7

\* A level that adds no step is the last; till then there are more of them than levels.
LEMMA LevelsFill ==
  ASSUME definition \in Definition, NEW top \in Nat, NEW f, Levels(f, top), NEW k \in 0 .. top
  PROVE  Cardinality(f[k]) >= k \/ NextLevel(f[k]) = {}
<1> DEFINE Good(n) == Cardinality(f[n]) >= n \/ NextLevel(f[n]) = {}
           Bad == {n \in 0 .. top : ~Good(n)}
<1>1. SUFFICES ASSUME Bad # {} PROVE FALSE
  OBVIOUS
<1> Bad \in SUBSET Nat
  OBVIOUS
<1>2. PICK n \in Bad : \A m \in Bad : n =< m
  BY <1>1, LeastNumber, Zenon
<1>3. \A m \in 0 .. top : f[m] \subseteq Steps /\ IsFiniteSet(f[m]) /\ Cardinality(f[m]) \in Nat
  BY LevelsGrow, StepsAreCounted
<1>4. n # 0
  BY <1>2, <1>3
<1>5. n \in 1 .. top /\ n - 1 \in 0 .. top /\ Good(n - 1)
  BY <1>2, <1>4
<1>6. f[n] = f[n - 1] \cup NextLevel(f[n - 1])
  BY <1>5, LevelsGrow
<1>7. CASE NextLevel(f[n - 1]) = {}
  BY <1>2, <1>6, <1>7
<1>8. CASE NextLevel(f[n - 1]) # {}
  <2>1. f[n - 1] \subseteq f[n] /\ f[n - 1] # f[n]
    BY <1>3, <1>5, <1>6, <1>8, LevelFacts
  <2>2. Cardinality(f[n - 1]) < Cardinality(f[n])
    BY <1>3, <1>5, <2>1, FS_Subset
  <2>3. Cardinality(f[n]) >= n
    BY <1>3, <1>5, <1>8, <2>2
  <2>4. QED
    BY <1>2, <2>3
<1>9. QED
  BY <1>7, <1>8

\* DagGraph::build turns down the definitions with an unknown dependency or a cycle.
LEMMA BuildsFacts ==
  ASSUME definition \in Definition
  PROVE  Builds <=> ~Cyclic /\ ~Unknown
<1> DEFINE top == Cardinality(Steps)
<1>1. top \in Nat /\ top \in 0 .. top
  BY StepsAreCounted
<1>2. PICK f : Levels(f, top) /\ Placed = f[top]
  BY PlacedFacts
<1> HIDE DEF top
<1>3. ASSUME Builds, Cyclic PROVE FALSE
  <2>1. PICK loop \in (SUBSET Steps) \ {{}} : \A s \in loop : definition.dependsOn[s] \cap loop # {}
    BY <1>3 DEF Cyclic
  <2>2. f[top] \cap loop = {}
    BY <1>1, <1>2, <2>1, CyclesStayOut
  <2>3. f[top] = Steps
    BY <1>2, <1>3, Zenon DEF Builds
  <2>4. PICK s \in loop : s \in Steps
    BY <2>1
  <2>5. QED
    BY <2>2, <2>3, <2>4
<1>4. ASSUME Builds, Unknown PROVE FALSE
  BY <1>4, WorkflowAssumption DEF Builds, Unknown
<1>5. ASSUME ~Cyclic, ~Unknown PROVE Builds
  <2>1. \A s \in Steps : definition.dependsOn[s] \subseteq Steps
    BY <1>5 DEF Unknown, Definition
  <2>2. ASSUME NEW s \in Steps, s \in definition.dependsOn[s] PROVE FALSE
    <3> DEFINE loop == {s}
    <3>1. loop \in (SUBSET Steps) \ {{}}
      <4>1. s \in loop /\ \A r \in loop : r \in Steps
        OBVIOUS
      <4>2. QED
        BY <4>1, Zenon
    <3>2. \A r \in loop : definition.dependsOn[r] \cap loop # {}
      BY <2>2
    <3>3. QED
      BY <1>5, <3>1, <3>2, Zenon DEF Cyclic
  <2>3. f[top] \subseteq Steps
    BY <1>1, <1>2, LevelsGrow
  <2>4. CASE NextLevel(f[top]) = {}
    <3> DEFINE rest == Steps \ f[top]
    <3>1. ASSUME NEW s \in rest PROVE definition.dependsOn[s] \cap rest # {}
      BY <2>1, <2>3, <2>4, LevelFacts
    <3>2. rest = {}
      BY <1>5, <3>1 DEF Cyclic
    <3>3. QED
      BY <1>2, <2>1, <2>2, <2>3, <3>2 DEF Builds
  <2>5. CASE Cardinality(f[top]) >= top
    <3>1. f[top] = Steps
      BY <2>3, <2>5, FS_Subset, StepsAreCounted, WorkflowAssumption DEF top
    <3>2. QED
      BY <1>2, <2>1, <2>2, <3>1 DEF Builds
  <2>6. QED
    BY <1>1, <1>2, <2>4, <2>5, LevelsFill
<1>6. QED
  BY <1>3, <1>4, <1>5

-----------------------------------------------------------------------------
(* The inductive invariant.                                                *)

EnginePcs == {"validating", "sending", "level", "collecting", "waiting", "pausing", "paused",
              "dropping", "ended"}

EngineState ==
    [pc : EnginePcs, done : SUBSET Steps, remaining : SUBSET Steps,
     awaited : Steps \cup {NoStep}, aborted : BOOLEAN, event : Lifecycle \cup {NoEvent},
     next : EnginePcs \cup {"none"}, late : BOOLEAN]

Command == [kind : {"cancel"}] \cup [kind : {"approve"}, proceed : BOOLEAN]

ForwarderState ==
    [pc : {"listening", "deciding", "leaving", "gone"}, entry : BOOLEAN,
     control : Seq(Command), told : Lifecycle \cup {NoEvent}]

Saved == [state : Terminal \cup {"none", "Running", "Paused"}, done : SUBSET Steps,
          results : [Steps -> {"none", "success", "failed", "skipped"}]]

TypeOK ==
    /\ definition \in Definition
    /\ engine \in EngineState
    /\ tasks \in [Steps -> {"none", "running", "success", "failed", "panicked", "aborted"}]
    /\ results \in [Steps -> {"none", "success", "failed", "skipped"}]
    /\ saved \in Saved
    /\ events \in Seq(Lifecycle \cup {StepEvent}) /\ Len(events) =< EventCap
    /\ handle \in [cancel : BOOLEAN, approvals : Seq(Command), open : BOOLEAN]
    /\ forwarder \in ForwarderState
    /\ requests \in Nat

\* Where the engine is, or goes once its event is sent.
Heading(pcs) == engine.pc \in pcs \/ (engine.pc = "sending" /\ engine.next \in pcs)

\* What the engine announces, and what it does next.
Announces(event, next) ==
    CASE next = "level" -> event = "Started"
      [] next = "ended" -> event \in Terminal
      [] next = "pausing" -> event = "Paused"
      [] next = "dropping" -> event = "Failed"
      [] next = "collecting" -> event = IF engine.aborted THEN "Failed" ELSE "Resumed"
      [] OTHER -> FALSE

EngineSound ==
    /\ engine.pc = "sending" => Announces(engine.event, engine.next)
    /\ engine.pc # "sending" => engine.event = NoEvent
    /\ engine.next = "ended" => engine.pc \in {"sending", "ended"}
    /\ engine.next = "dropping" => engine.pc \in {"sending", "dropping", "ended"}
    /\ engine.pc = "dropping" => engine.next = "dropping"
    /\ engine.aborted => /\ engine.next = "collecting"
                         /\ engine.pc \in {"sending", "collecting", "ended"}
    /\ engine.awaited # NoStep <=> Heading({"waiting", "pausing", "paused", "dropping"})
    /\ engine.awaited \notin engine.remaining
    /\ Heading({"validating", "level", "ended"}) => engine.remaining = {}
    /\ engine.pc = "validating" => engine.done = {} /\ engine.next = "none"

\* The steps that began: those of the levels done, and of the level at work.
Begun ==
    IF Heading({"validating", "level"}) THEN engine.done
    ELSE engine.done \cup NextLevel(engine.done)

StepsSound ==
    /\ \A s \in Steps : s \in engine.remaining \/ s = engine.awaited =>
          tasks[s] # "none" /\ results[s] = "none"
    /\ ~Heading({"ended"}) =>
          \A s \in Steps : s \in Begun <=> (tasks[s] # "none" \/ results[s] # "none")

\* Every step has a result once its level is done, if none was given up.
Whole == ~handle.cancel /\ \A s \in Steps : tasks[s] # "panicked"

SnapshotSound ==
    /\ SnapshotsAreTrue
    /\ Whole => \A s \in engine.done : results[s] # "none"
    /\ Whole /\ ~engine.aborted /\ ~Heading({"validating", "level", "ended"}) =>
          \A s \in NextLevel(engine.done) :
             results[s] # "none" \/ s \in engine.remaining \/ s = engine.awaited

\* The engine is at a pause, or the run is over.
AtPause ==
    \/ engine.pc \in {"pausing", "paused", "dropping", "ended"}
    \/ engine.pc = "sending" /\ engine.next = "dropping"

\* One pause is on its way at a time: its event, the wait for the decision, the decision.
DecisionsSound ==
    /\ \A i \in 1 .. Len(events) : events[i] = "Paused" =>
          /\ AtPause /\ forwarder.pc # "deciding" /\ handle.approvals = <<>>
          /\ \A j \in 1 .. Len(events) : events[j] = "Paused" => i = j
    /\ forwarder.pc = "deciding" => AtPause /\ handle.approvals = <<>>
    /\ handle.approvals # <<>> => AtPause /\ Len(handle.approvals) = 1

\* The last lifecycle event that was sent: in the channel, or broadcast.
LastSent(event) ==
    \/ /\ forwarder.told = event
       /\ \A i \in 1 .. Len(events) : events[i] = StepEvent
    \/ \E i \in 1 .. Len(events) : /\ events[i] = event
                                   /\ \A j \in i + 1 .. Len(events) : events[j] = StepEvent

\* What whoever follows the run should have heard last.
Expected ==
    CASE engine.pc \in {"pausing", "paused"} -> {"Paused"}
      [] engine.pc = "dropping" \/ engine.aborted -> {"Failed"}
      [] engine.pc = "ended" /\ ~engine.aborted -> Terminal
      [] OTHER -> {"Started", "Resumed"}

FeedSound ==
    handle.open /\ engine.pc \notin {"validating", "sending"} =>
        \E event \in Expected : LastSent(event)

\* A run that was turned down did nothing; one that fails otherwise had begun.
RefusalSound ==
    IF definition.inputs /\ Builds
    THEN /\ saved.state = "Failed" => engine.aborted
         /\ engine.aborted => \E s \in Steps : tasks[s] # "none"
    ELSE /\ engine.done = {} /\ \A s \in Steps : tasks[s] = "none"
         /\ engine.pc = "validating" \/ (saved.state = "Failed" /\ Heading({"ended"}))

Inv ==
    /\ TypeOK /\ EngineSound /\ StepsSound /\ SnapshotSound
    /\ DecisionsSound /\ FeedSound /\ RefusalSound

-----------------------------------------------------------------------------
(* What the actions do to the engine, and that every variable keeps its    *)
(* type.                                                                   *)

\* The engine goes on at pc, without a word.
Proceeds(pc, remaining, awaited) ==
    /\ engine' \in EngineState /\ engine'.pc = pc
    /\ engine'.remaining = remaining /\ engine'.awaited = awaited
    /\ engine'.event = engine.event /\ engine'.next = engine.next

\* The engine has something to announce before it goes on.
Sends(event, next, remaining, awaited) ==
    /\ engine' \in EngineState /\ engine'.pc = "sending"
    /\ engine'.remaining = remaining /\ engine'.awaited = awaited
    /\ engine'.event = event /\ engine'.next = next

\* No level is over, and the run is not aborted by this.
SameLevel == engine'.done = engine.done /\ engine'.aborted = engine.aborted

\* What engine looks like with an event to send.
LEMMA SendingFacts ==
  ASSUME TypeOK, NEW event \in Lifecycle, NEW pc \in EnginePcs
  PROVE  LET e == Sending(event, pc)
         IN  /\ e \in EngineState
             /\ e.pc = "sending" /\ e.event = event /\ e.next = pc
             /\ e.done = engine.done /\ e.remaining = engine.remaining
             /\ e.awaited = engine.awaited /\ e.aborted = engine.aborted
             /\ e.late = engine.late
BY DEF TypeOK, Sending, EngineState, EnginePcs

\* The engine announces something, and keeps the rest.
LEMMA SendsFacts ==
  ASSUME TypeOK, NEW event \in Lifecycle, NEW pc \in EnginePcs, engine' = Sending(event, pc)
  PROVE  Sends(event, pc, engine.remaining, engine.awaited) /\ SameLevel
BY SendingFacts DEF Sends, SameLevel

\* What is sent to whom, of the types.
LEMMA Constants ==
  /\ \A event \in {"Started", "Failed", "Cancelled", "TimedOut", "Completed", "Paused",
                   "Resumed"} : event \in Lifecycle
  /\ \A pc \in {"level", "ended", "collecting", "pausing", "dropping"} : pc \in EnginePcs
  /\ NoStep \notin Steps
BY WorkflowAssumption DEF Lifecycle, Terminal, EnginePcs, NoStep

\* A snapshot of the results.
LEMMA SnapshotFacts ==
  ASSUME TypeOK, NEW state \in Terminal \cup {"none", "Running", "Paused"},
         NEW done \in SUBSET Steps, saved' = Snapshot(state, done)
  PROVE  /\ saved' \in Saved
         /\ saved'.state = state /\ saved'.done = done /\ saved'.results = results
BY DEF TypeOK, Snapshot, Saved

\* The events that are offered come after those in the channel, as far as there is room.
LEMMA OfferedFacts ==
  ASSUME TypeOK, NEW n \in Nat
  PROVE  /\ Offered(n) \in Seq(Lifecycle \cup {StepEvent})
         /\ Len(Offered(n)) =< EventCap /\ Len(events) =< Len(Offered(n))
         /\ \A i \in 1 .. Len(events) : Offered(n)[i] = events[i]
         /\ \A i \in Len(events) + 1 .. Len(Offered(n)) : Offered(n)[i] = StepEvent
<1> DEFINE E == Lifecycle \cup {StepEvent}
           k == IF n =< EventCap - Len(events) THEN n ELSE EventCap - Len(events)
           more == [i \in 1 .. k |-> StepEvent]
<1>1. events \in Seq(E) /\ Len(events) \in Nat /\ Len(events) =< EventCap /\ EventCap \in Nat
  BY WorkflowAssumption DEF TypeOK
<1>2. k \in Nat /\ Len(events) + k =< EventCap
  BY <1>1
<1>3. Offered(n) = events \/ Offered(n) = events \o more
  BY DEF Offered
<1> HIDE DEF k
<1>4. more \in Seq(E) /\ Len(more) = k /\ \A i \in 1 .. k : more[i] = StepEvent
  BY <1>2
<1> HIDE DEF more
<1>5. /\ events \o more \in Seq(E)
      /\ Len(events \o more) = Len(events) + Len(more)
      /\ \A i \in 1 .. Len(events) : (events \o more)[i] = events[i]
      /\ \A i \in Len(events) + 1 .. Len(events) + Len(more) :
            (events \o more)[i] = more[i - Len(events)]
  BY <1>1, <1>4
<1>6. \A i \in Len(events) + 1 .. Len(events) + Len(more) : i - Len(events) \in 1 .. k
  BY <1>1, <1>2, <1>4
<1>7. CASE Offered(n) = events
  BY <1>1, <1>7
<1>8. CASE Offered(n) = events \o more
  BY <1>1, <1>2, <1>4, <1>5, <1>6, <1>8
<1>9. QED
  BY <1>3, <1>7, <1>8

\* The channel after a step of the engine: events of steps may have come.
Grows ==
    /\ events' \in Seq(Lifecycle \cup {StepEvent}) /\ Len(events') =< EventCap
    /\ Len(events) =< Len(events')
    /\ \A i \in 1 .. Len(events) : events'[i] = events[i]
    /\ \A i \in Len(events) + 1 .. Len(events') : events'[i] = StepEvent

\* The channel grows by events of steps, or stays as it is.
LEMMA GrowsFacts ==
  ASSUME TypeOK, events' = events \/ \E n \in Nat : events' = Offered(n)
  PROVE  Grows
<1>1. CASE events' = events
  BY <1>1 DEF TypeOK, Grows
<1>2. CASE \E n \in Nat : events' = Offered(n)
  BY <1>2, OfferedFacts DEF Grows
<1>3. QED
  BY <1>1, <1>2

\* Tasks that are given up; what they were is not forgotten.
LEMMA AbortFacts ==
  ASSUME TypeOK, NEW doomed, tasks' = Abort(doomed)
  PROVE  /\ tasks' \in [Steps -> {"none", "running", "success", "failed", "panicked", "aborted"}]
         /\ \A s \in Steps : /\ tasks'[s] = "none" <=> tasks[s] = "none"
                             /\ tasks'[s] = "panicked" <=> tasks[s] = "panicked"
BY DEF TypeOK, Abort

\* Validation (engine.rs, steps 0 to 3) goes on to the first level, or saves the failure.
LEMMA ValidateFacts ==
  ASSUME TypeOK, Validate
  PROVE  /\ TypeOK' /\ SameLevel /\ engine.pc = "validating"
         /\ UNCHANGED <<definition, tasks, results, events, handle, forwarder>>
         /\ \/ /\ definition.inputs /\ Builds /\ saved' = saved
               /\ Sends("Started", "level", engine.remaining, engine.awaited)
            \/ /\ ~(definition.inputs /\ Builds)
               /\ Sends("Failed", "ended", engine.remaining, engine.awaited)
               /\ saved'.state = "Failed" /\ saved'.done = {} /\ saved'.results = results
<1>1. /\ engine.pc = "validating"
      /\ UNCHANGED <<definition, tasks, results, events, handle, forwarder, requests>>
      /\ \/ definition.inputs /\ Builds /\ engine' = Sending("Started", "level") /\ saved' = saved
         \/ /\ ~(definition.inputs /\ Builds) /\ engine' = Sending("Failed", "ended")
            /\ saved' = Snapshot("Failed", {})
  BY DEF Validate
<1>2. CASE definition.inputs /\ Builds /\ engine' = Sending("Started", "level") /\ saved' = saved
  <2>1. Sends("Started", "level", engine.remaining, engine.awaited) /\ SameLevel
    BY <1>2, SendsFacts, Constants
  <2>2. QED
    BY <1>1, <1>2, <2>1 DEF TypeOK, Sends
<1>3. CASE /\ ~(definition.inputs /\ Builds) /\ engine' = Sending("Failed", "ended")
           /\ saved' = Snapshot("Failed", {})
  <2>1. Sends("Failed", "ended", engine.remaining, engine.awaited) /\ SameLevel
    BY <1>3, SendsFacts, Constants
  <2>2. "Failed" \in Terminal \cup {"none", "Running", "Paused"} /\ {} \in SUBSET Steps
    BY DEF Terminal
  <2>3. /\ saved' \in Saved
        /\ saved'.state = "Failed" /\ saved'.done = {} /\ saved'.results = results
    BY <1>3, <2>2, SnapshotFacts
  <2>4. QED
    BY <1>1, <1>3, <2>1, <2>3 DEF TypeOK, Sends
<1>4. QED
  BY <1>1, <1>2, <1>3

\* A lifecycle event is the last of the channel once it is sent; without a receiver it is lost.
LEMMA SendLifecycleFacts ==
  ASSUME TypeOK, SendLifecycle, engine.event \in Lifecycle, engine.next \in EnginePcs
  PROVE  /\ TypeOK' /\ SameLevel /\ engine.pc = "sending"
         /\ UNCHANGED <<definition, tasks, results, saved, handle, forwarder>>
         /\ engine' \in EngineState /\ engine'.pc = engine.next
         /\ engine'.remaining = engine.remaining /\ engine'.awaited = engine.awaited
         /\ engine'.event = NoEvent /\ engine'.next = engine.next
         /\ \/ ~handle.open /\ events' = events
            \/ /\ handle.open
               /\ Len(events') = Len(events) + 1 /\ events'[Len(events) + 1] = engine.event
               /\ \A i \in 1 .. Len(events) : events'[i] = events[i]
<1>1. /\ engine.pc = "sending"
      /\ UNCHANGED <<definition, tasks, results, saved, handle, forwarder, requests>>
      /\ engine' = [engine EXCEPT !.pc = engine.next, !.event = NoEvent]
      /\ \/ handle.open /\ Len(events) < EventCap /\ events' = Append(events, engine.event)
         \/ ~handle.open /\ events' = events
  BY DEF SendLifecycle
<1>2. /\ engine' \in EngineState /\ engine'.pc = engine.next
      /\ engine'.remaining = engine.remaining /\ engine'.awaited = engine.awaited
      /\ engine'.event = NoEvent /\ engine'.next = engine.next
      /\ SameLevel
  BY <1>1 DEF TypeOK, EngineState, SameLevel
<1> DEFINE E == Lifecycle \cup {StepEvent}
<1>3. /\ events' \in Seq(E) /\ Len(events') =< EventCap
      /\ \/ ~handle.open /\ events' = events
         \/ /\ handle.open
            /\ Len(events') = Len(events) + 1 /\ events'[Len(events) + 1] = engine.event
            /\ \A i \in 1 .. Len(events) : events'[i] = events[i]
  <2>1. events \in Seq(E) /\ Len(events) =< EventCap /\ EventCap \in Nat /\ engine.event \in E
    BY WorkflowAssumption DEF TypeOK
  <2>2. CASE handle.open /\ Len(events) < EventCap /\ events' = Append(events, engine.event)
    <3> HIDE DEF E
    <3>1. QED
      BY <2>1, <2>2
  <2>3. CASE ~handle.open /\ events' = events
    BY <2>1, <2>3
  <2>4. QED
    BY <1>1, <2>2, <2>3
<1>4. QED
  BY <1>1, <1>2, <1>3 DEF TypeOK

\* The end of the time: nothing is waited for any more.
LEMMA TimeOutFacts ==
  ASSUME TypeOK, TimeOut
  PROVE  /\ SameLevel /\ Sends("TimedOut", "ended", {}, NoStep)
         /\ saved' \in Saved
         /\ saved'.state = "TimedOut" /\ saved'.done = engine.done /\ saved'.results = results
<1> PICK e : e = Sending("TimedOut", "ended")
  OBVIOUS
<1>1. /\ e \in EngineState /\ e.pc = "sending" /\ e.event = "TimedOut" /\ e.next = "ended"
      /\ e.done = engine.done /\ e.aborted = engine.aborted
  BY SendingFacts, Constants
<1>2. engine' = [e EXCEPT !.remaining = {}, !.awaited = NoStep]
  BY DEF TimeOut
<1>3. SameLevel /\ Sends("TimedOut", "ended", {}, NoStep)
  BY <1>1, <1>2 DEF SameLevel, Sends, EngineState
<1>4. saved' = Snapshot("TimedOut", engine.done)
  BY DEF TimeOut
<1>5. "TimedOut" \in Terminal \cup {"none", "Running", "Paused"} /\ engine.done \in SUBSET Steps
  BY DEF Terminal, TypeOK, EngineState
<1>6. QED
  BY <1>3, <1>4, <1>5, SnapshotFacts

\* A level begins: its steps are skipped or run.
LevelBegins ==
    /\ ~handle.cancel
    /\ Proceeds("collecting", engine'.remaining, engine.awaited)
    /\ Grows /\ saved' = saved
    /\ \E skipped \in SUBSET NextLevel(engine.done) :
          /\ engine'.remaining = NextLevel(engine.done) \ skipped
          /\ \A s \in Steps : results'[s] = IF s \in skipped THEN "skipped" ELSE results[s]
          /\ \A s \in Steps : tasks'[s] = IF s \in NextLevel(engine.done) \ skipped THEN "running"
                                                                                    ELSE tasks[s]

\* At a level the run is cancelled, out of time, or begins the level.
LEMMA StartLevelFacts ==
  ASSUME TypeOK, StartLevel
  PROVE  /\ TypeOK' /\ SameLevel /\ engine.pc = "level"
         /\ UNCHANGED <<definition, handle, forwarder>>
         /\ \/ /\ Sends("Cancelled", "ended", engine.remaining, engine.awaited)
               /\ UNCHANGED <<tasks, results, saved, events>>
            \/ /\ Sends("TimedOut", "ended", {}, NoStep)
               /\ UNCHANGED <<tasks, results, events>>
               /\ saved'.state = "TimedOut" /\ saved'.done = engine.done
               /\ saved'.results = results
            \/ LevelBegins
<1>1. engine.pc = "level" /\ UNCHANGED <<definition, handle, forwarder, requests>>
  BY DEF StartLevel
<1>2. CASE engine' = Sending("Cancelled", "ended") /\ UNCHANGED <<tasks, results, saved, events>>
  <2>1. Sends("Cancelled", "ended", engine.remaining, engine.awaited) /\ SameLevel
    BY <1>2, SendsFacts, Constants
  <2>2. QED
    BY <1>1, <1>2, <2>1 DEF TypeOK, Sends
<1>3. CASE TimeOut /\ UNCHANGED <<tasks, results, events>>
  BY <1>1, <1>3, TimeOutFacts DEF TypeOK, Sends
<1> DEFINE level == NextLevel(engine.done)
<1>4. CASE /\ ~handle.cancel
           /\ \E skipped \in SUBSET (level \cap definition.conditional) :
                 /\ results' = [s \in Steps |-> IF s \in skipped THEN "skipped" ELSE results[s]]
                 /\ tasks' = [s \in Steps |-> IF s \in level \ skipped THEN "running" ELSE tasks[s]]
                 /\ engine' = [engine EXCEPT !.pc = "collecting", !.remaining = level \ skipped]
           /\ events' = Offered(Cardinality(level))
           /\ UNCHANGED saved
  <2>1. level \subseteq Steps /\ level = NextLevel(engine.done)
    BY DEF NextLevel
  <2>2. Grows
    BY <1>4, <2>1, StepsAreCounted, GrowsFacts
  <2> HIDE DEF level
  <2>3. PICK skipped \in SUBSET level :
           /\ results' = [s \in Steps |-> IF s \in skipped THEN "skipped" ELSE results[s]]
           /\ tasks' = [s \in Steps |-> IF s \in level \ skipped THEN "running" ELSE tasks[s]]
           /\ engine' = [engine EXCEPT !.pc = "collecting", !.remaining = level \ skipped]
    BY <1>4
  <2>4. /\ SameLevel /\ engine'.remaining = level \ skipped
        /\ Proceeds("collecting", engine'.remaining, engine.awaited)
    BY <2>1, <2>3 DEF TypeOK, EngineState, EnginePcs, SameLevel, Proceeds
  <2>5. results' \in [Steps -> {"none", "success", "failed", "skipped"}]
    BY <2>3 DEF TypeOK
  <2>6. tasks' \in [Steps -> {"none", "running", "success", "failed", "panicked", "aborted"}]
    BY <2>3 DEF TypeOK
  <2>7. TypeOK'
    BY <1>1, <1>4, <2>2, <2>4, <2>5, <2>6 DEF TypeOK, Proceeds, Grows
  <2>8. LevelBegins
    BY <1>4, <2>1, <2>2, <2>3, <2>4 DEF LevelBegins
  <2>9. QED
    BY <1>1, <2>4, <2>7, <2>8
<1>5. QED
  BY <1>2, <1>3, <1>4 DEF StartLevel

\* A run that is complete has all levels done.
LEMMA CompleteFacts ==
  ASSUME TypeOK, Complete
  PROVE  /\ TypeOK' /\ SameLevel /\ engine.pc = "level" /\ engine.done = Steps
         /\ UNCHANGED <<definition, tasks, results, events, handle, forwarder>>
         /\ Sends("Completed", "ended", engine.remaining, engine.awaited)
         /\ saved'.state = "Completed" /\ saved'.done = engine.done /\ saved'.results = results
<1>1. /\ engine.pc = "level" /\ engine.done = Steps
      /\ UNCHANGED <<definition, tasks, results, events, handle, forwarder, requests>>
      /\ engine' = Sending("Completed", "ended") /\ saved' = Snapshot("Completed", engine.done)
  BY DEF Complete
<1>2. Sends("Completed", "ended", engine.remaining, engine.awaited) /\ SameLevel
  BY <1>1, SendsFacts, Constants
<1>3. "Completed" \in Terminal \cup {"none", "Running", "Paused"} /\ engine.done \in SUBSET Steps
  BY DEF Terminal, TypeOK, EngineState
<1>4. /\ saved' \in Saved
      /\ saved'.state = "Completed" /\ saved'.done = engine.done /\ saved'.results = results
  BY <1>1, <1>3, SnapshotFacts
<1>5. QED
  BY <1>1, <1>2, <1>4 DEF TypeOK, Sends

\* The next step is waited for, or given up by a run that is aborted or cancelled.
LEMMA CollectNextFacts ==
  ASSUME TypeOK, CollectNext
  PROVE  /\ TypeOK' /\ SameLevel /\ engine.pc = "collecting"
         /\ UNCHANGED <<definition, results, saved, events, handle, forwarder>>
         /\ \A s \in Steps : /\ tasks'[s] = "none" <=> tasks[s] = "none"
                             /\ tasks'[s] = "panicked" <=> tasks[s] = "panicked"
         /\ \E s \in engine.remaining :
               \/ /\ engine.aborted \/ handle.cancel
                  /\ Proceeds("collecting", engine.remaining \ {s}, engine.awaited)
               \/ ~engine.aborted /\ Proceeds("waiting", engine.remaining \ {s}, s)
<1>1. /\ engine.pc = "collecting"
      /\ UNCHANGED <<definition, results, saved, events, handle, forwarder, requests>>
  BY DEF CollectNext
<1>2. PICK s \in engine.remaining :
         \/ /\ engine.aborted \/ handle.cancel
            /\ tasks' = Abort({s})
            /\ engine' = [engine EXCEPT !.remaining = engine.remaining \ {s}]
         \/ /\ ~engine.aborted /\ tasks' = tasks
            /\ engine' = [engine EXCEPT !.remaining = engine.remaining \ {s}, !.awaited = s,
                                        !.pc = "waiting"]
  BY DEF CollectNext
<1>3. CASE /\ engine.aborted \/ handle.cancel
           /\ tasks' = Abort({s})
           /\ engine' = [engine EXCEPT !.remaining = engine.remaining \ {s}]
  <2>1. Proceeds("collecting", engine.remaining \ {s}, engine.awaited) /\ SameLevel
    BY <1>1, <1>3 DEF TypeOK, EngineState, EnginePcs, SameLevel, Proceeds
  <2>2. QED
    BY <1>1, <1>3, <2>1, AbortFacts DEF TypeOK, Proceeds
<1>4. CASE /\ ~engine.aborted /\ tasks' = tasks
           /\ engine' = [engine EXCEPT !.remaining = engine.remaining \ {s}, !.awaited = s,
                                       !.pc = "waiting"]
  <2>1. Proceeds("waiting", engine.remaining \ {s}, s) /\ SameLevel
    BY <1>1, <1>4 DEF TypeOK, EngineState, EnginePcs, SameLevel, Proceeds
  <2>2. QED
    BY <1>1, <1>4, <2>1 DEF TypeOK, Proceeds
<1>5. QED
  BY <1>2, <1>3, <1>4

\* A level that is collected ends the run that is aborted, and counts as done otherwise.
LEMMA EndLevelFacts ==
  ASSUME TypeOK, EndLevel
  PROVE  /\ TypeOK' /\ engine.pc = "collecting" /\ engine.remaining = {}
         /\ engine'.aborted = engine.aborted
         /\ UNCHANGED <<definition, tasks, results, events, handle, forwarder>>
         /\ saved'.results = results
         /\ \/ /\ engine.aborted /\ Proceeds("ended", engine.remaining, engine.awaited)
               /\ engine'.done = engine.done
               /\ saved'.state = "Failed" /\ saved'.done = engine.done
            \/ /\ ~engine.aborted /\ Proceeds("level", engine.remaining, engine.awaited)
               /\ engine'.done = engine.done \cup NextLevel(engine.done)
               /\ saved'.state = "Running" /\ saved'.done = engine'.done
<1>1. /\ engine.pc = "collecting" /\ engine.remaining = {}
      /\ UNCHANGED <<definition, tasks, results, events, handle, forwarder, requests>>
  BY DEF EndLevel
<1>2. engine.done \in SUBSET Steps /\ NextLevel(engine.done) \in SUBSET Steps
  BY DEF TypeOK, EngineState, NextLevel
<1>3. CASE /\ engine.aborted /\ engine' = [engine EXCEPT !.pc = "ended"]
           /\ saved' = Snapshot("Failed", engine.done)
  <2>1. Proceeds("ended", engine.remaining, engine.awaited) /\ SameLevel
    BY <1>1, <1>3 DEF TypeOK, EngineState, EnginePcs, SameLevel, Proceeds
  <2>2. "Failed" \in Terminal \cup {"none", "Running", "Paused"}
    BY DEF Terminal
  <2>3. /\ saved' \in Saved
        /\ saved'.state = "Failed" /\ saved'.done = engine.done /\ saved'.results = results
    BY <1>2, <1>3, <2>2, SnapshotFacts
  <2>4. QED
    BY <1>1, <1>3, <2>1, <2>3 DEF TypeOK, Proceeds, SameLevel
<1> DEFINE done == engine.done \cup NextLevel(engine.done)
<1>4. CASE /\ ~engine.aborted
           /\ engine' = [engine EXCEPT !.pc = "level",
                                       !.done = engine.done \cup NextLevel(engine.done)]
           /\ saved' = Snapshot("Running", engine.done \cup NextLevel(engine.done))
  <2>1. /\ done \in SUBSET Steps /\ saved' = Snapshot("Running", done)
        /\ engine' = [engine EXCEPT !.pc = "level", !.done = done]
    BY <1>2, <1>4
  <2> HIDE DEF done
  <2>2. /\ Proceeds("level", engine.remaining, engine.awaited)
        /\ engine'.done = done /\ engine'.aborted = engine.aborted
    BY <1>1, <2>1 DEF TypeOK, EngineState, EnginePcs, Proceeds
  <2>3. "Running" \in Terminal \cup {"none", "Running", "Paused"}
    OBVIOUS
  <2>4. /\ saved' \in Saved
        /\ saved'.state = "Running" /\ saved'.done = done /\ saved'.results = results
    BY <2>1, <2>3, SnapshotFacts
  <2>5. TypeOK'
    BY <1>1, <2>2, <2>4 DEF TypeOK, Proceeds
  <2>6. QED
    BY <1>1, <1>4, <2>2, <2>4, <2>5 DEF done
<1>5. QED
  BY <1>3, <1>4 DEF EndLevel

\* A result is recorded.
Records(s, result) ==
    /\ results' \in [Steps -> {"none", "success", "failed", "skipped"}]
    /\ results'[s] = result
    /\ \A r \in Steps \ {s} : results'[r] = results[r]

\* Recording changes one result.
LEMMA RecordFacts ==
  ASSUME TypeOK, NEW s \in Steps, NEW result \in {"success", "failed"}, Record(s, result)
  PROVE  Records(s, result)
BY DEF TypeOK, Record, Records

\* The engine is done with the step it waited for.
LEMMA DoneFacts ==
  ASSUME TypeOK, engine' = Done
  PROVE  Proceeds("collecting", engine.remaining, NoStep) /\ SameLevel
BY DEF TypeOK, Done, EngineState, EnginePcs, Proceeds, SameLevel

\* A result is recorded, or aborts the run, or pauses it; that of a panicked task is not.
LEMMA TakeResultFacts ==
  ASSUME TypeOK, TakeResult, engine.awaited \in Steps
  PROVE  /\ TypeOK' /\ engine'.done = engine.done /\ engine.pc = "waiting"
         /\ UNCHANGED <<definition, tasks, saved, handle, forwarder>>
         /\ Grows
         /\ tasks[engine.awaited] \in {"success", "failed", "panicked"}
         /\ \/ /\ tasks[engine.awaited] = "panicked"
               /\ Proceeds("collecting", engine.remaining, NoStep) /\ SameLevel
               /\ UNCHANGED results
            \/ /\ \E result \in {"success", "failed"} : Records(engine.awaited, result)
               /\ Proceeds("collecting", engine.remaining, NoStep) /\ SameLevel
            \/ /\ Records(engine.awaited, "failed")
               /\ Sends("Failed", "collecting", engine.remaining, NoStep) /\ engine'.aborted
            \/ /\ Sends("Paused", "pausing", engine.remaining, engine.awaited) /\ SameLevel
               /\ UNCHANGED results
<1> DEFINE s == engine.awaited
<1>1. /\ engine.pc = "waiting" /\ tasks[s] \in {"success", "failed", "panicked"}
      /\ UNCHANGED <<definition, tasks, saved, handle, forwarder, requests>>
      /\ events' = events \/ events' = Offered(1)
  BY DEF TakeResult
<1>2. Grows
  BY <1>1, GrowsFacts
<1>3. CASE tasks[s] = "panicked" /\ engine' = Done /\ UNCHANGED <<results, events>>
  <2>1. Proceeds("collecting", engine.remaining, NoStep) /\ SameLevel
    BY <1>3, DoneFacts
  <2>2. TypeOK'
    BY <1>1, <1>3, <2>1 DEF TypeOK, Proceeds
  <2>3. QED
    BY <1>1, <1>2, <1>3, <2>1, <2>2 DEF SameLevel
<1>4. CASE /\ tasks[s] = "success" \/ tasks[s] = "failed"
           /\ Record(s, tasks[s]) /\ engine' = Done
  <2>1. Proceeds("collecting", engine.remaining, NoStep) /\ SameLevel
    BY <1>4, DoneFacts
  <2>2. \E result \in {"success", "failed"} : Records(s, result)
    BY <1>4, RecordFacts
  <2>3. TypeOK'
    BY <1>1, <1>2, <2>1, <2>2 DEF TypeOK, Proceeds, Grows, Records
  <2>4. QED
    BY <1>1, <1>2, <2>1, <2>2, <2>3 DEF SameLevel
<1>5. CASE /\ Record(s, "failed")
           /\ engine' = [Sending("Failed", "collecting") EXCEPT !.aborted = TRUE, !.awaited = NoStep]
  <2> PICK e : e = Sending("Failed", "collecting")
    OBVIOUS
  <2>1. /\ e \in EngineState /\ e.pc = "sending" /\ e.event = "Failed" /\ e.next = "collecting"
        /\ e.done = engine.done /\ e.remaining = engine.remaining
    BY SendingFacts, Constants
  <2>2. engine' = [e EXCEPT !.aborted = TRUE, !.awaited = NoStep]
    BY <1>5
  <2>3. /\ Sends("Failed", "collecting", engine.remaining, NoStep)
        /\ engine'.aborted /\ engine'.done = engine.done
    BY <2>1, <2>2 DEF Sends, EngineState
  <2>4. Records(s, "failed")
    BY <1>5, RecordFacts
  <2>5. TypeOK'
    BY <1>1, <1>2, <2>3, <2>4 DEF TypeOK, Sends, Grows, Records
  <2>6. QED
    BY <1>1, <1>2, <2>3, <2>4, <2>5
<1>6. CASE engine' = Sending("Paused", "pausing") /\ UNCHANGED results
  <2>1. Sends("Paused", "pausing", engine.remaining, engine.awaited) /\ SameLevel
    BY <1>6, SendsFacts, Constants
  <2>2. TypeOK'
    BY <1>1, <1>2, <1>6, <2>1 DEF TypeOK, Sends, Grows
  <2>3. QED
    BY <1>1, <1>2, <1>6, <2>1, <2>2 DEF SameLevel
<1>7. QED
  BY <1>3, <1>4, <1>5, <1>6 DEF TakeResult

\* The deadline ends the wait for a step, and the run.
LEMMA TimeOutWaitingFacts ==
  ASSUME TypeOK, TimeOutWaiting
  PROVE  /\ TypeOK' /\ SameLevel /\ engine.pc = "waiting"
         /\ UNCHANGED <<definition, results, events, handle, forwarder>>
         /\ Sends("TimedOut", "ended", {}, NoStep)
         /\ saved'.state = "TimedOut" /\ saved'.done = engine.done /\ saved'.results = results
         /\ \A s \in Steps : /\ tasks'[s] = "none" <=> tasks[s] = "none"
                             /\ tasks'[s] = "panicked" <=> tasks[s] = "panicked"
<1>1. /\ engine.pc = "waiting" /\ tasks' = Abort(engine.remaining \cup {engine.awaited})
      /\ TimeOut /\ UNCHANGED <<definition, results, events, handle, forwarder, requests>>
  BY DEF TimeOutWaiting
<1>2. QED
  BY <1>1, TimeOutFacts, AbortFacts DEF TypeOK, Sends

\* The pause is saved, or the run fails.
LEMMA SavePauseFacts ==
  ASSUME TypeOK, SavePause
  PROVE  /\ TypeOK' /\ SameLevel /\ engine.pc = "pausing"
         /\ UNCHANGED <<definition, tasks, results, events, handle, forwarder>>
         /\ \/ /\ Proceeds("paused", engine.remaining, engine.awaited)
               /\ saved'.state = "Paused" /\ saved'.done = engine.done
               /\ saved'.results = results
            \/ /\ Sends("Failed", "dropping", engine.remaining, engine.awaited)
               /\ saved' = saved
<1>1. /\ engine.pc = "pausing"
      /\ UNCHANGED <<definition, tasks, results, events, handle, forwarder, requests>>
  BY DEF SavePause
<1>2. CASE saved' = Snapshot("Paused", engine.done) /\ engine' = [engine EXCEPT !.pc = "paused"]
  <2>1. Proceeds("paused", engine.remaining, engine.awaited) /\ SameLevel
    BY <1>1, <1>2 DEF TypeOK, EngineState, EnginePcs, SameLevel, Proceeds
  <2>2. "Paused" \in Terminal \cup {"none", "Running", "Paused"} /\ engine.done \in SUBSET Steps
    BY DEF TypeOK, EngineState
  <2>3. /\ saved' \in Saved
        /\ saved'.state = "Paused" /\ saved'.done = engine.done /\ saved'.results = results
    BY <1>2, <2>2, SnapshotFacts
  <2>4. QED
    BY <1>1, <2>1, <2>3 DEF TypeOK, Proceeds
<1>3. CASE engine' = Sending("Failed", "dropping") /\ UNCHANGED saved
  <2>1. Sends("Failed", "dropping", engine.remaining, engine.awaited) /\ SameLevel
    BY <1>3, SendsFacts, Constants
  <2>2. QED
    BY <1>1, <1>3, <2>1 DEF TypeOK, Sends
<1>4. QED
  BY <1>2, <1>3 DEF SavePause

\* The pause is over: one approval is used up, or nobody can give one any more.
LEMMA DecidedFacts ==
  ASSUME TypeOK, Decided, engine.awaited \in Steps
  PROVE  /\ TypeOK' /\ SameLevel /\ engine.pc = "paused"
         /\ UNCHANGED <<definition, tasks, saved, events, forwarder>>
         /\ handle'.cancel = handle.cancel /\ handle'.open = handle.open
         /\ \/ /\ handle.approvals = <<>> /\ UNCHANGED <<results, handle>>
               /\ Sends("Failed", "dropping", engine.remaining, engine.awaited)
            \/ /\ handle.approvals # <<>> /\ Len(handle'.approvals) = Len(handle.approvals) - 1
               /\ \/ /\ Records(engine.awaited, "failed")
                     /\ Sends("Resumed", "collecting", engine.remaining, NoStep)
                  \/ /\ UNCHANGED results
                     /\ Sends("Failed", "dropping", engine.remaining, engine.awaited)
<1>1. /\ engine.pc = "paused"
      /\ UNCHANGED <<definition, tasks, saved, events, forwarder, requests>>
  BY DEF Decided
<1>2. engine' = Sending("Failed", "dropping") =>
         Sends("Failed", "dropping", engine.remaining, engine.awaited) /\ SameLevel
  BY SendsFacts, Constants
<1>3. CASE /\ NobodyDecides /\ engine' = Sending("Failed", "dropping")
           /\ UNCHANGED <<results, handle>>
  <2>1. TypeOK'
    BY <1>1, <1>2, <1>3 DEF TypeOK, Sends
  <2>2. QED
    BY <1>1, <1>2, <1>3, <2>1 DEF NobodyDecides
<1>4. CASE /\ handle.approvals # <<>>
           /\ handle' = [handle EXCEPT !.approvals = Tail(handle.approvals)]
           /\ \/ /\ Record(engine.awaited, "failed")
                 /\ engine' = [Sending("Resumed", "collecting") EXCEPT !.awaited = NoStep]
              \/ engine' = Sending("Failed", "dropping") /\ UNCHANGED results
  <2>1. /\ handle' \in [cancel : BOOLEAN, approvals : Seq(Command), open : BOOLEAN]
        /\ Len(handle'.approvals) = Len(handle.approvals) - 1
        /\ handle'.cancel = handle.cancel /\ handle'.open = handle.open
    <3> PICK rest : rest = Tail(handle.approvals)
      OBVIOUS
    <3>1. rest \in Seq(Command) /\ Len(rest) = Len(handle.approvals) - 1
      <4>1. handle.approvals \in Seq(Command) /\ handle.approvals # <<>>
        BY <1>4 DEF TypeOK
      <4>2. QED
        BY <4>1, HeadTailProperties
    <3>2. handle' = [handle EXCEPT !.approvals = rest]
      BY <1>4
    <3>3. QED
      BY <3>1, <3>2 DEF TypeOK
  <2>2. CASE /\ Record(engine.awaited, "failed")
             /\ engine' = [Sending("Resumed", "collecting") EXCEPT !.awaited = NoStep]
    <3> PICK e : e = Sending("Resumed", "collecting")
      OBVIOUS
    <3>1. /\ e \in EngineState /\ e.pc = "sending" /\ e.event = "Resumed"
          /\ e.next = "collecting" /\ e.done = engine.done /\ e.aborted = engine.aborted
          /\ e.remaining = engine.remaining
      BY SendingFacts, Constants
    <3>2. engine' = [e EXCEPT !.awaited = NoStep]
      BY <2>2
    <3>3. Sends("Resumed", "collecting", engine.remaining, NoStep) /\ SameLevel
      BY <3>1, <3>2 DEF Sends, SameLevel, EngineState
    <3>4. Records(engine.awaited, "failed")
      BY <2>2, RecordFacts
    <3>5. TypeOK'
      BY <1>1, <2>1, <3>3, <3>4 DEF TypeOK, Sends, Records
    <3>6. QED
      BY <1>1, <1>4, <2>1, <3>3, <3>4, <3>5
  <2>3. CASE engine' = Sending("Failed", "dropping") /\ UNCHANGED results
    <3>1. TypeOK'
      BY <1>1, <1>2, <2>1, <2>3 DEF TypeOK, Sends
    <3>2. QED
      BY <1>1, <1>2, <1>4, <2>1, <2>3, <3>1
  <2>4. QED
    BY <1>4, <2>2, <2>3
<1>5. QED
  BY <1>3, <1>4 DEF Decided

\* The run that fails at a pause gives up the rest of its level.
LEMMA DropRemainingFacts ==
  ASSUME TypeOK, DropRemaining
  PROVE  /\ TypeOK' /\ SameLevel /\ engine.pc = "dropping"
         /\ UNCHANGED <<definition, results, saved, events, handle, forwarder>>
         /\ Proceeds("ended", {}, NoStep)
         /\ \A s \in Steps : /\ tasks'[s] = "none" <=> tasks[s] = "none"
                             /\ tasks'[s] = "panicked" <=> tasks[s] = "panicked"
<1>1. /\ engine.pc = "dropping" /\ tasks' = Abort(engine.remaining)
      /\ engine' = [engine EXCEPT !.pc = "ended", !.remaining = {}, !.awaited = NoStep]
      /\ UNCHANGED <<definition, results, saved, events, handle, forwarder, requests>>
  BY DEF DropRemaining
<1>2. Proceeds("ended", {}, NoStep) /\ SameLevel
  BY <1>1 DEF TypeOK, EngineState, EnginePcs, SameLevel, Proceeds
<1>3. QED
  BY <1>1, <1>2, AbortFacts DEF TypeOK, Proceeds

\* A task that ends has begun, and one that panicked stays so.
LEMMA TaskEndsFacts ==
  ASSUME TypeOK, NEW s \in Steps, TaskEnds(s)
  PROVE  /\ TypeOK'
         /\ UNCHANGED <<definition, engine, results, saved, events, handle, forwarder>>
         /\ \A r \in Steps : /\ tasks'[r] = "none" <=> tasks[r] = "none"
                             /\ tasks[r] = "panicked" => tasks'[r] = "panicked"
<1>1. PICK outcome \in {"success", "failed", "panicked"} : tasks' = [tasks EXCEPT ![s] = outcome]
  BY DEF TaskEnds
<1>2. /\ tasks[s] = "running"
      /\ UNCHANGED <<definition, engine, results, saved, events, handle, forwarder, requests>>
  BY DEF TaskEnds
<1>3. QED
  BY <1>1, <1>2 DEF TypeOK

\* The deadline moves nothing.
LEMMA DeadlinePassesFacts ==
  ASSUME TypeOK, DeadlinePasses
  PROVE  /\ TypeOK' /\ SameLevel
         /\ UNCHANGED <<definition, tasks, results, saved, events, handle, forwarder>>
         /\ Proceeds(engine.pc, engine.remaining, engine.awaited)
<1>1. /\ engine' = [engine EXCEPT !.late = TRUE]
      /\ UNCHANGED <<definition, tasks, results, saved, events, handle, forwarder, requests>>
  BY DEF DeadlinePasses
<1>2. SameLevel /\ Proceeds(engine.pc, engine.remaining, engine.awaited)
  BY <1>1 DEF TypeOK, EngineState, SameLevel, Proceeds
<1>3. QED
  BY <1>1, <1>2 DEF TypeOK, Proceeds

\* The requests of the users only reach the control channel.
LEMMA UsersFacts ==
  ASSUME TypeOK, Users
  PROVE  /\ TypeOK' /\ forwarder'.pc = forwarder.pc /\ forwarder'.told = forwarder.told
         /\ UNCHANGED <<definition, engine, tasks, results, saved, events, handle>>
<1>1. /\ UNCHANGED <<definition, engine, tasks, results, saved, events, handle>>
      /\ requests' = requests + 1
  BY DEF Users, CancelRun, ApproveRun
<1>2. PICK entry \in BOOLEAN, control \in Seq(Command) :
         forwarder' = [forwarder EXCEPT !.entry = entry, !.control = control]
  <2>1. forwarder.control \in Seq(Command) /\ forwarder.entry \in BOOLEAN
    BY DEF TypeOK, ForwarderState
  <2>2. CASE CancelRun
    <3> PICK control : control = Append(forwarder.control, [kind |-> "cancel"])
      OBVIOUS
    <3>1. [kind |-> "cancel"] \in Command
      BY DEF Command
    <3>2. control \in Seq(Command)
      BY <2>1, <3>1
    <3>3. forwarder' = [forwarder EXCEPT !.entry = FALSE, !.control = control]
      BY <2>2 DEF CancelRun
    <3>4. QED
      BY <3>2, <3>3
  <2>3. CASE ApproveRun
    <3>1. PICK proceed \in BOOLEAN :
             forwarder' = [forwarder EXCEPT !.control =
                             Append(forwarder.control, [kind |-> "approve", proceed |-> proceed])]
      BY <2>3 DEF ApproveRun
    <3> PICK control : control = Append(forwarder.control,
                                        [kind |-> "approve", proceed |-> proceed])
      OBVIOUS
    <3>2. [kind |-> "approve", proceed |-> proceed] \in Command
      BY DEF Command
    <3>3. control \in Seq(Command)
      BY <2>1, <3>2
    <3>4. forwarder' = [forwarder EXCEPT !.entry = forwarder.entry, !.control = control]
      BY <3>1 DEF TypeOK, ForwarderState
    <3>5. QED
      BY <2>1, <3>3, <3>4
  <2>4. QED
    BY <2>2, <2>3 DEF Users
<1>3. /\ forwarder' \in ForwarderState
      /\ forwarder'.pc = forwarder.pc /\ forwarder'.told = forwarder.told
  BY <1>2 DEF TypeOK, ForwarderState
<1>4. QED
  BY <1>1, <1>3 DEF TypeOK

\* The event at the head of the channel is broadcast.
LEMMA ForwardEventFacts ==
  ASSUME TypeOK, ForwardEvent
  PROVE  /\ TypeOK' /\ forwarder.pc = "listening" /\ Len(events) >= 1
         /\ UNCHANGED <<definition, engine, tasks, results, saved, handle>>
         /\ forwarder'.told = IF events[1] = StepEvent THEN forwarder.told ELSE events[1]
         /\ forwarder'.pc = "deciding" => events[1] = "Paused"
         /\ Len(events') = Len(events) - 1
         /\ \A i \in 1 .. Len(events') : events'[i] = events[i + 1]
<1> PICK event : event = Head(events)
  OBVIOUS
<1> DEFINE E == Lifecycle \cup {StepEvent}
           pc == CASE event = "Paused" -> "deciding"
                   [] event \in Terminal -> "leaving"
                   [] OTHER -> "listening"
           told == IF event = StepEvent THEN forwarder.told ELSE event
<1>1. /\ forwarder.pc = "listening" /\ events # <<>>
      /\ UNCHANGED <<definition, engine, tasks, results, saved, handle, requests>>
      /\ forwarder' = [forwarder EXCEPT !.told = told, !.pc = pc]
      /\ events' = Tail(events)
  BY DEF ForwardEvent
<1>2. /\ event \in E /\ event = events[1] /\ events' \in Seq(E)
      /\ Len(events') = Len(events) - 1 /\ Len(events) >= 1
      /\ \A i \in 1 .. Len(events') : events'[i] = events[i + 1]
  <2>1. events \in Seq(E)
    BY DEF TypeOK
  <2> HIDE DEF E
  <2>2. QED
    BY <1>1, <2>1
<1>3. pc \in {"listening", "deciding", "leaving", "gone"} /\ (pc = "deciding" => event = "Paused")
  OBVIOUS
<1>4. told \in Lifecycle \cup {NoEvent} /\ told = IF event = StepEvent THEN forwarder.told ELSE event
  BY <1>2 DEF TypeOK, ForwarderState
<1> HIDE DEF pc, told
<1>5. forwarder' \in ForwarderState /\ forwarder'.told = told /\ forwarder'.pc = pc
  BY <1>1, <1>3, <1>4 DEF TypeOK, ForwarderState
<1>6. TypeOK'
  <2>1. Len(events) \in Nat /\ Len(events) =< EventCap /\ EventCap \in Nat
    BY WorkflowAssumption DEF TypeOK
  <2>2. Len(events') =< EventCap
    BY <1>2, <2>1
  <2>3. QED
    BY <1>1, <1>2, <1>5, <2>2 DEF TypeOK
<1>7. QED
  BY <1>1, <1>2, <1>3, <1>4, <1>5, <1>6

\* A command leaves the channel of events alone; an approval is passed on at a pause only.
LEMMA TakeCommandFacts ==
  ASSUME TypeOK, TakeCommand
  PROVE  /\ TypeOK' /\ forwarder'.pc # "deciding" /\ forwarder'.told = forwarder.told
         /\ UNCHANGED <<definition, engine, tasks, results, saved, events>>
         /\ handle'.open = handle.open /\ (handle.cancel => handle'.cancel)
         /\ \/ handle'.approvals = handle.approvals
            \/ /\ forwarder.pc = "deciding"
               /\ Len(handle'.approvals) = Len(handle.approvals) + 1
<1> PICK command, rest, more :
       /\ command = Head(forwarder.control) /\ rest = Tail(forwarder.control)
       /\ more = IF PassesOn(command) THEN Append(handle.approvals, command) ELSE handle.approvals
  OBVIOUS
<1> DEFINE pc == IF command.kind = "cancel" THEN "leaving" ELSE "listening"
           cancel == handle.cancel \/ command.kind = "cancel"
<1>1. /\ forwarder.control # <<>>
      /\ forwarder' = [forwarder EXCEPT !.control = rest, !.pc = pc]
      /\ handle' = [handle EXCEPT !.cancel = cancel, !.approvals = more]
      /\ UNCHANGED <<definition, engine, tasks, results, saved, events, requests>>
  BY DEF TakeCommand
<1>2. command \in Command /\ rest \in Seq(Command)
  <2>1. forwarder.control \in Seq(Command) /\ forwarder.control # <<>>
    BY <1>1 DEF TypeOK, ForwarderState
  <2>2. QED
    BY <2>1, HeadTailProperties
<1>3. /\ more \in Seq(Command)
      /\ \/ more = handle.approvals
         \/ forwarder.pc = "deciding" /\ Len(more) = Len(handle.approvals) + 1
  <2>1. handle.approvals \in Seq(Command)
    BY DEF TypeOK
  <2>2. QED
    BY <1>2, <2>1 DEF PassesOn
<1>4. pc \in {"listening", "leaving"} /\ cancel \in BOOLEAN /\ (handle.cancel => cancel)
  BY DEF TypeOK
<1> HIDE DEF pc, cancel
<1>5. /\ handle' \in [cancel : BOOLEAN, approvals : Seq(Command), open : BOOLEAN]
      /\ handle'.cancel = cancel /\ handle'.approvals = more /\ handle'.open = handle.open
  BY <1>1, <1>3, <1>4 DEF TypeOK
<1>6. /\ TypeOK' /\ forwarder'.pc = pc /\ forwarder'.told = forwarder.told
  BY <1>1, <1>2, <1>4, <1>5 DEF TypeOK, ForwarderState
<1>7. QED
  BY <1>1, <1>3, <1>4, <1>5, <1>6

\* Leaving empties the channel of events and drops the handle.
LEMMA LeaveFacts ==
  ASSUME TypeOK, Leave
  PROVE  /\ TypeOK' /\ forwarder'.pc = "gone" /\ events' = <<>>
         /\ UNCHANGED <<definition, engine, tasks, results, saved>>
         /\ handle'.cancel /\ ~handle'.open /\ handle'.approvals = handle.approvals
<1>1. /\ forwarder' = [forwarder EXCEPT !.pc = "gone", !.entry = FALSE, !.control = <<>>]
      /\ handle' = [handle EXCEPT !.cancel = TRUE, !.open = FALSE]
      /\ events' = <<>>
      /\ UNCHANGED <<definition, engine, tasks, results, saved, requests>>
  BY DEF Leave
<1>2. forwarder' \in ForwarderState /\ forwarder'.pc = "gone"
  <2>0. <<>> \in Seq(Command)
    OBVIOUS
  <2>1. PICK none \in Seq(Command) : none = <<>>
    BY <2>0, Zenon
  <2>2. forwarder' = [forwarder EXCEPT !.pc = "gone", !.entry = FALSE, !.control = none]
    BY <1>1, <2>1
  <2>3. QED
    BY <2>2 DEF TypeOK, ForwarderState
<1>3. /\ handle' \in [cancel : BOOLEAN, approvals : Seq(Command), open : BOOLEAN]
      /\ handle'.cancel /\ ~handle'.open /\ handle'.approvals = handle.approvals
  BY <1>1 DEF TypeOK
<1>4. <<>> \in Seq(Lifecycle \cup {StepEvent}) /\ Len(<<>>) =< EventCap
  BY WorkflowAssumption
<1>5. QED
  BY <1>1, <1>2, <1>3, <1>4 DEF TypeOK

-----------------------------------------------------------------------------
(* Where the engine is, and which steps began.                             *)

\* The levels depend on the definition and on what is done.
LEMMA SameLevels ==
  ASSUME UNCHANGED definition, engine'.done = engine.done
  PROVE  NextLevel(engine.done)' = NextLevel(engine.done)
BY DEF NextLevel, Released, Unresolved

\* The engine does not move, and no step begins.
LEMMA CoreStays ==
  ASSUME EngineSound, StepsSound, UNCHANGED <<definition, results>>, SameLevel,
         Proceeds(engine.pc, engine.remaining, engine.awaited),
         \A s \in Steps : tasks'[s] = "none" <=> tasks[s] = "none"
  PROVE  EngineSound' /\ StepsSound'
<1>1. EngineSound'
  BY DEF EngineSound, Announces, Heading, Proceeds, SameLevel
<1>2. Begun' = Begun
  BY SameLevels DEF Begun, Heading, Proceeds, SameLevel
<1>3. StepsSound'
  BY <1>2 DEF StepsSound, Heading, Proceeds
<1>4. QED
  BY <1>1, <1>3

\* The order of the engine and of the steps is kept by validation.
LEMMA ValidateCore ==
  ASSUME TypeOK, EngineSound, StepsSound, Validate
  PROVE  EngineSound' /\ StepsSound'
<1>1. EngineSound'
  BY ValidateFacts DEF EngineSound, Announces, Heading, Sends, SameLevel, Terminal, NoEvent
<1>2. StepsSound'
  BY ValidateFacts DEF StepsSound, EngineSound, Begun, Heading, Sends, SameLevel
<1>3. QED
  BY <1>1, <1>2

\* What is sent is an event of the life cycle.
LEMMA Announced ==
  ASSUME EngineSound, engine.pc = "sending"
  PROVE  /\ engine.event \in Lifecycle /\ engine.next \in EnginePcs
         /\ engine.next \in {"level", "ended", "pausing", "dropping", "collecting"}
BY DEF EngineSound, Announces, Lifecycle, Terminal, EnginePcs

\* The order of the engine and of the steps is kept by the sending of a lifecycle event.
LEMMA SendLifecycleCore ==
  ASSUME TypeOK, EngineSound, StepsSound, SendLifecycle
  PROVE  EngineSound' /\ StepsSound'
<1>1. engine.pc = "sending"
  BY DEF SendLifecycle
<1>2. EngineSound'
  BY <1>1, Announced, SendLifecycleFacts DEF EngineSound, Heading, SameLevel
<1>3. Begun' = Begun
  BY <1>1, Announced, SendLifecycleFacts, SameLevels DEF Begun, Heading, SameLevel
<1>4. StepsSound'
  BY <1>1, <1>3, Announced, SendLifecycleFacts DEF StepsSound, Heading
<1>5. QED
  BY <1>2, <1>4

\* The order of the engine and of the steps is kept by the start of a level.
LEMMA StartLevelCore ==
  ASSUME TypeOK, EngineSound, StepsSound, StartLevel
  PROVE  EngineSound' /\ StepsSound'
<1>1. /\ SameLevel /\ engine.pc = "level" /\ UNCHANGED definition
      /\ \/ /\ Sends("Cancelled", "ended", engine.remaining, engine.awaited)
            /\ UNCHANGED <<tasks, results>>
         \/ Sends("TimedOut", "ended", {}, NoStep) /\ UNCHANGED <<tasks, results>>
         \/ LevelBegins
  BY StartLevelFacts
<1>2. /\ engine.remaining = {} /\ engine.awaited = NoStep /\ ~engine.aborted
      /\ engine.event = NoEvent /\ engine.next \notin {"ended", "dropping"}
  BY <1>1 DEF EngineSound, Heading
<1>3. CASE \/ Sends("Cancelled", "ended", engine.remaining, engine.awaited)
           \/ Sends("TimedOut", "ended", {}, NoStep)
  <2>1. EngineSound'
    BY <1>1, <1>2, <1>3 DEF EngineSound, Announces, Heading, Sends, SameLevel, Terminal
  <2>2. StepsSound'
    BY <1>2, <1>3, Constants DEF StepsSound, Heading, Sends
  <2>3. QED
    BY <2>1, <2>2
<1>4. CASE LevelBegins
  <2>1. EngineSound'
    BY <1>1, <1>2, <1>4, Constants
    DEF EngineSound, Announces, Heading, LevelBegins, Proceeds, SameLevel, NextLevel
  <2>2. PICK skipped \in SUBSET NextLevel(engine.done) :
          /\ engine'.remaining = NextLevel(engine.done) \ skipped
          /\ \A s \in Steps : results'[s] = IF s \in skipped THEN "skipped" ELSE results[s]
          /\ \A s \in Steps : tasks'[s] = IF s \in NextLevel(engine.done) \ skipped THEN "running"
                                                                                    ELSE tasks[s]
    BY <1>4 DEF LevelBegins
  <2>3. /\ Begun = engine.done /\ Begun' = engine.done \cup NextLevel(engine.done)
        /\ engine'.awaited = NoStep
    BY <1>1, <1>2, <1>4, SameLevels DEF Begun, Heading, LevelBegins, Proceeds, SameLevel
  <2>4. \A s \in Steps : s \in Begun <=> (tasks[s] # "none" \/ results[s] # "none")
    BY <1>1 DEF StepsSound, Heading
  <2>5. NextLevel(engine.done) \cap engine.done = {}
    BY DEF NextLevel
  <2>6. StepsSound'
    <3>1. \A s \in Steps : s \in engine'.remaining \/ s = engine'.awaited =>
             tasks'[s] # "none" /\ results'[s] = "none"
      BY <2>2, <2>3, <2>4, <2>5, Constants
    <3>2. \A s \in Steps : s \in Begun' <=> (tasks'[s] # "none" \/ results'[s] # "none")
      BY <2>2, <2>3, <2>4
    <3>3. QED
      BY <3>1, <3>2 DEF StepsSound
  <2>7. QED
    BY <2>1, <2>6
<1>5. QED
  BY <1>1, <1>3, <1>4

\* The order of the engine and of the steps is kept by the end of the last level.
LEMMA CompleteCore ==
  ASSUME TypeOK, EngineSound, StepsSound, Complete
  PROVE  EngineSound' /\ StepsSound'
<1>1. EngineSound'
  BY CompleteFacts DEF EngineSound, Announces, Heading, Sends, SameLevel, Terminal
<1>2. StepsSound'
  BY CompleteFacts DEF StepsSound, Heading, Sends
<1>3. QED
  BY <1>1, <1>2

\* The order of the engine and of the steps is kept by going on to the next step of a level.
LEMMA CollectNextCore ==
  ASSUME TypeOK, EngineSound, StepsSound, CollectNext
  PROVE  EngineSound' /\ StepsSound'
<1>1. PICK s \in engine.remaining :
         \/ Proceeds("collecting", engine.remaining \ {s}, engine.awaited)
         \/ ~engine.aborted /\ Proceeds("waiting", engine.remaining \ {s}, s)
  BY CollectNextFacts
<1>2. s \in Steps /\ s # NoStep
  BY Constants DEF TypeOK, EngineState
<1>3. EngineSound'
  BY <1>1, <1>2, CollectNextFacts DEF EngineSound, Announces, Heading, Proceeds, SameLevel
<1>4. Begun' = Begun
  BY <1>1, CollectNextFacts, SameLevels DEF Begun, Heading, Proceeds, SameLevel
<1>5. StepsSound'
  BY <1>1, <1>2, <1>4, CollectNextFacts DEF StepsSound, Heading, Proceeds
<1>6. QED
  BY <1>3, <1>5

\* The order of the engine and of the steps is kept by the end of a level.
LEMMA EndLevelCore ==
  ASSUME TypeOK, EngineSound, StepsSound, EndLevel
  PROVE  EngineSound' /\ StepsSound'
<1>1. EngineSound'
  BY EndLevelFacts DEF EngineSound, Announces, Heading, Proceeds
<1>2. StepsSound'
  BY EndLevelFacts DEF StepsSound, Begun, Heading, Proceeds, EngineSound
<1>3. QED
  BY <1>1, <1>2

\* The order of the engine and of the steps is kept by taking a result.
LEMMA TakeResultCore ==
  ASSUME TypeOK, EngineSound, StepsSound, TakeResult
  PROVE  EngineSound' /\ StepsSound' /\ engine.awaited \in Steps
<1>1. engine.pc = "waiting" /\ engine.awaited # NoStep /\ ~engine.aborted
  BY DEF TakeResult, EngineSound, Heading
<1>2. engine.awaited \in Steps
  BY <1>1 DEF TypeOK, EngineState
<1>3. EngineSound'
  BY <1>1, <1>2, TakeResultFacts, Constants
  DEF EngineSound, EngineState, Announces, Heading, Proceeds, Sends, SameLevel
<1>4. Begun' = Begun
  BY <1>1, <1>2, TakeResultFacts, SameLevels DEF Begun, Heading, Proceeds, Sends
<1>5. /\ engine'.remaining = engine.remaining
      /\ engine'.awaited = NoStep \/ (engine'.awaited = engine.awaited /\ results' = results)
      /\ results' = results \/ \E result \in {"success", "failed"} : Records(engine.awaited, result)
  BY <1>2, TakeResultFacts DEF Proceeds, Sends
<1>6. StepsSound'
  <2>1. \A s \in Steps : s \in engine'.remaining \/ s = engine'.awaited =>
           tasks'[s] # "none" /\ results'[s] = "none"
    BY <1>2, <1>5, TakeResultFacts, Constants DEF StepsSound, Records, EngineSound
  <2>2. \A s \in Steps : (tasks'[s] # "none" \/ results'[s] # "none")
                            <=> (tasks[s] # "none" \/ results[s] # "none")
    BY <1>2, <1>5, TakeResultFacts DEF StepsSound, Records
  <2>3. ~Heading({"ended"})
    BY <1>1 DEF Heading
  <2>4. QED
    BY <1>4, <2>1, <2>2, <2>3 DEF StepsSound
<1>7. QED
  BY <1>2, <1>3, <1>6

\* The order of the engine and of the steps is kept by the deadline.
LEMMA TimeOutWaitingCore ==
  ASSUME TypeOK, EngineSound, StepsSound, TimeOutWaiting
  PROVE  EngineSound' /\ StepsSound'
<1>1. EngineSound'
  BY TimeOutWaitingFacts DEF EngineSound, Announces, Heading, Sends, SameLevel, Terminal
<1>2. StepsSound'
  BY TimeOutWaitingFacts, Constants DEF StepsSound, Heading, Sends
<1>3. QED
  BY <1>1, <1>2

\* The order of the engine and of the steps is kept by saving a pause.
LEMMA SavePauseCore ==
  ASSUME TypeOK, EngineSound, StepsSound, SavePause
  PROVE  EngineSound' /\ StepsSound'
<1>1. EngineSound'
  BY SavePauseFacts DEF EngineSound, Announces, Heading, Proceeds, Sends, SameLevel
<1>2. Begun' = Begun
  BY SavePauseFacts, SameLevels DEF Begun, Heading, Proceeds, Sends, SameLevel, EngineSound
<1>3. StepsSound'
  BY <1>2, SavePauseFacts DEF StepsSound, Heading, Proceeds, Sends, EngineSound
<1>4. QED
  BY <1>1, <1>3

\* The order of the engine and of the steps is kept by a decision.
LEMMA DecidedCore ==
  ASSUME TypeOK, EngineSound, StepsSound, Decided
  PROVE  EngineSound' /\ StepsSound' /\ engine.awaited \in Steps
<1>1. engine.pc = "paused" /\ engine.awaited # NoStep /\ ~engine.aborted
  BY DEF Decided, EngineSound, Heading
<1>2. engine.awaited \in Steps
  BY <1>1 DEF TypeOK, EngineState
<1>3. EngineSound'
  BY <1>1, <1>2, DecidedFacts, Constants
  DEF EngineSound, EngineState, Announces, Heading, Sends, SameLevel
<1>4. Begun' = Begun
  BY <1>1, <1>2, DecidedFacts, SameLevels DEF Begun, Heading, Sends, SameLevel
<1>5. StepsSound'
  BY <1>1, <1>2, <1>4, DecidedFacts, Constants
  DEF StepsSound, Heading, Records, Sends, EngineSound
<1>6. QED
  BY <1>2, <1>3, <1>5

\* The order of the engine and of the steps is kept by giving up the rest of a level.
LEMMA DropRemainingCore ==
  ASSUME TypeOK, EngineSound, StepsSound, DropRemaining
  PROVE  EngineSound' /\ StepsSound'
<1>1. EngineSound'
  BY DropRemainingFacts DEF EngineSound, Announces, Heading, Proceeds, SameLevel
<1>2. StepsSound'
  BY DropRemainingFacts, Constants DEF StepsSound, Heading, Proceeds
<1>3. QED
  BY <1>1, <1>2

\* No step but those of the engine, of a task or of the deadline touches the run.
RunUntouched == UNCHANGED <<definition, engine, tasks, results, saved>>

\* The forwarder and the users do not.
LEMMA ForwarderLeavesTheRun ==
  ASSUME TypeOK, Forwarder \/ Users
  PROVE  TypeOK' /\ RunUntouched
BY ForwardEventFacts, TakeCommandFacts, LeaveFacts, UsersFacts DEF Forwarder, RunUntouched

\* Every step keeps the types, the order of the engine and the order of the steps.
LEMMA CoreKeeps ==
  ASSUME TypeOK, EngineSound, StepsSound, [Next]_vars
  PROVE  TypeOK' /\ EngineSound' /\ StepsSound'
<1>1. CASE Engine
  <2>1. CASE SendLifecycle
    BY <2>1, SendLifecycleCore, SendLifecycleFacts, Announced DEF SendLifecycle
  <2>2. CASE TakeResult
    BY <2>2, TakeResultCore, TakeResultFacts
  <2>3. CASE Decided
    BY <2>3, DecidedCore, DecidedFacts
  <2>4. CASE Validate
    BY <2>4, ValidateCore, ValidateFacts
  <2>5. CASE StartLevel
    BY <2>5, StartLevelCore, StartLevelFacts
  <2>6. CASE Complete
    BY <2>6, CompleteCore, CompleteFacts
  <2>7. CASE CollectNext
    BY <2>7, CollectNextCore, CollectNextFacts
  <2>8. CASE EndLevel
    BY <2>8, EndLevelCore, EndLevelFacts
  <2>9. CASE TimeOutWaiting
    BY <2>9, TimeOutWaitingCore, TimeOutWaitingFacts
  <2>10. CASE SavePause
    BY <2>10, SavePauseCore, SavePauseFacts
  <2>11. CASE DropRemaining
    BY <2>11, DropRemainingCore, DropRemainingFacts
  <2>12. QED
    BY <1>1, <2>1, <2>2, <2>3, <2>4, <2>5, <2>6, <2>7, <2>8, <2>9, <2>10, <2>11 DEF Engine
<1>2. ASSUME RunUntouched, TypeOK'
      PROVE  TypeOK' /\ EngineSound' /\ StepsSound'
  <2>1. Proceeds(engine.pc, engine.remaining, engine.awaited) /\ SameLevel
    BY <1>2 DEF RunUntouched, Proceeds, SameLevel, TypeOK
  <2>2. QED
    BY <1>2, <2>1, CoreStays DEF RunUntouched
<1>3. CASE Forwarder \/ Users
  BY <1>2, <1>3, ForwarderLeavesTheRun
<1>4. CASE DeadlinePasses
  BY <1>4, DeadlinePassesFacts, CoreStays
<1>5. ASSUME NEW s \in Steps, TaskEnds(s)
      PROVE  TypeOK' /\ EngineSound' /\ StepsSound'
  <2>1. Proceeds(engine.pc, engine.remaining, engine.awaited) /\ SameLevel
    BY <1>5, TaskEndsFacts DEF Proceeds, SameLevel, TypeOK
  <2>2. QED
    BY <1>5, <2>1, TaskEndsFacts, CoreStays
<1>6. CASE UNCHANGED vars
  BY <1>2, <1>6 DEF vars, RunUntouched, TypeOK
<1>7. QED
  BY <1>1, <1>3, <1>4, <1>5, <1>6 DEF Next

-----------------------------------------------------------------------------
(* The promise: every step of the run is a step of WorkflowRun, or none.   *)

Core == TypeOK /\ EngineSound /\ StepsSound

Promised == [Promise!Next]_(Promise!vars)

\* Nothing that is promised happens.
LEMMA ShowsNothing ==
  ASSUME UNCHANGED definition, StatusShown' = StatusShown,
         \A s \in Steps : StepShown(s)' = StepShown(s)
  PROVE  Promised
BY DEF Promised, Promise!vars

\* The run is over, and what was at work is lost.
LEMMA ShowsEnd ==
  ASSUME UNCHANGED definition, StatusShown # "ended", StatusShown' = "ended",
         \A s \in Steps :
            StepShown(s)' = IF StepShown(s) = "working" THEN "lost" ELSE StepShown(s)
  PROVE  Promised
BY DEF Promised, Promise!Next, Promise!End

\* A step has a result, or is lost.
LEMMA ShowsSettle ==
  ASSUME UNCHANGED definition, StatusShown = "running", StatusShown' = "running",
         NEW s \in Steps, StepShown(s) = "working",
         StepShown(s)' \in {"success", "failed", "lost"},
         \A r \in Steps \ {s} : StepShown(r)' = StepShown(r)
  PROVE  Promised
BY DEF Promised, Promise!Next, Promise!Settle

\* The run pauses.
LEMMA ShowsPause ==
  ASSUME UNCHANGED definition, StatusShown = "running", StatusShown' = "paused",
         \A s \in Steps : StepShown(s)' = StepShown(s)
  PROVE  Promised
BY DEF Promised, Promise!Next, Promise!Pause

\* The run goes on after a pause.
LEMMA ShowsResume ==
  ASSUME UNCHANGED definition, StatusShown = "paused", StatusShown' = "running",
         NEW s \in Steps, StepShown(s) = "working", StepShown(s)' = "failed",
         \A r \in Steps \ {s} : StepShown(r)' = StepShown(r)
  PROVE  Promised
BY DEF Promised, Promise!Next, Promise!Resume

\* Steps that are ready begin.
LEMMA ShowsBegin ==
  ASSUME UNCHANGED definition, StatusShown = "running", StatusShown' = "running",
         NEW level \in SUBSET Steps, level # {},
         \A s \in level :
            /\ StepShown(s) = "waiting" /\ StepShown(s)' \in {"working", "skipped"}
            /\ \A d \in definition.dependsOn[s] \ {Missing} :
                  StepShown(d) \in {"success", "failed", "skipped", "lost"},
         \A s \in level : definition.dependsOn[s] \subseteq Steps \cup {Missing},
         \A s \in Steps \ level : StepShown(s)' = StepShown(s)
  PROVE  Promised
<1>1. level \in SUBSET {s \in Steps : Promise!Ready(s)}
  BY DEF Promise!Ready, Promise!Over, Promise!Results
<1> DEFINE first == [s \in level |-> StepShown(s)']
<1>2. first \in [level -> {"working", "skipped"}]
  OBVIOUS
<1>3. [s \in Steps |-> StepShown(s)]' =
        [s \in Steps |-> IF s \in level THEN first[s] ELSE [r \in Steps |-> StepShown(r)][s]]
  OBVIOUS
<1>4. Promise!Begin
  BY <1>1, <1>2, <1>3 DEF Promise!Begin
<1>5. QED
  BY <1>4 DEF Promised, Promise!Next

\* Where the engine is shows the status; nothing is at work between the levels.
LEMMA ShownFacts ==
  ASSUME Core
  PROVE  /\ engine.pc \in {"validating", "level", "collecting", "waiting", "pausing"} =>
               StatusShown = "running"
         /\ engine.pc \in {"paused", "dropping"} => StatusShown = "paused"
         /\ \A s \in Steps : StepShown(s) = "working" <=>
               s \in engine.remaining \/ s = engine.awaited
         /\ \A s \in Steps : StepShown(s) = "waiting" <=>
               tasks[s] = "none" /\ results[s] = "none"
<1>1. \A s \in Steps : results[s] \in {"none", "success", "failed", "skipped"}
  BY DEF Core, TypeOK
<1>2. \A s \in Steps : s \in engine.remaining \/ s = engine.awaited =>
         tasks[s] # "none" /\ results[s] = "none"
  BY DEF Core, StepsSound
<1>3. ASSUME NEW s \in Steps
      PROVE  /\ StepShown(s) = "working" <=> s \in engine.remaining \/ s = engine.awaited
             /\ StepShown(s) = "waiting" <=> tasks[s] = "none" /\ results[s] = "none"
  <2>1. CASE results[s] # "none"
    <3>1. StepShown(s) = results[s]
      BY <2>1 DEF StepShown
    <3>2. QED
      BY <1>1, <1>2, <2>1, <3>1
  <2>2. CASE results[s] = "none" /\ tasks[s] = "none"
    <3>1. StepShown(s) = "waiting"
      BY <2>2 DEF StepShown
    <3>2. QED
      BY <1>2, <2>2, <3>1
  <2>3. CASE results[s] = "none" /\ tasks[s] # "none"
    <3>1. StepShown(s) = IF s \in engine.remaining \cup {engine.awaited} THEN "working"
                                                                         ELSE "lost"
      BY <2>3 DEF StepShown
    <3>2. QED
      BY <2>3, <3>1
  <2>4. QED
    BY <2>1, <2>2, <2>3
<1>4. /\ engine.pc \in {"validating", "level", "collecting", "waiting", "pausing"} =>
            StatusShown = "running"
      /\ engine.pc \in {"paused", "dropping"} => StatusShown = "paused"
  <2>1. /\ engine.next = "ended" => engine.pc \in {"sending", "ended"}
        /\ engine.next = "dropping" => engine.pc \in {"sending", "dropping", "ended"}
        /\ engine.pc = "dropping" => engine.next = "dropping"
    BY DEF Core, EngineSound
  <2>2. QED
    BY <2>1 DEF StatusShown, EndShown
<1>5. QED
  BY <1>3, <1>4

\* What a step shows stays if its task and its result do, and whether it is at work.
LEMMA StepShownStays ==
  ASSUME UNCHANGED results, \A s \in Steps : tasks'[s] = "none" <=> tasks[s] = "none"
  PROVE  \A s \in Steps :
            ((s \in engine.remaining \/ s = engine.awaited)'
               <=> s \in engine.remaining \/ s = engine.awaited)
            => StepShown(s)' = StepShown(s)
BY DEF StepShown

\* The end, when nothing that was at work is waited for any more.
LEMMA EndPromised ==
  ASSUME Core, UNCHANGED <<definition, results>>,
         \A s \in Steps : tasks'[s] = "none" <=> tasks[s] = "none",
         StatusShown # "ended", StatusShown' = "ended",
         engine'.remaining = {}, engine'.awaited = NoStep
  PROVE  Promised
<1>1. ASSUME NEW s \in Steps
      PROVE  StepShown(s)' = IF StepShown(s) = "working" THEN "lost" ELSE StepShown(s)
  <2>1. s \notin engine'.remaining /\ s # engine'.awaited
    BY Constants
  <2>2. CASE s \in engine.remaining \/ s = engine.awaited
    <3>1. StepShown(s) = "working" /\ tasks[s] # "none" /\ results[s] = "none"
      BY <2>2, ShownFacts DEF Core, StepsSound
    <3>2. StepShown(s)' = "lost"
      BY <2>1, <3>1 DEF StepShown
    <3>3. QED
      BY <3>1, <3>2
  <2>3. CASE ~(s \in engine.remaining \/ s = engine.awaited)
    BY <2>1, <2>3, ShownFacts, StepShownStays
  <2>4. QED
    BY <2>2, <2>3
<1>2. QED
  BY <1>1, ShowsEnd

\* Validation begins no step: it may end the run.
LEMMA ValidatePromised ==
  ASSUME Core, Validate
  PROVE  Promised
<1>1. /\ UNCHANGED <<definition, tasks, results>> /\ engine.pc = "validating"
      /\ \/ Sends("Started", "level", engine.remaining, engine.awaited)
         \/ Sends("Failed", "ended", engine.remaining, engine.awaited)
  BY ValidateFacts DEF Core
<1>2. StatusShown = "running" /\ engine.remaining = {} /\ engine.awaited = NoStep
  BY <1>1, ShownFacts DEF Core, EngineSound, Heading
<1>3. CASE Sends("Started", "level", engine.remaining, engine.awaited)
  <2>1. StatusShown' = "running"
    BY <1>3 DEF StatusShown, EndShown, Sends
  <2>2. \A s \in Steps : StepShown(s)' = StepShown(s)
    BY <1>1, <1>3, StepShownStays DEF Sends
  <2>3. QED
    BY <1>1, <1>2, <2>1, <2>2, ShowsNothing
<1>4. CASE Sends("Failed", "ended", engine.remaining, engine.awaited)
  <2>1. StatusShown' = "ended"
    BY <1>4 DEF StatusShown, EndShown, Sends
  <2>2. QED
    BY <1>1, <1>2, <1>4, <2>1, EndPromised DEF Sends
<1>5. QED
  BY <1>1, <1>3, <1>4

\* A step of WorkflowRun, or none, is the sending of a lifecycle event.
LEMMA SendLifecyclePromised ==
  ASSUME Core, SendLifecycle
  PROVE  Promised
<1>1. engine.pc = "sending"
  BY DEF SendLifecycle
<1>2. /\ UNCHANGED <<definition, tasks, results>>
      /\ engine'.pc = engine.next /\ engine'.next = engine.next
      /\ engine'.remaining = engine.remaining /\ engine'.awaited = engine.awaited
      /\ engine.next \in {"level", "ended", "pausing", "dropping", "collecting"}
  BY <1>1, SendLifecycleFacts, Announced DEF Core
<1>3. StatusShown' = StatusShown
  BY <1>1, <1>2 DEF StatusShown, EndShown
<1>4. \A s \in Steps : StepShown(s)' = StepShown(s)
  BY <1>2, StepShownStays
<1>5. QED
  BY <1>2, <1>3, <1>4, ShowsNothing

\* A step of WorkflowRun, or none, is the start of a level.
LEMMA StartLevelPromised ==
  ASSUME Core, StartLevel
  PROVE  Promised
<1>1. /\ engine.pc = "level" /\ UNCHANGED definition /\ SameLevel
      /\ \/ /\ Sends("Cancelled", "ended", engine.remaining, engine.awaited)
            /\ UNCHANGED <<tasks, results>>
         \/ Sends("TimedOut", "ended", {}, NoStep) /\ UNCHANGED <<tasks, results>>
         \/ LevelBegins
  BY StartLevelFacts DEF Core
<1>2. /\ StatusShown = "running" /\ engine.remaining = {} /\ engine.awaited = NoStep
      /\ engine.next \notin {"ended", "dropping"}
  BY <1>1, ShownFacts DEF Core, EngineSound, Heading
<1>3. CASE /\ \/ Sends("Cancelled", "ended", engine.remaining, engine.awaited)
              \/ Sends("TimedOut", "ended", {}, NoStep)
           /\ UNCHANGED <<tasks, results>>
  <2>1. StatusShown' = "ended"
    BY <1>3 DEF StatusShown, EndShown, Sends
  <2>2. QED
    BY <1>1, <1>2, <1>3, <2>1, EndPromised DEF Sends
<1>4. CASE LevelBegins
  <2> DEFINE level == NextLevel(engine.done)
  <2>1. PICK skipped \in SUBSET level :
          /\ engine'.remaining = level \ skipped
          /\ \A s \in Steps : results'[s] = IF s \in skipped THEN "skipped" ELSE results[s]
          /\ \A s \in Steps : tasks'[s] = IF s \in level \ skipped THEN "running" ELSE tasks[s]
    BY <1>4 DEF LevelBegins
  <2>2. engine'.awaited = NoStep /\ engine'.pc = "collecting" /\ engine'.next = engine.next
    BY <1>2, <1>4 DEF LevelBegins, Proceeds
  <2>3. StatusShown' = "running"
    BY <1>2, <2>2 DEF StatusShown, EndShown
  <2>4. /\ definition \in Definition /\ engine.done \in SUBSET Steps
        /\ level \in SUBSET Steps /\ level \cap engine.done = {}
        /\ \A s \in level : definition.dependsOn[s] \subseteq engine.done
    <3>1. definition \in Definition /\ engine.done \in SUBSET Steps
      BY DEF Core, TypeOK, EngineState
    <3>2. QED
      BY <3>1, LevelFacts
  <2>5. \A s \in Steps : s \in engine.done <=> StepShown(s) # "waiting"
    BY <1>1, ShownFacts DEF Core, StepsSound, Begun, Heading
  <2>6. \A s \in Steps : StepShown(s) \in {"waiting", "success", "failed", "skipped", "lost"}
    <3>1. \A s \in Steps : results[s] \in {"none", "success", "failed", "skipped"}
      BY DEF Core, TypeOK
    <3>2. \A s \in Steps : s \notin engine.remaining \cup {engine.awaited}
      BY <1>2, Constants
    <3>3. QED
      BY <3>1, <3>2 DEF StepShown
  <2>7. \A s \in Steps \ level : StepShown(s)' = StepShown(s)
    BY <1>2, <2>1, <2>2 DEF StepShown
  <2>8. ASSUME NEW s \in level
        PROVE  StepShown(s)' \in {"working", "skipped"}
    <3>1. s \in Steps /\ tasks[s] = "none" /\ results[s] = "none"
      BY <2>4, <2>5, ShownFacts
    <3>2. CASE s \in skipped
      <4>1. results'[s] = "skipped"
        BY <2>1, <3>1, <3>2
      <4>2. QED
        BY <4>1 DEF StepShown
    <3>3. CASE s \notin skipped
      <4>1. results'[s] = "none" /\ tasks'[s] = "running" /\ s \in engine'.remaining
        BY <2>1, <3>1, <3>3
      <4>2. QED
        BY <4>1 DEF StepShown
    <3>4. QED
      BY <3>2, <3>3
  <2>9. CASE level = {}
    BY <1>1, <1>2, <2>3, <2>7, <2>9, ShowsNothing
  <2> HIDE DEF level
  <2>10. CASE level # {}
    BY <1>1, <1>2, <2>3, <2>4, <2>5, <2>6, <2>7, <2>8, <2>10, ShowsBegin
  <2>11. QED
    BY <2>9, <2>10
<1>5. QED
  BY <1>1, <1>3, <1>4

\* A step of WorkflowRun, or none, is the end of the last level.
LEMMA CompletePromised ==
  ASSUME Core, Complete
  PROVE  Promised
<1>1. /\ UNCHANGED <<definition, tasks, results>> /\ engine.pc = "level"
      /\ Sends("Completed", "ended", engine.remaining, engine.awaited)
  BY CompleteFacts DEF Core
<1>2. StatusShown = "running" /\ engine.remaining = {} /\ engine.awaited = NoStep
  BY <1>1, ShownFacts DEF Core, EngineSound, Heading
<1>3. StatusShown' = "ended"
  BY <1>1 DEF StatusShown, EndShown, Sends
<1>4. QED
  BY <1>1, <1>2, <1>3, EndPromised DEF Sends

\* The steps that are not concerned keep what they show.
LEMMA OthersShownStay ==
  ASSUME NEW s \in Steps, \A r \in Steps \ {s} : results'[r] = results[r],
         \A r \in Steps : tasks'[r] = "none" <=> tasks[r] = "none",
         engine'.remaining \in {engine.remaining, engine.remaining \ {s}},
         \A r \in Steps \ {s} : r = engine'.awaited <=> r = engine.awaited
  PROVE  \A r \in Steps \ {s} : StepShown(r)' = StepShown(r)
BY DEF StepShown

\* A step of WorkflowRun, or none, is going on to the next step of a level.
LEMMA CollectNextPromised ==
  ASSUME Core, CollectNext
  PROVE  Promised
<1>1. /\ UNCHANGED <<definition, results>> /\ engine.pc = "collecting"
      /\ \A r \in Steps : tasks'[r] = "none" <=> tasks[r] = "none"
  BY CollectNextFacts DEF Core
<1>2. PICK s \in engine.remaining :
         \/ Proceeds("collecting", engine.remaining \ {s}, engine.awaited)
         \/ Proceeds("waiting", engine.remaining \ {s}, s)
  BY CollectNextFacts DEF Core
<1>3. /\ StatusShown = "running" /\ engine.awaited = NoStep
      /\ engine.next \notin {"ended", "dropping"}
  BY <1>1, ShownFacts DEF Core, EngineSound, Heading
<1>4. StatusShown' = "running"
  BY <1>2, <1>3 DEF StatusShown, EndShown, Proceeds
<1>5. s \in Steps /\ StepShown(s) = "working" /\ tasks[s] # "none" /\ results[s] = "none"
  <2>1. s \in Steps
    BY DEF Core, TypeOK, EngineState
  <2>2. QED
    BY <2>1, ShownFacts DEF Core, StepsSound
<1>6. CASE Proceeds("collecting", engine.remaining \ {s}, engine.awaited)
  <2>1. \A r \in Steps \ {s} : StepShown(r)' = StepShown(r)
    BY <1>1, <1>5, <1>6, OthersShownStay DEF Proceeds
  <2>2. tasks'[s] # "none" /\ results'[s] = "none" /\ s \notin engine'.remaining \cup {engine'.awaited}
    BY <1>1, <1>3, <1>5, <1>6, Constants DEF Proceeds
  <2>3. StepShown(s)' = "lost"
    BY <2>2 DEF StepShown
  <2>4. QED
    BY <1>1, <1>3, <1>4, <1>5, <2>1, <2>3, ShowsSettle
<1>7. CASE Proceeds("waiting", engine.remaining \ {s}, s)
  <2>1. \A r \in Steps : StepShown(r)' = StepShown(r)
    BY <1>1, <1>3, <1>7, StepShownStays, Constants DEF Proceeds
  <2>2. QED
    BY <1>1, <1>3, <1>4, <2>1, ShowsNothing
<1>8. QED
  BY <1>2, <1>6, <1>7

\* A step of WorkflowRun, or none, is the end of a level.
LEMMA EndLevelPromised ==
  ASSUME Core, EndLevel
  PROVE  Promised
<1>1. /\ UNCHANGED <<definition, tasks, results>> /\ engine.pc = "collecting"
      /\ engine.remaining = {}
      /\ \/ Proceeds("ended", engine.remaining, engine.awaited)
         \/ Proceeds("level", engine.remaining, engine.awaited)
  BY EndLevelFacts DEF Core
<1>2. /\ StatusShown = "running" /\ engine.awaited = NoStep
      /\ engine.next \notin {"ended", "dropping"}
  BY <1>1, ShownFacts DEF Core, EngineSound, Heading
<1>3. CASE Proceeds("ended", engine.remaining, engine.awaited)
  <2>1. StatusShown' = "ended"
    BY <1>3 DEF StatusShown, EndShown, Proceeds
  <2>2. QED
    BY <1>1, <1>2, <1>3, <2>1, EndPromised DEF Proceeds
<1>4. CASE Proceeds("level", engine.remaining, engine.awaited)
  <2>1. StatusShown' = "running"
    BY <1>2, <1>4 DEF StatusShown, EndShown, Proceeds
  <2>2. \A s \in Steps : StepShown(s)' = StepShown(s)
    BY <1>1, <1>4, StepShownStays DEF Proceeds
  <2>3. QED
    BY <1>1, <1>2, <2>1, <2>2, ShowsNothing
<1>5. QED
  BY <1>1, <1>3, <1>4

\* A step of WorkflowRun, or none, is taking a result.
LEMMA TakeResultPromised ==
  ASSUME Core, TakeResult
  PROVE  Promised
<1> PICK s : s = engine.awaited
  OBVIOUS
<1>1. s \in Steps /\ engine.pc = "waiting" /\ s \notin engine.remaining
  BY TakeResultCore DEF Core, TakeResult, EngineSound
<1>2. UNCHANGED <<definition, tasks>>
  BY <1>1, TakeResultFacts DEF Core
<1>3. StatusShown = "running" /\ engine.next \notin {"ended", "dropping"}
  BY <1>1, ShownFacts DEF Core, EngineSound
<1>4. /\ StepShown(s) = "working" /\ tasks[s] # "none" /\ results[s] = "none"
  BY <1>1, ShownFacts DEF Core, StepsSound
<1>5. ASSUME results' = results \/ \E result \in {"success", "failed"} : Records(s, result),
             \/ Proceeds("collecting", engine.remaining, NoStep)
             \/ Sends("Failed", "collecting", engine.remaining, NoStep)
      PROVE  Promised
  <2>1. StatusShown' = "running"
    BY <1>3, <1>5 DEF StatusShown, EndShown, Proceeds, Sends
  <2>2. /\ engine'.remaining = engine.remaining /\ engine'.awaited = NoStep
        /\ \A r \in Steps \ {s} : results'[r] = results[r]
        /\ results'[s] \in {"none", "success", "failed"}
    BY <1>4, <1>5 DEF Proceeds, Sends, Records
  <2>3. \A r \in Steps \ {s} : StepShown(r)' = StepShown(r)
    BY <1>1, <1>2, <2>2, OthersShownStay, Constants
  <2>4. StepShown(s)' \in {"success", "failed", "lost"}
    <3>1. s \notin engine'.remaining \cup {engine'.awaited} /\ tasks'[s] # "none"
      BY <1>1, <1>2, <1>4, <2>2, Constants
    <3>2. CASE results'[s] = "none"
      <4>1. StepShown(s)' = "lost"
        BY <3>1, <3>2 DEF StepShown
      <4>2. QED
        BY <4>1
    <3>3. CASE results'[s] # "none"
      <4>1. StepShown(s)' = results'[s]
        BY <3>3 DEF StepShown
      <4>2. QED
        BY <2>2, <3>3, <4>1
    <3>4. QED
      BY <3>2, <3>3
  <2>5. QED
    BY <1>1, <1>2, <1>3, <1>4, <2>1, <2>3, <2>4, ShowsSettle
<1>6. ASSUME Sends("Paused", "pausing", engine.remaining, engine.awaited), results' = results
      PROVE  Promised
  <2>1. StatusShown' = "running"
    BY <1>6 DEF StatusShown, EndShown, Sends
  <2>2. \A r \in Steps : StepShown(r)' = StepShown(r)
    BY <1>2, <1>6, StepShownStays DEF Sends
  <2>3. QED
    BY <1>2, <1>3, <2>1, <2>2, ShowsNothing
<1>7. QED
  BY <1>1, <1>5, <1>6, TakeResultFacts DEF Core

\* A step of WorkflowRun, or none, is the deadline.
LEMMA TimeOutWaitingPromised ==
  ASSUME Core, TimeOutWaiting
  PROVE  Promised
<1>1. /\ UNCHANGED <<definition, results>> /\ engine.pc = "waiting"
      /\ Sends("TimedOut", "ended", {}, NoStep)
      /\ \A s \in Steps : tasks'[s] = "none" <=> tasks[s] = "none"
  BY TimeOutWaitingFacts DEF Core
<1>2. StatusShown = "running"
  BY <1>1, ShownFacts
<1>3. StatusShown' = "ended"
  BY <1>1 DEF StatusShown, EndShown, Sends
<1>4. QED
  BY <1>1, <1>2, <1>3, EndPromised DEF Sends

\* A step of WorkflowRun, or none, is saving a pause.
LEMMA SavePausePromised ==
  ASSUME Core, SavePause
  PROVE  Promised
<1>1. /\ UNCHANGED <<definition, tasks, results>> /\ engine.pc = "pausing"
      /\ \/ Proceeds("paused", engine.remaining, engine.awaited)
         \/ Sends("Failed", "dropping", engine.remaining, engine.awaited)
  BY SavePauseFacts DEF Core
<1>2. StatusShown = "running" /\ engine.next # "ended"
  BY <1>1, ShownFacts DEF Core, EngineSound
<1>3. StatusShown' = "paused"
  BY <1>1, <1>2 DEF StatusShown, EndShown, Proceeds, Sends
<1>4. \A s \in Steps : StepShown(s)' = StepShown(s)
  BY <1>1, StepShownStays DEF Proceeds, Sends
<1>5. QED
  BY <1>1, <1>2, <1>3, <1>4, ShowsPause

\* A step of WorkflowRun, or none, is a decision.
LEMMA DecidedPromised ==
  ASSUME Core, Decided
  PROVE  Promised
<1> PICK s : s = engine.awaited
  OBVIOUS
<1>1. s \in Steps /\ engine.pc = "paused" /\ s \notin engine.remaining
  BY DecidedCore DEF Core, Decided, EngineSound
<1>2. /\ UNCHANGED <<definition, tasks>>
      /\ \/ /\ Records(s, "failed")
            /\ Sends("Resumed", "collecting", engine.remaining, NoStep)
         \/ /\ UNCHANGED results
            /\ Sends("Failed", "dropping", engine.remaining, engine.awaited)
  BY <1>1, DecidedFacts DEF Core
<1>3. StatusShown = "paused" /\ StepShown(s) = "working"
  BY <1>1, ShownFacts
<1>4. CASE /\ Records(s, "failed")
           /\ Sends("Resumed", "collecting", engine.remaining, NoStep)
  <2>1. StatusShown' = "running"
    BY <1>4 DEF StatusShown, EndShown, Sends
  <2>2. \A r \in Steps \ {s} : StepShown(r)' = StepShown(r)
    BY <1>1, <1>2, <1>4, OthersShownStay, Constants DEF Records, Sends
  <2>3. StepShown(s)' = "failed"
    BY <1>4 DEF StepShown, Records
  <2>4. QED
    BY <1>1, <1>2, <1>3, <2>1, <2>2, <2>3, ShowsResume
<1>5. CASE /\ UNCHANGED results
           /\ Sends("Failed", "dropping", engine.remaining, engine.awaited)
  <2>1. StatusShown' = "paused"
    BY <1>5 DEF StatusShown, EndShown, Sends
  <2>2. \A r \in Steps : StepShown(r)' = StepShown(r)
    BY <1>2, <1>5, StepShownStays DEF Sends
  <2>3. QED
    BY <1>2, <1>3, <2>1, <2>2, ShowsNothing
<1>6. QED
  BY <1>2, <1>4, <1>5

\* A step of WorkflowRun, or none, is giving up the rest of a level.
LEMMA DropRemainingPromised ==
  ASSUME Core, DropRemaining
  PROVE  Promised
<1>1. /\ UNCHANGED <<definition, results>> /\ engine.pc = "dropping"
      /\ Proceeds("ended", {}, NoStep)
      /\ \A s \in Steps : tasks'[s] = "none" <=> tasks[s] = "none"
  BY DropRemainingFacts DEF Core
<1>2. StatusShown = "paused"
  BY <1>1, ShownFacts
<1>3. StatusShown' = "ended"
  BY <1>1 DEF StatusShown, EndShown, Proceeds
<1>4. QED
  BY <1>1, <1>2, <1>3, EndPromised DEF Proceeds

\* What is not a step of the engine does not show.
LEMMA NothingShown ==
  ASSUME UNCHANGED <<definition, results>>,
         Proceeds(engine.pc, engine.remaining, engine.awaited),
         \A s \in Steps : tasks'[s] = "none" <=> tasks[s] = "none"
  PROVE  Promised
<1>1. StatusShown' = StatusShown
  BY DEF StatusShown, EndShown, Proceeds
<1>2. \A s \in Steps : StepShown(s)' = StepShown(s)
  BY StepShownStays DEF Proceeds
<1>3. QED
  BY <1>1, <1>2, ShowsNothing

\* Every step of the run is promised.
LEMMA NextPromised ==
  ASSUME Core, [Next]_vars
  PROVE  Promised
<1>1. CASE Engine
  BY <1>1, ValidatePromised, SendLifecyclePromised, StartLevelPromised, CompletePromised,
     CollectNextPromised, EndLevelPromised, TakeResultPromised, TimeOutWaitingPromised,
     SavePausePromised, DecidedPromised, DropRemainingPromised DEF Engine
<1>2. ASSUME RunUntouched
      PROVE  Promised
  <2>1. Proceeds(engine.pc, engine.remaining, engine.awaited)
    BY <1>2 DEF RunUntouched, Proceeds, Core, TypeOK
  <2>2. QED
    BY <1>2, <2>1, NothingShown DEF RunUntouched
<1>3. CASE Forwarder \/ Users
  BY <1>2, <1>3, ForwarderLeavesTheRun DEF Core
<1>4. CASE DeadlinePasses
  BY <1>4, DeadlinePassesFacts, NothingShown DEF Core
<1>5. ASSUME NEW s \in Steps, TaskEnds(s)
      PROVE  Promised
  <2>1. Proceeds(engine.pc, engine.remaining, engine.awaited)
    BY <1>5, TaskEndsFacts DEF Proceeds, Core, TypeOK
  <2>2. QED
    BY <1>5, <2>1, TaskEndsFacts, NothingShown DEF Core
<1>6. CASE UNCHANGED vars
  BY <1>2, <1>6 DEF vars, RunUntouched
<1>7. QED
  BY <1>1, <1>3, <1>4, <1>5, <1>6 DEF Next

\* At first nothing is promised but that every step waits.
LEMMA InitCore ==
  ASSUME Init
  PROVE  Core
<1>1. TypeOK
  <2>1. engine \in EngineState
    BY DEF Init, EngineState, EnginePcs
  <2>2. saved \in Saved
    BY DEF Init, Saved
  <2>3. forwarder \in ForwarderState
    <3>1. PICK none \in Seq(Command) : none = <<>>
      <4>1. <<>> \in Seq(Command)
        OBVIOUS
      <4>2. QED
        BY <4>1, Zenon
    <3>2. forwarder = [pc |-> "listening", entry |-> TRUE, control |-> none, told |-> NoEvent]
      BY <3>1 DEF Init
    <3>3. QED
      BY <3>2 DEF ForwarderState
  <2>4. handle \in [cancel : BOOLEAN, approvals : Seq(Command), open : BOOLEAN]
    BY DEF Init
  <2>5. events \in Seq(Lifecycle \cup {StepEvent}) /\ Len(events) =< EventCap
    BY WorkflowAssumption DEF Init
  <2>6. QED
    BY <2>1, <2>2, <2>3, <2>4, <2>5, WorkflowAssumption DEF Init, TypeOK
<1>2. EngineSound
  BY DEF Init, EngineSound, Heading
<1>3. StepsSound
  BY Constants DEF Init, StepsSound, Begun, Heading
<1>4. QED
  BY <1>1, <1>2, <1>3 DEF Core

\* The initial state is one of WorkflowRun.
LEMMA InitPromised ==
  ASSUME Init
  PROVE  Promise!Init
<1>1. definition \in Definition
  BY WorkflowAssumption DEF Init
<1>2. [s \in Steps |-> definition.dependsOn[s] \ {Missing}] \in [Steps -> SUBSET Steps]
  BY <1>1 DEF Definition
<1>3. StatusShown = "running"
  BY DEF Init, StatusShown, EndShown
<1>4. \A s \in Steps : StepShown(s) = "waiting"
  BY DEF Init, StepShown
<1>5. QED
  BY <1>2, <1>3, <1>4 DEF Promise!Init

-----------------------------------------------------------------------------
(* The snapshots.                                                          *)

\* Results are only added; what a snapshot holds stays true.
ResultsStay == \A s \in Steps : results[s] # "none" => results'[s] = results[s]

\* A step that panicked has panicked, a run that is cancelled stays so.
WholeStays == Whole' => Whole

\* The snapshot is the same, and the results it holds are.
LEMMA SnapshotStays ==
  ASSUME Core, TypeOK', SnapshotSound, saved' = saved, ResultsStay, WholeStays,
         engine'.done = engine.done,
         Whole' /\ ~engine'.aborted /\ ~Heading({"validating", "level", "ended"})' =>
            \A s \in NextLevel(engine.done)' :
               results'[s] # "none" \/ s \in engine'.remaining \/ s = engine'.awaited
  PROVE  SnapshotSound'
<1>1. \A s \in Steps : saved.results[s] \in {"none", results[s]}
  BY DEF SnapshotSound, SnapshotsAreTrue
<1>2. \A s \in Steps : saved'.results[s] \in {"none", results'[s]}
  BY <1>1 DEF ResultsStay
<1>3. saved'.state # "none" /\ Whole' => \A s \in saved'.done : saved'.results[s] # "none"
  BY DEF SnapshotSound, SnapshotsAreTrue, WholeStays, Whole
<1>4. Whole' => \A s \in engine'.done : results'[s] # "none"
  BY DEF SnapshotSound, WholeStays, ResultsStay, Core, TypeOK, EngineState
<1>5. SnapshotsAreTrue'
  BY <1>2, <1>3 DEF SnapshotsAreTrue, Whole
<1>6. QED
  BY <1>4, <1>5 DEF SnapshotSound

\* A snapshot is taken of the results there are.
LEMMA SnapshotTaken ==
  ASSUME Core, TypeOK', SnapshotSound, WholeStays, results' = results,
         saved'.results = results,
         Whole => \A s \in saved'.done : results[s] # "none",
         Whole => \A s \in engine'.done : results[s] # "none",
         Whole' /\ ~engine'.aborted /\ ~Heading({"validating", "level", "ended"})' =>
            \A s \in NextLevel(engine.done)' :
               results'[s] # "none" \/ s \in engine'.remaining \/ s = engine'.awaited
  PROVE  SnapshotSound'
BY DEF SnapshotSound, SnapshotsAreTrue, WholeStays, Whole

\* Every step keeps the snapshots true.
LEMMA SnapshotKeeps ==
  ASSUME Core, SnapshotSound, [Next]_vars
  PROVE  SnapshotSound'
<1> USE DEF ResultsStay
<1>1. TypeOK' /\ EngineSound'
  BY CoreKeeps DEF Core
<1>2. Whole /\ ~engine.aborted /\ ~Heading({"validating", "level", "ended"}) =>
         \A s \in NextLevel(engine.done) :
            results[s] # "none" \/ s \in engine.remaining \/ s = engine.awaited
  BY DEF SnapshotSound
<1>3. Whole => \A s \in engine.done : results[s] # "none"
  BY DEF SnapshotSound
<1>4. CASE Validate
  <2>1. WholeStays /\ engine'.done = {} /\ Heading({"validating", "level", "ended"})'
    BY <1>4, ValidateFacts
    DEF Core, EngineSound, WholeStays, Whole, SameLevel, Heading, Sends
  <2>2. CASE saved' = saved
    BY <1>1, <1>4, <2>1, <2>2, ValidateFacts, SnapshotStays DEF Core, SameLevel
  <2>3. CASE saved'.done = {} /\ saved'.results = results
    BY <1>1, <1>4, <2>1, <2>3, ValidateFacts, SnapshotTaken DEF Core
  <2>4. QED
    BY <1>4, <2>2, <2>3, ValidateFacts DEF Core
<1>5. CASE SendLifecycle
  <2>1. engine.pc = "sending"
    BY <1>5 DEF SendLifecycle
  <2>2. /\ SameLevel /\ UNCHANGED <<definition, tasks, results, saved, handle>>
        /\ engine'.pc = engine.next
        /\ engine'.remaining = engine.remaining /\ engine'.awaited = engine.awaited
        /\ engine.next \in {"level", "ended", "pausing", "dropping", "collecting"}
    BY <1>5, <2>1, SendLifecycleFacts, Announced DEF Core
  <2>3. WholeStays
    BY <2>2 DEF WholeStays, Whole
  <2>4. ~Heading({"validating", "level", "ended"})' => ~Heading({"validating", "level", "ended"})
    BY <2>1, <2>2 DEF Heading
  <2>5. QED
    BY <1>1, <1>2, <2>2, <2>3, <2>4, SameLevels, SnapshotStays DEF SameLevel, WholeStays
<1>6. CASE StartLevel
  <2>1. /\ engine.pc = "level" /\ SameLevel /\ UNCHANGED <<definition, handle>>
        /\ engine.remaining = {} /\ engine.awaited = NoStep
    BY <1>6, StartLevelFacts DEF Core, EngineSound, Heading
  <2>2. CASE /\ Sends("Cancelled", "ended", engine.remaining, engine.awaited)
             /\ UNCHANGED <<tasks, results, saved, events>>
    <3>1. WholeStays /\ Heading({"validating", "level", "ended"})'
      BY <2>1, <2>2 DEF WholeStays, Whole, Heading, Sends
    <3>2. QED
      BY <1>1, <2>1, <2>2, <3>1, SnapshotStays DEF SameLevel
  <2>3. CASE /\ Sends("TimedOut", "ended", {}, NoStep)
             /\ UNCHANGED <<tasks, results, events>>
             /\ saved'.done = engine.done /\ saved'.results = results
    <3>1. WholeStays /\ Heading({"validating", "level", "ended"})'
      BY <2>1, <2>3 DEF WholeStays, Whole, Heading, Sends
    <3>2. QED
      BY <1>1, <1>3, <2>1, <2>3, <3>1, SnapshotTaken DEF SameLevel
  <2>4. CASE LevelBegins
    <3>1. PICK skipped \in SUBSET NextLevel(engine.done) :
            /\ engine'.remaining = NextLevel(engine.done) \ skipped
            /\ \A s \in Steps : results'[s] = IF s \in skipped THEN "skipped" ELSE results[s]
            /\ \A s \in Steps : tasks'[s] = IF s \in NextLevel(engine.done) \ skipped
                                            THEN "running" ELSE tasks[s]
      BY <2>4 DEF LevelBegins
    <3>2. NextLevel(engine.done)' = NextLevel(engine.done)
      BY <2>1, SameLevels DEF SameLevel
    <3>3. \A s \in NextLevel(engine.done) : s \in Steps /\ tasks[s] = "none" /\ results[s] = "none"
      BY <2>1 DEF Core, StepsSound, Begun, Heading, NextLevel
    <3>4. ResultsStay /\ WholeStays
      BY <2>1, <3>1, <3>3 DEF WholeStays, Whole
    <3>5. \A s \in NextLevel(engine.done) : results'[s] # "none" \/ s \in engine'.remaining
      BY <3>1, <3>3
    <3>6. saved' = saved
      BY <2>4 DEF LevelBegins
    <3>7. QED
      BY <1>1, <2>1, <3>2, <3>4, <3>5, <3>6, SnapshotStays DEF SameLevel
  <2>5. QED
    BY <1>6, <2>2, <2>3, <2>4, StartLevelFacts DEF Core
<1>7. CASE Complete
  <2>1. WholeStays /\ Heading({"validating", "level", "ended"})'
    BY <1>7, CompleteFacts DEF Core, WholeStays, Whole, Heading, Sends
  <2>2. QED
    BY <1>1, <1>3, <1>7, <2>1, CompleteFacts, SnapshotTaken DEF Core, SameLevel
<1>8. CASE CollectNext
  <2>1. PICK s \in engine.remaining :
           \/ /\ engine.aborted \/ handle.cancel
              /\ Proceeds("collecting", engine.remaining \ {s}, engine.awaited)
           \/ ~engine.aborted /\ Proceeds("waiting", engine.remaining \ {s}, s)
    BY <1>8, CollectNextFacts DEF Core
  <2>2. /\ UNCHANGED <<definition, results, saved, handle>> /\ SameLevel
        /\ engine.pc = "collecting" /\ engine.awaited = NoStep /\ WholeStays
    BY <1>8, CollectNextFacts DEF Core, EngineSound, Heading, WholeStays, Whole
  <2>3. NextLevel(engine.done)' = NextLevel(engine.done)
    BY <2>2, SameLevels DEF SameLevel
  <2>4. Whole' /\ ~engine'.aborted =>
           \A r \in NextLevel(engine.done) :
              results'[r] # "none" \/ r \in engine'.remaining \/ r = engine'.awaited
    <3>1. ASSUME Whole', ~engine'.aborted
          PROVE  Proceeds("waiting", engine.remaining \ {s}, s)
      BY <2>1, <2>2, <3>1 DEF Whole, SameLevel
    <3>2. \A r \in NextLevel(engine.done) : r \in Steps /\ r # NoStep
      BY Constants DEF NextLevel
    <3>3. QED
      BY <1>2, <2>2, <3>1, <3>2 DEF Proceeds, WholeStays, SameLevel, Heading
  <2>5. QED
    BY <1>1, <2>2, <2>3, <2>4, SnapshotStays DEF SameLevel
<1>9. CASE EndLevel
  <2>1. /\ UNCHANGED <<definition, tasks, results, handle>> /\ saved'.results = results
        /\ engine.pc = "collecting" /\ engine.remaining = {} /\ engine.awaited = NoStep
        /\ WholeStays
    BY <1>9, EndLevelFacts DEF Core, EngineSound, Heading, WholeStays, Whole
  <2>2. Heading({"validating", "level", "ended"})'
    BY <1>9, EndLevelFacts DEF Core, Heading, Proceeds
  <2>3. CASE engine.aborted
    BY <1>1, <1>3, <1>9, <2>1, <2>2, <2>3, EndLevelFacts, SnapshotTaken DEF Core
  <2>4. CASE ~engine.aborted
    <3>1. saved'.done = engine'.done /\ engine'.done = engine.done \cup NextLevel(engine.done)
      BY <1>9, <2>4, EndLevelFacts DEF Core
    <3>2. Whole => \A s \in NextLevel(engine.done) : results[s] # "none"
      <4>1. \A s \in NextLevel(engine.done) : s \in Steps /\ s # NoStep
        BY Constants DEF NextLevel
      <4>2. QED
        BY <1>2, <2>1, <2>4, <4>1 DEF Heading
    <3>3. QED
      BY <1>1, <1>3, <2>1, <2>2, <3>1, <3>2, SnapshotTaken
  <2>5. QED
    BY <2>3, <2>4
<1>10. CASE TakeResult
  <2> PICK a : a = engine.awaited
    OBVIOUS
  <2>1. /\ UNCHANGED <<definition, tasks, saved, handle>> /\ engine'.done = engine.done
        /\ engine.pc = "waiting" /\ a \in Steps /\ WholeStays /\ results[a] = "none"
        /\ engine'.remaining = engine.remaining
    BY <1>10, TakeResultFacts, TakeResultCore
    DEF Core, StepsSound, WholeStays, Whole, Proceeds, Sends
  <2>2. NextLevel(engine.done)' = NextLevel(engine.done)
    BY <2>1, SameLevels
  <2>3. ~engine.aborted /\ ~Heading({"validating", "level", "ended"})
    BY <2>1 DEF Core, EngineSound, Heading
  <2>4. \A s \in Steps \ {a} : results'[s] = results[s]
    BY <1>10, <2>1, TakeResultFacts DEF Core, Records
  <2>5. \/ ~Whole' \/ engine'.aborted \/ results'[a] # "none"
        \/ engine'.awaited = a
    BY <1>10, <2>1, TakeResultFacts DEF Core, Records, Whole, Sends
  <2>6. Whole' /\ ~engine'.aborted =>
           \A s \in NextLevel(engine.done) :
              results'[s] # "none" \/ s \in engine'.remaining \/ s = engine'.awaited
    <3>1. NextLevel(engine.done) \subseteq Steps
      BY DEF NextLevel
    <3>2. QED
      BY <1>2, <2>1, <2>3, <2>4, <2>5, <3>1 DEF WholeStays
  <2>7. QED
    BY <1>1, <2>1, <2>2, <2>4, <2>6, SnapshotStays
<1>11. CASE TimeOutWaiting
  <2>1. WholeStays /\ Heading({"validating", "level", "ended"})'
    BY <1>11, TimeOutWaitingFacts DEF Core, WholeStays, Whole, Heading, Sends
  <2>2. QED
    BY <1>1, <1>3, <1>11, <2>1, TimeOutWaitingFacts, SnapshotTaken DEF Core, SameLevel
<1>12. CASE SavePause
  <2>1. /\ UNCHANGED <<definition, tasks, results, handle>> /\ SameLevel
        /\ engine.pc = "pausing" /\ WholeStays
        /\ engine'.remaining = engine.remaining /\ engine'.awaited = engine.awaited
    BY <1>12, SavePauseFacts DEF Core, WholeStays, Whole, Proceeds, Sends
  <2>2. NextLevel(engine.done)' = NextLevel(engine.done)
    BY <2>1, SameLevels DEF SameLevel
  <2>3. Whole' => \A s \in NextLevel(engine.done) :
           engine.aborted \/ results'[s] # "none" \/ s \in engine'.remaining \/ s = engine'.awaited
    BY <1>2, <2>1 DEF Heading, WholeStays
  <2>4. CASE saved'.done = engine.done /\ saved'.results = results
    BY <1>1, <1>3, <2>1, <2>2, <2>3, <2>4, SnapshotTaken DEF SameLevel
  <2>5. CASE saved' = saved
    BY <1>1, <2>1, <2>2, <2>3, <2>5, SnapshotStays DEF SameLevel
  <2>6. QED
    BY <1>12, <2>4, <2>5, SavePauseFacts DEF Core
<1>13. CASE Decided
  <2> PICK a : a = engine.awaited
    OBVIOUS
  <2>1. /\ UNCHANGED <<definition, tasks, saved>> /\ SameLevel
        /\ handle'.cancel = handle.cancel
        /\ engine.pc = "paused" /\ a \in Steps /\ WholeStays /\ results[a] = "none"
        /\ engine'.remaining = engine.remaining
    BY <1>13, DecidedFacts, DecidedCore DEF Core, StepsSound, WholeStays, Whole, Sends
  <2>2. NextLevel(engine.done)' = NextLevel(engine.done)
    BY <2>1, SameLevels DEF SameLevel
  <2>3. ~Heading({"validating", "level", "ended"})
    BY <2>1 DEF Heading
  <2>4. /\ \A s \in Steps \ {a} : results'[s] = results[s]
        /\ results'[a] # "none" \/ engine'.awaited = a
    BY <1>13, <2>1, DecidedFacts DEF Core, Records, Sends
  <2>5. Whole' /\ ~engine'.aborted =>
           \A s \in NextLevel(engine.done) :
              results'[s] # "none" \/ s \in engine'.remaining \/ s = engine'.awaited
    <3>1. NextLevel(engine.done) \subseteq Steps
      BY DEF NextLevel
    <3>2. QED
      BY <1>2, <2>1, <2>3, <2>4, <3>1 DEF WholeStays, SameLevel
  <2>6. QED
    BY <1>1, <2>1, <2>2, <2>4, <2>5, SnapshotStays DEF SameLevel
<1>14. CASE DropRemaining
  <2>1. WholeStays /\ Heading({"validating", "level", "ended"})'
    BY <1>14, DropRemainingFacts DEF Core, WholeStays, Whole, Heading, Proceeds
  <2>2. QED
    BY <1>1, <1>14, <2>1, DropRemainingFacts, SnapshotStays DEF Core, SameLevel
<1>15. ASSUME UNCHANGED <<definition, results, saved>>, WholeStays,
              Proceeds(engine.pc, engine.remaining, engine.awaited), SameLevel
       PROVE  SnapshotSound'
  <2>1. NextLevel(engine.done)' = NextLevel(engine.done)
    BY <1>15, SameLevels DEF SameLevel
  <2>2. ~Heading({"validating", "level", "ended"})' => ~Heading({"validating", "level", "ended"})
    BY <1>15 DEF Heading, Proceeds
  <2>3. QED
    BY <1>1, <1>2, <1>15, <2>1, <2>2, SnapshotStays DEF SameLevel, WholeStays, Proceeds
<1>16. ASSUME RunUntouched, WholeStays
       PROVE  SnapshotSound'
  BY <1>15, <1>16 DEF RunUntouched, Proceeds, SameLevel, Core, TypeOK
<1>17. CASE Forwarder
  BY <1>16, <1>17, ForwardEventFacts, TakeCommandFacts, LeaveFacts
  DEF Forwarder, Core, RunUntouched, WholeStays, Whole
<1>18. CASE Users
  BY <1>16, <1>18, UsersFacts DEF Core, RunUntouched, WholeStays, Whole
<1>19. CASE DeadlinePasses
  BY <1>15, <1>19, DeadlinePassesFacts DEF Core, WholeStays, Whole
<1>20. ASSUME NEW s \in Steps, TaskEnds(s)
       PROVE  SnapshotSound'
  BY <1>15, <1>20, TaskEndsFacts DEF Core, TypeOK, WholeStays, Whole, Proceeds, SameLevel
<1>21. CASE UNCHANGED vars
  BY <1>16, <1>21 DEF vars, RunUntouched, WholeStays, Whole
<1>22. QED
  BY <1>4, <1>5, <1>6, <1>7, <1>8, <1>9, <1>10, <1>11, <1>12, <1>13, <1>14, <1>17, <1>18, <1>19,
     <1>20, <1>21 DEF Next, Engine

-----------------------------------------------------------------------------
(* The decisions.                                                          *)

\* The channel grows by events of steps, and a pause that was there is there still.
LEMMA DecisionsStay ==
  ASSUME Core, DecisionsSound, Grows, AtPause => AtPause',
         handle'.approvals = handle.approvals, forwarder'.pc = forwarder.pc
  PROVE  DecisionsSound'
<1>1. Len(events) \in Nat /\ Len(events') \in Nat
  BY DEF Core, TypeOK, Grows
<1>2. \A i \in 1 .. Len(events') : events'[i] = "Paused" =>
         i \in 1 .. Len(events) /\ events[i] = "Paused"
  <2>1. \A i \in 1 .. Len(events') : i \in 1 .. Len(events) \/ i \in Len(events) + 1 .. Len(events')
    BY <1>1
  <2>2. \A i \in Len(events) + 1 .. Len(events') : events'[i] # "Paused"
    BY DEF Grows, StepEvent
  <2>3. \A i \in 1 .. Len(events) : events'[i] = events[i]
    BY DEF Grows
  <2>4. QED
    BY <2>1, <2>2, <2>3
<1>3. QED
  BY <1>2 DEF DecisionsSound

\* An engine step that sends no lifecycle event leaves the decisions alone.
LEMMA EngineLeavesDecisions ==
  ASSUME Core, DecisionsSound, Engine, ~SendLifecycle, ~Decided
  PROVE  DecisionsSound'
<1>1. /\ handle' = handle /\ forwarder' = forwarder
      /\ Grows /\ (AtPause => AtPause')
  <2> USE DEF Core
  <2>1. ASSUME events' = events
        PROVE  Grows
    BY <2>1, GrowsFacts
  <2>2. CASE Validate
    BY <2>1, <2>2, ValidateFacts DEF AtPause
  <2>3. CASE StartLevel
    BY <2>1, <2>3, StartLevelFacts DEF AtPause, LevelBegins
  <2>4. CASE Complete
    BY <2>1, <2>4, CompleteFacts DEF AtPause
  <2>5. CASE CollectNext
    BY <2>1, <2>5, CollectNextFacts DEF AtPause
  <2>6. CASE EndLevel
    BY <2>1, <2>6, EndLevelFacts DEF AtPause
  <2>7. CASE TakeResult
    BY <2>7, TakeResultCore, TakeResultFacts DEF AtPause
  <2>8. CASE TimeOutWaiting
    BY <2>1, <2>8, TimeOutWaitingFacts DEF AtPause
  <2>9. CASE SavePause
    BY <2>1, <2>9, SavePauseFacts DEF AtPause, Proceeds, Sends
  <2>10. CASE DropRemaining
    BY <2>1, <2>10, DropRemainingFacts DEF AtPause, Proceeds
  <2>11. QED
    BY <2>2, <2>3, <2>4, <2>5, <2>6, <2>7, <2>8, <2>9, <2>10 DEF Engine
<1>2. QED
  BY <1>1, DecisionsStay

\* Every step keeps the order of pauses and decisions.
LEMMA DecisionsKeeps ==
  ASSUME Core, DecisionsSound, [Next]_vars
  PROVE  DecisionsSound'
<1>1. Len(events) \in Nat /\ Len(handle.approvals) \in Nat
  BY DEF Core, TypeOK
<1>2. CASE Engine /\ ~SendLifecycle /\ ~Decided
  BY <1>2, EngineLeavesDecisions
<1>3. CASE SendLifecycle
  <2>1. engine.pc = "sending" /\ Announces(engine.event, engine.next)
    BY <1>3 DEF SendLifecycle, Core, EngineSound
  <2>2. /\ UNCHANGED <<handle, forwarder>> /\ engine'.pc = engine.next
        /\ \/ events' = events
           \/ /\ Len(events') = Len(events) + 1 /\ events'[Len(events) + 1] = engine.event
              /\ \A i \in 1 .. Len(events) : events'[i] = events[i]
    BY <1>3, <2>1, Announced, SendLifecycleFacts DEF Core
  <2>3. AtPause => AtPause'
    BY <2>1, <2>2 DEF AtPause
  <2>4. CASE events' = events
    BY <2>2, <2>3, <2>4, GrowsFacts, DecisionsStay DEF Core
  <2>5. CASE /\ Len(events') = Len(events) + 1 /\ events'[Len(events) + 1] = engine.event
             /\ \A i \in 1 .. Len(events) : events'[i] = events[i]
    <3>1. \A i \in 1 .. Len(events') : i \in 1 .. Len(events) \/ i = Len(events) + 1
      BY <1>1, <2>5
    <3>2. CASE engine.event = "Paused"
      <4>1. engine.next = "pausing"
        BY <2>1, <3>2, Announced DEF Core, Announces, Terminal
      <4>2. ~AtPause /\ AtPause'
        BY <2>1, <2>2, <4>1 DEF AtPause
      <4>3. \A i \in 1 .. Len(events') : events'[i] = "Paused" => i = Len(events) + 1
        BY <2>5, <3>1, <4>2 DEF DecisionsSound
      <4>4. handle'.approvals = <<>> /\ forwarder'.pc # "deciding"
        BY <2>2, <4>2 DEF DecisionsSound
      <4>5. QED
        BY <4>2, <4>3, <4>4 DEF DecisionsSound
    <3>3. CASE engine.event # "Paused"
      <4>1. \A i \in 1 .. Len(events') : events'[i] = "Paused" =>
               i \in 1 .. Len(events) /\ events[i] = "Paused"
        BY <2>5, <3>1, <3>3
      <4>2. QED
        BY <2>2, <2>3, <4>1 DEF DecisionsSound
    <3>4. QED
      BY <3>2, <3>3
  <2>6. QED
    BY <2>2, <2>4, <2>5
<1>4. CASE Decided
  <2>1. /\ engine.pc = "paused" /\ UNCHANGED <<events, forwarder>>
        /\ \/ /\ handle.approvals = <<>> /\ handle' = handle
              /\ Sends("Failed", "dropping", engine.remaining, engine.awaited)
           \/ handle.approvals # <<>> /\ Len(handle'.approvals) = Len(handle.approvals) - 1
    BY <1>4, DecidedCore, DecidedFacts DEF Core
  <2>2. CASE handle.approvals = <<>>
    <3>1. AtPause' /\ Grows
      BY <2>1, <2>2, GrowsFacts DEF Core, AtPause, Sends
    <3>2. QED
      BY <2>1, <2>2, <3>1, DecisionsStay
  <2>3. CASE handle.approvals # <<>>
    <3>1. /\ \A i \in 1 .. Len(events) : events[i] # "Paused"
          /\ forwarder.pc # "deciding" /\ Len(handle.approvals) = 1
      BY <2>3 DEF DecisionsSound
    <3>2. handle'.approvals = <<>>
      <4>1. TypeOK'
        BY CoreKeeps DEF Core
      <4>2. handle'.approvals \in Seq(Command) /\ Len(handle'.approvals) = 0
        BY <2>1, <2>3, <3>1, <4>1 DEF TypeOK
      <4>3. QED
        BY <4>2, EmptySeq
    <3>3. QED
      BY <2>1, <3>1, <3>2 DEF DecisionsSound
  <2>4. QED
    BY <2>2, <2>3
<1>5. CASE ForwardEvent
  <2>1. /\ UNCHANGED <<engine, handle>> /\ Len(events) >= 1
        /\ forwarder'.pc = "deciding" => events[1] = "Paused"
        /\ Len(events') = Len(events) - 1
        /\ \A i \in 1 .. Len(events') : events'[i] = events[i + 1]
    BY <1>5, ForwardEventFacts DEF Core
  <2>2. AtPause' = AtPause
    BY <2>1 DEF AtPause
  <2>3. \A i \in 1 .. Len(events') : i + 1 \in 1 .. Len(events) /\ i + 1 # 1
    BY <1>1, <2>1
  <2>4. 1 \in 1 .. Len(events)
    BY <1>1, <2>1
  <2>5. forwarder'.pc = "deciding" =>
           /\ AtPause' /\ handle'.approvals = <<>>
           /\ \A i \in 1 .. Len(events') : events'[i] # "Paused"
    BY <2>1, <2>2, <2>3, <2>4 DEF DecisionsSound
  <2>6. \A i \in 1 .. Len(events') : events'[i] = "Paused" =>
           /\ AtPause' /\ handle'.approvals = <<>>
           /\ \A j \in 1 .. Len(events') : events'[j] = "Paused" => i = j
    <3>1. ASSUME NEW i \in 1 .. Len(events'), events'[i] = "Paused"
          PROVE  /\ AtPause' /\ handle'.approvals = <<>>
                 /\ \A j \in 1 .. Len(events') : events'[j] = "Paused" => i = j
      <4>1. events[i + 1] = "Paused" /\ i + 1 \in 1 .. Len(events)
        BY <2>1, <2>3, <3>1
      <4>2. \A j \in 1 .. Len(events') : events'[j] = "Paused" => i + 1 = j + 1
        BY <2>1, <2>3, <4>1 DEF DecisionsSound
      <4>3. QED
        BY <2>1, <2>2, <4>1, <4>2 DEF DecisionsSound
    <3>2. QED
      BY <3>1
  <2>7. handle'.approvals # <<>> => AtPause' /\ Len(handle'.approvals) = 1
    BY <2>1, <2>2 DEF DecisionsSound
  <2>8. QED
    BY <2>5, <2>6, <2>7 DEF DecisionsSound
<1>6. CASE TakeCommand
  <2>1. /\ UNCHANGED <<engine, events>> /\ forwarder'.pc # "deciding"
        /\ \/ handle'.approvals = handle.approvals
           \/ forwarder.pc = "deciding" /\ Len(handle'.approvals) = Len(handle.approvals) + 1
    BY <1>6, TakeCommandFacts DEF Core
  <2>2. AtPause' = AtPause
    BY <2>1 DEF AtPause
  <2>3. CASE handle'.approvals = handle.approvals
    BY <2>1, <2>2, <2>3 DEF DecisionsSound
  <2>4. CASE forwarder.pc = "deciding" /\ Len(handle'.approvals) = Len(handle.approvals) + 1
    <3>1. /\ AtPause /\ handle.approvals = <<>>
          /\ \A i \in 1 .. Len(events) : events[i] # "Paused"
      BY <2>4 DEF DecisionsSound
    <3>2. Len(handle'.approvals) = 1
      BY <2>4, <3>1
    <3>3. QED
      BY <2>1, <2>2, <3>1, <3>2 DEF DecisionsSound
  <2>5. QED
    BY <2>1, <2>3, <2>4
<1>7. CASE Leave
  <2>1. /\ forwarder'.pc = "gone" /\ events' = <<>> /\ engine' = engine
        /\ handle'.approvals = handle.approvals
    BY <1>7, LeaveFacts DEF Core
  <2>2. AtPause' = AtPause /\ \A i : i \notin 1 .. Len(events')
    BY <2>1 DEF AtPause
  <2>3. QED
    BY <2>1, <2>2 DEF DecisionsSound
<1>8. ASSUME UNCHANGED <<events, handle>>, forwarder'.pc = forwarder.pc,
             engine'.pc = engine.pc, engine'.next = engine.next
      PROVE  DecisionsSound'
  BY <1>8 DEF DecisionsSound, AtPause
<1>9. CASE Users \/ UNCHANGED vars
  BY <1>8, <1>9, UsersFacts DEF Core, vars
<1>10. CASE DeadlinePasses
  BY <1>8, <1>10, DeadlinePassesFacts DEF Core, Proceeds
<1>11. ASSUME NEW s \in Steps, TaskEnds(s)
       PROVE  DecisionsSound'
  BY <1>8, <1>11, TaskEndsFacts DEF Core
<1>12. QED
  BY <1>2, <1>3, <1>4, <1>5, <1>6, <1>7, <1>9, <1>10, <1>11 DEF Next, Forwarder, Engine

-----------------------------------------------------------------------------
(* The feed.                                                               *)

\* What was sent last is so still when the channel grows by events of steps.
LEMMA LastSentStays ==
  ASSUME TypeOK, Grows, forwarder'.told = forwarder.told, NEW event, LastSent(event)
  PROVE  LastSent(event)'
<1>1. Len(events) \in Nat /\ Len(events') \in Nat /\ Len(events) =< Len(events')
  BY DEF TypeOK, Grows
<1>2. \A j \in 1 .. Len(events') : j \in 1 .. Len(events) \/ j \in Len(events) + 1 .. Len(events')
  BY <1>1
<1>3. CASE forwarder.told = event /\ \A i \in 1 .. Len(events) : events[i] = StepEvent
  <2>1. \A i \in 1 .. Len(events') : events'[i] = StepEvent
    BY <1>2, <1>3 DEF Grows
  <2>2. QED
    BY <1>3, <2>1 DEF LastSent
<1>4. ASSUME NEW i \in 1 .. Len(events), events[i] = event,
             \A j \in i + 1 .. Len(events) : events[j] = StepEvent
      PROVE  LastSent(event)'
  <2>1. i \in 1 .. Len(events') /\ events'[i] = event
    BY <1>1, <1>4 DEF Grows
  <2>2. \A j \in i + 1 .. Len(events') :
           j \in i + 1 .. Len(events) \/ j \in Len(events) + 1 .. Len(events')
    BY <1>1
  <2>3. \A j \in i + 1 .. Len(events) : events'[j] = events[j]
    BY <1>1 DEF Grows
  <2>4. \A j \in i + 1 .. Len(events') : events'[j] = StepEvent
    BY <1>4, <2>2, <2>3 DEF Grows
  <2>5. QED
    BY <2>1, <2>4 DEF LastSent
<1>5. QED
  BY <1>3, <1>4 DEF LastSent

\* What the engine sends is the last event that was sent.
LEMMA LastSentNow ==
  ASSUME TypeOK, NEW event, Len(events') = Len(events) + 1, events'[Len(events) + 1] = event
  PROVE  LastSent(event)'
<1>1. Len(events) \in Nat
  BY DEF TypeOK
<1>2. Len(events') \in 1 .. Len(events') /\ events'[Len(events')] = event
  BY <1>1
<1>3. \A j \in Len(events') + 1 .. Len(events') : events'[j] = StepEvent
  BY <1>1
<1>4. QED
  BY <1>2, <1>3 DEF LastSent

\* What was sent last is broadcast, or comes nearer to it.
LEMMA LastSentForwarded ==
  ASSUME TypeOK, ForwardEvent, NEW event \in Lifecycle, LastSent(event)
  PROVE  LastSent(event)'
<1>1. /\ Len(events) \in Nat /\ Len(events) >= 1 /\ Len(events') = Len(events) - 1
      /\ forwarder'.told = IF events[1] = StepEvent THEN forwarder.told ELSE events[1]
      /\ \A i \in 1 .. Len(events') : events'[i] = events[i + 1]
  BY ForwardEventFacts DEF TypeOK
<1>2. event # StepEvent
  BY DEF Lifecycle, Terminal, StepEvent
<1>3. \A i \in 1 .. Len(events') : i + 1 \in 1 .. Len(events)
  BY <1>1
<1>4. CASE forwarder.told = event /\ \A i \in 1 .. Len(events) : events[i] = StepEvent
  <2>1. 1 \in 1 .. Len(events)
    BY <1>1
  <2>2. forwarder'.told = event /\ \A i \in 1 .. Len(events') : events'[i] = StepEvent
    BY <1>1, <1>3, <1>4, <2>1
  <2>3. QED
    BY <2>2 DEF LastSent
<1>5. ASSUME NEW i \in 1 .. Len(events), events[i] = event,
             \A j \in i + 1 .. Len(events) : events[j] = StepEvent
      PROVE  LastSent(event)'
  <2>1. CASE i = 1
    <3>1. \A j \in 1 .. Len(events') : j + 1 \in i + 1 .. Len(events)
      BY <1>1, <2>1
    <3>2. forwarder'.told = event /\ \A j \in 1 .. Len(events') : events'[j] = StepEvent
      BY <1>1, <1>2, <1>5, <2>1, <3>1
    <3>3. QED
      BY <3>2 DEF LastSent
  <2>2. CASE i # 1
    <3>1. i - 1 \in 1 .. Len(events') /\ (i - 1) + 1 = i
      BY <1>1, <2>2
    <3>2. \A j \in (i - 1) + 1 .. Len(events') : j \in 1 .. Len(events') /\ j + 1 \in i + 1 .. Len(events)
      BY <1>1, <3>1
    <3>3. events'[i - 1] = event
      BY <1>1, <1>5, <3>1
    <3>4. \A j \in (i - 1) + 1 .. Len(events') : events'[j] = StepEvent
      BY <1>1, <1>5, <3>2
    <3>5. QED
      BY <3>1, <3>3, <3>4 DEF LastSent
  <2>3. QED
    BY <2>1, <2>2
<1>6. QED
  BY <1>4, <1>5 DEF LastSent

\* What is expected is of the life cycle.
LEMMA ExpectedFacts == Expected \subseteq Lifecycle
BY DEF Expected, Lifecycle, Terminal

\* An engine step that sends no lifecycle event is no news to those who follow.
LEMMA EngineLeavesTheFeed ==
  ASSUME Core, FeedSound, Engine, ~SendLifecycle
  PROVE  FeedSound'
<1> USE DEF Core
<1>1. ASSUME events' = events
      PROVE  Grows
  BY <1>1, GrowsFacts
<1>2. /\ Grows /\ forwarder' = forwarder /\ handle'.open = handle.open
      /\ \/ engine'.pc = "sending"
         \/ engine.pc \notin {"validating", "sending"} /\ Expected \subseteq Expected'
  <2>1. CASE Validate
    BY <1>1, <2>1, ValidateFacts DEF Sends
  <2>2. CASE StartLevel
    <3>1. engine.pc = "level" /\ ~engine.aborted
      BY <2>2 DEF StartLevel, EngineSound
    <3>2. CASE LevelBegins
      BY <2>2, <3>1, <3>2, StartLevelFacts DEF LevelBegins, Expected, Proceeds, SameLevel
    <3>3. QED
      BY <1>1, <2>2, <3>2, StartLevelFacts DEF Sends
  <2>3. CASE Complete
    BY <1>1, <2>3, CompleteFacts DEF Sends
  <2>4. CASE CollectNext
    BY <1>1, <2>4, CollectNextFacts DEF Expected, Proceeds, SameLevel
  <2>5. CASE EndLevel
    BY <1>1, <2>5, EndLevelFacts DEF Expected, Proceeds
  <2>6. CASE TakeResult
    <3>1. engine.pc = "waiting" /\ ~engine.aborted
      BY <2>6 DEF TakeResult, EngineSound
    <3>2. /\ Grows /\ UNCHANGED <<forwarder, handle>>
          /\ \/ engine'.pc = "sending"
             \/ engine'.pc = "collecting" /\ SameLevel
      BY <2>6, TakeResultCore, TakeResultFacts DEF Sends, Proceeds
    <3>3. QED
      BY <3>1, <3>2 DEF Expected, SameLevel
  <2>7. CASE TimeOutWaiting
    BY <1>1, <2>7, TimeOutWaitingFacts DEF Sends
  <2>8. CASE SavePause
    <3>1. engine.pc = "pausing" /\ ~engine.aborted
      BY <2>8 DEF SavePause, EngineSound
    <3>2. QED
      BY <1>1, <2>8, <3>1, SavePauseFacts DEF Sends, Expected, Proceeds, SameLevel
  <2>9. CASE Decided
    BY <1>1, <2>9, DecidedCore, DecidedFacts DEF Sends
  <2>10. CASE DropRemaining
    <3>1. engine.pc = "dropping" /\ ~engine.aborted
      BY <2>10 DEF DropRemaining, EngineSound
    <3>2. QED
      BY <1>1, <2>10, <3>1, DropRemainingFacts DEF Expected, Proceeds, SameLevel, Terminal
  <2>11. QED
    BY <2>1, <2>2, <2>3, <2>4, <2>5, <2>6, <2>7, <2>8, <2>9, <2>10 DEF Engine
<1>3. CASE engine'.pc = "sending"
  BY <1>3 DEF FeedSound
<1>4. CASE engine.pc \notin {"validating", "sending"} /\ Expected \subseteq Expected'
  <2>1. SUFFICES ASSUME handle.open
                 PROVE  \E event \in Expected' : LastSent(event)'
    BY <1>2 DEF FeedSound
  <2>2. PICK event \in Expected : LastSent(event)
    BY <1>4, <2>1 DEF FeedSound
  <2>3. LastSent(event)'
    BY <1>2, <2>2, LastSentStays
  <2>4. QED
    BY <1>4, <2>2, <2>3
<1>5. QED
  BY <1>2, <1>3, <1>4

\* Every step keeps the feed.
LEMMA FeedKeeps ==
  ASSUME Core, FeedSound, [Next]_vars
  PROVE  FeedSound'
<1> USE DEF Core
<1>1. CASE Engine /\ ~SendLifecycle
  BY <1>1, EngineLeavesTheFeed
<1>2. CASE SendLifecycle
  <2>1. engine.pc = "sending" /\ Announces(engine.event, engine.next)
    BY <1>2 DEF SendLifecycle, EngineSound
  <2>2. /\ handle' = handle /\ SameLevel /\ engine'.pc = engine.next
        /\ handle.open => /\ Len(events') = Len(events) + 1
                          /\ events'[Len(events) + 1] = engine.event
    BY <1>2, <2>1, Announced, SendLifecycleFacts
  <2>3. engine.event \in Expected'
    BY <2>1, <2>2, Announced DEF Announces, Expected, SameLevel, EngineSound
  <2> PICK event : event = engine.event
    OBVIOUS
  <2>4. handle.open => LastSent(event)'
    BY <2>2, LastSentNow
  <2>5. QED
    BY <2>2, <2>3, <2>4 DEF FeedSound
<1>3. ASSUME UNCHANGED events, forwarder'.told = forwarder.told, handle'.open = handle.open,
             engine'.pc = engine.pc, engine'.aborted = engine.aborted
      PROVE  FeedSound'
  BY <1>3 DEF FeedSound, Expected, LastSent
<1>4. CASE TakeCommand \/ Users \/ UNCHANGED vars
  BY <1>3, <1>4, TakeCommandFacts, UsersFacts DEF vars
<1>5. CASE DeadlinePasses
  BY <1>3, <1>5, DeadlinePassesFacts DEF Proceeds, SameLevel
<1>6. ASSUME NEW s \in Steps, TaskEnds(s)
      PROVE  FeedSound'
  BY <1>3, <1>6, TaskEndsFacts
<1>7. CASE Leave
  BY <1>7, LeaveFacts DEF FeedSound
<1>8. CASE ForwardEvent
  <2>1. UNCHANGED <<engine, handle>>
    BY <1>8, ForwardEventFacts
  <2>2. Expected' = Expected
    BY <2>1 DEF Expected
  <2>3. \A event \in Expected : LastSent(event) => LastSent(event)'
    BY <1>8, ExpectedFacts, LastSentForwarded
  <2>4. QED
    BY <2>1, <2>2, <2>3 DEF FeedSound
<1>9. QED
  BY <1>1, <1>2, <1>4, <1>5, <1>6, <1>7, <1>8 DEF Next, Forwarder

-----------------------------------------------------------------------------
(* What is turned down.                                                    *)

\* Nothing changes the definition of a run.
LEMMA DefinitionStays ==
  ASSUME [Next]_vars
  PROVE  definition' = definition
BY DEF Next, Engine, Forwarder, Users, Validate, SendLifecycle, StartLevel, Complete, CollectNext,
       EndLevel, TakeResult, TimeOutWaiting, SavePause, Decided, DropRemaining, ForwardEvent,
       TakeCommand, Leave, CancelRun, ApproveRun, DeadlinePasses, TaskEnds, vars

\* Whether a definition can be run is a matter of the definition.
LEMMA BuildsStays ==
  ASSUME definition' = definition
  PROVE  Builds' = Builds
BY DEF Builds, Placed, NextLevel, Released, Unresolved

\* A run that was turned down stays so; one that has begun is not turned down.
LEMMA RefusalStays ==
  ASSUME RefusalSound, definition' = definition, SameLevel, engine.pc # "validating",
         \A s \in Steps : tasks[s] # "none" => tasks'[s] # "none",
         Heading({"ended"}) => /\ Heading({"ended"})'
                               /\ \A s \in Steps : tasks[s] = "none" => tasks'[s] = "none",
         \/ saved'.state = saved.state
         \/ ~Heading({"ended"}) /\ (saved'.state = "Failed" => engine.aborted)
  PROVE  RefusalSound'
<1>1. Builds' = Builds
  BY BuildsStays
<1>2. CASE definition.inputs /\ Builds
  BY <1>1, <1>2 DEF RefusalSound, SameLevel
<1>3. CASE ~(definition.inputs /\ Builds)
  BY <1>1, <1>3 DEF RefusalSound, SameLevel
<1>4. QED
  BY <1>2, <1>3

\* Every step keeps what was decided of the definition.
LEMMA RefusalKeeps ==
  ASSUME Core, RefusalSound, [Next]_vars
  PROVE  RefusalSound'
<1> USE DEF Core
<1>1. definition' = definition /\ Builds' = Builds
  BY DefinitionStays, BuildsStays
<1>2. CASE Validate
  <2>1. /\ engine.pc = "validating" /\ engine.done = {} /\ ~engine.aborted
        /\ UNCHANGED tasks /\ SameLevel
    BY <1>2, ValidateFacts DEF EngineSound
  <2>2. CASE definition.inputs /\ Builds
    <3>1. saved' = saved
      BY <1>2, <2>2, ValidateFacts
    <3>2. QED
      BY <1>1, <2>1, <2>2, <3>1 DEF RefusalSound, SameLevel
  <2>3. CASE ~(definition.inputs /\ Builds)
    <3>1. saved'.state = "Failed" /\ Heading({"ended"})'
      BY <1>2, <2>3, ValidateFacts DEF Heading, Sends
    <3>2. QED
      BY <1>1, <2>1, <2>3, <3>1 DEF RefusalSound, SameLevel
  <2>4. QED
    BY <2>2, <2>3
<1>3. CASE SendLifecycle
  <2>1. engine.pc = "sending"
    BY <1>3 DEF SendLifecycle
  <2>2. /\ SameLevel /\ UNCHANGED <<tasks, saved>> /\ engine'.pc = engine.next
    BY <1>3, <2>1, Announced, SendLifecycleFacts
  <2>3. QED
    BY <1>1, <2>1, <2>2, RefusalStays DEF Heading
<1>4. CASE StartLevel
  <2>1. engine.pc = "level" /\ SameLevel
    BY <1>4, StartLevelFacts
  <2>2. /\ \A s \in Steps : tasks[s] # "none" => tasks'[s] # "none"
        /\ saved'.state \in {saved.state, "TimedOut"}
    BY <1>4, StartLevelFacts DEF LevelBegins
  <2>3. QED
    BY <1>1, <2>1, <2>2, RefusalStays DEF Heading
<1>5. CASE Complete
  BY <1>1, <1>5, CompleteFacts, RefusalStays DEF Heading
<1>6. CASE CollectNext
  BY <1>1, <1>6, CollectNextFacts, RefusalStays DEF Heading
<1>7. CASE EndLevel
  <2>1. /\ engine.pc = "collecting" /\ engine'.aborted = engine.aborted /\ UNCHANGED tasks
        /\ saved'.state = "Failed" => engine.aborted
    BY <1>7, EndLevelFacts
  <2>2. definition.inputs /\ Builds
    BY <2>1 DEF RefusalSound, Heading
  <2>3. QED
    BY <1>1, <2>1, <2>2 DEF RefusalSound
<1>8. CASE TakeResult
  <2>1. /\ engine.pc = "waiting" /\ UNCHANGED <<tasks, saved>> /\ engine.awaited \in Steps
        /\ tasks[engine.awaited] # "none"
    BY <1>8, TakeResultCore, TakeResultFacts
  <2>2. definition.inputs /\ Builds
    BY <2>1 DEF RefusalSound, Heading
  <2>3. saved.state = "Failed" => engine.aborted
    BY <2>2 DEF RefusalSound
  <2>4. ~engine.aborted
    BY <2>1 DEF EngineSound
  <2>5. QED
    BY <1>1, <2>1, <2>2, <2>3, <2>4 DEF RefusalSound
<1>9. CASE TimeOutWaiting
  BY <1>1, <1>9, TimeOutWaitingFacts, RefusalStays DEF Heading
<1>10. CASE SavePause
  <2>1. /\ engine.pc = "pausing" /\ SameLevel /\ UNCHANGED tasks
        /\ saved'.state \in {saved.state, "Paused"}
    BY <1>10, SavePauseFacts
  <2>2. QED
    BY <1>1, <2>1, RefusalStays DEF Heading
<1>11. CASE Decided
  <2>1. engine.pc = "paused" /\ SameLevel /\ UNCHANGED <<tasks, saved>>
    BY <1>11, DecidedCore, DecidedFacts
  <2>2. QED
    BY <1>1, <2>1, RefusalStays DEF Heading
<1>12. CASE DropRemaining
  BY <1>1, <1>12, DropRemainingFacts, RefusalStays DEF Heading
<1>13. ASSUME UNCHANGED <<engine, tasks, saved>>
       PROVE  RefusalSound'
  BY <1>1, <1>13 DEF RefusalSound, Heading
<1>14. CASE Forwarder \/ Users \/ UNCHANGED vars
  BY <1>13, <1>14, ForwarderLeavesTheRun DEF RunUntouched, vars
<1>15. CASE DeadlinePasses
  <2>1. /\ engine.pc # "validating" /\ SameLevel /\ UNCHANGED <<tasks, saved>>
        /\ engine'.pc = engine.pc /\ engine'.next = engine.next
    BY <1>15, DeadlinePassesFacts DEF DeadlinePasses, Proceeds
  <2>2. QED
    BY <1>1, <2>1, RefusalStays DEF Heading
<1>16. ASSUME NEW s \in Steps, TaskEnds(s)
       PROVE  RefusalSound'
  <2>1. /\ UNCHANGED <<engine, saved>>
        /\ \A r \in Steps : tasks'[r] = "none" <=> tasks[r] = "none"
    BY <1>16, TaskEndsFacts
  <2>2. QED
    BY <1>1, <2>1 DEF RefusalSound, Heading
<1>17. QED
  BY <1>2, <1>3, <1>4, <1>5, <1>6, <1>7, <1>8, <1>9, <1>10, <1>11, <1>12, <1>14, <1>15, <1>16
  DEF Next, Engine

-----------------------------------------------------------------------------
(* The invariant, and what it says.                                        *)

\* It holds before the first step.
LEMMA InitInv ==
  ASSUME Init
  PROVE  Inv
<1>1. Core
  BY InitCore
<1>2. SnapshotSound
  BY DEF Init, SnapshotSound, SnapshotsAreTrue, Heading
<1>3. DecisionsSound
  <2>1. events = <<>> /\ handle.approvals = <<>> /\ forwarder.pc # "deciding"
    BY DEF Init
  <2>2. QED
    BY <2>1 DEF DecisionsSound
<1>4. FeedSound
  BY DEF Init, FeedSound
<1>5. RefusalSound
  BY DEF Init, RefusalSound
<1>6. QED
  BY <1>1, <1>2, <1>3, <1>4, <1>5 DEF Inv, Core

\* It is kept by every step.
LEMMA InvKeeps ==
  ASSUME Inv, [Next]_vars
  PROVE  Inv'
BY CoreKeeps, SnapshotKeeps, DecisionsKeeps, FeedKeeps, RefusalKeeps DEF Inv, Core

\* Where the engine is, what has begun, what is saved, decided and told: the invariant
\* of the run (engine.rs:run, active.rs).
THEOREM WorkflowInvariant == Spec => []Inv
<1>1. Init => Inv
  BY InitInv
<1>2. Inv /\ [Next]_vars => Inv'
  BY InvKeeps
<1>3. QED
  BY <1>1, <1>2, PTL DEF Spec

\* Every variable keeps its type, and the event channel its capacity.
THEOREM WorkflowTypeOK == Spec => []TypeOK
<1>1. Inv => TypeOK
  BY DEF Inv
<1>2. QED
  BY <1>1, WorkflowInvariant, PTL

\* A snapshot holds results the run has, and one for every step it counts as done
\* (persistence.rs:56-61), however the levels, pauses and deadlines fall.
THEOREM SnapshotsStayTrue == Spec => []SnapshotsAreTrue
<1>1. Inv => SnapshotsAreTrue
  BY DEF Inv, SnapshotSound
<1>2. QED
  BY <1>1, WorkflowInvariant, PTL

\* A decision that is passed on is for the pause the engine is at: none is left over for
\* a later one (active.rs:133).
THEOREM DecisionsAnswerTheirPause == Spec => []NoDecisionIsLeft
<1>1. Inv => NoDecisionIsLeft
  BY DEF Inv, DecisionsSound, NoDecisionIsLeft, AtPause, EngineSound, Announces
<1>2. QED
  BY <1>1, WorkflowInvariant, PTL

\* Lifecycle events are not lost (engine.rs:78-82): with the channel read empty, the last
\* one that was broadcast says where the engine is.
THEOREM FeedTellsTheRun == Spec => []FeedFollowsTheRun
<1>1. Inv => FeedFollowsTheRun
  <2>1. SUFFICES ASSUME Inv, handle.open, events = <<>>, engine.pc \notin {"validating", "sending"}
                 PROVE  forwarder.told \in Expected
    BY DEF FeedFollowsTheRun, Expected
  <2>2. \A event : LastSent(event) => forwarder.told = event
    BY <2>1 DEF LastSent
  <2>3. QED
    BY <2>1, <2>2 DEF Inv, FeedSound
<1>2. QED
  BY <1>1, WorkflowInvariant, PTL

\* A definition is turned down if and only if it names an unknown step or has a cycle
\* (dag.rs:12-15): for every graph, Kahn's levels leave nobody out but for a cycle.
THEOREM OnlyTheCyclicAreTurnedDown == Spec => []TurnsDownTheCyclic
<1>1. Inv => TurnsDownTheCyclic
  <2>1. SUFFICES ASSUME Inv, engine.pc # "validating", definition.inputs
                 PROVE  (Cyclic \/ Unknown) =
                          (saved.state = "Failed" /\ engine.done = {}
                             /\ \A s \in Steps : tasks[s] = "none")
    BY DEF TurnsDownTheCyclic
  <2>2. Builds <=> ~Cyclic /\ ~Unknown
    BY <2>1, BuildsFacts DEF Inv, TypeOK
  <2>3. CASE Builds
    BY <2>1, <2>2, <2>3 DEF Inv, RefusalSound
  <2>4. CASE ~Builds
    BY <2>1, <2>2, <2>4 DEF Inv, RefusalSound
  <2>5. QED
    BY <2>3, <2>4
<1>2. QED
  BY <1>1, WorkflowInvariant, PTL

\* The engine implements WorkflowRun: whatever the definition, no step begins before what it
\* depends on is over, twice, at a pause or after the end (engine.rs:run).
THEOREM RunKeepsThePromise == Spec => KeepsThePromise
<1>1. Init => Core /\ Promise!Init
  BY InitCore, InitPromised
<1>2. Core /\ [Next]_vars => Core'
  BY CoreKeeps DEF Core
<1>3. Core /\ [Next]_vars => [Promise!Next]_(Promise!vars)
  BY NextPromised DEF Promised
<1>4. QED
  BY <1>1, <1>2, <1>3, PTL DEF Spec, KeepsThePromise, Promise!Spec

=============================================================================
