--------------------------- MODULE PecoRunsProofs ----------------------------
(***************************************************************************)
(* What PecoRuns says of runs, messages, flags and histories holds for any *)
(* connections, any number of runs, messages and requests, and channels of *)
(* any capacity.                                                           *)
(*                                                                         *)
(* Most of it rests on one condition: that no run lost its entry to the    *)
(* guard of another (Undisturbed).  Then the run whose entry is registered *)
(* is the only one that is built or runs, whoever listens to it keeps it   *)
(* from leaving, and what its loop has sent but the runner not read yet    *)
(* makes the difference between the loop and the flags.                    *)
(***************************************************************************)
EXTENDS PecoRuns, SequenceTheorems, TLAPS

-----------------------------------------------------------------------------
(* Types.                                                                  *)

Messages == 1 .. MaxMessages

Command == [kind : {"query"}, message : Messages] \cup [kind : Control, message : {NoMessage}]

Event == [kind : {"state"}, to : {"Idle", "Busy", "Paused"}]
         \cup [kind : {"turnStart"}, input : SUBSET Messages] \cup [kind : {"turnComplete"}]

FlagsType == [inFlight : BOOLEAN, input : SUBSET Messages, paused : BOOLEAN]

RunnerType ==
    [phase : {"none", "building", "running", "failing", "leaving", "gone"},
     control : Seq(Command), initial : Messages \cup {NoMessage},
     idle : BOOLEAN, woken : BOOLEAN, flags : FlagsType]

LooperType ==
    [state : {"none", "Idle", "Busy", "Paused", "gone"}, inbox : Seq(Command),
     pending : SUBSET Messages, armed : BOOLEAN, turn : SUBSET Messages, events : Seq(Event),
     history : SUBSET Messages, closed : BOOLEAN, latch : BOOLEAN]

ClientType ==
    [pc : {"out", "subscribed", "awaiting", "register", "registered", "building", "watching",
           "deaf", "ending"},
     message : Messages \cup {NoMessage}, tries : Nat, run : Runs \cup {NoRun},
     rx : Runs \cup {NoRun}, unread : BOOLEAN, sent : SUBSET Messages]

SeenType ==
    [struck : SUBSET Runs, died : SUBSET Runs, dropped : SUBSET Runs, stale : BOOLEAN,
     stopped : SUBSET (Messages \cup {NoMessage}), astray : SUBSET Messages]

TypeOK ==
    /\ registry \in Runs \cup {NoRun}
    /\ runs \in [Runs -> RunnerType]
    /\ loopers \in [Runs -> LooperType]
    /\ clients \in [Clients -> ClientType]
    /\ store \in SUBSET Messages
    /\ clear \in [pc : {"none", "waiting", "deleting"}, followUp : BOOLEAN]
    /\ used \in [messages : 0 .. MaxMessages, orders : 0 .. MaxOrders, pausing : BOOLEAN]
    /\ seen \in SeenType

-----------------------------------------------------------------------------
(* The inductive invariant.                                                *)

\* No run lost its entry to another one's guard, ...
Undisturbed == seen.struck = {}

\* ... and no loop panicked.
Orderly == Undisturbed /\ seen.died = {}

Builds(c) == clients[c].pc \in {"registered", "building"}

Subscribed == {"subscribed", "awaiting", "building", "watching", "deaf", "ending"}

Trying == {"subscribed", "awaiting", "register"}

\* A connection that builds a run has it registered; one that has a receiver has it of a run.
ClientSound(c) ==
    LET client == clients[c]
    IN  /\ Builds(c) => /\ client.run # NoRun /\ runs[client.run].phase = "building"
                        /\ client.message # NoMessage
                        /\ runs[client.run].initial = client.message
        /\ client.pc \in Subscribed => client.rx # NoRun
        /\ Undisturbed /\ client.pc = "building" => client.rx = client.run
        /\ client.pc \in Trying => client.tries # 0
        /\ client.sent # {} => client.pc = "watching"

ClientsSound ==
    /\ \A c \in Clients : ClientSound(c)
    /\ \A c, d \in Clients : Builds(c) /\ Builds(d) /\ clients[c].run = clients[d].run => c = d

\* A run and its loop, by what became of the run.
RunSound(r) ==
    LET l == loopers[r]
    IN  /\ runs[r].phase = "none" => runs[r] = NewRunner
        /\ runs[r].phase \in {"none", "building", "failing"} => l = NewLooper
        /\ runs[r].phase = "running" => l.state # "none"
        /\ l.closed => runs[r].phase = "gone"
        /\ l.state \in {"none", "Idle"} => l.turn = {}
        /\ l.state \in {"Busy", "Paused"} => l.turn # {}
        /\ l.state = "gone" => l.closed \/ r \in seen.died

RunsSound == \A r \in Runs : RunSound(r)

\* The entry of a run that leaves is removed before.
EntryStands == Orderly /\ Registered => runs[registry].phase # "leaving"

\* A run somebody listens to does not leave.
Listened(c) ==
    Orderly /\ clients[c].rx # NoRun =>
        runs[clients[c].rx].phase # "leaving" /\ ~loopers[clients[c].rx].closed

\* Accepted messages are with the run their sender listens to.
Arrived(c) ==
    Orderly /\ clients[c].sent # {} =>
        clients[c].sent \subseteq Kept(clients[c].rx) \cup seen.stopped \cup seen.astray

Listening == \A c \in Clients : Listened(c) /\ Arrived(c)

\* A run that may still add to the saved history; there is one at most, and what is
\* saved is part of its history.
Live(r) == runs[r].phase = "running" \/ AtWork(loopers[r])

HistorySound ==
    Undisturbed /\ ~seen.stale =>
        /\ \A r, q \in Runs : Live(r) /\ Live(q) => r = q
        /\ \A r \in Runs : Live(r) => store \subseteq loopers[r].history

\* The flags of an entry are those of a new one until its run is built.
NewFlags == Undisturbed => \A r \in Runs : runs[r].phase = "building" => runs[r].flags = FreshFlags

TellsState(event) == event.kind = "state"
TellsInput(event) == event.kind = "turnStart" \/ (event.kind = "state" /\ event.to = "Idle")

\* The last event that tells a state tells that of the loop, and if no such event is left
\* to read, the flags do: unless the loop is new, and nothing was sent yet.
StateTold(events, state, flags) ==
    /\ \A i \in DOMAIN events :
          TellsState(events[i]) /\ (\A j \in DOMAIN events : j > i => ~TellsState(events[j]))
          => events[i].to = state
    /\ (\A i \in DOMAIN events : ~TellsState(events[i])) =>
          \/ flags.inFlight = (state # "Idle") /\ flags.paused = (state = "Paused")
          \/ flags = FreshFlags /\ state = "Idle" /\ events = <<>>

\* The same for the input of a turn.
InputTold(events, turn, flags) ==
    /\ \A i \in DOMAIN events :
          TellsInput(events[i]) /\ (\A j \in DOMAIN events : j > i => ~TellsInput(events[j]))
          => IF events[i].kind = "turnStart"
             THEN events[i].input \subseteq turn /\ events[i].input # {}
             ELSE turn = {}
    /\ (\A i \in DOMAIN events : ~TellsInput(events[i])) =>
          flags.input \subseteq turn /\ (flags.input = {}) = (turn = {})

\* A runner that heard all there was to hear knows what its loop is at.
FeedSound(r) ==
    LET l == loopers[r]
        flags == runs[r].flags
    IN  Undisturbed /\ runs[r].phase = "running" /\ r \notin seen.dropped /\ l.state # "gone" =>
          StateTold(l.events, l.state, flags) /\ InputTold(l.events, l.turn, flags)

FeedsSound == \A r \in Runs : FeedSound(r)

Inv ==
    /\ TypeOK /\ OneRunIsVisible
    /\ ClientsSound /\ RunsSound /\ EntryStands /\ Listening
    /\ HistorySound /\ NewFlags /\ FeedsSound

-----------------------------------------------------------------------------
(* Records and sequences.                                                  *)

\* A number for a run is none for no run.
LEMMA RunNumbers ==
  /\ NoRun \notin Runs
  /\ NoMessage \notin Messages
  /\ \A r \in Runs : r # NoRun
BY DEF Runs, NoRun, Messages, NoMessage

\* What TypeOK says of one run and one connection.
LEMMA Types ==
  ASSUME TypeOK
  PROVE  /\ \A r \in Runs : runs[r] \in RunnerType /\ loopers[r] \in LooperType
         /\ \A c \in Clients : clients[c] \in ClientType
BY DEF TypeOK

\* New records have the types.
LEMMA NewTypes ==
  /\ FreshFlags \in FlagsType
  /\ NewRunner \in RunnerType
  /\ NewLooper \in LooperType
  /\ NewClient \in ClientType
<1>1. FreshFlags \in FlagsType
  BY DEF FreshFlags, FlagsType
<1>2. <<>> \in Seq(Command) /\ <<>> \in Seq(Event)
  OBVIOUS
<1>3. NewRunner \in RunnerType
  BY <1>1, <1>2 DEF NewRunner, RunnerType
<1>4. NewLooper \in LooperType
  BY <1>2 DEF NewLooper, LooperType
<1>5. NewClient \in ClientType
  BY DEF NewClient, ClientType
<1>6. QED
  BY <1>1, <1>3, <1>4, <1>5

\* Requests and queries are commands.
LEMMA Commands ==
  /\ \A m \in Messages : Query(m) \in Command /\ Query(m).message = m /\ Query(m).kind = "query"
  /\ \A kind \in Control : Order(kind) \in Command /\ Order(kind).message = NoMessage
BY DEF Query, Order, Command, Control

\* The messages that wait in a channel, as commands come and go.
LEMMA WaitingFacts ==
  ASSUME NEW s \in Seq(Command)
  PROVE  /\ WaitingIn(s) \subseteq Messages \cup {NoMessage}
         /\ \A k \in Command : /\ Append(s, k) \in Seq(Command)
                               /\ WaitingIn(Append(s, k)) = WaitingIn(s) \cup {k.message}
         /\ s # <<>> => /\ Head(s) \in Command /\ Tail(s) \in Seq(Command)
                        /\ WaitingIn(s) = {Head(s).message} \cup WaitingIn(Tail(s))
<1>1. \A k \in Command : k.message \in Messages \cup {NoMessage}
  BY DEF Command
<1>2. \A i \in DOMAIN s : s[i] \in Command
  BY ElementOfSeq
<1>3. WaitingIn(s) \subseteq Messages \cup {NoMessage}
  BY <1>1, <1>2 DEF WaitingIn
<1>4. ASSUME NEW k \in Command
      PROVE  Append(s, k) \in Seq(Command) /\ WaitingIn(Append(s, k)) = WaitingIn(s) \cup {k.message}
  <2>1. /\ Append(s, k) \in Seq(Command) /\ Len(Append(s, k)) = Len(s) + 1
        /\ \A i \in 1 .. Len(s) : Append(s, k)[i] = s[i]
        /\ Append(s, k)[Len(s) + 1] = k
    BY AppendProperties
  <2>2. Len(s) \in Nat /\ DOMAIN s = 1 .. Len(s) /\ DOMAIN Append(s, k) = 1 .. Len(s) + 1
    BY <2>1, LenProperties
  <2>3. ASSUME NEW m \in WaitingIn(Append(s, k)) PROVE m \in WaitingIn(s) \cup {k.message}
    <3>1. PICK i \in 1 .. Len(s) + 1 : m = Append(s, k)[i].message
      BY <2>2, <2>3 DEF WaitingIn
    <3>2. i \in 1 .. Len(s) \/ i = Len(s) + 1
      BY <2>2
    <3>3. QED
      BY <2>1, <2>2, <3>1, <3>2 DEF WaitingIn
  <2>4. ASSUME NEW m \in WaitingIn(s) PROVE m \in WaitingIn(Append(s, k))
    <3>1. PICK i \in 1 .. Len(s) : m = s[i].message
      BY <2>2, <2>4 DEF WaitingIn
    <3>2. i \in 1 .. Len(s) + 1 /\ Append(s, k)[i] = s[i]
      BY <2>1, <2>2
    <3>3. QED
      BY <2>2, <3>1, <3>2 DEF WaitingIn
  <2>5. k.message \in WaitingIn(Append(s, k))
    <3>1. Len(s) + 1 \in 1 .. Len(s) + 1
      BY <2>2
    <3>2. QED
      BY <2>1, <2>2, <3>1 DEF WaitingIn
  <2>6. QED
    BY <2>1, <2>3, <2>4, <2>5
<1>5. ASSUME s # <<>>
      PROVE  /\ Head(s) \in Command /\ Tail(s) \in Seq(Command)
             /\ WaitingIn(s) = {Head(s).message} \cup WaitingIn(Tail(s))
  <2>1. /\ Head(s) \in Command /\ Tail(s) \in Seq(Command) /\ Len(Tail(s)) = Len(s) - 1
        /\ \A i \in 1 .. Len(Tail(s)) : Tail(s)[i] = s[i + 1]
    BY <1>5, HeadTailProperties
  <2>2. Len(s) \in Nat /\ Len(s) # 0 /\ DOMAIN s = 1 .. Len(s) /\ DOMAIN Tail(s) = 1 .. Len(s) - 1
    BY <1>5, <2>1, LenProperties, EmptySeq
  <2>3. Head(s) = s[1]
    BY <1>5
  <2>4. ASSUME NEW m \in WaitingIn(s) PROVE m \in {Head(s).message} \cup WaitingIn(Tail(s))
    <3>1. PICK i \in 1 .. Len(s) : m = s[i].message
      BY <2>2, <2>4 DEF WaitingIn
    <3>2. CASE i = 1
      BY <2>3, <3>1, <3>2
    <3>3. CASE i # 1
      <4>1. i - 1 \in 1 .. Len(s) - 1 /\ (i - 1) + 1 = i
        BY <2>2, <3>3
      <4>2. Tail(s)[i - 1] = s[i]
        BY <2>1, <4>1
      <4>3. QED
        BY <2>2, <3>1, <4>1, <4>2 DEF WaitingIn
    <3>4. QED
      BY <3>2, <3>3
  <2>5. ASSUME NEW m \in WaitingIn(Tail(s)) PROVE m \in WaitingIn(s)
    <3>1. PICK i \in 1 .. Len(s) - 1 : m = Tail(s)[i].message
      BY <2>2, <2>5 DEF WaitingIn
    <3>2. i + 1 \in 1 .. Len(s) /\ Tail(s)[i] = s[i + 1]
      BY <2>1, <2>2
    <3>3. QED
      BY <2>2, <3>1, <3>2 DEF WaitingIn
  <2>6. Head(s).message \in WaitingIn(s)
    <3>1. 1 \in 1 .. Len(s)
      BY <2>2
    <3>2. QED
      BY <2>2, <2>3, <3>1 DEF WaitingIn
  <2>7. QED
    BY <2>1, <2>4, <2>5, <2>6
<1>6. QED
  BY <1>3, <1>4, <1>5

\* Messages a loop has, and those on their way to it.
Held(l) ==
    l.history \cup (IF l.state = "gone" THEN {} ELSE l.turn \cup l.pending \cup WaitingIn(l.inbox))

OnTheWay(q) ==
    IF q.phase \in Active \cup {"failing"} THEN {q.initial} \cup WaitingIn(q.control) ELSE {}

\* Together they are the messages that are kept.
LEMMA KeptParts ==
  \A r \in Runs : Kept(r) = Held(loopers[r]) \cup OnTheWay(runs[r])
BY DEF Kept, Held, OnTheWay

-----------------------------------------------------------------------------
(* Steps that leave the runs as they are, as far as the invariant tells.   *)

Stays(q) ==
    /\ runs'[q].phase = runs[q].phase
    /\ runs'[q].initial = runs[q].initial
    /\ Undisturbed' => runs'[q].flags = runs[q].flags
    /\ runs[q].phase = "none" => runs'[q] = runs[q]
    /\ WaitingIn(runs[q].control) \subseteq WaitingIn(runs'[q].control)

RunsStay == \A q \in Runs : Stays(q)

SameHistory ==
    /\ seen'.struck = seen.struck /\ seen'.died = seen.died
    /\ seen'.dropped = seen.dropped /\ seen'.stale = seen.stale
    /\ seen.stopped \subseteq seen'.stopped /\ seen.astray \subseteq seen'.astray

\* The part of the invariant that is about runs.
RunPart ==
    OneRunIsVisible /\ RunsSound /\ EntryStands /\ HistorySound /\ NewFlags /\ FeedsSound

\* A command that is sent stays to be read, by the run that is registered.
LEMMA SentFacts ==
  ASSUME TypeOK, OneRunIsVisible, HasRoom, NEW k \in Command, runs' = Sent(k)
  PROVE  /\ runs' \in [Runs -> RunnerType]
         /\ RunsStay
         /\ registry \in Runs /\ runs[registry].phase \notin {"none", "failing", "gone"}
         /\ k.message \in WaitingIn(runs'[registry].control)
<1>1. registry \in Runs /\ runs[registry].phase \notin {"none", "failing", "gone"}
  BY DEF HasRoom, Accepts, Registered, TypeOK, OneRunIsVisible
<1>2. \A q \in Runs : runs[q] \in RunnerType
  BY Types
<1>3. PICK more : more = Append(runs[registry].control, k)
  OBVIOUS
<1>4. runs[registry].control \in Seq(Command)
  BY <1>1, <1>2 DEF RunnerType
<1>5. more \in Seq(Command) /\ WaitingIn(more) = WaitingIn(runs[registry].control) \cup {k.message}
  BY <1>3, <1>4, WaitingFacts
<1>6. runs' = [runs EXCEPT ![registry].control = more]
  BY <1>3 DEF Sent
<1>7. /\ \A q \in Runs \ {registry} : runs'[q] = runs[q]
      /\ runs'[registry] = [runs[registry] EXCEPT !.control = more]
  BY <1>1, <1>6 DEF TypeOK
<1>8. runs'[registry] \in RunnerType
  BY <1>1, <1>2, <1>5, <1>7 DEF RunnerType
<1>9. runs' \in [Runs -> RunnerType]
  BY <1>1, <1>2, <1>6, <1>7, <1>8 DEF TypeOK
<1>10. /\ runs'[registry].phase = runs[registry].phase /\ runs'[registry].initial = runs[registry].initial
       /\ runs'[registry].flags = runs[registry].flags /\ runs'[registry].control = more
  BY <1>1, <1>2, <1>7 DEF RunnerType
<1>11. RunsStay
  BY <1>1, <1>5, <1>7, <1>10 DEF RunsStay, Stays
<1>12. QED
  BY <1>1, <1>5, <1>9, <1>10, <1>11

\* A wake-up changes nothing but what it wakes.
LEMMA NotifiedFacts ==
  ASSUME TypeOK, runs' = Notified
  PROVE  runs' \in [Runs -> RunnerType] /\ RunsStay
<1>1. CASE runs' = runs
  BY <1>1 DEF TypeOK, RunsStay, Stays
<1>2. CASE Registered /\ runs[registry].phase = "running" /\ runs' = [runs EXCEPT ![registry].woken = TRUE]
  <2>1. registry \in Runs /\ runs[registry] \in RunnerType
    BY <1>2, Types DEF Registered, TypeOK
  <2>2. /\ \A q \in Runs \ {registry} : runs'[q] = runs[q]
        /\ runs'[registry] = [runs[registry] EXCEPT !.woken = TRUE]
    BY <1>2, <2>1 DEF TypeOK
  <2>3. runs'[registry] \in RunnerType
    BY <2>1, <2>2 DEF RunnerType
  <2>4. runs' \in [Runs -> RunnerType]
    BY <1>2, <2>1, <2>2, <2>3, Types DEF TypeOK
  <2>5. RunsStay
    BY <1>2, <2>1, <2>2 DEF RunsStay, Stays, RunnerType
  <2>6. QED
    BY <2>4, <2>5
<1>3. QED
  BY <1>1, <1>2 DEF Notified

\* Such a step keeps what the invariant says of runs.
LEMMA RunsKeep ==
  ASSUME Inv, RunsStay, SameHistory, UNCHANGED <<registry, loopers>>, store' \subseteq store
  PROVE  RunPart'
<1> USE DEF Inv, RunPart
<1>1. OneRunIsVisible'
  BY RunNumbers DEF OneRunIsVisible, RunsStay, Stays, SameHistory, Registered, TypeOK
<1>2. RunsSound'
  BY DEF RunsSound, RunSound, RunsStay, Stays, SameHistory
<1>3. EntryStands'
  BY RunNumbers DEF EntryStands, RunsStay, Stays, SameHistory, Registered, TypeOK, Orderly, Undisturbed
<1>4. HistorySound'
  BY DEF HistorySound, RunsStay, Stays, SameHistory, Live, AtWork, Undisturbed
<1>5. NewFlags'
  BY DEF NewFlags, RunsStay, Stays, SameHistory, Undisturbed
<1>6. FeedsSound'
  <2>1. SUFFICES ASSUME NEW r \in Runs PROVE FeedSound(r)'
    BY DEF FeedsSound
  <2>2. FeedSound(r)
    BY DEF FeedsSound
  <2>3. runs'[r].phase = runs[r].phase /\ (Undisturbed' => runs'[r].flags = runs[r].flags)
    BY DEF RunsStay, Stays
  <2>4. QED
    BY <2>2, <2>3 DEF FeedSound, SameHistory, Undisturbed
<1>7. QED
  BY <1>1, <1>2, <1>3, <1>4, <1>5, <1>6

\* What is kept stays kept.
LEMMA KeptStays ==
  ASSUME RunsStay, UNCHANGED loopers
  PROVE  \A r \in Runs : Kept(r) \subseteq Kept(r)'
BY DEF RunsStay, Stays, Kept

\* How a connection may change beside runs that stay: it begins to build nothing, it
\* listens to nothing but the registered run that it did not listen to, and every message
\* it has sent by now it had sent before, or waits at that run, or went astray.
Moves(c) ==
    /\ clients' \in [Clients -> ClientType]
    /\ \A d \in Clients \ {c} : clients'[d] = clients[d]
    /\ LET client == clients[c]
           moved == clients'[c]
       IN  /\ moved.pc \in {"registered", "building"} =>
                 /\ Builds(c) /\ moved.run = client.run /\ moved.message = client.message
                 /\ Undisturbed /\ moved.pc = "building" => moved.rx = moved.run
           /\ moved.pc \in Subscribed => moved.rx # NoRun
           /\ moved.pc \in Trying => moved.tries # 0
           /\ moved.sent # {} => moved.pc = "watching"
           /\ moved.rx \in {NoRun, client.rx, registry}
           /\ Orderly => \A m \in moved.sent :
                 \/ m \in client.sent /\ moved.rx = client.rx
                 \/ m \in seen'.astray
                 \/ /\ moved.rx = registry
                    /\ runs[registry].phase \in Active
                    /\ m \in WaitingIn(runs'[registry].control)

\* Such a change keeps what the invariant says of connections.
LEMMA ClientsKeep ==
  ASSUME Inv, RunsStay, SameHistory, UNCHANGED <<registry, loopers>>, NEW c \in Clients, Moves(c)
  PROVE  ClientsSound' /\ Listening'
<1>1. \A d \in Clients : clients[d] \in ClientType /\ clients'[d] \in ClientType
  BY Types DEF Inv, Moves
<1>2. \A d \in Clients : ClientSound(d) /\ Listened(d) /\ Arrived(d)
  BY DEF Inv, ClientsSound, Listening
<1>3. ASSUME NEW d \in Clients PROVE ClientSound(d)'
  <2>1. Builds(d)' => /\ Builds(d) /\ clients'[d].run = clients[d].run
                      /\ clients'[d].message = clients[d].message
    BY <1>3 DEF Moves, Builds
  <2>2. Builds(d)' => /\ clients'[d].run # NoRun /\ runs'[clients'[d].run].phase = "building"
                      /\ clients'[d].message # NoMessage
                      /\ runs'[clients'[d].run].initial = clients'[d].message
    BY <1>1, <1>2, <2>1 DEF ClientSound, ClientType, RunsStay, Stays
  <2>3. clients'[d].pc \in Subscribed => clients'[d].rx # NoRun
    BY <1>2, <1>3 DEF Moves, ClientSound
  <2>4. clients'[d].sent # {} => clients'[d].pc = "watching"
    BY <1>2, <1>3 DEF Moves, ClientSound
  <2>5. clients'[d].pc \in Trying => clients'[d].tries # 0
    BY <1>2, <1>3 DEF Moves, ClientSound
  <2>6. Undisturbed' /\ clients'[d].pc = "building" => clients'[d].rx = clients'[d].run
    BY <1>2, <1>3 DEF Moves, ClientSound, SameHistory, Undisturbed
  <2>7. QED
    BY <2>2, <2>3, <2>4, <2>5, <2>6 DEF ClientSound
<1>4. ASSUME NEW d \in Clients, NEW e \in Clients, Builds(d)', Builds(e)',
             clients'[d].run = clients'[e].run
      PROVE  d = e
  <2>1. Builds(d) /\ Builds(e) /\ clients[d].run = clients[e].run
    BY <1>4 DEF Moves, Builds
  <2>2. QED
    BY <2>1 DEF Inv, ClientsSound
<1>5. ASSUME NEW d \in Clients PROVE Listened(d)'
  <2>1. clients'[d].rx \in {NoRun, clients[d].rx, registry}
    BY <1>5 DEF Moves
  <2>2. CASE clients'[d].rx = clients[d].rx
    BY <1>1, <1>2, <2>2 DEF Listened, RunsStay, Stays, SameHistory, Orderly, Undisturbed, ClientType
  <2>3. CASE clients'[d].rx = registry /\ registry # NoRun /\ Orderly'
    <3>1. Orderly /\ registry \in Runs
      BY <2>3 DEF SameHistory, Orderly, Undisturbed, Inv, TypeOK
    <3>2. runs[registry].phase # "leaving" /\ runs[registry].phase # "gone"
      BY <2>3, <3>1 DEF Inv, EntryStands, OneRunIsVisible, Registered
    <3>3. ~loopers[registry].closed
      BY <3>1, <3>2 DEF Inv, RunsSound, RunSound
    <3>4. QED
      BY <2>3, <3>1, <3>2, <3>3 DEF Listened, RunsStay, Stays
  <2>4. QED
    BY <2>1, <2>2, <2>3 DEF Listened
<1>6. ASSUME NEW d \in Clients PROVE Arrived(d)'
  <2> PICK r : r = clients'[d].rx
    OBVIOUS
  <2>1. SUFFICES ASSUME Orderly', NEW m \in clients'[d].sent
                 PROVE  m \in Kept(r)' \cup seen'.stopped \cup seen'.astray
    BY DEF Arrived
  <2>2. Orderly
    BY <2>1 DEF SameHistory, Orderly, Undisturbed
  <2>3. clients'[d].pc = "watching" /\ clients'[d].rx # NoRun
    BY <1>3, <2>1 DEF ClientSound, Subscribed
  <2>4. r \in Runs
    BY <1>1, <2>3 DEF ClientType
  <2>5. CASE m \in clients[d].sent /\ r = clients[d].rx
    <3>1. m \in Kept(r) \cup seen.stopped \cup seen.astray
      BY <1>2, <2>2, <2>5 DEF Arrived
    <3>2. QED
      BY <2>4, <2>5, <3>1, KeptStays DEF SameHistory
  <2>6. CASE /\ r = registry /\ runs[registry].phase \in Active
             /\ m \in WaitingIn(runs'[registry].control)
    <3>1. runs'[r].phase \in Active /\ m \in WaitingIn(runs'[r].control)
      BY <2>4, <2>6 DEF RunsStay, Stays
    <3>2. QED
      BY <2>4, <2>6, <3>1 DEF Kept
  <2>7. CASE d = c
    BY <2>1, <2>2, <2>5, <2>6, <2>7 DEF Moves
  <2>8. CASE d # c
    BY <2>1, <2>5, <2>8 DEF Moves
  <2>9. QED
    BY <2>7, <2>8
<1>7. QED
  BY <1>3, <1>4, <1>5, <1>6 DEF ClientsSound, Listening

\* Connections that do not change at all.
LEMMA ClientsStay ==
  ASSUME Inv, RunsStay, SameHistory, UNCHANGED <<registry, loopers, clients>>
  PROVE  ClientsSound' /\ Listening'
<1>1. CASE Clients = {}
  BY <1>1 DEF ClientsSound, Listening
<1>2. CASE Clients # {}
  <2>1. PICK c \in Clients : TRUE
    BY <1>2
  <2>2. ClientSound(c)
    BY DEF Inv, ClientsSound
  <2>3. Moves(c)
    BY <2>2 DEF Inv, TypeOK, Moves, ClientSound, Builds
  <2>4. QED
    BY <2>3, ClientsKeep
<1>3. QED
  BY <1>1, <1>2

\* A step beside runs that stay keeps the invariant if it keeps the types and what is
\* said of connections.
LEMMA QuietStep ==
  ASSUME Inv, RunsStay, SameHistory, UNCHANGED <<registry, loopers>>, store' \subseteq store,
         TypeOK', ClientsSound' /\ Listening'
  PROVE  Inv'
BY RunsKeep DEF Inv, RunPart

\* Nothing happens to runs.
LEMMA StillRuns ==
  ASSUME UNCHANGED runs
  PROVE  RunsStay
BY DEF RunsStay, Stays

\* Nothing is put on record.
LEMMA StillSeen ==
  ASSUME UNCHANGED seen
  PROVE  SameHistory
BY DEF SameHistory

\* One connection is replaced.
LEMMA Replaced ==
  ASSUME TypeOK, NEW c \in Clients, NEW new \in ClientType, clients' = [clients EXCEPT ![c] = new]
  PROVE  /\ clients' \in [Clients -> ClientType]
         /\ clients'[c] = new
         /\ \A d \in Clients \ {c} : clients'[d] = clients[d]
BY DEF TypeOK

\* A round of a request listens to the run that is registered, if there is one.
LEMMA SubscribeFacts ==
  ASSUME TypeOK, NEW client \in ClientType, client.sent = {}
  PROVE  /\ Subscribe(client) \in ClientType
         /\ Subscribe(client).pc \notin {"registered", "building"}
         /\ Subscribe(client).pc \in Subscribed => Subscribe(client).rx # NoRun
         /\ Subscribe(client).pc \in Trying => Subscribe(client).tries # 0
         /\ Subscribe(client).sent = {}
         /\ Subscribe(client).rx \in {NoRun, registry}
<1>1. CASE client.tries = 0
  <2>1. Subscribe(client) = NewClient
    BY <1>1 DEF Subscribe
  <2>2. QED
    BY <2>1, NewTypes DEF NewClient, Subscribed, Trying
<1>2. CASE client.tries # 0 /\ Registered
  <2>1. Subscribe(client) = [client EXCEPT !.pc = "subscribed", !.rx = registry]
    BY <1>2 DEF Subscribe
  <2>2. registry \in Runs /\ registry # NoRun
    BY <1>2 DEF Registered, TypeOK
  <2>3. QED
    BY <1>2, <2>1, <2>2 DEF ClientType, Trying
<1>3. CASE client.tries # 0 /\ ~Registered
  <2>1. Subscribe(client) = [client EXCEPT !.pc = "register", !.rx = NoRun]
    BY <1>3 DEF Subscribe
  <2>2. QED
    BY <1>3, <2>1 DEF ClientType, Subscribed, Trying
<1>4. QED
  BY <1>1, <1>2, <1>3

\* Such a round, of a connection that is about to begin one.
LEMMA RoundMoves ==
  ASSUME Inv, NEW c \in Clients, NEW client \in ClientType, client.sent = {},
         clients' = [clients EXCEPT ![c] = Subscribe(client)]
  PROVE  Moves(c)
<1>1. TypeOK
  BY DEF Inv
<1>2. /\ clients' \in [Clients -> ClientType]
      /\ clients'[c] = Subscribe(client)
      /\ \A d \in Clients \ {c} : clients'[d] = clients[d]
  BY <1>1, SubscribeFacts, Replaced
<1>3. QED
  BY <1>1, <1>2, SubscribeFacts DEF Moves

\* A connection that is over.
LEMMA OutMoves ==
  ASSUME Inv, NEW c \in Clients, clients' = Out(c)
  PROVE  Moves(c)
<1>1. TypeOK /\ NewClient \in ClientType
  BY NewTypes DEF Inv
<1>2. clients' = [clients EXCEPT ![c] = NewClient]
  BY DEF Out
<1>3. /\ clients' \in [Clients -> ClientType]
      /\ clients'[c] = NewClient
      /\ \A d \in Clients \ {c} : clients'[d] = clients[d]
  BY <1>1, <1>2, Replaced
<1>4. QED
  BY <1>3 DEF Moves, NewClient, Subscribed, Trying

\* A request for a stream, with a message or without one.
LEMMA RequestKeeps ==
  ASSUME Inv, NEW c \in Clients, Request(c)
  PROVE  Inv'
<1>1. TypeOK /\ UNCHANGED <<registry, runs, loopers, store, clear, seen>>
  BY DEF Inv, Request
<1>2. PICK m \in {NoMessage} \cup IF used.messages < MaxMessages THEN {used.messages + 1} ELSE {} :
        /\ clients' = [clients EXCEPT ![c] = Subscribe([NewClient EXCEPT !.message = m,
                                                                        !.tries = MaxTries])]
        /\ used' = IF m = NoMessage THEN used ELSE [used EXCEPT !.messages = m]
  BY DEF Request
<1>3. /\ used.messages \in 0 .. MaxMessages /\ MaxMessages \in Nat /\ MaxTries \in Nat
      /\ used \in [messages : 0 .. MaxMessages, orders : 0 .. MaxOrders, pausing : BOOLEAN]
  BY <1>1, RunsAssumption DEF TypeOK
<1>4. m \in Messages \cup {NoMessage}
  BY <1>2, <1>3 DEF Messages
<1>5. used' \in [messages : 0 .. MaxMessages, orders : 0 .. MaxOrders, pausing : BOOLEAN]
  BY <1>2, <1>3, <1>4 DEF Messages
<1>6. PICK client : client = [NewClient EXCEPT !.message = m, !.tries = MaxTries]
  OBVIOUS
<1>7. client \in ClientType /\ client.sent = {}
  BY <1>3, <1>4, <1>6 DEF NewClient, ClientType
<1>8. Moves(c)
  BY <1>2, <1>6, <1>7, RoundMoves
<1>9. TypeOK'
  BY <1>1, <1>5, <1>8 DEF TypeOK, Moves
<1>10. QED
  BY <1>1, <1>8, <1>9, StillRuns, StillSeen, ClientsKeep, QuietStep

\* What Again makes of a connection that still has rounds to go.
LEMMA AgainMoves ==
  ASSUME Inv, NEW c \in Clients, clients[c].pc \in Trying, clients' = Again(c)
  PROVE  Moves(c)
<1>1. clients[c] \in ClientType /\ ClientSound(c) /\ TypeOK
  BY Types DEF Inv, ClientsSound
<1>2. clients[c].tries - 1 \in Nat /\ clients[c].sent = {}
  BY <1>1 DEF ClientSound, ClientType, Trying
<1>3. PICK left : left = clients[c].tries - 1
  OBVIOUS
<1>4. PICK client : client = [clients[c] EXCEPT !.tries = left]
  OBVIOUS
<1>5. client \in ClientType /\ client.sent = {}
  BY <1>1, <1>2, <1>3, <1>4 DEF ClientType
<1>6. clients' = [clients EXCEPT ![c] = Subscribe([clients[c] EXCEPT !.tries = clients[c].tries - 1])]
  BY DEF Again
<1>7. clients' = [clients EXCEPT ![c] = Subscribe(client)]
  BY <1>3, <1>4, <1>6
<1>8. QED
  BY <1>5, <1>7, RoundMoves

\* Whoever waited for the entry to go makes another round.
LEMMA AwaitExitKeeps ==
  ASSUME Inv, NEW c \in Clients, AwaitExit(c)
  PROVE  Inv'
<1>1. Moves(c)
  BY AgainMoves DEF AwaitExit, Trying
<1>2. TypeOK'
  BY <1>1 DEF Inv, TypeOK, Moves, AwaitExit
<1>3. QED
  BY <1>1, <1>2, StillRuns, StillSeen, ClientsKeep, QuietStep DEF AwaitExit

\* A connection that watches what it listens to, with the messages it has sent.
LEMMA WatchingMoves ==
  ASSUME Inv, NEW c \in Clients, clients[c].rx # NoRun, NEW sent \in SUBSET Messages,
         clients' = Watching(c, sent),
         Orderly => \A m \in sent :
            \/ m \in seen'.astray
            \/ /\ clients[c].rx = registry /\ runs[registry].phase \in Active
               /\ m \in WaitingIn(runs'[registry].control)
  PROVE  Moves(c)
<1>1. clients[c] \in ClientType /\ TypeOK
  BY Types DEF Inv
<1>2. PICK rx : rx = clients[c].rx
  OBVIOUS
<1>3. PICK new : new = [NewClient EXCEPT !.pc = "watching", !.rx = rx, !.sent = sent]
  OBVIOUS
<1>4. clients' = [clients EXCEPT ![c] = new]
  BY <1>2, <1>3 DEF Watching
<1>5. /\ new \in ClientType /\ new.pc = "watching" /\ new.rx = rx /\ new.sent = sent
  BY <1>1, <1>2, <1>3 DEF NewClient, ClientType
<1>6. /\ clients' \in [Clients -> ClientType]
      /\ clients'[c] = new
      /\ \A d \in Clients \ {c} : clients'[d] = clients[d]
  BY <1>1, <1>4, <1>5, Replaced
<1>7. QED
  BY <1>2, <1>5, <1>6 DEF Moves, Trying

\* A connection of which only the place it is at changes, and what it has sent is forgotten.
LEMMA GoesOnMoves ==
  ASSUME Inv, NEW c \in Clients, clients[c].pc \in Subscribed, NEW new \in ClientType,
         new.pc \in {"awaiting", "deaf", "ending"}, new.pc = "awaiting" => clients[c].pc = "subscribed",
         new.sent = {}, new.rx = clients[c].rx, new.tries = clients[c].tries,
         clients' = [clients EXCEPT ![c] = new]
  PROVE  Moves(c)
<1>1. clients[c] \in ClientType /\ TypeOK /\ ClientSound(c)
  BY Types DEF Inv, ClientsSound
<1>2. /\ clients' \in [Clients -> ClientType]
      /\ clients'[c] = new
      /\ \A d \in Clients \ {c} : clients'[d] = clients[d]
  BY <1>1, Replaced
<1>3. QED
  BY <1>1, <1>2 DEF Moves, Trying, ClientSound

\* Whoever sends after it subscribed keeps the invariant, whichever run it reaches.
LEMMA EnqueueKeeps ==
  ASSUME Inv, NEW c \in Clients, Enqueue(c)
  PROVE  Inv'
<1>1. /\ TypeOK /\ OneRunIsVisible /\ ClientSound(c) /\ clients[c] \in ClientType
      /\ clients[c].pc = "subscribed" /\ seen \in SeenType
      /\ UNCHANGED <<registry, loopers, store, clear, used>>
  BY Types DEF Inv, Enqueue, ClientsSound, TypeOK
<1>2. PICK m : m = clients[c].message
  OBVIOUS
<1>3. clients[c].rx # NoRun /\ clients[c].rx \in Runs /\ clients[c].sent = {}
  BY <1>1 DEF ClientSound, Subscribed, ClientType
<1>4. CASE m = NoMessage /\ clients' = Watching(c, {}) /\ UNCHANGED <<runs, seen>>
  <2>1. Moves(c)
    BY <1>3, <1>4, WatchingMoves
  <2>2. TypeOK'
    BY <1>1, <1>4, <2>1 DEF TypeOK, Moves
  <2>3. QED
    BY <1>1, <1>4, <2>1, <2>2, StillRuns, StillSeen, ClientsKeep, QuietStep
<1>5. CASE /\ m # NoMessage /\ HasRoom /\ runs' = Sent(Query(m)) /\ clients' = Watching(c, {m})
           /\ seen' = [seen EXCEPT !.astray = IF clients[c].rx = registry THEN @ ELSE @ \cup {m}]
  <2>1. m \in Messages
    BY <1>1, <1>2, <1>5 DEF ClientType
  <2>2. Query(m) \in Command /\ Query(m).message = m
    BY <2>1, Commands
  <2>3. /\ runs' \in [Runs -> RunnerType] /\ RunsStay
        /\ registry \in Runs /\ runs[registry].phase \notin {"none", "failing", "gone"}
        /\ m \in WaitingIn(runs'[registry].control)
    BY <1>1, <1>5, <2>2, SentFacts
  <2>4. PICK astray : astray = IF clients[c].rx = registry THEN seen.astray ELSE seen.astray \cup {m}
    OBVIOUS
  <2>5. seen' = [seen EXCEPT !.astray = astray]
    BY <1>1, <1>5, <2>4 DEF SeenType
  <2>6. astray \in SUBSET Messages
    BY <1>1, <2>1, <2>4 DEF SeenType
  <2>7. seen' \in SeenType /\ SameHistory /\ seen'.astray = astray
    BY <1>1, <2>4, <2>5, <2>6 DEF SeenType, SameHistory
  <2>8. Orderly => runs[registry].phase \in Active
    BY <2>3, Types, RunNumbers DEF Inv, EntryStands, Registered, RunnerType, Active
  <2>9. m \in seen'.astray \/ clients[c].rx = registry
    BY <2>4, <2>7
  <2>10. Moves(c)
    BY <1>3, <1>5, <2>1, <2>3, <2>8, <2>9, WatchingMoves
  <2>11. TypeOK'
    BY <1>1, <2>3, <2>7, <2>10 DEF TypeOK, Moves
  <2>12. QED
    BY <1>1, <2>3, <2>7, <2>10, <2>11, ClientsKeep, QuietStep
<1>6. CASE clients' = Out(c) /\ UNCHANGED <<runs, seen>>
  <2>1. Moves(c)
    BY <1>6, OutMoves
  <2>2. TypeOK'
    BY <1>1, <1>6, <2>1 DEF TypeOK, Moves
  <2>3. QED
    BY <1>1, <1>6, <2>1, <2>2, StillRuns, StillSeen, ClientsKeep, QuietStep
<1>7. CASE clients' = [clients EXCEPT ![c].pc = "awaiting"] /\ UNCHANGED <<runs, seen>>
  <2>1. PICK new : new = [clients[c] EXCEPT !.pc = "awaiting"]
    OBVIOUS
  <2>2. /\ new \in ClientType /\ new.pc = "awaiting" /\ new.sent = {}
        /\ new.rx = clients[c].rx /\ new.tries = clients[c].tries
    BY <1>1, <1>3, <2>1 DEF ClientType
  <2>3. clients' = [clients EXCEPT ![c] = new]
    BY <1>1, <1>7, <2>1 DEF TypeOK
  <2>4. Moves(c)
    BY <1>1, <2>2, <2>3, GoesOnMoves DEF Subscribed
  <2>5. TypeOK'
    BY <1>1, <1>7, <2>4 DEF TypeOK, Moves
  <2>6. QED
    BY <1>1, <1>7, <2>4, <2>5, StillRuns, StillSeen, ClientsKeep, QuietStep
<1>8. QED
  BY <1>2, <1>4, <1>5, <1>6, <1>7 DEF Enqueue

\* A connection whose user is gone.
LEMMA EndsMoves ==
  ASSUME Inv, NEW c \in Clients, clients[c].pc \in Subscribed, NEW pc \in {"deaf", "ending"},
         clients' = [clients EXCEPT ![c].pc = pc, ![c].sent = {}]
  PROVE  Moves(c)
<1>1. clients[c] \in ClientType /\ TypeOK
  BY Types DEF Inv
<1>2. PICK new : new = [clients[c] EXCEPT !.pc = pc, !.sent = {}]
  OBVIOUS
<1>3. /\ new \in ClientType /\ new.pc = pc /\ new.sent = {}
      /\ new.rx = clients[c].rx /\ new.tries = clients[c].tries
  BY <1>1, <1>2 DEF ClientType
<1>4. clients' = [clients EXCEPT ![c] = new]
  BY <1>1, <1>2 DEF TypeOK
<1>5. QED
  BY <1>3, <1>4, GoesOnMoves

\* Whatever a connection does at its end.
LEMMA BridgeKeeps ==
  ASSUME Inv, NEW c \in Clients, Disconnect(c) \/ EndBridge(c) \/ DropReceiver(c)
  PROVE  Inv'
<1>1. TypeOK /\ UNCHANGED <<registry, loopers, store, clear, used, seen>>
  BY DEF Inv, Disconnect, EndBridge, DropReceiver
<1>2. CASE Disconnect(c)
  <2>1. Moves(c)
    BY <1>1, <1>2, EndsMoves DEF Disconnect, Subscribed
  <2>2. TypeOK'
    BY <1>1, <1>2, <2>1 DEF TypeOK, Moves, Disconnect
  <2>3. QED
    BY <1>1, <1>2, <2>1, <2>2, StillRuns, StillSeen, ClientsKeep, QuietStep DEF Disconnect
<1>3. CASE EndBridge(c)
  <2>1. Moves(c)
    BY <1>1, <1>3, EndsMoves DEF EndBridge, Subscribed
  <2>2. runs' \in [Runs -> RunnerType] /\ RunsStay
    BY <1>1, <1>3, NotifiedFacts DEF EndBridge
  <2>3. TypeOK'
    BY <1>1, <2>1, <2>2 DEF TypeOK, Moves
  <2>4. QED
    BY <1>1, <2>1, <2>2, <2>3, StillSeen, ClientsKeep, QuietStep
<1>4. CASE DropReceiver(c)
  <2>1. Moves(c)
    BY <1>4, OutMoves DEF DropReceiver
  <2>2. TypeOK'
    BY <1>1, <1>4, <2>1 DEF TypeOK, Moves, DropReceiver
  <2>3. QED
    BY <1>1, <1>4, <2>1, <2>2, StillRuns, StillSeen, ClientsKeep, QuietStep DEF DropReceiver
<1>5. QED
  BY <1>2, <1>3, <1>4

\* A query beside the stream.
LEMMA PostQueryKeeps ==
  ASSUME Inv, NEW c \in Clients, PostQuery(c)
  PROVE  Inv'
<1>1. /\ TypeOK /\ OneRunIsVisible /\ ClientSound(c) /\ clients[c] \in ClientType
      /\ clients[c].pc \in {"out", "watching"} /\ HasRoom
      /\ used.messages < MaxMessages
      /\ UNCHANGED <<registry, loopers, store, clear, seen>>
  BY Types DEF Inv, PostQuery, ClientsSound
<1>2. PICK m : m = used.messages + 1
  OBVIOUS
<1>3. /\ runs' = Sent(Query(m)) /\ used' = [used EXCEPT !.messages = m]
      /\ clients' = IF clients[c].pc = "watching" /\ clients[c].rx = registry
                    THEN [clients EXCEPT ![c].sent = @ \cup {m}] ELSE clients
  BY <1>2 DEF PostQuery
<1>4. m \in Messages /\ used' \in [messages : 0 .. MaxMessages, orders : 0 .. MaxOrders, pausing : BOOLEAN]
  BY <1>1, <1>2, <1>3, RunsAssumption DEF TypeOK, Messages
<1>5. Query(m) \in Command /\ Query(m).message = m
  BY <1>4, Commands
<1>6. /\ runs' \in [Runs -> RunnerType] /\ RunsStay
      /\ registry \in Runs /\ runs[registry].phase \notin {"none", "failing", "gone"}
      /\ m \in WaitingIn(runs'[registry].control)
  BY <1>1, <1>3, <1>5, SentFacts
<1>7. Orderly => runs[registry].phase \in Active
  BY <1>6, Types, RunNumbers DEF Inv, EntryStands, Registered, RunnerType, Active
<1>8. Moves(c)
  <2>1. CASE UNCHANGED clients /\ clients' = clients
    BY <1>1, <2>1 DEF Moves, TypeOK, ClientSound, Builds
  <2>2. CASE /\ clients[c].pc = "watching" /\ clients[c].rx = registry
             /\ clients' = [clients EXCEPT ![c].sent = @ \cup {m}]
    <3>1. PICK more : more = clients[c].sent \cup {m}
      OBVIOUS
    <3>2. PICK new : new = [clients[c] EXCEPT !.sent = more]
      OBVIOUS
    <3>3. clients' = [clients EXCEPT ![c] = new]
      BY <1>1, <2>2, <3>1, <3>2 DEF TypeOK
    <3>4. /\ new \in ClientType /\ new.pc = "watching" /\ new.rx = registry /\ new.sent = more
      BY <1>1, <1>4, <2>2, <3>1, <3>2 DEF ClientType
    <3>5. /\ clients' \in [Clients -> ClientType]
          /\ clients'[c] = new
          /\ \A d \in Clients \ {c} : clients'[d] = clients[d]
      BY <1>1, <3>3, <3>4, Replaced
    <3>6. registry # NoRun
      BY <1>6, RunNumbers
    <3>7. QED
      BY <1>6, <1>7, <2>2, <3>1, <3>4, <3>5, <3>6 DEF Moves, Trying
  <2>3. QED
    BY <1>3, <2>1, <2>2
<1>9. TypeOK'
  BY <1>1, <1>4, <1>6, <1>8 DEF TypeOK, Moves
<1>10. QED
  BY <1>1, <1>6, <1>8, <1>9, StillSeen, ClientsKeep, QuietStep

\* Control requests, and whatever clears the session.
LEMMA OrdersKeep ==
  ASSUME Inv, PostControl \/ Clearing
  PROVE  Inv'
<1>1. TypeOK /\ OneRunIsVisible /\ UNCHANGED <<registry, loopers, clients, seen>>
  BY DEF Inv, PostControl, Clearing, ClearSession, ClearWaited, ClearDeletes, FollowUpDeletes
<1>2. /\ used.orders \in 0 .. MaxOrders /\ MaxOrders \in Nat
      /\ used \in [messages : 0 .. MaxMessages, orders : 0 .. MaxOrders, pausing : BOOLEAN]
      /\ clear \in [pc : {"none", "waiting", "deleting"}, followUp : BOOLEAN]
  BY <1>1, RunsAssumption DEF TypeOK
<1>3. /\ UNCHANGED runs \/ (HasRoom /\ \E kind \in Control : runs' = Sent(Order(kind)))
      /\ store' \subseteq store
  BY DEF PostControl, Clearing, ClearSession, ClearWaited, ClearDeletes, FollowUpDeletes, Control
<1>4. runs' \in [Runs -> RunnerType] /\ RunsStay
  <2>1. CASE UNCHANGED runs
    BY <1>1, <2>1, StillRuns DEF TypeOK
  <2>2. CASE HasRoom /\ \E kind \in Control : runs' = Sent(Order(kind))
    BY <1>1, <2>2, SentFacts, Commands
  <2>3. QED
    BY <1>3, <2>1, <2>2
<1>5. used' \in [messages : 0 .. MaxMessages, orders : 0 .. MaxOrders, pausing : BOOLEAN]
  <2> PICK n : n = used.orders + 1
    OBVIOUS
  <2>1. used.orders < MaxOrders => n \in 0 .. MaxOrders
    BY <1>2
  <2>2. CASE PostControl
    <3>1. PICK kind \in Control :
            \/ /\ used.orders < MaxOrders
               /\ used' = [used EXCEPT !.orders = n, !.pausing = kind = "pause"]
            \/ used' = [used EXCEPT !.pausing = FALSE]
      BY <2>2 DEF PostControl
    <3>2. PICK pausing \in BOOLEAN : pausing = (kind = "pause")
      OBVIOUS
    <3>3. \/ /\ used.orders < MaxOrders
             /\ used' = [used EXCEPT !.orders = n, !.pausing = pausing]
          \/ used' = [used EXCEPT !.pausing = FALSE]
      BY <3>1, <3>2
    <3>4. QED
      BY <1>2, <2>1, <3>3
  <2>3. CASE Clearing
    <3>1. UNCHANGED used \/ (used.orders < MaxOrders /\ used' = [used EXCEPT !.orders = n])
      BY <2>3 DEF Clearing, ClearSession, ClearWaited, ClearDeletes, FollowUpDeletes
    <3>2. QED
      BY <1>2, <2>1, <3>1
  <2>4. QED
    BY <2>2, <2>3
<1>6. clear' \in [pc : {"none", "waiting", "deleting"}, followUp : BOOLEAN]
  <2>1. CASE PostControl
    BY <1>2, <2>1 DEF PostControl
  <2>2. CASE ClearSession
    BY <1>2, <2>2 DEF ClearSession
  <2>3. CASE ClearWaited
    <3>1. PICK timedOut \in BOOLEAN :
            clear' = [pc |-> "deleting", followUp |-> clear.followUp \/ timedOut]
      BY <2>3 DEF ClearWaited
    <3>2. PICK followUp \in BOOLEAN : followUp = (clear.followUp \/ timedOut)
      OBVIOUS
    <3>3. clear' = [pc |-> "deleting", followUp |-> followUp]
      BY <3>1, <3>2
    <3>4. QED
      BY <3>3
  <2>4. CASE ClearDeletes
    BY <1>2, <2>4 DEF ClearDeletes
  <2>5. CASE FollowUpDeletes
    BY <1>2, <2>5 DEF FollowUpDeletes
  <2>6. QED
    BY <2>1, <2>2, <2>3, <2>4, <2>5 DEF Clearing
<1>7. TypeOK'
  BY <1>1, <1>3, <1>4, <1>5, <1>6 DEF TypeOK
<1>8. QED
  BY <1>1, <1>3, <1>4, <1>7, StillSeen, ClientsStay, QuietStep

-----------------------------------------------------------------------------
(* Steps of one run.                                                       *)

SeenGrows ==
    /\ seen.struck \subseteq seen'.struck /\ seen.died \subseteq seen'.died
    /\ seen.dropped \subseteq seen'.dropped /\ (seen.stale => seen'.stale)
    /\ seen.stopped \subseteq seen'.stopped /\ seen.astray \subseteq seen'.astray

\* Only r and its loop change.
Beside(r) == \A q \in Runs \ {r} : Stays(q) /\ loopers'[q] = loopers[q]

\* A connection that is where it was: a bridge may have something to read.
Unmoved(d) ==
    /\ clients'[d].pc = clients[d].pc /\ clients'[d].message = clients[d].message
    /\ clients'[d].tries = clients[d].tries /\ clients'[d].run = clients[d].run
    /\ clients'[d].rx = clients[d].rx /\ clients'[d].sent = clients[d].sent

\* What went wrong stays on record.
LEMMA Undone ==
  ASSUME SeenGrows
  PROVE  /\ Undisturbed' => Undisturbed
         /\ Orderly' => Orderly
BY DEF SeenGrows, Undisturbed, Orderly

\* The other runs keep their part of the invariant.
LEMMA OtherRuns ==
  ASSUME Inv, SeenGrows, NEW r \in Runs, Beside(r), NEW q \in Runs \ {r}
  PROVE  /\ RunSound(q)' /\ FeedSound(q)'
         /\ Live(q)' <=> Live(q)
         /\ Kept(q) \subseteq Kept(q)'
<1>1. Stays(q) /\ loopers'[q] = loopers[q] /\ RunSound(q) /\ FeedSound(q)
  BY DEF Beside, Inv, RunsSound, FeedsSound
<1>2. RunSound(q)'
  BY <1>1 DEF RunSound, Stays, SeenGrows
<1>3. FeedSound(q)'
  <2>1. runs'[q].phase = runs[q].phase /\ (Undisturbed' => runs'[q].flags = runs[q].flags)
    BY <1>1 DEF Stays
  <2>2. /\ Undisturbed' => Undisturbed
        /\ q \notin seen'.dropped => q \notin seen.dropped
    BY Undone DEF SeenGrows
  <2>3. QED
    BY <1>1, <2>1, <2>2 DEF FeedSound
<1>4. Live(q)' <=> Live(q)
  BY <1>1 DEF Live, AtWork, Stays
<1>5. Kept(q) \subseteq Kept(q)'
  BY <1>1 DEF Kept, Stays
<1>6. QED
  BY <1>2, <1>3, <1>4, <1>5

\* Connections that do not change keep theirs, if the run does not leave those that listen
\* to it, and what it had is kept, stopped, or no message.
LEMMA OtherClients ==
  ASSUME Inv, SeenGrows, NEW r \in Runs, Beside(r), NEW d \in Clients, Unmoved(d),
         Orderly' /\ clients[d].rx = r =>
            /\ runs'[r].phase # "leaving" /\ ~loopers'[r].closed
            /\ \A m \in Messages : m \in Kept(r) => m \in Kept(r)' \cup seen'.stopped
  PROVE  Listened(d)' /\ Arrived(d)'
<1>1. Listened(d) /\ Arrived(d) /\ ClientSound(d) /\ clients[d] \in ClientType
  BY Types DEF Inv, Listening, ClientsSound
<1>2. PICK rx : rx = clients[d].rx
  OBVIOUS
<1>3. clients'[d].rx = rx /\ clients'[d].sent = clients[d].sent
  BY <1>2 DEF Unmoved
<1>4. CASE rx = r
  <2>1. Listened(d)'
    BY <1>2, <1>3, <1>4 DEF Listened
  <2>2. SUFFICES ASSUME Orderly', NEW m \in clients[d].sent
                 PROVE  m \in Kept(r)' \cup seen'.stopped \cup seen'.astray
    BY <1>3, <1>4, <2>1 DEF Arrived
  <2>3. m \in Messages /\ m \in Kept(r) \cup seen.stopped \cup seen.astray
    BY <1>1, <1>2, <1>4, <2>2, Undone DEF Arrived, ClientType
  <2>4. QED
    BY <1>2, <1>4, <2>2, <2>3 DEF SeenGrows
<1>5. CASE rx \in Runs \ {r}
  <2>1. Stays(rx) /\ loopers'[rx] = loopers[rx] /\ Kept(rx) \subseteq Kept(rx)'
    BY <1>5, OtherRuns DEF Beside
  <2>2. Listened(d)'
    BY <1>1, <1>2, <1>3, <2>1, Undone DEF Listened, Stays
  <2>3. Arrived(d)'
    <3>1. SUFFICES ASSUME Orderly', NEW m \in clients[d].sent
                   PROVE  m \in Kept(rx)' \cup seen'.stopped \cup seen'.astray
      BY <1>3 DEF Arrived
    <3>2. m \in Kept(rx) \cup seen.stopped \cup seen.astray
      BY <1>1, <1>2, <3>1, Undone DEF Arrived
    <3>3. QED
      BY <2>1, <3>2 DEF SeenGrows
  <2>4. QED
    BY <2>2, <2>3
<1>6. CASE rx = NoRun
  <2>1. clients[d].sent = {}
    BY <1>1, <1>2, <1>6 DEF ClientSound, Subscribed
  <2>2. QED
    BY <1>3, <1>6, <2>1 DEF Listened, Arrived
<1>7. QED
  BY <1>1, <1>2, <1>4, <1>5, <1>6 DEF ClientType

\* Connections that do not change, and build no run that does.
LEMMA SameClients ==
  ASSUME Inv, SeenGrows, NEW r \in Runs, Beside(r), NEW d \in Clients, Unmoved(d),
         Builds(d) /\ clients[d].run = r =>
            runs'[r].phase = "building" /\ runs'[r].initial = runs[r].initial
  PROVE  ClientSound(d)'
<1>1. ClientSound(d) /\ clients[d] \in ClientType
  BY Types DEF Inv, ClientsSound
<1>2. Builds(d) => /\ runs'[clients[d].run].phase = "building"
                   /\ runs'[clients[d].run].initial = runs[clients[d].run].initial
  BY <1>1 DEF ClientSound, Beside, Stays, ClientType
<1>3. QED
  BY <1>1, <1>2, Undone DEF ClientSound, Builds, Unmoved

\* One run is replaced.
LEMMA RunReplaced ==
  ASSUME TypeOK, NEW r \in Runs, NEW new \in RunnerType, runs' = [runs EXCEPT ![r] = new]
  PROVE  /\ runs' \in [Runs -> RunnerType]
         /\ runs'[r] = new
         /\ \A q \in Runs \ {r} : runs'[q] = runs[q]
BY DEF TypeOK

\* One loop is replaced.
LEMMA LoopReplaced ==
  ASSUME TypeOK, NEW r \in Runs, NEW new \in LooperType, loopers' = [loopers EXCEPT ![r] = new]
  PROVE  /\ loopers' \in [Runs -> LooperType]
         /\ loopers'[r] = new
         /\ \A q \in Runs \ {r} : loopers'[q] = loopers[q]
BY DEF TypeOK

\* A connection registers the run it is going to build.
LEMMA RegisterNew ==
  ASSUME Inv, NEW c \in Clients, Register(c), clients[c].message # NoMessage, ~Registered
  PROVE  Inv'
<1>1. /\ TypeOK /\ clients[c] \in ClientType /\ ClientSound(c) /\ clients[c].pc = "register"
      /\ UNCHANGED <<loopers, store, clear, used, seen>>
  BY Types DEF Inv, Register, ClientsSound
<1>2. PICK r \in Unused :
        /\ registry' = r
        /\ runs' = [runs EXCEPT ![r].phase = "building", ![r].initial = clients[c].message]
        /\ clients' = [clients EXCEPT ![c].pc = "registered", ![c].run = r]
  BY DEF Register
<1>3. r \in Runs /\ runs[r].phase = "none" /\ r # NoRun
  BY RunNumbers DEF Unused
<1>4. RunSound(r) /\ runs[r] = NewRunner /\ loopers[r] = NewLooper
  BY <1>3 DEF Inv, RunsSound, RunSound
<1>5. PICK run : run = [runs[r] EXCEPT !.phase = "building", !.initial = clients[c].message]
  OBVIOUS
<1>6. /\ run \in RunnerType /\ run.phase = "building" /\ run.initial = clients[c].message
      /\ run.flags = FreshFlags
  <2>1. PICK m : m = clients[c].message
    OBVIOUS
  <2>2. m \in Messages \cup {NoMessage} /\ runs[r] \in RunnerType
    BY <1>1, <1>3, <2>1, Types DEF ClientType
  <2>3. runs[r].flags = FreshFlags
    BY <1>4 DEF NewRunner
  <2>4. run = [runs[r] EXCEPT !.phase = "building", !.initial = m]
    BY <1>5, <2>1
  <2>5. QED
    BY <2>1, <2>2, <2>3, <2>4 DEF RunnerType
<1>7. runs' = [runs EXCEPT ![r] = run]
  BY <1>1, <1>2, <1>3, <1>5 DEF TypeOK
<1>8. /\ runs' \in [Runs -> RunnerType] /\ runs'[r] = run
      /\ \A q \in Runs \ {r} : runs'[q] = runs[q]
  BY <1>1, <1>3, <1>6, <1>7, RunReplaced
<1>9. PICK client : client = [clients[c] EXCEPT !.pc = "registered", !.run = r]
  OBVIOUS
<1>10. /\ client \in ClientType /\ client.pc = "registered" /\ client.run = r
       /\ client.message = clients[c].message /\ client.rx = clients[c].rx
       /\ client.sent = {}
  BY <1>1, <1>3, <1>9 DEF ClientType, ClientSound
<1>11. clients' = [clients EXCEPT ![c] = client]
  BY <1>1, <1>2, <1>9 DEF TypeOK
<1>12. /\ clients' \in [Clients -> ClientType] /\ clients'[c] = client
       /\ \A d \in Clients \ {c} : clients'[d] = clients[d]
  BY <1>1, <1>10, <1>11, Replaced
<1>13. TypeOK'
  BY <1>1, <1>2, <1>3, <1>8, <1>12 DEF TypeOK
<1>14. SeenGrows /\ Beside(r)
  BY <1>1, <1>8 DEF SeenGrows, Beside, Stays
<1>15. OneRunIsVisible'
  <2>1. \A q \in Runs \ {r} : runs[q].phase \in Active => q \in seen.struck
    BY RunNumbers DEF Inv, OneRunIsVisible, Registered
  <2>2. \A q \in Runs : runs'[q].phase \in Active => registry' = q \/ q \in seen'.struck
    BY <1>1, <1>2, <1>8, <2>1
  <2>3. runs'[registry'].phase \notin {"none", "gone"}
    BY <1>2, <1>6, <1>8
  <2>4. QED
    BY <2>2, <2>3 DEF OneRunIsVisible
<1>16. ~loopers[r].closed /\ Held(loopers[r]) = {} /\ ~AtWork(loopers[r])
  BY <1>4 DEF NewLooper, Held, WaitingIn, AtWork
<1>17. RunSound(r)'
  BY <1>1, <1>4, <1>6, <1>8 DEF RunSound, NewLooper
<1>18. RunsSound'
  BY <1>3, <1>14, <1>17, OtherRuns DEF RunsSound
<1>19. ClientsSound'
  <2>1. \A d \in Clients \ {c} : Builds(d) => clients[d].run # r
    BY <1>3, Types DEF Inv, ClientsSound, ClientSound
  <2>2. \A d \in Clients \ {c} : ClientSound(d)'
    BY <1>3, <1>12, <1>14, <2>1, SameClients DEF Unmoved
  <2>3. ClientSound(c)'
    BY <1>3, <1>6, <1>8, <1>10, <1>12 DEF ClientSound, Subscribed, Trying
  <2>4. \A d \in Clients \ {c} : Builds(d)' => clients'[d].run # r
    BY <1>12, <2>1 DEF Builds
  <2>5. \A d, e \in Clients \ {c} :
           Builds(d)' /\ Builds(e)' /\ clients'[d].run = clients'[e].run => d = e
    BY <1>12 DEF Inv, ClientsSound, Builds
  <2>6. QED
    BY <1>10, <1>12, <2>2, <2>3, <2>4, <2>5 DEF ClientsSound
<1>20. EntryStands'
  BY <1>2, <1>6, <1>8 DEF EntryStands
<1>21. Listening'
  <2>1. Kept(r) = {}
    BY <1>3, <1>16, KeptParts DEF OnTheWay, Active
  <2>2. \A d \in Clients \ {c} : Listened(d)' /\ Arrived(d)'
    BY <1>1, <1>3, <1>6, <1>8, <1>12, <1>14, <1>16, <2>1, OtherClients DEF Unmoved
  <2>3. Arrived(c)'
    BY <1>10, <1>12 DEF Arrived
  <2>4. Listened(c)'
    <3>1. Listened(c)
      BY DEF Inv, Listening
    <3>2. clients[c].rx \in Runs \/ clients[c].rx = NoRun
      BY <1>1 DEF ClientType
    <3>3. CASE clients[c].rx = r
      BY <1>1, <1>6, <1>8, <1>10, <1>12, <1>16, <3>3 DEF Listened
    <3>4. CASE clients[c].rx \in Runs \ {r}
      BY <1>1, <1>8, <1>10, <1>12, <3>1, <3>4 DEF Listened, Orderly, Undisturbed
    <3>5. QED
      BY <1>10, <1>12, <3>2, <3>3, <3>4 DEF Listened
  <2>5. QED
    BY <2>2, <2>3, <2>4 DEF Listening
<1>22. HistorySound'
  <2>1. \A q \in Runs : Live(q)' => Live(q)
    BY <1>1, <1>3, <1>6, <1>8, <1>14, <1>16, OtherRuns DEF Live, AtWork
  <2>2. QED
    BY <1>1, <2>1 DEF Inv, HistorySound, Undisturbed
<1>23. NewFlags'
  BY <1>1, <1>6, <1>8 DEF Inv, NewFlags, Undisturbed
<1>24. FeedsSound'
  <2>1. FeedSound(r)'
    BY <1>6, <1>8 DEF FeedSound
  <2>2. QED
    BY <1>3, <1>14, <2>1, OtherRuns DEF FeedsSound
<1>25. QED
  BY <1>13, <1>15, <1>18, <1>19, <1>20, <1>21, <1>22, <1>23, <1>24 DEF Inv

\* Registering, or finding that another one was faster.
LEMMA RegisterKeeps ==
  ASSUME Inv, NEW c \in Clients, Register(c)
  PROVE  Inv'
<1>1. /\ TypeOK /\ clients[c].pc = "register"
      /\ UNCHANGED <<loopers, store, clear, used, seen>>
  BY DEF Inv, Register
<1>2. CASE (clients' = Out(c) \/ clients' = Again(c)) /\ UNCHANGED <<registry, runs>>
  <2>1. Moves(c)
    BY <1>1, <1>2, OutMoves, AgainMoves DEF Trying
  <2>2. TypeOK'
    BY <1>1, <1>2, <2>1 DEF TypeOK, Moves
  <2>3. QED
    BY <1>1, <1>2, <2>1, <2>2, StillRuns, StillSeen, ClientsKeep, QuietStep
<1>3. CASE clients[c].message # NoMessage /\ ~Registered
  BY <1>3, RegisterNew
<1>4. QED
  BY <1>2, <1>3 DEF Register

\* What is left to show for a step of one run.
LEMMA RunStep ==
  ASSUME Inv, SeenGrows, NEW r \in Runs, Beside(r), TypeOK',
         OneRunIsVisible', ClientsSound', RunSound(r)', EntryStands', Listening',
         HistorySound', FeedSound(r)',
         runs'[r].phase = "building" =>
            runs[r].phase = "building" /\ (Undisturbed' => runs'[r].flags = runs[r].flags)
  PROVE  Inv'
<1>1. RunsSound'
  BY OtherRuns DEF RunsSound
<1>2. FeedsSound'
  BY OtherRuns DEF FeedsSound
<1>3. NewFlags'
  BY Undone DEF Inv, NewFlags, Beside, Stays
<1>4. QED
  BY <1>1, <1>2, <1>3 DEF Inv

\* The history of a run that may add to the saved one only grows, and what is saved is
\* saved by such a run.
LEMMA HistoryStep ==
  ASSUME Inv, SeenGrows, NEW r \in Runs, Beside(r),
         Undisturbed' => (Live(r)' => Live(r)),
         loopers[r].history \subseteq loopers'[r].history,
         store' = store \/ (Live(r) /\ store' = loopers'[r].history)
  PROVE  HistorySound'
<1>1. SUFFICES ASSUME Undisturbed', ~seen'.stale
               PROVE  /\ \A p, q \in Runs : Live(p)' /\ Live(q)' => p = q
                      /\ \A q \in Runs : Live(q)' => store' \subseteq loopers'[q].history
  BY DEF HistorySound
<1>2. Undisturbed /\ ~seen.stale
  BY <1>1, Undone DEF SeenGrows
<1>3. /\ \A p, q \in Runs : Live(p) /\ Live(q) => p = q
      /\ \A q \in Runs : Live(q) => store \subseteq loopers[q].history
  BY <1>2 DEF Inv, HistorySound
<1>4. \A q \in Runs : Live(q)' => Live(q)
  BY <1>1, OtherRuns
<1>5. \A p, q \in Runs : Live(p)' /\ Live(q)' => p = q
  BY <1>3, <1>4
<1>6. ASSUME NEW q \in Runs, Live(q)' PROVE store' \subseteq loopers'[q].history
  <2>1. Live(q) /\ store \subseteq loopers[q].history
    BY <1>3, <1>4, <1>6
  <2>2. CASE q = r
    BY <2>1, <2>2
  <2>3. CASE q # r
    <3>1. loopers'[q] = loopers[q] /\ ~Live(r)
      BY <1>3, <2>1, <2>3 DEF Beside
    <3>2. QED
      BY <2>1, <3>1
  <2>4. QED
    BY <2>2, <2>3
<1>7. QED
  BY <1>5, <1>6

\* Connections that build, and go on with it, build runs of their own.
LEMMA OwnRuns ==
  ASSUME Inv,
         \A d \in Clients : Builds(d)' => Builds(d) /\ clients'[d].run = clients[d].run
  PROVE  \A d, e \in Clients : Builds(d)' /\ Builds(e)' /\ clients'[d].run = clients'[e].run => d = e
BY DEF Inv, ClientsSound

\* A connection that is over has nothing to ask for.
LEMMA OutIsSound ==
  ASSUME TypeOK, NEW c \in Clients, clients' = Out(c)
  PROVE  /\ clients' \in [Clients -> ClientType]
         /\ \A d \in Clients \ {c} : clients'[d] = clients[d]
         /\ ClientSound(c)' /\ Listened(c)' /\ Arrived(c)' /\ ~Builds(c)'
<1>1. NewClient \in ClientType
  BY NewTypes
<1>2. clients' = [clients EXCEPT ![c] = NewClient]
  BY DEF Out
<1>3. /\ clients' \in [Clients -> ClientType]
      /\ clients'[c] = NewClient
      /\ \A d \in Clients \ {c} : clients'[d] = clients[d]
  BY <1>1, <1>2, Replaced
<1>4. /\ clients'[c].pc = "out" /\ clients'[c].rx = NoRun /\ clients'[c].sent = {}
  BY <1>3 DEF NewClient
<1>5. QED
  BY <1>3, <1>4 DEF ClientSound, Listened, Arrived, Builds, Subscribed, Trying

\* A build that fails; its guard is dropped later.
LEMMA FailsKeep ==
  ASSUME Inv, NEW c \in Clients, Builds(c), clients' = Out(c), runs' = Fails(clients[c].run),
         UNCHANGED <<registry, loopers, store, clear, used, seen>>
  PROVE  Inv'
<1>1. /\ TypeOK /\ ClientSound(c) /\ clients[c] \in ClientType
  BY Types DEF Inv, ClientsSound
<1>2. PICK r : r = clients[c].run
  OBVIOUS
<1>3. r \in Runs /\ runs[r].phase = "building"
  BY <1>1, <1>2 DEF ClientSound, ClientType
<1>4. runs[r] \in RunnerType /\ RunSound(r)
  BY <1>1, <1>3, Types DEF Inv, RunsSound
<1>5. PICK run : run = [runs[r] EXCEPT !.phase = "failing"]
  OBVIOUS
<1>6. /\ run \in RunnerType /\ run.phase = "failing" /\ run.initial = runs[r].initial
      /\ run.control = runs[r].control
  BY <1>4, <1>5 DEF RunnerType
<1>7. runs' = [runs EXCEPT ![r] = run]
  BY <1>1, <1>2, <1>3, <1>5 DEF Fails, TypeOK
<1>8. /\ runs' \in [Runs -> RunnerType] /\ runs'[r] = run
      /\ \A q \in Runs \ {r} : runs'[q] = runs[q]
  BY <1>1, <1>3, <1>6, <1>7, RunReplaced
<1>9. /\ clients' \in [Clients -> ClientType]
      /\ \A d \in Clients \ {c} : clients'[d] = clients[d]
      /\ ClientSound(c)' /\ Listened(c)' /\ Arrived(c)' /\ ~Builds(c)'
  BY <1>1, OutIsSound
<1>10. TypeOK'
  BY <1>1, <1>8, <1>9 DEF TypeOK
<1>11. SeenGrows /\ Beside(r)
  BY <1>8 DEF SeenGrows, Beside, Stays
<1>12. OneRunIsVisible'
  <2>1. \A q \in Runs : runs'[q].phase \in Active => registry = q \/ q \in seen.struck
    BY <1>6, <1>8 DEF Inv, OneRunIsVisible, Active
  <2>2. registry \in Runs => runs'[registry].phase \notin {"none", "gone"}
    BY <1>6, <1>8, RunNumbers DEF Inv, OneRunIsVisible, Registered
  <2>3. QED
    BY <1>1, <2>1, <2>2 DEF OneRunIsVisible, Registered, TypeOK
<1>13. ~loopers[r].closed /\ ~AtWork(loopers[r])
  BY <1>3, <1>4 DEF RunSound, NewLooper, AtWork
<1>14. ClientsSound'
  <2>1. \A d \in Clients \ {c} : Builds(d) => clients[d].run # r
    BY <1>2 DEF Inv, ClientsSound
  <2>2. \A d \in Clients \ {c} : ClientSound(d)'
    BY <1>3, <1>9, <1>11, <2>1, SameClients DEF Unmoved
  <2>3. \A d \in Clients : Builds(d)' => Builds(d) /\ clients'[d].run = clients[d].run
    BY <1>9 DEF Builds
  <2>4. QED
    BY <1>9, <2>2, <2>3, OwnRuns DEF ClientsSound
<1>15. RunSound(r)'
  BY <1>3, <1>4, <1>6, <1>8 DEF RunSound, NewLooper
<1>16. EntryStands'
  <2>1. registry \in Runs /\ Orderly => runs'[registry].phase # "leaving"
    BY <1>6, <1>8, RunNumbers DEF Inv, EntryStands, Registered
  <2>2. QED
    BY <1>1, <2>1 DEF EntryStands, Registered, TypeOK, Orderly, Undisturbed
<1>17. Listening'
  <2>1. Kept(r) \subseteq Kept(r)'
    BY <1>3, <1>6, <1>8 DEF Kept, Active
  <2>2. \A d \in Clients \ {c} : Listened(d)' /\ Arrived(d)'
    BY <1>3, <1>6, <1>8, <1>9, <1>11, <1>13, <2>1, OtherClients DEF Unmoved
  <2>3. QED
    BY <1>9, <2>2 DEF Listening
<1>18. HistorySound'
  <2>1. ~Live(r)'
    BY <1>6, <1>8, <1>13 DEF Live, AtWork
  <2>2. QED
    BY <1>3, <1>11, <2>1, HistoryStep
<1>19. FeedSound(r)'
  BY <1>6, <1>8 DEF FeedSound
<1>20. QED
  BY <1>3, <1>6, <1>8, <1>10, <1>11, <1>12, <1>14, <1>15, <1>16, <1>17, <1>18, <1>19, RunStep

\* Listening to the entry that was just registered, or finding it gone.
LEMMA SubscribeOwnKeeps ==
  ASSUME Inv, NEW c \in Clients, SubscribeOwn(c)
  PROVE  Inv'
<1>1. /\ TypeOK /\ ClientSound(c) /\ clients[c] \in ClientType /\ clients[c].pc = "registered"
      /\ UNCHANGED <<registry, loopers, store, clear, used, seen>>
  BY Types DEF Inv, ClientsSound, SubscribeOwn
<1>2. CASE Registered /\ clients' = [clients EXCEPT ![c].pc = "building", ![c].rx = registry] /\ UNCHANGED runs
  <2>1. PICK new : new = [clients[c] EXCEPT !.pc = "building", !.rx = registry]
    OBVIOUS
  <2>2. registry \in Runs /\ registry # NoRun
    BY <1>1, <1>2 DEF Registered, TypeOK
  <2>3. /\ new \in ClientType /\ new.pc = "building" /\ new.rx = registry /\ new.run = clients[c].run
        /\ new.message = clients[c].message /\ new.sent = clients[c].sent
    BY <1>1, <2>1, <2>2 DEF ClientType
  <2>4. clients' = [clients EXCEPT ![c] = new]
    BY <1>1, <1>2, <2>1 DEF TypeOK
  <2>5. /\ clients' \in [Clients -> ClientType]
        /\ clients'[c] = new
        /\ \A d \in Clients \ {c} : clients'[d] = clients[d]
    BY <1>1, <2>3, <2>4, Replaced
  <2>6. Builds(c) /\ clients[c].sent = {}
    BY <1>1 DEF Builds, ClientSound
  <2>7. Undisturbed => new.rx = new.run
    <3>1. clients[c].run \in Runs /\ runs[clients[c].run].phase \in Active
      BY <1>1, <2>6 DEF ClientSound, ClientType, Active
    <3>2. QED
      BY <2>3, <3>1 DEF Inv, OneRunIsVisible, Undisturbed
  <2>8. Moves(c)
    BY <2>2, <2>3, <2>5, <2>6, <2>7 DEF Moves, Trying
  <2>9. TypeOK'
    BY <1>1, <1>2, <2>8 DEF TypeOK, Moves
  <2>10. QED
    BY <1>1, <1>2, <2>8, <2>9, StillRuns, StillSeen, ClientsKeep, QuietStep
<1>3. CASE clients' = Out(c) /\ runs' = Fails(clients[c].run)
  BY <1>1, <1>3, FailsKeep DEF Builds
<1>4. QED
  BY <1>2, <1>3 DEF SubscribeOwn

\* The loop of a run that was just built.
LEMMA BuiltLoop ==
  ASSUME NEW m \in Messages, NEW new \in LooperType, new.state = "Idle", new.inbox = <<>>,
         NEW l, l = Receives(new, Query(m))
  PROVE  /\ l \in LooperType /\ l.state = "Idle" /\ l.turn = new.turn /\ l.events = new.events
         /\ l.history = new.history /\ l.closed = new.closed /\ m \in Held(l)
<1>1. PICK k : k = Query(m)
  OBVIOUS
<1>2. PICK before : before = new.inbox
  OBVIOUS
<1>3. PICK inbox : inbox = Append(before, k)
  OBVIOUS
<1>4. k \in Command /\ k.message = m /\ before \in Seq(Command)
  BY <1>1, <1>2, Commands DEF LooperType
<1>5. inbox \in Seq(Command) /\ m \in WaitingIn(inbox)
  <2>1. /\ Append(before, k) \in Seq(Command)
        /\ WaitingIn(Append(before, k)) = WaitingIn(before) \cup {k.message}
    BY <1>4, WaitingFacts
  <2>2. QED
    BY <1>3, <1>4, <2>1
<1>6. l = [new EXCEPT !.inbox = inbox]
  BY <1>1, <1>2, <1>3 DEF Receives
<1>7. /\ l \in LooperType /\ l.state = "Idle" /\ l.turn = new.turn /\ l.events = new.events
      /\ l.history = new.history /\ l.closed = new.closed /\ l.inbox = inbox
  BY <1>5, <1>6 DEF LooperType
<1>8. QED
  BY <1>5, <1>7 DEF Held

\* The registered run is the only one that is built or runs.
LEMMA OnlyTheEntry ==
  ASSUME OneRunIsVisible, Undisturbed, NEW r \in Runs, runs[r].phase \in Active
  PROVE  registry = r
BY DEF OneRunIsVisible, Undisturbed

\* A run that is built loads what is saved, and gets the message it was asked for.
LEMMA BuildKeeps ==
  ASSUME Inv, NEW c \in Clients, Build(c)
  PROVE  Inv'
<1>1. /\ TypeOK /\ ClientSound(c) /\ clients[c] \in ClientType /\ clients[c].pc = "building"
      /\ Builds(c) /\ UNCHANGED <<registry, store, clear, used>>
  BY Types DEF Inv, ClientsSound, Build, Builds
<1>2. PICK r : r = clients[c].run
  OBVIOUS
<1>3. PICK m : m = clients[c].message
  OBVIOUS
<1>4. /\ r \in Runs /\ runs[r].phase = "building" /\ runs[r].initial = m /\ m \in Messages
      /\ clients[c].rx \in Runs /\ (Undisturbed => clients[c].rx = r)
  BY <1>1, <1>2, <1>3, RunNumbers DEF ClientSound, ClientType, Subscribed
<1>5. runs[r] \in RunnerType /\ loopers[r] = NewLooper /\ store \in SUBSET Messages
  BY <1>1, <1>4, Types DEF Inv, RunsSound, RunSound, TypeOK
<1>6. PICK new : new = [NewLooper EXCEPT !.state = "Idle", !.history = store]
  OBVIOUS
<1> PICK l : l = Receives(new, Query(m))
  OBVIOUS
<1>7. /\ l \in LooperType
      /\ l.state = "Idle" /\ l.turn = {} /\ l.events = <<>> /\ l.history = store
      /\ ~l.closed /\ m \in Held(l)
  <2>1. /\ new \in LooperType /\ new.state = "Idle" /\ new.inbox = <<>> /\ new.turn = {}
        /\ new.events = <<>> /\ new.history = store /\ ~new.closed
    BY <1>5, <1>6, NewTypes DEF NewLooper, LooperType
  <2>2. QED
    BY <1>4, <2>1, BuiltLoop
<1>8. /\ loopers' = [loopers EXCEPT ![r] = l]
      /\ runs' = [runs EXCEPT ![r].phase = "running", ![r].initial = NoMessage]
      /\ seen' = [seen EXCEPT !.stale = @ \/ \E other \in Runs \ {r} : AtWork(loopers[other])]
      /\ clients' = Watching(c, {m})
  BY <1>2, <1>3, <1>4, <1>6 DEF Build, Loaded
<1>9. PICK run : run = [runs[r] EXCEPT !.phase = "running", !.initial = NoMessage]
  OBVIOUS
<1>10. /\ run \in RunnerType /\ run.phase = "running" /\ run.control = runs[r].control
       /\ run.flags = runs[r].flags /\ run.initial = NoMessage
  BY <1>5, <1>9 DEF RunnerType
<1>11. runs' = [runs EXCEPT ![r] = run]
  BY <1>1, <1>4, <1>8, <1>9 DEF TypeOK
<1>12. /\ runs' \in [Runs -> RunnerType] /\ runs'[r] = run
       /\ \A q \in Runs \ {r} : runs'[q] = runs[q]
  BY <1>1, <1>4, <1>10, <1>11, RunReplaced
<1>13. /\ loopers' \in [Runs -> LooperType] /\ loopers'[r] = l
       /\ \A q \in Runs \ {r} : loopers'[q] = loopers[q]
  BY <1>1, <1>4, <1>7, <1>8, LoopReplaced
<1>14. PICK rx : rx = clients[c].rx
  OBVIOUS
<1>15. /\ clients' \in [Clients -> ClientType]
       /\ clients'[c].pc = "watching" /\ clients'[c].rx = rx /\ clients'[c].sent = {m}
       /\ \A d \in Clients \ {c} : clients'[d] = clients[d]
  <2>1. PICK cl : cl = [NewClient EXCEPT !.pc = "watching", !.rx = rx, !.sent = {m}]
    OBVIOUS
  <2>2. cl \in ClientType /\ cl.pc = "watching" /\ cl.rx = rx /\ cl.sent = {m}
    BY <1>4, <1>14, <2>1 DEF NewClient, ClientType
  <2>3. clients' = [clients EXCEPT ![c] = cl]
    BY <1>8, <1>14, <2>1 DEF Watching
  <2>4. QED
    BY <1>1, <2>2, <2>3, Replaced
<1>16. PICK stale \in BOOLEAN : stale = (seen.stale \/ \E other \in Runs \ {r} : AtWork(loopers[other]))
  OBVIOUS
<1>17. /\ seen' \in SeenType /\ seen'.stale = stale
       /\ seen'.struck = seen.struck /\ seen'.died = seen.died /\ seen'.dropped = seen.dropped
       /\ seen'.stopped = seen.stopped /\ seen'.astray = seen.astray
  <2>1. seen' = [seen EXCEPT !.stale = stale] /\ seen \in SeenType
    BY <1>1, <1>8, <1>16 DEF TypeOK, SeenType
  <2>2. QED
    BY <2>1 DEF SeenType
<1>18. TypeOK'
  BY <1>1, <1>12, <1>13, <1>15, <1>17 DEF TypeOK
<1>19. SeenGrows /\ Beside(r)
  BY <1>12, <1>13, <1>16, <1>17 DEF SeenGrows, Beside, Stays
<1>20. OneRunIsVisible'
  <2>1. \A q \in Runs : runs'[q].phase \in Active => registry = q \/ q \in seen.struck
    BY <1>4, <1>12 DEF Inv, OneRunIsVisible, Active
  <2>2. registry \in Runs => runs'[registry].phase \notin {"none", "gone"}
    BY <1>10, <1>12, RunNumbers DEF Inv, OneRunIsVisible, Registered
  <2>3. QED
    BY <1>1, <1>17, <2>1, <2>2 DEF OneRunIsVisible, Registered, TypeOK
<1>21. ClientsSound'
  <2>1. \A d \in Clients \ {c} : Builds(d) => clients[d].run # r
    BY <1>1, <1>2 DEF Inv, ClientsSound
  <2>2. \A d \in Clients \ {c} : ClientSound(d)'
    BY <1>4, <1>15, <1>19, <2>1, SameClients DEF Unmoved
  <2>3. ClientSound(c)'
    BY <1>4, <1>14, <1>15, RunNumbers DEF ClientSound, Builds, Trying
  <2>4. \A d \in Clients : Builds(d)' => Builds(d) /\ clients'[d].run = clients[d].run
    BY <1>15 DEF Builds
  <2>5. QED
    BY <2>2, <2>3, <2>4, OwnRuns DEF ClientsSound
<1>22. RunSound(r)'
  BY <1>7, <1>10, <1>12, <1>13 DEF RunSound
<1>23. EntryStands'
  <2>1. registry \in Runs /\ Orderly => runs'[registry].phase # "leaving"
    BY <1>10, <1>12, RunNumbers DEF Inv, EntryStands, Registered
  <2>2. QED
    BY <1>1, <1>17, <2>1 DEF EntryStands, Registered, TypeOK, Orderly, Undisturbed
<1>24. Listening'
  <2>1. m \in Kept(r)' /\ WaitingIn(runs[r].control) \subseteq Kept(r)'
    BY <1>7, <1>10, <1>12, <1>13 DEF Kept, Held, Active
  <2>2. Kept(r) = {m} \cup WaitingIn(runs[r].control)
    <3>1. Held(NewLooper) = {}
      BY DEF Held, NewLooper, WaitingIn
    <3>2. OnTheWay(runs[r]) = {m} \cup WaitingIn(runs[r].control)
      BY <1>4 DEF OnTheWay, Active
    <3>3. QED
      BY <1>4, <1>5, <3>1, <3>2, KeptParts
  <2>3. \A d \in Clients \ {c} : Listened(d)' /\ Arrived(d)'
    BY <1>4, <1>7, <1>10, <1>12, <1>13, <1>15, <1>19, <2>1, <2>2, OtherClients DEF Unmoved
  <2>4. Listened(c)' /\ Arrived(c)'
    <3>1. ASSUME Orderly' PROVE rx = r
      BY <1>4, <1>14, <1>17, <3>1 DEF Orderly, Undisturbed
    <3>2. QED
      BY <1>7, <1>10, <1>12, <1>13, <1>15, <2>1, <3>1 DEF Listened, Arrived
  <2>5. QED
    BY <2>3, <2>4 DEF Listening
<1>25. HistorySound'
  <2>1. SUFFICES ASSUME Undisturbed', ~seen'.stale
                 PROVE  /\ \A p, q \in Runs : Live(p)' /\ Live(q)' => p = q
                        /\ \A q \in Runs : Live(q)' => store \subseteq loopers'[q].history
    BY <1>1 DEF HistorySound
  <2>2. registry = r
    BY <1>4, <1>17, <2>1, OnlyTheEntry DEF Inv, Undisturbed, Active
  <2>3. ASSUME NEW q \in Runs \ {r} PROVE ~Live(q)'
    <3>1. ~AtWork(loopers[q])
      BY <1>16, <1>17, <2>1
    <3>2. runs[q].phase # "running"
      BY <1>17, <2>1, <2>2, OnlyTheEntry DEF Inv, Undisturbed, Active
    <3>3. QED
      BY <1>12, <1>13, <3>1, <3>2 DEF Live, AtWork
  <2>4. QED
    BY <1>7, <1>13, <2>3
<1>26. FeedSound(r)'
  <2>1. ASSUME Undisturbed' PROVE runs'[r].flags = FreshFlags
    BY <1>4, <1>10, <1>12, <1>17, <2>1 DEF Inv, NewFlags, Undisturbed
  <2>2. DOMAIN loopers'[r].events = {}
    BY <1>7, <1>13
  <2>3. FreshFlags.input = {}
    BY DEF FreshFlags
  <2>4. QED
    BY <1>7, <1>13, <2>1, <2>2, <2>3 DEF FeedSound, StateTold, InputTold
<1>27. QED
  BY <1>4, <1>10, <1>12, <1>18, <1>19, <1>20, <1>21, <1>22, <1>23, <1>24, <1>25, <1>26, RunStep

-----------------------------------------------------------------------------
(* What a loop tells its runner.                                           *)

\* An event that is sent is the last one, and what was there before stays in its place.
LEMMA SentEvents ==
  ASSUME NEW events \in Seq(Event), NEW e \in Event
  PROVE  LET more == Append(events, e)
         IN  /\ more \in Seq(Event) /\ more # <<>>
             /\ \E last \in DOMAIN more :
                   /\ more[last] = e
                   /\ \A i \in DOMAIN events : i \in DOMAIN more /\ more[i] = events[i] /\ i < last
                   /\ \A i \in DOMAIN more : i = last \/ i \in DOMAIN events
<1>1. PICK n : n = Len(events)
  OBVIOUS
<1>2. n \in Nat /\ DOMAIN events = 1 .. n
  BY <1>1, LenProperties
<1>3. /\ Append(events, e) \in Seq(Event) /\ Append(events, e) # <<>>
      /\ Len(Append(events, e)) = n + 1
      /\ \A i \in 1 .. n : Append(events, e)[i] = events[i]
      /\ Append(events, e)[n + 1] = e
  BY <1>1, AppendProperties
<1>4. DOMAIN Append(events, e) = 1 .. n + 1
  BY <1>3, LenProperties
<1>5. /\ n + 1 \in DOMAIN Append(events, e)
      /\ \A i \in DOMAIN events : i \in DOMAIN Append(events, e) /\ i < n + 1
      /\ \A i \in DOMAIN Append(events, e) : i = n + 1 \/ i \in DOMAIN events
  BY <1>2, <1>4
<1>6. QED
  BY <1>2, <1>3, <1>5

\* An event that tells a state tells the one to go by.
LEMMA TellingState ==
  ASSUME NEW events \in Seq(Event), NEW e \in Event, TellsState(e), NEW flags
  PROVE  StateTold(Append(events, e), e.to, flags)
<1>1. PICK more : more = Append(events, e)
  OBVIOUS
<1>2. PICK last \in DOMAIN more :
         /\ more[last] = e
         /\ \A i \in DOMAIN more : i = last \/ (i \in DOMAIN events /\ i < last)
  BY <1>1, SentEvents
<1>3. QED
  BY <1>1, <1>2 DEF StateTold

\* An event that tells none changes nothing, of a loop that is at work.
LEMMA NotTellingState ==
  ASSUME NEW events \in Seq(Event), NEW e \in Event, ~TellsState(e), NEW state, NEW flags,
         state # "Idle", StateTold(events, state, flags)
  PROVE  StateTold(Append(events, e), state, flags)
<1>1. PICK more : more = Append(events, e)
  OBVIOUS
<1>2. PICK last \in DOMAIN more :
         /\ more[last] = e
         /\ \A i \in DOMAIN events : i \in DOMAIN more /\ more[i] = events[i] /\ i < last
         /\ \A i \in DOMAIN more : i = last \/ i \in DOMAIN events
  BY <1>1, SentEvents
<1>3. ASSUME NEW i \in DOMAIN more, TellsState(more[i]), \A j \in DOMAIN more : j > i => ~TellsState(more[j])
      PROVE  more[i].to = state
  BY <1>2, <1>3 DEF StateTold
<1>4. ASSUME \A i \in DOMAIN more : ~TellsState(more[i])
      PROVE  flags.inFlight = (state # "Idle") /\ flags.paused = (state = "Paused")
  <2>1. \A i \in DOMAIN events : ~TellsState(events[i])
    BY <1>2, <1>4
  <2>2. QED
    BY <2>1 DEF StateTold
<1>5. QED
  BY <1>1, <1>3, <1>4 DEF StateTold

\* An event that tells the input of the turn, or its end.
LEMMA TellingInput ==
  ASSUME NEW events \in Seq(Event), NEW e \in Event, NEW turn, NEW flags, TellsInput(e),
         e.kind = "turnStart" => e.input \subseteq turn /\ e.input # {},
         e.kind # "turnStart" => turn = {}
  PROVE  InputTold(Append(events, e), turn, flags)
<1>1. PICK more : more = Append(events, e)
  OBVIOUS
<1>2. PICK last \in DOMAIN more :
         /\ more[last] = e
         /\ \A i \in DOMAIN more : i = last \/ (i \in DOMAIN events /\ i < last)
  BY <1>1, SentEvents
<1>3. QED
  BY <1>1, <1>2 DEF InputTold

\* An event that tells neither.
LEMMA NotTellingInput ==
  ASSUME NEW events \in Seq(Event), NEW e \in Event, ~TellsInput(e), NEW turn, NEW flags,
         InputTold(events, turn, flags)
  PROVE  InputTold(Append(events, e), turn, flags)
<1>1. PICK more : more = Append(events, e)
  OBVIOUS
<1>2. PICK last \in DOMAIN more :
         /\ more[last] = e
         /\ \A i \in DOMAIN events : i \in DOMAIN more /\ more[i] = events[i] /\ i < last
         /\ \A i \in DOMAIN more : i = last \/ i \in DOMAIN events
  BY <1>1, SentEvents
<1>3. ASSUME NEW i \in DOMAIN more, TellsInput(more[i]), \A j \in DOMAIN more : j > i => ~TellsInput(more[j])
      PROVE  IF more[i].kind = "turnStart"
             THEN more[i].input \subseteq turn /\ more[i].input # {}
             ELSE turn = {}
  <2>1. i \in DOMAIN events /\ more[i] = events[i]
    BY <1>2, <1>3
  <2>2. \A j \in DOMAIN events : j > i => ~TellsInput(events[j])
    BY <1>2, <1>3
  <2>3. QED
    BY <1>3, <2>1, <2>2 DEF InputTold
<1>4. ASSUME \A i \in DOMAIN more : ~TellsInput(more[i])
      PROVE  flags.input \subseteq turn /\ (flags.input = {}) = (turn = {})
  <2>1. \A i \in DOMAIN events : ~TellsInput(events[i])
    BY <1>2, <1>4
  <2>2. QED
    BY <2>1 DEF InputTold
<1>5. QED
  BY <1>1, <1>3, <1>4 DEF InputTold

\* A turn that takes in more is told by what told it.
LEMMA TurnGrows ==
  ASSUME NEW events, NEW turn, NEW more, NEW flags, turn \subseteq more, turn # {},
         InputTold(events, turn, flags)
  PROVE  InputTold(events, more, flags)
<1>1. more # {}
  OBVIOUS
<1>2. QED
  BY <1>1 DEF InputTold

\* What one of several events leaves for the rest, once the runner has read it.
LEMMA HeadRead ==
  ASSUME NEW events \in Seq(Event), events # <<>>
  PROVE  /\ Head(events) \in Event /\ Tail(events) \in Seq(Event)
         /\ 1 \in DOMAIN events /\ events[1] = Head(events)
         /\ \A i \in DOMAIN Tail(events) : i + 1 \in DOMAIN events /\ events[i + 1] = Tail(events)[i]
         /\ \A i \in DOMAIN events : i = 1 \/ (i - 1 \in DOMAIN Tail(events) /\ i = (i - 1) + 1)
         /\ \A i \in DOMAIN events : i \in Nat /\ i >= 1
         /\ \A i \in DOMAIN Tail(events) : i \in Nat
<1>1. PICK n : n = Len(events)
  OBVIOUS
<1>2. n \in Nat /\ n # 0 /\ DOMAIN events = 1 .. n
  BY <1>1, LenProperties, EmptySeq
<1>3. /\ Head(events) \in Event /\ Tail(events) \in Seq(Event) /\ Len(Tail(events)) = n - 1
      /\ \A i \in 1 .. n - 1 : Tail(events)[i] = events[i + 1]
  BY <1>1, HeadTailProperties
<1>4. DOMAIN Tail(events) = 1 .. n - 1
  BY <1>2, <1>3, LenProperties
<1>5. /\ 1 \in 1 .. n
      /\ \A i \in 1 .. n - 1 : i + 1 \in 1 .. n
      /\ \A i \in 1 .. n : i = 1 \/ (i - 1 \in 1 .. n - 1 /\ i = (i - 1) + 1)
  BY <1>2
<1>6. Head(events) = events[1]
  OBVIOUS
<1>7. QED
  BY <1>2, <1>3, <1>4, <1>5, <1>6

\* What the events are at, as far as FlagsAfter asks.
LEMMA EventKinds ==
  ASSUME NEW e \in Event
  PROVE  /\ e.kind \in {"state", "turnStart", "turnComplete"}
         /\ e.kind = "state" => e.to \in {"Idle", "Busy", "Paused"}
         /\ e.kind = "turnStart" => e.input \in SUBSET Messages
BY DEF Event

\* The flags an event leaves.
LEMMA FlagsAfterFacts ==
  ASSUME NEW e \in Event, NEW flags \in FlagsType
  PROVE  /\ FlagsAfter(flags, e) \in FlagsType
         /\ e.kind = "state" =>
               /\ FlagsAfter(flags, e).inFlight = (e.to # "Idle")
               /\ FlagsAfter(flags, e).paused = (e.to = "Paused")
               /\ FlagsAfter(flags, e).input = IF e.to = "Idle" THEN {} ELSE flags.input
         /\ e.kind = "turnStart" =>
               /\ FlagsAfter(flags, e).inFlight = flags.inFlight
               /\ FlagsAfter(flags, e).paused = flags.paused
               /\ FlagsAfter(flags, e).input = e.input
         /\ e.kind = "turnComplete" => FlagsAfter(flags, e) = flags
<1>1. CASE e.kind = "state"
  <2>1. PICK inFlight \in BOOLEAN : inFlight = (e.to # "Idle")
    OBVIOUS
  <2>2. PICK paused \in BOOLEAN : paused = (e.to = "Paused")
    OBVIOUS
  <2>3. PICK input : input = IF e.to = "Idle" THEN {} ELSE flags.input
    OBVIOUS
  <2>4. FlagsAfter(flags, e) =
           [flags EXCEPT !.inFlight = e.to # "Idle", !.paused = e.to = "Paused",
                         !.input = IF e.to = "Idle" THEN {} ELSE @]
    BY <1>1, Zenon DEF FlagsAfter
  <2>5. FlagsAfter(flags, e) = [flags EXCEPT !.inFlight = inFlight, !.paused = paused, !.input = input]
    BY <2>1, <2>2, <2>3, <2>4 DEF FlagsType
  <2>6. input \in SUBSET Messages
    BY <2>3 DEF FlagsType
  <2>7. QED
    BY <1>1, <2>1, <2>2, <2>3, <2>5, <2>6 DEF FlagsType
<1>2. CASE e.kind = "turnStart"
  <2>1. PICK input : input = e.input
    OBVIOUS
  <2>2. FlagsAfter(flags, e) = [flags EXCEPT !.input = input]
    BY <1>2, <2>1 DEF FlagsAfter
  <2>3. QED
    BY <1>2, <2>1, <2>2, EventKinds DEF FlagsType
<1>3. CASE e.kind = "turnComplete"
  <2>1. FlagsAfter(flags, e) = flags
    BY <1>3 DEF FlagsAfter
  <2>2. QED
    BY <1>3, <2>1
<1>4. QED
  BY <1>1, <1>2, <1>3, EventKinds

\* The runner reads an event, and the flags tell what is left untold.
LEMMA StateRead ==
  ASSUME NEW events \in Seq(Event), events # <<>>, NEW state, NEW flags \in FlagsType,
         StateTold(events, state, flags)
  PROVE  StateTold(Tail(events), state, FlagsAfter(flags, Head(events)))
<1>1. PICK e : e = Head(events)
  OBVIOUS
<1>2. PICK rest : rest = Tail(events)
  OBVIOUS
<1>3. PICK after : after = FlagsAfter(flags, e)
  OBVIOUS
<1>4. /\ e \in Event /\ 1 \in DOMAIN events /\ events[1] = e
      /\ \A i \in DOMAIN rest : i + 1 \in DOMAIN events /\ events[i + 1] = rest[i] /\ i \in Nat
      /\ \A i \in DOMAIN events : i = 1 \/ (i - 1 \in DOMAIN rest /\ i = (i - 1) + 1)
      /\ \A i \in DOMAIN events : i \in Nat /\ i >= 1
  BY <1>1, <1>2, HeadRead
<1>5. ASSUME NEW i \in DOMAIN rest, TellsState(rest[i]), \A j \in DOMAIN rest : j > i => ~TellsState(rest[j])
      PROVE  rest[i].to = state
  <2>1. i + 1 \in DOMAIN events /\ TellsState(events[i + 1])
    BY <1>4, <1>5
  <2>2. ASSUME NEW j \in DOMAIN events, j > i + 1 PROVE ~TellsState(events[j])
    <3>1. j # 1 /\ j \in Nat /\ i \in Nat
      BY <1>4, <1>5, <2>2
    <3>2. j - 1 \in DOMAIN rest /\ j - 1 > i /\ events[(j - 1) + 1] = rest[j - 1] /\ (j - 1) + 1 = j
      BY <1>4, <2>2, <3>1
    <3>3. QED
      BY <1>5, <3>2
  <2>3. events[i + 1].to = state
    BY <2>1, <2>2 DEF StateTold
  <2>4. QED
    BY <1>4, <1>5, <2>3
<1>6. ASSUME \A i \in DOMAIN rest : ~TellsState(rest[i])
      PROVE  after.inFlight = (state # "Idle") /\ after.paused = (state = "Paused")
  <2>1. \A j \in DOMAIN events : j # 1 => ~TellsState(events[j])
    BY <1>4, <1>6
  <2>2. CASE TellsState(e)
    <3>1. e.to = state
      BY <1>4, <2>1, <2>2 DEF StateTold
    <3>2. QED
      BY <1>3, <1>4, <2>2, <3>1, FlagsAfterFacts DEF TellsState
  <2>3. CASE ~TellsState(e)
    <3>1. flags.inFlight = (state # "Idle") /\ flags.paused = (state = "Paused")
      BY <1>4, <2>1, <2>3 DEF StateTold
    <3>2. e.kind \in {"turnStart", "turnComplete"}
      BY <1>4, <2>3, EventKinds DEF TellsState
    <3>3. QED
      BY <1>3, <1>4, <3>1, <3>2, FlagsAfterFacts
  <2>4. QED
    BY <2>2, <2>3
<1>7. QED
  BY <1>1, <1>2, <1>3, <1>5, <1>6 DEF StateTold

\* The same for the input of a turn.
LEMMA InputRead ==
  ASSUME NEW events \in Seq(Event), events # <<>>, NEW turn, NEW flags \in FlagsType,
         InputTold(events, turn, flags)
  PROVE  InputTold(Tail(events), turn, FlagsAfter(flags, Head(events)))
<1>1. PICK e : e = Head(events)
  OBVIOUS
<1>2. PICK rest : rest = Tail(events)
  OBVIOUS
<1>3. PICK after : after = FlagsAfter(flags, e)
  OBVIOUS
<1>4. /\ e \in Event /\ 1 \in DOMAIN events /\ events[1] = e
      /\ \A i \in DOMAIN rest : i + 1 \in DOMAIN events /\ events[i + 1] = rest[i] /\ i \in Nat
      /\ \A i \in DOMAIN events : i = 1 \/ (i - 1 \in DOMAIN rest /\ i = (i - 1) + 1)
      /\ \A i \in DOMAIN events : i \in Nat /\ i >= 1
  BY <1>1, <1>2, HeadRead
<1>5. ASSUME NEW i \in DOMAIN rest, TellsInput(rest[i]), \A j \in DOMAIN rest : j > i => ~TellsInput(rest[j])
      PROVE  IF rest[i].kind = "turnStart"
             THEN rest[i].input \subseteq turn /\ rest[i].input # {}
             ELSE turn = {}
  <2>1. i + 1 \in DOMAIN events /\ TellsInput(events[i + 1])
    BY <1>4, <1>5
  <2>2. ASSUME NEW j \in DOMAIN events, j > i + 1 PROVE ~TellsInput(events[j])
    <3>1. j # 1 /\ j \in Nat /\ i \in Nat
      BY <1>4, <1>5, <2>2
    <3>2. j - 1 \in DOMAIN rest /\ j - 1 > i /\ events[(j - 1) + 1] = rest[j - 1] /\ (j - 1) + 1 = j
      BY <1>4, <2>2, <3>1
    <3>3. QED
      BY <1>5, <3>2
  <2>3. IF events[i + 1].kind = "turnStart"
        THEN events[i + 1].input \subseteq turn /\ events[i + 1].input # {}
        ELSE turn = {}
    BY <2>1, <2>2 DEF InputTold
  <2>4. QED
    BY <1>4, <1>5, <2>3
<1>6. ASSUME \A i \in DOMAIN rest : ~TellsInput(rest[i])
      PROVE  after.input \subseteq turn /\ (after.input = {}) = (turn = {})
  <2>1. \A j \in DOMAIN events : j # 1 => ~TellsInput(events[j])
    BY <1>4, <1>6
  <2>2. CASE TellsInput(e)
    <3>1. IF e.kind = "turnStart" THEN e.input \subseteq turn /\ e.input # {} ELSE turn = {}
      BY <1>4, <2>1, <2>2 DEF InputTold
    <3>2. after.input = IF e.kind = "turnStart" THEN e.input ELSE {}
      BY <1>3, <1>4, <2>2, FlagsAfterFacts DEF TellsInput
    <3>3. QED
      BY <3>1, <3>2
  <2>3. CASE ~TellsInput(e)
    <3>1. flags.input \subseteq turn /\ (flags.input = {}) = (turn = {})
      BY <1>4, <2>1, <2>3 DEF InputTold
    <3>2. after.input = flags.input
      BY <1>3, <1>4, <2>3, EventKinds, FlagsAfterFacts DEF TellsInput
    <3>3. QED
      BY <3>1, <3>2
  <2>4. QED
    BY <2>2, <2>3
<1>7. QED
  BY <1>1, <1>2, <1>3, <1>5, <1>6 DEF InputTold

-----------------------------------------------------------------------------
(* The steps of a loop.                                                    *)

UsedType == [messages : 0 .. MaxMessages, orders : 0 .. MaxOrders, pausing : BOOLEAN]

\* What a step of a loop must not do to keep the invariant: it changes nothing but its own
\* part and the saved history, loses no message, and tells its runner what it is at.
LEMMA LoopStep ==
  ASSUME Inv, NEW r \in Runs, NEW n \in LooperType, loopers' = [loopers EXCEPT ![r] = n],
         UNCHANGED <<registry, runs, clients, clear>>,
         used' \in UsedType, seen' \in SeenType, SeenGrows,
         loopers[r].state # "none", n.state # "none", n.closed = loopers[r].closed,
         n.state = "Idle" => n.turn = {}, n.state \in {"Busy", "Paused"} => n.turn # {},
         n.state = "gone" => n.closed \/ r \in seen'.died,
         AtWork(n) => AtWork(loopers[r]),
         loopers[r].history \subseteq n.history,
         store' = store \/ (AtWork(loopers[r]) /\ store' = n.history),
         Orderly' /\ ~n.closed =>
            \A m \in Messages : m \in Held(loopers[r]) => m \in Held(n) \cup seen'.stopped,
         Undisturbed' /\ runs[r].phase = "running" /\ r \notin seen'.dropped /\ n.state # "gone" =>
            StateTold(n.events, n.state, runs[r].flags) /\ InputTold(n.events, n.turn, runs[r].flags)
  PROVE  Inv'
<1>1. TypeOK
  BY DEF Inv
<1>2. /\ loopers' \in [Runs -> LooperType] /\ loopers'[r] = n
      /\ \A q \in Runs \ {r} : loopers'[q] = loopers[q]
  BY <1>1, LoopReplaced
<1>3. n.history \in SUBSET Messages
  BY DEF LooperType
<1>4. TypeOK'
  BY <1>1, <1>2, <1>3 DEF TypeOK, UsedType
<1>5. Beside(r)
  BY <1>2 DEF Beside, Stays
<1>6. OneRunIsVisible'
  BY DEF Inv, OneRunIsVisible, SeenGrows, Registered
<1>7. ClientsSound'
  <2>1. \A d \in Clients : ClientSound(d)
    BY DEF Inv, ClientsSound
  <2>2. \A d \in Clients : ClientSound(d)'
    BY <2>1, Undone DEF ClientSound, Builds
  <2>3. \A d \in Clients : Builds(d)' => Builds(d) /\ clients'[d].run = clients[d].run
    BY DEF Builds
  <2>4. QED
    BY <2>2, <2>3, OwnRuns DEF ClientsSound
<1>8. RunSound(r) /\ runs[r].phase \notin {"none", "building", "failing"}
  BY DEF Inv, RunsSound, RunSound, NewLooper
<1>9. RunSound(r)'
  BY <1>2, <1>8 DEF RunSound
<1>10. EntryStands'
  BY Undone DEF Inv, EntryStands, Registered
<1>11. Listening'
  <2>1. \A d \in Clients : Listened(d)
    BY DEF Inv, Listening
  <2>2. ASSUME NEW d \in Clients, Orderly', clients[d].rx = r
        PROVE  runs'[r].phase # "leaving" /\ ~loopers'[r].closed
    BY <1>2, <2>1, <2>2, Undone, RunNumbers DEF Listened
  <2>3. ASSUME Orderly', ~n.closed, NEW m \in Messages, m \in Kept(r)
        PROVE  m \in Kept(r)' \cup seen'.stopped
    <3>1. m \in Held(loopers[r]) \/ m \in OnTheWay(runs[r])
      BY <2>3, KeptParts
    <3>2. Held(n) \subseteq Kept(r)' /\ OnTheWay(runs[r]) \subseteq Kept(r)'
      BY <1>2 DEF Kept, Held, OnTheWay
    <3>3. QED
      BY <2>3, <3>1, <3>2
  <2>4. ASSUME NEW d \in Clients PROVE Listened(d)' /\ Arrived(d)'
    BY <1>2, <1>5, <2>2, <2>3, OtherClients DEF Unmoved
  <2>5. QED
    BY <2>4 DEF Listening
<1>12. HistorySound'
  <2>1. Live(r)' => Live(r)
    BY <1>2 DEF Live, AtWork
  <2>2. AtWork(loopers[r]) => Live(r)
    BY DEF Live
  <2>3. QED
    BY <1>2, <1>5, <2>1, <2>2, HistoryStep
<1>13. FeedSound(r)'
  BY <1>2 DEF FeedSound
<1>14. QED
  BY <1>4, <1>5, <1>6, <1>7, <1>9, <1>10, <1>11, <1>12, <1>13, RunStep

\* A loop that is at a turn, or has a message to take, is at work.
LEMMA LoopFacts ==
  ASSUME Inv, NEW r \in Runs
  PROVE  /\ loopers[r] \in LooperType
         /\ loopers[r].state \in {"Busy", "Paused"} => loopers[r].turn # {} /\ AtWork(loopers[r])
         /\ loopers[r].state = "Idle" => loopers[r].turn = {}
         /\ loopers[r].state = "gone" => loopers[r].closed \/ r \in seen.died
         /\ Undisturbed /\ runs[r].phase = "running" /\ r \notin seen.dropped /\ loopers[r].state # "gone" =>
               /\ StateTold(loopers[r].events, loopers[r].state, runs[r].flags)
               /\ InputTold(loopers[r].events, loopers[r].turn, runs[r].flags)
         /\ runs[r].phase = "running" => ~loopers[r].closed
         /\ used \in UsedType /\ seen \in SeenType
BY Types DEF Inv, RunsSound, RunSound, FeedsSound, FeedSound, AtWork, TypeOK, UsedType

\* An event that is sent is the last one in the channel, or is dropped.
LEMMA EmitsFacts ==
  ASSUME NEW l \in LooperType, NEW e \in Event
  PROVE  /\ Emits(l, e) \in LooperType
         /\ Emits(l, e).state = l.state /\ Emits(l, e).inbox = l.inbox
         /\ Emits(l, e).pending = l.pending /\ Emits(l, e).turn = l.turn
         /\ Emits(l, e).history = l.history /\ Emits(l, e).closed = l.closed
         /\ ~l.closed /\ Len(l.events) < EventCap => Emits(l, e).events = Append(l.events, e)
<1>1. PICK events : events = Append(l.events, e)
  OBVIOUS
<1>2. events \in Seq(Event)
  BY <1>1, AppendProperties DEF LooperType
<1>3. CASE ~l.closed /\ Len(l.events) < EventCap
  <2>1. Emits(l, e) = [l EXCEPT !.events = events]
    BY <1>1, <1>3 DEF Emits
  <2>2. QED
    BY <1>1, <1>2, <2>1 DEF LooperType
<1>4. CASE ~(~l.closed /\ Len(l.events) < EventCap)
  <2>1. Emits(l, e) = l
    BY <1>4 DEF Emits
  <2>2. QED
    BY <1>4, <2>1
<1>5. QED
  BY <1>3, <1>4

\* The events a loop sends are events.
LEMMA EventFacts ==
  /\ \A to \in {"Idle", "Busy", "Paused"} : [kind |-> "state", to |-> to] \in Event
  /\ \A input \in SUBSET Messages : [kind |-> "turnStart", input |-> input] \in Event
  /\ [kind |-> "turnComplete"] \in Event
BY DEF Event

\* A change of state is told the runner.
LEMMA StateChangeFacts ==
  ASSUME NEW l \in LooperType, NEW to \in {"Idle", "Busy", "Paused"}
  PROVE  /\ StateChange(l, to) \in LooperType
         /\ StateChange(l, to).state = to /\ StateChange(l, to).inbox = l.inbox
         /\ StateChange(l, to).pending = l.pending /\ StateChange(l, to).turn = l.turn
         /\ StateChange(l, to).history = l.history /\ StateChange(l, to).closed = l.closed
         /\ ~l.closed /\ Len(l.events) < EventCap =>
               StateChange(l, to).events = Append(l.events, [kind |-> "state", to |-> to])
<1>1. PICK new : new = [l EXCEPT !.state = to]
  OBVIOUS
<1>2. /\ new \in LooperType /\ new.state = to /\ new.inbox = l.inbox /\ new.pending = l.pending
      /\ new.turn = l.turn /\ new.history = l.history /\ new.closed = l.closed /\ new.events = l.events
  BY <1>1 DEF LooperType
<1>3. PICK e : e = [kind |-> "state", to |-> to]
  OBVIOUS
<1>4. e \in Event
  BY <1>3, EventFacts
<1>5. StateChange(l, to) = Emits(new, e)
  BY <1>1, <1>3 DEF StateChange
<1>6. QED
  BY <1>2, <1>3, <1>4, <1>5, EmitsFacts

\* A runner that lost no event of its loop had room for it.
LEMMA LostFacts ==
  ASSUME TypeOK, NEW r \in Runs, NEW k \in Nat
  PROVE  /\ Lost(r, k) \in SeenType
         /\ Lost(r, k).struck = seen.struck /\ Lost(r, k).died = seen.died
         /\ Lost(r, k).stale = seen.stale /\ Lost(r, k).stopped = seen.stopped
         /\ Lost(r, k).astray = seen.astray /\ seen.dropped \subseteq Lost(r, k).dropped
         /\ r \notin Lost(r, k).dropped =>
               loopers[r].closed \/ Len(loopers[r].events) + k <= EventCap
<1>1. PICK dropped : dropped = seen.dropped \cup {r}
  OBVIOUS
<1>2. seen \in SeenType
  BY DEF TypeOK
<1>3. CASE ~loopers[r].closed /\ Len(loopers[r].events) + k > EventCap
  <2>1. Lost(r, k) = [seen EXCEPT !.dropped = dropped]
    BY <1>1, <1>3 DEF Lost
  <2>2. QED
    BY <1>1, <1>2, <2>1 DEF SeenType
<1>4. CASE ~(~loopers[r].closed /\ Len(loopers[r].events) + k > EventCap)
  <2>1. Lost(r, k) = seen
    BY <1>4 DEF Lost
  <2>2. PICK n : n = Len(loopers[r].events)
    OBVIOUS
  <2>3. n \in Nat /\ EventCap \in Nat
    BY <2>2, Types, LenProperties, RunsAssumption DEF LooperType
  <2>4. loopers[r].closed \/ n + k <= EventCap
    BY <1>4, <2>2, <2>3
  <2>5. QED
    BY <1>2, <2>1, <2>2, <2>4
<1>5. QED
  BY <1>3, <1>4

\* A loop of which the runner is told nothing, and that need not be told anything.
LEMMA SilentStep ==
  ASSUME Inv, NEW r \in Runs, NEW n \in LooperType, loopers' = [loopers EXCEPT ![r] = n],
         UNCHANGED <<registry, runs, clients, clear, store, seen>>, used' \in UsedType,
         loopers[r].state \in {"Idle", "Busy", "Paused"}, n.state = loopers[r].state,
         n.closed = loopers[r].closed, n.turn = loopers[r].turn, n.history = loopers[r].history,
         n.events = loopers[r].events,
         AtWork(n) => AtWork(loopers[r]),
         \A m \in Messages : m \in Held(loopers[r]) => m \in Held(n)
  PROVE  Inv'
<1>1. /\ loopers[r] \in LooperType
      /\ loopers[r].state \in {"Busy", "Paused"} => loopers[r].turn # {}
      /\ loopers[r].state = "Idle" => loopers[r].turn = {}
      /\ Undisturbed /\ runs[r].phase = "running" /\ r \notin seen.dropped =>
            /\ StateTold(loopers[r].events, loopers[r].state, runs[r].flags)
            /\ InputTold(loopers[r].events, loopers[r].turn, runs[r].flags)
      /\ seen \in SeenType
  BY LoopFacts
<1>2. SeenGrows
  BY DEF SeenGrows
<1>3. Undisturbed' => Undisturbed
  BY DEF Undisturbed
<1>4. QED
  BY <1>1, <1>2, <1>3, LoopStep

\* The messages a loop holds, when it has taken one from its channel.
LEMMA TakenFacts ==
  ASSUME NEW l \in LooperType, l.inbox # <<>>, NEW n, n.history = l.history, n.turn = l.turn,
         l.state # "gone", n.state # "gone", n.inbox = Tail(l.inbox),
         l.pending \subseteq n.pending,
         Head(l.inbox).kind = "query" => Head(l.inbox).message \in n.pending
  PROVE  \A m \in Messages : m \in Held(l) => m \in Held(n)
<1>1. PICK inbox : inbox = l.inbox
  OBVIOUS
<1>2. inbox \in Seq(Command) /\ inbox # <<>>
  BY <1>1 DEF LooperType
<1>3. Head(inbox) \in Command /\ WaitingIn(inbox) = {Head(inbox).message} \cup WaitingIn(Tail(inbox))
  BY <1>2, WaitingFacts
<1>4. Head(inbox).kind # "query" => Head(inbox).message \notin Messages
  BY <1>3, RunNumbers DEF Command
<1>5. QED
  BY <1>1, <1>3, <1>4 DEF Held

\* A loop takes the next message.
LEMMA TakeMessageKeeps ==
  ASSUME Inv, NEW r \in Runs, TakeMessage(r)
  PROVE  Inv'
<1>1. PICK l : l = loopers[r]
  OBVIOUS
<1>2. PICK message : message = Head(l.inbox)
  OBVIOUS
<1>3. PICK inbox : inbox = Tail(l.inbox)
  OBVIOUS
<1>4. PICK read : read = [l EXCEPT !.inbox = inbox]
  OBVIOUS
<1>5. /\ TypeOK /\ l \in LooperType /\ l.state \in {"Idle", "Busy", "Paused"} /\ l.inbox # <<>>
      /\ UNCHANGED <<registry, runs, clients, store, clear, used>> /\ used' \in UsedType
      /\ AtWork(l)
      /\ \/ /\ message.kind = "query"
            /\ loopers' = [loopers EXCEPT ![r] = [read EXCEPT !.pending = @ \cup {message.message},
                                                              !.armed = TRUE]]
            /\ UNCHANGED seen
         \/ /\ message.kind = "cancel"
            /\ loopers' = [loopers EXCEPT ![r] = [read EXCEPT !.latch = TRUE]]
            /\ UNCHANGED seen
         \/ /\ message.kind = "pause" /\ l.state = "Busy"
            /\ loopers' = [loopers EXCEPT ![r] = StateChange(read, "Paused")]
            /\ seen' = Lost(r, 1)
         \/ /\ message.kind = "resume" /\ l.state = "Paused"
            /\ loopers' = [loopers EXCEPT ![r] = [StateChange(read, "Busy") EXCEPT !.armed = TRUE]]
            /\ seen' = Lost(r, 1)
         \/ /\ message.kind \in {"pause", "resume"}
            /\ loopers' = [loopers EXCEPT ![r] = read]
            /\ UNCHANGED seen
  BY <1>1, <1>2, <1>3, <1>4, Types, LoopFacts DEF Inv, TakeMessage, AtWork
<1>6. message \in Command /\ inbox \in Seq(Command)
  <2>1. PICK s : s = l.inbox
    OBVIOUS
  <2>2. s \in Seq(Command) /\ s # <<>>
    BY <1>5, <2>1 DEF LooperType
  <2>3. Head(s) \in Command /\ Tail(s) \in Seq(Command)
    BY <2>2, WaitingFacts
  <2>4. QED
    BY <1>2, <1>3, <2>1, <2>3
<1>7. /\ read \in LooperType /\ read.state = l.state /\ read.inbox = inbox /\ read.pending = l.pending
      /\ read.turn = l.turn /\ read.history = l.history /\ read.closed = l.closed
      /\ read.events = l.events
  BY <1>4, <1>5, <1>6 DEF LooperType
<1>8. CASE message.kind = "query" /\ UNCHANGED seen /\
           loopers' = [loopers EXCEPT ![r] = [read EXCEPT !.pending = @ \cup {message.message},
                                                          !.armed = TRUE]]
  <2>1. PICK pending : pending = read.pending \cup {message.message}
    OBVIOUS
  <2>2. PICK n : n = [read EXCEPT !.pending = pending, !.armed = TRUE]
    OBVIOUS
  <2>3. message.message \in Messages
    BY <1>6, <1>8 DEF Command, Control
  <2>4. pending \in SUBSET Messages
    BY <1>7, <2>1, <2>3 DEF LooperType
  <2>5. /\ n \in LooperType /\ n.state = l.state /\ n.inbox = inbox /\ n.pending = pending
        /\ n.turn = l.turn /\ n.history = l.history /\ n.closed = l.closed /\ n.events = l.events
    BY <1>7, <2>2, <2>4 DEF LooperType
  <2>6. loopers' = [loopers EXCEPT ![r] = n]
    <3>1. [read EXCEPT !.pending = @ \cup {message.message}, !.armed = TRUE] = n
      BY <1>7, <2>1, <2>2 DEF LooperType
    <3>2. QED
      BY <1>8, <3>1
  <2>7. \A m \in Messages : m \in Held(l) => m \in Held(n)
    BY <1>2, <1>3, <1>5, <1>7, <2>1, <2>5, TakenFacts
  <2>8. QED
    BY <1>1, <1>2, <1>3, <1>5, <1>8, <2>5, <2>6, <2>7, SilentStep
<1>9. CASE message.kind = "cancel" /\ UNCHANGED seen /\
           loopers' = [loopers EXCEPT ![r] = [read EXCEPT !.latch = TRUE]]
  <2>1. PICK n : n = [read EXCEPT !.latch = TRUE]
    OBVIOUS
  <2>2. /\ n \in LooperType /\ n.state = l.state /\ n.inbox = inbox /\ n.pending = l.pending
        /\ n.turn = l.turn /\ n.history = l.history /\ n.closed = l.closed /\ n.events = l.events
    BY <1>7, <2>1 DEF LooperType
  <2>3. \A m \in Messages : m \in Held(l) => m \in Held(n)
    BY <1>1, <1>2, <1>3, <1>5, <1>9, <2>2, TakenFacts
  <2>4. QED
    BY <1>1, <1>2, <1>3, <1>5, <1>9, <2>1, <2>2, <2>3, SilentStep
<1>10. CASE message.kind \in {"pause", "resume"} /\ UNCHANGED seen /\
           loopers' = [loopers EXCEPT ![r] = read]
  <2>1. \A m \in Messages : m \in Held(l) => m \in Held(read)
    BY <1>1, <1>2, <1>3, <1>5, <1>7, <1>10, TakenFacts
  <2>2. QED
    BY <1>1, <1>2, <1>3, <1>5, <1>7, <1>10, <2>1, SilentStep
<1>11. ASSUME NEW to \in {"Busy", "Paused"}, l.state \in {"Busy", "Paused"}, message.kind # "query",
             NEW n \in LooperType, loopers' = [loopers EXCEPT ![r] = n], seen' = Lost(r, 1),
             n.state = to, n.inbox = inbox, n.pending = l.pending, n.turn = l.turn,
             n.history = l.history, n.closed = l.closed,
             ~l.closed /\ Len(l.events) < EventCap => n.events = Append(l.events, [kind |-> "state", to |-> to])
      PROVE  Inv'
  <2>1. l.turn # {}
    BY <1>1, <1>2, <1>3, <1>11, LoopFacts
  <2>2. seen' \in SeenType /\ SeenGrows
    BY <1>5, <1>11, LostFacts DEF SeenGrows
  <2>3. \A m \in Messages : m \in Held(l) => m \in Held(n)
    BY <1>1, <1>2, <1>3, <1>5, <1>11, TakenFacts
  <2>4. ASSUME Undisturbed', runs[r].phase = "running", r \notin seen'.dropped
        PROVE  StateTold(n.events, n.state, runs[r].flags) /\ InputTold(n.events, n.turn, runs[r].flags)
    <3>1. PICK e : e = [kind |-> "state", to |-> to]
      OBVIOUS
    <3>2. PICK events : events = l.events
      OBVIOUS
    <3>3. e \in Event /\ TellsState(e) /\ e.to = to /\ ~TellsInput(e)
      BY <1>11, <3>1, EventFacts DEF TellsState, TellsInput
    <3>4. events \in Seq(Event) /\ Len(events) \in Nat /\ EventCap \in Nat
      BY <1>5, <3>2, LenProperties, RunsAssumption DEF LooperType
    <3>5. ~l.closed /\ InputTold(events, l.turn, runs[r].flags)
      BY <1>1, <1>2, <1>3, <1>5, <2>2, <2>4, <3>2, Undone, LoopFacts DEF SeenGrows
    <3>6. Len(events) + 1 <= EventCap
      BY <1>1, <1>2, <1>3, <1>5, <1>11, <2>4, <3>2, <3>5, LostFacts
    <3>7. n.events = Append(events, e)
      BY <1>11, <3>1, <3>2, <3>4, <3>5, <3>6
    <3>8. StateTold(Append(events, e), e.to, runs[r].flags)
      BY <3>3, <3>4, TellingState
    <3>9. InputTold(Append(events, e), l.turn, runs[r].flags)
      BY <3>3, <3>4, <3>5, NotTellingInput
    <3>10. QED
      BY <1>11, <3>3, <3>7, <3>8, <3>9
  <2>5. QED
    BY <1>1, <1>2, <1>3, <1>5, <1>11, <2>1, <2>2, <2>3, <2>4, LoopStep
<1>12. CASE /\ message.kind = "pause" /\ l.state = "Busy"
           /\ loopers' = [loopers EXCEPT ![r] = StateChange(read, "Paused")]
           /\ seen' = Lost(r, 1)
  <2>1. PICK n : n = StateChange(read, "Paused")
    OBVIOUS
  <2>2. /\ n \in LooperType /\ n.state = "Paused" /\ n.inbox = inbox /\ n.pending = l.pending
        /\ n.turn = l.turn /\ n.history = l.history /\ n.closed = l.closed
        /\ ~l.closed /\ Len(l.events) < EventCap => n.events = Append(l.events, [kind |-> "state", to |-> "Paused"])
    BY <1>7, <2>1, StateChangeFacts
  <2>3. QED
    BY <1>11, <1>12, <2>1, <2>2
<1>13. CASE /\ message.kind = "resume" /\ l.state = "Paused"
           /\ loopers' = [loopers EXCEPT ![r] = [StateChange(read, "Busy") EXCEPT !.armed = TRUE]]
           /\ seen' = Lost(r, 1)
  <2>1. PICK told : told = StateChange(read, "Busy")
    OBVIOUS
  <2>2. PICK n : n = [told EXCEPT !.armed = TRUE]
    OBVIOUS
  <2>3. /\ told \in LooperType /\ told.state = "Busy" /\ told.inbox = inbox /\ told.pending = l.pending
        /\ told.turn = l.turn /\ told.history = l.history /\ told.closed = l.closed
        /\ ~l.closed /\ Len(l.events) < EventCap => told.events = Append(l.events, [kind |-> "state", to |-> "Busy"])
    BY <1>7, <2>1, StateChangeFacts
  <2>4. /\ n \in LooperType /\ n.state = "Busy" /\ n.inbox = inbox /\ n.pending = l.pending
        /\ n.turn = l.turn /\ n.history = l.history /\ n.closed = l.closed /\ n.events = told.events
    BY <2>2, <2>3 DEF LooperType
  <2>5. loopers' = [loopers EXCEPT ![r] = n]
    BY <1>13, <2>1, <2>2
  <2>6. QED
    BY <1>11, <1>13, <2>3, <2>4, <2>5
<1>14. QED
  BY <1>5, <1>8, <1>9, <1>10, <1>12, <1>13

\* A turn starts with all that is queued for it.
LEMMA StartTurnKeeps ==
  ASSUME Inv, NEW r \in Runs, StartTurn(r)
  PROVE  Inv'
<1>1. PICK l : l = loopers[r]
  OBVIOUS
<1>2. PICK pending : pending = l.pending
  OBVIOUS
<1>3. PICK started : started = [l EXCEPT !.turn = pending, !.pending = {}, !.armed = FALSE]
  OBVIOUS
<1>4. PICK busy : busy = StateChange(started, "Busy")
  OBVIOUS
<1>5. PICK start : start = [kind |-> "turnStart", input |-> pending]
  OBVIOUS
<1>6. PICK n : n = Emits(busy, start)
  OBVIOUS
<1>7. /\ TypeOK /\ l \in LooperType /\ l.state = "Idle" /\ pending # {}
      /\ loopers' = [loopers EXCEPT ![r] = n] /\ seen' = Lost(r, 2)
      /\ UNCHANGED <<registry, runs, clients, store, clear, used>> /\ used' \in UsedType
  BY <1>1, <1>2, <1>3, <1>4, <1>5, <1>6, Types, LoopFacts DEF Inv, StartTurn
<1>8. l.turn = {} /\ AtWork(l) /\ pending \in SUBSET Messages
  BY <1>1, <1>2, <1>7, LoopFacts DEF AtWork, LooperType
<1>9. /\ started \in LooperType /\ started.turn = pending /\ started.pending = {}
      /\ started.inbox = l.inbox /\ started.history = l.history /\ started.closed = l.closed
      /\ started.events = l.events
  BY <1>3, <1>7, <1>8 DEF LooperType
<1>10. PICK e : e = [kind |-> "state", to |-> "Busy"]
  OBVIOUS
<1>11. PICK events : events = l.events
  OBVIOUS
<1>12. PICK more : more = Append(events, e)
  OBVIOUS
<1>13. /\ e \in Event /\ TellsState(e) /\ e.to = "Busy"
       /\ start \in Event /\ ~TellsState(start) /\ TellsInput(start)
       /\ start.kind = "turnStart" /\ start.input = pending
  BY <1>5, <1>8, <1>10, EventFacts DEF TellsState, TellsInput
<1>14. /\ busy \in LooperType /\ busy.state = "Busy" /\ busy.turn = pending /\ busy.pending = {}
       /\ busy.inbox = l.inbox /\ busy.history = l.history /\ busy.closed = l.closed
       /\ ~l.closed /\ Len(events) < EventCap => busy.events = more
  BY <1>4, <1>9, <1>10, <1>11, <1>12, StateChangeFacts
<1>15. /\ n \in LooperType /\ n.state = "Busy" /\ n.turn = pending /\ n.pending = {}
       /\ n.inbox = l.inbox /\ n.history = l.history /\ n.closed = l.closed
       /\ ~busy.closed /\ Len(busy.events) < EventCap => n.events = Append(busy.events, start)
  BY <1>6, <1>13, <1>14, EmitsFacts
<1>16. seen' \in SeenType /\ SeenGrows
  BY <1>7, LostFacts DEF SeenGrows
<1>17. \A m \in Messages : m \in Held(l) => m \in Held(n)
  BY <1>2, <1>7, <1>8, <1>15 DEF Held
<1>18. ASSUME Undisturbed', runs[r].phase = "running", r \notin seen'.dropped
       PROVE  StateTold(n.events, n.state, runs[r].flags) /\ InputTold(n.events, n.turn, runs[r].flags)
  <2>1. events \in Seq(Event) /\ Len(events) \in Nat /\ EventCap \in Nat
    BY <1>7, <1>11, LenProperties, RunsAssumption DEF LooperType
  <2>2. ~l.closed
    BY <1>1, <1>18, LoopFacts
  <2>3. Len(events) + 2 <= EventCap
    BY <1>1, <1>7, <1>11, <1>18, <2>2, LostFacts
  <2>4. busy.events = more
    BY <1>14, <2>1, <2>2, <2>3
  <2>5. more \in Seq(Event) /\ Len(more) = Len(events) + 1
    BY <1>12, <1>13, <2>1, AppendProperties
  <2>6. n.events = Append(more, start)
    <3>1. Len(more) < EventCap
      BY <2>1, <2>3, <2>5
    <3>2. QED
      BY <1>14, <1>15, <2>2, <2>4, <3>1
  <2>7. StateTold(more, "Busy", runs[r].flags)
    BY <1>12, <1>13, <2>1, TellingState
  <2>8. StateTold(Append(more, start), "Busy", runs[r].flags)
    BY <1>13, <2>5, <2>7, NotTellingState
  <2>9. InputTold(Append(more, start), pending, runs[r].flags)
    BY <1>7, <1>13, <2>5, TellingInput
  <2>10. QED
    BY <1>15, <2>6, <2>8, <2>9
<1>19. QED
  BY <1>1, <1>7, <1>8, <1>15, <1>16, <1>17, <1>18, LoopStep

\* What is queued joins the turn.
LEMMA SteerKeeps ==
  ASSUME Inv, NEW r \in Runs, Steer(r)
  PROVE  Inv'
<1>1. PICK l : l = loopers[r]
  OBVIOUS
<1>2. PICK turn : turn = l.turn \cup l.pending
  OBVIOUS
<1>3. PICK n : n = [l EXCEPT !.turn = turn, !.pending = {}]
  OBVIOUS
<1>4. /\ TypeOK /\ l \in LooperType /\ l.state = "Busy" /\ l.turn # {} /\ AtWork(l)
      /\ UNCHANGED <<registry, runs, clients, store, clear, used, seen>> /\ used' \in UsedType
      /\ seen' \in SeenType
  BY <1>1, Types, LoopFacts DEF Inv, Steer
<1>5. loopers' = [loopers EXCEPT ![r] = n]
  BY <1>1, <1>2, <1>3, <1>4 DEF Steer, TypeOK, LooperType
<1>6. turn \in SUBSET Messages /\ turn # {} /\ l.turn \subseteq turn
  BY <1>2, <1>4 DEF LooperType
<1>7. /\ n \in LooperType /\ n.state = "Busy" /\ n.turn = turn /\ n.pending = {}
      /\ n.inbox = l.inbox /\ n.history = l.history /\ n.closed = l.closed /\ n.events = l.events
  BY <1>3, <1>4, <1>6 DEF LooperType
<1>8. SeenGrows
  BY <1>4 DEF SeenGrows
<1>9. \A m \in Messages : m \in Held(l) => m \in Held(n)
  BY <1>2, <1>4, <1>7 DEF Held
<1>10. ASSUME Undisturbed', runs[r].phase = "running", r \notin seen'.dropped
       PROVE  StateTold(n.events, n.state, runs[r].flags) /\ InputTold(n.events, n.turn, runs[r].flags)
  <2>1. Undisturbed /\ r \notin seen.dropped
    BY <1>4, <1>10 DEF Undisturbed
  <2>2. StateTold(l.events, l.state, runs[r].flags) /\ InputTold(l.events, l.turn, runs[r].flags)
    BY <1>1, <1>4, <1>10, <2>1, LoopFacts
  <2>3. InputTold(l.events, turn, runs[r].flags)
    BY <1>4, <1>6, <2>2, TurnGrows
  <2>4. QED
    BY <1>4, <1>7, <2>2, <2>3
<1>11. QED
  BY <1>1, <1>4, <1>5, <1>6, <1>7, <1>8, <1>9, <1>10, LoopStep

\* A turn ends: with all that was queued, or with none of it.
LEMMA EndTurnKeeps ==
  ASSUME Inv, NEW r \in Runs, loopers[r].state \in {"Busy", "Paused"},
         NEW queued \in SUBSET Messages, EndTurn(r, queued),
         seen' \in SeenType, SeenGrows, Lost(r, 2).dropped \subseteq seen'.dropped,
         loopers[r].pending \subseteq queued \cup seen'.stopped,
         UNCHANGED <<registry, runs, clients, clear, used>>
  PROVE  Inv'
<1>1. PICK l : l = loopers[r]
  OBVIOUS
<1>2. PICK history : history = l.history \cup l.turn
  OBVIOUS
<1>3. PICK armed : armed = IF l.latch THEN FALSE ELSE l.armed
  OBVIOUS
<1>4. PICK ended : ended = [l EXCEPT !.history = history, !.turn = {}, !.pending = queued,
                                     !.latch = FALSE, !.armed = armed]
  OBVIOUS
<1>5. PICK complete : complete = [kind |-> "turnComplete"]
  OBVIOUS
<1>6. PICK told : told = Emits(ended, complete)
  OBVIOUS
<1>7. PICK n : n = StateChange(told, "Idle")
  OBVIOUS
<1>8. /\ TypeOK /\ l \in LooperType /\ l.turn # {} /\ AtWork(l) /\ used' \in UsedType
  BY <1>1, Types, LoopFacts DEF Inv
<1>9. history \in SUBSET Messages /\ armed \in BOOLEAN
  BY <1>2, <1>3, <1>8 DEF LooperType
<1>10. /\ ended \in LooperType /\ ended.turn = {} /\ ended.pending = queued /\ ended.inbox = l.inbox
       /\ ended.history = history /\ ended.closed = l.closed /\ ended.events = l.events
  BY <1>4, <1>8, <1>9 DEF LooperType
<1>11. [l EXCEPT !.history = @ \cup l.turn, !.turn = {}, !.pending = queued,
                 !.latch = FALSE, !.armed = IF l.latch THEN FALSE ELSE @] = ended
  BY <1>2, <1>3, <1>4, <1>8 DEF LooperType
<1>12. loopers' = [loopers EXCEPT ![r] = n] /\ store' = history
  BY <1>1, <1>5, <1>6, <1>7, <1>10, <1>11 DEF EndTurn
<1>13. PICK e : e = [kind |-> "state", to |-> "Idle"]
  OBVIOUS
<1>14. PICK events : events = l.events
  OBVIOUS
<1>15. PICK more : more = Append(events, complete)
  OBVIOUS
<1>16. /\ complete \in Event
       /\ e \in Event /\ TellsState(e) /\ e.to = "Idle" /\ TellsInput(e) /\ e.kind # "turnStart"
  BY <1>5, <1>13, EventFacts DEF TellsState, TellsInput
<1>17. /\ told \in LooperType /\ told.turn = {} /\ told.pending = queued /\ told.inbox = l.inbox
       /\ told.history = history /\ told.closed = l.closed
       /\ ~l.closed /\ Len(events) < EventCap => told.events = more
  BY SMTT(40), <1>6, <1>10, <1>14, <1>15, <1>16, EmitsFacts
<1>18. /\ n \in LooperType /\ n.state = "Idle" /\ n.turn = {} /\ n.pending = queued
       /\ n.inbox = l.inbox /\ n.history = history /\ n.closed = l.closed
       /\ ~told.closed /\ Len(told.events) < EventCap => n.events = Append(told.events, e)
  BY <1>7, <1>13, <1>17, StateChangeFacts
<1>19. ASSUME NEW m \in Messages, m \in Held(l) PROVE m \in Held(n) \cup seen'.stopped
  <2>1. m \in history \/ m \in l.pending \/ m \in WaitingIn(l.inbox)
    BY <1>1, <1>2, <1>19 DEF Held
  <2>2. history \subseteq Held(n) /\ queued \subseteq Held(n) /\ WaitingIn(l.inbox) \subseteq Held(n)
    BY <1>18 DEF Held
  <2>3. QED
    BY <1>1, <2>1, <2>2
<1>20. ASSUME Undisturbed', runs[r].phase = "running", r \notin seen'.dropped
       PROVE  StateTold(n.events, n.state, runs[r].flags) /\ InputTold(n.events, n.turn, runs[r].flags)
  <2>1. events \in Seq(Event) /\ Len(events) \in Nat /\ EventCap \in Nat
    BY <1>8, <1>14, LenProperties, RunsAssumption DEF LooperType
  <2>2. ~l.closed
    BY <1>1, <1>20, LoopFacts
  <2>3. Len(events) + 2 <= EventCap
    BY <1>1, <1>8, <1>14, <1>20, <2>2, LostFacts
  <2>4. told.events = more
    BY <1>17, <2>1, <2>2, <2>3
  <2>5. more \in Seq(Event) /\ Len(more) = Len(events) + 1
    BY <1>15, <1>16, <2>1, AppendProperties
  <2>6. n.events = Append(more, e)
    <3>1. Len(more) < EventCap
      BY <2>1, <2>3, <2>5
    <3>2. QED
      BY <1>17, <1>18, <2>2, <2>4, <3>1
  <2>7. StateTold(Append(more, e), "Idle", runs[r].flags)
    BY <1>16, <2>5, TellingState
  <2>8. InputTold(Append(more, e), {}, runs[r].flags)
    BY <1>16, <2>5, TellingInput
  <2>9. QED
    BY <1>18, <2>6, <2>7, <2>8
<1>21. AtWork(n) => AtWork(l)
  BY <1>8
<1>22. l.history \subseteq n.history /\ store' = n.history
  BY <1>2, <1>12, <1>18
<1>23. QED
  BY <1>1, <1>8, <1>12, <1>18, <1>19, <1>20, <1>21, <1>22, LoopStep

\* A turn that is done or failed, or cancelled with what was queued for it.
LEMMA TurnEndsKeeps ==
  ASSUME Inv, NEW r \in Runs, FinishTurn(r) \/ CancelTurn(r)
  PROVE  Inv'
<1>1. TypeOK /\ loopers[r] \in LooperType
  BY Types DEF Inv
<1>2. PICK pending : pending = loopers[r].pending
  OBVIOUS
<1>3. pending \in SUBSET Messages
  BY <1>1, <1>2 DEF LooperType
<1>4. /\ Lost(r, 2) \in SeenType
      /\ Lost(r, 2).struck = seen.struck /\ Lost(r, 2).died = seen.died
      /\ Lost(r, 2).stale = seen.stale /\ Lost(r, 2).stopped = seen.stopped
      /\ Lost(r, 2).astray = seen.astray /\ seen.dropped \subseteq Lost(r, 2).dropped
  BY <1>1, LostFacts
<1>5. CASE FinishTurn(r)
  <2>1. /\ loopers[r].state = "Busy" /\ EndTurn(r, pending) /\ seen' = Lost(r, 2)
        /\ UNCHANGED <<registry, runs, clients, clear, used>>
    BY <1>2, <1>5 DEF FinishTurn
  <2>2. SeenGrows
    BY <1>4, <2>1 DEF SeenGrows
  <2>3. QED
    BY <1>2, <1>3, <1>4, <2>1, <2>2, EndTurnKeeps
<1>6. CASE CancelTurn(r)
  <2>1. PICK lost : lost = Lost(r, 2)
    OBVIOUS
  <2>2. PICK stopped : stopped = lost.stopped \cup pending
    OBVIOUS
  <2>3. /\ loopers[r].state \in {"Busy", "Paused"} /\ EndTurn(r, {})
        /\ seen' = [lost EXCEPT !.stopped = stopped]
        /\ UNCHANGED <<registry, runs, clients, clear, used>>
    BY <1>2, <1>4, <1>6, <2>1, <2>2 DEF CancelTurn, SeenType
  <2>4. stopped \in SUBSET (Messages \cup {NoMessage})
    BY <1>3, <1>4, <2>1, <2>2 DEF SeenType
  <2>5. /\ seen' \in SeenType /\ seen'.stopped = stopped /\ seen'.dropped = lost.dropped
        /\ seen'.struck = lost.struck /\ seen'.died = lost.died /\ seen'.stale = lost.stale
        /\ seen'.astray = lost.astray
    BY <1>4, <2>1, <2>3, <2>4 DEF SeenType
  <2>6. SeenGrows
    BY <1>4, <2>1, <2>2, <2>5 DEF SeenGrows
  <2>7. {} \in SUBSET Messages /\ pending \subseteq {} \cup seen'.stopped
    BY <2>2, <2>5
  <2>8. QED
    BY <1>2, <2>1, <2>3, <2>5, <2>6, <2>7, EndTurnKeeps
<1>7. QED
  BY <1>5, <1>6

\* Nothing is left to cancel.
LEMMA CancelNothingKeeps ==
  ASSUME Inv, NEW r \in Runs, CancelNothing(r)
  PROVE  Inv'
<1>1. PICK l : l = loopers[r]
  OBVIOUS
<1>2. PICK n : n = [l EXCEPT !.latch = FALSE, !.armed = FALSE]
  OBVIOUS
<1>3. /\ TypeOK /\ l \in LooperType /\ l.state = "Idle" /\ used' \in UsedType
      /\ UNCHANGED <<registry, runs, clients, store, clear, used, seen>>
  BY <1>1, Types, LoopFacts DEF Inv, CancelNothing
<1>4. loopers' = [loopers EXCEPT ![r] = n]
  BY <1>1, <1>2, <1>3 DEF CancelNothing, TypeOK
<1>5. /\ n \in LooperType /\ n.state = "Idle" /\ n.turn = l.turn /\ n.pending = l.pending
      /\ n.inbox = l.inbox /\ n.history = l.history /\ n.closed = l.closed /\ n.events = l.events
  BY <1>2, <1>3 DEF LooperType
<1>6. \A m \in Messages : m \in Held(l) => m \in Held(n)
  BY <1>3, <1>5 DEF Held
<1>7. AtWork(n) => AtWork(l)
  BY <1>3, <1>5 DEF AtWork
<1>8. QED
  BY <1>1, <1>3, <1>4, <1>5, <1>6, <1>7, SilentStep

\* A loop that is gone: its runner hears nothing of it any more.
LEMMA GoneStep ==
  ASSUME Inv, NEW r \in Runs, NEW n \in LooperType, loopers' = [loopers EXCEPT ![r] = n],
         UNCHANGED <<registry, runs, clients, clear>>, used' \in UsedType,
         seen' \in SeenType, SeenGrows, loopers[r].state # "none",
         n.state = "gone", n.closed = loopers[r].closed, n.closed \/ r \in seen'.died,
         loopers[r].history \subseteq n.history,
         store' = store \/ (AtWork(loopers[r]) /\ store' = n.history)
  PROVE  Inv'
<1>1. ~AtWork(n)
  BY DEF AtWork
<1>2. ~(Orderly' /\ ~n.closed)
  BY DEF Orderly
<1>3. QED
  BY <1>1, <1>2, LoopStep

\* A loop panics.
LEMMA DieKeeps ==
  ASSUME Inv, NEW r \in Runs, Die(r)
  PROVE  Inv'
<1>1. PICK l : l = loopers[r]
  OBVIOUS
<1>2. PICK n : n = [l EXCEPT !.state = "gone"]
  OBVIOUS
<1>3. PICK died : died = seen.died \cup {r}
  OBVIOUS
<1>4. PICK orders : orders = used.orders + 1
  OBVIOUS
<1>5. /\ TypeOK /\ l \in LooperType /\ l.state = "Busy" /\ used \in UsedType /\ seen \in SeenType
      /\ used.orders < MaxOrders
      /\ UNCHANGED <<registry, runs, clients, store, clear>>
  BY <1>1, Types, LoopFacts DEF Inv, Die
<1>6. /\ loopers' = [loopers EXCEPT ![r] = n] /\ seen' = [seen EXCEPT !.died = died]
      /\ used' = [used EXCEPT !.orders = orders]
  BY <1>1, <1>2, <1>3, <1>4, <1>5 DEF Die, TypeOK, UsedType, SeenType
<1>7. /\ n \in LooperType /\ n.state = "gone" /\ n.history = l.history /\ n.closed = l.closed
  BY <1>2, <1>5 DEF LooperType
<1>8. orders \in 0 .. MaxOrders
  BY <1>4, <1>5, RunsAssumption DEF UsedType
<1>9. used' \in UsedType
  BY <1>5, <1>6, <1>8 DEF UsedType
<1>10. /\ seen' \in SeenType /\ SeenGrows /\ r \in seen'.died
  BY <1>3, <1>5, <1>6 DEF SeenType, SeenGrows
<1>11. QED
  BY <1>1, <1>5, <1>6, <1>7, <1>9, <1>10, GoneStep

\* A loop whose handle is dropped ends; a turn that was paused is saved with the history.
LEMMA ExitKeeps ==
  ASSUME Inv, NEW r \in Runs, Exit(r)
  PROVE  Inv'
<1>1. PICK l : l = loopers[r]
  OBVIOUS
<1>2. PICK history : history = l.history \cup l.turn
  OBVIOUS
<1>3. /\ TypeOK /\ l \in LooperType /\ l.closed /\ used' \in UsedType /\ seen' \in SeenType
      /\ UNCHANGED <<registry, runs, clients, clear, used, seen>>
  BY <1>1, Types, LoopFacts DEF Inv, Exit
<1>4. SeenGrows
  BY <1>3 DEF SeenGrows
<1>5. CASE /\ l.state = "Idle" /\ UNCHANGED store
           /\ loopers' = [loopers EXCEPT ![r].state = "gone"]
  <2>1. PICK n : n = [l EXCEPT !.state = "gone"]
    OBVIOUS
  <2>2. loopers' = [loopers EXCEPT ![r] = n]
    BY <1>1, <1>3, <1>5, <2>1 DEF TypeOK
  <2>3. n \in LooperType /\ n.state = "gone" /\ n.history = l.history /\ n.closed = l.closed
    BY <1>3, <2>1 DEF LooperType
  <2>4. QED
    BY <1>1, <1>3, <1>4, <1>5, <2>2, <2>3, GoneStep
<1>6. CASE /\ l.state = "Paused" /\ store' = history
           /\ loopers' = [loopers EXCEPT ![r].state = "gone", ![r].turn = {},
                                         ![r].history = @ \cup l.turn]
  <2>1. PICK n : n = [l EXCEPT !.state = "gone", !.turn = {}, !.history = history]
    OBVIOUS
  <2>2. loopers' = [loopers EXCEPT ![r] = n]
    <3>1. loopers' = [loopers EXCEPT ![r] = [loopers[r] EXCEPT !.state = "gone", !.turn = {},
                                                                !.history = @ \cup l.turn]]
      BY <1>3, <1>6 DEF TypeOK
    <3>2. [l EXCEPT !.state = "gone", !.turn = {}, !.history = @ \cup l.turn] = n
      BY <1>2, <1>3, <2>1 DEF LooperType
    <3>3. QED
      BY <1>1, <3>1, <3>2
  <2>3. history \in SUBSET Messages
    BY <1>2, <1>3 DEF LooperType
  <2>4. n \in LooperType /\ n.state = "gone" /\ n.history = history /\ n.closed = l.closed
    BY <1>3, <2>1, <2>3 DEF LooperType
  <2>5. AtWork(l) /\ l.history \subseteq history
    BY <1>1, <1>2, <1>6, LoopFacts
  <2>6. QED
    BY <1>1, <1>3, <1>4, <1>6, <2>2, <2>4, <2>5, GoneStep
<1>7. QED
  BY <1>1, <1>2, <1>3, <1>5, <1>6 DEF Exit

\* Every step of a loop keeps the invariant.
LEMMA LoopKeeps ==
  ASSUME Inv, NEW r \in Runs, Loop(r)
  PROVE  Inv'
BY TakeMessageKeeps, StartTurnKeeps, SteerKeeps, TurnEndsKeeps, CancelNothingKeeps, DieKeeps,
   ExitKeeps DEF Loop

-----------------------------------------------------------------------------
(* The steps of a runner.                                                  *)

\* Connections that are where they were, beside a run that nobody builds before or after.
LEMMA UnmovedClients ==
  ASSUME Inv, SeenGrows, NEW r \in Runs, Beside(r), runs[r].phase # "building",
         \A d \in Clients : Unmoved(d)
  PROVE  ClientsSound'
<1>1. ASSUME NEW d \in Clients PROVE ClientSound(d)'
  <2>1. ClientSound(d)
    BY DEF Inv, ClientsSound
  <2>2. ~(Builds(d) /\ clients[d].run = r)
    BY <2>1 DEF ClientSound
  <2>3. QED
    BY <2>2, SameClients
<1>2. \A d \in Clients : Builds(d)' => Builds(d) /\ clients'[d].run = clients[d].run
  BY DEF Builds, Unmoved
<1>3. QED
  BY <1>1, <1>2, OwnRuns DEF ClientsSound

\* A run whose entry goes, by the guard or the runner of r, is on record unless it is r's.
LEMMA EntryGoes ==
  ASSUME Inv, NEW r \in Runs, registry' = NoRun, SeenGrows, seen'.struck = Struck(r),
         runs'[r].phase \notin Active, Beside(r)
  PROVE  OneRunIsVisible' /\ EntryStands'
<1>1. ~Registered'
  BY DEF Registered
<1>2. ASSUME NEW q \in Runs, runs'[q].phase \in Active PROVE q \in seen'.struck
  <2>1. q # r /\ runs[q].phase \in Active
    BY <1>2 DEF Beside, Stays
  <2>2. registry = q \/ q \in seen.struck
    BY <2>1 DEF Inv, OneRunIsVisible
  <2>3. QED
    BY <2>1, <2>2, RunNumbers DEF Struck, SeenGrows
<1>3. QED
  BY <1>1, <1>2 DEF OneRunIsVisible, EntryStands

\* The struck are numbers of runs.
LEMMA StruckFacts ==
  ASSUME TypeOK, NEW r \in Runs
  PROVE  /\ Struck(r) \in SUBSET Runs /\ seen.struck \subseteq Struck(r)
         /\ registry \in {NoRun, r} => Struck(r) = seen.struck
BY DEF TypeOK, SeenType, Struck

\* A guard that is dropped removes the entry there is; what a failed build had to send is
\* on record.
LEMMA DropGuardKeeps ==
  ASSUME Inv, NEW r \in Runs, DropGuard(r)
  PROVE  Inv'
<1>1. PICK l : l = loopers[r]
  OBVIOUS
<1>2. PICK run : run = [NewRunner EXCEPT !.phase = "gone"]
  OBVIOUS
<1>3. PICK n : n = IF runs[r].phase = "leaving"
                   THEN [l EXCEPT !.closed = TRUE, !.latch = TRUE, !.events = <<>>] ELSE l
  OBVIOUS
<1>4. /\ TypeOK /\ l \in LooperType /\ runs[r] \in RunnerType /\ RunSound(r)
      /\ runs[r].phase \in {"failing", "leaving"} /\ registry' = NoRun
      /\ seen \in SeenType /\ UNCHANGED <<clients, store, clear, used>>
  BY <1>1, Types DEF Inv, RunsSound, DropGuard, Released, TypeOK
<1>5. run \in RunnerType /\ run.phase = "gone"
  BY <1>2, NewTypes DEF NewRunner, RunnerType
<1>6. runs' = [runs EXCEPT ![r] = run]
  BY <1>2 DEF DropGuard
<1>7. /\ runs' \in [Runs -> RunnerType] /\ runs'[r] = run
      /\ \A q \in Runs \ {r} : runs'[q] = runs[q]
  BY <1>4, <1>5, <1>6, RunReplaced
<1>8. loopers' = [loopers EXCEPT ![r] = n]
  BY <1>1, <1>3, <1>4 DEF DropGuard, Closed, TypeOK
<1>9. /\ n \in LooperType /\ n.state = l.state /\ n.turn = l.turn /\ n.pending = l.pending
      /\ n.inbox = l.inbox /\ n.history = l.history
      /\ runs[r].phase # "leaving" => n = l
  <2>1. <<>> \in Seq(Event)
    OBVIOUS
  <2>2. QED
    BY <1>3, <1>4, <2>1 DEF LooperType
<1>10. /\ loopers' \in [Runs -> LooperType] /\ loopers'[r] = n
       /\ \A q \in Runs \ {r} : loopers'[q] = loopers[q]
  BY <1>4, <1>8, <1>9, LoopReplaced
<1>11. PICK lost : lost = IF runs[r].phase = "failing"
                          THEN {runs[r].initial} \cup WaitingIn(runs[r].control) ELSE {}
  OBVIOUS
<1>12. lost \in SUBSET (Messages \cup {NoMessage})
  <2>1. PICK control : control = runs[r].control
    OBVIOUS
  <2>2. control \in Seq(Command) /\ runs[r].initial \in Messages \cup {NoMessage}
    BY <1>4, <2>1 DEF RunnerType
  <2>3. WaitingIn(control) \subseteq Messages \cup {NoMessage}
    BY <2>2, WaitingFacts
  <2>4. QED
    BY <1>11, <2>1, <2>2, <2>3
<1>13. PICK stopped : stopped = seen.stopped \cup lost
  OBVIOUS
<1>14. PICK struck : struck = Struck(r)
  OBVIOUS
<1>15. seen' = [seen EXCEPT !.struck = struck, !.stopped = stopped]
  BY <1>4, <1>11, <1>13, <1>14 DEF DropGuard, WaitingIn, SeenType
<1>16. /\ seen' \in SeenType /\ SeenGrows /\ seen'.struck = Struck(r) /\ seen'.stopped = stopped
       /\ seen'.stale = seen.stale
  <2>1. stopped \in SUBSET (Messages \cup {NoMessage}) /\ seen.stopped \subseteq stopped
    BY <1>4, <1>12, <1>13 DEF SeenType
  <2>2. struck \in SUBSET Runs /\ seen.struck \subseteq struck
    BY <1>4, <1>14, StruckFacts
  <2>3. QED
    BY <1>4, <1>14, <1>15, <2>1, <2>2 DEF SeenType, SeenGrows
<1>17. TypeOK'
  BY <1>4, <1>7, <1>10, <1>16 DEF TypeOK
<1>18. Beside(r)
  BY <1>7, <1>10 DEF Beside, Stays
<1>19. OneRunIsVisible' /\ EntryStands'
  BY <1>4, <1>5, <1>7, <1>16, <1>18, EntryGoes DEF Active
<1>20. ClientsSound'
  BY <1>4, <1>16, <1>18, UnmovedClients DEF Unmoved
<1>21. RunSound(r)'
  <2>1. n.state \in {"none", "Idle"} => n.turn = {}
    BY <1>1, <1>4, <1>9 DEF RunSound
  <2>2. n.state \in {"Busy", "Paused"} => n.turn # {}
    BY <1>1, <1>4, <1>9 DEF RunSound
  <2>3. n.state = "gone" => n.closed \/ r \in seen'.died
    BY <1>1, <1>3, <1>4, <1>9, <1>16 DEF RunSound, SeenGrows, LooperType
  <2>4. QED
    BY <1>5, <1>7, <1>10, <2>1, <2>2, <2>3 DEF RunSound
<1>22. Listening'
  <2>1. ASSUME NEW d \in Clients, Orderly', clients[d].rx = r
        PROVE  /\ runs'[r].phase # "leaving" /\ ~loopers'[r].closed
               /\ \A m \in Messages : m \in Kept(r) => m \in Kept(r)' \cup seen'.stopped
    <3>1. Listened(d)
      BY DEF Inv, Listening
    <3>2. runs[r].phase # "leaving" /\ ~l.closed
      BY <1>1, <1>16, <2>1, <3>1, Undone, RunNumbers DEF Listened
    <3>3. runs[r].phase = "failing" /\ n = l /\ l = NewLooper
      BY <1>1, <1>4, <1>9, <3>2 DEF RunSound
    <3>4. Kept(r) \subseteq lost
      <4>1. Held(NewLooper) = {}
        BY DEF Held, NewLooper, WaitingIn
      <4>2. OnTheWay(runs[r]) = lost
        BY <1>11, <3>3 DEF OnTheWay
      <4>3. QED
        BY <1>1, <3>3, <4>1, <4>2, KeptParts
    <3>5. QED
      BY <1>5, <1>7, <1>10, <1>13, <1>16, <3>2, <3>3, <3>4
  <2>2. ASSUME NEW d \in Clients PROVE Listened(d)' /\ Arrived(d)'
    BY <1>4, <1>16, <1>18, <2>1, OtherClients DEF Unmoved
  <2>3. QED
    BY <2>2 DEF Listening
<1>23. HistorySound'
  <2>1. Live(r)' => Live(r)
    BY <1>1, <1>5, <1>7, <1>9, <1>10 DEF Live, AtWork
  <2>2. loopers[r].history \subseteq loopers'[r].history
    BY <1>1, <1>9, <1>10
  <2>3. QED
    BY <1>4, <1>16, <1>18, <2>1, <2>2, HistoryStep
<1>24. FeedSound(r)'
  BY <1>5, <1>7 DEF FeedSound
<1>25. QED
  BY <1>5, <1>7, <1>16, <1>17, <1>18, <1>19, <1>20, <1>21, <1>22, <1>23, <1>24, RunStep

\* A command is passed on: a query that was on its way waits at the loop.
LEMMA HandleControlKeeps ==
  ASSUME Inv, NEW r \in Runs, HandleControl(r)
  PROVE  Inv'
<1>1. PICK l : l = loopers[r]
  OBVIOUS
<1>2. PICK control : control = runs[r].control
  OBVIOUS
<1>3. PICK rest : rest = Tail(control)
  OBVIOUS
<1>4. PICK k : k = Head(control)
  OBVIOUS
<1>5. PICK inbox : inbox = Append(l.inbox, k)
  OBVIOUS
<1>6. PICK run : run = [runs[r] EXCEPT !.control = rest, !.woken = FALSE]
  OBVIOUS
<1>7. PICK n : n = IF l.state = "gone" THEN l ELSE [l EXCEPT !.inbox = inbox]
  OBVIOUS
<1>8. /\ TypeOK /\ l \in LooperType /\ runs[r] \in RunnerType /\ RunSound(r) /\ FeedSound(r)
      /\ runs[r].phase = "running" /\ control # <<>> /\ control \in Seq(Command)
      /\ UNCHANGED <<registry, clients, store, clear, used, seen>>
  BY <1>1, <1>2, Types DEF Inv, RunsSound, FeedsSound, HandleControl, RunnerType
<1>9. k \in Command /\ rest \in Seq(Command) /\ WaitingIn(control) = {k.message} \cup WaitingIn(rest)
  BY <1>3, <1>4, <1>8, WaitingFacts
<1>10. inbox \in Seq(Command) /\ WaitingIn(inbox) = WaitingIn(l.inbox) \cup {k.message}
  <2>1. PICK before : before = l.inbox
    OBVIOUS
  <2>2. before \in Seq(Command)
    BY <1>8, <2>1 DEF LooperType
  <2>3. /\ Append(before, k) \in Seq(Command)
        /\ WaitingIn(Append(before, k)) = WaitingIn(before) \cup {k.message}
    BY <1>9, <2>2, WaitingFacts
  <2>4. QED
    BY <1>5, <2>1, <2>3
<1>11. /\ run \in RunnerType /\ run.phase = "running" /\ run.control = rest
       /\ run.initial = runs[r].initial /\ run.flags = runs[r].flags
  BY <1>6, <1>8, <1>9 DEF RunnerType
<1>12. /\ n \in LooperType /\ n.state = l.state /\ n.turn = l.turn /\ n.pending = l.pending
       /\ n.history = l.history /\ n.closed = l.closed /\ n.events = l.events
       /\ l.state # "gone" => n.inbox = inbox
  BY <1>7, <1>8, <1>10 DEF LooperType
<1>13. runs' = [runs EXCEPT ![r] = run]
  <2>1. runs' = [runs EXCEPT ![r].control = Tail(@), ![r].woken = FALSE]
    BY DEF HandleControl
  <2>2. runs' = [runs EXCEPT ![r].control = rest, ![r].woken = FALSE]
    BY <1>2, <1>3, <1>8, <2>1 DEF TypeOK, RunnerType
  <2>3. QED
    BY <1>6, <1>8, <2>2 DEF TypeOK
<1>14. loopers' = [loopers EXCEPT ![r] = n]
  <2>1. loopers' = [loopers EXCEPT ![r] = Receives(loopers[r], k)]
    BY <1>2, <1>4, <1>8 DEF HandleControl, TypeOK
  <2>2. Receives(l, k) = n
    BY <1>5, <1>7 DEF Receives
  <2>3. QED
    BY <1>1, <2>1, <2>2
<1>15. /\ runs' \in [Runs -> RunnerType] /\ runs'[r] = run
       /\ \A q \in Runs \ {r} : runs'[q] = runs[q]
  BY <1>8, <1>11, <1>13, RunReplaced
<1>16. /\ loopers' \in [Runs -> LooperType] /\ loopers'[r] = n
       /\ \A q \in Runs \ {r} : loopers'[q] = loopers[q]
  BY <1>8, <1>12, <1>14, LoopReplaced
<1>17. TypeOK'
  BY <1>8, <1>15, <1>16 DEF TypeOK
<1>18. SeenGrows /\ Beside(r)
  BY <1>8, <1>15, <1>16 DEF SeenGrows, Beside, Stays
<1>19. \A q \in Runs : runs'[q].phase = runs[q].phase
  BY <1>8, <1>11, <1>15
<1>20. OneRunIsVisible' /\ EntryStands'
  BY <1>8, <1>19, RunNumbers DEF Inv, OneRunIsVisible, EntryStands, Registered, TypeOK, Orderly, Undisturbed
<1>21. ClientsSound'
  BY <1>8, <1>18, UnmovedClients DEF Unmoved
<1>22. RunSound(r)'
  BY <1>1, <1>8, <1>11, <1>12, <1>15, <1>16 DEF RunSound
<1>23. Listening'
  <2>1. ASSUME NEW d \in Clients, Orderly', clients[d].rx = r
        PROVE  /\ runs'[r].phase # "leaving" /\ ~loopers'[r].closed
               /\ \A m \in Messages : m \in Kept(r) => m \in Kept(r)' \cup seen'.stopped
    <3>1. ~l.closed /\ l.state # "gone"
      BY <1>1, <1>8, <1>18, <2>1, Undone DEF RunSound, Orderly
    <3>2. Kept(r) = Held(l) \cup {runs[r].initial} \cup WaitingIn(control)
      BY <1>1, <1>2, <1>8, KeptParts DEF OnTheWay, Active
    <3>3. /\ Held(n) \subseteq Kept(r)' /\ runs[r].initial \in Kept(r)'
          /\ WaitingIn(rest) \subseteq Kept(r)'
      BY <1>11, <1>15, <1>16 DEF Kept, Held, Active
    <3>4. Held(l) \subseteq Held(n) /\ k.message \in Held(n)
      BY <1>10, <1>12, <3>1 DEF Held
    <3>5. QED
      BY <1>9, <1>11, <1>12, <1>15, <1>16, <3>1, <3>2, <3>3, <3>4
  <2>2. ASSUME NEW d \in Clients PROVE Listened(d)' /\ Arrived(d)'
    BY <1>8, <1>18, <2>1, OtherClients DEF Unmoved
  <2>3. QED
    BY <2>2 DEF Listening
<1>24. HistorySound'
  <2>1. Live(r)
    BY <1>8 DEF Live
  <2>2. loopers[r].history \subseteq loopers'[r].history
    BY <1>1, <1>12, <1>16
  <2>3. QED
    BY <1>8, <1>18, <2>1, <2>2, HistoryStep
<1>25. FeedSound(r)'
  BY <1>1, <1>8, <1>11, <1>12, <1>15, <1>16 DEF FeedSound, Undisturbed
<1>26. QED
  BY <1>11, <1>15, <1>17, <1>18, <1>20, <1>21, <1>22, <1>23, <1>24, <1>25, RunStep

\* A runner leaves without removing its entry only if its loop panicked or the entry is gone.
LEMMA LeaveKeeps ==
  ASSUME Inv, NEW r \in Runs, Leave(r)
  PROVE  Inv'
<1>1. /\ TypeOK /\ runs[r] \in RunnerType /\ RunSound(r) /\ runs[r].phase = "running"
      /\ UNCHANGED <<registry, loopers, clients, store, clear, used, seen>>
  BY Types DEF Inv, RunsSound, Leave
<1>2. PICK run : run = [runs[r] EXCEPT !.phase = "leaving"]
  OBVIOUS
<1>3. runs' = [runs EXCEPT ![r] = run]
  BY <1>1, <1>2 DEF Leave, TypeOK
<1>4. run \in RunnerType /\ run.phase = "leaving"
  BY <1>1, <1>2 DEF RunnerType
<1>5. /\ runs' \in [Runs -> RunnerType] /\ runs'[r] = run
      /\ \A q \in Runs \ {r} : runs'[q] = runs[q]
  BY <1>1, <1>3, <1>4, RunReplaced
<1>6. TypeOK'
  BY <1>1, <1>5 DEF TypeOK
<1>7. SeenGrows /\ Beside(r)
  BY <1>1, <1>5 DEF SeenGrows, Beside, Stays
<1>8. ~Orderly /\ ~Orderly'
  <2>1. CASE loopers[r].state = "gone"
    BY <1>1, <2>1 DEF RunSound, Orderly, Undisturbed
  <2>2. CASE registry # r
    BY <1>1, <2>2, OnlyTheEntry DEF Inv, Active, Orderly, Undisturbed
  <2>3. QED
    BY <2>1, <2>2 DEF Leave
<1>9. OneRunIsVisible'
  <2>1. \A q \in Runs : runs'[q].phase \in Active => registry = q \/ q \in seen.struck
    BY <1>4, <1>5 DEF Inv, OneRunIsVisible, Active
  <2>2. registry \in Runs => runs'[registry].phase \notin {"none", "gone"}
    BY <1>4, <1>5, RunNumbers DEF Inv, OneRunIsVisible, Registered
  <2>3. QED
    BY <1>1, <2>1, <2>2 DEF OneRunIsVisible, Registered, TypeOK
<1>10. EntryStands' /\ Listening'
  BY <1>8 DEF EntryStands, Listening, Listened, Arrived
<1>11. ClientsSound'
  BY <1>1, <1>7, UnmovedClients DEF Unmoved
<1>12. RunSound(r)'
  BY <1>1, <1>4, <1>5 DEF RunSound
<1>13. HistorySound'
  <2>1. Live(r)
    BY <1>1 DEF Live
  <2>2. QED
    BY <1>1, <1>7, <2>1, HistoryStep
<1>14. FeedSound(r)'
  BY <1>4, <1>5 DEF FeedSound
<1>15. QED
  BY <1>4, <1>5, <1>6, <1>7, <1>9, <1>10, <1>11, <1>12, <1>13, <1>14, RunStep

\* A runner that goes on, or that finds nobody listening and removes the entry.
LEMMA RunnerStep ==
  ASSUME Inv, NEW r \in Runs, runs[r].phase = "running", NEW entries \in [Runs -> RunnerType],
         \A q \in Runs : /\ entries[q].phase = runs[q].phase /\ entries[q].initial = runs[q].initial
                         /\ entries[q].control = runs[q].control,
         \A q \in Runs \ {r} : /\ runs[q].phase = "none" => entries[q] = runs[q]
                               /\ Undisturbed => entries[q].flags = runs[q].flags,
         GoOnOrReclaim(r, entries),
         NEW n \in LooperType, loopers' = [loopers EXCEPT ![r] = n],
         n.state = loopers[r].state, n.inbox = loopers[r].inbox, n.pending = loopers[r].pending,
         n.turn = loopers[r].turn, n.history = loopers[r].history, n.closed = loopers[r].closed,
         clients' \in [Clients -> ClientType], \A d \in Clients : Unmoved(d),
         UNCHANGED <<store, clear, used>>,
         Undisturbed /\ r \notin seen.dropped /\ n.state # "gone" =>
            StateTold(n.events, n.state, entries[r].flags) /\ InputTold(n.events, n.turn, entries[r].flags)
  PROVE  Inv'
<1>1. /\ TypeOK /\ RunSound(r) /\ loopers[r] \in LooperType /\ seen \in SeenType /\ ~loopers[r].closed
  BY Types DEF Inv, RunsSound, RunSound, TypeOK
<1>2. /\ loopers' \in [Runs -> LooperType] /\ loopers'[r] = n
      /\ \A q \in Runs \ {r} : loopers'[q] = loopers[q]
  BY <1>1, LoopReplaced
<1>3. loopers[r].history \subseteq loopers'[r].history
  BY <1>2
<1>4. CASE runs' = entries /\ UNCHANGED <<registry, seen>>
  <2>1. TypeOK'
    BY <1>1, <1>2, <1>4 DEF TypeOK
  <2>2. SeenGrows
    BY <1>4 DEF SeenGrows
  <2>3. Beside(r)
    BY <1>2, <1>4 DEF Beside, Stays, Undisturbed
  <2>4. OneRunIsVisible' /\ EntryStands'
    BY <1>1, <1>4, RunNumbers DEF Inv, OneRunIsVisible, EntryStands, Registered, TypeOK, Orderly, Undisturbed
  <2>5. ClientsSound'
    BY <2>2, <2>3, UnmovedClients
  <2>6. RunSound(r)'
    BY <1>1, <1>2, <1>4 DEF RunSound
  <2>7. Listening'
    <3>1. Kept(r) \subseteq Kept(r)'
      BY <1>2, <1>4 DEF Kept
    <3>2. runs'[r].phase # "leaving" /\ ~loopers'[r].closed
      BY <1>1, <1>2, <1>4
    <3>3. ASSUME NEW d \in Clients PROVE Listened(d)' /\ Arrived(d)'
      BY <2>2, <2>3, <3>1, <3>2, OtherClients
    <3>4. QED
      BY <3>3 DEF Listening
  <2>8. HistorySound'
    <3>1. Live(r)
      BY DEF Live
    <3>2. QED
      BY <1>3, <2>2, <2>3, <3>1, HistoryStep
  <2>9. FeedSound(r)'
    BY <1>2, <1>4 DEF FeedSound, Undisturbed
  <2>10. runs'[r].phase # "building"
    BY <1>4
  <2>11. QED
    BY <2>1, <2>2, <2>3, <2>4, <2>5, <2>6, <2>7, <2>8, <2>9, <2>10, RunStep
<1>5. CASE /\ Registered /\ Receivers(registry) = {} /\ registry' = NoRun
           /\ runs' = [entries EXCEPT ![r].phase = "leaving"]
           /\ seen' = [seen EXCEPT !.struck = Struck(r)]
  <2>1. PICK struck : struck = Struck(r)
    OBVIOUS
  <2>2. struck \in SUBSET Runs /\ seen.struck \subseteq struck
    BY <1>1, <2>1, StruckFacts
  <2>3. /\ seen' \in SeenType /\ SeenGrows /\ seen'.struck = Struck(r) /\ seen'.stale = seen.stale
    BY <1>1, <1>5, <2>1, <2>2 DEF SeenType, SeenGrows
  <2>4. PICK run : run = [entries[r] EXCEPT !.phase = "leaving"]
    OBVIOUS
  <2>5. /\ run \in RunnerType /\ run.phase = "leaving"
    BY ZenonT(60), <2>4 DEF RunnerType
  <2>6. runs' = [entries EXCEPT ![r] = run]
    BY <1>5, <2>4
  <2>7. /\ runs' \in [Runs -> RunnerType] /\ runs'[r] = run
        /\ \A q \in Runs \ {r} : runs'[q] = entries[q]
    BY <2>5, <2>6
  <2>8. TypeOK'
    BY <1>1, <1>2, <1>5, <2>3, <2>7 DEF TypeOK
  <2>9. Beside(r)
    BY <1>2, <2>3, <2>7, Undone DEF Beside, Stays
  <2>10. OneRunIsVisible' /\ EntryStands'
    BY <1>5, <2>3, <2>5, <2>7, <2>9, EntryGoes DEF Active
  <2>11. ClientsSound'
    BY <2>3, <2>9, UnmovedClients
  <2>12. RunSound(r)'
    BY <1>1, <1>2, <2>3, <2>5, <2>7 DEF RunSound, SeenGrows
  <2>13. Listening'
    <3>1. ASSUME NEW d \in Clients, Orderly' PROVE clients[d].rx # r
      <4>1. registry = r
        BY <2>3, <3>1, Undone, OnlyTheEntry DEF Inv, Active, Orderly
      <4>2. QED
        BY <1>5, <4>1 DEF Receivers
    <3>2. ASSUME NEW d \in Clients PROVE Listened(d)' /\ Arrived(d)'
      BY <2>3, <2>9, <3>1, OtherClients
    <3>3. QED
      BY <3>2 DEF Listening
  <2>14. HistorySound'
    <3>1. Live(r)
      BY DEF Live
    <3>2. QED
      BY <1>3, <2>3, <2>9, <3>1, HistoryStep
  <2>15. FeedSound(r)'
    BY <2>5, <2>7 DEF FeedSound
  <2>16. QED
    BY <2>3, <2>5, <2>7, <2>8, <2>9, <2>10, <2>11, <2>12, <2>13, <2>14, <2>15, RunStep
<1>6. QED
  BY <1>4, <1>5 DEF GoOnOrReclaim, Reclaimable

\* A runner that is woken.
LEMMA HandleWakeUpKeeps ==
  ASSUME Inv, NEW r \in Runs, HandleWakeUp(r)
  PROVE  Inv'
<1>1. /\ TypeOK /\ runs[r] \in RunnerType /\ loopers[r] \in LooperType /\ runs[r].phase = "running"
      /\ FeedSound(r) /\ UNCHANGED <<loopers, clients, store, clear, used>>
  BY Types DEF Inv, HandleWakeUp, FeedsSound
<1>2. PICK run : run = [runs[r] EXCEPT !.woken = FALSE]
  OBVIOUS
<1>3. /\ run \in RunnerType /\ run.phase = runs[r].phase /\ run.initial = runs[r].initial
      /\ run.control = runs[r].control /\ run.flags = runs[r].flags
  BY <1>1, <1>2 DEF RunnerType
<1>4. PICK entries : entries = [runs EXCEPT ![r] = run]
  OBVIOUS
<1>5. /\ entries \in [Runs -> RunnerType] /\ entries[r] = run
      /\ \A q \in Runs \ {r} : entries[q] = runs[q]
  BY <1>1, <1>3, <1>4 DEF TypeOK
<1>6. GoOnOrReclaim(r, entries)
  <2>1. [runs EXCEPT ![r].woken = FALSE] = entries
    BY <1>1, <1>2, <1>4 DEF TypeOK
  <2>2. QED
    BY <2>1 DEF HandleWakeUp
<1>7. PICK n : n = loopers[r]
  OBVIOUS
<1>8. loopers' = [loopers EXCEPT ![r] = n] /\ n \in LooperType
  BY <1>1, <1>7 DEF TypeOK
<1>9. clients' \in [Clients -> ClientType] /\ \A d \in Clients : Unmoved(d)
  BY <1>1 DEF TypeOK, Unmoved
<1>10. Undisturbed /\ r \notin seen.dropped /\ n.state # "gone" =>
          StateTold(n.events, n.state, entries[r].flags) /\ InputTold(n.events, n.turn, entries[r].flags)
  BY <1>1, <1>3, <1>5, <1>7 DEF FeedSound
<1>11. \A q \in Runs : /\ entries[q].phase = runs[q].phase /\ entries[q].initial = runs[q].initial
                       /\ entries[q].control = runs[q].control
  BY <1>3, <1>5
<1>12. QED
  BY <1>1, <1>5, <1>6, <1>7, <1>8, <1>9, <1>10, <1>11, RunnerStep

\* A runner reads an event of its loop.
LEMMA HandleEventKeeps ==
  ASSUME Inv, NEW r \in Runs, HandleEvent(r)
  PROVE  Inv'
<1>1. PICK l : l = loopers[r]
  OBVIOUS
<1>2. PICK events : events = l.events
  OBVIOUS
<1>3. PICK event : event = Head(events)
  OBVIOUS
<1>4. PICK rest : rest = Tail(events)
  OBVIOUS
<1>5. PICK n : n = [l EXCEPT !.events = rest]
  OBVIOUS
<1>6. PICK idle : idle = IF event.kind = "state" THEN event.to = "Idle" ELSE runs[r].idle
  OBVIOUS
<1>7. PICK run : run = [runs[r] EXCEPT !.woken = FALSE, !.idle = idle]
  OBVIOUS
<1>8. PICK heard : heard = [runs EXCEPT ![r] = run]
  OBVIOUS
<1>9. PICK entries : entries = IF Registered
                               THEN [heard EXCEPT ![registry].flags = FlagsAfter(@, event)] ELSE heard
  OBVIOUS
<1>10. /\ TypeOK /\ OneRunIsVisible /\ runs[r] \in RunnerType /\ l \in LooperType
       /\ runs[r].phase = "running" /\ FeedSound(r) /\ events \in Seq(Event) /\ events # <<>>
       /\ UNCHANGED <<store, clear, used>>
  BY <1>1, <1>2, Types DEF Inv, HandleEvent, FeedsSound, LooperType
<1>11. event \in Event /\ rest \in Seq(Event)
  BY <1>3, <1>4, <1>10, HeadRead
<1>12. idle \in BOOLEAN
  <2>1. CASE event.kind = "state"
    BY <1>6, <2>1, Zenon
  <2>2. CASE event.kind # "state"
    BY <1>6, <1>10, <2>2 DEF RunnerType
  <2>3. QED
    BY <2>1, <2>2
<1>13. /\ run \in RunnerType /\ run.phase = runs[r].phase /\ run.initial = runs[r].initial
       /\ run.control = runs[r].control /\ run.flags = runs[r].flags
  BY <1>7, <1>10, <1>12 DEF RunnerType
<1>14. /\ heard \in [Runs -> RunnerType] /\ heard[r] = run
       /\ \A q \in Runs \ {r} : heard[q] = runs[q]
  BY <1>8, <1>10, <1>13 DEF TypeOK
<1>15. /\ entries \in [Runs -> RunnerType]
       /\ \A q \in Runs : /\ entries[q].phase = runs[q].phase /\ entries[q].initial = runs[q].initial
                          /\ entries[q].control = runs[q].control
       /\ \A q \in Runs \ {r, registry} : entries[q] = runs[q]
       /\ registry = r => entries[r].flags = FlagsAfter(runs[r].flags, event)
  <2>1. CASE ~Registered
    <3>1. entries = heard /\ registry # r
      BY <1>9, <2>1, RunNumbers DEF Registered
    <3>2. QED
      BY <1>13, <1>14, <3>1
  <2>2. CASE Registered
    <3>1. registry \in Runs
      BY <1>10, <2>2 DEF Registered, TypeOK
    <3>2. PICK old : old = heard[registry]
      OBVIOUS
    <3>3. PICK flags : flags = FlagsAfter(old.flags, event)
      OBVIOUS
    <3>4. PICK new : new = [old EXCEPT !.flags = flags]
      OBVIOUS
    <3>5. old \in RunnerType /\ old.flags \in FlagsType
      BY <1>14, <3>1, <3>2 DEF RunnerType
    <3>6. flags \in FlagsType
      BY <1>11, <3>3, <3>5, FlagsAfterFacts
    <3>7. /\ new \in RunnerType /\ new.phase = old.phase /\ new.initial = old.initial
          /\ new.control = old.control /\ new.flags = flags
      BY <3>4, <3>5, <3>6 DEF RunnerType
    <3>8. entries = [heard EXCEPT ![registry] = new]
      <4>1. entries = [heard EXCEPT ![registry].flags = FlagsAfter(@, event)]
        BY <1>9, <2>2
      <4>2. entries = [heard EXCEPT ![registry].flags = flags]
        BY <1>14, <3>1, <3>2, <3>3, <4>1
      <4>3. QED
        BY <3>2, <3>4, <4>2
    <3>9. /\ entries \in [Runs -> RunnerType] /\ entries[registry] = new
          /\ \A q \in Runs \ {registry} : entries[q] = heard[q]
      BY <1>14, <3>1, <3>7, <3>8
    <3>10. \A q \in Runs : /\ heard[q].phase = runs[q].phase /\ heard[q].initial = runs[q].initial
                           /\ heard[q].control = runs[q].control
      BY <1>13, <1>14
    <3>11. QED
      BY <1>13, <1>14, <3>1, <3>2, <3>3, <3>7, <3>9, <3>10
  <2>3. QED
    BY <2>1, <2>2
<1>16. GoOnOrReclaim(r, entries)
  <2>1. PICK heard2 : heard2 = [runs EXCEPT ![r].woken = FALSE,
                                 ![r].idle = IF event.kind = "state" THEN event.to = "Idle" ELSE @]
    OBVIOUS
  <2>2. heard2 = heard
    <3>1. [runs[r] EXCEPT !.woken = FALSE, !.idle = IF event.kind = "state" THEN event.to = "Idle" ELSE @] = run
      BY <1>6, <1>7, <1>10 DEF RunnerType
    <3>2. heard2 = [runs EXCEPT ![r] = [runs[r] EXCEPT !.woken = FALSE,
                       !.idle = IF event.kind = "state" THEN event.to = "Idle" ELSE @]]
      BY <1>10, <2>1 DEF TypeOK
    <3>3. QED
      BY <1>8, <3>1, <3>2
  <2>3. GoOnOrReclaim(r, IF Registered
                         THEN [heard2 EXCEPT ![registry].flags = FlagsAfter(@, event)] ELSE heard2)
    BY <1>1, <1>2, <1>3, <2>1 DEF HandleEvent
  <2>4. QED
    BY <1>9, <2>2, <2>3
<1>17. /\ n \in LooperType /\ n.state = l.state /\ n.inbox = l.inbox /\ n.pending = l.pending
       /\ n.turn = l.turn /\ n.history = l.history /\ n.closed = l.closed /\ n.events = rest
  BY <1>5, <1>10, <1>11 DEF LooperType
<1>18. loopers' = [loopers EXCEPT ![r] = n]
  <2>1. loopers' = [loopers EXCEPT ![r].events = rest]
    BY <1>1, <1>2, <1>4, <1>10 DEF HandleEvent, TypeOK, LooperType
  <2>2. QED
    BY <1>1, <1>5, <1>10, <2>1 DEF TypeOK
<1>19. clients' \in [Clients -> ClientType] /\ \A d \in Clients : Unmoved(d)
  <2>1. clients' = [c \in Clients |-> IF clients[c].rx = r /\ clients[c].pc = "deaf"
                                     THEN [clients[c] EXCEPT !.unread = TRUE] ELSE clients[c]]
    BY DEF HandleEvent
  <2>2. ASSUME NEW d \in Clients PROVE clients'[d] \in ClientType /\ Unmoved(d)
    <3>1. clients[d] \in ClientType
      BY <1>10, Types
    <3>2. CASE clients'[d] = clients[d]
      BY <3>1, <3>2 DEF Unmoved
    <3>3. CASE clients'[d] = [clients[d] EXCEPT !.unread = TRUE]
      BY <3>1, <3>3 DEF Unmoved, ClientType
    <3>4. QED
      BY <2>1, <3>2, <3>3
  <2>3. QED
    BY <2>1, <2>2
<1>20. ASSUME Undisturbed, r \notin seen.dropped, n.state # "gone"
       PROVE  StateTold(n.events, n.state, entries[r].flags) /\ InputTold(n.events, n.turn, entries[r].flags)
  <2>1. PICK flags : flags = runs[r].flags
    OBVIOUS
  <2>2. registry = r
    BY <1>10, <1>20, OnlyTheEntry DEF Active
  <2>3. flags \in FlagsType
    BY <1>10, <2>1 DEF RunnerType
  <2>4. StateTold(events, l.state, flags) /\ InputTold(events, l.turn, flags)
    BY <1>1, <1>2, <1>10, <1>17, <1>20, <2>1 DEF FeedSound
  <2>5. StateTold(rest, l.state, FlagsAfter(flags, event)) /\ InputTold(rest, l.turn, FlagsAfter(flags, event))
    BY <1>3, <1>4, <1>10, <2>3, <2>4, StateRead, InputRead
  <2>6. QED
    BY <1>15, <1>17, <2>1, <2>2, <2>5
<1>21. \A q \in Runs \ {r} : /\ runs[q].phase = "none" => entries[q] = runs[q]
                             /\ Undisturbed => entries[q].flags = runs[q].flags
  <2>1. ASSUME NEW q \in Runs \ {r}, runs[q].phase = "none" PROVE q # registry
    BY <1>10, <2>1, RunNumbers DEF OneRunIsVisible, Registered
  <2>2. ASSUME NEW q \in Runs \ {r}, Undisturbed PROVE q # registry
    BY <1>10, <2>2, OnlyTheEntry DEF Active
  <2>3. QED
    BY <1>15, <2>1, <2>2
<1>22. QED
  BY <1>1, <1>10, <1>15, <1>16, <1>17, <1>18, <1>19, <1>20, <1>21, RunnerStep

\* Every step of a runner keeps the invariant.
LEMMA RunnerKeeps ==
  ASSUME Inv, NEW r \in Runs, Runner(r)
  PROVE  Inv'
BY DropGuardKeeps, HandleEventKeeps, HandleControlKeeps, HandleWakeUpKeeps, LeaveKeeps DEF Runner

-----------------------------------------------------------------------------
(* What holds of every behaviour.                                          *)

\* There is nothing at the beginning.
LEMMA InitInv ==
  ASSUME Init
  PROVE  Inv
<1>1. TypeOK
  <2>1. /\ runs \in [Runs -> RunnerType] /\ loopers \in [Runs -> LooperType]
        /\ clients \in [Clients -> ClientType]
    BY NewTypes DEF Init
  <2>2. used \in [messages : 0 .. MaxMessages, orders : 0 .. MaxOrders, pausing : BOOLEAN]
    <3>1. 0 \in 0 .. MaxMessages /\ 0 \in 0 .. MaxOrders
      BY RunsAssumption
    <3>2. QED
      BY <3>1 DEF Init
  <2>3. seen \in SeenType
    BY DEF Init, SeenType
  <2>4. clear \in [pc : {"none", "waiting", "deleting"}, followUp : BOOLEAN]
    BY DEF Init
  <2>5. QED
    BY <2>1, <2>2, <2>3, <2>4 DEF Init, TypeOK
<1>2. /\ \A r \in Runs : runs[r] = NewRunner /\ loopers[r] = NewLooper
      /\ \A c \in Clients : clients[c] = NewClient
      /\ ~Registered
  BY DEF Init, Registered
<1>3. /\ NewRunner.phase = "none" /\ NewLooper.state = "none" /\ ~NewLooper.closed
      /\ NewLooper.turn = {}
      /\ NewClient.pc = "out" /\ NewClient.rx = NoRun /\ NewClient.sent = {}
  BY DEF NewRunner, NewLooper, NewClient
<1>4. OneRunIsVisible /\ EntryStands
  BY <1>2, <1>3 DEF OneRunIsVisible, EntryStands, Active
<1>5. ClientsSound
  BY <1>2, <1>3 DEF ClientsSound, ClientSound, Builds, Subscribed, Trying
<1>6. RunsSound
  BY <1>2, <1>3 DEF RunsSound, RunSound
<1>7. Listening
  BY <1>2, <1>3 DEF Listening, Listened, Arrived
<1>8. HistorySound
  BY <1>2, <1>3 DEF HistorySound, Live, AtWork
<1>9. NewFlags /\ FeedsSound
  BY <1>2, <1>3 DEF NewFlags, FeedsSound, FeedSound
<1>10. QED
  BY <1>1, <1>4, <1>5, <1>6, <1>7, <1>8, <1>9 DEF Inv

\* Every step keeps the invariant.
LEMMA NextKeeps ==
  ASSUME Inv, Next
  PROVE  Inv'
<1>1. ASSUME NEW c \in Clients, Requests(c) PROVE Inv'
  <2>1. CASE BuildFails(c)
    BY <2>1, FailsKeep DEF BuildFails, Builds
  <2>2. CASE ~BuildFails(c)
    BY <1>1, <2>2, RequestKeeps, EnqueueKeeps, AwaitExitKeeps, RegisterKeeps, SubscribeOwnKeeps,
       BuildKeeps DEF Requests
  <2>3. QED
    BY <2>1, <2>2
<1>2. ASSUME NEW c \in Clients, Bridge(c) PROVE Inv'
  BY <1>2, BridgeKeeps, PostQueryKeeps DEF Bridge
<1>3. QED
  BY <1>1, <1>2, OrdersKeep, RunnerKeeps, LoopKeeps DEF Next

\* Nothing happens.
LEMMA StutterKeeps ==
  ASSUME Inv, UNCHANGED vars
  PROVE  Inv'
<1>1. UNCHANGED <<registry, runs, loopers, clients, store, clear, used, seen>>
  BY DEF vars
<1>2. TypeOK'
  BY <1>1 DEF Inv, TypeOK
<1>3. QED
  BY <1>1, <1>2, StillRuns, StillSeen, ClientsStay, QuietStep

\* What holds of runs, connections, loops and flags at every step, whatever connections
\* come and go and whichever builds fail.
THEOREM RunsInvariant == Spec => []Inv
<1>1. Init => Inv
  BY InitInv
<1>2. Inv /\ [Next]_vars => Inv'
  BY NextKeeps, StutterKeeps
<1>3. QED
  BY <1>1, <1>2, PTL DEF Spec

\* Every variable has its type.
THEOREM RunsTypeOK == Spec => []TypeOK
<1>1. Inv => TypeOK
  BY DEF Inv
<1>2. QED
  BY <1>1, RunsInvariant, PTL

\* A run is registered for as long as it is built or runs, unless the guard of another run
\* removed its entry, and no entry is left of a run that is over (active.rs:95, 116).
THEOREM RunsAreVisible == Spec => []OneRunIsVisible
<1>1. Inv => OneRunIsVisible
  BY DEF Inv
<1>2. QED
  BY <1>1, RunsInvariant, PTL

\* While no guard removed the entry of another's run and no loop panicked, a message whose
\* sender was told it is accepted waits at a run, joined its history, or went with a turn
\* that was cancelled or a build that failed: unless it went to another run than the one
\* its sender had subscribed to.
THEOREM MessagesArrive == Spec => []AcceptedMessagesArrive
<1>1. ASSUME Inv PROVE AcceptedMessagesArrive
  <2>1. SUFFICES ASSUME Orderly, NEW c \in Clients, NEW m \in clients[c].sent
                 PROVE  m \in (UNION {Kept(r) : r \in Runs}) \cup seen.stopped \cup seen.astray
    BY DEF AcceptedMessagesArrive, Mislaid, Orderly, Undisturbed
  <2>2. /\ ClientSound(c) /\ Arrived(c) /\ clients[c] \in ClientType
    BY <1>1, Types DEF Inv, ClientsSound, Listening
  <2>3. PICK rx : rx = clients[c].rx
    OBVIOUS
  <2>4. rx \in Runs
    BY <2>1, <2>2, <2>3 DEF ClientSound, Subscribed, ClientType
  <2>5. m \in Kept(rx) \cup seen.stopped \cup seen.astray
    BY <2>1, <2>2, <2>3 DEF Arrived
  <2>6. QED
    BY <2>4, <2>5
<1>2. QED
  BY <1>1, RunsInvariant, PTL

\* Once the runner has read what its loop sent, the flags the snapshot endpoint reads are
\* the state of the loop, unless an event was dropped or an entry removed by another run.
THEOREM FlagsAreTrue == Spec => []FlagsFollowTheLoop
<1>1. ASSUME Inv PROVE FlagsFollowTheLoop
  <2>1. SUFFICES ASSUME Registered, runs[registry].phase = "running", Undisturbed,
                        registry \notin seen.dropped, loopers[registry].state # "gone",
                        loopers[registry].events = <<>>, runs[registry].flags # FreshFlags
                 PROVE  LET l == loopers[registry]
                            flags == runs[registry].flags
                        IN  /\ flags.inFlight = (l.state # "Idle")
                            /\ flags.paused = (l.state = "Paused")
                            /\ flags.input \subseteq l.turn /\ (flags.input = {}) = (l.turn = {})
    BY DEF FlagsFollowTheLoop, Undisturbed
  <2>2. registry \in Runs
    BY <1>1, <2>1 DEF Inv, TypeOK, Registered
  <2>3. FeedSound(registry)
    BY <1>1, <2>2 DEF Inv, FeedsSound
  <2>4. DOMAIN loopers[registry].events = {}
    <3>1. DOMAIN <<>> = {}
      OBVIOUS
    <3>2. QED
      BY <2>1, <3>1
  <2>5. QED
    BY <2>1, <2>3, <2>4 DEF FeedSound, StateTold, InputTold
<1>2. QED
  BY <1>1, RunsInvariant, PTL

\* The saved history grows, whoever ends a turn, unless it is cleared.
LEMMA StoreGrows ==
  ASSUME Inv, [Next]_vars, Undisturbed, ~seen.stale
  PROVE  store \subseteq store' \/ ClearDeletes \/ FollowUpDeletes
<1>1. CASE UNCHANGED store
  BY <1>1
<1>2. ASSUME NEW r \in Runs, Loop(r) PROVE store \subseteq store'
  <2>1. UNCHANGED store \/ /\ loopers[r].state \in {"Busy", "Paused"}
                           /\ loopers[r].history \subseteq store'
    <3>1. CASE FinishTurn(r) \/ CancelTurn(r)
      <4>1. PICK queued : /\ loopers[r].state \in {"Busy", "Paused"} /\ EndTurn(r, queued)
        BY <3>1 DEF FinishTurn, CancelTurn
      <4>2. PICK l : l = loopers[r]
        OBVIOUS
      <4>3. PICK history : history = l.history \cup l.turn
        OBVIOUS
      <4>4. PICK armed : armed = IF l.latch THEN FALSE ELSE l.armed
        OBVIOUS
      <4>5. l \in LooperType
        BY <4>2, LoopFacts
      <4>6. [l EXCEPT !.history = @ \cup l.turn, !.turn = {}, !.pending = queued,
                      !.latch = FALSE, !.armed = IF l.latch THEN FALSE ELSE @]
            = [l EXCEPT !.history = history, !.turn = {}, !.pending = queued,
                        !.latch = FALSE, !.armed = armed]
        BY <4>3, <4>4, <4>5 DEF LooperType
      <4>7. [l EXCEPT !.history = history, !.turn = {}, !.pending = queued,
                      !.latch = FALSE, !.armed = armed].history = history
        BY <4>5 DEF LooperType
      <4>8. store' = history
        BY <4>1, <4>2, <4>6, <4>7 DEF EndTurn
      <4>9. QED
        BY <4>1, <4>2, <4>3, <4>8
    <3>2. CASE Exit(r)
      BY <3>2 DEF Exit
    <3>3. CASE ~(FinishTurn(r) \/ CancelTurn(r) \/ Exit(r))
      BY <1>2, <3>3 DEF Loop, TakeMessage, StartTurn, Steer, CancelNothing, Die
    <3>4. QED
      BY <3>1, <3>2, <3>3
  <2>2. CASE loopers[r].state \in {"Busy", "Paused"} /\ loopers[r].history \subseteq store'
    <3>1. Live(r)
      BY <2>2, LoopFacts DEF Live
    <3>2. store \subseteq loopers[r].history
      BY <3>1 DEF Inv, HistorySound
    <3>3. QED
      BY <2>2, <3>2
  <2>3. QED
    BY <2>1, <2>2
<1>3. CASE UNCHANGED vars
  BY <1>1, <1>3 DEF vars
<1>4. CASE Next
  <2>1. ASSUME NEW c \in Clients, Requests(c) \/ Bridge(c) PROVE UNCHANGED store
    BY <2>1 DEF Requests, Bridge, Request, Enqueue, AwaitExit, Register, SubscribeOwn, BuildFails,
       Build, Disconnect, EndBridge, DropReceiver, PostQuery
  <2>2. ASSUME NEW r \in Runs, Runner(r) PROVE UNCHANGED store
    BY <2>2 DEF Runner, DropGuard, HandleEvent, HandleControl, HandleWakeUp, Leave
  <2>3. ASSUME PostControl PROVE UNCHANGED store
    BY <2>3 DEF PostControl
  <2>4. ASSUME Clearing PROVE UNCHANGED store \/ ClearDeletes \/ FollowUpDeletes
    BY <2>4 DEF Clearing, ClearSession, ClearWaited
  <2>5. QED
    BY <1>1, <1>2, <1>4, <2>1, <2>2, <2>3, <2>4 DEF Next
<1>5. QED
  BY <1>3, <1>4

\* No turn that ends overwrites a saved history with one that lacks a part of it, unless an
\* entry was removed by another run or a run was built under a loop that was at work.
THEOREM SavedHistoryGrows == Spec => HistoryIsKept
<1>1. Inv /\ [Next]_vars =>
        [seen.struck = {} /\ ~seen.stale => store \subseteq store' \/ ClearDeletes \/ FollowUpDeletes]_vars
  BY StoreGrows DEF Undisturbed
<1>2. QED
  BY <1>1, RunsInvariant, PTL DEF Spec, HistoryIsKept

=============================================================================
