------------------------------ MODULE PecoRuns ------------------------------
(***************************************************************************)
(* The runs of Peco in the server: peco-server/src/peco/active.rs and the  *)
(* streaming half of peco-server/src/peco/handler.rs, for one user.        *)
(*                                                                         *)
(* A run is a runner task that owns the handle of one loop.  The registry  *)
(* holds at most one entry per user; a connection subscribes to the events *)
(* of the entry and sends queries through its control channel.  Whoever    *)
(* finds no entry registers one and builds the run.  The runner leaves     *)
(* when its loop is idle and nobody is subscribed.                         *)
(*                                                                         *)
(* Tasks run in parallel.  A step here is one critical section of the      *)
(* registry, or one iteration of a runner: nothing another task does can   *)
(* tell the parts of such an iteration apart, as a wake-up that comes in   *)
(* the middle of it is one that comes before it and is dropped by it.      *)
(***************************************************************************)
EXTENDS Naturals, Sequences, FiniteSets

CONSTANTS
    Clients,        \* connections, of one user
    MaxRuns,        \* bound on the runs ever registered
    MaxMessages,    \* bound on the queries ever sent
    MaxOrders,      \* bound on the pause, resume, cancel and clear requests, and on
                    \* panics; a resume that follows a pause is free
    MaxTries,       \* rounds a request for a stream makes, 3 in the code
    ControlCap,     \* capacity of a control channel, 32 in the code
    EventCap        \* capacity of the event channel of a loop, 256 in the code

ASSUME RunsAssumption ==
    /\ {MaxRuns, MaxMessages, MaxOrders, MaxTries} \subseteq Nat
    /\ ControlCap \in Nat \ {0} /\ EventCap \in Nat \ {0}

VARIABLES
    registry,   \* the run whose entry is registered, or NoRun
    runs,       \* per run: the runner, what it reads, and the flags of its entry
    loopers,    \* per run: the loop of the agent
    clients,    \* per client: its request and its bridge
    store,      \* the messages in the saved history of the session
    clear,      \* the request that clears the session, and its follow-up task
    used,       \* how much of the bounds is used up
    seen        \* history: struck   runs whose entry another run's runner removed
                \*          died     runs whose loop panicked
                \*          dropped  runs that lost an event of their loop
                \*          stale    a run loaded the session under a loop at work
                \*          stopped  messages a cancellation dropped or that a failed build took along
                \*          astray   messages sent to another run than the one subscribed to

vars == <<registry, runs, loopers, clients, store, clear, used, seen>>

Runs == 1 .. MaxRuns
NoRun == 0
NoMessage == 0

-----------------------------------------------------------------------------
(* The values. *)

Control == {"pause", "resume", "cancel"}
Query(m) == [kind |-> "query", message |-> m]
Order(kind) == [kind |-> kind, message |-> NoMessage]

\* turn_in_flight, inflight_input and paused; registered means about to run.
FreshFlags == [inFlight |-> TRUE, input |-> {}, paused |-> FALSE]

NewRunner == [phase |-> "none", control |-> <<>>, initial |-> NoMessage,
              idle |-> FALSE, woken |-> FALSE, flags |-> FreshFlags]

\* What AgentLooper keeps, as far as a runner can tell.
NewLooper == [state |-> "none", inbox |-> <<>>, pending |-> {}, armed |-> FALSE,
              turn |-> {}, events |-> <<>>, history |-> {}, closed |-> FALSE,
              latch |-> FALSE]

NewClient == [pc |-> "out", message |-> NoMessage, tries |-> 0, run |-> NoRun,
              rx |-> NoRun, unread |-> FALSE, sent |-> {}]

Init ==
    /\ registry = NoRun
    /\ runs = [r \in Runs |-> NewRunner]
    /\ loopers = [r \in Runs |-> NewLooper]
    /\ clients = [c \in Clients |-> NewClient]
    /\ store = {}
    /\ clear = [pc |-> "none", followUp |-> FALSE]
    /\ used = [messages |-> 0, orders |-> 0, pausing |-> FALSE]
    /\ seen = [struck |-> {}, died |-> {}, dropped |-> {}, stale |-> FALSE,
               stopped |-> {}, astray |-> {}]

Registered == registry # NoRun

\* receiver_count of the run's broadcast channel.
Receivers(r) == {c \in Clients : clients[c].rx = r}

\* The entry holds the only sender of the control channel, and a build that
\* failed drops the receiver before its guard.
Accepts == Registered /\ runs[registry].phase # "failing"

HasRoom == Accepts /\ Len(runs[registry].control) < ControlCap

\* try_send into the entry of the user, whichever run that is.
Sent(command) == [runs EXCEPT ![registry].control = Append(@, command)]

-----------------------------------------------------------------------------
(* stream_chat: attach to the run, or register and build one.              *)

Out(c) == [clients EXCEPT ![c] = NewClient]

\* A round: attach to the run there is, or register one.
Subscribe(client) ==
    IF client.tries = 0 THEN NewClient
    ELSE IF Registered THEN [client EXCEPT !.pc = "subscribed", !.rx = registry]
    ELSE [client EXCEPT !.pc = "register", !.rx = NoRun]

Request(c) ==
    /\ clients[c].pc = "out"
    /\ \E m \in {NoMessage} \cup IF used.messages < MaxMessages THEN {used.messages + 1} ELSE {} :
          /\ clients' = [clients EXCEPT ![c] = Subscribe([NewClient EXCEPT !.message = m,
                                                                          !.tries = MaxTries])]
          /\ used' = IF m = NoMessage THEN used ELSE [used EXCEPT !.messages = m]
    /\ UNCHANGED <<registry, runs, loopers, store, clear, seen>>

\* bridge_sse_response.
Watching(c, sent) ==
    [clients EXCEPT ![c] = [NewClient EXCEPT !.pc = "watching", !.rx = clients[c].rx,
                                             !.sent = sent]]

\* The client holds its receiver when it sends, to the run that is registered by then.
Enqueue(c) ==
    /\ clients[c].pc = "subscribed"
    /\ LET m == clients[c].message
       IN  \/ m = NoMessage /\ clients' = Watching(c, {}) /\ UNCHANGED <<runs, seen>>
           \/ /\ m # NoMessage /\ HasRoom
              /\ runs' = Sent(Query(m))
              /\ clients' = Watching(c, {m})
              /\ seen' = [seen EXCEPT !.astray = IF clients[c].rx = registry THEN @ ELSE @ \cup {m}]
           \/ /\ m # NoMessage /\ Accepts /\ ~HasRoom    \* Backpressure: 409
              /\ clients' = Out(c) /\ UNCHANGED <<runs, seen>>
           \/ /\ m # NoMessage /\ ~Accepts
              /\ clients' = [clients EXCEPT ![c].pc = "awaiting"] /\ UNCHANGED <<runs, seen>>
    /\ UNCHANGED <<registry, loopers, store, clear, used>>

Again(c) == LET client == clients[c]
            IN  [clients EXCEPT ![c] = Subscribe([client EXCEPT !.tries = client.tries - 1])]

\* wait_until_absent: no entry is left, or two seconds are over.
AwaitExit(c) ==
    /\ clients[c].pc = "awaiting"
    /\ clients' = Again(c)
    /\ UNCHANGED <<registry, runs, loopers, store, clear, used, seen>>

Unused == {r \in Runs : runs[r].phase = "none"}

\* A request without a message is turned down; try_register may find that
\* another request was faster.
Register(c) ==
    /\ clients[c].pc = "register"
    /\ IF clients[c].message = NoMessage THEN clients' = Out(c) /\ UNCHANGED <<registry, runs>>
       ELSE IF Registered THEN clients' = Again(c) /\ UNCHANGED <<registry, runs>>
       ELSE \E r \in Unused :
               /\ \A earlier \in Unused : r <= earlier
               /\ registry' = r
               /\ runs' = [runs EXCEPT ![r].phase = "building", ![r].initial = clients[c].message]
               /\ clients' = [clients EXCEPT ![c].pc = "registered", ![c].run = r]
    /\ UNCHANGED <<loopers, store, clear, used, seen>>

Fails(r) == [runs EXCEPT ![r].phase = "failing"]

\* The entry may be gone already, or be another's.
SubscribeOwn(c) ==
    /\ clients[c].pc = "registered"
    /\ IF Registered
       THEN clients' = [clients EXCEPT ![c].pc = "building", ![c].rx = registry] /\ UNCHANGED runs
       ELSE clients' = Out(c) /\ runs' = Fails(clients[c].run)
    /\ UNCHANGED <<registry, loopers, store, clear, used, seen>>

\* PecoManager::new fails, or the request is dropped while it runs.
BuildFails(c) ==
    /\ clients[c].pc = "building"
    /\ clients' = Out(c)
    /\ runs' = Fails(clients[c].run)
    /\ UNCHANGED <<registry, loopers, store, clear, used, seen>>

AtWork(l) == l.state \in {"Idle", "Busy", "Paused"} /\ (l.turn \cup l.pending # {} \/ l.inbox # <<>>)

Receives(l, message) ==
    IF l.state = "gone" THEN l ELSE [l EXCEPT !.inbox = Append(@, message)]

\* Faulty: a new session, whatever is saved.
LoadedAnew == {}

\* load_or_new_session, of a snapshot that can be read.
Loaded == store

\* spawn_peco_run: the session is loaded, the loop and the runner are spawned, and
\* the runner sends the first query before it listens to anything.
Build(c) ==
    /\ clients[c].pc = "building"
    /\ LET r == clients[c].run
       IN  /\ loopers' = [loopers EXCEPT ![r] = Receives([NewLooper EXCEPT !.state = "Idle", !.history = Loaded],
                                                         Query(runs[r].initial))]
           /\ runs' = [runs EXCEPT ![r].phase = "running", ![r].initial = NoMessage]
           /\ seen' = [seen EXCEPT !.stale = @ \/ \E other \in Runs \ {r} : AtWork(loopers[other])]
    /\ clients' = Watching(c, {clients[c].message})
    /\ UNCHANGED <<registry, store, clear, used>>

-----------------------------------------------------------------------------
(* The bridge of a connection, and the requests that need none.            *)

\* The bridge learns of it when it next has an event to send.
Disconnect(c) ==
    /\ clients[c].pc = "watching"
    /\ clients' = [clients EXCEPT ![c].pc = "deaf", ![c].sent = {}]
    /\ UNCHANGED <<registry, runs, loopers, store, clear, used, seen>>

\* The channel is closed once the entry and the runner have let go of their senders.
SendersGone(r) == registry # r /\ runs[r].phase = "gone"

\* notify_waiters reaches a runner that waits, of whichever run is registered.
Notified == IF Registered /\ runs[registry].phase = "running"
            THEN [runs EXCEPT ![registry].woken = TRUE] ELSE runs

EndBridge(c) ==
    /\ \/ clients[c].pc = "deaf" /\ clients[c].unread
       \/ clients[c].pc \in {"watching", "deaf"} /\ SendersGone(clients[c].rx)
    /\ runs' = Notified
    /\ clients' = [clients EXCEPT ![c].pc = "ending", ![c].sent = {}]
    /\ UNCHANGED <<registry, loopers, store, clear, used, seen>>

\* The receiver goes with the task, after the runner was told.
DropReceiver(c) ==
    /\ clients[c].pc = "ending"
    /\ clients' = Out(c)
    /\ UNCHANGED <<registry, runs, loopers, store, clear, used, seen>>

\* query_stream, by a client with or without a connection to the run it reaches.
PostQuery(c) ==
    /\ clients[c].pc \in {"out", "watching"}
    /\ used.messages < MaxMessages /\ HasRoom
    /\ LET m == used.messages + 1
       IN  /\ runs' = Sent(Query(m))
           /\ used' = [used EXCEPT !.messages = m]
           /\ clients' = IF clients[c].pc = "watching" /\ clients[c].rx = registry
                         THEN [clients EXCEPT ![c].sent = @ \cup {m}] ELSE clients
    /\ UNCHANGED <<registry, loopers, store, clear, seen>>

\* cancel, pause and resume; the latter two ask for a turn in flight.
PostControl ==
    /\ HasRoom
    /\ \E kind \in Control :
          /\ kind = "cancel" \/ runs[registry].flags.inFlight
          /\ runs' = Sent(Order(kind))
          /\ \/ /\ used.orders < MaxOrders
                /\ used' = [used EXCEPT !.orders = @ + 1, !.pausing = kind = "pause"]
             \/ /\ kind = "resume" /\ used.pausing /\ used.orders = MaxOrders
                /\ used' = [used EXCEPT !.pausing = FALSE]
    /\ UNCHANGED <<registry, loopers, clients, store, clear, seen>>

-----------------------------------------------------------------------------
(* The runner. *)

\* The loop hears nothing more of its handle, and takes the drop for a cancellation.
Closed(l) == [l EXCEPT !.closed = TRUE, !.latch = TRUE, !.events = <<>>]

\* A run loses its entry to another's runner.
Struck(r) == IF registry \in {NoRun, r} THEN seen.struck ELSE seen.struck \cup {registry}

\* Faulty: the entry of a run whose build failed stays.
ReleasedByRunner(r) == IF runs[r].phase = "failing" THEN registry ELSE NoRun

\* The guard removes the entry of the user, whoever owns it.
Released(r) == NoRun

\* The guard is dropped, then the handle.
DropGuard(r) ==
    /\ runs[r].phase \in {"failing", "leaving"}
    /\ registry' = Released(r)
    /\ seen' = [seen EXCEPT !.struck = Struck(r),
                            !.stopped = @ \cup IF runs[r].phase = "failing"
                                               THEN {runs[r].initial} \cup
                                                    {runs[r].control[i].message : i \in DOMAIN runs[r].control}
                                               ELSE {}]
    /\ runs' = [runs EXCEPT ![r] = [NewRunner EXCEPT !.phase = "gone"]]
    /\ loopers' = IF runs[r].phase = "leaving" THEN [loopers EXCEPT ![r] = Closed(@)] ELSE loopers
    /\ UNCHANGED <<clients, store, clear, used>>

\* Faulty: the runner asks only whether the loop is idle.
ReclaimableWatched(runner) == runner.idle /\ Registered

\* try_reclaim_if_unsubscribed, asked when the runner believes its loop idle.
Reclaimable(runner) == runner.idle /\ Registered /\ Receivers(registry) = {}

\* The runner goes on, or removes the entry of the user and leaves.
GoOnOrReclaim(r, entries) ==
    IF Reclaimable(entries[r])
    THEN /\ registry' = NoRun
         /\ runs' = [entries EXCEPT ![r].phase = "leaving"]
         /\ seen' = [seen EXCEPT !.struck = Struck(r)]
    ELSE /\ runs' = entries
         /\ UNCHANGED <<registry, seen>>

\* Faulty: the input stays until the next turn starts.
FlagsAfterKeepsInput(flags, event) ==
    CASE event.kind = "state" ->
            [flags EXCEPT !.inFlight = event.to # "Idle", !.paused = event.to = "Paused"]
      [] event.kind = "turnStart" -> [flags EXCEPT !.input = event.input]
      [] OTHER -> flags

\* set_turn_in_flight, set_paused and set_inflight_input.
FlagsAfter(flags, event) ==
    CASE event.kind = "state" ->
            [flags EXCEPT !.inFlight = event.to # "Idle", !.paused = event.to = "Paused",
                          !.input = IF event.to = "Idle" THEN {} ELSE @]
      [] event.kind = "turnStart" -> [flags EXCEPT !.input = event.input]
      [] OTHER -> flags

\* The event reaches the flags of the user's entry, then every bridge of the run; a
\* bridge that lags when its client goes is one whose client went before.
HandleEvent(r) ==
    /\ runs[r].phase = "running" /\ loopers[r].events # <<>>
    /\ LET event == Head(loopers[r].events)
           heard == [runs EXCEPT ![r].woken = FALSE,
                                 ![r].idle = IF event.kind = "state" THEN event.to = "Idle" ELSE @]
       IN  GoOnOrReclaim(r, IF Registered
                            THEN [heard EXCEPT ![registry].flags = FlagsAfter(@, event)] ELSE heard)
    /\ loopers' = [loopers EXCEPT ![r].events = Tail(@)]
    /\ clients' = [c \in Clients |-> IF clients[c].rx = r /\ clients[c].pc = "deaf"
                                     THEN [clients[c] EXCEPT !.unread = TRUE] ELSE clients[c]]
    /\ UNCHANGED <<store, clear, used>>

\* A command is passed on; a loop that is gone does not get it.
HandleControl(r) ==
    /\ runs[r].phase = "running" /\ runs[r].control # <<>>
    /\ runs' = [runs EXCEPT ![r].control = Tail(@), ![r].woken = FALSE]
    /\ loopers' = [loopers EXCEPT ![r] = Receives(@, Head(runs[r].control))]
    /\ UNCHANGED <<registry, clients, store, clear, used, seen>>

HandleWakeUp(r) ==
    /\ runs[r].phase = "running" /\ runs[r].woken
    /\ GoOnOrReclaim(r, [runs EXCEPT ![r].woken = FALSE])
    /\ UNCHANGED <<loopers, clients, store, clear, used>>

\* The loop is gone, or the entry with the control channel's sender is.
Leave(r) ==
    /\ runs[r].phase = "running"
    /\ \/ loopers[r].state = "gone" /\ loopers[r].events = <<>>
       \/ registry # r /\ runs[r].control = <<>>
    /\ runs' = [runs EXCEPT ![r].phase = "leaving"]
    /\ UNCHANGED <<registry, loopers, clients, store, clear, used, seen>>

-----------------------------------------------------------------------------
(* The loop of AgentLooper: what its runner and the store see of it.  A    *)
(* turn that fails ends like one that is done.                             *)

\* try_send: the event is dropped when the channel is full, or nobody listens.
Emits(l, event) ==
    IF ~l.closed /\ Len(l.events) < EventCap THEN [l EXCEPT !.events = Append(@, event)] ELSE l

StateChange(l, to) == Emits([l EXCEPT !.state = to], [kind |-> "state", to |-> to])

Lost(r, events) ==
    IF ~loopers[r].closed /\ Len(loopers[r].events) + events > EventCap
    THEN [seen EXCEPT !.dropped = @ \cup {r}] ELSE seen

\* The next message of the handle; a Pause may come too late to land.
TakeMessage(r) ==
    LET l == loopers[r]
        message == Head(l.inbox)
        read == [l EXCEPT !.inbox = Tail(@)]
    IN  /\ l.state \in {"Idle", "Busy", "Paused"} /\ l.inbox # <<>> /\ ~l.latch
        /\ \/ /\ message.kind = "query"
              /\ loopers' = [loopers EXCEPT ![r] = [read EXCEPT !.pending = @ \cup {message.message},
                                                                !.armed = TRUE]]
              /\ UNCHANGED seen
           \/ /\ message.kind = "cancel"
              /\ loopers' = [loopers EXCEPT ![r] = [read EXCEPT !.latch = TRUE]]
              /\ UNCHANGED seen
           \/ /\ message.kind = "pause" /\ l.state = "Busy"
              /\ loopers' = [loopers EXCEPT ![r] = StateChange(read, "Paused")]
              /\ seen' = Lost(r, 1)
           \/ /\ message.kind = "resume" /\ l.state = "Paused"
              /\ loopers' = [loopers EXCEPT ![r] = [StateChange(read, "Busy") EXCEPT !.armed = TRUE]]
              /\ seen' = Lost(r, 1)
           \/ /\ message.kind \in {"pause", "resume"}
              /\ loopers' = [loopers EXCEPT ![r] = read]
              /\ UNCHANGED seen
    /\ UNCHANGED <<registry, runs, clients, store, clear, used>>

\* start_turn_from_pending.
StartTurn(r) ==
    LET l == loopers[r]
        started == [l EXCEPT !.turn = l.pending, !.pending = {}, !.armed = FALSE]
    IN  /\ l.state = "Idle" /\ l.armed /\ l.pending # {} /\ ~l.latch
        /\ loopers' = [loopers EXCEPT ![r] =
                          Emits(StateChange(started, "Busy"),
                                [kind |-> "turnStart", input |-> l.pending])]
        /\ seen' = Lost(r, 2)
        /\ UNCHANGED <<registry, runs, clients, store, clear, used>>

\* drain_pending_into_turn, before the next request of the turn.
Steer(r) ==
    /\ loopers[r].state = "Busy" /\ loopers[r].pending # {} /\ ~loopers[r].latch
    /\ loopers' = [loopers EXCEPT ![r].turn = @ \cup loopers[r].pending, ![r].pending = {}]
    /\ UNCHANGED <<registry, runs, clients, store, clear, used, seen>>

\* The turn joins the history, which is saved, and TurnComplete waits for room.
EndTurn(r, queued) ==
    LET l == loopers[r]
        ended == [l EXCEPT !.history = @ \cup l.turn, !.turn = {}, !.pending = queued,
                           !.latch = FALSE, !.armed = IF l.latch THEN FALSE ELSE @]
    IN  /\ l.closed \/ Len(l.events) < EventCap
        /\ loopers' = [loopers EXCEPT ![r] = StateChange(Emits(ended, [kind |-> "turnComplete"]), "Idle")]
        /\ store' = ended.history

FinishTurn(r) ==
    /\ loopers[r].state = "Busy" /\ ~loopers[r].latch
    /\ EndTurn(r, loopers[r].pending)
    /\ seen' = Lost(r, 2)
    /\ UNCHANGED <<registry, runs, clients, clear, used>>

\* finalize_cancel: with a turn in flight what is queued for it goes as well.
CancelTurn(r) ==
    /\ loopers[r].state \in {"Busy", "Paused"} /\ loopers[r].latch
    /\ EndTurn(r, {})
    /\ seen' = [Lost(r, 2) EXCEPT !.stopped = @ \cup loopers[r].pending]
    /\ UNCHANGED <<registry, runs, clients, clear, used>>

CancelNothing(r) ==
    /\ loopers[r].state = "Idle" /\ loopers[r].latch
    /\ loopers' = [loopers EXCEPT ![r].latch = FALSE, ![r].armed = FALSE]
    /\ UNCHANGED <<registry, runs, clients, store, clear, used, seen>>

\* The task of the loop panics in the middle of a turn.
Die(r) ==
    /\ loopers[r].state = "Busy" /\ used.orders < MaxOrders
    /\ loopers' = [loopers EXCEPT ![r].state = "gone"]
    /\ seen' = [seen EXCEPT !.died = @ \cup {r}]
    /\ used' = [used EXCEPT !.orders = @ + 1]
    /\ UNCHANGED <<registry, runs, clients, store, clear>>

\* The channel of the handle is empty and closed; a paused turn is cancelled.
Exit(r) ==
    LET l == loopers[r]
    IN  /\ l.closed /\ l.inbox = <<>> /\ ~l.latch
        /\ \/ l.state = "Idle" /\ ~(l.armed /\ l.pending # {})
              /\ loopers' = [loopers EXCEPT ![r].state = "gone"] /\ UNCHANGED store
           \/ /\ l.state = "Paused"
              /\ loopers' = [loopers EXCEPT ![r].state = "gone", ![r].turn = {},
                                            ![r].history = @ \cup l.turn]
              /\ store' = l.history \cup l.turn
        /\ UNCHANGED <<registry, runs, clients, clear, used, seen>>

-----------------------------------------------------------------------------
(* clear_session. *)

\* cancel_and_wait begins; a command that is not taken counts as no run.
ClearSession ==
    /\ clear.pc = "none" /\ used.orders < MaxOrders
    /\ used' = [used EXCEPT !.orders = @ + 1]
    /\ clear' = [clear EXCEPT !.pc = IF HasRoom THEN "waiting" ELSE "deleting"]
    /\ runs' = IF HasRoom THEN Sent(Order("cancel")) ELSE runs
    /\ UNCHANGED <<registry, loopers, clients, store, seen>>

\* The entry is gone, or ten seconds are over and a task will delete once more.
ClearWaited ==
    /\ clear.pc = "waiting"
    /\ \E timedOut \in IF Registered THEN {TRUE} ELSE BOOLEAN :
          clear' = [pc |-> "deleting", followUp |-> clear.followUp \/ timedOut]
    /\ UNCHANGED <<registry, runs, loopers, clients, store, used, seen>>

ClearDeletes ==
    /\ clear.pc = "deleting"
    /\ clear' = [clear EXCEPT !.pc = "none"]
    /\ store' = {}
    /\ UNCHANGED <<registry, runs, loopers, clients, used, seen>>

FollowUpDeletes ==
    /\ clear.followUp /\ ~Registered
    /\ clear' = [clear EXCEPT !.followUp = FALSE]
    /\ store' = {}
    /\ UNCHANGED <<registry, runs, loopers, clients, used, seen>>

-----------------------------------------------------------------------------

Requests(c) ==
    \/ Request(c) \/ Enqueue(c) \/ AwaitExit(c) \/ Register(c)
    \/ SubscribeOwn(c) \/ BuildFails(c) \/ Build(c)

Bridge(c) == Disconnect(c) \/ EndBridge(c) \/ DropReceiver(c) \/ PostQuery(c)

Runner(r) ==
    \/ DropGuard(r) \/ HandleEvent(r) \/ HandleControl(r)
    \/ HandleWakeUp(r) \/ Leave(r)

Loop(r) ==
    \/ TakeMessage(r) \/ StartTurn(r) \/ Steer(r) \/ FinishTurn(r) \/ CancelTurn(r)
    \/ CancelNothing(r) \/ Die(r) \/ Exit(r)

Clearing == ClearSession \/ ClearWaited \/ ClearDeletes \/ FollowUpDeletes

Next ==
    \/ \E c \in Clients : Requests(c) \/ Bridge(c)
    \/ PostControl
    \/ \E r \in Runs : Runner(r) \/ Loop(r)
    \/ Clearing

Spec == Init /\ [][Next]_vars

-----------------------------------------------------------------------------

Active == {"building", "running"}

\* active.rs:95, 116: a run is registered for as long as its registration is
\* held, there is one of it at most, and the entry of a run that is over does not
\* stay to lock its user out.  An entry may vanish under a run in one way only:
\* by the guard of a run that was reclaimed before.
OneRunIsVisible ==
    /\ \A r \in Runs : runs[r].phase \in Active => registry = r \/ r \in seen.struck
    /\ Registered => runs[registry].phase \notin {"none", "gone"}

WaitingIn(control) == {control[i].message : i \in DOMAIN control}

\* Where an accepted message is on its way, or has arrived.
Kept(r) ==
    LET l == loopers[r]
    IN  l.history
        \cup (IF l.state = "gone" THEN {} ELSE l.turn \cup l.pending \cup WaitingIn(l.inbox))
        \cup (IF runs[r].phase \in Active \cup {"failing"} THEN {runs[r].initial} \cup WaitingIn(runs[r].control)
                                                            ELSE {})

\* What connections that are open were told is accepted, and is on its way to no loop:
\* it did not go with a turn that was cancelled or a build that failed either.
Mislaid == (UNION {clients[c].sent : c \in Clients}) \ ((UNION {Kept(r) : r \in Runs}) \cup seen.stopped)

\* No message is lost to a reclaim that went to the run its sender has a receiver of.
AcceptedMessagesArrive == seen.struck = {} /\ seen.died = {} => Mislaid \subseteq seen.astray

\* handler.rs:390-391: whoever subscribed before it sends holds a receiver, so the run
\* cannot be reclaimed and the message is certain to arrive.
SubscribedIsDelivered == seen.struck = {} /\ seen.died = {} => Mislaid = {}

\* What the snapshot endpoint reads (turn_in_flight, paused, inflight_input) is
\* the state of the loop, once the runner has read what the loop sent.
FlagsFollowTheLoop ==
    LET l == loopers[registry]
        flags == runs[registry].flags
    IN  /\ Registered /\ runs[registry].phase = "running"
        /\ seen.struck = {} /\ registry \notin seen.dropped
        /\ l.state # "gone" /\ l.events = <<>> /\ flags # FreshFlags
        => /\ flags.inFlight = (l.state # "Idle")
           /\ flags.paused = (l.state = "Paused")
           /\ flags.input \subseteq l.turn /\ (flags.input = {}) = (l.turn = {})

\* A saved history is never overwritten by one that lacks a part of it, unless
\* the session is cleared, or a loop was at work on it when it was loaded again.
HistoryIsKept ==
    [][seen.struck = {} /\ ~seen.stale =>
         store \subseteq store' \/ ClearDeletes \/ FollowUpDeletes]_vars

=============================================================================
