---------------------------- MODULE Consolidation ----------------------------
(***************************************************************************)
(* The consolidation of memories: peco-server/src/peco/memory/             *)
(* consolidation.rs, with the clusters of knowledge-base/src/engine/       *)
(* similarity.rs and the row of db/memory_consolidation_state.rs, for one  *)
(* user.                                                                   *)
(*                                                                         *)
(* A round takes a batch of memories below a watermark, has each group of  *)
(* like episodes distilled into a semantic memory, deletes near            *)
(* duplicates, then deletes episodes that are distilled, old and not       *)
(* recalled, and moves the watermark.  The clock starts rounds and so does *)
(* the user; nothing keeps two rounds apart.  Each call to the database,   *)
(* the knowledge base or a model is a step and may fail; in between the    *)
(* user goes on talking.                                                   *)
(*                                                                         *)
(* Data: which memories are alike is given; the audit rows of deletions    *)
(* are in MemorySupersede, and nothing here reads them.                    *)
(***************************************************************************)
EXTENDS Naturals, SequencesExt

CONSTANTS
    Rounds,         \* rounds that may be at work at the same time
    Stocks,         \* the memories there may be at first, sequences of Memory
    BatchSize,      \* batch_size, 200 in the code
    MaxCalls,       \* max_llm_calls, 20 in the code
    MaxSummaries,   \* bound on the memories distilled
    MaxIncidents    \* bound on calls that fail, crashes, and what the user adds, deletes
                    \* and recalls, together

VARIABLES
    docs,       \* every memory there ever was; its number is its place in a listing
    kb,         \* the numbers of those that are there
    mark,       \* last_scanned_ts
    recalled,   \* memories with a recall in recall_fresh_days (memory_recall_stats)
    rounds,     \* per round: where it is and what it works on
    used,       \* how much of the bounds is used up
    seen        \* history: stock      the memories there were at first
                \*          judged     those that were in a batch that was looked at
                \*          forgotten  those the user deleted
                \*          heirs      what a round deleted a memory for, as pairs
                \*          overlap    two rounds were at work at the same time

vars == <<docs, kb, mark, recalled, rounds, used, seen>>

NoTime == 0
NoMark == 100       \* no watermark: above every time

\* title is the time in the title, else 0; time what doc_time finds; from the
\* merged-from footer; near and theme the earlier memories whose similarity is at
\* least dedup_cos and min_cluster_cos; expired says that it is older than
\* episodic_ttl_days, and so than recall_observation_days.
Memory ==
    [kind : {"episodic", "semantic"}, title : 0 .. NoMark - 1, time : 0 .. NoMark - 1,
     length : Nat, expired : BOOLEAN, from : SUBSET Nat, near : SUBSET Nat, theme : SUBSET Nat]

\* A memory was made of older ones, which a footer names; those that are gone are 0.
ASSUME ConsolidationAssumption ==
    /\ Stocks \subseteq Seq(Memory)
    /\ \A stock \in Stocks : \A d \in DOMAIN stock : \A source \in stock[d].from \ {0} :
          /\ source \in DOMAIN stock
          /\ stock[d].time = NoTime \/ stock[source].time < stock[d].time
    /\ BatchSize \in Nat \ {0}
    /\ {MaxCalls, MaxSummaries, MaxIncidents} \subseteq Nat

Resting == [pc |-> "idle", mark |-> NoMark, picked |-> <<>>, groups |-> {}, calls |-> 0,
            doomed |-> <<>>]

Init ==
    /\ docs \in Stocks
    /\ kb = DOMAIN docs
    /\ mark = NoMark
    /\ recalled = {}
    /\ rounds = [r \in Rounds |-> Resting]
    /\ used = [summaries |-> 0, incidents |-> 0]
    /\ seen = [stock |-> DOMAIN docs, judged |-> {}, forgotten |-> {}, heirs |-> {},
               overlap |-> FALSE]

At(r, pc) == rounds[r].pc = pc

Incident == used.incidents < MaxIncidents /\ used' = [used EXCEPT !.incidents = @ + 1]

\* A call goes wrong.
Fails == Incident

Works == UNCHANGED used

-----------------------------------------------------------------------------
(* Pure parts: the window, the clusters, the victims.                      *)

\* A set as a sequence, in an order given as a set of pairs.
Listed(S, before) ==
    [i \in 1 .. Cardinality(S) |->
        CHOOSE d \in S : Cardinality({e \in S : <<e, d>> \in before}) = i - 1]

\* The newest first; the order of the listing where times are equal.
ByTime(S) ==
    LET Newer(d, e) == \/ docs[d].title > docs[e].title
                       \/ docs[d].title = docs[e].title /\ d < e
    IN  Listed(S, {p \in S \X S : Newer(p[1], p[2])})

\* Faulty: the newest come first whatever the watermark.
WindowOfNewest(below) == LET all == ByTime(kb) IN SubSeq(all, 1, Min({BatchSize, Len(all)}))

\* select_window: what is below the watermark, then the newest.
Window(below) ==
    LET backlog == {d \in kb : docs[d].title < below}
        all == ByTime(backlog) \o ByTime(kb \ backlog)
    IN  SubSeq(all, 1, Min({BatchSize, Len(all)}))

\* The watermark goes down to the oldest of the batch.
Lowered(below, picked) == Min({below} \cup {docs[d].title : d \in Range(picked)})

Near(d, e) == d \in docs[e].near \/ e \in docs[d].near

Alike(d, e) == Near(d, e) \/ d \in docs[e].theme \/ e \in docs[d].theme

\* The connected component of a memory: what is in every set that holds it and what is
\* like one of its members.
Component(found, d) ==
    LET IsClosed(S) == \A x \in S, y \in found : Alike(x, y) => y \in S
    IN  {e \in found : \A S \in SUBSET found : d \in S /\ IsClosed(S) => e \in S}

\* connected_component_clusters.
Clusters(found) == {Component(found, d) : d \in found}

\* The groups of three episodes at least.
Groups(found) ==
    {group \in {{d \in cluster : docs[d].kind = "episodic"} : cluster \in Clusters(found)} :
        Cardinality(group) >= 3}

\* Of two near duplicates the older goes, or the shorter if a time is missing.
Worse(d, e) ==
    IF docs[d].time # NoTime /\ docs[e].time # NoTime
    THEN IF docs[d].time <= docs[e].time THEN d ELSE e
    ELSE IF docs[d].length >= docs[e].length THEN e ELSE d

\* The places that are compared, if nothing is dropped: of what is still there, each
\* with those behind it.  Near duplicates are in one cluster, so that clusters need not
\* be told apart here.
Pairs(picked) ==
    {p \in (DOMAIN picked) \X (DOMAIN picked) :
        /\ p[1] < p[2]
        /\ {picked[p[1]], picked[p[2]]} \subseteq kb
        /\ Near(picked[p[1]], picked[p[2]])}

Loser(picked, p) == Worse(picked[p[1]], picked[p[2]])

Earlier(p, q) == p[1] < q[1] \/ (p[1] = q[1] /\ p[2] < q[2])

\* pick_dedup_victims: the pairs of which one is dropped.  A memory that was dropped is
\* not compared with those behind it, but goes on when it is dropped on the way; one
\* behind that was dropped is passed over.  Whether a pair drops one depends on those
\* before it, so that there is one such set.
Drops(picked) ==
    {dropping \in SUBSET Pairs(picked) :
        \A p \in Pairs(picked) :
            p \in dropping <=>
                \A q \in dropping :
                    /\ q[1] < p[1] => Loser(picked, q) # picked[p[1]]
                    /\ Earlier(q, p) => Loser(picked, q) # picked[p[2]]}

\* What is to go, in the order it is dropped in, and what each is dropped for.
Victims(picked, dropping) ==
    LET order == Listed(dropping, {pq \in dropping \X dropping : Earlier(pq[1], pq[2])})
    IN  [i \in DOMAIN order |->
            [doc |-> Loser(picked, order[i]),
             heirs |-> {picked[order[i][1]], picked[order[i][2]]} \ {Loser(picked, order[i])}]]

-----------------------------------------------------------------------------
(* A round: run_once_at. *)

\* The cron job and the request of the user; a watermark that cannot be read is none.
StartRound(r) ==
    /\ At(r, "idle")
    /\ \/ Works /\ rounds' = [rounds EXCEPT ![r].pc = "collect", ![r].mark = mark]
       \/ Fails /\ rounds' = [rounds EXCEPT ![r].pc = "collect"]
    /\ seen' = [seen EXCEPT !.overlap = @ \/ \E other \in Rounds : ~At(other, "idle")]
    /\ UNCHANGED <<docs, kb, mark, recalled>>

\* A listing that fails ends the round.
Collect(r) ==
    /\ At(r, "collect")
    /\ \/ /\ Works
          /\ \E picked \in {Window(rounds[r].mark)} :
                rounds' = [rounds EXCEPT ![r].pc = "judge", ![r].picked = picked,
                                         ![r].mark = Lowered(@, picked)]
       \/ Fails /\ rounds' = [rounds EXCEPT ![r] = Resting]
    /\ UNCHANGED <<docs, kb, mark, recalled, seen>>

\* run_machine_steps, on what is still there; without embeddings the round goes on
\* with its last part.
Judge(r) ==
    LET picked == rounds[r].picked IN
    /\ At(r, "judge")
    /\ \/ /\ Works
          /\ \E dropping \in Drops(picked) :
                rounds' = [rounds EXCEPT ![r].pc = "dedup", ![r].picked = <<>>,
                                         ![r].groups = Groups(Range(picked) \cap kb),
                                         ![r].doomed = Victims(picked, dropping)]
       \/ Fails /\ rounds' = [rounds EXCEPT ![r].pc = "dedup", ![r].picked = <<>>]
    /\ seen' = [seen EXCEPT !.judged = @ \cup Range(picked)]
    /\ UNCHANGED <<docs, kb, mark, recalled>>

\* The groups come before the victims, as many as there are calls for.
Distilling(r) == At(r, "dedup") /\ rounds[r].groups # {} /\ rounds[r].calls < MaxCalls

Newest == 1 + Max({NoTime} \cup {docs[d].time : d \in DOMAIN docs})

\* distill_groups, one group: a model call, and the memory it makes, which may be a
\* near duplicate of what it was made of.  A call that fails leaves the group as it is.
Distill(r) ==
    /\ Distilling(r)
    /\ \E group \in rounds[r].groups :
          /\ rounds' = [rounds EXCEPT ![r].groups = @ \ {group}, ![r].calls = @ + 1]
          /\ \/ /\ used.summaries < MaxSummaries
                /\ used' = [used EXCEPT !.summaries = @ + 1]
                /\ \E near \in {{}, group} :
                      docs' = Append(docs, [kind |-> "semantic", title |-> Newest,
                                            time |-> Newest, length |-> 1, expired |-> FALSE,
                                            from |-> group, near |-> near, theme |-> {}])
                /\ kb' = kb \cup {Len(docs')}
             \/ UNCHANGED <<docs, kb, used>>
    /\ UNCHANGED <<mark, recalled, seen>>

\* delete_with_audit, of the next victim of the deduplication or of the cleanup; the
\* answer of a deletion may be lost.
Retire(r) ==
    LET next == Head(rounds[r].doomed) IN
    /\ rounds[r].pc \in {"dedup", "ttl"} /\ ~Distilling(r) /\ rounds[r].doomed # <<>>
    /\ rounds' = [rounds EXCEPT ![r].doomed = Tail(@)]
    /\ \/ Works /\ kb' = kb \ {next.doc}
       \/ next.doc \in kb /\ Fails /\ kb' \in {kb, kb \ {next.doc}}
    /\ seen' = [seen EXCEPT !.heirs = @ \cup {<<d, h>> : d \in kb \ kb', h \in next.heirs}]
    /\ UNCHANGED <<docs, mark, recalled>>

Semantic == {d \in kb : docs[d].kind = "semantic"}

\* Faulty: an episode that nothing was made of expires as well.
ExpiresUndistilled(d, distilled, fresh) ==
    docs[d].kind = "episodic" /\ docs[d].expired /\ d \notin fresh

\* ttl_eligible, and a footer that names the episode.
Expires(d, distilled, fresh) ==
    /\ docs[d].kind = "episodic" /\ docs[d].expired /\ d \notin fresh
    /\ \E s \in distilled : d \in docs[s].from

\* What is to go, in the order of the listing, and what was made of each.
Expired(distilled, fresh) ==
    LET gone == {d \in kb : Expires(d, distilled, fresh)}
        old == Listed(gone, {p \in gone \X gone : p[1] < p[2]})
    IN  [i \in DOMAIN old |->
            [doc |-> old[i], heirs |-> {s \in distilled : old[i] \in docs[s].from}]]

\* ttl_cleanup: the listing, the footers and the recalls are read once, and what is
\* to go is fixed.  Footers that cannot be read count for nothing, and so do recalls.
Scan(r) ==
    /\ At(r, "dedup") /\ ~Distilling(r) /\ rounds[r].doomed = <<>>
    /\ \E distilled \in SUBSET Semantic, fresh \in {recalled, {}} :
          /\ \/ distilled = Semantic /\ fresh = recalled /\ Works
             \/ <<distilled, fresh>> # <<Semantic, recalled>> /\ Fails
          /\ rounds' = [rounds EXCEPT ![r].pc = "ttl", ![r].groups = {}, ![r].calls = 0,
                                      ![r].doomed = Expired(distilled, fresh)]
    /\ UNCHANGED <<docs, kb, mark, recalled, seen>>

\* upsert_state: the last round to write wins; no watermark leaves the old one.
WriteState(r) ==
    /\ At(r, "ttl") /\ rounds[r].doomed = <<>>
    /\ \/ Works /\ mark' = IF rounds[r].mark = NoMark THEN mark ELSE rounds[r].mark
       \/ Fails /\ UNCHANGED mark
    /\ rounds' = [rounds EXCEPT ![r] = Resting]
    /\ UNCHANGED <<docs, kb, recalled, seen>>

-----------------------------------------------------------------------------
(* Meanwhile. *)

\* A fact of a turn becomes a memory.
Learn ==
    /\ Incident
    /\ \E near \in {{}, {Max({0} \cup kb)}} :
          docs' = Append(docs, [kind |-> "episodic", title |-> Newest, time |-> Newest,
                                length |-> 1, expired |-> FALSE, from |-> {}, near |-> near,
                                theme |-> {}])
    /\ kb' = kb \cup {Len(docs')}
    /\ UNCHANGED <<mark, recalled, rounds, seen>>

\* The user deletes a memory, or a newer one takes its place.
Forget ==
    /\ Incident
    /\ \E d \in kb : kb' = kb \ {d} /\ seen' = [seen EXCEPT !.forgotten = @ \cup {d}]
    /\ UNCHANGED <<docs, mark, recalled, rounds>>

\* A memory is found by a search.
RecallHit ==
    /\ Incident
    /\ \E d \in kb \ recalled : recalled' = recalled \cup {d}
    /\ UNCHANGED <<docs, kb, mark, rounds, seen>>

Crash ==
    /\ Incident
    /\ rounds' = [r \in Rounds |-> Resting]
    /\ UNCHANGED <<docs, kb, mark, recalled, seen>>

-----------------------------------------------------------------------------

Step(r) ==
    \/ Collect(r) \/ Judge(r) \/ Distill(r) \/ Retire(r) \/ Scan(r)
    \/ WriteState(r)

Next ==
    \/ \E r \in Rounds : StartRound(r) \/ Step(r)
    \/ Learn \/ Forget \/ RecallHit \/ Crash

\* A round that is spawned is run, and there is always another: the user is opted in
\* and away again and again, or asks for it.
Fairness == WF_vars(\E r \in Rounds : StartRound(r)) /\ \A r \in Rounds : WF_vars(Step(r))

Spec == Init /\ [][Next]_vars /\ Fairness

-----------------------------------------------------------------------------
(* Properties. *)

\* Which of two near duplicates goes does not depend on the order they come in.
Ranked ==
    \A d \in seen.stock :
        docs[d].time # NoTime /\ \A e \in seen.stock \ {d} : docs[e].time # docs[d].time

\* What is gone and was not deleted by the user.
Retired == DOMAIN docs \ (kb \cup seen.forgotten)

\* Nothing the worker deletes is gone: a memory it deleted leads, over the near
\* duplicates that were kept and the memories made of it, to one that is there,
\* unless the user deleted one on the way (consolidation.rs:297-300, 729-757): no
\* memories are retired for nothing but each other.  Two rounds at a time may each
\* delete what the other keeps where times are missing or equal.
FactsSurvive ==
    Ranked \/ ~seen.overlap =>
        \A gone \in SUBSET Retired :
            gone # {} => \E link \in seen.heirs : link[1] \in gone /\ link[2] \notin gone

\* The times that one memory of the stock has for itself.
Alone(d) == \A e \in seen.stock \ {d} : docs[e].title # docs[d].title

\* consolidation.rs:20-24: however large the stock, every memory of it is looked at,
\* whichever rounds fail, die or overlap and whatever is added meanwhile; unless it
\* shares its time with another.
StockIsCovered ==
    <>(\A d \in seen.stock : Alone(d) => d \in seen.judged \/ d \notin kb)
=============================================================================
