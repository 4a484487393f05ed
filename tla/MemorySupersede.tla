-------------------------- MODULE MemorySupersede ---------------------------
(***************************************************************************)
(* How a memory replaces an older one: the outbox of the memory hook       *)
(* (peco-server/src/peco/memory/hook.rs), its two tables                   *)
(* (db/memory_supersede.rs, db/memory_audit.rs), the shared deletion       *)
(* (memory/retire.rs) and the restore endpoint (peco/handler.rs), for one  *)
(* user and the facts of one slot.                                         *)
(*                                                                         *)
(* A finished turn spawns a task.  It writes the intention to replace a    *)
(* document by another, claims it, adds the new document, deletes the old  *)
(* one behind an audit row and closes the intention; then it goes through  *)
(* the intentions others left behind.  A start of the server spawns such   *)
(* a round as well.  Each call to the database or to the knowledge base    *)
(* is a step of its own; each may fail, a write to the knowledge base      *)
(* also after it was done (its answer is lost), and the process may die    *)
(* anywhere.                                                               *)
(***************************************************************************)
EXTENDS Naturals, Sequences, FiniteSetsExt

CONSTANTS
    Docs,           \* contents of memories; the id of a document is its hash
    NoDoc,
    Tasks,          \* the tasks that run at the same time
    Initial,        \* the documents there are at first
    MaxAttempts,    \* reconcile_max_attempts, 3 in the code
    MaxHooks,       \* bound on the facts extracted
    MaxIncidents    \* bound on calls that fail, crashes and restores, together

ASSUME MemoryAssumption ==
    /\ IsFiniteSet(Docs) /\ NoDoc \notin Docs /\ Initial \subseteq Docs
    /\ {MaxAttempts, MaxHooks, MaxIncidents} \subseteq Nat

VARIABLES
    kb,         \* the documents in the knowledge base
    intents,    \* the rows of memory_supersede_intent; stale: claimed longer
                \* ago than reconcile_claim_timeout
    audit,      \* the rows of memory_audit
    tasks,      \* per task: where it is and what it works on
    used,       \* how much of the bounds is used up
    seen        \* history: known   the documents that were ever there
                \*          unsure  those whose deletion was done and reported as failed

vars == <<kb, intents, audit, tasks, used, seen>>

NoRow == 0

-----------------------------------------------------------------------------
(* The tasks. *)

\* robbed is history: another task deleted the new document after it was stored.
Idle == [pc |-> "idle", kind |-> "round", intent |-> NoRow, row |-> NoRow, source |-> NoRow,
         old |-> NoDoc, new |-> NoDoc, robbed |-> FALSE]

Begin(kind, pc) == [Idle EXCEPT !.kind = kind, !.pc = pc]

At(t, pc) == tasks[t].pc = pc

\* A task that is done with an intention or a restore forgets it.
Go(t, pc) ==
    tasks' = [tasks EXCEPT ![t] = IF pc \in {"round", "sweep", "idle"}
                                  THEN Begin("round", pc) ELSE [@ EXCEPT !.pc = pc]]

Incident == used.incidents < MaxIncidents /\ used' = [used EXCEPT !.incidents = @ + 1]

\* One call goes wrong.
Fails == Incident

Works == UNCHANGED used

\* Between the claim of an intention and what closes or releases it.
Claimed(t) == /\ tasks[t].kind # "restore"
              /\ tasks[t].pc \in {"giveup", "add", "check", "audit", "delete",
                                  "settle", "cancel", "close", "release"}

Init ==
    /\ kb = Initial
    /\ intents = <<>> /\ audit = <<>>
    /\ tasks = [t \in Tasks |-> Idle]
    /\ used = [hooks |-> 0, incidents |-> 0]
    /\ seen = [known |-> Initial, unsure |-> {}]

-----------------------------------------------------------------------------
(* What starts a task. *)

\* A turn ends and its facts are extracted.  A fact that names a document that is
\* there, and another than itself, replaces it; any other fact is added.
StartHook(t) ==
    /\ At(t, "idle") /\ used.hooks < MaxHooks
    /\ \E new \in Docs :
         \/ tasks' = [tasks EXCEPT ![t] = [Begin("hook", "append") EXCEPT !.new = new]]
         \/ \E old \in kb \ {new} :
              tasks' = [tasks EXCEPT ![t] = [Begin("hook", "intent") EXCEPT
                                               !.old = old, !.new = new]]
    /\ used' = [used EXCEPT !.hooks = @ + 1]
    /\ UNCHANGED <<kb, intents, audit, seen>>

\* Only a round: after a turn of which nothing is worth a memory, and for the first
\* agent of the user in a process (claim_startup_reconcile).
StartRound(t) ==
    /\ At(t, "idle")
    /\ Go(t, "round")
    /\ UNCHANGED <<kb, intents, audit, used, seen>>

-----------------------------------------------------------------------------
(* The hook writes its intention and claims it. *)

WriteIntent(t) ==
    /\ At(t, "intent")
    /\ \/ /\ Works
          /\ intents' = Append(intents, [old |-> tasks[t].old, new |-> tasks[t].new,
                                         status |-> "pending", attempts |-> 0,
                                         stale |-> FALSE])
          /\ tasks' = [tasks EXCEPT ![t].intent = Len(intents'), ![t].pc = "own"]
       \/ Fails /\ Go(t, "append") /\ UNCHANGED intents
    /\ UNCHANGED <<kb, audit, seen>>

Stocked == seen' = [known |-> seen.known \cup kb', unsure |-> seen.unsure \ kb']

\* Without an intention the fact is added and nothing is deleted.
AppendFact(t) ==
    /\ At(t, "append")
    /\ \/ Works /\ kb' = kb \cup {tasks[t].new}
       \/ Fails /\ kb' \in {kb, kb \cup {tasks[t].new}}
    /\ Stocked
    /\ Go(t, "round")
    /\ UNCHANGED <<intents, audit>>

Taken(i) ==
    LET row == intents[i]
    IN  [intents EXCEPT ![i] = [old |-> row.old, new |-> row.new, status |-> "processing",
                                attempts |-> row.attempts + 1, stale |-> FALSE]]

\* Faulty: the writer takes its intention for its own.
MayOwnAlways(i) == TRUE

MayOwn(i) == intents[i].status = "pending"

ClaimIntent(t) ==
    LET i == tasks[t].intent IN
    /\ At(t, "own")
    /\ \/ MayOwn(i) /\ Works /\ intents' = Taken(i) /\ Go(t, "add")
       \/ ~MayOwn(i) /\ Works /\ UNCHANGED intents /\ Go(t, "round")
       \/ Fails /\ UNCHANGED intents /\ Go(t, "round")
    /\ UNCHANGED <<kb, audit, seen>>

-----------------------------------------------------------------------------
(* What the hook and a round do with an intention they have claimed. *)

\* Faulty: a document that could not be added does not stop the deletion.
AfterFailedAddGoesOn(t) == IF tasks[t].kind = "restore" THEN "idle" ELSE "check"

\* A restore gives up; an intention goes back to the queue.
AfterFailedAdd(t) == IF tasks[t].kind = "restore" THEN "idle" ELSE "release"

\* Adding is idempotent: a document that is there is replaced by itself.
AddNew(t) ==
    /\ At(t, "add")
    /\ \/ Works /\ kb' = kb \cup {tasks[t].new}
          /\ Go(t, IF tasks[t].kind # "restore" THEN "check"
                   ELSE IF tasks[t].old = NoDoc THEN "backfill" ELSE "audit")
       \/ Fails /\ kb' \in {kb, kb \cup {tasks[t].new}} /\ Go(t, AfterFailedAdd(t))
    /\ Stocked
    /\ UNCHANGED <<intents, audit>>

CheckOld(t) ==
    /\ At(t, "check")
    /\ \/ Works /\ Go(t, IF tasks[t].old \in kb THEN "audit" ELSE "close")
       \/ Fails /\ Go(t, "release")
    /\ UNCHANGED <<kb, intents, audit, seen>>

\* Faulty: the deletion goes ahead without its audit row.
UnauditedGoesOn(t) == "delete"

Unaudited(t) == IF tasks[t].kind = "restore" THEN "idle" ELSE "release"

\* delete_with_audit: no row, no deletion.
InsertAudit(t) ==
    /\ At(t, "audit")
    /\ \/ /\ Works
          /\ audit' = Append(audit, [doc |-> tasks[t].old, succ |-> tasks[t].new,
                                     status |-> "pending", restored |-> FALSE])
          /\ tasks' = [tasks EXCEPT ![t].row = Len(audit'), ![t].pc = "delete"]
       \/ Fails /\ UNCHANGED audit /\ Go(t, Unaudited(t))
    /\ UNCHANGED <<kb, intents, seen>>

Stored(u) == tasks[u].pc \in {"check", "audit", "delete"}

\* The document goes; whoever relies on it is robbed.
Deleted(t, pc) ==
    LET old == tasks[t].old
    IN  /\ kb' = kb \ {old}
        /\ tasks' = [u \in Tasks |->
                       IF u = t THEN [tasks[t] EXCEPT !.pc = pc]
                       ELSE [tasks[u] EXCEPT !.robbed =
                               @ \/ (old \in kb /\ Stored(u) /\ tasks[u].new = old)]]

\* A document that is gone already counts as deleted.
DeleteOld(t) ==
    /\ At(t, "delete")
    /\ \/ Works /\ Deleted(t, "settle") /\ UNCHANGED seen
       \/ Fails /\ Go(t, "cancel") /\ UNCHANGED <<kb, seen>>
       \/ /\ tasks[t].old \in kb /\ Fails /\ Deleted(t, "cancel")
          /\ seen' = [seen EXCEPT !.unsure = @ \cup {tasks[t].old}]
    /\ UNCHANGED <<intents, audit>>

Settled(r, status) ==
    [audit EXCEPT ![r].status = IF @ = "pending" THEN status ELSE @]

SettleAudit(t) ==
    /\ At(t, "settle")
    /\ \/ Works /\ audit' = Settled(tasks[t].row, "done")
       \/ Fails /\ UNCHANGED audit
    /\ Go(t, IF tasks[t].kind = "restore" THEN "backfill" ELSE "close")
    /\ UNCHANGED <<kb, intents, seen>>

CancelAudit(t) ==
    /\ At(t, "cancel")
    /\ \/ Works /\ audit' = Settled(tasks[t].row, "cancelled")
       \/ Fails /\ UNCHANGED audit
    /\ Go(t, IF tasks[t].kind = "restore" THEN "idle" ELSE "release")
    /\ UNCHANGED <<kb, intents, seen>>

Ended(i, status) ==
    [intents EXCEPT ![i].status = IF @ \in {"pending", "processing"} THEN status ELSE @]

\* The hook releases what it cannot close; a round leaves it to a later claim.
CloseIntent(t) ==
    /\ At(t, "close")
    /\ \/ Works /\ intents' = Ended(tasks[t].intent, "done") /\ Go(t, "round")
       \/ /\ Fails /\ UNCHANGED intents
          /\ Go(t, IF tasks[t].kind = "hook" THEN "release" ELSE "round")
    /\ UNCHANGED <<kb, audit, seen>>

\* The hook goes on to its round; a round that failed once ends.
ReleaseIntent(t) ==
    LET i == tasks[t].intent IN
    /\ At(t, "release")
    /\ \/ /\ Works
          /\ intents' = [intents EXCEPT ![i].status =
                           IF @ = "processing" THEN "pending" ELSE @]
       \/ Fails /\ UNCHANGED intents
    /\ Go(t, IF tasks[t].kind = "hook" THEN "round" ELSE "sweep")
    /\ UNCHANGED <<kb, audit, seen>>

-----------------------------------------------------------------------------
(* A round: reconcile. *)

\* Faulty: what a dead task had claimed is not taken up again.
ClaimablePending(i) == intents[i].status = "pending"

Claimable(i) == \/ intents[i].status = "pending"
                \/ intents[i].status = "processing" /\ intents[i].stale

\* The first half of claim_next: the oldest row that can be claimed.
SelectIntent(t) ==
    LET open == {i \in DOMAIN intents : Claimable(i)} IN
    /\ At(t, "round")
    /\ \/ /\ open # {} /\ Works
          /\ LET i == Min(open) IN
               tasks' = [tasks EXCEPT ![t] = [Begin("round", "claim") EXCEPT
                           !.intent = i, !.old = intents[i].old, !.new = intents[i].new]]
       \/ open = {} /\ Works /\ Go(t, "sweep")
       \/ Fails /\ Go(t, "sweep")
    /\ UNCHANGED <<kb, intents, audit, seen>>

\* The second half: the row is claimed if it still can be; else the round ends.
\* A row claimed too often is given up; one that cannot be read back stays claimed.
ClaimNext(t) ==
    LET i == tasks[t].intent IN
    /\ At(t, "claim")
    /\ \/ /\ Claimable(i) /\ Works
          /\ intents' = Taken(i)
          /\ Go(t, IF intents'[i].attempts > MaxAttempts THEN "giveup" ELSE "add")
       \/ ~Claimable(i) /\ Works /\ UNCHANGED intents /\ Go(t, "sweep")
       \/ /\ Fails /\ Go(t, "sweep")
          /\ intents' \in {intents} \cup IF Claimable(i) THEN {Taken(i)} ELSE {}
    /\ UNCHANGED <<kb, audit, seen>>

GiveUp(t) ==
    /\ At(t, "giveup")
    /\ \/ Works /\ intents' = Ended(tasks[t].intent, "failed")
       \/ Fails /\ UNCHANGED intents
    /\ Go(t, "round")
    /\ UNCHANGED <<kb, audit, seen>>

\* Rows left pending by no task at work, of documents that are gone.
Unsettled == {r \in DOMAIN audit :
                /\ audit[r].status = "pending" /\ audit[r].doc \notin kb
                /\ \A t \in Tasks : tasks[t].row # r \/ At(t, "idle")}

Sweep(t) ==
    /\ At(t, "sweep")
    /\ \/ /\ Works
          /\ audit' = [r \in DOMAIN audit |->
                         IF r \in Unsettled THEN [audit[r] EXCEPT !.status = "done"]
                         ELSE audit[r]]
       \/ Fails /\ UNCHANGED audit
    /\ Go(t, "idle")
    /\ UNCHANGED <<kb, intents, seen>>

-----------------------------------------------------------------------------
(* Restoring a document from its audit row. *)

\* The successor on the latest row of a document that is not restored.
Successor(d) ==
    LET rows == {r \in DOMAIN audit : /\ audit[r].doc = d /\ audit[r].status = "done"
                                      /\ ~audit[r].restored}
    IN IF rows = {} THEN NoDoc ELSE audit[Max(rows)].succ

\* The first document alive along the successors of a row: what took the place of the
\* one to restore.  None if that is the document itself.  Along more than all documents
\* the walk has come round.
Leaf(row) ==
    LET hops == 0 .. Cardinality(Docs)
        hop[n \in hops] == IF n = 0 THEN row.succ ELSE Successor(hop[n - 1])
        alive == {n \in hops : hop[n] \in kb}
    IN  IF alive = {} \/ hop[Min(alive)] = row.doc THEN NoDoc ELSE hop[Min(alive)]

StartRestore(t) ==
    /\ At(t, "idle") /\ Incident
    /\ \E r \in DOMAIN audit :
         /\ audit[r].status = "done" /\ ~audit[r].restored
         /\ tasks' = [tasks EXCEPT ![t] = [Begin("restore", "add") EXCEPT
                        !.source = r, !.old = Leaf(audit[r]), !.new = audit[r].doc]]
    /\ UNCHANGED <<kb, intents, audit, seen>>

\* mark_restored: once, and on a settled row.
MarkRestored(t) ==
    LET r == tasks[t].source IN
    /\ At(t, "backfill")
    /\ \/ /\ Works
          /\ audit' = [audit EXCEPT ![r].restored = @ \/ audit[r].status = "done"]
       \/ Fails /\ UNCHANGED audit
    /\ Go(t, "idle")
    /\ UNCHANGED <<kb, intents, seen>>

-----------------------------------------------------------------------------
(* The passing of time, and the end of the process. *)

\* A claim outlives the timeout; no call of a live task takes that long.
ClaimExpires(i) ==
    /\ i \in DOMAIN intents
    /\ intents[i].status = "processing" /\ ~intents[i].stale
    /\ \A t \in Tasks : Claimed(t) => tasks[t].intent # i
    /\ intents' = [intents EXCEPT ![i].stale = TRUE]
    /\ UNCHANGED <<kb, audit, tasks, used, seen>>

Crash ==
    /\ Incident
    /\ tasks' = [t \in Tasks |-> Idle]
    /\ UNCHANGED <<kb, intents, audit, seen>>

-----------------------------------------------------------------------------

\* What a task does once it is spawned.
Step(t) ==
    \/ WriteIntent(t) \/ AppendFact(t) \/ ClaimIntent(t)
    \/ AddNew(t) \/ CheckOld(t) \/ InsertAudit(t) \/ DeleteOld(t)
    \/ SettleAudit(t) \/ CancelAudit(t) \/ CloseIntent(t) \/ ReleaseIntent(t)
    \/ SelectIntent(t) \/ ClaimNext(t) \/ GiveUp(t) \/ Sweep(t)
    \/ MarkRestored(t)

Next ==
    \/ \E t \in Tasks : \/ Step(t) \/ StartHook(t) \/ StartRound(t) \/ StartRestore(t)
    \/ \E i \in 1 .. MaxHooks : ClaimExpires(i)
    \/ Crash

\* A spawned task is run on, time passes, and the user goes on talking.
Fairness ==
    /\ \A t \in Tasks : WF_vars(Step(t))
    /\ WF_vars(\E t \in Tasks : StartRound(t))
    /\ WF_vars(\E i \in 1 .. MaxHooks : ClaimExpires(i))

Spec == Init /\ [][Next]_vars /\ Fairness

-----------------------------------------------------------------------------
(* Properties. *)

\* An intention is worked on by one task at a time: the claim of the writer, the claim
\* of a round and the timeout of a claim keep the two apart, so that the old document is
\* not retired twice (memory_supersede.rs:192-200, hook.rs:884).
OneTaskPerIntent ==
    \A t, u \in Tasks :
        Claimed(t) /\ Claimed(u) /\ tasks[t].intent = tasks[u].intent => t = u

\* A document that is gone can be brought back: for each there is an audit row of its
\* own with its text, which no restore has used up, whatever fails and wherever the
\* process dies (retire.rs:33, memory_audit.rs:5).  The row is cancelled, and restore
\* turns it down, if the deletion was done and its answer lost.
GoneIsAudited ==
    \A d \in seen.known \ kb :
        \E r \in DOMAIN audit : /\ audit[r].doc = d /\ ~audit[r].restored
                                /\ audit[r].status # "cancelled" \/ d \in seen.unsure

\* A document is deleted only while what takes its place is there, unless another task
\* deleted that one in between: neither a failed call, a crash and replay nor a restore
\* along a circle of successors leaves the slot empty (hook.rs:906, handler.rs:1709).
NewBeforeOld ==
    [][\A d \in kb \ kb' :
         \E t \in Tasks : /\ At(t, "delete") /\ tasks[t].old = d
                          /\ tasks[t].new \in kb' \/ tasks[t].robbed]_vars

\* Every intention is closed or given up at last, and every audit row of a document that
\* stays gone is settled, whichever call failed and wherever the process died
\* (hook.rs:1067 reconcile).
EverythingCloses ==
    <>[](/\ \A i \in DOMAIN intents : intents[i].status \in {"done", "failed"}
         /\ \A r \in DOMAIN audit : audit[r].status = "pending" => audit[r].doc \in kb)

=============================================================================
