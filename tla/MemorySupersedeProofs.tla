------------------------ MODULE MemorySupersedeProofs -------------------------
(***************************************************************************)
(* The invariants of MemorySupersede, for any number of tasks, documents,  *)
(* facts and incidents.  The inductive invariant has three parts that      *)
(* hardly touch: what a task works on, who holds an intention, and which   *)
(* audit row vouches for a document that is gone.                          *)
(***************************************************************************)
EXTENDS MemorySupersede, FiniteSetTheorems, SequenceTheorems, WellFoundedInduction, TLAPS

-----------------------------------------------------------------------------
(* The inductive invariant.                                                *)

Pcs == {"idle", "round", "sweep", "append", "intent", "own", "claim", "giveup", "add", "check",
        "audit", "delete", "settle", "cancel", "close", "release", "backfill"}

Intent == [old : Docs, new : Docs, status : {"pending", "processing", "done", "failed"},
           attempts : Nat, stale : BOOLEAN]

AuditRow == [doc : Docs, succ : Docs, status : {"pending", "done", "cancelled"},
             restored : BOOLEAN]

Task == [pc : Pcs, kind : {"hook", "round", "restore"}, intent : Nat, row : Nat, source : Nat,
         old : Docs \cup {NoDoc}, new : Docs \cup {NoDoc}, robbed : BOOLEAN]

TypeOK ==
    /\ kb \subseteq Docs
    /\ intents \in Seq(Intent)
    /\ audit \in Seq(AuditRow)
    /\ tasks \in [Tasks -> Task]
    /\ used \in [hooks : Nat, incidents : Nat]
    /\ seen \in [known : SUBSET Docs, unsure : SUBSET Docs]

Resting == {"idle", "round", "sweep"}

Replacing(t) ==
    \/ tasks[t].pc \in {"intent", "own", "claim", "giveup", "check", "audit", "delete", "settle",
                        "cancel", "close", "release"}
    \/ At(t, "add") /\ tasks[t].kind # "restore"

\* What a task works on: a document, and another one that it takes the place of.
TwoDocuments(t) ==
    /\ tasks[t].pc \notin Resting => tasks[t].new \in Docs /\ tasks[t].old # tasks[t].new
    /\ Replacing(t) => tasks[t].old \in Docs

\* Only a restore has no intention.
HasIntent(t) ==
    /\ tasks[t].pc \in {"own", "claim"} => tasks[t].intent \in DOMAIN intents
    /\ tasks[t].pc \in {"intent", "own", "claim", "giveup", "check", "close", "release"} =>
          tasks[t].kind # "restore"
    /\ At(t, "backfill") => tasks[t].kind = "restore"

\* The intention a task has claimed is marked as claimed, and not for too long.
ClaimStands(t) ==
    Claimed(t) => /\ tasks[t].intent \in DOMAIN intents
                  /\ intents[tasks[t].intent].status = "processing"
                  /\ ~intents[tasks[t].intent].stale

\* Between the audit row of a deletion and its settlement.
Deleting(t) == tasks[t].pc \in {"delete", "settle", "cancel"}

RowStands(t) ==
    Deleting(t) => /\ tasks[t].row \in DOMAIN audit
                   /\ audit[tasks[t].row].doc = tasks[t].old
                   /\ audit[tasks[t].row].status = "pending"
                   /\ ~audit[tasks[t].row].restored

\* The row a restore is about is settled and of the document it brings back.
SourceSettled(t) ==
    tasks[t].kind = "restore" /\ tasks[t].pc \notin Resting =>
        /\ tasks[t].source \in DOMAIN audit
        /\ audit[tasks[t].source].status = "done"
        /\ audit[tasks[t].source].doc = tasks[t].new

OneTaskPerRow ==
    \A t, u \in Tasks :
        Deleting(t) /\ Deleting(u) /\ tasks[t].row = tasks[u].row => t = u

\* The document of a restore is back.
Restored(t) ==
    /\ tasks[t].kind = "restore"
    /\ tasks[t].pc \in {"audit", "delete", "settle", "cancel", "backfill"}

\* The deletion of a row may still turn out to have failed.
InDoubt(r) == \E t \in Tasks : tasks[t].pc \in {"delete", "cancel"} /\ tasks[t].row = r

\* The row will not be used up, nor cancelled if its document is gone for sure.
Vouches(r, d) ==
    /\ audit[r].doc = d /\ ~audit[r].restored
    /\ \A t \in Tasks : Restored(t) => tasks[t].source # r
    /\ d \in seen.unsure \/ (audit[r].status # "cancelled" /\ ~InDoubt(r))

IntentsSound ==
    /\ \A t \in Tasks : HasIntent(t) /\ ClaimStands(t)
    /\ OneTaskPerIntent

TasksSound ==
    /\ \A i \in DOMAIN intents : intents[i].old # intents[i].new
    /\ \A t \in Tasks : /\ TwoDocuments(t)
                        /\ Stored(t) => tasks[t].new \in kb \/ tasks[t].robbed

RowsSound ==
    /\ \A t \in Tasks : RowStands(t) /\ SourceSettled(t)
    /\ OneTaskPerRow

GoneIsVouchedFor ==
    \A d \in seen.known \ kb : \E r \in DOMAIN audit : Vouches(r, d)

Inv == TypeOK /\ IntentsSound /\ TasksSound /\ RowsSound /\ GoneIsVouchedFor

-----------------------------------------------------------------------------
(* Lemmas.                                                                 *)

\* The oldest of some rows is one of them.
LEMMA MinOfRows ==
  ASSUME NEW S \in SUBSET Nat, S # {}
  PROVE  Min(S) \in S
<1>1. PICK x \in S : \A y \in S : ~ (<<y, x>> \in OpToRel(<, Nat))
  BY NatLessThanWellFounded, WFMin
<1>2. \A y \in S : ~(y < x)
  BY <1>1 DEF OpToRel
<1>3. x \in S /\ \A y \in S : x =< y
  BY <1>2
<1>4. QED
  BY <1>3 DEF Min

\* One more row at the end.
LEMMA AppendFacts ==
  ASSUME NEW R, NEW s \in Seq(R), NEW x \in R
  PROVE  /\ Append(s, x) \in Seq(R) /\ Len(Append(s, x)) = Len(s) + 1
         /\ DOMAIN Append(s, x) = DOMAIN s \cup {Len(s) + 1}
         /\ Len(s) + 1 \in Nat /\ Len(s) + 1 \notin DOMAIN s
         /\ \A i \in DOMAIN s : Append(s, x)[i] = s[i]
         /\ Append(s, x)[Len(s) + 1] = x
OBVIOUS

\* What the other tasks do not notice of a step of t.
Others(t) ==
    \A u \in Tasks \ {t} :
        /\ tasks'[u].pc = tasks[u].pc /\ tasks'[u].kind = tasks[u].kind
        /\ tasks'[u].intent = tasks[u].intent /\ tasks'[u].row = tasks[u].row
        /\ tasks'[u].source = tasks[u].source
        /\ tasks'[u].old = tasks[u].old /\ tasks'[u].new = tasks[u].new
        /\ tasks[u].robbed => tasks'[u].robbed

\* What t works on stays the same.
Same(t) ==
    /\ tasks'[t].kind = tasks[t].kind
    /\ tasks'[t].intent = tasks[t].intent /\ tasks'[t].row = tasks[t].row
    /\ tasks'[t].source = tasks[t].source
    /\ tasks'[t].old = tasks[t].old /\ tasks'[t].new = tasks[t].new
    /\ tasks'[t].robbed = tasks[t].robbed

\* A task is given something else to do.
LEMMA Becomes ==
  ASSUME TypeOK, NEW t \in Tasks, NEW task \in Task, tasks' = [tasks EXCEPT ![t] = task]
  PROVE  tasks' \in [Tasks -> Task] /\ Others(t) /\ tasks'[t] = task
BY DEF TypeOK, Others

\* What a task starts with.
LEMMA BeginFacts ==
  ASSUME NEW kind \in {"hook", "round", "restore"}, NEW pc \in Pcs
  PROVE  LET task == Begin(kind, pc)
         IN  /\ task \in Task
             /\ task.pc = pc /\ task.kind = kind
             /\ task.intent = 0 /\ task.row = 0 /\ task.source = 0
             /\ task.old = NoDoc /\ task.new = NoDoc /\ ~task.robbed
BY DEF Begin, Idle, Task, NoRow

\* A task moves on.
LEMMA Goes ==
  ASSUME TypeOK, NEW t \in Tasks, NEW pc \in Pcs, Go(t, pc)
  PROVE  /\ tasks' \in [Tasks -> Task] /\ Others(t)
         /\ tasks'[t].pc = pc
         /\ pc \notin Resting => Same(t)
         /\ pc \in Resting => tasks'[t].kind = "round"
<1>1. tasks[t] \in Task
  BY DEF TypeOK
<1>2. CASE pc \in Resting
  <2>1. tasks' = [tasks EXCEPT ![t] = Begin("round", pc)]
    BY <1>2 DEF Go, Resting
  <2>2. /\ Begin("round", pc) \in Task
        /\ Begin("round", pc).pc = pc /\ Begin("round", pc).kind = "round"
    BY DEF Begin, Idle, Task, NoRow
  <2>3. QED
    BY <1>2, <2>1, <2>2, Becomes
<1>3. CASE pc \notin Resting
  <2> DEFINE task == [tasks[t] EXCEPT !.pc = pc]
  <2>1. tasks' = [tasks EXCEPT ![t] = task]
    BY <1>3 DEF Go, Resting
  <2>2. /\ task \in Task /\ task.pc = pc
        /\ task.kind = tasks[t].kind /\ task.intent = tasks[t].intent /\ task.row = tasks[t].row
        /\ task.source = tasks[t].source /\ task.old = tasks[t].old /\ task.new = tasks[t].new
        /\ task.robbed = tasks[t].robbed
    BY <1>1 DEF Task
  <2>3. QED
    BY <1>3, <2>1, <2>2, Becomes DEF Same
<1>4. QED
  BY <1>2, <1>3

\* The claims of the others stand, and t takes none of them.
LEMMA IntentsStay ==
  ASSUME IntentsSound, NEW t \in Tasks, Others(t),
         DOMAIN intents \subseteq DOMAIN intents',
         \A u \in Tasks \ {t} : Claimed(u) =>
            intents'[tasks[u].intent] = intents[tasks[u].intent],
         HasIntent(t)', ClaimStands(t)',
         Claimed(t)' => \A u \in Tasks \ {t} : Claimed(u) => tasks[u].intent # tasks'[t].intent
  PROVE  IntentsSound'
<1>1. \A u \in Tasks \ {t} : Claimed(u)' = Claimed(u) /\ tasks'[u].intent = tasks[u].intent
  BY DEF Others, Claimed
<1>2. \A u \in Tasks \ {t} : HasIntent(u)'
  BY DEF Others, IntentsSound, HasIntent, At
<1>3. \A u \in Tasks \ {t} : ClaimStands(u)'
  BY <1>1 DEF IntentsSound, ClaimStands
<1>4. OneTaskPerIntent'
  <2>1. \A u, v \in Tasks \ {t} :
           (Claimed(u) /\ Claimed(v) /\ tasks[u].intent = tasks[v].intent)' => u = v
    BY <1>1 DEF IntentsSound, OneTaskPerIntent
  <2>2. \A u \in Tasks \ {t} : (Claimed(u) /\ Claimed(t))' => tasks'[u].intent # tasks'[t].intent
    BY <1>1
  <2>3. QED
    BY <2>1, <2>2 DEF OneTaskPerIntent
<1>5. QED
  BY <1>2, <1>3, <1>4 DEF IntentsSound

\* A step of t that leaves the intentions alone and claims none.
LEMMA IntentsUntouched ==
  ASSUME IntentsSound, NEW t \in Tasks, Others(t), intents' = intents, HasIntent(t)',
         Claimed(t)' => Claimed(t) /\ tasks'[t].intent = tasks[t].intent
  PROVE  IntentsSound'
<1>1. ClaimStands(t)'
  BY DEF IntentsSound, ClaimStands
<1>2. Claimed(t)' => \A u \in Tasks \ {t} : Claimed(u) => tasks[u].intent # tasks'[t].intent
  BY DEF IntentsSound, OneTaskPerIntent
<1>3. QED
  BY <1>1, <1>2, IntentsStay

\* No document goes, and t knows what it works on.
LEMMA TasksStay ==
  ASSUME TasksSound, NEW t \in Tasks, Others(t), kb \subseteq kb',
         (\A i \in DOMAIN intents : intents[i].old # intents[i].new)',
         TwoDocuments(t)', (Stored(t) => tasks[t].new \in kb \/ tasks[t].robbed)'
  PROVE  TasksSound'
<1>1. \A u \in Tasks \ {t} : TwoDocuments(u)'
  BY DEF Others, TasksSound, TwoDocuments, Replacing, At, Resting
<1>2. \A u \in Tasks \ {t} : (Stored(u) => tasks[u].new \in kb \/ tasks[u].robbed)'
  BY DEF Others, TasksSound, Stored
<1>3. QED
  BY <1>1, <1>2 DEF TasksSound

\* The rows the others delete behind or restore from stay what they are.
LEMMA RowsStay ==
  ASSUME RowsSound, NEW t \in Tasks, Others(t),
         DOMAIN audit \subseteq DOMAIN audit',
         \A r \in DOMAIN audit :
            /\ audit'[r].doc = audit[r].doc
            /\ audit[r].status = "done" => audit'[r].status = "done",
         \A u \in Tasks \ {t} : Deleting(u) => audit'[tasks[u].row] = audit[tasks[u].row],
         RowStands(t)', SourceSettled(t)',
         Deleting(t)' => \A u \in Tasks \ {t} : Deleting(u) => tasks[u].row # tasks'[t].row
  PROVE  RowsSound'
<1>1. \A u \in Tasks \ {t} : Deleting(u)' = Deleting(u) /\ tasks'[u].row = tasks[u].row
                              /\ tasks'[u].old = tasks[u].old
  BY DEF Others, Deleting
<1>2. \A u \in Tasks \ {t} : RowStands(u)'
  BY <1>1 DEF RowsSound, RowStands
<1>3. \A u \in Tasks \ {t} : SourceSettled(u)'
  BY DEF Others, RowsSound, SourceSettled
<1>4. OneTaskPerRow'
  <2>1. \A u, v \in Tasks \ {t} :
           (Deleting(u) /\ Deleting(v) /\ tasks[u].row = tasks[v].row)' => u = v
    BY <1>1 DEF RowsSound, OneTaskPerRow
  <2>2. \A u \in Tasks \ {t} : (Deleting(u) /\ Deleting(t))' => tasks'[u].row # tasks'[t].row
    BY <1>1
  <2>3. QED
    BY <2>1, <2>2 DEF OneTaskPerRow
<1>5. QED
  BY <1>2, <1>3, <1>4 DEF RowsSound

\* A step of t that leaves the rows alone.
LEMMA RowsUntouched ==
  ASSUME RowsSound, NEW t \in Tasks, Others(t), audit' = audit, SourceSettled(t)',
         Deleting(t)' => /\ Deleting(t) /\ tasks'[t].row = tasks[t].row
                         /\ tasks'[t].old = tasks[t].old
  PROVE  RowsSound'
<1>1. RowStands(t)'
  BY DEF RowsSound, RowStands
<1>2. Deleting(t)' => \A u \in Tasks \ {t} : Deleting(u) => tasks[u].row # tasks'[t].row
  BY DEF RowsSound, OneTaskPerRow
<1>3. QED
  BY <1>1, <1>2, RowsStay

\* A row goes on vouching for a document: t neither starts to delete behind an old row
\* nor is done with a restore of a document that is not back, and it uses up or cancels
\* no rows but those it holds.
LEMMA VouchesStays ==
  ASSUME NEW t \in Tasks, Others(t), NEW r \in DOMAIN audit, NEW d, Vouches(r, d),
         d \in seen.unsure => d \in seen'.unsure,
         /\ audit'[r].doc = audit[r].doc
         /\ audit'[r].restored => audit[r].restored \/ (Restored(t) /\ tasks[t].source = r)
         /\ audit'[r].status = "cancelled" =>
               audit[r].status = "cancelled" \/ (At(t, "cancel") /\ tasks[t].row = r),
         Restored(t)' => \/ Restored(t) /\ tasks'[t].source = tasks[t].source
                         \/ audit[tasks'[t].source].doc # d,
         tasks'[t].pc \in {"delete", "cancel"} =>
            \/ tasks[t].pc \in {"delete", "cancel"} /\ tasks'[t].row = tasks[t].row
            \/ tasks'[t].row \notin DOMAIN audit
  PROVE  Vouches(r, d)'
<1>1. (audit[r].doc = d /\ ~audit[r].restored)'
  BY DEF Vouches
<1>2. \A u \in Tasks : Restored(u)' => tasks'[u].source # r
  <2>1. \A u \in Tasks \ {t} : Restored(u)' => Restored(u) /\ tasks'[u].source = tasks[u].source
    BY DEF Others, Restored
  <2>2. QED
    BY <2>1 DEF Vouches
<1>3. InDoubt(r)' => InDoubt(r)
  BY DEF Others, InDoubt
<1>4. (d \in seen.unsure \/ (audit[r].status # "cancelled" /\ ~InDoubt(r)))'
  <2>1. At(t, "cancel") /\ tasks[t].row = r => InDoubt(r)
    BY DEF At, InDoubt
  <2>2. QED
    BY <1>3, <2>1 DEF Vouches
<1>5. QED
  BY <1>1, <1>2, <1>4 DEF Vouches

\* So does the row of every document that is gone, as long as no document goes.
LEMMA GoneStayVouchedFor ==
  ASSUME GoneIsVouchedFor, NEW t \in Tasks, Others(t),
         kb \subseteq kb', seen'.known \subseteq seen.known \cup kb',
         seen.unsure \ kb' \subseteq seen'.unsure,
         DOMAIN audit \subseteq DOMAIN audit',
         \A r \in DOMAIN audit :
            /\ audit'[r].doc = audit[r].doc
            /\ audit'[r].restored => audit[r].restored \/ (Restored(t) /\ tasks[t].source = r)
            /\ audit'[r].status = "cancelled" =>
                  audit[r].status = "cancelled" \/ (At(t, "cancel") /\ tasks[t].row = r),
         Restored(t)' => \/ Restored(t) /\ tasks'[t].source = tasks[t].source
                         \/ audit[tasks'[t].source].doc \in kb',
         tasks'[t].pc \in {"delete", "cancel"} =>
            \/ tasks[t].pc \in {"delete", "cancel"} /\ tasks'[t].row = tasks[t].row
            \/ tasks'[t].row \notin DOMAIN audit
  PROVE  GoneIsVouchedFor'
<1> SUFFICES ASSUME NEW d \in seen'.known \ kb'
             PROVE  \E r \in DOMAIN audit' : Vouches(r, d)'
  BY DEF GoneIsVouchedFor
<1>1. PICK r \in DOMAIN audit : Vouches(r, d)
  BY DEF GoneIsVouchedFor
<1>2. Vouches(r, d)'
  BY <1>1, VouchesStays
<1>3. QED
  BY <1>2

-----------------------------------------------------------------------------
(* Every step keeps the invariant.                                         *)

\* StartHook gives a task two documents.
LEMMA StartHookKeeps ==
  ASSUME Inv, NEW t \in Tasks, StartHook(t)
  PROVE  Inv'
<1> USE DEF Inv
<1> DEFINE Hooks(task) ==
             /\ tasks' = [tasks EXCEPT ![t] = task]
             /\ task.pc \in {"append", "intent"} /\ task.kind = "hook"
             /\ task.new \in Docs /\ task.old # task.new
             /\ task.pc = "intent" => task.old \in Docs
<1>1. PICK task \in Task : Hooks(task)
  <2> DEFINE adds == Begin("hook", "append")
             replaces == Begin("hook", "intent")
  <2>1. /\ adds \in Task /\ adds.pc = "append" /\ adds.kind = "hook" /\ adds.old = NoDoc
        /\ replaces \in Task /\ replaces.pc = "intent" /\ replaces.kind = "hook"
    BY BeginFacts DEF Pcs
  <2>2. PICK new \in Docs :
           \/ tasks' = [tasks EXCEPT ![t] = [adds EXCEPT !.new = new]]
           \/ \E old \in kb \ {new} :
                tasks' = [tasks EXCEPT ![t] = [replaces EXCEPT !.old = old, !.new = new]]
    BY Zenon DEF StartHook
  <2> HIDE DEF adds, replaces
  <2>3. CASE tasks' = [tasks EXCEPT ![t] = [adds EXCEPT !.new = new]]
    <3> DEFINE task == [adds EXCEPT !.new = new]
    <3>1. /\ task \in Task /\ task.pc = "append" /\ task.kind = "hook"
          /\ task.new = new /\ task.old = NoDoc
      BY <2>1 DEF Task
    <3>2. Hooks(task)
      BY <2>3, <3>1, MemoryAssumption
    <3>3. QED
      BY <3>1, <3>2
  <2>4. ASSUME NEW old \in kb \ {new},
               tasks' = [tasks EXCEPT ![t] = [replaces EXCEPT !.old = old, !.new = new]]
        PROVE  \E task \in Task : Hooks(task)
    <3> DEFINE task == [replaces EXCEPT !.old = old, !.new = new]
    <3>1. old \in Docs
      BY DEF TypeOK
    <3>2. /\ task \in Task /\ task.pc = "intent" /\ task.kind = "hook"
          /\ task.new = new /\ task.old = old
      BY <2>1, <3>1 DEF Task
    <3>3. Hooks(task)
      BY <2>4, <3>1, <3>2
    <3>4. QED
      BY <3>2, <3>3
  <2>5. QED
    BY <2>2, <2>3, <2>4
<1>2. /\ kb' = kb /\ intents' = intents /\ audit' = audit /\ seen' = seen
      /\ used' \in [hooks : Nat, incidents : Nat]
  <2>1. used' = [used EXCEPT !.hooks = @ + 1] /\ UNCHANGED <<kb, intents, audit, seen>>
    BY DEF StartHook
  <2>2. QED
    BY <2>1 DEF TypeOK
<1>3. tasks' \in [Tasks -> Task] /\ Others(t) /\ tasks'[t] = task
  BY <1>1, Becomes
<1>4. TypeOK'
  BY <1>2, <1>3 DEF TypeOK
<1>5. IntentsSound'
  BY <1>1, <1>2, <1>3, IntentsUntouched DEF HasIntent, Claimed, At
<1>6. TasksSound'
  BY <1>1, <1>2, <1>3, TasksStay DEF TwoDocuments, Replacing, At, Stored, TasksSound
<1>7. RowsSound'
  BY <1>1, <1>2, <1>3, RowsUntouched DEF SourceSettled, Deleting
<1>8. GoneIsVouchedFor'
  BY <1>1, <1>2, <1>3, GoneStayVouchedFor DEF Restored
<1>9. QED
  BY <1>4, <1>5, <1>6, <1>7, <1>8

\* Where a task may go without doing anything to documents and intentions: to where it has
\* no more to do, or to where it holds what it held before.
MovesOn(t, pc) ==
    \/ pc \in Resting
    \/ At(t, "intent") /\ pc = "append"
    \/ At(t, "check") /\ pc \in {"audit", "close", "release"}
    \/ At(t, "audit") /\ tasks[t].kind # "restore" /\ pc = "release"
    \/ At(t, "delete") /\ pc = "cancel"
    \/ At(t, "settle") /\ tasks[t].kind # "restore" /\ pc = "close"
    \/ At(t, "settle") /\ tasks[t].kind = "restore" /\ pc = "backfill"
    \/ At(t, "cancel") /\ tasks[t].kind # "restore" /\ pc = "release"
    \/ At(t, "close") /\ pc = "release"

\* What a task that moves on leaves as it was.
LEMMA MovesOnSound ==
  ASSUME Inv, NEW t \in Tasks, NEW pc \in Pcs, Go(t, pc), UNCHANGED <<kb, intents>>,
         MovesOn(t, pc)
  PROVE  /\ tasks' \in [Tasks -> Task] /\ Others(t) /\ tasks'[t].pc = pc
         /\ IntentsSound' /\ TasksSound'
         /\ tasks'[t].kind = "restore" /\ pc \notin Resting =>
               /\ tasks[t].kind = "restore" /\ tasks[t].pc \notin Resting
               /\ tasks'[t].source = tasks[t].source /\ tasks'[t].new = tasks[t].new
         /\ Deleting(t)' => /\ Deleting(t) /\ tasks'[t].row = tasks[t].row
                            /\ tasks'[t].old = tasks[t].old
         /\ Restored(t)' => Restored(t) /\ tasks'[t].source = tasks[t].source
         /\ tasks'[t].pc \in {"delete", "cancel"} =>
               tasks[t].pc \in {"delete", "cancel"} /\ tasks'[t].row = tasks[t].row
<1> USE DEF MovesOn
<1>1. /\ tasks' \in [Tasks -> Task] /\ Others(t) /\ tasks'[t].pc = pc
      /\ pc \notin Resting => Same(t)
      /\ pc \in Resting => tasks'[t].kind = "round"
  BY Goes DEF Inv
<1>2. HasIntent(t) /\ TwoDocuments(t) /\ (Stored(t) => tasks[t].new \in kb \/ tasks[t].robbed)
  BY DEF Inv, IntentsSound, TasksSound
<1>3. IntentsSound'
  <2>1. HasIntent(t)'
    BY <1>1, <1>2 DEF HasIntent, At, Same, Resting
  <2>2. Claimed(t)' => Claimed(t) /\ tasks'[t].intent = tasks[t].intent
    BY <1>1, <1>2 DEF HasIntent, Claimed, At, Same, Resting
  <2>3. QED
    BY <1>1, <2>1, <2>2, IntentsUntouched DEF Inv
<1>4. TasksSound'
  <2>1. TwoDocuments(t)'
    BY <1>1, <1>2 DEF TwoDocuments, Replacing, At, Same, Resting
  <2>2. (Stored(t) => tasks[t].new \in kb \/ tasks[t].robbed)'
    BY <1>1, <1>2 DEF Stored, At, Same, Resting
  <2>3. QED
    BY <1>1, <2>1, <2>2, TasksStay DEF Inv, TasksSound
<1>5. /\ tasks'[t].kind = "restore" /\ pc \notin Resting =>
            /\ tasks[t].kind = "restore" /\ tasks[t].pc \notin Resting
            /\ tasks'[t].source = tasks[t].source /\ tasks'[t].new = tasks[t].new
      /\ Deleting(t)' => /\ Deleting(t) /\ tasks'[t].row = tasks[t].row
                         /\ tasks'[t].old = tasks[t].old
  BY <1>1 DEF At, Same, Resting, Deleting
<1>6. /\ Restored(t)' => Restored(t) /\ tasks'[t].source = tasks[t].source
      /\ tasks'[t].pc \in {"delete", "cancel"} =>
            tasks[t].pc \in {"delete", "cancel"} /\ tasks'[t].row = tasks[t].row
  BY <1>1, <1>2 DEF Restored, HasIntent, At, Same, Resting
<1>7. QED
  BY <1>1, <1>3, <1>4, <1>5, <1>6

\* A task that only moves on.
LEMMA MovesOnKeeps ==
  ASSUME Inv, NEW t \in Tasks, NEW pc \in Pcs, Go(t, pc), MovesOn(t, pc),
         UNCHANGED <<kb, intents, audit, seen>>, used' \in [hooks : Nat, incidents : Nat]
  PROVE  Inv'
<1>1. TypeOK' /\ IntentsSound' /\ TasksSound'
  BY MovesOnSound DEF Inv, TypeOK
<1>2. RowsSound'
  <2>1. SourceSettled(t)'
    BY MovesOnSound DEF Inv, RowsSound, SourceSettled
  <2>2. QED
    BY <2>1, MovesOnSound, RowsUntouched DEF Inv
<1>3. GoneIsVouchedFor'
  BY MovesOnSound, GoneStayVouchedFor DEF Inv
<1>4. QED
  BY <1>1, <1>2, <1>3 DEF Inv

\* The count of what went wrong.
LEMMA UsedTyped ==
  ASSUME TypeOK, Works \/ Fails
  PROVE  used' \in [hooks : Nat, incidents : Nat]
BY DEF TypeOK, Works, Fails, Incident

\* A round begins.
LEMMA StartRoundKeeps ==
  ASSUME Inv, NEW t \in Tasks, StartRound(t)
  PROVE  Inv'
<1>1. Go(t, "round") /\ UNCHANGED <<kb, intents, audit, seen>> /\ used' = used
      /\ "round" \in Pcs /\ "round" \in Resting
  BY DEF StartRound, Pcs, Resting
<1>2. QED
  BY <1>1, MovesOnKeeps DEF Inv, TypeOK, MovesOn

\* The intention that is written is a row of its own, of two documents.
LEMMA WriteIntentKeeps ==
  ASSUME Inv, NEW t \in Tasks, WriteIntent(t)
  PROVE  Inv'
<1> USE DEF Inv
<1>1. At(t, "intent") /\ kb' = kb /\ audit' = audit /\ seen' = seen
      /\ used' \in [hooks : Nat, incidents : Nat]
  BY UsedTyped DEF WriteIntent
<1>2. CASE Go(t, "append") /\ intents' = intents
  BY <1>1, <1>2, MovesOnKeeps DEF Pcs, MovesOn
<1>3. ASSUME intents' = Append(intents, [old |-> tasks[t].old, new |-> tasks[t].new,
                                         status |-> "pending", attempts |-> 0,
                                         stale |-> FALSE]),
             tasks' = [tasks EXCEPT ![t].intent = Len(intents'), ![t].pc = "own"]
      PROVE  Inv'
  <2> DEFINE row == [old |-> tasks[t].old, new |-> tasks[t].new, status |-> "pending",
                     attempts |-> 0, stale |-> FALSE]
             n == Len(intents) + 1
  <2>1. /\ tasks[t] \in Task /\ tasks[t].kind # "restore"
        /\ tasks[t].old \in Docs /\ tasks[t].new \in Docs /\ tasks[t].old # tasks[t].new
    BY <1>1 DEF TypeOK, IntentsSound, HasIntent, TasksSound, TwoDocuments, Replacing, At, Resting
  <2>2. row \in Intent /\ row.old # row.new
    BY <2>1 DEF Intent
  <2> HIDE DEF row
  <2>3. /\ intents' \in Seq(Intent) /\ Len(intents') = n
        /\ DOMAIN intents' = DOMAIN intents \cup {n}
        /\ n \in Nat /\ n \notin DOMAIN intents
        /\ \A i \in DOMAIN intents : intents'[i] = intents[i]
        /\ intents'[n] = row
    <3>1. intents' = Append(intents, row)
      BY <1>3 DEF row
    <3>2. QED
      BY <3>1, <2>2, AppendFacts DEF TypeOK
  <2> HIDE DEF n
  <2>4. /\ tasks' \in [Tasks -> Task] /\ Others(t)
        /\ tasks'[t].pc = "own" /\ tasks'[t].intent = n /\ tasks'[t].kind = tasks[t].kind
        /\ tasks'[t].old = tasks[t].old /\ tasks'[t].new = tasks[t].new
    <3> DEFINE task == [tasks[t] EXCEPT !.intent = n, !.pc = "own"]
    <3>1. /\ task \in Task /\ task.pc = "own" /\ task.intent = n /\ task.kind = tasks[t].kind
          /\ task.old = tasks[t].old /\ task.new = tasks[t].new
      BY <2>1, <2>3 DEF Task, Pcs
    <3>2. tasks' = [tasks EXCEPT ![t] = task]
      BY <1>3, <2>3
    <3> HIDE DEF task
    <3>3. QED
      BY <3>1, <3>2, Becomes
  <2>5. TypeOK'
    BY <1>1, <2>3, <2>4 DEF TypeOK
  <2>6. IntentsSound'
    <3>1. HasIntent(t)' /\ ~Claimed(t)'
      BY <2>1, <2>3, <2>4 DEF HasIntent, At, Claimed
    <3>2. \A u \in Tasks \ {t} : Claimed(u) =>
             intents'[tasks[u].intent] = intents[tasks[u].intent]
      BY <2>3 DEF IntentsSound, ClaimStands
    <3>3. QED
      BY <2>3, <2>4, <3>1, <3>2, IntentsStay DEF ClaimStands
  <2>7. TasksSound'
    <3>1. (\A i \in DOMAIN intents : intents[i].old # intents[i].new)'
      BY <2>2, <2>3 DEF TasksSound
    <3>2. TwoDocuments(t)' /\ ~Stored(t)'
      BY <2>1, <2>4 DEF TwoDocuments, Stored
    <3>3. QED
      BY <1>1, <2>4, <3>1, <3>2, TasksStay
  <2>8. RowsSound'
    BY <1>1, <2>1, <2>4, RowsUntouched DEF SourceSettled, Deleting
  <2>9. GoneIsVouchedFor'
    BY <1>1, <2>4, GoneStayVouchedFor DEF Restored
  <2>10. QED
    BY <2>5, <2>6, <2>7, <2>8, <2>9
<1>4. QED
  BY <1>2, <1>3 DEF WriteIntent

\* Documents are added, and t goes on with or without its own.
LEMMA StockKeeps ==
  ASSUME Inv, NEW t \in Tasks, NEW pc \in Pcs, Go(t, pc), tasks[t].pc \in {"append", "add"},
         kb' \in {kb, kb \cup {tasks[t].new}}, Stocked, UNCHANGED <<intents, audit>>,
         used' \in [hooks : Nat, incidents : Nat],
         \/ pc \in Resting
         \/ At(t, "add") /\ tasks[t].kind # "restore" /\ pc = "release"
         \/ At(t, "add") /\ tasks[t].kind # "restore" /\ pc = "check" /\ tasks[t].new \in kb'
         \/ At(t, "add") /\ tasks[t].kind = "restore" /\ pc = "backfill" /\ tasks[t].new \in kb'
         \/ /\ At(t, "add") /\ tasks[t].kind = "restore" /\ tasks[t].old # NoDoc
            /\ pc = "audit" /\ tasks[t].new \in kb'
  PROVE  Inv'
<1>1. /\ tasks' \in [Tasks -> Task] /\ Others(t) /\ tasks'[t].pc = pc
      /\ pc \notin Resting => Same(t)
      /\ pc \in Resting => tasks'[t].kind = "round"
  BY Goes DEF Inv
<1>2. HasIntent(t) /\ TwoDocuments(t) /\ SourceSettled(t) /\ tasks[t] \in Task
  BY DEF Inv, IntentsSound, TasksSound, RowsSound, TypeOK
<1>3. tasks[t].new \in Docs
  BY <1>2 DEF TwoDocuments, Resting
<1>4. kb \subseteq kb' /\ kb' \subseteq Docs
  BY <1>3 DEF Inv, TypeOK
<1>5. /\ seen' \in [known : SUBSET Docs, unsure : SUBSET Docs]
      /\ seen'.known = seen.known \cup kb' /\ seen'.unsure = seen.unsure \ kb'
  BY <1>4 DEF Inv, TypeOK, Stocked
<1>6. TypeOK'
  BY <1>1, <1>4, <1>5 DEF Inv, TypeOK
<1>7. IntentsSound'
  <2>1. HasIntent(t)'
    BY <1>1, <1>2 DEF HasIntent, At, Same, Resting
  <2>2. Claimed(t)' => Claimed(t) /\ tasks'[t].intent = tasks[t].intent
    BY <1>1, <1>2 DEF Claimed, At, Same, Resting
  <2>3. QED
    BY <1>1, <2>1, <2>2, IntentsUntouched DEF Inv
<1>8. TasksSound'
  <2>1. TwoDocuments(t)'
    <3>1. At(t, "add") /\ tasks[t].kind = "restore" /\ tasks[t].old # NoDoc => tasks[t].old \in Docs
      BY <1>2 DEF Task
    <3>2. QED
      BY <1>1, <1>2, <3>1 DEF TwoDocuments, Replacing, At, Same, Resting
  <2>2. (Stored(t) => tasks[t].new \in kb \/ tasks[t].robbed)'
    BY <1>1 DEF Stored, At, Same, Resting
  <2>3. QED
    BY <1>1, <1>4, <2>1, <2>2, TasksStay DEF Inv, TasksSound
<1>9. RowsSound'
  <2>1. SourceSettled(t)'
    BY <1>1, <1>2 DEF SourceSettled, At, Same, Resting
  <2>2. ~Deleting(t)'
    BY <1>1 DEF Deleting, At, Resting
  <2>3. QED
    BY <1>1, <2>1, <2>2, RowsUntouched DEF Inv
<1>10. GoneIsVouchedFor'
  <2>1. Restored(t)' => audit[tasks'[t].source].doc \in kb'
    BY <1>1, <1>2 DEF Restored, SourceSettled, At, Same, Resting
  <2>2. tasks'[t].pc \notin {"delete", "cancel"}
    BY <1>1 DEF Resting
  <2>3. QED
    BY <1>1, <1>4, <1>5, <2>1, <2>2, GoneStayVouchedFor DEF Inv
<1>11. QED
  BY <1>6, <1>7, <1>8, <1>9, <1>10 DEF Inv

\* A fact is added.
LEMMA AppendFactKeeps ==
  ASSUME Inv, NEW t \in Tasks, AppendFact(t)
  PROVE  Inv'
<1>1. /\ At(t, "append") /\ Go(t, "round") /\ Stocked /\ UNCHANGED <<intents, audit>>
      /\ kb' \in {kb, kb \cup {tasks[t].new}} /\ (Works \/ Fails)
  BY DEF AppendFact
<1>2. "round" \in Pcs /\ "round" \in Resting /\ tasks[t].pc \in {"append", "add"}
  BY <1>1 DEF Pcs, Resting, At
<1>3. QED
  BY <1>1, <1>2, UsedTyped, StockKeeps DEF Inv

\* The new document is added.
LEMMA AddNewKeeps ==
  ASSUME Inv, NEW t \in Tasks, AddNew(t)
  PROVE  Inv'
<1>1. /\ At(t, "add") /\ Stocked /\ UNCHANGED <<intents, audit>>
      /\ used' \in [hooks : Nat, incidents : Nat] /\ tasks[t].pc \in {"append", "add"}
  BY UsedTyped DEF AddNew, At, Inv
<1>2. /\ {"release", "idle", "check", "audit", "backfill"} \subseteq Pcs /\ "idle" \in Resting
  BY DEF Pcs, Resting
<1>3. CASE /\ kb' = kb \cup {tasks[t].new}
           /\ Go(t, IF tasks[t].kind # "restore" THEN "check"
                    ELSE IF tasks[t].old = NoDoc THEN "backfill" ELSE "audit")
  <2>1. tasks[t].new \in kb'
    BY <1>3
  <2>2. CASE tasks[t].kind # "restore"
    BY <1>1, <1>2, <1>3, <2>1, <2>2, StockKeeps
  <2>3. CASE tasks[t].kind = "restore" /\ tasks[t].old = NoDoc
    BY <1>1, <1>2, <1>3, <2>1, <2>3, StockKeeps
  <2>4. CASE tasks[t].kind = "restore" /\ tasks[t].old # NoDoc
    BY <1>1, <1>2, <1>3, <2>1, <2>4, StockKeeps
  <2>5. QED
    BY <2>2, <2>3, <2>4
<1>4. CASE kb' \in {kb, kb \cup {tasks[t].new}} /\ Go(t, AfterFailedAdd(t))
  BY <1>1, <1>2, <1>4, StockKeeps DEF AfterFailedAdd
<1>5. QED
  BY <1>3, <1>4 DEF AddNew

\* The old document is looked for.
LEMMA CheckOldKeeps ==
  ASSUME Inv, NEW t \in Tasks, CheckOld(t)
  PROVE  Inv'
<1>1. /\ At(t, "check") /\ UNCHANGED <<kb, intents, audit, seen>>
      /\ used' \in [hooks : Nat, incidents : Nat]
      /\ \E pc \in {"audit", "close", "release"} : Go(t, pc)
  BY UsedTyped DEF CheckOld, Inv
<1>2. {"audit", "close", "release"} \subseteq Pcs
  BY DEF Pcs
<1>3. QED
  BY <1>1, <1>2, MovesOnKeeps DEF MovesOn

\* The audit row of a deletion is a row of its own.
LEMMA InsertAuditKeeps ==
  ASSUME Inv, NEW t \in Tasks, InsertAudit(t)
  PROVE  Inv'
<1> USE DEF Inv
<1>1. At(t, "audit") /\ kb' = kb /\ intents' = intents /\ seen' = seen
      /\ used' \in [hooks : Nat, incidents : Nat]
  BY UsedTyped DEF InsertAudit
<1>2. CASE Go(t, Unaudited(t)) /\ audit' = audit
  BY <1>1, <1>2, MovesOnKeeps DEF Unaudited, Pcs, Resting, MovesOn
<1>3. ASSUME audit' = Append(audit, [doc |-> tasks[t].old, succ |-> tasks[t].new,
                                     status |-> "pending", restored |-> FALSE]),
             tasks' = [tasks EXCEPT ![t].row = Len(audit'), ![t].pc = "delete"]
      PROVE  Inv'
  <2> DEFINE row == [doc |-> tasks[t].old, succ |-> tasks[t].new, status |-> "pending",
                     restored |-> FALSE]
             n == Len(audit) + 1
  <2>1. /\ tasks[t] \in Task /\ SourceSettled(t) /\ (tasks[t].new \in kb \/ tasks[t].robbed)
        /\ tasks[t].old \in Docs /\ tasks[t].new \in Docs /\ tasks[t].old # tasks[t].new
    BY <1>1 DEF TypeOK, RowsSound, TasksSound, TwoDocuments, Stored, Replacing, At, Resting
  <2>2. /\ row \in AuditRow /\ row.doc = tasks[t].old /\ row.status = "pending"
        /\ ~row.restored
    BY <2>1 DEF AuditRow
  <2> HIDE DEF row
  <2>3. /\ audit' \in Seq(AuditRow) /\ Len(audit') = n
        /\ DOMAIN audit' = DOMAIN audit \cup {n}
        /\ n \in Nat /\ n \notin DOMAIN audit
        /\ \A i \in DOMAIN audit : audit'[i] = audit[i]
        /\ audit'[n] = row
    <3>1. audit' = Append(audit, row)
      BY <1>3 DEF row
    <3>2. QED
      BY <3>1, <2>2, AppendFacts DEF TypeOK
  <2> HIDE DEF n
  <2>4. /\ tasks' \in [Tasks -> Task] /\ Others(t)
        /\ tasks'[t].pc = "delete" /\ tasks'[t].row = n
        /\ tasks'[t].kind = tasks[t].kind /\ tasks'[t].intent = tasks[t].intent
        /\ tasks'[t].source = tasks[t].source /\ tasks'[t].robbed = tasks[t].robbed
        /\ tasks'[t].old = tasks[t].old /\ tasks'[t].new = tasks[t].new
    <3> DEFINE task == [tasks[t] EXCEPT !.row = n, !.pc = "delete"]
    <3>1. /\ task \in Task /\ task.pc = "delete" /\ task.row = n
          /\ task.kind = tasks[t].kind /\ task.intent = tasks[t].intent
          /\ task.source = tasks[t].source /\ task.robbed = tasks[t].robbed
          /\ task.old = tasks[t].old /\ task.new = tasks[t].new
      BY <2>1, <2>3 DEF Task, Pcs
    <3>2. tasks' = [tasks EXCEPT ![t] = task]
      BY <1>3, <2>3
    <3> HIDE DEF task
    <3>3. QED
      BY <3>1, <3>2, Becomes
  <2>5. TypeOK'
    BY <1>1, <2>3, <2>4 DEF TypeOK
  <2>6. IntentsSound'
    BY <1>1, <2>4, IntentsUntouched DEF HasIntent, Claimed, At
  <2>7. TasksSound'
    BY <1>1, <2>1, <2>4, TasksStay DEF TwoDocuments, TasksSound
  <2>8. RowsSound'
    <3>1. RowStands(t)'
      BY <2>2, <2>3, <2>4 DEF RowStands
    <3>2. SourceSettled(t)'
      BY <1>1, <2>1, <2>3, <2>4 DEF SourceSettled, At, Resting
    <3>3. \A u \in Tasks \ {t} : Deleting(u) => tasks[u].row \in DOMAIN audit
      BY DEF RowsSound, RowStands
    <3>4. QED
      BY <2>3, <2>4, <3>1, <3>2, <3>3, RowsStay
  <2>9. GoneIsVouchedFor'
    <3>1. Restored(t)' => Restored(t) /\ tasks'[t].source = tasks[t].source
      BY <1>1, <2>4 DEF Restored, At
    <3>2. QED
      BY <1>1, <2>3, <2>4, <3>1, GoneStayVouchedFor
  <2>10. QED
    BY <2>5, <2>6, <2>7, <2>8, <2>9
<1>4. QED
  BY <1>2, <1>3 DEF InsertAudit

\* A deletion takes the old document of the task only, and whoever relies on it is robbed.
LEMMA DeletedFacts ==
  ASSUME Inv, NEW t \in Tasks, NEW pc \in {"settle", "cancel"}, At(t, "delete"),
         Deleted(t, pc)
  PROVE  /\ kb' = kb \ {tasks[t].old}
         /\ tasks' \in [Tasks -> Task] /\ Others(t)
         /\ tasks'[t].pc = pc /\ Same(t)
         /\ \A u \in Tasks \ {t} :
               tasks[u].new = tasks[t].old /\ Stored(u) /\ tasks[t].old \in kb => tasks'[u].robbed
<1>1. /\ kb' = kb \ {tasks[t].old}
      /\ tasks' = [u \in Tasks |->
                     IF u = t THEN [tasks[t] EXCEPT !.pc = pc]
                     ELSE [tasks[u] EXCEPT !.robbed =
                             @ \/ (tasks[t].old \in kb /\ Stored(u) /\ tasks[u].new = tasks[t].old)]]
  BY DEF Deleted
<1>2. \A u \in Tasks : tasks[u] \in Task
  BY DEF Inv, TypeOK
<1>3. tasks'[t] \in Task /\ tasks'[t].pc = pc /\ Same(t)
  BY <1>1, <1>2 DEF Task, Same, Pcs
<1>4. ASSUME NEW u \in Tasks \ {t}
      PROVE  /\ tasks'[u] \in Task
             /\ tasks'[u].pc = tasks[u].pc /\ tasks'[u].kind = tasks[u].kind
             /\ tasks'[u].intent = tasks[u].intent /\ tasks'[u].row = tasks[u].row
             /\ tasks'[u].source = tasks[u].source
             /\ tasks'[u].old = tasks[u].old /\ tasks'[u].new = tasks[u].new
             /\ tasks[u].robbed => tasks'[u].robbed
             /\ tasks[u].new = tasks[t].old /\ Stored(u) /\ tasks[t].old \in kb => tasks'[u].robbed
  <2> DEFINE robbed == tasks[t].old \in kb /\ Stored(u) /\ tasks[u].new = tasks[t].old
  <2>1. robbed \in BOOLEAN
    OBVIOUS
  <2>2. tasks'[u] = [tasks[u] EXCEPT !.robbed = @ \/ robbed]
    BY <1>1
  <2> HIDE DEF robbed
  <2>3. /\ tasks'[u] \in Task
        /\ tasks'[u].pc = tasks[u].pc /\ tasks'[u].kind = tasks[u].kind
        /\ tasks'[u].intent = tasks[u].intent /\ tasks'[u].row = tasks[u].row
        /\ tasks'[u].source = tasks[u].source
        /\ tasks'[u].old = tasks[u].old /\ tasks'[u].new = tasks[u].new
        /\ tasks'[u].robbed = (tasks[u].robbed \/ robbed)
    BY <1>2, <2>1, <2>2 DEF Task
  <2>4. QED
    BY <2>3 DEF robbed
<1>5. tasks' \in [Tasks -> Task]
  BY <1>1, <1>3, <1>4
<1>6. QED
  BY <1>1, <1>3, <1>4, <1>5 DEF Others

\* The old document goes, and the audit row of its deletion vouches for it.
LEMMA DeletedKeeps ==
  ASSUME Inv, NEW t \in Tasks, NEW pc \in {"settle", "cancel"}, At(t, "delete"),
         Deleted(t, pc), UNCHANGED <<intents, audit>>, used' \in [hooks : Nat, incidents : Nat],
         seen' \in [known : SUBSET Docs, unsure : SUBSET Docs],
         seen'.known = seen.known, seen.unsure \subseteq seen'.unsure,
         pc = "cancel" => tasks[t].old \in seen'.unsure
  PROVE  Inv'
<1> DEFINE old == tasks[t].old
<1>1. /\ kb' = kb \ {old}
      /\ tasks' \in [Tasks -> Task] /\ Others(t)
      /\ tasks'[t].pc = pc /\ Same(t)
      /\ \A u \in Tasks \ {t} :
            tasks[u].new = old /\ Stored(u) /\ old \in kb => tasks'[u].robbed
  BY DeletedFacts
<1>2. TypeOK'
  BY <1>1 DEF Inv, TypeOK
<1>3. HasIntent(t) /\ TwoDocuments(t) /\ SourceSettled(t) /\ RowStands(t)
  BY DEF Inv, IntentsSound, TasksSound, RowsSound
<1>4. IntentsSound'
  BY <1>1, <1>3, IntentsUntouched DEF Inv, HasIntent, Claimed, At, Same
<1>5. TasksSound'
  <2>1. TwoDocuments(t)' /\ ~Stored(t)'
    BY <1>1, <1>3 DEF TwoDocuments, Replacing, At, Same, Resting, Stored
  <2>2. ASSUME NEW u \in Tasks \ {t}
        PROVE  TwoDocuments(u)' /\ (Stored(u) => tasks[u].new \in kb \/ tasks[u].robbed)'
    <3>1. TwoDocuments(u) /\ (Stored(u) => tasks[u].new \in kb \/ tasks[u].robbed)
      BY DEF Inv, TasksSound
    <3>2. TwoDocuments(u)'
      BY <1>1, <3>1 DEF Others, TwoDocuments, Replacing, At, Resting
    <3>3. Stored(u)' => Stored(u) /\ tasks'[u].new = tasks[u].new
      BY <1>1 DEF Others, Stored
    <3>4. CASE tasks[u].new = old
      BY <1>1, <3>1, <3>2, <3>3, <3>4 DEF Others
    <3>5. CASE tasks[u].new # old
      BY <1>1, <3>1, <3>2, <3>3, <3>5 DEF Others
    <3>6. QED
      BY <3>4, <3>5
  <2>3. QED
    BY <2>1, <2>2 DEF Inv, TasksSound
<1>6. RowsSound'
  <2>1. SourceSettled(t)' /\ Deleting(t) /\ tasks'[t].row = tasks[t].row /\ tasks'[t].old = old
    BY <1>1, <1>3 DEF SourceSettled, At, Same, Resting, Deleting
  <2>2. QED
    BY <1>1, <2>1, RowsUntouched DEF Inv
<1>7. GoneIsVouchedFor'
  <2>1. SUFFICES ASSUME NEW d \in seen.known \ kb'
                 PROVE  \E r \in DOMAIN audit : Vouches(r, d)'
    BY DEF GoneIsVouchedFor
  <2>2. CASE d \notin kb
    <3>1. PICK r \in DOMAIN audit : Vouches(r, d)
      BY <2>2 DEF Inv, GoneIsVouchedFor
    <3>2. Restored(t)' => Restored(t) /\ tasks'[t].source = tasks[t].source
      BY <1>1 DEF Restored, At, Same
    <3>3. tasks[t].pc \in {"delete", "cancel"} /\ tasks'[t].row = tasks[t].row
      BY <1>1 DEF At, Same
    <3>4. Vouches(r, d)'
      BY <1>1, <3>1, <3>2, <3>3, VouchesStays
    <3>5. QED
      BY <3>4
  <2>3. CASE d \in kb
    <3> PICK r : r = tasks[t].row
      OBVIOUS
    <3>1. d = old
      BY <1>1, <2>3
    <3>2. /\ r \in DOMAIN audit /\ audit[r].doc = d /\ audit[r].status = "pending"
          /\ ~audit[r].restored
      BY <1>3, <3>1 DEF RowStands, Deleting, At
    <3>3. \A u \in Tasks : Restored(u)' => tasks'[u].source # r
      <4>1. \A u \in Tasks : Restored(u)' => Restored(u) /\ tasks'[u].source = tasks[u].source
        BY <1>1 DEF Others, Same, Restored, At
      <4>2. \A u \in Tasks : Restored(u) => audit[tasks[u].source].status = "done"
        BY DEF Inv, RowsSound, SourceSettled, Restored, Resting
      <4>3. QED
        BY <3>2, <4>1, <4>2
    <3>4. d \in seen'.unsure \/ ~InDoubt(r)'
      <4>1. CASE pc = "cancel"
        BY <3>1, <4>1
      <4>2. CASE pc = "settle"
        <5>1. \A u \in Tasks \ {t} : Deleting(u) => tasks[u].row # r
          BY DEF Inv, RowsSound, OneTaskPerRow, Deleting, At
        <5>2. \A u \in Tasks \ {t} : tasks'[u].pc \in {"delete", "cancel"} => tasks'[u].row # r
          BY <1>1, <5>1 DEF Others, Deleting
        <5>3. QED
          BY <1>1, <4>2, <5>2 DEF InDoubt
      <4>3. QED
        BY <4>1, <4>2
    <3>5. Vouches(r, d)'
      BY <3>2, <3>3, <3>4 DEF Vouches
    <3>6. QED
      BY <3>2, <3>5
  <2>4. QED
    BY <2>2, <2>3
<1>8. QED
  BY <1>2, <1>4, <1>5, <1>6, <1>7 DEF Inv

\* The deletion, done, failed or both.
LEMMA DeleteOldKeeps ==
  ASSUME Inv, NEW t \in Tasks, DeleteOld(t)
  PROVE  Inv'
<1>1. /\ At(t, "delete") /\ UNCHANGED <<intents, audit>>
      /\ used' \in [hooks : Nat, incidents : Nat]
  BY UsedTyped DEF DeleteOld, Inv
<1>2. CASE Deleted(t, "settle") /\ UNCHANGED seen
  BY <1>1, <1>2, DeletedKeeps DEF Inv, TypeOK
<1>3. CASE Go(t, "cancel") /\ UNCHANGED <<kb, seen>>
  BY <1>1, <1>3, MovesOnKeeps DEF Pcs, MovesOn
<1>4. CASE /\ Deleted(t, "cancel") /\ tasks[t].old \in kb
           /\ seen' = [seen EXCEPT !.unsure = @ \cup {tasks[t].old}]
  <2>1. tasks[t].old \in Docs
    BY <1>4 DEF Inv, TypeOK
  <2>2. /\ seen' \in [known : SUBSET Docs, unsure : SUBSET Docs]
        /\ seen'.known = seen.known /\ seen.unsure \subseteq seen'.unsure
        /\ tasks[t].old \in seen'.unsure
    BY <1>4, <2>1 DEF Inv, TypeOK
  <2>3. QED
    BY <1>1, <1>4, <2>2, DeletedKeeps
<1>5. QED
  BY <1>2, <1>3, <1>4 DEF DeleteOld

\* A task moves on and changes rows: those nobody else deletes behind, and a settled row
\* only by marking it as restored.
LEMMA RowsChangeKeeps ==
  ASSUME Inv, NEW t \in Tasks, NEW pc \in Pcs, Go(t, pc), MovesOn(t, pc), pc # "cancel",
         UNCHANGED <<kb, intents, seen>>, used' \in [hooks : Nat, incidents : Nat],
         audit' \in Seq(AuditRow), DOMAIN audit' = DOMAIN audit,
         \A r \in DOMAIN audit :
            /\ audit'[r].doc = audit[r].doc
            /\ audit[r].status = "done" => audit'[r].status = "done"
            /\ audit'[r].restored => audit[r].restored \/ (Restored(t) /\ tasks[t].source = r)
            /\ audit'[r].status = "cancelled" =>
                  audit[r].status = "cancelled" \/ (At(t, "cancel") /\ tasks[t].row = r),
         \A u \in Tasks \ {t} : Deleting(u) => audit'[tasks[u].row] = audit[tasks[u].row]
  PROVE  Inv'
<1>1. TypeOK' /\ IntentsSound' /\ TasksSound'
  BY MovesOnSound DEF Inv, TypeOK
<1>2. RowsSound'
  <2>1. SourceSettled(t)'
    BY MovesOnSound DEF Inv, RowsSound, SourceSettled
  <2>2. ~Deleting(t)'
    BY MovesOnSound DEF MovesOn, Resting, Deleting
  <2>3. QED
    BY <2>1, <2>2, MovesOnSound, RowsStay DEF Inv, RowStands
<1>3. GoneIsVouchedFor'
  BY MovesOnSound, GoneStayVouchedFor DEF Inv
<1>4. QED
  BY <1>1, <1>2, <1>3 DEF Inv

\* The settlement of a row, which only changes a pending one.
LEMMA SettledFacts ==
  ASSUME TypeOK, NEW r \in DOMAIN audit, NEW status \in {"done", "cancelled"}
  PROVE  /\ Settled(r, status) \in Seq(AuditRow) /\ DOMAIN Settled(r, status) = DOMAIN audit
         /\ \A i \in DOMAIN audit \ {r} : Settled(r, status)[i] = audit[i]
         /\ Settled(r, status)[r].doc = audit[r].doc
         /\ Settled(r, status)[r].restored = audit[r].restored
         /\ audit[r].status # "pending" => Settled(r, status)[r].status = audit[r].status
         /\ audit[r].status = "pending" => Settled(r, status)[r].status = status
<1> DEFINE row == [audit[r] EXCEPT !.status = IF @ = "pending" THEN status ELSE @]
<1>1. audit[r] \in AuditRow
  BY DEF TypeOK
<1>2. /\ row \in AuditRow /\ row.doc = audit[r].doc /\ row.restored = audit[r].restored
      /\ audit[r].status # "pending" => row.status = audit[r].status
      /\ audit[r].status = "pending" => row.status = status
  BY <1>1 DEF AuditRow
<1>3. Settled(r, status) = [audit EXCEPT ![r] = row]
  BY Zenon DEF Settled
<1> HIDE DEF row
<1>4. QED
  BY <1>2, <1>3 DEF TypeOK

\* A task that deletes holds its row alone.
LEMMA HoldsRow ==
  ASSUME Inv, NEW t \in Tasks, Deleting(t)
  PROVE  /\ tasks[t].row \in DOMAIN audit /\ audit[tasks[t].row].status = "pending"
         /\ \A u \in Tasks \ {t} : Deleting(u) => tasks[u].row \in DOMAIN audit \ {tasks[t].row}
BY DEF Inv, RowsSound, RowStands, OneTaskPerRow

\* The row of a deletion is settled.
LEMMA SettleAuditKeeps ==
  ASSUME Inv, NEW t \in Tasks, SettleAudit(t)
  PROVE  Inv'
<1> DEFINE pc == IF tasks[t].kind = "restore" THEN "backfill" ELSE "close"
<1>1. /\ At(t, "settle") /\ Go(t, pc) /\ UNCHANGED <<kb, intents, seen>>
      /\ used' \in [hooks : Nat, incidents : Nat]
      /\ audit' \in {audit, Settled(tasks[t].row, "done")}
  BY UsedTyped DEF SettleAudit, Inv
<1>2. pc \in Pcs /\ pc # "cancel" /\ MovesOn(t, pc) /\ Deleting(t)
  BY <1>1 DEF Pcs, MovesOn, Deleting, At
<1> HIDE DEF pc
<1>3. CASE audit' = audit
  BY <1>1, <1>2, <1>3, MovesOnKeeps
<1>4. CASE audit' = Settled(tasks[t].row, "done")
  <2> DEFINE r == tasks[t].row
  <2>1. /\ r \in DOMAIN audit /\ audit[r].status = "pending"
        /\ \A u \in Tasks \ {t} : Deleting(u) => tasks[u].row \in DOMAIN audit \ {r}
    BY <1>2, HoldsRow
  <2> HIDE DEF r
  <2>2. /\ audit' \in Seq(AuditRow) /\ DOMAIN audit' = DOMAIN audit
        /\ \A i \in DOMAIN audit \ {r} : audit'[i] = audit[i]
        /\ audit'[r].doc = audit[r].doc /\ audit'[r].restored = audit[r].restored
        /\ audit'[r].status = "done"
    BY <1>4, <2>1, SettledFacts DEF Inv, r
  <2>3. QED
    BY <1>1, <1>2, <2>1, <2>2, RowsChangeKeeps
<1>5. QED
  BY <1>1, <1>3, <1>4

\* The row of a deletion that failed is cancelled.
LEMMA CancelAuditKeeps ==
  ASSUME Inv, NEW t \in Tasks, CancelAudit(t)
  PROVE  Inv'
<1> DEFINE pc == IF tasks[t].kind = "restore" THEN "idle" ELSE "release"
<1>1. /\ At(t, "cancel") /\ Go(t, pc) /\ UNCHANGED <<kb, intents, seen>>
      /\ used' \in [hooks : Nat, incidents : Nat]
      /\ audit' \in {audit, Settled(tasks[t].row, "cancelled")}
  BY UsedTyped DEF CancelAudit, Inv
<1>2. pc \in Pcs /\ pc # "cancel" /\ MovesOn(t, pc) /\ Deleting(t)
  BY <1>1 DEF Pcs, MovesOn, Deleting, At, Resting
<1> HIDE DEF pc
<1>3. CASE audit' = audit
  BY <1>1, <1>2, <1>3, MovesOnKeeps
<1>4. CASE audit' = Settled(tasks[t].row, "cancelled")
  <2> DEFINE r == tasks[t].row
  <2>1. /\ r \in DOMAIN audit /\ audit[r].status = "pending"
        /\ \A u \in Tasks \ {t} : Deleting(u) => tasks[u].row \in DOMAIN audit \ {r}
    BY <1>2, HoldsRow
  <2> HIDE DEF r
  <2>2. /\ audit' \in Seq(AuditRow) /\ DOMAIN audit' = DOMAIN audit
        /\ \A i \in DOMAIN audit \ {r} : audit'[i] = audit[i]
        /\ audit'[r].doc = audit[r].doc /\ audit'[r].restored = audit[r].restored
        /\ audit'[r].status = "cancelled"
    BY <1>4, <2>1, SettledFacts DEF Inv, r
  <2>3. QED
    BY <1>1, <1>2, <2>1, <2>2, RowsChangeKeeps DEF r
<1>5. QED
  BY <1>1, <1>3, <1>4

\* The rows of the documents that are gone are settled, but for those in use.
LEMMA SweepKeeps ==
  ASSUME Inv, NEW t \in Tasks, Sweep(t)
  PROVE  Inv'
<1>1. /\ At(t, "sweep") /\ Go(t, "idle") /\ UNCHANGED <<kb, intents, seen>>
      /\ used' \in [hooks : Nat, incidents : Nat]
      /\ "idle" \in Pcs /\ MovesOn(t, "idle") /\ "idle" # "cancel"
  BY UsedTyped DEF Sweep, Inv, Pcs, MovesOn, Resting
<1>2. CASE audit' = audit
  BY <1>1, <1>2, MovesOnKeeps
<1>3. CASE audit' = [r \in DOMAIN audit |->
                        IF r \in Unsettled THEN [audit[r] EXCEPT !.status = "done"]
                        ELSE audit[r]]
  <2>1. ASSUME NEW r \in DOMAIN audit
        PROVE  /\ audit'[r] \in AuditRow
               /\ audit'[r].doc = audit[r].doc /\ audit'[r].restored = audit[r].restored
               /\ audit'[r].status \in {"done", audit[r].status}
    <3>1. audit[r] \in AuditRow
      BY DEF Inv, TypeOK
    <3>2. audit'[r] \in {audit[r], [audit[r] EXCEPT !.status = "done"]}
      BY <1>3
    <3>3. QED
      BY <3>1, <3>2 DEF AuditRow
  <2>2. audit' \in Seq(AuditRow) /\ DOMAIN audit' = DOMAIN audit
    <3>1. Len(audit) \in Nat /\ DOMAIN audit = 1 .. Len(audit)
      BY DEF Inv, TypeOK
    <3>2. DOMAIN audit' = 1 .. Len(audit)
      BY <1>3, <3>1
    <3>3. audit' \in [1 .. Len(audit) -> AuditRow]
      BY <1>3, <2>1, <3>1, <3>2
    <3>4. QED
      BY <3>1, <3>2, <3>3
  <2>3. \A u \in Tasks \ {t} : Deleting(u) => audit'[tasks[u].row] = audit[tasks[u].row]
    <3>1. \A u \in Tasks : Deleting(u) => tasks[u].row \in DOMAIN audit \ Unsettled
      BY HoldsRow DEF Unsettled, Deleting, At
    <3>2. QED
      BY <1>3, <3>1
  <2>4. QED
    BY <1>1, <2>1, <2>2, <2>3, RowsChangeKeeps
<1>4. QED
  BY <1>2, <1>3 DEF Sweep

\* The row of a restore is used up, once the document is back.
LEMMA MarkRestoredKeeps ==
  ASSUME Inv, NEW t \in Tasks, MarkRestored(t)
  PROVE  Inv'
<1> DEFINE r == tasks[t].source
<1>1. /\ At(t, "backfill") /\ Go(t, "idle") /\ UNCHANGED <<kb, intents, seen>>
      /\ used' \in [hooks : Nat, incidents : Nat]
      /\ "idle" \in Pcs /\ MovesOn(t, "idle") /\ "idle" # "cancel"
  BY UsedTyped DEF MarkRestored, Inv, Pcs, MovesOn, Resting
<1>2. CASE audit' = audit
  BY <1>1, <1>2, MovesOnKeeps
<1>3. CASE audit' = [audit EXCEPT ![r].restored = @ \/ audit[r].status = "done"]
  <2>1. /\ Restored(t) /\ r \in DOMAIN audit /\ audit[r].status = "done"
    BY <1>1 DEF Inv, IntentsSound, HasIntent, RowsSound, SourceSettled, Restored, At, Resting
  <2> DEFINE row == [audit[r] EXCEPT !.restored = @ \/ audit[r].status = "done"]
  <2>2. /\ row \in AuditRow /\ row.doc = audit[r].doc /\ row.status = audit[r].status
    <3>1. audit[r] \in AuditRow
      BY <2>1 DEF Inv, TypeOK
    <3>2. QED
      BY <3>1 DEF AuditRow
  <2>3. audit' = [audit EXCEPT ![r] = row]
    BY <1>3
  <2> HIDE DEF row
  <2>4. /\ audit' \in Seq(AuditRow) /\ DOMAIN audit' = DOMAIN audit
        /\ audit'[r] = row
        /\ \A i \in DOMAIN audit \ {r} : audit'[i] = audit[i]
    BY <2>1, <2>2, <2>3 DEF Inv, TypeOK
  <2>5. \A u \in Tasks \ {t} : Deleting(u) => tasks[u].row \in DOMAIN audit \ {r}
    BY <2>1, HoldsRow
  <2>6. QED
    BY <1>1, <2>1, <2>2, <2>4, <2>5, RowsChangeKeeps
<1>4. QED
  BY <1>2, <1>3 DEF MarkRestored

\* A task changes the intention nobody else has claimed, and claims it or is done with it.
LEMMA IntentChangeKeeps ==
  ASSUME Inv, NEW t \in Tasks, NEW pc \in Pcs, Go(t, pc),
         UNCHANGED <<kb, audit, seen>>, used' \in [hooks : Nat, incidents : Nat],
         tasks[t].pc \in {"own", "claim", "giveup", "close", "release"},
         NEW i, i = tasks[t].intent, i \in DOMAIN intents,
         \A u \in Tasks \ {t} : Claimed(u) => tasks[u].intent # i,
         intents' \in Seq(Intent), DOMAIN intents' = DOMAIN intents,
         \A j \in DOMAIN intents \ {i} : intents'[j] = intents[j],
         intents'[i].old = intents[i].old, intents'[i].new = intents[i].new,
         \/ pc \in Resting
         \/ /\ tasks[t].pc \in {"own", "claim"} /\ pc \in {"add", "giveup"}
            /\ intents'[i].status = "processing" /\ ~intents'[i].stale
  PROVE  Inv'
<1>1. /\ tasks' \in [Tasks -> Task] /\ Others(t) /\ tasks'[t].pc = pc
      /\ pc \notin Resting => Same(t)
      /\ pc \in Resting => tasks'[t].kind = "round"
  BY Goes DEF Inv
<1>2. TypeOK'
  BY <1>1 DEF Inv, TypeOK
<1>3. HasIntent(t) /\ TwoDocuments(t)
  BY DEF Inv, IntentsSound, TasksSound
<1>4. IntentsSound'
  <2>1. HasIntent(t)' /\ ClaimStands(t)'
    BY <1>1, <1>3 DEF HasIntent, ClaimStands, Claimed, At, Same, Resting
  <2>2. \A u \in Tasks \ {t} : Claimed(u) =>
            intents'[tasks[u].intent] = intents[tasks[u].intent]
    BY DEF Inv, IntentsSound, ClaimStands
  <2>3. Claimed(t)' => tasks'[t].intent = i
    BY <1>1 DEF Claimed, Resting, Same
  <2>4. QED
    BY <1>1, <2>1, <2>2, <2>3, IntentsStay DEF Inv
<1>5. TasksSound'
  <2>1. (\A j \in DOMAIN intents : intents[j].old # intents[j].new)'
    BY DEF Inv, TasksSound
  <2>2. TwoDocuments(t)' /\ ~Stored(t)'
    BY <1>1, <1>3 DEF TwoDocuments, Replacing, At, Same, Resting, Stored
  <2>3. QED
    BY <1>1, <2>1, <2>2, TasksStay DEF Inv
<1>6. RowsSound'
  <2>1. SourceSettled(t)' /\ ~Deleting(t)'
    BY <1>1, <1>3 DEF SourceSettled, HasIntent, Deleting, Same, Resting
  <2>2. QED
    BY <1>1, <2>1, RowsUntouched DEF Inv
<1>7. GoneIsVouchedFor'
  <2>1. ~Restored(t)' /\ tasks'[t].pc \notin {"delete", "cancel"}
    BY <1>1 DEF Restored, Resting
  <2>2. QED
    BY <1>1, <2>1, GoneStayVouchedFor DEF Inv
<1>8. QED
  BY <1>2, <1>4, <1>5, <1>6, <1>7 DEF Inv

\* A claim marks the row, and changes no other.
LEMMA TakenFacts ==
  ASSUME TypeOK, NEW i \in DOMAIN intents
  PROVE  /\ Taken(i) \in Seq(Intent) /\ DOMAIN Taken(i) = DOMAIN intents
         /\ \A j \in DOMAIN intents \ {i} : Taken(i)[j] = intents[j]
         /\ Taken(i)[i].old = intents[i].old /\ Taken(i)[i].new = intents[i].new
         /\ Taken(i)[i].status = "processing" /\ ~Taken(i)[i].stale
<1>1. intents[i] \in Intent
  BY DEF TypeOK
<1> DEFINE row == [old |-> intents[i].old, new |-> intents[i].new, status |-> "processing",
                   attempts |-> intents[i].attempts + 1, stale |-> FALSE]
<1>2. /\ row \in Intent /\ row.old = intents[i].old /\ row.new = intents[i].new
      /\ row.status = "processing" /\ ~row.stale
  BY <1>1 DEF Intent
<1>3. Taken(i) = [intents EXCEPT ![i] = row]
  BY <1>1 DEF Taken
<1> HIDE DEF row
<1>4. QED
  BY <1>2, <1>3 DEF TypeOK

\* A row whose status changes is the same row.
LEMMA StatusFacts ==
  ASSUME TypeOK, NEW i \in DOMAIN intents,
         NEW status \in {"pending", "processing", "done", "failed"},
         intents' = [intents EXCEPT ![i].status = status]
  PROVE  /\ intents' \in Seq(Intent) /\ DOMAIN intents' = DOMAIN intents
         /\ \A j \in DOMAIN intents \ {i} : intents'[j] = intents[j]
         /\ intents'[i].old = intents[i].old /\ intents'[i].new = intents[i].new
<1> DEFINE row == [intents[i] EXCEPT !.status = status]
<1>1. intents[i] \in Intent
  BY DEF TypeOK
<1>2. row \in Intent /\ row.old = intents[i].old /\ row.new = intents[i].new
  BY <1>1 DEF Intent
<1>3. intents' = [intents EXCEPT ![i] = row]
  OBVIOUS
<1> HIDE DEF row
<1>4. QED
  BY <1>2, <1>3 DEF TypeOK

\* Who has claimed an intention has it alone; one that may be claimed nobody has.
LEMMA ClaimsApart ==
  ASSUME Inv, NEW t \in Tasks
  PROVE  /\ Claimed(t) => /\ tasks[t].intent \in DOMAIN intents
                          /\ \A u \in Tasks \ {t} : Claimed(u) => tasks[u].intent # tasks[t].intent
         /\ \A i \in DOMAIN intents :
               MayOwn(i) \/ Claimable(i) => \A u \in Tasks : Claimed(u) => tasks[u].intent # i
BY DEF Inv, IntentsSound, ClaimStands, OneTaskPerIntent, MayOwn, Claimable

\* The writer claims its intention, if nobody else did.
LEMMA ClaimIntentKeeps ==
  ASSUME Inv, NEW t \in Tasks, ClaimIntent(t)
  PROVE  Inv'
<1> PICK i : i = tasks[t].intent
  OBVIOUS
<1>1. /\ At(t, "own") /\ UNCHANGED <<kb, audit, seen>>
      /\ used' \in [hooks : Nat, incidents : Nat]
  BY UsedTyped DEF ClaimIntent, Inv
<1>2. i \in DOMAIN intents
  BY <1>1 DEF Inv, IntentsSound, HasIntent, At
<1>3. CASE MayOwn(i) /\ intents' = Taken(i) /\ Go(t, "add")
  <2>1. \A u \in Tasks \ {t} : Claimed(u) => tasks[u].intent # i
    BY <1>2, <1>3, ClaimsApart
  <2>2. tasks[t].pc \in {"own", "claim", "giveup", "close", "release"} /\ "add" \in Pcs
    BY <1>1 DEF At, Pcs
  <2>3. QED
    BY <1>1, <1>2, <1>3, <2>1, <2>2, TakenFacts, IntentChangeKeeps DEF Inv, At
<1>4. CASE intents' = intents /\ Go(t, "round")
  BY <1>1, <1>4, MovesOnKeeps DEF Pcs, MovesOn, Resting
<1>5. QED
  BY <1>3, <1>4 DEF ClaimIntent

\* A round claims the row it has selected, if it still may.
LEMMA ClaimNextKeeps ==
  ASSUME Inv, NEW t \in Tasks, ClaimNext(t)
  PROVE  Inv'
<1> PICK i : i = tasks[t].intent
  OBVIOUS
<1>1. /\ At(t, "claim") /\ UNCHANGED <<kb, audit, seen>>
      /\ used' \in [hooks : Nat, incidents : Nat]
  BY UsedTyped DEF ClaimNext, Inv
<1>2. i \in DOMAIN intents
  BY <1>1 DEF Inv, IntentsSound, HasIntent, At
<1>3. CASE Claimable(i) /\ intents' = Taken(i) /\ \E pc \in {"add", "giveup", "sweep"} : Go(t, pc)
  <2>1. \A u \in Tasks \ {t} : Claimed(u) => tasks[u].intent # i
    BY <1>2, <1>3, ClaimsApart
  <2>2. /\ tasks[t].pc \in {"own", "claim", "giveup", "close", "release"}
        /\ {"add", "giveup", "sweep"} \subseteq Pcs /\ "sweep" \in Resting
    BY <1>1 DEF At, Pcs, Resting
  <2>3. QED
    BY <1>1, <1>2, <1>3, <2>1, <2>2, TakenFacts, IntentChangeKeeps DEF Inv, At
<1>4. CASE intents' = intents /\ Go(t, "sweep")
  BY <1>1, <1>4, MovesOnKeeps DEF Pcs, MovesOn, Resting
<1>5. \/ Claimable(i) /\ intents' = Taken(i) /\ \E pc \in {"add", "giveup", "sweep"} : Go(t, pc)
      \/ intents' = intents /\ Go(t, "sweep")
  <2> DEFINE pc == IF intents'[i].attempts > MaxAttempts THEN "giveup" ELSE "add"
  <2>1. pc \in {"add", "giveup", "sweep"}
    OBVIOUS
  <2>2. \/ Claimable(i) /\ intents' = Taken(i) /\ Go(t, pc)
        \/ intents' = intents /\ Go(t, "sweep")
        \/ intents' \in {intents} \cup (IF Claimable(i) THEN {Taken(i)} ELSE {}) /\ Go(t, "sweep")
    BY <1>4 DEF ClaimNext
  <2> HIDE DEF pc
  <2>3. QED
    BY <2>1, <2>2
<1>6. QED
  BY <1>3, <1>4, <1>5

\* A row is ended or released by the task that has claimed it.
LEMMA LetsGoKeeps ==
  ASSUME Inv, NEW t \in Tasks, tasks[t].pc \in {"giveup", "close", "release"},
         NEW pc \in Resting, Go(t, pc),
         UNCHANGED <<kb, audit, seen>>, used' \in [hooks : Nat, incidents : Nat],
         NEW i, i = tasks[t].intent, NEW status \in {"pending", "processing", "done", "failed"},
         intents' = [intents EXCEPT ![i].status = status]
  PROVE  Inv'
<1>1. Claimed(t)
  BY DEF Inv, IntentsSound, HasIntent, Claimed
<1>2. i \in DOMAIN intents /\ \A u \in Tasks \ {t} : Claimed(u) => tasks[u].intent # i
  BY <1>1, ClaimsApart
<1>3. pc \in Pcs
  BY DEF Resting, Pcs
<1>4. /\ intents' \in Seq(Intent) /\ DOMAIN intents' = DOMAIN intents
      /\ \A j \in DOMAIN intents \ {i} : intents'[j] = intents[j]
      /\ intents'[i].old = intents[i].old /\ intents'[i].new = intents[i].new
  BY <1>2, StatusFacts DEF Inv
<1>5. QED
  BY SMTT(40), <1>2, <1>3, <1>4, IntentChangeKeeps

\* The row of a claim has a status that can be changed.
LEMMA ClaimedRow ==
  ASSUME Inv, NEW t \in Tasks, tasks[t].pc \in {"giveup", "close", "release"}
  PROVE  intents[tasks[t].intent].status = "processing"
BY DEF Inv, IntentsSound, HasIntent, ClaimStands, Claimed

\* A row claimed too often is given up.
LEMMA GiveUpKeeps ==
  ASSUME Inv, NEW t \in Tasks, GiveUp(t)
  PROVE  Inv'
<1> PICK i : i = tasks[t].intent
  OBVIOUS
<1>1. /\ At(t, "giveup") /\ Go(t, "round") /\ UNCHANGED <<kb, audit, seen>>
      /\ used' \in [hooks : Nat, incidents : Nat]
      /\ intents' = intents \/ intents' = Ended(i, "failed")
  BY UsedTyped DEF GiveUp, Inv
<1>2. tasks[t].pc \in {"giveup", "close", "release"} /\ "round" \in Resting
      /\ intents[i].status = "processing"
  BY <1>1, ClaimedRow DEF At, Resting
<1>3. CASE intents' = intents
  BY <1>1, <1>3, MovesOnKeeps DEF Pcs, MovesOn, Resting
<1>4. CASE intents' = Ended(i, "failed")
  <2>1. intents' = [intents EXCEPT ![i].status = "failed"]
    BY <1>2, <1>4 DEF Ended
  <2>2. QED
    BY <1>1, <1>2, <2>1, LetsGoKeeps
<1>5. QED
  BY <1>1, <1>3, <1>4

\* The intention is closed.
LEMMA CloseIntentKeeps ==
  ASSUME Inv, NEW t \in Tasks, CloseIntent(t)
  PROVE  Inv'
<1> PICK i : i = tasks[t].intent
  OBVIOUS
<1>1. /\ At(t, "close") /\ UNCHANGED <<kb, audit, seen>>
      /\ used' \in [hooks : Nat, incidents : Nat]
  BY UsedTyped DEF CloseIntent, Inv
<1>2. tasks[t].pc \in {"giveup", "close", "release"} /\ "round" \in Resting
      /\ intents[i].status = "processing"
  BY <1>1, ClaimedRow DEF At, Resting
<1>3. CASE intents' = intents /\ Go(t, IF tasks[t].kind = "hook" THEN "release" ELSE "round")
  BY <1>1, <1>3, MovesOnKeeps DEF Pcs, MovesOn, Resting
<1>4. CASE intents' = Ended(i, "done") /\ Go(t, "round")
  <2>1. intents' = [intents EXCEPT ![i].status = "done"]
    BY <1>2, <1>4 DEF Ended
  <2>2. QED
    BY <1>1, <1>2, <1>4, <2>1, LetsGoKeeps
<1>5. QED
  BY <1>3, <1>4 DEF CloseIntent

\* The intention goes back to the queue.
LEMMA ReleaseIntentKeeps ==
  ASSUME Inv, NEW t \in Tasks, ReleaseIntent(t)
  PROVE  Inv'
<1> PICK i : i = tasks[t].intent
  OBVIOUS
<1> DEFINE pc == IF tasks[t].kind = "hook" THEN "round" ELSE "sweep"
<1>1. /\ At(t, "release") /\ Go(t, pc) /\ UNCHANGED <<kb, audit, seen>>
      /\ used' \in [hooks : Nat, incidents : Nat]
      /\ \/ intents' = intents
         \/ intents' = [intents EXCEPT ![i].status = IF @ = "processing" THEN "pending" ELSE @]
  BY UsedTyped DEF ReleaseIntent, Inv
<1>2. tasks[t].pc \in {"giveup", "close", "release"} /\ pc \in Resting /\ pc \in Pcs
      /\ intents[i].status = "processing"
  BY <1>1, ClaimedRow DEF At, Resting, Pcs
<1> HIDE DEF pc
<1>3. CASE intents' = intents
  BY <1>1, <1>2, <1>3, MovesOnKeeps DEF MovesOn
<1>4. CASE intents' = [intents EXCEPT ![i].status = IF @ = "processing" THEN "pending" ELSE @]
  <2>1. intents' = [intents EXCEPT ![i].status = "pending"]
    BY <1>2, <1>4
  <2>2. QED
    BY <1>1, <1>2, <2>1, LetsGoKeeps
<1>5. QED
  BY <1>1, <1>3, <1>4

\* A round selects an intention.
LEMMA SelectIntentKeeps ==
  ASSUME Inv, NEW t \in Tasks, SelectIntent(t)
  PROVE  Inv'
<1> USE DEF Inv
<1>1. /\ kb' = kb /\ intents' = intents /\ audit' = audit /\ seen' = seen
      /\ used' \in [hooks : Nat, incidents : Nat]
  BY UsedTyped DEF SelectIntent
<1>2. CASE Go(t, "sweep")
  BY <1>1, <1>2, MovesOnKeeps DEF Pcs, MovesOn, Resting
<1> DEFINE open == {i \in DOMAIN intents : Claimable(i)}
           start == Begin("round", "claim")
<1>3. ASSUME open # {}, NEW i, i = Min(open),
             tasks' = [tasks EXCEPT ![t] = [start EXCEPT
                         !.intent = i, !.old = intents[i].old, !.new = intents[i].new]]
      PROVE  Inv'
  <2>1. i \in DOMAIN intents /\ intents[i] \in Intent /\ intents[i].old # intents[i].new
    <3>1. open \in SUBSET Nat
      BY DEF TypeOK
    <3>2. i \in open
      BY <1>3, <3>1, MinOfRows
    <3>3. QED
      BY <3>2 DEF TypeOK, TasksSound
  <2>2. start \in Task /\ start.pc = "claim" /\ start.kind = "round"
    BY BeginFacts DEF Pcs
  <2> HIDE DEF start
  <2>3. PICK old \in Docs, new \in Docs : old = intents[i].old /\ new = intents[i].new
    BY <2>1 DEF Intent
  <2> DEFINE task == [start EXCEPT !.intent = i, !.old = old, !.new = new]
  <2>4. /\ task \in Task /\ task.pc = "claim" /\ task.kind = "round" /\ task.intent = i
        /\ task.old = old /\ task.new = new
    <3>1. i \in Nat
      BY <2>1 DEF TypeOK
    <3>2. QED
      BY <2>2, <3>1 DEF Task
  <2>5. tasks' = [tasks EXCEPT ![t] = task]
    BY <1>3, <2>3
  <2> HIDE DEF task
  <2>6. tasks' \in [Tasks -> Task] /\ Others(t) /\ tasks'[t] = task
    BY <2>4, <2>5, Becomes
  <2>7. TypeOK'
    BY <1>1, <2>6 DEF TypeOK
  <2>8. IntentsSound'
    BY <1>1, <2>1, <2>4, <2>6, IntentsUntouched DEF HasIntent, Claimed, At
  <2>9. TasksSound'
    BY <1>1, <2>1, <2>3, <2>4, <2>6, TasksStay DEF TwoDocuments, Stored, TasksSound
  <2>10. RowsSound'
    BY <1>1, <2>4, <2>6, RowsUntouched DEF SourceSettled, Deleting
  <2>11. GoneIsVouchedFor'
    BY <1>1, <2>4, <2>6, GoneStayVouchedFor DEF Restored
  <2>12. QED
    BY <2>7, <2>8, <2>9, <2>10, <2>11
<1>4. QED
  BY <1>2, <1>3 DEF SelectIntent

\* What took the place of a document is there, and is another document.
LEMMA LeafFacts ==
  ASSUME NEW row
  PROVE  Leaf(row) = NoDoc \/ (Leaf(row) \in kb /\ Leaf(row) # row.doc)
<1> DEFINE hops == 0 .. Cardinality(Docs)
           hop[n \in hops] == IF n = 0 THEN row.succ ELSE Successor(hop[n - 1])
           alive == {n \in hops : hop[n] \in kb}
<1>1. Leaf(row) = IF alive = {} \/ hop[Min(alive)] = row.doc THEN NoDoc ELSE hop[Min(alive)]
  BY DEF Leaf
<1> HIDE DEF hop
<1>2. alive \in SUBSET Nat
  BY MemoryAssumption, FS_CardinalityType
<1>3. alive # {} => hop[Min(alive)] \in kb
  BY <1>2, MinOfRows
<1>4. QED
  BY <1>1, <1>3

\* A restore starts from a settled row.
LEMMA StartRestoreKeeps ==
  ASSUME Inv, NEW t \in Tasks, StartRestore(t)
  PROVE  Inv'
<1> USE DEF Inv
<1> DEFINE start == Begin("restore", "add")
<1>1. /\ kb' = kb /\ intents' = intents /\ audit' = audit /\ seen' = seen
      /\ used' \in [hooks : Nat, incidents : Nat]
  BY UsedTyped DEF StartRestore, Fails
<1>2. PICK r \in DOMAIN audit :
         /\ audit[r].status = "done"
         /\ tasks' = [tasks EXCEPT ![t] = [start EXCEPT
                        !.source = r, !.old = Leaf(audit[r]), !.new = audit[r].doc]]
  BY DEF StartRestore
<1>3. start \in Task /\ start.pc = "add" /\ start.kind = "restore"
  BY BeginFacts DEF Pcs
<1> HIDE DEF start
<1>4. r \in Nat /\ audit[r].doc \in Docs
  <2>1. audit[r] \in AuditRow
    BY DEF TypeOK
  <2>2. QED
    BY <2>1 DEF TypeOK, AuditRow
<1> DEFINE Takes(old, new) == old = Leaf(audit[r]) /\ new = audit[r].doc /\ old # new
<1>5. PICK old \in Docs \cup {NoDoc}, new \in Docs : Takes(old, new)
  <2>1. PICK leaf : leaf = Leaf(audit[r])
    OBVIOUS
  <2>2. leaf = NoDoc \/ (leaf \in kb /\ leaf # audit[r].doc)
    BY <2>1, LeafFacts, Zenon
  <2>3. leaf \in Docs \cup {NoDoc} /\ leaf # audit[r].doc
    BY <1>4, <2>2, MemoryAssumption DEF TypeOK
  <2>4. QED
    BY <1>4, <2>1, <2>3, Zenon
<1> DEFINE task == [start EXCEPT !.source = r, !.old = old, !.new = new]
<1>6. /\ task \in Task /\ task.pc = "add" /\ task.kind = "restore" /\ task.source = r
      /\ task.old = old /\ task.new = new
  BY <1>3, <1>4 DEF Task
<1>7. tasks' = [tasks EXCEPT ![t] = task]
  BY <1>2, <1>5
<1> HIDE DEF task
<1>8. tasks' \in [Tasks -> Task] /\ Others(t) /\ tasks'[t] = task
  BY <1>6, <1>7, Becomes
<1>9. TypeOK'
  BY <1>1, <1>8 DEF TypeOK
<1>10. IntentsSound'
  BY <1>1, <1>6, <1>8, IntentsUntouched DEF HasIntent, Claimed, At
<1>11. TasksSound'
  BY <1>1, <1>5, <1>6, <1>8, TasksStay DEF TwoDocuments, Replacing, At, Stored, TasksSound
<1>12. RowsSound'
  BY <1>1, <1>2, <1>5, <1>6, <1>8, RowsUntouched DEF SourceSettled, Deleting
<1>13. GoneIsVouchedFor'
  BY <1>1, <1>6, <1>8, GoneStayVouchedFor DEF Restored
<1>14. QED
  BY <1>9, <1>10, <1>11, <1>12, <1>13

\* A claim that nobody holds has been there for too long.
LEMMA ClaimExpiresKeeps ==
  ASSUME Inv, NEW i, ClaimExpires(i)
  PROVE  Inv'
<1>1. /\ UNCHANGED <<kb, audit, tasks, used, seen>>
      /\ \A t \in Tasks : Claimed(t) => tasks[t].intent # i
  BY DEF ClaimExpires
<1> i \in DOMAIN intents
  BY DEF ClaimExpires
<1> DEFINE row == [intents[i] EXCEPT !.stale = TRUE]
<1>2. row \in Intent /\ row.old = intents[i].old /\ row.new = intents[i].new
  <2>1. intents[i] \in Intent
    BY DEF Inv, TypeOK
  <2>2. QED
    BY <2>1 DEF Intent
<1>3. intents' = [intents EXCEPT ![i] = row]
  BY DEF ClaimExpires
<1> HIDE DEF row
<1>4. /\ intents' \in Seq(Intent) /\ DOMAIN intents' = DOMAIN intents
      /\ \A j \in DOMAIN intents \ {i} : intents'[j] = intents[j]
      /\ intents'[i].old = intents[i].old /\ intents'[i].new = intents[i].new
  BY <1>2, <1>3 DEF Inv, TypeOK
<1>5. TypeOK'
  BY <1>1, <1>4 DEF Inv, TypeOK
<1>6. IntentsSound'
  BY <1>1, <1>4 DEF Inv, IntentsSound, HasIntent, ClaimStands, Claimed, OneTaskPerIntent, At
<1>7. TasksSound'
  BY <1>1, <1>4 DEF Inv, TasksSound, TwoDocuments, Replacing, Stored, At
<1>8. RowsSound'
  BY <1>1 DEF Inv, RowsSound, RowStands, Deleting, SourceSettled, OneTaskPerRow
<1>9. GoneIsVouchedFor'
  BY <1>1 DEF Inv, GoneIsVouchedFor, Vouches, Restored, InDoubt
<1>10. QED
  BY <1>5, <1>6, <1>7, <1>8, <1>9 DEF Inv

\* Nobody works on anything.
LEMMA IdleHolds ==
  ASSUME tasks = [t \in Tasks |-> Idle]
  PROVE  /\ tasks \in [Tasks -> Task]
         /\ \A t \in Tasks : tasks[t].pc = "idle" /\ tasks[t].kind = "round"
<1>1. Idle \in Task /\ Idle.pc = "idle" /\ Idle.kind = "round"
  BY DEF Idle, Task, Pcs, NoRow
<1>2. QED
  BY <1>1

\* The process dies: nobody works on anything, and every row stays as it is.
LEMMA CrashKeeps ==
  ASSUME Inv, Crash
  PROVE  Inv'
<1>1. /\ UNCHANGED <<kb, intents, audit, seen>> /\ tasks' = [t \in Tasks |-> Idle]
      /\ used' \in [hooks : Nat, incidents : Nat]
  BY UsedTyped DEF Crash, Inv, Fails
<1>2. /\ tasks' \in [Tasks -> Task]
      /\ \A t \in Tasks : tasks'[t].pc = "idle" /\ tasks'[t].kind = "round"
  <2>1. Idle \in Task /\ Idle.pc = "idle" /\ Idle.kind = "round"
    BY DEF Idle, Task, Pcs, NoRow
  <2>2. QED
    BY <1>1, <2>1
<1>3. TypeOK'
  BY <1>1, <1>2 DEF Inv, TypeOK
<1>4. IntentsSound'
  BY <1>2 DEF IntentsSound, HasIntent, ClaimStands, Claimed, OneTaskPerIntent, At
<1>5. TasksSound'
  BY <1>1, <1>2 DEF Inv, TasksSound, TwoDocuments, Replacing, Resting, Stored, At
<1>6. RowsSound'
  BY <1>2 DEF RowsSound, RowStands, Deleting, SourceSettled, Resting, OneTaskPerRow
<1>7. GoneIsVouchedFor'
  BY <1>1, <1>2 DEF Inv, GoneIsVouchedFor, Vouches, Restored, InDoubt
<1>8. QED
  BY <1>3, <1>4, <1>5, <1>6, <1>7 DEF Inv

\* The invariant holds at first: nothing is written, and nothing is gone.
LEMMA InitInv ==
  ASSUME Init
  PROVE  Inv
<1>1. /\ tasks \in [Tasks -> Task]
      /\ \A t \in Tasks : tasks[t].pc = "idle" /\ tasks[t].kind = "round"
  BY IdleHolds DEF Init
<1>2. TypeOK
  BY <1>1, MemoryAssumption DEF Init, TypeOK
<1>3. IntentsSound
  BY <1>1 DEF IntentsSound, HasIntent, ClaimStands, Claimed, OneTaskPerIntent, At
<1>4. TasksSound
  BY <1>1 DEF Init, TasksSound, TwoDocuments, Replacing, Resting, Stored, At
<1>5. RowsSound
  BY <1>1 DEF RowsSound, RowStands, Deleting, SourceSettled, Resting, OneTaskPerRow
<1>6. GoneIsVouchedFor
  BY DEF Init, GoneIsVouchedFor
<1>7. QED
  BY <1>2, <1>3, <1>4, <1>5, <1>6 DEF Inv

\* Every step keeps the invariant.
LEMMA NextKeeps ==
  ASSUME Inv, [Next]_vars
  PROVE  Inv'
<1>1. ASSUME NEW t \in Tasks, Step(t)
      PROVE  Inv'
  BY <1>1, WriteIntentKeeps, AppendFactKeeps, ClaimIntentKeeps, AddNewKeeps, CheckOldKeeps,
     InsertAuditKeeps, DeleteOldKeeps, SettleAuditKeeps, CancelAuditKeeps, CloseIntentKeeps,
     ReleaseIntentKeeps, SelectIntentKeeps, ClaimNextKeeps, GiveUpKeeps, SweepKeeps,
     MarkRestoredKeeps DEF Step
<1>2. ASSUME NEW t \in Tasks, StartHook(t) \/ StartRound(t) \/ StartRestore(t)
      PROVE  Inv'
  BY <1>2, StartHookKeeps, StartRoundKeeps, StartRestoreKeeps
<1>3. ASSUME NEW i \in 1 .. MaxHooks, ClaimExpires(i)
      PROVE  Inv'
  BY <1>3, ClaimExpiresKeeps
<1>4. CASE Crash
  BY <1>4, CrashKeeps
<1>5. CASE UNCHANGED vars
  BY <1>5 DEF vars, Inv, TypeOK, IntentsSound, HasIntent, ClaimStands, Claimed,
     OneTaskPerIntent, TasksSound, TwoDocuments, Replacing, Stored, RowsSound, RowStands,
     Deleting, SourceSettled, OneTaskPerRow, GoneIsVouchedFor, Vouches, Restored, InDoubt, At
<1>6. QED
  BY <1>1, <1>2, <1>3, <1>4, <1>5 DEF Next

-----------------------------------------------------------------------------
(* The theorems.                                                           *)

\* The inductive invariant holds for any documents, tasks and bounds.
THEOREM MemoryInvariant == Spec => []Inv
<1>1. Init => Inv
  BY InitInv
<1>2. Inv /\ [Next]_vars => Inv'
  BY NextKeeps
<1>3. QED
  BY <1>1, <1>2, PTL DEF Spec

\* The rows and the tasks have their types (hook.rs, memory_supersede.rs, memory_audit.rs).
THEOREM MemoryTypeOK == Spec => []TypeOK
<1>1. Inv => TypeOK
  BY DEF Inv
<1>2. QED
  BY <1>1, MemoryInvariant, PTL

\* No intention is worked on by two tasks, whatever the number of tasks
\* (memory_supersede.rs:192-200, hook.rs:884).
THEOREM IntentHasOneTask == Spec => []OneTaskPerIntent
<1>1. Inv => OneTaskPerIntent
  BY DEF Inv, IntentsSound
<1>2. QED
  BY <1>1, MemoryInvariant, PTL

\* Whatever is gone can be brought back from an audit row of its own, however many calls
\* fail and however often the process dies (retire.rs:33, memory_audit.rs:5).
THEOREM WhatIsGoneIsAudited == Spec => []GoneIsAudited
<1>1. Inv => GoneIsAudited
  BY DEF Inv, GoneIsVouchedFor, Vouches, GoneIsAudited
<1>2. QED
  BY <1>1, MemoryInvariant, PTL

\* Only DeleteOld takes a document away, the old one of its task.
LEMMA OnlyDeleteOldDeletes ==
  ASSUME TypeOK, Next, NEW d \in kb \ kb'
  PROVE  \E t \in Tasks : DeleteOld(t) /\ Deleted(t, tasks'[t].pc) /\ tasks[t].old = d
<1>1. PICK t \in Tasks : DeleteOld(t)
  <2>1. ASSUME NEW t \in Tasks, Step(t), ~DeleteOld(t)
        PROVE  kb \subseteq kb'
    BY <2>1 DEF Step, WriteIntent, AppendFact, ClaimIntent, AddNew, CheckOld, InsertAudit,
       SettleAudit, CancelAudit, CloseIntent, ReleaseIntent, SelectIntent, ClaimNext, GiveUp,
       Sweep, MarkRestored
  <2>2. ASSUME NEW t \in Tasks, StartHook(t) \/ StartRound(t) \/ StartRestore(t)
        PROVE  kb \subseteq kb'
    BY <2>2 DEF StartHook, StartRound, StartRestore
  <2>3. ASSUME NEW i, ClaimExpires(i)
        PROVE  kb \subseteq kb'
    BY <2>3 DEF ClaimExpires
  <2>4. Crash => kb \subseteq kb'
    BY DEF Crash
  <2>5. QED
    BY <2>1, <2>2, <2>3, <2>4 DEF Next
<1>2. Deleted(t, "settle") \/ Deleted(t, "cancel")
  BY <1>1 DEF DeleteOld
<1>3. PICK pc : Deleted(t, pc)
  BY <1>2
<1>4. tasks'[t].pc = pc /\ tasks[t].old = d
  BY <1>3 DEF Deleted, TypeOK, Task
<1>5. QED
  BY <1>1, <1>3, <1>4

\* A document is deleted only while what takes its place is there, or was taken away by
\* another task (hook.rs:906, handler.rs:1709).
THEOREM ReplacedFirst == Spec => NewBeforeOld
<1>1. ASSUME Inv, [Next]_vars, NEW d \in kb \ kb'
      PROVE  \E t \in Tasks : /\ At(t, "delete") /\ tasks[t].old = d
                              /\ tasks[t].new \in kb' \/ tasks[t].robbed
  <2>1. Next
    BY <1>1 DEF vars
  <2>2. PICK t \in Tasks : DeleteOld(t) /\ Deleted(t, tasks'[t].pc) /\ tasks[t].old = d
    BY <1>1, <2>1, OnlyDeleteOldDeletes DEF Inv
  <2>3. At(t, "delete") /\ kb' = kb \ {d}
    BY <2>2 DEF DeleteOld, Deleted
  <2>4. (tasks[t].new \in kb \/ tasks[t].robbed) /\ tasks[t].old # tasks[t].new
    BY <1>1, <2>3 DEF Inv, TasksSound, Stored, TwoDocuments, At, Resting
  <2>5. QED
    BY <2>2, <2>3, <2>4
<1>2. Inv /\ [Next]_vars =>
         [\A d \in kb \ kb' :
            \E t \in Tasks : /\ At(t, "delete") /\ tasks[t].old = d
                             /\ tasks[t].new \in kb' \/ tasks[t].robbed]_vars
  BY <1>1
<1>3. QED
  BY <1>2, MemoryInvariant, PTL DEF Spec, NewBeforeOld

=============================================================================
