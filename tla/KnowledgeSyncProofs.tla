------------------------- MODULE KnowledgeSyncProofs -------------------------
(***************************************************************************)
(* What KnowledgeSync says of files, manifest and documents holds for any  *)
(* paths, contents, number of tasks and of calls that fail.                *)
(*                                                                         *)
(* Both invariants rest on one sync being at work at a time (Alone).  What *)
(* it has to account for is split between the new manifest, the files that *)
(* are gone and the file it is at (Followed); nothing leaves one of the    *)
(* three but for another, the store or the record of what got loose.  That *)
(* what the manifest says is served of a file is told of the files that    *)
(* are sure: what they hold was given them once, and its text no other     *)
(* file had (Told, Kept, Passed).  A file can stop being sure, and only a  *)
(* content it never had makes it so again: no entry speaks of that yet.    *)
(***************************************************************************)
EXTENDS KnowledgeSync, TLAPS

-----------------------------------------------------------------------------
(* Types.                                                                  *)

Hashes == Contents \cup {NoContent}

EntryType == [hash : Hashes, doc : Texts \cup {NoText}]

Files == [Paths -> EntryType]

Places == {"idle", "register", "mark", "erase", "lock", "fail", "file", "drop", "ingest",
           "read", "rows"}

TaskType ==
    [pc : Places, kind : {"none", "upload", "delete", "manual", "tool", "watcher"},
     path : Paths \cup {Nowhere}, row : BOOLEAN, old : Files, new : Files, todo : SUBSET Paths,
     at : Paths \cup {Nowhere}, hash : Hashes, errors : SUBSET Paths]

RowType ==
    [status : {"none", "pending", "processing", "ready", "error"}, doc : Texts \cup {NoText}]

SeenType ==
    [written : SUBSET (Paths \X Contents), back : SUBSET (Paths \X Contents),
     unread : SUBSET Paths, left : SUBSET Texts, lost : BOOLEAN]

TypeOK ==
    /\ disk \in [Paths -> Hashes]
    /\ manifest \in [torn : BOOLEAN, files : Files]
    /\ store \in [Texts -> {"absent", "partial", "served"}]
    /\ rows \in [Paths -> RowType]
    /\ tasks \in [Tasks -> TaskType]
    /\ watch \in BOOLEAN
    /\ used \in [events : Nat, incidents : Nat]
    /\ seen \in SeenType

\* An entry is of a content and has the text of one.
Whole(files) ==
    \A p \in Paths : files[p] = NoEntry \/ (files[p].hash \in Contents /\ files[p].doc \in Texts)

-----------------------------------------------------------------------------
(* One sync at a time, and what it has to account for.                     *)

Alone == \A t, u \in Tasks : InSync(t) /\ InSync(u) => t = u

\* The file it is at is not in the new manifest yet.
AtWork(t) ==
    /\ ~manifest.torn
    /\ Whole(tasks[t].old) /\ Whole(tasks[t].new)
    /\ \A p \in Paths : tasks[t].old[p] \in {NoEntry, manifest.files[p]}
    /\ \A p \in tasks[t].todo : tasks[t].new[p] = NoEntry /\ tasks[t].old[p] = manifest.files[p]
    /\ tasks[t].pc \in {"drop", "ingest"} => tasks[t].at \in tasks[t].todo /\ tasks[t].hash \in Contents
    /\ tasks[t].pc = "drop" => tasks[t].old[tasks[t].at] # NoEntry

\* The file a sync has dropped the document of has nothing left to be removed.
Dropped(t) == IF At(t, "ingest") THEN {tasks[t].at} ELSE {}

Followed(t) ==
    \A x \in Texts :
        Has(x) => \/ x \in seen.left
                  \/ \E p \in Paths : tasks[t].new[p] # NoEntry /\ tasks[t].new[p].doc = x
                  \/ \E p \in Gone(t) \ Dropped(t) : tasks[t].old[p].doc = x

Settles ==
    ~manifest.torn => \A x \in Texts :
        Has(x) => x \in seen.left \/ \E p \in Paths : manifest.files[p] # NoEntry /\ manifest.files[p].doc = x

Inv ==
    /\ TypeOK /\ Alone /\ Whole(manifest.files)
    /\ \A t \in Tasks : InSync(t) => AtWork(t) /\ Followed(t)
    /\ NobodySyncs => Settles

-----------------------------------------------------------------------------
(* What is served of the files whose content is new to everybody.          *)

Sure == {p \in Present : Novel(p)}

\* What files had is known.
Written == \A p \in Present : <<p, disk[p]>> \in seen.written

\* An entry is of contents its path has had, and tells the truth of the one it has.
Told(files) ==
    \A p \in Paths : files[p] # NoEntry =>
        /\ <<p, files[p].hash>> \in seen.written
        /\ \E c \in Contents : <<p, c>> \in seen.written /\ files[p].doc = Text[c]
        /\ p \in Sure /\ files[p].hash = disk[p] => files[p].doc = Text[disk[p]]

Kept(files) ==
    \A p \in Paths : p \in Sure /\ p \notin seen.unread /\ files[p].hash = disk[p] =>
        store[Text[disk[p]]] = "served"

\* The manifest is of another content than the one the file has, if it has one.
Outdated(p) == p \in Sure => manifest.files[p].hash # disk[p]

Passed(t) ==
    /\ tasks[t].pc \in {"drop", "ingest"} =>
          <<tasks[t].at, tasks[t].hash>> \in seen.written /\ Outdated(tasks[t].at)
    /\ \A p \in Paths \ tasks[t].todo :
          tasks[t].new[p] # NoEntry \/ p \in seen.unread \/ Outdated(p)

Served ==
    /\ Written /\ Told(manifest.files) /\ Kept(manifest.files)
    /\ \A t \in Tasks : InSync(t) =>
          Passed(t) /\ Told(tasks[t].new) /\ Kept(tasks[t].new)

-----------------------------------------------------------------------------
(* Tasks that are not at a sync: nothing the two invariants speak of moves. *)

SyncPlaces == {"file", "drop", "ingest"}

\* The part of a task that is at a sync.
SameSync(u) ==
    /\ tasks'[u].pc = tasks[u].pc /\ tasks'[u].old = tasks[u].old
    /\ tasks'[u].new = tasks[u].new /\ tasks'[u].todo = tasks[u].todo
    /\ tasks'[u].at = tasks[u].at /\ tasks'[u].hash = tasks[u].hash

Aside(u) ==
    IF tasks[u].pc \in SyncPlaces THEN SameSync(u) ELSE tasks'[u].pc \notin SyncPlaces

Apart ==
    /\ manifest' = manifest /\ store' = store
    /\ seen'.left = seen.left /\ seen'.unread = seen.unread
    /\ \A u \in Tasks : Aside(u)

SameHistory == seen'.written = seen.written /\ seen'.back = seen.back

\* No file changes, or one does.
Disturbs ==
    \/ disk' = disk /\ SameHistory
    \/ \E p \in Paths, c \in Hashes : Puts(p, c)

\* The constants, as the provers need them.
LEMMA Nothing ==
    /\ NoEntry \in EntryType /\ NoEntry.hash = NoContent /\ NoEntry.doc = NoText
    /\ NoFiles \in Files /\ \A p \in Paths : NoFiles[p] = NoEntry
    /\ NoContent \notin Contents /\ NoText \notin Texts /\ \A c \in Contents : Text[c] \in Texts
BY KnowledgeAssumption DEF NoEntry, EntryType, Hashes, NoFiles, Files

\* A task that ended has the type of one.
LEMMA RestingTask ==
    Resting \in TaskType /\ Resting.pc = "idle" /\ Resting.kind = "none" /\ Resting.errors = {}
BY Nothing DEF Resting, TaskType, Places, Hashes

\* An entry is known by its content.
LEMMA Entries ==
    ASSUME NEW c \in Contents, NEW x \in Texts
    PROVE  /\ Entry(c, x) \in EntryType /\ Entry(c, x) # NoEntry
           /\ Entry(c, x).hash = c /\ Entry(c, x).doc = x
BY Nothing DEF Entry, NoEntry, EntryType, Hashes

\* One task is replaced.
LEMMA Replaced ==
    ASSUME tasks \in [Tasks -> TaskType], NEW t \in Tasks, NEW task \in TaskType,
           tasks' = [tasks EXCEPT ![t] = task]
    PROVE  /\ tasks' \in [Tasks -> TaskType] /\ tasks'[t] = task
           /\ \A u \in Tasks \ {t} : tasks'[u] = tasks[u]
OBVIOUS

\* A task that is at no sync goes where none is.
LEMMA GoesOn ==
    ASSUME tasks \in [Tasks -> TaskType], NEW t \in Tasks, NEW task \in TaskType,
           tasks' = [tasks EXCEPT ![t] = task],
           tasks[t].pc \notin SyncPlaces, task.pc \notin SyncPlaces
    PROVE  tasks' \in [Tasks -> TaskType] /\ \A u \in Tasks : Aside(u)
BY Replaced DEF Aside, SameSync

\* A task at no sync gets to another place.
LEMMA MovesTo ==
    ASSUME tasks \in [Tasks -> TaskType], NEW t \in Tasks, NEW pc \in Places,
           tasks' = [tasks EXCEPT ![t].pc = pc],
           tasks[t].pc \notin SyncPlaces, pc \notin SyncPlaces
    PROVE  tasks' \in [Tasks -> TaskType] /\ \A u \in Tasks : Aside(u)
<1>1. PICK task : task = [tasks[t] EXCEPT !.pc = pc]
  OBVIOUS
<1>2. task \in TaskType /\ task.pc = pc
  BY <1>1 DEF TaskType
<1>3. tasks' = [tasks EXCEPT ![t] = task]
  BY <1>1
<1>4. QED
  BY <1>2, <1>3, GoesOn

\* Rows are deleted under tasks that hold their ids.
LEMMA RowsGo ==
    ASSUME NEW all \in [Tasks -> TaskType], NEW P, tasks' = WithoutRows(all, P)
    PROVE  /\ tasks' \in [Tasks -> TaskType]
           /\ \A u \in Tasks : /\ tasks'[u].pc = all[u].pc /\ tasks'[u].old = all[u].old
                               /\ tasks'[u].new = all[u].new /\ tasks'[u].todo = all[u].todo
                               /\ tasks'[u].at = all[u].at /\ tasks'[u].hash = all[u].hash
<1>1. SUFFICES ASSUME NEW u \in Tasks
               PROVE  /\ tasks'[u] \in TaskType
                      /\ tasks'[u].pc = all[u].pc /\ tasks'[u].old = all[u].old
                      /\ tasks'[u].new = all[u].new /\ tasks'[u].todo = all[u].todo
                      /\ tasks'[u].at = all[u].at /\ tasks'[u].hash = all[u].hash
  BY DEF WithoutRows
<1>2. PICK row \in BOOLEAN : row = (all[u].row /\ all[u].path \notin P)
  OBVIOUS
<1>3. PICK task : task = all[u]
  OBVIOUS
<1>4. tasks'[u] = [task EXCEPT !.row = row]
  BY <1>2, <1>3, Zenon DEF WithoutRows
<1>5. task \in TaskType
  BY <1>3
<1>6. QED
  BY <1>3, <1>4, <1>5 DEF TaskType

\* Counting what happens.
LEMMA Counts ==
    ASSUME used \in [events : Nat, incidents : Nat], NEW b \in BOOLEAN, Works \/ Happens(b)
    PROVE  used' \in [events : Nat, incidents : Nat]
<1>1. CASE Works
  BY <1>1 DEF Works
<1>2. CASE Happens(b)
  <2>1. PICK e \in Nat, i \in Nat : e = used.events + 1 /\ i = used.incidents + IF b THEN 1 ELSE 0
    OBVIOUS
  <2>2. used' = [events |-> e, incidents |-> i]
    BY <1>2, <2>1 DEF Happens
  <2>3. QED
    BY <2>2
<1>3. QED
  BY <1>1, <1>2

\* The same for a call that works or fails.
LEMMA CallCounts ==
    ASSUME used \in [events : Nat, incidents : Nat], Works \/ Fails
    PROVE  used' \in [events : Nat, incidents : Nat]
BY Counts DEF Fails

\* The same for a task that is started.
LEMMA StartCounts ==
    ASSUME used \in [events : Nat, incidents : Nat], NEW b \in BOOLEAN, Starts(b)
    PROVE  used' \in [events : Nat, incidents : Nat]
<1>1. PICK m \in {0, 1}, n \in {0, 1} : /\ m = IF b THEN 1 ELSE 0
                                       /\ n = IF \E t \in Tasks : ~At(t, "idle") THEN 1 ELSE 0
  OBVIOUS
<1>2. used' = [used EXCEPT !.events = used.events + m + n]
  BY <1>1, Zenon DEF Starts
<1>3. used.events + m + n \in Nat
  BY <1>1
<1>4. QED
  BY <1>2, <1>3

\* A file is written or removed.
LEMMA PutsFacts ==
    ASSUME TypeOK, NEW p \in Paths, NEW c \in Hashes, Puts(p, c)
    PROVE  /\ disk' \in [Paths -> Hashes] /\ watch' \in BOOLEAN /\ seen' \in SeenType
           /\ seen'.left = seen.left /\ seen'.unread = seen.unread
           /\ seen'.written = seen.written \cup ({<<p, c>>} \cap (Paths \X Contents))
           /\ seen'.back = seen.back \cup ({<<p, c>>} \cap (Paths \X Contents) \cap seen.written)
           /\ disk' = [disk EXCEPT ![p] = c]
           /\ disk[p] # c
<1>1. PICK w \in SUBSET (Paths \X Contents), b \in SUBSET (Paths \X Contents) :
           /\ w = seen.written \cup ({<<p, c>>} \cap (Paths \X Contents))
           /\ b = seen.back \cup ({<<p, c>>} \cap (Paths \X Contents) \cap seen.written)
  BY DEF TypeOK, SeenType
<1>2. seen' = [seen EXCEPT !.written = w, !.back = b]
  BY <1>1 DEF Puts, Writes
<1>3. QED
  BY <1>1, <1>2 DEF Puts, TypeOK, SeenType

\* Where no file changes, the same are sure.
LEMMA SameFiles ==
    ASSUME disk' = disk, SameHistory
    PROVE  /\ Present' = Present /\ Sure' = Sure
           /\ seen'.written = seen.written /\ (Written => Written')
<1>1. Present' = Present
  BY DEF Present
<1>2. \A p \in Present : Novel(p)' = Novel(p)
  BY DEF Novel, SameHistory
<1>3. QED
  BY <1>1, <1>2 DEF Sure, Written, SameHistory

\* What leaves files, entries and documents alone and moves no sync keeps the invariant.
LEMMA ApartKeeps ==
    ASSUME Inv, TypeOK', Apart
    PROVE  Inv'
<1>1. \A u \in Tasks : InSync(u)' = InSync(u) /\ (InSync(u) => SameSync(u))
  BY DEF Apart, Aside, InSync, SyncPlaces, SameSync
<1>2. Alone' /\ Whole(manifest.files)' /\ (NobodySyncs => Settles)'
  BY <1>1 DEF Inv, Alone, Whole, NobodySyncs, Settles, Has, Apart
<1>3. ASSUME NEW u \in Tasks, InSync(u)' PROVE AtWork(u)' /\ Followed(u)'
  <2>1. AtWork(u) /\ Followed(u) /\ SameSync(u)
    BY <1>1, <1>3 DEF Inv
  <2>2. AtWork(u)'
    BY <2>1 DEF AtWork, SameSync, Apart, Whole
  <2>3. Gone(u)' = Gone(u) /\ Dropped(u)' = Dropped(u)
    BY <2>1 DEF Gone, Known, Dropped, At, SameSync
  <2>4. Followed(u)'
    BY <2>1, <2>3 DEF Followed, SameSync, Apart, Has
  <2>5. QED
    BY <2>2, <2>4
<1>4. QED
  BY <1>2, <1>3 DEF Inv

\* A file that changes is sure only of what it never held; the others stay what they were.
LEMMA PutsSure ==
    ASSUME TypeOK, NEW p \in Paths, NEW c \in Hashes, Puts(p, c)
    PROVE  /\ \A q \in Paths : q # p /\ q \in Sure' => q \in Sure /\ disk'[q] = disk[q]
           /\ p \in Sure' => disk'[p] = c /\ c \in Contents /\ <<p, c>> \notin seen.written
           /\ \A w \in seen.written : w \in seen'.written
<1>1. /\ disk' = [disk EXCEPT ![p] = c] /\ disk \in [Paths -> Hashes]
      /\ seen'.written = seen.written \cup ({<<p, c>>} \cap (Paths \X Contents))
      /\ seen'.back = seen.back \cup ({<<p, c>>} \cap (Paths \X Contents) \cap seen.written)
  BY PutsFacts DEF TypeOK
<1>2. ASSUME NEW q \in Paths, q # p, q \in Sure' PROVE q \in Sure /\ disk'[q] = disk[q]
  <2>1. disk'[q] = disk[q] /\ q \in Present /\ Novel(q)'
    BY <1>1, <1>2 DEF Sure, Present
  <2>2. Novel(q)
    BY <1>1, <2>1 DEF Novel
  <2>3. QED
    BY <2>1, <2>2 DEF Sure
<1>3. ASSUME p \in Sure' PROVE disk'[p] = c /\ c \in Contents /\ <<p, c>> \notin seen.written
  <2>1. disk'[p] = c /\ c # NoContent /\ Novel(p)'
    BY <1>1, <1>3 DEF Sure, Present
  <2>2. c \in Contents
    BY <2>1 DEF Hashes
  <2>3. <<p, c>> \notin seen'.back
    BY <2>1 DEF Novel
  <2>4. QED
    BY <1>1, <2>1, <2>2, <2>3
<1>4. QED
  BY <1>1, <1>2, <1>3

\* What was told of entries stays true of them when a file changes.
LEMMA PutsTold ==
    ASSUME TypeOK, NEW p \in Paths, NEW c \in Hashes, Puts(p, c),
           NEW files \in Files, Told(files)
    PROVE  /\ \A q \in Paths : files[q] # NoEntry =>
                /\ <<q, files[q].hash>> \in seen'.written
                /\ \E d \in Contents : <<q, d>> \in seen'.written /\ files[q].doc = Text[d]
                /\ q \in Sure' /\ files[q].hash = disk'[q] => files[q].doc = Text[disk'[q]]
           /\ p \in Sure' => files[p].hash # disk'[p]
<1>1. /\ \A q \in Paths : q # p /\ q \in Sure' => q \in Sure /\ disk'[q] = disk[q]
      /\ p \in Sure' => disk'[p] = c /\ c \in Contents /\ <<p, c>> \notin seen.written
      /\ \A w \in seen.written : w \in seen'.written
  BY PutsSure
<1>2. p \in Sure' => files[p].hash # disk'[p]
  <2>1. CASE files[p] = NoEntry
    BY <1>1, <2>1, Nothing
  <2>2. CASE files[p] # NoEntry
    BY <1>1, <2>2 DEF Told
  <2>3. QED
    BY <2>1, <2>2
<1>3. QED
  BY <1>1, <1>2 DEF Told

\* Entries, documents and syncs that stay as they are stay true, whatever files change.
LEMMA ApartServed ==
    ASSUME Inv, Served, TypeOK', Apart, Disturbs
    PROVE  Served'
<1>1. \A u \in Tasks : InSync(u)' = InSync(u) /\ (InSync(u) => SameSync(u))
  BY DEF Apart, Aside, InSync, SyncPlaces, SameSync
<1>2. manifest.files \in Files /\ \A u \in Tasks : tasks[u].new \in Files /\ tasks[u].todo \in SUBSET Paths
  BY DEF Inv, TypeOK, TaskType
<1>3. CASE disk' = disk /\ SameHistory
  <2>0. Sure' = Sure /\ seen'.written = seen.written /\ (Written => Written')
    BY <1>3, SameFiles
  <2>1. Written' /\ Told(manifest.files)' /\ Kept(manifest.files)'
    BY <1>3, <2>0 DEF Served, Told, Kept, Apart
  <2>2. ASSUME NEW u \in Tasks, InSync(u)' PROVE Passed(u)' /\ Told(tasks[u].new)' /\ Kept(tasks[u].new)'
    <3>1. Passed(u) /\ Told(tasks[u].new) /\ Kept(tasks[u].new) /\ SameSync(u)
      BY <1>1, <2>2 DEF Served
    <3>2. Passed(u)'
      BY <1>3, <2>0, <3>1 DEF Passed, Outdated, SameSync, Apart
    <3>3. Told(tasks[u].new)' /\ Kept(tasks[u].new)'
      BY <1>3, <2>0, <3>1 DEF Told, Kept, SameSync, Apart
    <3>4. QED
      BY <3>2, <3>3
  <2>3. QED
    BY <2>1, <2>2 DEF Served
<1>4. CASE \E p \in Paths, c \in Hashes : Puts(p, c)
  <2>1. PICK p \in Paths, c \in Hashes : Puts(p, c)
    BY <1>4
  <2>2. TypeOK /\ disk \in [Paths -> Hashes] /\ disk' = [disk EXCEPT ![p] = c]
    BY <2>1, PutsFacts DEF Inv, TypeOK
  <2>3. /\ \A q \in Paths : q # p /\ q \in Sure' => q \in Sure /\ disk'[q] = disk[q]
        /\ \A w \in seen.written : w \in seen'.written
    BY <2>1, <2>2, PutsSure
  <2>4. Written'
    <3>1. c \in Contents => <<p, c>> \in seen'.written
      BY <2>1, <2>2, PutsFacts
    <3>2. QED
      BY <2>2, <2>3, <3>1 DEF Served, Written, Present, Hashes
  <2>5. ASSUME NEW files \in Files, Told(files), Kept(files)
        PROVE  \A q \in Paths : q \in Sure' /\ q \notin seen'.unread /\ files[q].hash = disk'[q] =>
                   store'[Text[disk'[q]]] = "served"
    <3>1. p \in Sure' => files[p].hash # disk'[p]
      BY <2>1, <2>2, <2>5, PutsTold
    <3>2. QED
      BY <2>3, <2>5, <3>1 DEF Kept, Apart
  <2>6. Told(manifest.files)' /\ Kept(manifest.files)'
    <3>1. Told(manifest.files) /\ Kept(manifest.files) /\ manifest' = manifest
      BY DEF Served, Apart
    <3>2. Told(manifest.files)'
      <4>1. \A q \in Paths : manifest.files[q] # NoEntry =>
                /\ <<q, manifest.files[q].hash>> \in seen'.written
                /\ \E d \in Contents : <<q, d>> \in seen'.written /\ manifest.files[q].doc = Text[d]
                /\ q \in Sure' /\ manifest.files[q].hash = disk'[q] =>
                      manifest.files[q].doc = Text[disk'[q]]
        BY <1>2, <2>1, <2>2, <3>1, PutsTold
      <4>2. QED
        BY <3>1, <4>1 DEF Told
    <3>3. Kept(manifest.files)'
      BY <1>2, <2>5, <3>1 DEF Kept
    <3>4. QED
      BY <3>2, <3>3
  <2>7. \A q \in Paths : Outdated(q) => Outdated(q)'
    <3>1. p \in Sure' => manifest.files[p].hash # disk'[p]
      BY <1>2, <2>1, <2>2, PutsTold DEF Served
    <3>2. QED
      BY <2>3, <3>1 DEF Outdated, Apart
  <2>8. ASSUME NEW u \in Tasks, InSync(u)' PROVE Passed(u)' /\ Told(tasks[u].new)' /\ Kept(tasks[u].new)'
    <3>1. Passed(u) /\ Told(tasks[u].new) /\ Kept(tasks[u].new) /\ SameSync(u) /\ AtWork(u)
      BY <1>1, <2>8 DEF Served, Inv
    <3>2. Passed(u)'
      <4>1. tasks[u].pc \in {"drop", "ingest"} => tasks[u].at \in Paths
        BY <1>2, <3>1 DEF AtWork
      <4>2. QED
        BY <2>3, <2>7, <3>1, <4>1 DEF Passed, SameSync, Apart
    <3>3. Told(tasks[u].new)'
      <4>1. PICK new \in Files : new = tasks[u].new /\ new = tasks'[u].new /\ Told(new)
        BY <1>2, <3>1 DEF SameSync
      <4>2. \A q \in Paths : new[q] # NoEntry =>
                /\ <<q, new[q].hash>> \in seen'.written
                /\ \E d \in Contents : <<q, d>> \in seen'.written /\ new[q].doc = Text[d]
                /\ q \in Sure' /\ new[q].hash = disk'[q] => new[q].doc = Text[disk'[q]]
        BY <2>1, <2>2, <4>1, PutsTold
      <4>3. QED
        BY <4>1, <4>2 DEF Told
    <3>4. Kept(tasks[u].new)'
      BY <1>2, <2>5, <3>1 DEF Kept, SameSync
    <3>5. QED
      BY <3>2, <3>3, <3>4
  <2>9. QED
    BY <2>4, <2>6, <2>8 DEF Served
<1>5. QED
  BY <1>3, <1>4 DEF Disturbs

-----------------------------------------------------------------------------
(* The steps of users, uploads, deletions and projections.                 *)

\* A row is given a status.
LEMMA RowSet ==
    ASSUME rows \in [Paths -> RowType], NEW p,
           NEW status \in {"none", "pending", "processing", "ready", "error"},
           rows' = [rows EXCEPT ![p].status = status]
    PROVE  rows' \in [Paths -> RowType]
<1>1. PICK row : row = [rows[p] EXCEPT !.status = status]
  OBVIOUS
<1>2. rows' = [rows EXCEPT ![p] = row]
  BY <1>1
<1>3. p \in Paths => row \in RowType
  BY <1>1 DEF RowType
<1>4. QED
  BY <1>2, <1>3

\* The row of an upload is given one, if it is still there.
LEMMA StatusSet ==
    ASSUME TypeOK, NEW t \in Tasks,
           NEW status \in {"none", "pending", "processing", "ready", "error"}, SetsStatus(t, status)
    PROVE  rows' \in [Paths -> RowType]
<1>1. PICK p : p = tasks[t].path
  OBVIOUS
<1>2. CASE tasks[t].row
  <2>1. rows' = [rows EXCEPT ![p].status = status]
    BY <1>1, <1>2 DEF SetsStatus
  <2>2. QED
    BY <2>1, RowSet DEF TypeOK
<1>3. CASE ~tasks[t].row
  BY <1>3 DEF SetsStatus, TypeOK
<1>4. QED
  BY <1>2, <1>3

\* A write that is given up is noted.
LEMMA GivenUp ==
    ASSUME TypeOK, GivesUp \/ UNCHANGED seen
    PROVE  /\ seen' \in SeenType /\ seen'.left = seen.left
           /\ seen'.unread = seen.unread /\ SameHistory
BY DEF TypeOK, GivesUp, SeenType, SameHistory

\* A task that ends, at no sync.
LEMMA EndsAside ==
    ASSUME TypeOK, NEW t \in Tasks, tasks[t].pc \notin SyncPlaces, Ends(t)
    PROVE  tasks' \in [Tasks -> TaskType] /\ \A u \in Tasks : Aside(u)
BY RestingTask, GoesOn DEF TypeOK, Ends, SyncPlaces

\* Somebody writes or removes a file: a file changes, nothing else does.
LEMMA ChangeAside ==
    ASSUME Inv, NEW p \in Paths, NEW c \in Hashes, Change(p, c)
    PROVE  TypeOK' /\ Apart /\ Disturbs
<1>1. TypeOK /\ Puts(p, c) /\ Happens(FALSE) /\ UNCHANGED <<manifest, store, rows, tasks>>
  BY DEF Inv, Change
<1>2. used' \in [events : Nat, incidents : Nat]
  BY <1>1, Counts DEF TypeOK
<1>3. QED
  BY <1>1, <1>2, PutsFacts DEF TypeOK, Apart, Aside, SameSync, Disturbs, SameHistory

\* An upload saves its file and starts outside of any sync (handler.rs, upload_document).
LEMMA StartUploadAside ==
    ASSUME Inv, NEW t \in Tasks, NEW p \in Paths, NEW c \in Contents, StartUpload(t, p, c)
    PROVE  TypeOK' /\ Apart /\ Disturbs
<1>1. TypeOK /\ Puts(p, c) /\ Starts(TRUE) /\ UNCHANGED <<manifest, store, rows>> /\ c \in Hashes
  BY DEF Inv, StartUpload, Hashes
<1>2. PICK task : task = [Resting EXCEPT !.pc = "register", !.kind = "upload", !.path = p]
  OBVIOUS
<1>3. task \in TaskType /\ task.pc = "register"
  BY <1>2, RestingTask DEF TaskType, Places
<1>4. tasks' = [tasks EXCEPT ![t] = task] /\ tasks[t].pc = "idle"
  BY <1>2 DEF StartUpload, Free, At
<1>5. tasks' \in [Tasks -> TaskType] /\ \A u \in Tasks : Aside(u)
  BY <1>1, <1>3, <1>4, GoesOn DEF TypeOK, SyncPlaces
<1>6. used' \in [events : Nat, incidents : Nat]
  BY <1>1, StartCounts DEF TypeOK
<1>7. QED
  BY <1>1, <1>5, <1>6, PutsFacts DEF TypeOK, Apart, Disturbs, SameHistory

\* An upload gets its row, or is refused; no sync and no document is touched.
LEMMA RegisterAside ==
    ASSUME Inv, NEW t \in Tasks, Register(t)
    PROVE  TypeOK' /\ Apart /\ Disturbs
<1>1. TypeOK /\ tasks[t].pc = "register" /\ UNCHANGED <<disk, manifest, store, watch, seen>>
  BY DEF Inv, Register, At
<1>2. CASE /\ Works
           /\ rows' = [rows EXCEPT ![tasks[t].path].status = "pending"]
           /\ tasks' = [tasks EXCEPT ![t].pc = "mark", ![t].row = TRUE]
  <2>0. PICK row \in BOOLEAN : row = TRUE
    OBVIOUS
  <2>1. PICK task : task = [tasks[t] EXCEPT !.pc = "mark", !.row = row]
    OBVIOUS
  <2>2. task \in TaskType /\ task.pc = "mark"
    <3>1. tasks[t] \in TaskType /\ "mark" \in Places
      BY <1>1 DEF TypeOK, Places
    <3>2. QED
      BY <2>1, <3>1 DEF TaskType
  <2>3. tasks' = [tasks EXCEPT ![t] = task]
    BY <1>1, <1>2, <2>0, <2>1 DEF TypeOK
  <2>4. tasks' \in [Tasks -> TaskType] /\ \A u \in Tasks : Aside(u)
    BY <1>1, <2>2, <2>3, GoesOn DEF TypeOK, SyncPlaces
  <2>5. PICK p : p = tasks[t].path
    OBVIOUS
  <2>6. rows' = [rows EXCEPT ![p].status = "pending"]
    BY <1>2, <2>5
  <2>7. rows' \in [Paths -> RowType]
    BY <1>1, <2>6, RowSet DEF TypeOK
  <2>8. QED
    BY <1>1, <1>2, <2>4, <2>7 DEF TypeOK, Works, Apart, Disturbs, SameHistory
<1>3. CASE Fails /\ Ends(t) /\ UNCHANGED rows
  <2>1. tasks' \in [Tasks -> TaskType] /\ \A u \in Tasks : Aside(u)
    BY <1>1, <1>3, EndsAside DEF SyncPlaces
  <2>2. used' \in [events : Nat, incidents : Nat]
    BY <1>1, <1>3, CallCounts DEF TypeOK
  <2>3. QED
    BY <1>1, <1>3, <2>1, <2>2 DEF TypeOK, Apart, Disturbs, SameHistory
<1>4. QED
  BY <1>2, <1>3 DEF Register

\* An upload marks its row; no sync and no document is touched.
LEMMA MarkProcessingAside ==
    ASSUME Inv, NEW t \in Tasks, MarkProcessing(t)
    PROVE  TypeOK' /\ Apart /\ Disturbs
<1>1. /\ TypeOK /\ tasks[t].pc = "mark" /\ UNCHANGED <<disk, manifest, store, watch, seen>>
      /\ (Works /\ SetsStatus(t, "processing")) \/ (Fails /\ UNCHANGED rows)
  BY DEF Inv, MarkProcessing, At
<1>2. tasks' = [tasks EXCEPT ![t].pc = "lock"]
  BY DEF MarkProcessing, Go
<1>3. tasks' \in [Tasks -> TaskType] /\ \A u \in Tasks : Aside(u)
  BY <1>1, <1>2, MovesTo DEF TypeOK, SyncPlaces, Places
<1>4. rows' \in [Paths -> RowType] /\ used' \in [events : Nat, incidents : Nat]
  BY <1>1, StatusSet, CallCounts DEF TypeOK
<1>5. QED
  BY <1>1, <1>3, <1>4 DEF TypeOK, Apart, Disturbs, SameHistory

\* A deletion removes the file only; its document is left to the next sync.
LEMMA StartDeleteAside ==
    ASSUME Inv, NEW t \in Tasks, NEW p \in Paths, StartDelete(t, p)
    PROVE  TypeOK' /\ Apart /\ Disturbs
<1>1. TypeOK /\ UNCHANGED <<manifest, store, rows>>
  BY DEF Inv, StartDelete
<1>2. PICK task : task = [Resting EXCEPT !.pc = "erase", !.kind = "delete", !.path = p, !.row = TRUE]
  OBVIOUS
<1>3. task \in TaskType /\ task.pc = "erase"
  BY <1>2, RestingTask DEF TaskType, Places
<1>4. tasks' = [tasks EXCEPT ![t] = task] /\ tasks[t].pc = "idle"
  BY <1>2 DEF StartDelete, Free, At
<1>5. tasks' \in [Tasks -> TaskType] /\ \A u \in Tasks : Aside(u)
  BY <1>1, <1>3, <1>4, GoesOn DEF TypeOK, SyncPlaces
<1>6. CASE Starts(TRUE) /\ Puts(p, NoContent)
  <2>1. used' \in [events : Nat, incidents : Nat] /\ NoContent \in Hashes
    BY <1>1, <1>6, StartCounts DEF TypeOK, Hashes
  <2>2. QED
    BY <1>1, <1>5, <1>6, <2>1, PutsFacts DEF TypeOK, Apart, Disturbs, SameHistory
<1>7. CASE (Starts(TRUE) \/ Fails) /\ UNCHANGED <<disk, watch, seen>>
  <2>1. used' \in [events : Nat, incidents : Nat]
    BY <1>1, <1>7, StartCounts, CallCounts DEF TypeOK
  <2>2. QED
    BY <1>1, <1>5, <1>7, <2>1 DEF TypeOK, Apart, Disturbs, SameHistory
<1>8. QED
  BY <1>6, <1>7 DEF StartDelete

\* Rows go and a task at no sync ends.
LEMMA EndsWithRows ==
    ASSUME TypeOK, NEW t \in Tasks, tasks[t].pc \notin SyncPlaces, NEW P,
           NEW ended, ended = [tasks EXCEPT ![t] = Resting],
           tasks' = WithoutRows(ended, P) \/ tasks' = ended
    PROVE  tasks' \in [Tasks -> TaskType] /\ \A u \in Tasks : Aside(u)
<1>1. ended \in [Tasks -> TaskType] /\ ended[t].pc = "idle" /\ \A u \in Tasks \ {t} : ended[u] = tasks[u]
  BY RestingTask DEF TypeOK
<1>2. CASE tasks' = ended
  BY <1>1, <1>2 DEF Aside, SameSync, SyncPlaces
<1>3. CASE tasks' = WithoutRows(ended, P)
  <2>1. /\ tasks' \in [Tasks -> TaskType]
        /\ \A u \in Tasks : /\ tasks'[u].pc = ended[u].pc /\ tasks'[u].old = ended[u].old
                            /\ tasks'[u].new = ended[u].new /\ tasks'[u].todo = ended[u].todo
                            /\ tasks'[u].at = ended[u].at /\ tasks'[u].hash = ended[u].hash
    BY <1>1, <1>3, RowsGo
  <2>2. QED
    BY <1>1, <2>1 DEF Aside, SameSync, SyncPlaces
<1>4. QED
  BY <1>2, <1>3

\* A deletion erases the row only, and takes its id from the tasks that hold it.
LEMMA EraseRowAside ==
    ASSUME Inv, NEW t \in Tasks, EraseRow(t)
    PROVE  TypeOK' /\ Apart /\ Disturbs
<1>1. TypeOK /\ tasks[t].pc = "erase" /\ UNCHANGED <<disk, manifest, store, watch, seen>>
  BY DEF Inv, EraseRow, At
<1>2. PICK P : P = IF tasks[t].row THEN {tasks[t].path} ELSE {}
  OBVIOUS
<1>3. PICK ended : ended = [tasks EXCEPT ![t] = Resting]
  OBVIOUS
<1>4. \/ /\ Works
         /\ rows' = [p \in Paths |-> IF p \in P THEN NoRow ELSE rows[p]]
         /\ tasks' = WithoutRows(ended, P)
      \/ Fails /\ tasks' = ended /\ UNCHANGED rows
  BY <1>2, <1>3, Zenon DEF EraseRow
<1>5. tasks' \in [Tasks -> TaskType] /\ \A u \in Tasks : Aside(u)
  BY <1>1, <1>3, <1>4, EndsWithRows DEF SyncPlaces
<1>6. rows' \in [Paths -> RowType]
  BY <1>1, <1>4 DEF TypeOK, NoRow, RowType
<1>7. used' \in [events : Nat, incidents : Nat]
  BY <1>1, <1>4, CallCounts DEF TypeOK
<1>8. QED
  BY <1>1, <1>5, <1>6, <1>7 DEF TypeOK, Apart, Disturbs, SameHistory

\* A sync somebody asked for waits for the lock before it reads anything.
LEMMA StartSyncAside ==
    ASSUME Inv, NEW t \in Tasks, NEW kind \in {"manual", "tool"}, StartSync(t, kind)
    PROVE  TypeOK' /\ Apart /\ Disturbs
<1>1. TypeOK /\ Starts(TRUE) /\ UNCHANGED <<disk, manifest, store, rows, watch, seen>>
  BY DEF Inv, StartSync
<1>2. PICK task : task = [Resting EXCEPT !.pc = "lock", !.kind = kind]
  OBVIOUS
<1>3. task \in TaskType /\ task.pc = "lock"
  BY <1>2, RestingTask DEF TaskType, Places
<1>4. tasks' = [tasks EXCEPT ![t] = task] /\ tasks[t].pc = "idle"
  BY <1>2 DEF StartSync, Free, At
<1>5. tasks' \in [Tasks -> TaskType] /\ \A u \in Tasks : Aside(u)
  BY <1>1, <1>3, <1>4, GoesOn DEF TypeOK, SyncPlaces
<1>6. used' \in [events : Nat, incidents : Nat]
  BY <1>1, StartCounts DEF TypeOK
<1>7. QED
  BY <1>1, <1>5, <1>6 DEF TypeOK, Apart, Disturbs, SameHistory

\* The watcher takes its mark off and waits for the lock before it reads anything.
LEMMA StartWatchAside ==
    ASSUME Inv, NEW t \in Tasks, StartWatch(t)
    PROVE  TypeOK' /\ Apart /\ Disturbs
<1>1. TypeOK /\ watch' = FALSE /\ Starts(FALSE) /\ UNCHANGED <<disk, manifest, store, rows, seen>>
  BY DEF Inv, StartWatch
<1>2. PICK task : task = [Resting EXCEPT !.pc = "lock", !.kind = "watcher"]
  OBVIOUS
<1>3. task \in TaskType /\ task.pc = "lock"
  BY <1>2, RestingTask DEF TaskType, Places
<1>4. tasks' = [tasks EXCEPT ![t] = task] /\ tasks[t].pc = "idle"
  BY <1>2 DEF StartWatch, Free, At
<1>5. tasks' \in [Tasks -> TaskType] /\ \A u \in Tasks : Aside(u)
  BY <1>1, <1>3, <1>4, GoesOn DEF TypeOK, SyncPlaces
<1>6. used' \in [events : Nat, incidents : Nat]
  BY <1>1, StartCounts DEF TypeOK
<1>7. QED
  BY <1>1, <1>5, <1>6 DEF TypeOK, Apart, Disturbs, SameHistory

\* A sync that failed leaves its task to tell the row of an upload, or ends it.
LEMMA FailedTask ==
    ASSUME tasks \in [Tasks -> TaskType], NEW t \in Tasks, SyncFails(t)
    PROVE  \E task \in TaskType : task.pc \in {"idle", "fail"} /\ tasks' = [tasks EXCEPT ![t] = task]
<1>1. CASE tasks[t].kind # "upload"
  BY <1>1, RestingTask DEF SyncFails
<1>2. CASE tasks[t].kind = "upload"
  <2>1. PICK path \in Paths \cup {Nowhere}, row \in BOOLEAN : path = tasks[t].path /\ row = tasks[t].row
    BY DEF TaskType
  <2>2. PICK task : task = [Resting EXCEPT !.pc = "fail", !.kind = "upload", !.path = path, !.row = row]
    OBVIOUS
  <2>3. task \in TaskType /\ task.pc = "fail"
    BY <2>1, <2>2, RestingTask DEF TaskType, Places
  <2>4. tasks' = [tasks EXCEPT ![t] = task]
    BY <1>2, <2>1, <2>2 DEF SyncFails
  <2>5. QED
    BY <2>3, <2>4
<1>3. QED
  BY <1>1, <1>2

\* An upload whose sync failed is told on its row, or the write is given up.
LEMMA MarkErrorAside ==
    ASSUME Inv, NEW t \in Tasks, MarkError(t)
    PROVE  TypeOK' /\ Apart /\ Disturbs
<1>1. /\ TypeOK /\ tasks[t].pc = "fail" /\ Ends(t) /\ UNCHANGED <<disk, manifest, store, watch>>
      /\ \/ Works /\ SetsStatus(t, "error") /\ UNCHANGED seen
         \/ Fails /\ GivesUp /\ UNCHANGED rows
  BY DEF Inv, MarkError, At
<1>2. tasks' \in [Tasks -> TaskType] /\ \A u \in Tasks : Aside(u)
  BY <1>1, EndsAside DEF SyncPlaces
<1>3. rows' \in [Paths -> RowType] /\ used' \in [events : Nat, incidents : Nat]
  BY <1>1, StatusSet, CallCounts DEF TypeOK
<1>4. QED
  BY <1>1, <1>2, <1>3, GivenUp DEF TypeOK, Apart, Disturbs, SameHistory

\* A sync that gets no manifest does nothing.
LEMMA NoSyncAside ==
    ASSUME Inv, NEW t \in Tasks, At(t, "lock"), (manifest.torn /\ Works) \/ Fails, SyncFails(t),
           UNCHANGED <<disk, manifest, store, rows, watch, seen>>
    PROVE  TypeOK' /\ Apart /\ Disturbs
<1>1. TypeOK /\ tasks[t].pc = "lock"
  BY DEF Inv, At
<1>2. PICK task \in TaskType : task.pc \in {"idle", "fail"} /\ tasks' = [tasks EXCEPT ![t] = task]
  BY <1>1, FailedTask DEF TypeOK
<1>3. tasks' \in [Tasks -> TaskType] /\ \A u \in Tasks : Aside(u)
  BY <1>1, <1>2, GoesOn DEF TypeOK, SyncPlaces
<1>4. used' \in [events : Nat, incidents : Nat]
  BY <1>1, CallCounts DEF TypeOK
<1>5. QED
  BY <1>1, <1>3, <1>4 DEF TypeOK, Apart, Disturbs, SameHistory

\* The projection reads the manifest outside of the lock and changes no document.
LEMMA ReadManifestAside ==
    ASSUME Inv, NEW t \in Tasks, ReadManifest(t)
    PROVE  TypeOK' /\ Apart /\ Disturbs
<1>1. /\ TypeOK /\ tasks[t].pc = "read" /\ UNCHANGED <<disk, manifest, store, rows, watch>>
  BY DEF Inv, ReadManifest, At
<1>2. CASE /\ Works /\ ~manifest.torn
           /\ tasks' = [tasks EXCEPT ![t].pc = "rows", ![t].old = manifest.files,
                          ![t].todo = Known(manifest.files) \cup tasks[t].errors]
           /\ UNCHANGED seen
  <2>1. PICK todo \in SUBSET Paths : todo = Known(manifest.files) \cup tasks[t].errors
    BY <1>1 DEF TypeOK, TaskType, Known
  <2>2. PICK files \in Files : files = manifest.files
    BY <1>1 DEF TypeOK
  <2>3. PICK task : task = [tasks[t] EXCEPT !.pc = "rows", !.old = files, !.todo = todo]
    OBVIOUS
  <2>4. task \in TaskType /\ task.pc = "rows"
    <3>1. tasks[t] \in TaskType /\ "rows" \in Places
      BY <1>1 DEF TypeOK, Places
    <3>2. QED
      BY <2>3, <3>1 DEF TaskType
  <2>5. tasks' = [tasks EXCEPT ![t] = task]
    BY <1>1, <1>2, <2>1, <2>2, <2>3 DEF TypeOK
  <2>6. tasks' \in [Tasks -> TaskType] /\ \A u \in Tasks : Aside(u)
    BY <1>1, <2>4, <2>5, GoesOn DEF TypeOK, SyncPlaces
  <2>7. QED
    BY <1>1, <1>2, <2>6 DEF TypeOK, Apart, Works, Disturbs, SameHistory
<1>3. CASE ((manifest.torn /\ Works) \/ Fails) /\ Ends(t) /\ GivesUp
  <2>1. tasks' \in [Tasks -> TaskType] /\ \A u \in Tasks : Aside(u)
    BY <1>1, <1>3, EndsAside DEF SyncPlaces
  <2>2. used' \in [events : Nat, incidents : Nat]
    BY <1>1, <1>3, CallCounts DEF TypeOK
  <2>3. QED
    BY <1>1, <1>3, <2>1, <2>2, GivenUp DEF TypeOK, Apart, Disturbs, SameHistory
<1>4. QED
  BY <1>2, <1>3 DEF ReadManifest

\* The projection writes one row, or gives up.
LEMMA UpsertRowAside ==
    ASSUME Inv, NEW t \in Tasks, UpsertRow(t)
    PROVE  TypeOK' /\ Apart /\ Disturbs
<1>1. TypeOK /\ tasks[t].pc = "rows" /\ UNCHANGED <<disk, manifest, store, watch>>
  BY DEF Inv, UpsertRow, At
<1>2. PICK p \in tasks[t].todo :
          \/ /\ Works
             /\ rows' = [rows EXCEPT ![p] = RowOf(tasks[t].old[p])]
             /\ tasks' = [tasks EXCEPT ![t].todo = @ \ {p}]
             /\ UNCHANGED seen
          \/ Fails /\ Ends(t) /\ GivesUp /\ UNCHANGED rows
  BY DEF UpsertRow
<1>3. CASE /\ Works
           /\ rows' = [rows EXCEPT ![p] = RowOf(tasks[t].old[p])]
           /\ tasks' = [tasks EXCEPT ![t].todo = @ \ {p}]
           /\ UNCHANGED seen
  <2>1. PICK todo \in SUBSET Paths : todo = tasks[t].todo \ {p}
    BY <1>1 DEF TypeOK, TaskType
  <2>2. PICK task : task = [tasks[t] EXCEPT !.todo = todo]
    OBVIOUS
  <2>3. task \in TaskType /\ task.pc = "rows"
    BY <1>1, <2>1, <2>2 DEF TypeOK, TaskType
  <2>4. tasks' = [tasks EXCEPT ![t] = task]
    BY <1>1, <1>3, <2>1, <2>2 DEF TypeOK
  <2>5. tasks' \in [Tasks -> TaskType] /\ \A u \in Tasks : Aside(u)
    BY <1>1, <2>3, <2>4, GoesOn DEF TypeOK, SyncPlaces
  <2>6. PICK entry \in EntryType : entry = tasks[t].old[p]
    BY <1>1 DEF TypeOK, TaskType, Files
  <2>7. RowOf(entry) \in RowType
    BY <2>6 DEF RowOf, RowType, EntryType
  <2>8. PICK row \in RowType : row = RowOf(entry)
    BY <2>7
  <2>9. rows' = [rows EXCEPT ![p] = row]
    BY <1>3, <2>6, <2>8
  <2>10. rows' \in [Paths -> RowType]
    BY <1>1, <2>8, <2>9 DEF TypeOK
  <2>11. QED
    BY <1>1, <1>3, <2>5, <2>10 DEF TypeOK, Works, Apart, Disturbs, SameHistory
<1>4. CASE Fails /\ Ends(t) /\ GivesUp /\ UNCHANGED rows
  <2>1. tasks' \in [Tasks -> TaskType] /\ \A u \in Tasks : Aside(u)
    BY <1>1, <1>4, EndsAside DEF SyncPlaces
  <2>2. used' \in [events : Nat, incidents : Nat]
    BY <1>1, <1>4, CallCounts DEF TypeOK
  <2>3. QED
    BY <1>1, <1>4, <2>1, <2>2, GivenUp DEF TypeOK, Apart, Disturbs, SameHistory
<1>5. QED
  BY <1>2, <1>3, <1>4

\* The projection deletes the rows it has no file for, or gives up.
LEMMA PruneAside ==
    ASSUME Inv, NEW t \in Tasks, Prune(t)
    PROVE  TypeOK' /\ Apart /\ Disturbs
<1>1. TypeOK /\ tasks[t].pc = "rows" /\ UNCHANGED <<disk, manifest, store, watch>>
  BY DEF Inv, Prune, At
<1>2. PICK keep : keep = Known(tasks[t].old) \cup tasks[t].errors
  OBVIOUS
<1>3. PICK ended : ended = [tasks EXCEPT ![t] = Resting]
  OBVIOUS
<1>4. \/ /\ Works
         /\ rows' = [p \in Paths |-> IF p \in keep THEN rows[p] ELSE NoRow]
         /\ tasks' = WithoutRows(ended, Paths \ keep)
         /\ UNCHANGED seen
      \/ Fails /\ tasks' = ended /\ GivesUp /\ UNCHANGED rows
  BY <1>2, <1>3, Zenon DEF Prune
<1>5. PICK P : P = Paths \ keep
  OBVIOUS
<1>6. tasks' \in [Tasks -> TaskType] /\ \A u \in Tasks : Aside(u)
  BY <1>1, <1>3, <1>4, <1>5, EndsWithRows DEF SyncPlaces
<1>7. rows' \in [Paths -> RowType]
  BY <1>1, <1>4 DEF TypeOK, NoRow, RowType
<1>8. used' \in [events : Nat, incidents : Nat]
  BY <1>1, <1>4, CallCounts DEF TypeOK
<1>9. QED
  BY <1>1, <1>4, <1>6, <1>7, <1>8, GivenUp DEF TypeOK, Apart, Disturbs, SameHistory

\* The watcher stops with what it has pending; no file and no document changes.
LEMMA UnwatchAside ==
    ASSUME Inv, Unwatch
    PROVE  TypeOK' /\ Apart /\ Disturbs
<1>1. TypeOK /\ Fails /\ watch' = FALSE /\ UNCHANGED <<disk, manifest, store, rows, tasks, seen>>
  BY DEF Inv, Unwatch
<1>2. used' \in [events : Nat, incidents : Nat]
  BY <1>1, CallCounts DEF TypeOK
<1>3. QED
  BY <1>1, <1>2 DEF TypeOK, Apart, Aside, SameSync, Disturbs, SameHistory

-----------------------------------------------------------------------------
(* The steps of a sync.                                                    *)

\* A sync goes on, beside whatever the other tasks are at.
SyncsOn(t) ==
    /\ tasks'[t].pc \in SyncPlaces
    /\ \A u \in Tasks \ {t} : tasks'[u] = tasks[u]
    /\ manifest' = manifest /\ disk' = disk /\ SameHistory

\* The sync at work keeps the invariant if it still accounts for every document.
LEMMA SyncKeeps ==
    ASSUME Inv, TypeOK', NEW t \in Tasks, NobodySyncs \/ tasks[t].pc \in SyncPlaces, SyncsOn(t),
           AtWork(t)', Followed(t)'
    PROVE  Inv'
<1>1. \A u \in Tasks \ {t} : ~InSync(u) /\ ~InSync(u)'
  BY DEF Inv, Alone, InSync, SyncPlaces, NobodySyncs, SyncsOn
<1>2. InSync(t)'
  BY DEF SyncsOn, InSync, SyncPlaces
<1>3. Alone' /\ ~NobodySyncs'
  BY <1>1, <1>2 DEF Alone, NobodySyncs
<1>4. Whole(manifest.files)'
  BY DEF Inv, Whole, SyncsOn
<1>5. QED
  BY <1>1, <1>3, <1>4 DEF Inv

\* It keeps what is served if what it has passed, entered and left is.
LEMMA SyncServed ==
    ASSUME Inv, Served, NEW t \in Tasks, NobodySyncs \/ tasks[t].pc \in SyncPlaces, SyncsOn(t),
           Kept(manifest.files)', Passed(t)', Told(tasks[t].new)', Kept(tasks[t].new)'
    PROVE  Served'
<1>1. \A u \in Tasks \ {t} : ~InSync(u) /\ ~InSync(u)'
  BY DEF Inv, Alone, InSync, SyncPlaces, NobodySyncs, SyncsOn
<1>2. disk' = disk /\ seen'.written = seen.written /\ Sure' = Sure /\ (Written => Written')
  BY SameFiles DEF SyncsOn
<1>3. Written' /\ Told(manifest.files)'
  BY <1>2 DEF Served, Told, SyncsOn
<1>4. QED
  BY <1>1, <1>3 DEF Served

\* One step of a sync: the types of what it changes.
LEMMA SyncMoves ==
    ASSUME Inv, NEW t \in Tasks, NEW task \in TaskType, tasks' = [tasks EXCEPT ![t] = task],
           task.pc \in SyncPlaces, UNCHANGED <<disk, manifest, rows, watch>>,
           store' \in [Texts -> {"absent", "partial", "served"}], Works \/ Fails,
           seen' \in SeenType, SameHistory
    PROVE  TypeOK' /\ SyncsOn(t) /\ tasks'[t] = task
<1>1. TypeOK
  BY DEF Inv
<1>2. used' \in [events : Nat, incidents : Nat]
  BY <1>1, CallCounts DEF TypeOK
<1>3. tasks' \in [Tasks -> TaskType] /\ tasks'[t] = task /\ \A u \in Tasks \ {t} : tasks'[u] = tasks[u]
  BY <1>1, Replaced DEF TypeOK
<1>4. QED
  BY <1>1, <1>2, <1>3 DEF TypeOK, SyncsOn

\* A document is removed, or its removal fails.
LEMMA RemovalFacts ==
    ASSUME TypeOK, NEW x \in Texts, Removes(x) \/ FailsToRemove(x)
    PROVE  /\ store' \in [Texts -> {"absent", "partial", "served"}]
           /\ \A y \in Texts : y # x => store'[y] = store[y]
           /\ store'[x] # "absent" => store[x] # "absent"
           /\ Removes(x) => store'[x] = "absent"
<1>1. store \in [Texts -> {"absent", "partial", "served"}]
  BY DEF TypeOK
<1>2. CASE Removes(x)
  BY <1>1, <1>2 DEF Removes
<1>3. CASE FailsToRemove(x)
  <2>1. PICK left \in {store[x]} \cup (IF Has(x) THEN {"partial"} ELSE {}) :
            store' = [store EXCEPT ![x] = left]
    BY <1>3 DEF FailsToRemove
  <2>2. left \in {"absent", "partial", "served"} /\ (left # "absent" => store[x] # "absent")
    BY <1>1, <2>1 DEF Has
  <2>3. QED
    BY <1>1, <2>1, <2>2 DEF Removes
<1>4. QED
  BY <1>2, <1>3

\* A document is ingested, or its ingestion fails.
LEMMA IngestionFacts ==
    ASSUME TypeOK, NEW x \in Texts, Ingests(x) \/ FailsToIngest(x)
    PROVE  /\ store' \in [Texts -> {"absent", "partial", "served"}]
           /\ \A y \in Texts : y # x => store'[y] = store[y]
           /\ Ingests(x) => store'[x] = "served"
<1>1. store \in [Texts -> {"absent", "partial", "served"}]
  BY DEF TypeOK
<1>2. CASE Ingests(x)
  BY <1>1, <1>2 DEF Ingests
<1>3. CASE FailsToIngest(x)
  <2>1. PICK left \in {store[x], "partial"} \cup {"absent"} : store' = [store EXCEPT ![x] = left]
    BY <1>3 DEF FailsToIngest
  <2>2. QED
    BY <1>1, <2>1 DEF Ingests
<1>4. QED
  BY <1>2, <1>3

\* A sync begins with everything that is ingested in the manifest, and nothing passed.
LEMMA BeginSyncKeeps ==
    ASSUME Inv, NEW t \in Tasks, BeginSync(t)
    PROVE  Inv' /\ (Served => Served')
<1>1. TypeOK /\ tasks[t].pc = "lock" /\ NobodySyncs /\ UNCHANGED <<disk, manifest, store, rows, watch, seen>>
  BY DEF Inv, BeginSync, At, NobodySyncs
<1>2. CASE ((manifest.torn /\ Works) \/ Fails) /\ SyncFails(t)
  <2>1. TypeOK' /\ Apart /\ Disturbs
    BY <1>1, <1>2, NoSyncAside DEF At
  <2>2. QED
    BY <2>1, ApartKeeps, ApartServed
<1>3. CASE /\ Works /\ ~manifest.torn
           /\ tasks' = [tasks EXCEPT ![t].pc = "file", ![t].old = manifest.files,
                                    ![t].new = NoFiles, ![t].todo = Present]
  <2>1. PICK files \in Files : files = manifest.files
    BY <1>1 DEF TypeOK
  <2>2. PICK todo \in SUBSET Paths : todo = Present
    BY DEF Present
  <2>3. PICK none \in Files : none = NoFiles
    BY Nothing
  <2>4. PICK task : task = [tasks[t] EXCEPT !.pc = "file", !.old = files, !.new = none, !.todo = todo]
    OBVIOUS
  <2>5. /\ task \in TaskType /\ task.pc = "file" /\ task.old = files /\ task.new = none
        /\ task.todo = todo
    <3>1. tasks[t] \in TaskType /\ "file" \in Places
      BY <1>1 DEF TypeOK, Places
    <3>2. QED
      BY <2>4, <3>1 DEF TaskType
  <2>6. tasks' = [tasks EXCEPT ![t] = task]
    BY <1>1, <1>3, <2>1, <2>2, <2>3, <2>4 DEF TypeOK
  <2>0. Works /\ ~manifest.torn /\ seen \in SeenType /\ store \in [Texts -> {"absent", "partial", "served"}]
    BY <1>1, <1>3 DEF TypeOK
  <2>7. /\ TypeOK' /\ SyncsOn(t)
        /\ tasks'[t].pc = "file" /\ tasks'[t].old = manifest.files /\ tasks'[t].todo = Present
        /\ \A p \in Paths : tasks'[t].new[p] = NoEntry
    <3>1. TypeOK' /\ SyncsOn(t) /\ tasks'[t] = task
      BY <1>1, <2>0, <2>5, <2>6, SyncMoves DEF SyncPlaces, SameHistory
    <3>2. QED
      BY <2>1, <2>2, <2>3, <2>5, <3>1, Nothing
  <2>8. AtWork(t)'
    BY <1>1, <2>0, <2>7 DEF AtWork, Whole, Inv, Present
  <2>9. Followed(t)'
    <3>1. \A p \in Paths : manifest.files[p] # NoEntry => p \in Gone(t)' \ Dropped(t)'
      BY <2>7 DEF Gone, Known, Dropped, At
    <3>2. QED
      BY <1>1, <2>0, <2>7, <3>1 DEF Followed, Inv, Settles, Has
  <2>10. ASSUME Served PROVE Served'
    <3>0. disk' = disk /\ seen'.written = seen.written /\ Sure' = Sure
      BY <2>7, SameFiles DEF SyncsOn
    <3>1. Kept(manifest.files)'
      BY <1>1, <2>10, <3>0 DEF Served, Kept
    <3>2. Passed(t)'
      BY <1>1, <2>7, <3>0 DEF Passed, Outdated, Sure
    <3>3. Told(tasks[t].new)' /\ Kept(tasks[t].new)'
      BY <2>7, Nothing, <3>0 DEF Told, Kept, Sure, Present
    <3>4. QED
      BY <1>1, <2>7, <2>10, <3>1, <3>2, <3>3, SyncServed
  <2>11. QED
    BY <1>1, <2>7, <2>8, <2>9, <2>10, SyncKeeps
<1>4. QED
  BY <1>2, <1>3 DEF BeginSync

\* A file is skipped, taken up, or not read; a document stays with its entry.
LEMMA HashFileKeeps ==
    ASSUME Inv, NEW t \in Tasks, HashFile(t)
    PROVE  Inv' /\ (Served => Served')
<1>1. /\ TypeOK /\ tasks[t].pc = "file" /\ tasks[t] \in TaskType
      /\ UNCHANGED <<disk, manifest, store, rows, watch>>
      /\ AtWork(t) /\ Followed(t) /\ tasks[t].pc \in SyncPlaces
      /\ Served => Passed(t) /\ Told(tasks[t].new) /\ Kept(tasks[t].new) /\ Kept(manifest.files)
  BY DEF Inv, HashFile, At, TypeOK, InSync, SyncPlaces, Served
<1>2. PICK old \in Files, new \in Files, todo \in SUBSET Paths :
          old = tasks[t].old /\ new = tasks[t].new /\ todo = tasks[t].todo
  BY <1>1 DEF TaskType
<1>3. PICK p \in todo :
          \/ /\ disk[p] # NoContent /\ old[p] # NoEntry /\ old[p].hash = disk[p]
             /\ tasks' = [tasks EXCEPT ![t].new[p] = old[p], ![t].todo = @ \ {p}]
             /\ Works /\ UNCHANGED seen
          \/ /\ disk[p] # NoContent /\ old[p].hash # disk[p]
             /\ tasks' = [tasks EXCEPT ![t].pc = IF old[p] # NoEntry THEN "drop" ELSE "ingest",
                                       ![t].at = p, ![t].hash = disk[p]]
             /\ Works /\ UNCHANGED seen
          \/ /\ tasks' = [tasks EXCEPT ![t].todo = @ \ {p}, ![t].errors = @ \cup {p}]
             /\ \/ disk[p] = NoContent /\ Works /\ UNCHANGED seen
                \/ disk[p] # NoContent /\ Fails /\ seen' = [seen EXCEPT !.unread = @ \cup {p}]
  BY <1>2, Zenon DEF HashFile
<1>4. p \in Paths /\ new[p] = NoEntry /\ old[p] = manifest.files[p]
  BY <1>1, <1>2 DEF AtWork
<1>5. PICK rest \in SUBSET Paths : rest = todo \ {p}
  BY <1>2
<1>6. CASE /\ disk[p] # NoContent /\ old[p] # NoEntry /\ old[p].hash = disk[p]
           /\ tasks' = [tasks EXCEPT ![t].new[p] = old[p], ![t].todo = @ \ {p}]
           /\ Works /\ UNCHANGED seen
  <2>1. PICK more : more = [new EXCEPT ![p] = old[p]]
    OBVIOUS
  <2>2. more \in Files /\ more[p] = old[p] /\ \A q \in Paths \ {p} : more[q] = new[q]
    BY <1>4, <2>1 DEF Files
  <2>3. PICK task : task = [tasks[t] EXCEPT !.new = more, !.todo = rest]
    OBVIOUS
  <2>4. /\ task \in TaskType /\ task.pc = "file" /\ task.old = old /\ task.new = more
        /\ task.todo = rest
    BY <1>1, <1>2, <2>2, <2>3 DEF TaskType
  <2>5. tasks' = [tasks EXCEPT ![t] = task]
    BY <1>1, <1>2, <1>5, <1>6, <2>1, <2>3 DEF TypeOK
  <2>0. /\ Works /\ seen' = seen /\ disk[p] # NoContent /\ old[p] # NoEntry /\ old[p].hash = disk[p]
        /\ seen \in SeenType /\ store \in [Texts -> {"absent", "partial", "served"}]
    BY <1>1, <1>6 DEF TypeOK
  <2>6. /\ TypeOK' /\ SyncsOn(t)
        /\ tasks'[t].pc = "file" /\ tasks'[t].old = old /\ tasks'[t].todo = rest
        /\ tasks'[t].new[p] = old[p] /\ \A q \in Paths \ {p} : tasks'[t].new[q] = new[q]
    <3>1. TypeOK' /\ SyncsOn(t) /\ tasks'[t] = task
      BY <1>1, <2>0, <2>4, <2>5, SyncMoves DEF SyncPlaces, SameHistory
    <3>2. QED
      BY <2>2, <2>4, <3>1
  <2>7. AtWork(t)'
    BY <1>1, <1>2, <1>4, <1>5, <2>6 DEF AtWork, Whole
  <2>8. Followed(t)'
    <3>1. \A q \in Gone(t) \ Dropped(t) : q = p \/ q \in Gone(t)' \ Dropped(t)'
      BY <1>1, <1>2, <2>6 DEF Gone, Known, Dropped, At
    <3>2. QED
      BY <1>1, <1>2, <1>4, <2>0, <2>6, <3>1 DEF Followed, Has
  <2>9. ASSUME Served PROVE Served'
    <3>0. disk' = disk /\ seen'.written = seen.written /\ Sure' = Sure
      BY <2>6, SameFiles DEF SyncsOn
    <3>1. Kept(manifest.files)'
      BY <1>1, <2>0, <2>9, <3>0 DEF Kept
    <3>2. Passed(t)'
      BY <1>1, <1>2, <1>5, <2>0, <2>6, <2>9, <3>0 DEF Passed, Outdated
    <3>3. Told(tasks[t].new)' /\ Kept(tasks[t].new)'
      <4>1. Told(new) /\ Told(manifest.files) /\ Kept(new) /\ Kept(manifest.files)
        BY <1>1, <1>2, <2>9 DEF Served
      <4>2. Told(tasks[t].new)'
        <5>1. ASSUME NEW q \in Paths, tasks'[t].new[q] # NoEntry
              PROVE  /\ <<q, tasks'[t].new[q].hash>> \in seen.written
                     /\ \E c \in Contents : <<q, c>> \in seen.written /\ tasks'[t].new[q].doc = Text[c]
                     /\ q \in Sure /\ tasks'[t].new[q].hash = disk[q] =>
                           tasks'[t].new[q].doc = Text[disk[q]]
          <6>1. tasks'[t].new[q] \in {new[q], manifest.files[q]}
            BY <1>4, <2>6
          <6>2. ASSUME NEW files \in {new, manifest.files}, tasks'[t].new[q] = files[q]
                PROVE  /\ <<q, files[q].hash>> \in seen.written
                       /\ \E c \in Contents : <<q, c>> \in seen.written /\ files[q].doc = Text[c]
                       /\ q \in Sure /\ files[q].hash = disk[q] => files[q].doc = Text[disk[q]]
            <7>1. Told(files) /\ files[q] # NoEntry
              BY <4>1, <5>1, <6>2
            <7>2. QED
              BY <7>1 DEF Told
          <6>3. QED
            BY <6>1, <6>2
        <5>2. QED
          BY <3>0, <5>1 DEF Told
      <4>3. Kept(tasks[t].new)'
        BY <1>1, <1>4, <2>0, <2>6, <4>1, <3>0 DEF Kept
      <4>4. QED
        BY <4>2, <4>3
    <3>4. QED
      BY <1>1, <2>6, <2>9, <3>1, <3>2, <3>3, SyncServed
  <2>10. QED
    BY <1>1, <2>6, <2>7, <2>8, <2>9, SyncKeeps
<1>7. CASE /\ disk[p] # NoContent /\ old[p].hash # disk[p]
           /\ tasks' = [tasks EXCEPT ![t].pc = IF old[p] # NoEntry THEN "drop" ELSE "ingest",
                                     ![t].at = p, ![t].hash = disk[p]]
           /\ Works /\ UNCHANGED seen
  <2>1. PICK c \in Contents : c = disk[p]
    BY <1>1, <1>4, <1>7 DEF TypeOK, Hashes
  <2>2. PICK pc \in {"drop", "ingest"} : pc = IF old[p] # NoEntry THEN "drop" ELSE "ingest"
    OBVIOUS
  <2>3. PICK task : task = [tasks[t] EXCEPT !.pc = pc, !.at = p, !.hash = c]
    OBVIOUS
  <2>4. /\ task \in TaskType /\ task.pc = pc /\ task.old = old /\ task.new = new
        /\ task.todo = todo /\ task.at = p /\ task.hash = c
    <3>1. pc \in Places /\ c \in Hashes
      BY <2>1, <2>2 DEF Places, Hashes
    <3>2. QED
      BY <1>1, <1>2, <1>4, <2>3, <3>1 DEF TaskType
  <2>5. tasks' = [tasks EXCEPT ![t] = task]
    BY <1>1, <1>7, <2>1, <2>2, <2>3 DEF TypeOK
  <2>0. /\ Works /\ seen' = seen /\ disk[p] # NoContent /\ old[p].hash # disk[p]
        /\ seen \in SeenType /\ store \in [Texts -> {"absent", "partial", "served"}]
    BY <1>1, <1>7 DEF TypeOK
  <2>6. /\ TypeOK' /\ SyncsOn(t)
        /\ tasks'[t].pc = pc /\ tasks'[t].old = old /\ tasks'[t].todo = todo
        /\ tasks'[t].new = new /\ tasks'[t].at = p /\ tasks'[t].hash = c
    <3>1. task.pc \in SyncPlaces /\ task \in TaskType
      BY <2>2, <2>4 DEF SyncPlaces
    <3>2. TypeOK' /\ SyncsOn(t) /\ tasks'[t] = task
      BY <1>1, <2>0, <2>5, <3>1, SyncMoves DEF SameHistory
    <3>3. QED
      BY <2>4, <3>2
  <2>7. AtWork(t)'
    BY <1>1, <1>2, <1>4, <2>1, <2>2, <2>6 DEF AtWork, Whole
  <2>8. Followed(t)'
    <3>1. \A q \in Gone(t) \ Dropped(t) : q \in Gone(t)' \ Dropped(t)'
      BY <1>1, <1>2, <2>2, <2>6 DEF Gone, Known, Dropped, At
    <3>2. QED
      BY <1>1, <1>2, <2>0, <2>6, <3>1 DEF Followed, Has
  <2>9. ASSUME Served PROVE Served'
    <3>0. disk' = disk /\ seen'.written = seen.written /\ Sure' = Sure
      BY <2>6, SameFiles DEF SyncsOn
    <3>1. Kept(manifest.files)'
      BY <1>1, <2>0, <2>9, <3>0 DEF Kept
    <3>2. <<p, c>> \in seen.written
      BY <1>4, <2>0, <2>1, <2>9 DEF Served, Written, Present
    <3>3. Outdated(p)'
      BY <1>1, <1>4, <2>0, <3>0 DEF Outdated
    <3>4. \A q \in Paths : Outdated(q) => Outdated(q)'
      BY <1>1, <3>0 DEF Outdated
    <3>5. Passed(t)'
      BY <1>1, <1>2, <2>0, <2>6, <2>9, <3>2, <3>3, <3>4, <3>0 DEF Passed
    <3>6. Told(tasks[t].new)' /\ Kept(tasks[t].new)'
      <4>1. Told(new) /\ Kept(new)
        BY <1>1, <1>2, <2>9
      <4>2. Told(tasks[t].new)'
        BY <1>1, <2>0, <2>6, <4>1, <3>0 DEF Told
      <4>3. Kept(tasks[t].new)'
        BY <1>1, <2>0, <2>6, <4>1, <3>0 DEF Kept
      <4>4. QED
        BY <4>2, <4>3
    <3>7. QED
      BY <1>1, <2>6, <2>9, <3>1, <3>5, <3>6, SyncServed
  <2>10. QED
    BY <1>1, <2>6, <2>7, <2>8, <2>9, SyncKeeps
<1>8. CASE /\ tasks' = [tasks EXCEPT ![t].todo = @ \ {p}, ![t].errors = @ \cup {p}]
           /\ \/ disk[p] = NoContent /\ Works /\ UNCHANGED seen
              \/ disk[p] # NoContent /\ Fails /\ seen' = [seen EXCEPT !.unread = @ \cup {p}]
  <2>1. PICK errors \in SUBSET Paths : errors = tasks[t].errors \cup {p}
    BY <1>1, <1>4 DEF TaskType
  <2>2. PICK task : task = [tasks[t] EXCEPT !.todo = rest, !.errors = errors]
    OBVIOUS
  <2>3. /\ task \in TaskType /\ task.pc = "file" /\ task.old = old /\ task.new = new
        /\ task.todo = rest
    BY <1>1, <1>2, <2>2 DEF TaskType
  <2>4. tasks' = [tasks EXCEPT ![t] = task]
    BY <1>1, <1>2, <1>5, <1>8, <2>1, <2>2 DEF TypeOK
  <2>5. PICK unread \in SUBSET Paths : unread = seen.unread \cup {p}
    BY <1>1, <1>4 DEF TypeOK, SeenType
  <2>6. /\ seen' \in SeenType /\ SameHistory /\ seen'.left = seen.left
        /\ \A q \in seen.unread : q \in seen'.unread
        /\ disk[p] = NoContent \/ p \in seen'.unread
    <3>1. CASE UNCHANGED seen /\ disk[p] = NoContent
      BY <1>1, <3>1 DEF TypeOK, SameHistory
    <3>2. CASE seen' = [seen EXCEPT !.unread = @ \cup {p}]
      <4>1. seen' = [seen EXCEPT !.unread = unread]
        BY <1>1, <2>5, <3>2 DEF TypeOK, SeenType
      <4>2. QED
        BY <1>1, <2>5, <4>1 DEF TypeOK, SeenType, SameHistory
    <3>3. QED
      BY <1>8, <3>1, <3>2
  <2>0. (Works \/ Fails) /\ store \in [Texts -> {"absent", "partial", "served"}]
    BY <1>1, <1>8 DEF TypeOK
  <2>7. /\ TypeOK' /\ SyncsOn(t)
        /\ tasks'[t].pc = "file" /\ tasks'[t].old = old /\ tasks'[t].todo = rest
        /\ tasks'[t].new = new
    <3>1. TypeOK' /\ SyncsOn(t) /\ tasks'[t] = task
      BY <1>1, <2>0, <2>3, <2>4, <2>6, SyncMoves DEF SyncPlaces, SameHistory
    <3>2. QED
      BY <2>3, <3>1
  <2>8. AtWork(t)'
    BY <1>1, <1>2, <1>5, <2>7 DEF AtWork, Whole
  <2>9. Followed(t)'
    <3>1. \A q \in Gone(t) \ Dropped(t) : q \in Gone(t)' \ Dropped(t)'
      BY <1>1, <1>2, <2>7 DEF Gone, Known, Dropped, At
    <3>2. QED
      BY <1>1, <1>2, <2>6, <2>7, <3>1 DEF Followed, Has
  <2>10. ASSUME Served PROVE Served'
    <3>0. disk' = disk /\ seen'.written = seen.written /\ Sure' = Sure
      BY <2>7, SameFiles DEF SyncsOn
    <3>1. Kept(manifest.files)'
      BY <1>1, <2>6, <2>10, <3>0 DEF Kept
    <3>2. p \in seen'.unread \/ Outdated(p)'
      BY <1>1, <2>6, <3>0 DEF Outdated, Sure, Present
    <3>3. \A q \in Paths : Outdated(q) => Outdated(q)'
      BY <1>1, <3>0 DEF Outdated
    <3>4. Passed(t)'
      BY <1>1, <1>2, <1>5, <2>6, <2>7, <2>10, <3>2, <3>3, <3>0 DEF Passed
    <3>5. Told(tasks[t].new)' /\ Kept(tasks[t].new)'
      <4>1. Told(new) /\ Kept(new)
        BY <1>1, <1>2, <2>10
      <4>2. Told(tasks[t].new)'
        BY <1>1, <2>6, <2>7, <4>1, <3>0 DEF Told
      <4>3. Kept(tasks[t].new)'
        BY <1>1, <2>6, <2>7, <4>1, <3>0 DEF Kept
      <4>4. QED
        BY <4>2, <4>3
    <3>6. QED
      BY <1>1, <2>7, <2>10, <3>1, <3>4, <3>5, SyncServed
  <2>11. QED
    BY <1>1, <2>7, <2>8, <2>9, <2>10, SyncKeeps
<1>9. QED
  BY <1>3, <1>6, <1>7, <1>8

\* What a sync is at, for the steps that follow.
LEMMA AtSync ==
    ASSUME Inv, NEW t \in Tasks, tasks[t].pc \in SyncPlaces
    PROVE  /\ TypeOK /\ tasks[t] \in TaskType /\ AtWork(t) /\ Followed(t) /\ ~manifest.torn
           /\ store \in [Texts -> {"absent", "partial", "served"}] /\ seen \in SeenType
           /\ Served => /\ Passed(t) /\ Told(tasks[t].new) /\ Kept(tasks[t].new)
                        /\ Told(manifest.files) /\ Kept(manifest.files) /\ Written
BY DEF Inv, TypeOK, InSync, SyncPlaces, Served, AtWork

\* Texts that got loose are noted.
LEMMA LoosenedFacts ==
    ASSUME seen \in SeenType, NEW texts \in SUBSET Texts, Loosened(texts)
    PROVE  /\ seen' \in SeenType /\ seen'.left = seen.left \cup texts
           /\ seen'.unread = seen.unread /\ SameHistory
<1>1. PICK left \in SUBSET Texts : left = seen.left \cup texts
  BY DEF SeenType
<1>2. seen' = [seen EXCEPT !.left = left]
  BY <1>1 DEF Loosened
<1>3. QED
  BY <1>1, <1>2 DEF SeenType, SameHistory

\* The document of another path is another one.
LEMMA OthersText ==
    ASSUME NEW files, Told(files), NEW p \in Paths, files[p] # NoEntry,
           NEW q \in Sure, q # p
    PROVE  Text[disk[q]] # files[p].doc
<1>1. PICK c \in Contents : <<p, c>> \in seen.written /\ files[p].doc = Text[c]
  BY DEF Told
<1>2. PICK w \in seen.written : w = <<p, c>>
  BY <1>1
<1>3. w[1] = p /\ w[2] = c
  BY <1>2
<1>4. QED
  BY <1>1, <1>3 DEF Sure, Novel

\* What was ingested of a changed file goes, or is noted.
LEMMA DropOldKeeps ==
    ASSUME Inv, NEW t \in Tasks, DropOld(t)
    PROVE  Inv' /\ (Served => Served')
<1>1. tasks[t].pc = "drop" /\ UNCHANGED <<disk, manifest, rows, watch>>
  BY DEF DropOld, At
<1>2. /\ TypeOK /\ tasks[t] \in TaskType /\ AtWork(t) /\ Followed(t) /\ tasks[t].pc \in SyncPlaces
      /\ store \in [Texts -> {"absent", "partial", "served"}] /\ seen \in SeenType
      /\ Served => /\ Passed(t) /\ Told(tasks[t].new) /\ Kept(tasks[t].new)
                   /\ Told(manifest.files) /\ Kept(manifest.files) /\ Written
  BY <1>1, AtSync DEF SyncPlaces
<1>3. PICK p \in Paths : /\ p = tasks[t].at /\ p \in tasks[t].todo /\ tasks[t].old[p] # NoEntry
                         /\ tasks[t].old[p] = manifest.files[p] /\ tasks[t].new[p] = NoEntry
                         /\ tasks[t].old[p].doc \in Texts
  BY <1>1, <1>2 DEF AtWork, TaskType, Whole
<1>4. PICK doc \in Texts : doc = tasks[t].old[p].doc
  BY <1>3
<1>5. /\ (Works /\ Removes(doc) /\ UNCHANGED seen) \/ (Fails /\ FailsToRemove(doc) /\ Loosened({doc}))
      /\ tasks' = [tasks EXCEPT ![t].pc = "ingest"]
  BY <1>3, <1>4, Zenon DEF DropOld, Go
<1>6. /\ store' \in [Texts -> {"absent", "partial", "served"}]
      /\ \A y \in Texts : y # doc => store'[y] = store[y]
      /\ Removes(doc) => store'[doc] = "absent"
  BY <1>2, <1>5, RemovalFacts
<1>7. /\ seen' \in SeenType /\ SameHistory /\ seen'.unread = seen.unread
      /\ seen.left \subseteq seen'.left /\ (store'[doc] # "absent" => doc \in seen'.left)
  <2>1. CASE Removes(doc) /\ UNCHANGED seen
    BY <1>2, <1>6, <2>1 DEF SameHistory
  <2>2. CASE Loosened({doc})
    BY <1>2, <2>2, LoosenedFacts
  <2>3. QED
    BY <1>5, <2>1, <2>2
<1>8. PICK task : task = [tasks[t] EXCEPT !.pc = "ingest"]
  OBVIOUS
<1>9. /\ task \in TaskType /\ task.pc = "ingest" /\ task.old = tasks[t].old
      /\ task.new = tasks[t].new /\ task.todo = tasks[t].todo /\ task.at = p
      /\ task.hash = tasks[t].hash
  <2>1. "ingest" \in Places
    BY DEF Places
  <2>2. QED
    BY <1>2, <1>3, <1>8, <2>1 DEF TaskType
<1>10. /\ TypeOK' /\ SyncsOn(t)
       /\ tasks'[t].pc = "ingest" /\ tasks'[t].old = tasks[t].old /\ tasks'[t].new = tasks[t].new
       /\ tasks'[t].todo = tasks[t].todo /\ tasks'[t].at = p /\ tasks'[t].hash = tasks[t].hash
  <2>1. tasks' = [tasks EXCEPT ![t] = task] /\ task.pc \in SyncPlaces /\ task \in TaskType
    BY <1>5, <1>8, <1>9 DEF SyncPlaces
  <2>2. Works \/ Fails
    BY <1>5
  <2>3. TypeOK' /\ SyncsOn(t) /\ tasks'[t] = task
    BY <1>1, <1>6, <1>7, <2>1, <2>2, SyncMoves
  <2>4. QED
    BY <1>9, <2>3
<1>11. AtWork(t)'
  BY <1>1, <1>2, <1>3, <1>10 DEF AtWork, Whole
<1>12. Followed(t)'
  <2>1. \A q \in Gone(t) \ Dropped(t) : q = p \/ q \in Gone(t)' \ Dropped(t)'
    BY <1>1, <1>10 DEF Gone, Known, Dropped, At
  <2>2. QED
    BY SMTT(40), <1>2, <1>3, <1>4, <1>6, <1>7, <1>10, <2>1 DEF Followed, Has
<1>13. ASSUME Served PROVE Served'
  <2>0. disk' = disk /\ seen'.written = seen.written /\ Sure' = Sure
    BY <1>10, SameFiles DEF SyncsOn
  <2>1. \A q \in Paths \ {p} : q \in Sure => Text[disk[q]] \in Texts /\ Text[disk[q]] # doc
    BY <1>2, <1>3, <1>4, <1>13, Nothing, OthersText DEF Sure, Present, TypeOK, Hashes
  <2>2. Kept(manifest.files)'
    <3>1. p \in Sure => manifest.files[p].hash # disk[p]
      BY <1>1, <1>2, <1>3, <1>13, <2>0 DEF Passed, Outdated
    <3>2. QED
      BY <1>1, <1>2, <1>6, <1>7, <1>13, <2>1, <3>1, <2>0 DEF Kept, Sure, Present
  <2>3. Passed(t)'
    BY <1>1, <1>2, <1>3, <1>7, <1>10, <1>13, <2>0 DEF Passed, Outdated
  <2>4. Told(tasks[t].new)'
    BY <1>1, <1>2, <1>7, <1>10, <1>13, <2>0 DEF Told
  <2>5. Kept(tasks[t].new)'
    <3>1. tasks[t].new[p].hash = NoContent
      BY <1>3, Nothing
    <3>2. QED
      BY <1>1, <1>2, <1>6, <1>7, <1>10, <1>13, <2>1, <3>1, <2>0 DEF Kept, Sure, Present
  <2>6. QED
    BY <1>2, <1>10, <1>13, <2>2, <2>3, <2>4, <2>5, SyncServed
<1>14. QED
  BY <1>2, <1>10, <1>11, <1>12, <1>13, SyncKeeps

\* A file is ingested and entered, or what is there of it is noted.
LEMMA IngestFileKeeps ==
    ASSUME Inv, NEW t \in Tasks, IngestFile(t)
    PROVE  Inv' /\ (Served => Served')
<1>1. tasks[t].pc = "ingest" /\ UNCHANGED <<disk, manifest, rows, watch>>
  BY DEF IngestFile, At
<1>2. /\ TypeOK /\ tasks[t] \in TaskType /\ AtWork(t) /\ Followed(t) /\ tasks[t].pc \in SyncPlaces
      /\ store \in [Texts -> {"absent", "partial", "served"}] /\ seen \in SeenType
      /\ Served => /\ Passed(t) /\ Told(tasks[t].new) /\ Kept(tasks[t].new)
                   /\ Told(manifest.files) /\ Kept(manifest.files) /\ Written
  BY <1>1, AtSync DEF SyncPlaces
<1>3. PICK p \in Paths, h \in Contents :
          /\ p = tasks[t].at /\ p \in tasks[t].todo /\ h = tasks[t].hash
          /\ tasks[t].old[p] = manifest.files[p] /\ tasks[t].new[p] = NoEntry
  BY <1>1, <1>2 DEF AtWork, TaskType
<1>4. PICK c \in Hashes : c = disk[p]
  BY <1>2 DEF TypeOK
<1>5. PICK old \in Files, new \in Files, rest \in SUBSET Paths :
          old = tasks[t].old /\ new = tasks[t].new /\ rest = tasks[t].todo \ {p}
  BY <1>2 DEF TaskType
<1>6. PICK next : next = [tasks[t] EXCEPT !.pc = "file", !.todo = rest, !.at = Nowhere,
                                          !.hash = NoContent]
  OBVIOUS
<1>7. /\ next \in TaskType /\ next.pc = "file" /\ next.old = old /\ next.new = new
      /\ next.todo = rest /\ next.errors = tasks[t].errors
  <2>1. "file" \in Places /\ NoContent \in Hashes
    BY DEF Places, Hashes
  <2>2. QED
    BY <1>2, <1>5, <1>6, <2>1 DEF TaskType
<1>8. next = NextFile(tasks[t])
  BY <1>2, <1>3, <1>5, <1>6 DEF NextFile, TaskType
<1>9. \/ c = NoContent /\ NotIngested(t) /\ Works /\ UNCHANGED <<store, seen>>
      \/ /\ c # NoContent
         /\ \/ Ingested(t, Text[c]) /\ Works /\ Ingests(Text[c]) /\ UNCHANGED seen
            \/ NotIngested(t) /\ Fails /\ FailsToIngest(Text[c]) /\ Loosened({Text[c]})
  BY <1>3, <1>4, Zenon DEF IngestFile
<1>10. ASSUME Served, store' \in [Texts -> {"absent", "partial", "served"}], c # NoContent,
              \A y \in Texts : y # Text[c] => store'[y] = store[y]
       PROVE  /\ \A q \in Paths \ {p} : q \in Sure => store'[Text[disk[q]]] = store[Text[disk[q]]]
              /\ Outdated(p)
  <2>1. \A q \in Paths \ {p} : q \in Sure => Text[disk[q]] \in Texts /\ Text[disk[q]] # Text[c]
    <3>1. SUFFICES ASSUME NEW q \in Paths \ {p}, q \in Sure
                   PROVE  Text[disk[q]] \in Texts /\ Text[disk[q]] # Text[c]
      OBVIOUS
    <3>2. Text[disk[q]] \in Texts
      BY <1>2, <3>1, Nothing DEF TypeOK, Hashes, Present, Sure
    <3>3. PICK w \in seen.written : w = <<p, c>>
      BY <1>2, <1>4, <1>10 DEF Present, Written
    <3>4. w[1] = p /\ w[2] = c
      BY <3>3
    <3>5. QED
      BY <3>1, <3>2, <3>4 DEF Sure, Novel
  <2>2. QED
    BY <1>1, <1>2, <1>3, <1>10, <2>1 DEF Passed
<1>11. CASE NotIngested(t) /\ (c = NoContent => UNCHANGED <<store, seen>>)
            /\ (c # NoContent => FailsToIngest(Text[c]) /\ Loosened({Text[c]})) /\ (Works \/ Fails)
  <2>1. PICK errors \in SUBSET Paths : errors = tasks[t].errors \cup {p}
    BY <1>2, <1>3 DEF TaskType
  <2>2. PICK task : task = [next EXCEPT !.errors = errors]
    OBVIOUS
  <2>3. /\ task \in TaskType /\ task.pc = "file" /\ task.old = old /\ task.new = new
        /\ task.todo = rest
    BY <1>7, <2>2 DEF TaskType
  <2>4. tasks' = [tasks EXCEPT ![t] = task]
    BY <1>3, <1>7, <1>8, <1>11, <2>1, <2>2 DEF NotIngested
  <2>5. c # NoContent => /\ store' \in [Texts -> {"absent", "partial", "served"}]
                         /\ \A y \in Texts : y # Text[c] => store'[y] = store[y]
                         /\ seen' \in SeenType /\ seen'.left = seen.left \cup {Text[c]}
                         /\ seen'.unread = seen.unread /\ SameHistory
                         /\ Text[c] \in Texts
    BY <1>2, <1>11, Nothing, IngestionFacts, LoosenedFacts DEF Hashes
  <2>6. /\ store' \in [Texts -> {"absent", "partial", "served"}] /\ seen' \in SeenType
        /\ seen'.unread = seen.unread /\ SameHistory
        /\ \A y \in Texts : store'[y] = store[y] \/ y \in seen'.left
        /\ seen.left \subseteq seen'.left
        /\ c = NoContent => store' = store
    BY <1>2, <1>11, <2>5 DEF SameHistory
  <2>7. /\ TypeOK' /\ SyncsOn(t)
        /\ tasks'[t].pc = "file" /\ tasks'[t].old = old /\ tasks'[t].new = new
        /\ tasks'[t].todo = rest
    <3>1. task.pc \in SyncPlaces /\ (Works \/ Fails)
      BY <1>11, <2>3 DEF SyncPlaces
    <3>2. TypeOK' /\ SyncsOn(t) /\ tasks'[t] = task
      BY <1>1, <2>3, <2>4, <2>6, <3>1, SyncMoves
    <3>3. QED
      BY <2>3, <3>2
  <2>8. AtWork(t)'
    BY <1>1, <1>2, <1>5, <2>7 DEF AtWork, Whole
  <2>9. Followed(t)'
    <3>1. \A q \in Gone(t) \ Dropped(t) : q \in Gone(t)' \ Dropped(t)'
      BY <1>1, <1>5, <2>7 DEF Gone, Known, Dropped, At
    <3>2. QED
      BY <1>2, <1>5, <2>6, <2>7, <3>1 DEF Followed, Has
  <2>10. ASSUME Served PROVE Served'
    <3>0. disk' = disk /\ seen'.written = seen.written /\ Sure' = Sure
      BY <2>7, SameFiles DEF SyncsOn
    <3>1. Outdated(p) /\ (\A q \in Paths \ {p} : q \in Sure => store'[Text[disk[q]]] = store[Text[disk[q]]])
      BY <1>1, <1>2, <1>3, <1>10, <2>5, <2>6, <2>10, <3>0 DEF Passed
    <3>2. Kept(manifest.files)'
      BY <1>1, <1>2, <2>6, <2>10, <3>1, <3>0 DEF Kept, Outdated
    <3>3. \A q \in Paths : Outdated(q) => Outdated(q)'
      BY <1>1, <3>0 DEF Outdated
    <3>4. Passed(t)'
      BY <1>2, <1>5, <2>6, <2>7, <2>10, <3>1, <3>3, <3>0 DEF Passed
    <3>5. Told(new) /\ Kept(new)
      BY <1>2, <1>5, <2>10
    <3>6. Told(tasks[t].new)'
      BY <1>1, <2>6, <2>7, <3>5, <3>0 DEF Told
    <3>7. new[p].hash = NoContent
      BY <1>3, <1>5, Nothing
    <3>8. Kept(tasks[t].new)'
      BY <1>1, <2>6, <2>7, <3>1, <3>5, <3>7, <3>0 DEF Kept, Sure, Present
    <3>9. QED
      BY <1>2, <2>7, <2>10, <3>2, <3>4, <3>6, <3>8, SyncServed
  <2>11. QED
    BY <1>2, <2>7, <2>8, <2>9, <2>10, SyncKeeps
<1>12. CASE c # NoContent /\ Ingested(t, Text[c]) /\ Works /\ Ingests(Text[c]) /\ UNCHANGED seen
  <2>1. PICK x \in Texts : x = Text[c]
    BY <1>12, Nothing DEF Hashes
  <2>2. PICK entry : entry = Entry(h, x)
    OBVIOUS
  <2>3. entry \in EntryType /\ entry # NoEntry /\ entry.hash = h /\ entry.doc = x
    BY <2>2, Entries
  <2>4. PICK more : more = [new EXCEPT ![p] = entry]
    OBVIOUS
  <2>5. more \in Files /\ more[p] = entry /\ \A q \in Paths \ {p} : more[q] = new[q]
    BY <2>3, <2>4 DEF Files
  <2>6. PICK task : task = [next EXCEPT !.new = more]
    OBVIOUS
  <2>7. /\ task \in TaskType /\ task.pc = "file" /\ task.old = old /\ task.new = more
        /\ task.todo = rest
    BY <1>7, <2>5, <2>6 DEF TaskType
  <2>8. tasks' = [tasks EXCEPT ![t] = task]
    BY <1>3, <1>7, <1>8, <1>12, <2>1, <2>2, <2>4, <2>6 DEF Ingested
  <2>9. /\ store' \in [Texts -> {"absent", "partial", "served"}] /\ store'[x] = "served"
        /\ \A y \in Texts : y # x => store'[y] = store[y]
    BY <1>2, <1>12, <2>1, IngestionFacts
  <2>10. /\ TypeOK' /\ SyncsOn(t)
         /\ tasks'[t].pc = "file" /\ tasks'[t].old = old /\ tasks'[t].todo = rest
         /\ tasks'[t].new[p] = entry /\ \A q \in Paths \ {p} : tasks'[t].new[q] = new[q]
    <3>1. task.pc \in SyncPlaces /\ Works /\ seen' \in SeenType /\ SameHistory
      BY <1>2, <1>12, <2>7 DEF SyncPlaces, SameHistory
    <3>2. TypeOK' /\ SyncsOn(t) /\ tasks'[t] = task
      BY <1>1, <2>7, <2>8, <2>9, <3>1, SyncMoves
    <3>3. QED
      BY <2>5, <2>7, <3>2
  <2>11. seen' = seen /\ p \in Present /\ disk[p] = c /\ c \in Contents
    BY <1>4, <1>12 DEF Present, Hashes
  <2>12. AtWork(t)'
    BY <1>1, <1>2, <1>5, <2>3, <2>10 DEF AtWork, Whole
  <2>13. Followed(t)'
    <3>1. \A q \in Gone(t) \ Dropped(t) : q \in Gone(t)' \ Dropped(t)'
      BY <1>1, <1>3, <1>5, <2>10 DEF Gone, Known, Dropped, At
    <3>2. ASSUME NEW y \in Texts, store'[y] # "absent"
          PROVE  \/ y \in seen'.left
                 \/ \E q \in Paths : tasks'[t].new[q] # NoEntry /\ tasks'[t].new[q].doc = y
                 \/ \E q \in Gone(t)' \ Dropped(t)' : tasks'[t].old[q].doc = y
      <4>1. CASE y = x
        BY <2>3, <2>10, <4>1
      <4>2. CASE y # x
        <5>1. \/ y \in seen.left
              \/ \E q \in Paths : new[q] # NoEntry /\ new[q].doc = y
              \/ \E q \in Gone(t) \ Dropped(t) : old[q].doc = y
          BY <1>2, <1>5, <2>9, <3>2, <4>2 DEF Followed, Has
        <5>2. QED
          BY <1>3, <1>5, <2>10, <2>11, <3>1, <5>1
      <4>3. QED
        BY <4>1, <4>2
    <3>3. QED
      BY <3>2 DEF Followed, Has
  <2>14. ASSUME Served PROVE Served'
    <3>0. disk' = disk /\ seen'.written = seen.written /\ Sure' = Sure
      BY <2>10, SameFiles DEF SyncsOn
    <3>1. Told(new) /\ Kept(new) /\ Written /\ Kept(manifest.files)
      BY <1>2, <1>5, <2>14
    <3>2. \A y \in Texts : store[y] = "served" => store'[y] = "served"
      BY <2>9
    <3>3. \A q \in Paths : q \in Sure => Text[disk[q]] \in Texts
      BY <1>2, Nothing DEF TypeOK, Hashes, Present, Sure
    <3>4. Kept(manifest.files)'
      BY <1>1, <2>11, <3>1, <3>2, <3>3, <3>0 DEF Kept
    <3>5. Passed(t)'
      BY <1>1, <1>2, <1>5, <2>3, <2>10, <2>11, <2>14, <3>0 DEF Passed, Outdated
    <3>6. <<p, h>> \in seen.written /\ <<p, c>> \in seen.written
      BY <1>1, <1>2, <1>3, <2>11, <2>14, <3>0 DEF Passed, Written
    <3>7. Told(tasks[t].new)'
      <4>1. ASSUME NEW q \in Paths, tasks'[t].new[q] # NoEntry
            PROVE  /\ <<q, tasks'[t].new[q].hash>> \in seen.written
                   /\ \E d \in Contents : <<q, d>> \in seen.written /\ tasks'[t].new[q].doc = Text[d]
                   /\ q \in Sure /\ tasks'[t].new[q].hash = disk[q] =>
                         tasks'[t].new[q].doc = Text[disk[q]]
        <5>1. CASE q = p
          BY <2>1, <2>3, <2>10, <2>11, <3>6, <5>1
        <5>2. CASE q # p
          <6>1. new[q] # NoEntry /\ tasks'[t].new[q] = new[q]
            BY <2>10, <4>1, <5>2
          <6>2. /\ <<q, new[q].hash>> \in seen.written
                /\ \E d \in Contents : <<q, d>> \in seen.written /\ new[q].doc = Text[d]
                /\ q \in Sure /\ new[q].hash = disk[q] => new[q].doc = Text[disk[q]]
            BY <3>1, <6>1 DEF Told
          <6>3. QED
            BY <6>1, <6>2
        <5>3. QED
          BY <5>1, <5>2
      <4>2. QED
        BY <3>0, <4>1 DEF Told
    <3>8. Kept(tasks[t].new)'
      BY <1>1, <2>1, <2>3, <2>9, <2>10, <2>11, <3>1, <3>2, <3>3, <3>0 DEF Kept
    <3>9. QED
      BY <1>2, <2>10, <2>14, <3>4, <3>5, <3>7, <3>8, SyncServed
  <2>15. QED
    BY <1>2, <2>10, <2>12, <2>13, <2>14, SyncKeeps
<1>13. QED
  BY <1>9, <1>11, <1>12

\* The document of a file that is gone is removed, or its entry is kept.
LEMMA RemoveGoneKeeps ==
    ASSUME Inv, NEW t \in Tasks, RemoveGone(t)
    PROVE  Inv' /\ (Served => Served')
<1>1. tasks[t].pc = "file" /\ tasks[t].todo = {} /\ UNCHANGED <<disk, manifest, rows, watch, seen>>
  BY DEF RemoveGone, Scanned, At
<1>2. /\ TypeOK /\ tasks[t] \in TaskType /\ AtWork(t) /\ Followed(t) /\ tasks[t].pc \in SyncPlaces
      /\ store \in [Texts -> {"absent", "partial", "served"}] /\ seen \in SeenType
      /\ Served => /\ Passed(t) /\ Told(tasks[t].new) /\ Kept(tasks[t].new)
                   /\ Told(manifest.files) /\ Kept(manifest.files) /\ Written
  BY <1>1, AtSync DEF SyncPlaces
<1>3. PICK old \in Files, new \in Files : old = tasks[t].old /\ new = tasks[t].new
  BY <1>2 DEF TaskType
<1>4. PICK p \in Gone(t) :
          \/ /\ Works /\ Removes(old[p].doc)
             /\ tasks' = [tasks EXCEPT ![t].old[p] = NoEntry]
          \/ /\ Fails /\ FailsToRemove(old[p].doc)
             /\ tasks' = [tasks EXCEPT ![t].new[p] = old[p], ![t].errors = @ \cup {p}]
  BY <1>3, Zenon DEF RemoveGone
<1>5. /\ p \in Paths /\ old[p] # NoEntry /\ new[p] = NoEntry /\ old[p] = manifest.files[p]
      /\ old[p].doc \in Texts
  BY <1>2, <1>3, <1>4 DEF Gone, Known, AtWork, Whole
<1>6. PICK entry \in EntryType, doc \in Texts : entry = old[p] /\ doc = old[p].doc
  BY <1>5 DEF Files
<1>7. /\ store' \in [Texts -> {"absent", "partial", "served"}]
      /\ \A y \in Texts : y # doc => store'[y] = store[y]
      /\ store'[doc] # "absent" => store[doc] # "absent"
      /\ Removes(doc) => store'[doc] = "absent"
  BY <1>2, <1>4, <1>6, RemovalFacts
<1>8. ASSUME Served
      PROVE  /\ \A q \in Paths \ {p} : q \in Sure => store'[Text[disk[q]]] = store[Text[disk[q]]]
             /\ p \in seen.unread \/ Outdated(p)
  <2>1. ASSUME NEW q \in Paths \ {p}, q \in Sure PROVE Text[disk[q]] \in Texts /\ Text[disk[q]] # doc
    <3>1. Text[disk[q]] \in Texts
      BY <1>2, <2>1, Nothing DEF TypeOK, Hashes, Present, Sure
    <3>2. Text[disk[q]] # manifest.files[p].doc
      BY <1>2, <1>5, <1>8, <2>1, OthersText
    <3>3. QED
      BY <1>5, <1>6, <3>1, <3>2
  <2>2. p \in seen.unread \/ Outdated(p)
    BY <1>1, <1>2, <1>3, <1>5, <1>8 DEF Passed
  <2>3. QED
    BY <1>7, <2>1, <2>2
<1>9. ASSUME Served PROVE Kept(manifest.files)'
  <2>1. Sure' = Sure
    BY <1>1, SameFiles DEF SameHistory
  <2>2. QED
    BY <1>1, <1>2, <1>8, <1>9, <2>1 DEF Kept, Outdated
<1>10. CASE /\ Works /\ Removes(doc)
            /\ tasks' = [tasks EXCEPT ![t].old[p] = NoEntry]
  <2>1. PICK less : less = [old EXCEPT ![p] = NoEntry]
    OBVIOUS
  <2>2. less \in Files /\ less[p] = NoEntry /\ \A q \in Paths \ {p} : less[q] = old[q]
    BY <1>5, <2>1, Nothing DEF Files
  <2>3. PICK task : task = [tasks[t] EXCEPT !.old = less]
    OBVIOUS
  <2>4. task \in TaskType /\ task.pc = "file" /\ task.old = less /\ task.new = new /\ task.todo = {}
    BY <1>1, <1>2, <1>3, <2>2, <2>3 DEF TaskType
  <2>5. tasks' = [tasks EXCEPT ![t] = task]
    BY <1>2, <1>3, <1>10, <2>1, <2>3 DEF TypeOK
  <2>6. /\ TypeOK' /\ SyncsOn(t)
        /\ tasks'[t].pc = "file" /\ tasks'[t].new = new /\ tasks'[t].todo = {}
        /\ tasks'[t].old[p] = NoEntry /\ \A q \in Paths \ {p} : tasks'[t].old[q] = old[q]
    <3>1. task.pc \in SyncPlaces /\ Works
      BY <1>10, <2>4 DEF SyncPlaces
    <3>2. TypeOK' /\ SyncsOn(t) /\ tasks'[t] = task
      BY <1>1, <1>2, <1>7, <2>4, <2>5, <3>1, SyncMoves DEF SameHistory
    <3>3. QED
      BY <2>2, <2>4, <3>2
  <2>7. AtWork(t)'
    BY <1>1, <1>2, <1>3, <2>6 DEF AtWork, Whole
  <2>8. Followed(t)'
    <3>1. \A q \in Gone(t) \ Dropped(t) : q = p \/ q \in Gone(t)' \ Dropped(t)'
      BY <1>1, <1>3, <2>6 DEF Gone, Known, Dropped, At
    <3>2. store'[doc] = "absent"
      BY <1>7, <1>10
    <3>3. ASSUME NEW y \in Texts, store'[y] # "absent"
          PROVE  \/ y \in seen'.left
                 \/ \E q \in Paths : tasks'[t].new[q] # NoEntry /\ tasks'[t].new[q].doc = y
                 \/ \E q \in Gone(t)' \ Dropped(t)' : tasks'[t].old[q].doc = y
      <4>1. y # doc /\ store[y] # "absent"
        BY <1>7, <3>2, <3>3
      <4>2. \/ y \in seen.left
            \/ \E q \in Paths : new[q] # NoEntry /\ new[q].doc = y
            \/ \E q \in Gone(t) \ Dropped(t) : old[q].doc = y
        BY <1>2, <1>3, <4>1 DEF Followed, Has
      <4>3. ASSUME NEW q \in Gone(t) \ Dropped(t), old[q].doc = y
            PROVE  q \in Gone(t)' \ Dropped(t)' /\ tasks'[t].old[q].doc = y
        <5>1. q # p /\ q \in Paths
          BY <1>3, <1>6, <4>1, <4>3 DEF Gone, Known
        <5>2. QED
          BY <2>6, <3>1, <4>3, <5>1
      <4>4. QED
        BY <1>1, <2>6, <4>2, <4>3
    <3>4. QED
      BY <3>3 DEF Followed, Has
  <2>9. ASSUME Served PROVE Served'
    <3>0. disk' = disk /\ seen'.written = seen.written /\ Sure' = Sure
      BY <2>6, SameFiles DEF SyncsOn
    <3>1. Told(new) /\ Kept(new)
      BY <1>2, <1>3, <2>9
    <3>2. Told(tasks[t].new)'
      BY <1>1, <2>6, <3>1, <3>0 DEF Told
    <3>3. Kept(tasks[t].new)'
      <4>1. new[p].hash = NoContent
        BY <1>5, Nothing
      <4>2. QED
        BY <1>1, <1>8, <2>6, <2>9, <3>1, <4>1, <3>0 DEF Kept, Sure, Present
    <3>4. Passed(t)'
      BY <1>1, <1>2, <1>3, <2>6, <2>9, <3>0 DEF Passed, Outdated
    <3>5. QED
      BY <1>2, <1>9, <2>6, <2>9, <3>2, <3>3, <3>4, SyncServed
  <2>10. QED
    BY <1>2, <2>6, <2>7, <2>8, <2>9, SyncKeeps
<1>11. CASE /\ Fails /\ FailsToRemove(doc)
            /\ tasks' = [tasks EXCEPT ![t].new[p] = old[p], ![t].errors = @ \cup {p}]
  <2>1. PICK more : more = [new EXCEPT ![p] = entry]
    OBVIOUS
  <2>2. more \in Files /\ more[p] = entry /\ \A q \in Paths \ {p} : more[q] = new[q]
    BY <1>5, <2>1 DEF Files
  <2>3. PICK errors \in SUBSET Paths : errors = tasks[t].errors \cup {p}
    BY <1>2, <1>5 DEF TaskType
  <2>4. PICK task : task = [tasks[t] EXCEPT !.new = more, !.errors = errors]
    OBVIOUS
  <2>5. task \in TaskType /\ task.pc = "file" /\ task.old = old /\ task.new = more /\ task.todo = {}
    BY <1>1, <1>2, <1>3, <2>2, <2>4 DEF TaskType
  <2>6. tasks' = [tasks EXCEPT ![t] = task]
    BY <1>2, <1>3, <1>6, <1>11, <2>1, <2>3, <2>4 DEF TypeOK
  <2>7. /\ TypeOK' /\ SyncsOn(t)
        /\ tasks'[t].pc = "file" /\ tasks'[t].old = old /\ tasks'[t].todo = {}
        /\ tasks'[t].new[p] = entry /\ \A q \in Paths \ {p} : tasks'[t].new[q] = new[q]
    <3>1. task.pc \in SyncPlaces /\ Fails
      BY <1>11, <2>5 DEF SyncPlaces
    <3>2. TypeOK' /\ SyncsOn(t) /\ tasks'[t] = task
      BY <1>1, <1>2, <1>7, <2>5, <2>6, <3>1, SyncMoves DEF SameHistory
    <3>3. QED
      BY <2>2, <2>5, <3>2
  <2>8. AtWork(t)'
    BY <1>1, <1>2, <1>3, <1>6, <2>7 DEF AtWork, Whole
  <2>9. Followed(t)'
    <3>1. \A q \in Gone(t) \ Dropped(t) : q = p \/ q \in Gone(t)' \ Dropped(t)'
      BY <1>1, <1>3, <2>7 DEF Gone, Known, Dropped, At
    <3>2. ASSUME NEW y \in Texts, store'[y] # "absent"
          PROVE  \/ y \in seen'.left
                 \/ \E q \in Paths : tasks'[t].new[q] # NoEntry /\ tasks'[t].new[q].doc = y
                 \/ \E q \in Gone(t)' \ Dropped(t)' : tasks'[t].old[q].doc = y
      <4>1. \/ y \in seen.left
            \/ \E q \in Paths : new[q] # NoEntry /\ new[q].doc = y
            \/ \E q \in Gone(t) \ Dropped(t) : old[q].doc = y
        BY <1>2, <1>3, <1>7, <3>2 DEF Followed, Has
      <4>2. QED
        BY <1>1, <1>5, <1>6, <2>7, <3>1, <4>1
    <3>3. QED
      BY <3>2 DEF Followed, Has
  <2>10. ASSUME Served PROVE Served'
    <3>0. disk' = disk /\ seen'.written = seen.written /\ Sure' = Sure
      BY <2>7, SameFiles DEF SyncsOn
    <3>1. Told(new) /\ Kept(new) /\ Told(manifest.files)
      BY <1>2, <1>3, <2>10
    <3>2. Told(tasks[t].new)'
      <4>1. /\ <<p, entry.hash>> \in seen.written
            /\ \E c \in Contents : <<p, c>> \in seen.written /\ entry.doc = Text[c]
            /\ p \in Sure /\ entry.hash = disk[p] => entry.doc = Text[disk[p]]
        BY <1>5, <1>6, <3>1, <3>0 DEF Told
      <4>2. \A q \in Paths \ {p} : new[q] # NoEntry =>
               /\ <<q, new[q].hash>> \in seen.written
               /\ \E c \in Contents : <<q, c>> \in seen.written /\ new[q].doc = Text[c]
               /\ q \in Sure /\ new[q].hash = disk[q] => new[q].doc = Text[disk[q]]
        BY <3>1, <3>0 DEF Told
      <4>3. \A q \in Paths : tasks'[t].new[q] # NoEntry =>
               /\ <<q, tasks'[t].new[q].hash>> \in seen'.written
               /\ \E c \in Contents : <<q, c>> \in seen'.written /\ tasks'[t].new[q].doc = Text[c]
               /\ q \in Sure' /\ tasks'[t].new[q].hash = disk'[q] =>
                     tasks'[t].new[q].doc = Text[disk'[q]]
        BY SMTT(40), <1>1, <2>7, <3>0, <4>1, <4>2
      <4>4. QED
        BY <4>3, <3>0 DEF Told
    <3>3. Kept(tasks[t].new)'
      BY <1>1, <1>5, <1>6, <1>8, <2>7, <2>10, <3>1, <3>0 DEF Kept, Outdated
    <3>4. Passed(t)'
      BY <1>1, <1>2, <1>3, <1>5, <1>6, <2>7, <2>10, <3>0 DEF Passed, Outdated
    <3>5. QED
      BY <1>2, <1>9, <2>7, <2>10, <3>2, <3>3, <3>4, SyncServed
  <2>11. QED
    BY <1>2, <2>7, <2>8, <2>9, <2>10, SyncKeeps
<1>12. QED
  BY <1>4, <1>6, <1>10, <1>11

\* The sync that was at work is over: nobody is.
LEMMA SyncOver ==
    ASSUME Inv, NEW t \in Tasks, tasks[t].pc \in SyncPlaces, NEW task \in TaskType,
           task.pc \notin SyncPlaces, tasks' = [tasks EXCEPT ![t] = task]
    PROVE  tasks' \in [Tasks -> TaskType] /\ \A u \in Tasks : ~InSync(u)'
<1>1. \A u \in Tasks \ {t} : ~InSync(u)
  BY DEF Inv, Alone, InSync, SyncPlaces
<1>2. /\ tasks' \in [Tasks -> TaskType] /\ tasks'[t] = task
      /\ \A u \in Tasks \ {t} : tasks'[u] = tasks[u]
  BY Replaced DEF Inv, TypeOK
<1>3. QED
  BY <1>1, <1>2 DEF InSync, SyncPlaces

\* The new manifest takes over what the sync accounts for; if it cannot be written, what
\* only the new one knows of is noted.
LEMMA SaveManifestKeeps ==
    ASSUME Inv, NEW t \in Tasks, SaveManifest(t)
    PROVE  Inv' /\ (Served => Served')
<1>1. /\ tasks[t].pc = "file" /\ tasks[t].todo = {} /\ Gone(t) = {}
      /\ UNCHANGED <<disk, store, rows, watch>>
  BY DEF SaveManifest, Scanned, At
<1>2. /\ TypeOK /\ tasks[t] \in TaskType /\ AtWork(t) /\ Followed(t) /\ tasks[t].pc \in SyncPlaces
      /\ store \in [Texts -> {"absent", "partial", "served"}] /\ seen \in SeenType
      /\ Served => /\ Passed(t) /\ Told(tasks[t].new) /\ Kept(tasks[t].new)
                   /\ Told(manifest.files) /\ Kept(manifest.files) /\ Written
  BY <1>1, AtSync DEF SyncPlaces
<1>3. PICK new \in Files : new = tasks[t].new /\ Whole(new)
  BY <1>2 DEF TaskType, AtWork
<1>4. \A x \in Texts : Has(x) => x \in seen.left \/ \E p \in Paths : new[p] # NoEntry /\ new[p].doc = x
  BY <1>1, <1>2, <1>3 DEF Followed
<1>5. CASE /\ Works
           /\ manifest' = [torn |-> FALSE, files |-> tasks[t].new]
           /\ tasks' = [tasks EXCEPT ![t] =
                       IF @.kind = "tool" THEN Resting
                       ELSE [Resting EXCEPT !.pc = "read", !.kind = tasks[t].kind,
                                 !.path = tasks[t].path, !.row = tasks[t].row,
                                 !.errors = tasks[t].errors]]
           /\ UNCHANGED seen
  <2>1. \E task \in TaskType : task.pc \in {"idle", "read"} /\ tasks' = [tasks EXCEPT ![t] = task]
    <3>1. CASE tasks[t].kind = "tool"
      BY <1>5, <3>1, RestingTask
    <3>2. CASE tasks[t].kind # "tool"
      <4>1. PICK path \in Paths \cup {Nowhere}, row \in BOOLEAN, errors \in SUBSET Paths,
                 kind \in {"none", "upload", "delete", "manual", "tool", "watcher"} :
                path = tasks[t].path /\ row = tasks[t].row /\ errors = tasks[t].errors /\ kind = tasks[t].kind
        BY <1>2 DEF TaskType
      <4>2. PICK task : task = [Resting EXCEPT !.pc = "read", !.kind = kind, !.path = path, !.row = row,
                                               !.errors = errors]
        OBVIOUS
      <4>3. task \in TaskType /\ task.pc = "read"
        BY ZenonT(60), <4>1, <4>2, RestingTask DEF TaskType, Places
      <4>4. tasks' = [tasks EXCEPT ![t] = task]
        BY <1>5, <3>2, <4>1, <4>2
      <4>5. QED
        BY <4>3, <4>4
    <3>3. QED
      BY <3>1, <3>2
  <2>2. PICK task \in TaskType : task.pc \in {"idle", "read"} /\ tasks' = [tasks EXCEPT ![t] = task]
    BY <2>1
  <2>3. tasks' \in [Tasks -> TaskType] /\ \A u \in Tasks : ~InSync(u)'
    BY <1>2, <2>2, SyncOver DEF SyncPlaces
  <2>4. manifest'.files = new /\ manifest' \in [torn : BOOLEAN, files : Files] /\ seen' = seen /\ Works
    BY <1>3, <1>5
  <2>5. TypeOK'
    BY <1>1, <1>2, <2>3, <2>4 DEF TypeOK, Works
  <2>6. Settles' /\ Whole(manifest.files)'
    BY <1>1, <1>3, <1>4, <2>4 DEF Settles, Has, Whole
  <2>7. Inv'
    BY <2>3, <2>5, <2>6 DEF Inv, Alone
  <2>8. ASSUME Served PROVE Served'
    <3>1. Written /\ Told(new) /\ Kept(new)
      BY <1>2, <1>3, <2>8
    <3>0. Sure' = Sure /\ seen'.written = seen.written /\ (Written => Written')
      BY <1>1, <2>4, SameFiles DEF SameHistory
    <3>2. Written' /\ Told(manifest.files)' /\ Kept(manifest.files)'
      BY <1>1, <2>4, <3>0, <3>1 DEF Told, Kept
    <3>3. QED
      BY <2>3, <3>2 DEF Served
  <2>9. QED
    BY <2>7, <2>8
<1>6. CASE /\ Fails
           /\ \E torn \in BOOLEAN : manifest' = [manifest EXCEPT !.torn = torn]
           /\ SyncFails(t)
           /\ Loosened(Unsaved(t))
  <2>1. PICK torn \in BOOLEAN : manifest' = [manifest EXCEPT !.torn = torn]
    BY <1>6
  <2>2. manifest'.files = manifest.files /\ manifest' \in [torn : BOOLEAN, files : Files]
    BY <1>2, <2>1 DEF TypeOK
  <2>3. PICK task \in TaskType : task.pc \in {"idle", "fail"} /\ tasks' = [tasks EXCEPT ![t] = task]
    BY <1>2, <1>6, FailedTask DEF TypeOK
  <2>4. tasks' \in [Tasks -> TaskType] /\ \A u \in Tasks : ~InSync(u)'
    BY <1>2, <2>3, SyncOver DEF SyncPlaces
  <2>5. PICK texts \in SUBSET Texts : texts = Unsaved(t)
    BY <1>3 DEF Unsaved, Docs, Known, Whole
  <2>6. /\ seen' \in SeenType /\ seen'.left = seen.left \cup texts
        /\ seen'.unread = seen.unread /\ SameHistory
    BY <1>2, <1>6, <2>5, LoosenedFacts
  <2>7. used' \in [events : Nat, incidents : Nat]
    BY <1>2, <1>6, CallCounts DEF TypeOK
  <2>8. TypeOK'
    BY <1>1, <1>2, <2>2, <2>4, <2>6, <2>7 DEF TypeOK
  <2>9. Settles' /\ Whole(manifest.files)'
    <3>1. \A p \in Paths : new[p] # NoEntry =>
              \/ new[p].doc \in texts
              \/ \E q \in Paths : manifest.files[q] # NoEntry /\ manifest.files[q].doc = new[p].doc
      BY <1>3, <2>5 DEF Unsaved, Docs, Known
    <3>2. QED
      BY <1>1, <1>2, <1>4, <2>2, <2>6, <3>1 DEF Settles, Has, Whole, Inv
  <2>10. Inv'
    BY <2>4, <2>8, <2>9 DEF Inv, Alone
  <2>11. ASSUME Served PROVE Served'
    <3>0. Sure' = Sure /\ seen'.written = seen.written /\ (Written => Written')
      BY <1>1, <2>6, SameFiles
    <3>1. Written' /\ Told(manifest.files)' /\ Kept(manifest.files)'
      BY <1>1, <1>2, <2>2, <2>6, <2>11, <3>0 DEF Told, Kept
    <3>2. QED
      BY <2>4, <3>1 DEF Served
  <2>12. QED
    BY <2>10, <2>11
<1>7. QED
  BY <1>5, <1>6 DEF SaveManifest

\* What a sync that a crash ends has ingested is noted; the manifest may be torn.
LEMMA CrashKeeps ==
    ASSUME Inv, Crash
    PROVE  Inv' /\ (Served => Served')
<1>1. TypeOK /\ Fails /\ watch' = FALSE /\ UNCHANGED <<disk, store, rows>>
  BY DEF Inv, Crash
<1>2. tasks' \in [Tasks -> TaskType] /\ \A u \in Tasks : ~InSync(u)'
  BY RestingTask DEF Crash, InSync
<1>3. PICK torn \in BOOLEAN : /\ manifest' = [manifest EXCEPT !.torn = torn]
                              /\ manifest.torn => torn
  <2>1. PICK more \in {FALSE} \cup {Scanned(t) /\ Gone(t) = {} : t \in Tasks} :
            manifest' = [manifest EXCEPT !.torn = @ \/ more]
    BY DEF Crash
  <2>2. PICK torn \in BOOLEAN : torn = (manifest.torn \/ more)
    OBVIOUS
  <2>3. manifest' = [manifest EXCEPT !.torn = torn]
    BY <2>1, <2>2
  <2>4. QED
    BY <2>2, <2>3
<1>4. /\ manifest'.files = manifest.files /\ manifest' \in [torn : BOOLEAN, files : Files]
      /\ manifest.torn => manifest'.torn
  BY <1>1, <1>3 DEF TypeOK
<1>5. PICK unsaved : unsaved = UNION {Unsaved(t) : t \in {u \in Tasks : InSync(u)}}
  OBVIOUS
<1>6. \A u \in Tasks, x \in Texts : InSync(u) /\ x \in Unsaved(u) => x \in unsaved
  BY <1>5
<1>7. unsaved \subseteq Texts
  <2>1. ASSUME NEW u \in Tasks, InSync(u) PROVE Unsaved(u) \subseteq Texts
    BY <2>1 DEF Inv, AtWork, Unsaved, Docs, Known, Whole
  <2>2. QED
    BY <1>5, <2>1
<1>8. PICK lost \in BOOLEAN, left \in SUBSET Texts : lost = TRUE /\ left = seen.left \cup unsaved
  BY <1>1, <1>7 DEF TypeOK, SeenType
<1>9. seen' = [seen EXCEPT !.lost = lost, !.left = left]
  BY <1>5, <1>8 DEF Crash
<1>10. /\ seen' \in SeenType /\ seen'.left = left
       /\ seen'.unread = seen.unread /\ SameHistory
  BY <1>1, <1>9 DEF TypeOK, SeenType, SameHistory
<1>11. used' \in [events : Nat, incidents : Nat]
  BY <1>1, CallCounts DEF TypeOK
<1>12. TypeOK'
  BY <1>1, <1>2, <1>4, <1>10, <1>11 DEF TypeOK
<1>13. ASSUME ~manifest'.torn, NEW x \in Texts, Has(x)
       PROVE  x \in left \/ \E p \in Paths : manifest.files[p] # NoEntry /\ manifest.files[p].doc = x
  <2>1. CASE NobodySyncs
    BY <1>4, <1>8, <1>13, <2>1 DEF Inv, Settles
  <2>2. CASE ~NobodySyncs
    <3>1. PICK u \in Tasks : InSync(u)
      BY <2>2 DEF NobodySyncs
    <3>2. Followed(u) /\ AtWork(u)
      BY <3>1 DEF Inv
    <3>3. CASE \E p \in Paths : tasks[u].new[p] # NoEntry /\ tasks[u].new[p].doc = x
      <4>1. x \in Unsaved(u) \/ \E p \in Paths : manifest.files[p] # NoEntry /\ manifest.files[p].doc = x
        BY <3>3 DEF Unsaved, Docs, Known
      <4>2. QED
        BY <1>6, <1>8, <3>1, <4>1
    <3>4. CASE \E p \in Gone(u) \ Dropped(u) : tasks[u].old[p].doc = x
      BY <3>2, <3>4 DEF AtWork, Gone, Known
    <3>5. CASE x \in seen.left
      BY <1>8, <3>5
    <3>6. QED
      BY <1>13, <3>2, <3>3, <3>4, <3>5 DEF Followed
  <2>3. QED
    BY <2>1, <2>2
<1>14. Settles' /\ Whole(manifest.files)'
  BY <1>1, <1>4, <1>10, <1>13 DEF Settles, Has, Whole, Inv
<1>15. Inv'
  BY <1>2, <1>12, <1>14 DEF Inv, Alone
<1>16. ASSUME Served PROVE Served'
  <2>0. Sure' = Sure /\ seen'.written = seen.written /\ (Written => Written')
    BY <1>1, <1>10, SameFiles
  <2>1. Written' /\ Told(manifest.files)' /\ Kept(manifest.files)'
    BY <1>1, <1>4, <1>10, <1>16, <2>0 DEF Served, Told, Kept
  <2>2. QED
    BY <1>2, <2>1 DEF Served
<1>17. QED
  BY <1>15, <1>16

-----------------------------------------------------------------------------
(* The steps together, and what the module promises.                       *)

\* What moves no sync and no document keeps both invariants.
LEMMA AsideKeeps ==
    ASSUME Inv, TypeOK' /\ Apart /\ Disturbs
    PROVE  Inv' /\ (Served => Served')
BY ApartKeeps, ApartServed

\* Every step of a task keeps both invariants.
LEMMA StepKeeps ==
    ASSUME Inv, NEW t \in Tasks, Step(t)
    PROVE  Inv' /\ (Served => Served')
<1>1. CASE Register(t)
  BY <1>1, RegisterAside, AsideKeeps
<1>2. CASE MarkProcessing(t)
  BY <1>2, MarkProcessingAside, AsideKeeps
<1>3. CASE EraseRow(t)
  BY <1>3, EraseRowAside, AsideKeeps
<1>4. CASE BeginSync(t)
  BY <1>4, BeginSyncKeeps
<1>5. CASE MarkError(t)
  BY <1>5, MarkErrorAside, AsideKeeps
<1>6. CASE HashFile(t)
  BY <1>6, HashFileKeeps
<1>7. CASE DropOld(t)
  BY <1>7, DropOldKeeps
<1>8. CASE IngestFile(t)
  BY <1>8, IngestFileKeeps
<1>9. CASE RemoveGone(t)
  BY <1>9, RemoveGoneKeeps
<1>10. CASE SaveManifest(t)
  BY <1>10, SaveManifestKeeps
<1>11. CASE ReadManifest(t)
  BY <1>11, ReadManifestAside, AsideKeeps
<1>12. CASE UpsertRow(t)
  BY <1>12, UpsertRowAside, AsideKeeps
<1>13. CASE Prune(t)
  BY <1>13, PruneAside, AsideKeeps
<1>14. QED
  BY <1>1, <1>2, <1>3, <1>4, <1>5, <1>6, <1>7, <1>8, <1>9, <1>10, <1>11, <1>12, <1>13 DEF Step

\* Every step, of a task, a user, the watcher or a crash, keeps both invariants.
LEMMA NextKeeps ==
    ASSUME Inv, Next
    PROVE  Inv' /\ (Served => Served')
<1>1. CASE \E p \in Paths, c \in Contents \cup {NoContent} : Change(p, c)
  <2>1. PICK p \in Paths, c \in Hashes : Change(p, c)
    BY <1>1 DEF Hashes
  <2>2. QED
    BY <2>1, ChangeAside, AsideKeeps
<1>2. ASSUME NEW t \in Tasks, Step(t)
      PROVE  Inv' /\ (Served => Served')
  BY <1>2, StepKeeps
<1>3. ASSUME NEW t \in Tasks, StartWatch(t)
      PROVE  Inv' /\ (Served => Served')
  BY <1>3, StartWatchAside, AsideKeeps
<1>4. ASSUME NEW t \in Tasks, NEW kind \in {"manual", "tool"}, StartSync(t, kind)
      PROVE  Inv' /\ (Served => Served')
  BY <1>4, StartSyncAside, AsideKeeps
<1>5. ASSUME NEW t \in Tasks, NEW p \in Paths, StartDelete(t, p)
      PROVE  Inv' /\ (Served => Served')
  BY <1>5, StartDeleteAside, AsideKeeps
<1>6. ASSUME NEW t \in Tasks, NEW p \in Paths, NEW c \in Contents, StartUpload(t, p, c)
      PROVE  Inv' /\ (Served => Served')
  BY <1>6, StartUploadAside, AsideKeeps
<1>7. CASE Unwatch
  BY <1>7, UnwatchAside, AsideKeeps
<1>8. CASE Crash
  BY <1>8, CrashKeeps
<1>9. QED
  BY <1>1, <1>2, <1>3, <1>4, <1>5, <1>6, <1>7, <1>8 DEF Next

\* A step that changes nothing keeps both invariants.
LEMMA StutterKeeps ==
    ASSUME Inv, UNCHANGED vars
    PROVE  Inv' /\ (Served => Served')
<1>1. TypeOK' /\ Apart /\ Disturbs
  BY DEF Inv, TypeOK, vars, Apart, Aside, SameSync, Disturbs, SameHistory
<1>2. QED
  BY <1>1, AsideKeeps

\* The files there are at first, each with its entry.
LEMMA InitFiles ==
    ASSUME Init
    PROVE  /\ disk \in [Paths -> Hashes] /\ manifest \in [torn : BOOLEAN, files : Files]
           /\ \A p \in Paths : manifest.files[p] = IF p \in Present THEN Entry(disk[p], Text[disk[p]])
                                                                    ELSE NoEntry
           /\ \A p \in Present : disk[p] \in Contents
<1>1. disk \in [Paths -> Hashes]
  BY KnowledgeAssumption DEF Init, Hashes
<1>2. \A p \in Present : p \in Paths /\ disk[p] \in Contents /\ Text[disk[p]] \in Texts
  BY <1>1, Nothing DEF Present, Hashes
<1>3. PICK files : files = [p \in Paths |-> IF p \in Present THEN Entry(disk[p], Text[disk[p]])
                                                             ELSE NoEntry]
  OBVIOUS
<1>4. files \in Files
  <2>1. \A p \in Paths : files[p] \in EntryType
    BY <1>2, <1>3, Entries, Nothing
  <2>2. QED
    BY <1>3, <2>1 DEF Files
<1>5. manifest = [torn |-> FALSE, files |-> files]
  BY <1>3 DEF Init
<1>6. QED
  BY <1>1, <1>2, <1>3, <1>4, <1>5

\* A knowledge base at rest has the types, and everything ingested is listed.
LEMMA InitInv ==
    ASSUME Init
    PROVE  Inv
<1>1. /\ disk \in [Paths -> Hashes] /\ manifest \in [torn : BOOLEAN, files : Files]
      /\ \A p \in Paths : manifest.files[p] = IF p \in Present THEN Entry(disk[p], Text[disk[p]])
                                                               ELSE NoEntry
      /\ \A p \in Present : disk[p] \in Contents /\ Text[disk[p]] \in Texts
  BY InitFiles, Nothing
<1>2. Whole(manifest.files)
  BY <1>1, Entries DEF Whole
<1>3. store \in [Texts -> {"absent", "partial", "served"}]
  BY DEF Init
<1>4. rows \in [Paths -> RowType]
  <2>1. ASSUME NEW p \in Paths PROVE rows[p] \in RowType
    <3>1. CASE p \in Present
      BY <1>1, <3>1 DEF Init, RowType
    <3>2. CASE p \notin Present
      BY <3>2 DEF Init, RowType, NoRow
    <3>3. QED
      BY <3>1, <3>2
  <2>2. QED
    BY <2>1 DEF Init
<1>5. tasks \in [Tasks -> TaskType] /\ \A t \in Tasks : tasks[t].pc = "idle"
  BY RestingTask DEF Init
<1>6. used \in [events : Nat, incidents : Nat] /\ watch \in BOOLEAN
  BY DEF Init
<1>7. seen \in SeenType /\ seen.left = {}
  <2>1. PICK w : w = {<<p, disk[p]>> : p \in Present}
    OBVIOUS
  <2>2. w \in SUBSET (Paths \X Contents)
    BY <1>1, <2>1 DEF Present
  <2>3. seen = [written |-> w, back |-> {}, unread |-> {}, left |-> {}, lost |-> FALSE]
    BY <2>1 DEF Init
  <2>4. QED
    BY <2>2, <2>3 DEF SeenType
<1>8. TypeOK
  BY <1>1, <1>3, <1>4, <1>5, <1>6, <1>7 DEF TypeOK
<1>9. \A t \in Tasks : ~InSync(t)
  BY <1>5 DEF InSync
<1>10. Settles
  <2>1. ASSUME NEW x \in Texts, Has(x)
        PROVE  \E p \in Paths : manifest.files[p] # NoEntry /\ manifest.files[p].doc = x
    <3>1. x \in Docs(manifest.files)
      BY <2>1 DEF Has, Init
    <3>2. QED
      BY <3>1 DEF Docs, Known
  <2>2. QED
    BY <2>1 DEF Settles
<1>11. QED
  BY <1>2, <1>8, <1>9, <1>10 DEF Inv, Alone

\* The files there are at first are served.
LEMMA InitServed ==
    ASSUME Init
    PROVE  Served
<1>1. /\ disk \in [Paths -> Hashes]
      /\ \A p \in Paths : manifest.files[p] = IF p \in Present THEN Entry(disk[p], Text[disk[p]])
                                                               ELSE NoEntry
      /\ \A p \in Present : disk[p] \in Contents /\ Text[disk[p]] \in Texts
  BY InitFiles, Nothing
<1>2. \A p \in Present : /\ manifest.files[p] # NoEntry /\ manifest.files[p].hash = disk[p]
                         /\ manifest.files[p].doc = Text[disk[p]]
  BY <1>1, Entries DEF Present
<1>3. seen.written = {<<p, disk[p]>> : p \in Present}
  BY DEF Init
<1>4. \A p \in Present : <<p, disk[p]>> \in seen.written
  BY <1>3
<1>6. Written
  BY <1>4 DEF Written
<1>7. Told(manifest.files)
  BY <1>1, <1>2, <1>4 DEF Told
<1>8. Kept(manifest.files)
  <2>1. ASSUME NEW p \in Present PROVE store[Text[disk[p]]] = "served"
    <3>1. Text[disk[p]] \in Docs(manifest.files)
      BY <1>2, <2>1 DEF Docs, Known, Present
    <3>2. QED
      BY <1>1, <2>1, <3>1 DEF Init
  <2>2. QED
    BY <2>1 DEF Kept, Sure
<1>9. \A t \in Tasks : ~InSync(t)
  BY DEF Init, InSync, Resting
<1>10. QED
  BY <1>6, <1>7, <1>8, <1>9 DEF Served

\* For any number of files, tasks, crashes and failures: the variables have their types, one
\* sync is at work at a time, and between them the new manifest, the files that are gone and
\* the file it is at account for every document of the store.
THEOREM KnowledgeInvariant == Spec => []Inv
<1>1. Inv /\ [Next]_vars => Inv'
  BY NextKeeps, StutterKeeps
<1>2. QED
  BY <1>1, InitInv, PTL DEF Spec

\* No document stays in recall for good: while no sync is at work, each is in the manifest,
\* from where a later sync can remove it, but for those whose update, ingestion or save went
\* wrong half-way (manager.rs:873-874).
THEOREM DocumentsAreAccountedFor == Spec => []NothingStaysBehind
<1>1. Inv => NothingStaysBehind
  BY DEF Inv, NothingStaysBehind, Settles, Docs, Known
<1>2. QED
  BY <1>1, KnowledgeInvariant, PTL

\* What the manifest says is ingested of a file is served, whatever fails and however syncs,
\* changes of files and crashes fall (manager.rs:963-966), for every file that could be read
\* and has for the first time a content whose text no other file had: Novel says so of the
\* file as it is, whatever came back, was copied or moved elsewhere and before.
THEOREM WhatIsSyncedIsServed == Spec => []SyncedIsServed
<1>1. Init => Inv /\ Served
  BY InitInv, InitServed
<1>2. (Inv /\ Served) /\ [Next]_vars => (Inv /\ Served)'
  BY NextKeeps, StutterKeeps
<1>3. Inv /\ Served => SyncedIsServed
  <2>1. SUFFICES ASSUME Inv, Served, NEW p \in Present \ seen.unread, Novel(p),
                        manifest.files[p].hash = disk[p]
                 PROVE  /\ manifest.files[p].doc = Text[disk[p]]
                        /\ store[Text[disk[p]]] = "served"
    BY DEF SyncedIsServed
  <2>2. p \in Paths /\ p \in Sure /\ manifest.files[p] # NoEntry
    BY <2>1, Nothing DEF Present, Sure
  <2>3. QED
    BY <2>1, <2>2 DEF Served, Told, Kept
<1>4. QED
  BY <1>1, <1>2, <1>3, PTL DEF Spec

=============================================================================
