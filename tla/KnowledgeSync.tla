---------------------------- MODULE KnowledgeSync ----------------------------
(***************************************************************************)
(* The documents of one knowledge base of a user: the files under docs/,   *)
(* the manifest of their hashes (peco-core/src/knowledge/manager.rs,       *)
(* hash_manifest.rs), the documents ingested from them (knowledge-base/    *)
(* src/manager/knowledge_base.rs, engine/ingestion.rs) and the rows the    *)
(* user is shown (peco-server/src/knowledge/handler.rs, reconcile.rs,      *)
(* db/documents.rs).                                                       *)
(*                                                                         *)
(* Files change at any time.  Uploads, the file watcher of a user who is   *)
(* connected, the user and an agent's tool start syncs, which wait for     *)
(* each other; the projection into rows that follows a sync waits for      *)
(* nobody.  Each call to the file system, the knowledge base or the        *)
(* database is a step and may fail.                                        *)
(*                                                                         *)
(* Data: a hash is the content it is of; the id of a document is the text  *)
(* parsed from the content, which other contents may share.                *)
(***************************************************************************)
EXTENDS Naturals, FiniteSets

CONSTANTS
    Paths,          \* the names of files under docs/
    Contents,       \* what a file may hold
    Texts,          \* what may be parsed from it
    Text,           \* the text of each content (text_doc_id of what the parser returns)
    AtFirst,        \* the files there may be at first
    NoContent,      \* no such file
    NoText,         \* no document
    Tasks,          \* requests, background tasks and rounds of the watcher at a time
    MaxEvents,      \* bound on changes of files, uploads, deletions, syncs somebody asks
                    \* for, incidents (calls that fail, crashes, stops of the watcher), and
                    \* tasks that are started while another one is at work
    MaxIncidents    \* bound on the incidents among them

ASSUME KnowledgeAssumption ==
    /\ Text \in [Contents -> Texts]
    /\ NoContent \notin Contents /\ NoText \notin Texts
    /\ AtFirst \subseteq [Paths -> Contents \cup {NoContent}]
    /\ {MaxEvents, MaxIncidents} \subseteq Nat

VARIABLES
    disk,       \* the content of each file
    manifest,   \* file_hashes.json: the entry of each path; or torn
    store,      \* what the knowledge base has of each text: "absent", "partial" (the
                \* document, but not all of its chunks, vectors and index), "served"
    rows,       \* the documents table, by relative_path
    tasks,      \* per task: where it is and what it works on
    watch,      \* the watcher has a KnowledgeSync pending
    used,       \* how much of the bounds is used up
    seen        \* history: written  every content a path ever had
                \*          back     the contents a path was given once more
                \*          unread   files that were there and could not be read
                \*          left     documents an incident cut loose from the manifest
                \*          lost     a write to rows that was given up

vars == <<disk, manifest, store, rows, tasks, watch, used, seen>>

NoEntry == [hash |-> NoContent, doc |-> NoText]
NoRow == [status |-> "none", doc |-> NoText]
NoFiles == [p \in Paths |-> NoEntry]

Entry(c, text) == [hash |-> c, doc |-> text]

Known(files) == {p \in Paths : files[p] # NoEntry}
Docs(files) == {files[p].doc : p \in Known(files)}
Present == {p \in Paths : disk[p] # NoContent}

\* row: the row whose id the task holds is still there.
Nowhere == CHOOSE p \in Paths : TRUE

Resting == [pc |-> "idle", kind |-> "none", path |-> Nowhere, row |-> FALSE,
            old |-> NoFiles, new |-> NoFiles, todo |-> {}, at |-> Nowhere, hash |-> NoContent,
            errors |-> {}]

\* A knowledge base at rest, whose files are all ingested and listed.
Init ==
    /\ disk \in AtFirst
    /\ manifest = [torn |-> FALSE,
                   files |-> [p \in Paths |-> IF p \in Present THEN Entry(disk[p], Text[disk[p]])
                                                               ELSE NoEntry]]
    /\ store = [x \in Texts |-> IF x \in Docs(manifest.files) THEN "served" ELSE "absent"]
    /\ rows = [p \in Paths |-> IF p \in Present THEN [status |-> "ready", doc |-> Text[disk[p]]]
                                                ELSE NoRow]
    /\ tasks = [t \in Tasks |-> Resting]
    /\ watch = FALSE
    /\ used = [events |-> 0, incidents |-> 0]
    /\ seen = [written |-> {<<p, disk[p]>> : p \in Present}, back |-> {}, unread |-> {},
               left |-> {}, lost |-> FALSE]

At(t, pc) == tasks[t].pc = pc

\* Tasks are alike: the first that is free is taken.
Free(t) == At(t, "idle") /\ t = CHOOSE u \in Tasks : At(u, "idle")

Go(t, pc) == tasks' = [tasks EXCEPT ![t].pc = pc]

Ends(t) == tasks' = [tasks EXCEPT ![t] = Resting]

Happens(incident) ==
    /\ used.events < MaxEvents
    /\ incident => used.incidents < MaxIncidents
    /\ used' = [events |-> used.events + 1,
                incidents |-> used.incidents + IF incident THEN 1 ELSE 0]

\* A task is started, by an event or not; beside another one, that is an event as well.
Starts(event) ==
    LET busy == \E t \in Tasks : ~At(t, "idle")
        count == used.events + (IF event THEN 1 ELSE 0) + (IF busy THEN 1 ELSE 0)
    IN  count <= MaxEvents /\ used' = [used EXCEPT !.events = count]

\* A call goes wrong.
Fails == Happens(TRUE)

Works == UNCHANGED used

\* What is not in the manifest that is saved is not in any once an incident ends a sync.
Loosened(texts) == seen' = [seen EXCEPT !.left = @ \cup texts]

GivesUp == seen' = [seen EXCEPT !.lost = TRUE]

-----------------------------------------------------------------------------
(* Files.                                                                  *)

\* The path p has had, or has once more, the content c.
Writes(p, c) ==
    LET put == {<<p, c>>} \cap (Paths \X Contents)
    IN  seen' = [seen EXCEPT !.written = @ \cup put, !.back = @ \cup (put \cap seen.written)]

\* Faulty: what changes while the watcher is at work is not seen.
PutsUnseen(p, c) ==
    /\ disk[p] # c
    /\ disk' = [disk EXCEPT ![p] = c]
    /\ watch' = (watch \/ \A t \in Tasks : tasks[t].kind # "watcher")
    /\ Writes(p, c)

\* A file is written or removed; the watcher is told (classify_event).
Puts(p, c) ==
    /\ disk[p] # c
    /\ disk' = [disk EXCEPT ![p] = c]
    /\ watch' = TRUE
    /\ Writes(p, c)

\* Somebody writes or removes a file.
Change(p, c) ==
    /\ Happens(FALSE) /\ Puts(p, c)
    /\ UNCHANGED <<manifest, store, rows, tasks>>

-----------------------------------------------------------------------------
(* Uploads and deletions: handler.rs.                                      *)

\* upload_document saves the file.
StartUpload(t, p, c) ==
    /\ Free(t) /\ c # NoContent
    /\ Starts(TRUE) /\ Puts(p, c)
    /\ tasks' = [tasks EXCEPT ![t] = [Resting EXCEPT !.pc = "register", !.kind = "upload",
                                                     !.path = p]]
    /\ UNCHANGED <<manifest, store, rows>>

\* upsert_pending; the answer is an error if it fails.
Register(t) ==
    /\ At(t, "register")
    /\ \/ /\ Works
          /\ rows' = [rows EXCEPT ![tasks[t].path].status = "pending"]
          /\ tasks' = [tasks EXCEPT ![t].pc = "mark", ![t].row = TRUE]
       \/ Fails /\ Ends(t) /\ UNCHANGED rows
    /\ UNCHANGED <<disk, manifest, store, watch, seen>>

\* update_status on the row of an upload, by its id.
SetsStatus(t, status) ==
    rows' = IF tasks[t].row THEN [rows EXCEPT ![tasks[t].path].status = status] ELSE rows

MarkProcessing(t) ==
    /\ At(t, "mark")
    /\ \/ Works /\ SetsStatus(t, "processing")
       \/ Fails /\ UNCHANGED rows
    /\ Go(t, "lock")
    /\ UNCHANGED <<disk, manifest, store, watch, seen>>

\* delete_document of a row somebody was shown removes the file, if there is one, ...
StartDelete(t, p) ==
    /\ Free(t) /\ rows[p] # NoRow
    /\ \/ Starts(TRUE) /\ Puts(p, NoContent)
       \/ disk[p] = NoContent /\ Starts(TRUE) /\ UNCHANGED <<disk, watch, seen>>
       \/ disk[p] # NoContent /\ Fails /\ UNCHANGED <<disk, watch, seen>>
    /\ tasks' = [tasks EXCEPT ![t] = [Resting EXCEPT !.pc = "erase", !.kind = "delete",
                                                     !.path = p, !.row = TRUE]]
    /\ UNCHANGED <<manifest, store, rows>>

\* What becomes of the tasks when rows are deleted, and with them their ids.
WithoutRows(all, P) ==
    [u \in Tasks |-> [all[u] EXCEPT !.row = @ /\ all[u].path \notin P]]

\* ... and then the row; what is ingested is left to the next sync.
EraseRow(t) ==
    /\ At(t, "erase")
    /\ LET P == IF tasks[t].row THEN {tasks[t].path} ELSE {}
           ended == [tasks EXCEPT ![t] = Resting]
       IN  \/ /\ Works
              /\ rows' = [p \in Paths |-> IF p \in P THEN NoRow ELSE rows[p]]
              /\ tasks' = WithoutRows(ended, P)
           \/ Fails /\ tasks' = ended /\ UNCHANGED rows
    /\ UNCHANGED <<disk, manifest, store, watch, seen>>

-----------------------------------------------------------------------------
(* The knowledge base: engine/ingestion.rs.                                *)

Has(text) == store[text] # "absent"

\* remove_document; a deletion that fails may have taken some of the chunks.
Removes(text) == store' = [store EXCEPT ![text] = "absent"]

FailsToRemove(text) ==
    \E left \in {store[text]} \cup (IF Has(text) THEN {"partial"} ELSE {}) :
        store' = [store EXCEPT ![text] = left]

\* add_file: a document of the same id is deleted first.
Ingests(text) == store' = [store EXCEPT ![text] = "served"]

\* It fails before anything is written, on the way or right after that deletion.
FailsToIngest(text) ==
    \E left \in {store[text], "partial"} \cup {"absent"} : store' = [store EXCEPT ![text] = left]

-----------------------------------------------------------------------------
(* One sync: sync_kb_impl.                                                 *)

\* A manual sync, or one of an agent's tool, which shows no rows.
StartSync(t, kind) ==
    /\ Free(t) /\ Starts(TRUE)
    /\ tasks' = [tasks EXCEPT ![t] = [Resting EXCEPT !.pc = "lock", !.kind = kind]]
    /\ UNCHANGED <<disk, manifest, store, rows, watch, seen>>

\* The watcher takes the mark off before it syncs, so what changes from then on is
\* seen; it does one thing at a time.
StartWatch(t) ==
    /\ Free(t) /\ watch /\ Starts(FALSE)
    /\ \A u \in Tasks : tasks[u].kind # "watcher"
    /\ watch' = FALSE
    /\ tasks' = [tasks EXCEPT ![t] = [Resting EXCEPT !.pc = "lock", !.kind = "watcher"]]
    /\ UNCHANGED <<disk, manifest, store, rows, seen>>

InSync(t) == tasks[t].pc \in {"file", "drop", "ingest"}

\* A sync ends with an error: only an upload is told, on its row.
SyncFails(t) ==
    tasks' = [tasks EXCEPT ![t] =
                IF @.kind # "upload" THEN Resting
                ELSE [Resting EXCEPT !.pc = "fail", !.kind = "upload", !.path = tasks[t].path,
                                     !.row = tasks[t].row]]

MarkError(t) ==
    /\ At(t, "fail")
    /\ \/ Works /\ SetsStatus(t, "error") /\ UNCHANGED seen
       \/ Fails /\ GivesUp /\ UNCHANGED rows
    /\ Ends(t)
    /\ UNCHANGED <<disk, manifest, store, watch>>

\* The lock of the knowledge base, then the manifest and the files there are.
BeginSync(t) ==
    /\ At(t, "lock") /\ \A u \in Tasks : ~InSync(u)
    /\ \/ /\ Works /\ ~manifest.torn
          /\ tasks' = [tasks EXCEPT ![t].pc = "file", ![t].old = manifest.files,
                                    ![t].new = NoFiles, ![t].todo = Present]
       \/ ((manifest.torn /\ Works) \/ Fails) /\ SyncFails(t)
    /\ UNCHANGED <<disk, manifest, store, rows, watch, seen>>

\* process_one_file hashes the file and compares.
HashFile(t) ==
    /\ At(t, "file")
    /\ \E p \in tasks[t].todo :
          LET c == disk[p]
              before == tasks[t].old[p]
              known == before # NoEntry
          IN  \/ /\ c # NoContent /\ known /\ before.hash = c
                 /\ tasks' = [tasks EXCEPT ![t].new[p] = before, ![t].todo = @ \ {p}]
                 /\ Works /\ UNCHANGED seen
              \/ /\ c # NoContent /\ before.hash # c
                 /\ tasks' = [tasks EXCEPT ![t].pc = IF known THEN "drop" ELSE "ingest",
                                           ![t].at = p, ![t].hash = c]
                 /\ Works /\ UNCHANGED seen
              \/ /\ tasks' = [tasks EXCEPT ![t].todo = @ \ {p}, ![t].errors = @ \cup {p}]
                 /\ \/ c = NoContent /\ Works /\ UNCHANGED seen
                    \/ c # NoContent /\ Fails /\ seen' = [seen EXCEPT !.unread = @ \cup {p}]
    /\ UNCHANGED <<disk, manifest, store, rows, watch>>

\* A file that changed: what was ingested of it goes; a failure is only logged.
DropOld(t) ==
    /\ At(t, "drop")
    /\ LET doc == tasks[t].old[tasks[t].at].doc
       IN  \/ Works /\ Removes(doc) /\ UNCHANGED seen
           \/ Fails /\ FailsToRemove(doc) /\ Loosened({doc})
    /\ Go(t, "ingest")
    /\ UNCHANGED <<disk, manifest, rows, watch>>

NextFile(task) ==
    [task EXCEPT !.pc = "file", !.todo = @ \ {task.at}, !.at = Nowhere, !.hash = NoContent]

\* The file is read again; the entry has the hash that was computed before.
Ingested(t, text) ==
    LET task == tasks[t]
    IN  tasks' = [tasks EXCEPT ![t] =
                    [NextFile(task) EXCEPT !.new[task.at] = Entry(task.hash, text)]]

NotIngested(t) ==
    LET task == tasks[t]
    IN  tasks' = [tasks EXCEPT ![t] = [NextFile(task) EXCEPT !.errors = @ \cup {task.at}]]

\* Faulty: the file has its entry before it is ingested.
IngestTooSure(t) ==
    /\ At(t, "ingest")
    /\ LET c == disk[tasks[t].at]
       IN  \/ c = NoContent /\ NotIngested(t) /\ Works /\ UNCHANGED <<store, seen>>
           \/ /\ c # NoContent /\ Ingested(t, Text[c])
              /\ \/ Works /\ Ingests(Text[c]) /\ UNCHANGED seen
                 \/ Fails /\ FailsToIngest(Text[c]) /\ Loosened({Text[c]})
    /\ UNCHANGED <<disk, manifest, rows, watch>>

IngestFile(t) ==
    /\ At(t, "ingest")
    /\ LET c == disk[tasks[t].at]
       IN  \/ c = NoContent /\ NotIngested(t) /\ Works /\ UNCHANGED <<store, seen>>
           \/ /\ c # NoContent
              /\ \/ Ingested(t, Text[c]) /\ Works /\ Ingests(Text[c]) /\ UNCHANGED seen
                 \/ NotIngested(t) /\ Fails /\ FailsToIngest(Text[c]) /\ Loosened({Text[c]})
    /\ UNCHANGED <<disk, manifest, rows, watch>>

\* Paths of the manifest that no file was found, read and ingested for.
Gone(t) == Known(tasks[t].old) \ Known(tasks[t].new)

Scanned(t) == At(t, "file") /\ tasks[t].todo = {}

\* Faulty: a failed removal is only logged.
RemoveGoneOnce(t) ==
    /\ Scanned(t)
    /\ \E p \in Gone(t) :
          LET doc == tasks[t].old[p].doc
          IN  \/ Works /\ Removes(doc)
              \/ Fails /\ FailsToRemove(doc)
       /\ tasks' = [tasks EXCEPT ![t].old[p] = NoEntry]
    /\ UNCHANGED <<disk, manifest, rows, watch, seen>>

\* Their documents are removed; an entry is kept if that fails, for the next sync.
RemoveGone(t) ==
    /\ Scanned(t)
    /\ \E p \in Gone(t) :
          LET entry == tasks[t].old[p]
          IN  \/ /\ Works /\ Removes(entry.doc)
                 /\ tasks' = [tasks EXCEPT ![t].old[p] = NoEntry]
              \/ /\ Fails /\ FailsToRemove(entry.doc)
                 /\ tasks' = [tasks EXCEPT ![t].new[p] = entry, ![t].errors = @ \cup {p}]
    /\ UNCHANGED <<disk, manifest, rows, watch, seen>>

\* What this sync has ingested and the manifest does not know of.
Unsaved(t) == Docs(tasks[t].new) \ Docs(manifest.files)

\* The new manifest is written over the old one, not beside it.
SaveManifest(t) ==
    /\ Scanned(t) /\ Gone(t) = {}
    /\ \/ /\ Works
          /\ manifest' = [torn |-> FALSE, files |-> tasks[t].new]
          /\ tasks' = [tasks EXCEPT ![t] =
                       IF @.kind = "tool" THEN Resting
                       ELSE [Resting EXCEPT !.pc = "read", !.kind = tasks[t].kind,
                                 !.path = tasks[t].path, !.row = tasks[t].row,
                                 !.errors = tasks[t].errors]]
          /\ UNCHANGED seen
       \/ /\ Fails
          /\ \E torn \in BOOLEAN : manifest' = [manifest EXCEPT !.torn = torn]
          /\ SyncFails(t)
          /\ Loosened(Unsaved(t))
    /\ UNCHANGED <<disk, store, rows, watch>>

-----------------------------------------------------------------------------
(* The projection into rows: reconcile_documents.  The lock is not held.   *)

\* old is from here on the manifest that was read.
ReadManifest(t) ==
    /\ At(t, "read")
    /\ \/ /\ Works /\ ~manifest.torn
          /\ tasks' = [tasks EXCEPT ![t].pc = "rows", ![t].old = manifest.files,
                          ![t].todo = Known(manifest.files) \cup tasks[t].errors]
          /\ UNCHANGED seen
       \/ ((manifest.torn /\ Works) \/ Fails) /\ Ends(t) /\ GivesUp
    /\ UNCHANGED <<disk, manifest, store, rows, watch>>

\* upsert_synced and upsert_error.
RowOf(entry) ==
    IF entry = NoEntry THEN [status |-> "error", doc |-> NoText]
                       ELSE [status |-> "ready", doc |-> entry.doc]

UpsertRow(t) ==
    /\ At(t, "rows")
    /\ \E p \in tasks[t].todo :
          \/ /\ Works
             /\ rows' = [rows EXCEPT ![p] = RowOf(tasks[t].old[p])]
             /\ tasks' = [tasks EXCEPT ![t].todo = @ \ {p}]
             /\ UNCHANGED seen
          \/ Fails /\ Ends(t) /\ GivesUp /\ UNCHANGED rows
    /\ UNCHANGED <<disk, manifest, store, watch>>

\* delete_synced_missing.
Prune(t) ==
    /\ At(t, "rows") /\ tasks[t].todo = {}
    /\ LET keep == Known(tasks[t].old) \cup tasks[t].errors
           ended == [tasks EXCEPT ![t] = Resting]
       IN  \/ /\ Works
              /\ rows' = [p \in Paths |-> IF p \in keep THEN rows[p] ELSE NoRow]
              /\ tasks' = WithoutRows(ended, Paths \ keep)
              /\ UNCHANGED seen
           \/ Fails /\ tasks' = ended /\ GivesUp /\ UNCHANGED rows
    /\ UNCHANGED <<disk, manifest, store, watch>>

-----------------------------------------------------------------------------

\* The end of the process: it comes back without tasks and pending changes.
Crash ==
    /\ Fails
    /\ tasks' = [t \in Tasks |-> Resting]
    /\ watch' = FALSE
    /\ \E torn \in {FALSE} \cup {Scanned(t) /\ Gone(t) = {} : t \in Tasks} :
          manifest' = [manifest EXCEPT !.torn = @ \/ torn]
    /\ seen' = [seen EXCEPT !.lost = TRUE,
                            !.left = @ \cup UNION {Unsaved(t) : t \in {u \in Tasks : InSync(u)}}]
    /\ UNCHANGED <<disk, store, rows>>

\* The last connection of the user closes: the watcher stops, and forgets what it has
\* pending, until there is another one (release_watcher, acquire_watcher).
Unwatch ==
    /\ Fails
    /\ watch /\ watch' = FALSE
    /\ UNCHANGED <<disk, manifest, store, rows, tasks, seen>>

\* What a task does once it is started.
Step(t) ==
    \/ Register(t) \/ MarkProcessing(t) \/ EraseRow(t)
    \/ BeginSync(t) \/ MarkError(t)
    \/ HashFile(t) \/ DropOld(t) \/ IngestFile(t) \/ RemoveGone(t) \/ SaveManifest(t)
    \/ ReadManifest(t) \/ UpsertRow(t) \/ Prune(t)

Next ==
    \/ \E p \in Paths, c \in Contents \cup {NoContent} : Change(p, c)
    \/ \E t \in Tasks :
          \/ Step(t)
          \/ StartWatch(t)
          \/ \E kind \in {"manual", "tool"} : StartSync(t, kind)
          \/ \E p \in Paths : StartDelete(t, p) \/ \E c \in Contents : StartUpload(t, p, c)
    \/ Unwatch
    \/ Crash

\* As long as a task that was started has something to do, or the watcher, something is
\* done.  No task goes on for ever, so that this is all they need to come round.
Fairness == WF_vars(\E t \in Tasks : Step(t) \/ StartWatch(t))

Spec == Init /\ [][Next]_vars /\ Fairness

-----------------------------------------------------------------------------
(* Properties.                                                             *)

NobodySyncs == \A t \in Tasks : ~InSync(t)

\* The content of p is one it has for the first time, of a text no other path had.
Novel(p) ==
    /\ <<p, disk[p]>> \notin seen.back
    /\ \A w \in seen.written : w[1] # p => Text[w[2]] # Text[disk[p]]

\* What the manifest says is ingested of a file is served: the next sync skips the
\* file, so nothing else would ever bring it back (manager.rs:963-966).  It does not
\* hold of a file that could not be read once, whose text was in another file too, or
\* that was changed back: the hash may be of the one content and the text of the other,
\* or the document gone in a sync whose manifest was not saved.
SyncedIsServed ==
    NobodySyncs /\ ~manifest.torn =>
        \A p \in Present \ seen.unread :
            Novel(p) /\ manifest.files[p].hash = disk[p] =>
                /\ manifest.files[p].doc = Text[disk[p]]
                /\ store[Text[disk[p]]] = "served"

\* No document stays in recall for good (manager.rs:873-874): each is in the manifest,
\* from where a later sync can remove it, but for those whose update, ingestion or
\* save went wrong half-way.
NothingStaysBehind ==
    NobodySyncs /\ ~manifest.torn =>
        \A x \in Texts : Has(x) => x \in Docs(manifest.files) \cup seen.left

\* The manifest has every file as it is; of one that is novel the text it has is
\* served; and no text is served of which there is no file, unless one was changed back.
Mirrored ==
    /\ \A p \in Paths : manifest.files[p].hash = disk[p]
    /\ \A p \in Present : Novel(p) =>
          manifest.files[p].doc = Text[disk[p]] /\ store[Text[disk[p]]] = "served"
    /\ seen.back = {} => \A x \in Texts : Has(x) => \E p \in Present : Text[disk[p]] = x

Settled == \A p \in Paths : rows[p].status \notin {"pending", "processing"}

\* Where nothing fails and the user stays connected, the watcher makes the knowledge
\* base what the files are, however their changes fall into syncs; and whatever fails,
\* an upload is told how it ended, unless that very write was lost (handler.rs:579).
ChangesArrive ==
    <>[](/\ used.incidents = 0 => Mirrored
         /\ Settled \/ seen.lost)

\* handler.rs:667, the rows agree with the knowledge base: what is listed as ready is
\* served, once every change was synced.
ReadyIsServed ==
    ~watch /\ (\A t \in Tasks : At(t, "idle")) =>
        \A p \in Paths : rows[p].status = "ready" => store[rows[p].doc] = "served"

=============================================================================
