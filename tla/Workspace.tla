----------------------------- MODULE Workspace -----------------------------
(***************************************************************************)
(* The content of one project (backend/src/workspace): its documents, its  *)
(* directories and its entry file, the transactions of the requests that   *)
(* change them, the readers that copy or archive the project, and a        *)
(* browser that follows the project over the control stream.               *)
(*                                                                         *)
(* A request's transaction has two steps, Begin (the row lock on the       *)
(* project, the checks, the statements, which draw their change sequence   *)
(* numbers) and Commit, and its handler announces the change afterwards.   *)
(* Incremental changes hold the project's row FOR KEY SHARE, which they    *)
(* share with each other; the others hold it FOR UPDATE, alone.  A         *)
(* snapshot holds it FOR SHARE, which an incremental change meets only     *)
(* when it advances the workspace version, just before it commits.         *)
(* Assets and the objects behind them are in module AssetStore.            *)
(***************************************************************************)
EXTENDS Naturals, FiniteSets, Sequences, SequencesExt

CONSTANTS
  Paths,       \* paths of the project, each a sequence of names
  TextPaths,   \* the paths is_document_text_path takes for text
  EntryPaths,  \* the paths ProjectType::accepts_entry_file_path accepts
  Starters,    \* the sets of documents a project may be created with
  Handlers,    \* requests that may be in flight at once
  Parties,     \* who takes part beside them: a reader of snapshots, a browser
  None,
  Buffer,      \* capacity of the control room's broadcast channel
  MaxChanges,  \* bound on change sequence numbers
  MaxVersion,  \* bound on workspace versions
  MaxRestarts  \* bound on restarts of the process

ASSUME PathAssumption ==
  /\ IsFiniteSet(Paths) /\ TextPaths \subseteq Paths
  /\ EntryPaths \subseteq TextPaths
  /\ \A content \in Starters :
       content \subseteq Paths /\ content \cap EntryPaths # {}
  /\ None \notin Paths \cup Nat

ASSUME BoundAssumption ==
  /\ Parties \subseteq {"reader", "browser"}
  /\ {Buffer, MaxChanges, MaxVersion, MaxRestarts} \subseteq Nat

VARIABLES
  documents,   \* committed rows of documents, by path
  directories, \* committed rows of project_directories
  entry,       \* project_settings.entry_file_path
  project,     \* the row of projects: workspace version and content epoch
  counters,    \* documents_change_sequence_seq, identities drawn, restarts
  handlers,    \* the request each handler serves
  snapshot,    \* one reader of a consistent snapshot
  client       \* one browser with its control stream

vars == <<documents, directories, entry, project, counters, handlers,
          snapshot, client>>

\* A row is the change sequence number of its last change.  Its identity and
\* the revisions that requests expect are left out: a request that expects
\* another document or revision ends without a change.
Row == 1..MaxChanges

\* What a transaction writes, visible to the others once it commits.
IsWrite(w) ==
  /\ DOMAIN w.documents \subseteq Paths
  /\ \A p \in DOMAIN w.documents : w.documents[p] \in Row \cup {None}
  /\ w.mkdir \cup w.rmdir \subseteq Paths
  /\ w.entry \in Paths \cup {None}
  /\ w.replaced \in BOOLEAN

NoWrite == [documents |-> [p \in {} |-> None], mkdir |-> {}, rmdir |-> {},
            entry |-> None, replaced |-> FALSE]

Idle == [phase |-> "idle", lock |-> "none", write |-> NoWrite]

Events == {"changed", "replaced"}

NoView == [documents |-> {}, directories |-> {}, entry |-> None]

Offline == [stream |-> "off", queue |-> << >>, lagged |-> FALSE,
            refresh |-> "none", tree |-> NoView, missed |-> FALSE,
            cursor |-> 0, seen |-> {}]

NoSnapshot == [phase |-> "none", entry |-> None, documents |-> {},
               metadata |-> None]

TypeOK ==
  /\ documents \in [Paths -> Row \cup {None}]
  /\ directories \subseteq Paths
  /\ entry \in Paths
  /\ project \in [version: Nat, epoch: Nat]
  /\ counters \in [sequence: Row, restarts: 0..MaxRestarts]
  /\ \A h \in Handlers :
       /\ handlers[h].phase \in {"idle", "writing", "committed"}
       /\ handlers[h].lock \in {"none", "share", "update"}
       /\ IsWrite(handlers[h].write)
  /\ snapshot \in [phase: {"none", "waiting", "locked", "done"},
                   entry: Paths \cup {None}, documents: SUBSET Paths,
                   metadata: Paths \cup {None}]
  /\ client.stream \in {"off", "on"}
  /\ client.queue \in Seq(Events) /\ Len(client.queue) <= Buffer
  /\ client.refresh \in {"none", "due", "documents"}
  /\ client.missed \in BOOLEAN
  /\ client.cursor \in 0..MaxChanges /\ client.seen \subseteq 1..MaxChanges

\* The order in which one statement writes the rows of S.
Numbering(S) == CHOOSE f \in Injection(S, 1..Cardinality(S)) : TRUE

\* The documents of the starter, of a copy or of a template, and the settings
\* row that names one of them.
CreateProjectGraph(content) ==
  /\ documents = [p \in Paths |-> IF p \in content THEN Numbering(content)[p] ELSE None]
  /\ entry \in content \cap EntryPaths
  /\ counters = [sequence |-> Cardinality(content), restarts |-> 0]
  /\ directories = {}
  /\ project = [version |-> 1, epoch |-> 0]

\* create_project
Init ==
  /\ \E content \in Starters : CreateProjectGraph(content)
  /\ handlers = [h \in Handlers |-> Idle]
  /\ snapshot = NoSnapshot
  /\ client = Offline

(***************************************************************************)
(* Paths and rows.                                                         *)
(***************************************************************************)
InSubtree(path, subtree) == IsPrefix(subtree, path)

MovedPath(path, from, to) ==
  to \o SubSeq(path, Len(from) + 1, Len(path))

Documents == {p \in Paths : documents[p] # None}

\* The n-th nextval of a statement.
Sequence(n) == counters.sequence + n

Draws(n) ==
  /\ counters.sequence + n <= MaxChanges
  /\ counters' = [counters EXCEPT !.sequence = @ + n]

(***************************************************************************)
(* Locks on the project's row, and on the rows a change touches.           *)
(***************************************************************************)
LockedForUpdate == \E h \in Handlers : handlers[h].lock = "update"

Snapshotting == snapshot.phase = "locked"

\* lock_project_content_mutation
KeyShareLock == ~LockedForUpdate

\* Fault: the row is locked against snapshots only.
UpdateLockShared == ~Snapshotting

\* lock_project_content_exclusively
UpdateLock == ~Snapshotting /\ \A h \in Handlers : handlers[h].lock = "none"

\* No other transaction has an uncommitted row at the path.
RowFree(p) == \A h \in Handlers :
  handlers[h].lock # "none" =>
    p \notin DOMAIN handlers[h].write.documents \cup handlers[h].write.mkdir

Begun(h, lock, write) ==
  /\ handlers[h].phase = "idle"
  /\ project.version < MaxVersion
  /\ handlers' = [handlers EXCEPT
       ![h] = [phase |-> "writing", lock |-> lock, write |-> write]]
  /\ UNCHANGED <<documents, directories, entry, project, snapshot, client>>

\* One row, inserted or updated.
Incremental(h, p) ==
  /\ KeyShareLock /\ RowFree(p)
  /\ Draws(1)
  /\ Begun(h, "share", [NoWrite EXCEPT !.documents = [q \in {p} |-> Sequence(1)]])

(***************************************************************************)
(* Documents.                                                              *)
(***************************************************************************)
CreateDocument(h, p) ==
  /\ documents[p] = None
  /\ Incremental(h, p)

\* The expected content epoch is the current one, or the request ends.
UpsertDocumentByPath(h, p) == Incremental(h, p)

\* The expected revisions are the row's, or the request ends.
UpdateDocument(h, p) ==
  /\ documents[p] # None
  /\ Incremental(h, p)

\* The projection of collaborative edits; the collaboration identity stays.
ProjectDocument(h, p) ==
  /\ documents[p] # None
  /\ Incremental(h, p)

DeleteDocument(h, p) ==
  /\ UpdateLock
  /\ documents[p] # None
  /\ p # entry
  /\ UNCHANGED counters
  /\ Begun(h, "update", [NoWrite EXCEPT !.documents = [q \in {p} |-> None]])

(***************************************************************************)
(* Files: directories, and subtrees of all kinds.                          *)
(***************************************************************************)
\* insert_directory: nothing changes when the directory is there.
CreateDirectory(h, p) ==
  /\ KeyShareLock /\ RowFree(p)
  /\ p \notin directories
  /\ UNCHANGED counters
  /\ Begun(h, "share", [NoWrite EXCEPT !.mkdir = {p}])

\* create_project_file of a text: upsert_document
CreateTextFile(h, p) == p \in TextPaths /\ Incremental(h, p)

\* create_project_file of anything else: an empty asset takes the place of the
\* document at its path, which delete_document_at_path locks if there is one.
CreateAssetFile(h, p) ==
  /\ KeyShareLock
  /\ p \notin TextPaths
  /\ documents[p] # None => RowFree(p)
  /\ UNCHANGED counters
  /\ Begun(h, "share", [NoWrite EXCEPT
       !.documents = [q \in {p} \cap Documents |-> None]])

Subtree(path) == {p \in Paths : InSubtree(p, path)}

\* Rows that meet an occupied path violate a unique constraint.
MoveConflicts(from, to) ==
  \/ \E p \in Subtree(from) \cap Documents :
       MovedPath(p, from, to) \in Documents
  \/ \E p \in Subtree(from) \cap directories :
       MovedPath(p, from, to) \in directories

Target(from, to, S) == {MovedPath(p, from, to) : p \in S}

\* Moved documents keep their identity; each draws a change sequence number.
MovedRows(from, to, moved) ==
  LET source(q) == CHOOSE p \in moved : MovedPath(p, from, to) = q
  IN  [q \in Target(from, to, moved) \cup moved |->
         IF q \in Target(from, to, moved)
         THEN Sequence(Numbering(moved)[source(q)]) ELSE None]

MovedEntry(from, to) ==
  IF InSubtree(entry, from) THEN MovedPath(entry, from, to) ELSE None

MoveProjectFile(h, from, to) ==
  LET moved == Subtree(from) \cap Documents
      dirs == Subtree(from) \cap directories
  IN  /\ UpdateLock
      /\ from # to
      /\ Target(from, to, moved \cup dirs) \subseteq Paths
      /\ MovedEntry(from, to) \in EntryPaths \cup {None}
      /\ ~MoveConflicts(from, to)
      /\ moved \cup dirs # {}
      /\ Draws(Cardinality(moved))
      /\ Begun(h, "update", [NoWrite EXCEPT
           !.documents = MovedRows(from, to, moved),
           !.mkdir = Target(from, to, dirs), !.rmdir = dirs,
           !.entry = MovedEntry(from, to)])

DeleteProjectFile(h, path) ==
  LET gone == Subtree(path) \cap Documents
      dirs == Subtree(path) \cap directories
  IN  /\ UpdateLock
      /\ ~InSubtree(entry, path)
      /\ gone \cup dirs # {}
      /\ UNCHANGED counters
      /\ Begun(h, "update", [NoWrite EXCEPT
           !.documents = [p \in gone |-> None], !.rmdir = dirs])

(***************************************************************************)
(* Settings and the replacement of the whole content.                      *)
(***************************************************************************)
ChangeEntryFile(h, p) ==
  /\ UpdateLock
  /\ p \in EntryPaths \cap Documents
  /\ UNCHANGED counters
  /\ Begun(h, "update", [NoWrite EXCEPT !.entry = p])

\* The caller expects the workspace version it read, or the request ends.
ReplaceProjectContent(h, content, p) ==
  /\ UpdateLock
  /\ p \in content \cap EntryPaths
  /\ Draws(Cardinality(content))
  /\ Begun(h, "update", [NoWrite EXCEPT
       !.documents = [q \in Documents \cup content |->
          IF q \in content THEN Sequence(Numbering(content)[q]) ELSE None],
       !.rmdir = directories, !.entry = p, !.replaced = TRUE])

(***************************************************************************)
(* The end of a transaction, and its announcement on the control stream.   *)
(***************************************************************************)
\* advance_workspace_version takes the row FOR NO KEY UPDATE.
VersionLock(h) == handlers[h].lock = "share" => ~LockedForUpdate /\ ~Snapshotting

Overwritten(rows, new) == [p \in Paths |-> IF p \in DOMAIN new THEN new[p] ELSE rows[p]]

Commit(h) ==
  LET w == handlers[h].write
  IN  /\ handlers[h].phase = "writing"
      /\ VersionLock(h)
      /\ documents' = Overwritten(documents, w.documents)
      /\ directories' = (directories \ w.rmdir) \cup w.mkdir
      /\ entry' = IF w.entry = None THEN entry ELSE w.entry
      /\ project' = [version |-> project.version + 1,
                     epoch |-> project.epoch + IF w.replaced THEN 1 ELSE 0]
      /\ handlers' = [handlers EXCEPT
           ![h] = [phase |-> "committed", lock |-> "none",
                   write |-> [NoWrite EXCEPT !.replaced = w.replaced]]]
      /\ UNCHANGED <<counters, snapshot, client>>

\* A statement fails or the caller goes away: the transaction rolls back.
Rollback(h) ==
  /\ handlers[h].phase = "writing"
  /\ handlers' = [handlers EXCEPT ![h] = Idle]
  /\ UNCHANGED <<documents, directories, entry, project, counters, snapshot,
                 client>>

\* A receiver that is Buffer events behind lags.
Sent(event) ==
  IF client.stream = "off" THEN client
  ELSE IF Len(client.queue) < Buffer
       THEN [client EXCEPT !.queue = Append(@, event)]
       ELSE [client EXCEPT !.lagged = TRUE]

WorkspaceChanged(h) ==
  /\ handlers[h].phase = "committed"
  /\ client' = Sent(IF handlers[h].write.replaced THEN "replaced"
                    ELSE "changed")
  /\ handlers' = [handlers EXCEPT ![h] = Idle]
  /\ UNCHANGED <<documents, directories, entry, project, counters, snapshot>>

Tree == [documents |-> Documents, directories |-> directories,
         entry |-> entry]

\* The caller goes away after the commit and its handler is dropped at an
\* await, or the commit fails for the handler and not in the database: the
\* change is there and nobody is told of it.
Unannounced(h) ==
  /\ handlers[h].phase = "committed"
  /\ client' = [client EXCEPT !.missed = client.tree # Tree]
  /\ handlers' = [handlers EXCEPT ![h] = Idle]
  /\ UNCHANGED <<documents, directories, entry, project, counters, snapshot>>

(***************************************************************************)
(* A consistent snapshot.  Its first statement sees the settings as they   *)
(* were when it started, even when it then waits for the lock; the         *)
(* statements after it see what is committed at their start.               *)
(***************************************************************************)
SnapshotStarts ==
  /\ "reader" \in Parties
  /\ snapshot.phase = "none"
  /\ snapshot' = [snapshot EXCEPT !.phase = "waiting", !.entry = entry]
  /\ UNCHANGED <<documents, directories, entry, project, counters, handlers,
                 client>>

SnapshotLocks ==
  /\ snapshot.phase = "waiting"
  /\ ~LockedForUpdate
  /\ snapshot' = [snapshot EXCEPT !.phase = "locked", !.documents = Documents]
  /\ UNCHANGED <<documents, directories, entry, project, counters, handlers,
                 client>>

\* Fault: the entry file as the locking statement itself returned it.
SourceEntryOfSnapshot == snapshot.entry

\* find_metadata is a statement of its own.
SourceEntry == entry

CopyProjectSource ==
  /\ snapshot.phase = "locked"
  /\ snapshot' = [snapshot EXCEPT !.phase = "done", !.metadata = SourceEntry]
  /\ UNCHANGED <<documents, directories, entry, project, counters, handlers,
                 client>>

\* copy_project provisions another project from the source, with Init's
\* graph; this project is done with it.
CopyProject ==
  /\ snapshot.phase = "done"
  /\ snapshot' = NoSnapshot
  /\ UNCHANGED <<documents, directories, entry, project, counters, handlers,
                 client>>

\* The archive is built from the snapshot alone.
ArchiveProject ==
  /\ snapshot.phase = "locked"
  /\ snapshot' = NoSnapshot
  /\ UNCHANGED <<documents, directories, entry, project, counters, handlers,
                 client>>

(***************************************************************************)
(* The browser.  Every completed socket bootstrap, and every event, makes  *)
(* a refresh due; a refresh reads the tree and the settings, and then the  *)
(* documents that changed after its cursor.                                *)
(***************************************************************************)
ServerUnchanged == UNCHANGED <<documents, directories, entry, project,
                               counters, handlers, snapshot>>

\* handle_project_socket subscribes before it reports the bootstrap done.
OpenControlStream ==
  /\ "browser" \in Parties
  /\ client.stream = "off"
  /\ client' = [client EXCEPT !.stream = "on", !.queue = << >>,
                              !.lagged = FALSE, !.refresh = "due"]
  /\ ServerUnchanged

\* Fault: a browser that takes the refresh it is in for the one an event asks for.
ReceiveMerged ==
  /\ client.stream = "on" /\ client.queue # << >> /\ ~client.lagged
  /\ client' = [client EXCEPT !.queue = Tail(@),
                  !.refresh = IF @ = "none" THEN "due" ELSE @]
  /\ ServerUnchanged

\* A replaced project is loaded from nothing.
Receive ==
  /\ client.stream = "on" /\ client.queue # << >> /\ ~client.lagged
  /\ client' = IF Head(client.queue) = "replaced"
               THEN [Offline EXCEPT !.stream = "on",
                       !.queue = Tail(client.queue), !.refresh = "due"]
               ELSE [client EXCEPT !.queue = Tail(@), !.refresh = "due"]
  /\ ServerUnchanged

\* The forwarder of a receiver that lags closes the stream.
CloseLagged ==
  /\ client.stream = "on" /\ client.lagged
  /\ client' = [client EXCEPT !.stream = "off", !.queue = << >>,
                              !.lagged = FALSE]
  /\ ServerUnchanged

LoadTree ==
  /\ client.refresh = "due"
  /\ client' = [client EXCEPT !.refresh = "documents", !.tree = Tree,
                              !.missed = FALSE]
  /\ ServerUnchanged

\* list_after_change_sequence
Page(cursor) == {documents[p] : p \in {q \in Documents : documents[q] > cursor}}

\* The cursor is the last number delivered.
LoadDocuments ==
  LET live == {documents[p] : p \in Documents}
      page == Page(client.cursor)
  IN  /\ client.refresh = "documents"
      /\ client' = [client EXCEPT !.refresh = "none",
           !.seen = (@ \cap live) \cup page,
           !.cursor = IF page = {} THEN @ ELSE Max(page)]
      /\ ServerUnchanged

(***************************************************************************)
(* A restart of the process loses the transactions and the streams.        *)
(***************************************************************************)
Restart ==
  /\ counters.restarts < MaxRestarts
  /\ counters' = [counters EXCEPT !.restarts = @ + 1]
  /\ handlers' = [h \in Handlers |-> Idle]
  /\ snapshot' = NoSnapshot
  /\ client' = [client EXCEPT !.stream = "off", !.queue = << >>,
                              !.lagged = FALSE]
  /\ UNCHANGED <<documents, directories, entry, project>>

\* The handlers of documents_http, files_http and settings_http, the
\* projection worker, and the importers of whole contents.
DocumentRequest(h) ==
  \E p \in Paths : \/ CreateDocument(h, p)
                   \/ UpsertDocumentByPath(h, p)
                   \/ UpdateDocument(h, p)
                   \/ DeleteDocument(h, p)

FileRequest(h) ==
  \/ \E p \in Paths : \/ CreateDirectory(h, p)
                      \/ CreateTextFile(h, p)
                      \/ CreateAssetFile(h, p)
                      \/ DeleteProjectFile(h, p)
  \/ \E p, q \in Paths : MoveProjectFile(h, p, q)

SettingsRequest(h) == \E p \in Paths : ChangeEntryFile(h, p)

Request(h) ==
  \/ DocumentRequest(h)
  \/ FileRequest(h)
  \/ SettingsRequest(h)
  \/ \E p \in Paths : ProjectDocument(h, p)
  \/ \E S \in SUBSET Paths, p \in Paths : ReplaceProjectContent(h, S, p)

Browser == \/ OpenControlStream \/ Receive \/ CloseLagged
           \/ LoadTree \/ LoadDocuments

Next ==
  \/ \E h \in Handlers : \/ Request(h)
                         \/ Commit(h)
                         \/ Rollback(h)
                         \/ WorkspaceChanged(h)
                         \/ Unannounced(h)
  \/ SnapshotStarts \/ SnapshotLocks \/ CopyProjectSource
  \/ CopyProject \/ ArchiveProject
  \/ Browser
  \/ Restart

Spec == Init /\ [][Next]_vars

\* A handler that began runs to its end, the reconnecting browser connects,
\* and what it has received it handles.
Fairness ==
  /\ \A h \in Handlers :
       WF_vars(Commit(h) \/ Rollback(h) \/ WorkspaceChanged(h) \/ Unannounced(h))
  /\ WF_vars(Browser)

FairSpec == Spec /\ Fairness

(***************************************************************************)
(* Properties.                                                             *)
(***************************************************************************)
\* The project's entry file is always one of its documents: the checks of
\* deletion, of moves, of the settings and of replacements are made under
\* locks that keep what they saw until the commit.
EntryFileExists == entry \in EntryPaths \cap Documents

\* A copy of the project is whole: the entry file it records is one of the
\* documents it copies, whatever committed while the copy waited for its
\* lock (copy_project takes the entry from find_metadata).
CopyIsWhole ==
  snapshot.phase = "done" => snapshot.metadata \in snapshot.documents

\* Once requests stop, the browser's tree and entry file become the
\* project's and stay so, unless a change was committed that no handler
\* announced and the browser has loaded no tree since: no announcement that is
\* made is lost between the control room, a lagging receiver, a restart and
\* the browser's refresh, and whatever makes the browser load the tree again
\* brings the missed changes too.
TreeConverges == <>[](client.tree = Tree \/ client.missed)

\* Nothing below the browser's cursor is missing from what it has been given.
\* Does not hold: a number is drawn before its transaction commits.
DeltaIsComplete ==
  \A p \in Documents :
    documents[p] <= client.cursor => documents[p] \in client.seen
=============================================================================
