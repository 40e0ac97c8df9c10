---------------------------- MODULE Collaboration ----------------------------
(***************************************************************************)
(* The document streams of collaboration/: a WebSocket is authorized,      *)
(* joins the room of its document, is revalidated, bootstrapped from the   *)
(* snapshot and the update log, and then persists and broadcasts updates;  *)
(* the projection worker, flushes and captures compact the log into the    *)
(* snapshot and the document's text.                                       *)
(*                                                                         *)
(* One project with one document.  A Yjs state is the set of edits merged  *)
(* into it over the text it was seeded with, so merging is set union.  A   *)
(* replacement of the content gives the document a new id, which the       *)
(* content epoch stands for.  A transaction whose locks nobody else takes  *)
(* in another order is one step; bootstrap and capture, which do, are two. *)
(***************************************************************************)
EXTENDS Integers, Sequences, FiniteSets

CONSTANTS
  Clients,     \* browser tabs, each its own principal
  Edits,       \* changes that a tab can make to its Y.Doc
  None,        \* no document, or no seed
  Retention,   \* COLLAB_DOC_UPDATE_RETAIN
  Buffer,      \* capacity of a room's channel, 512 in the code
  MaxUpdates,  \* bound: updates inserted
  MaxContent,  \* bound: replacements of the content
  MaxRevision, \* bound: authoritative writes of one document
  MaxAccess,   \* bound: changes of access
  MaxStops     \* bound: stops of the process, by a drain or a crash

ASSUME CollaborationAssumption ==
  /\ None \notin Edits
  /\ Retention \in Nat /\ Buffer \in Nat \ {0}
  /\ {MaxUpdates, MaxContent, MaxRevision, MaxAccess, MaxStops} \subseteq Nat

VARIABLES
  project,   \* the row of projects, with what each principal may do
  document,  \* the row of documents
  log,       \* collab_doc_updates
  snapshots, \* collab_doc_latest_snapshots
  lastId,    \* the sequence that numbers updates
  accepted,  \* history: edits the server accepted, with their document
  clients,   \* one WebSocket per client, and the tab's Y.Doc
  due,       \* changes committed whose broadcast is still to come
  worker,    \* the document the projection worker took up
  capture,   \* the transaction of a project capture
  process    \* the application process

vars == <<project, document, log, snapshots, lastId, accepted, clients, due,
          worker, capture, process>>

storage == <<project, document, log, snapshots, lastId, accepted>>
tasks == <<worker, capture, process>>

\* CollaborationDocument: the epoch stands for the id of the document.
Identity == [epoch: 0..MaxContent, rev: 0..MaxRevision]

Text == [seed: Identity \cup {None}, edits: SUBSET Edits]

Update == [id: 1..MaxUpdates, doc: Identity, edits: SUBSET Edits, by: Clients]
Snapshot == [doc: Identity, upto: 0..MaxUpdates, text: Text]

Roles == {"none", "read", "write"}

\* What a room sends: the edits of an update, or the end of the stream.
Event == [kind: {"update", "end"}, edits: SUBSET Edits]
EndEvent == [kind |-> "end", edits |-> {}]

(***************************************************************************)
(* WsAuth and the state of handle_socket.  `step` is where the connection  *)
(* is; `told` that its forwarder has ended; `payload` the update it is     *)
(* persisting; `ydoc` the edits in the tab, which survive a reconnect to   *)
(* the same document; `synced` that the tab sent its full state since it   *)
(* was bootstrapped.                                                       *)
(***************************************************************************)
Steps == {"closed", "admitted", "authorized", "joined", "rechecked", "current",
          "locked", "live", "writing", "answering"}
Client == [step: Steps, doc: Identity, canWrite: BOOLEAN, access: 0..MaxAccess,
           seed: Text \cup {None}, queue: Seq(Event), lagged: BOOLEAN,
           told: BOOLEAN, payload: SUBSET Edits, kind: {"update", "sync"},
           ydoc: SUBSET Edits, synced: BOOLEAN]

Current == [epoch |-> project.content, rev |-> document.rev]
FirstDocument == [epoch |-> 0, rev |-> 0]
NoStream == [step |-> "closed", doc |-> FirstDocument, canWrite |-> FALSE, access |-> 0,
             seed |-> None, queue |-> <<>>, lagged |-> FALSE, told |-> FALSE,
             payload |-> {}, kind |-> "update", ydoc |-> {}, synced |-> FALSE]

Init ==
  /\ project = [content |-> 0, access |-> 0, role |-> [c \in Clients |-> "write"]]
  /\ document = [present |-> TRUE, rev |-> 0,
                 text |-> [seed |-> FirstDocument, edits |-> {}]]
  /\ log = {} /\ snapshots = {} /\ lastId = 0 /\ accepted = {}
  /\ clients = [c \in Clients |-> NoStream]
  /\ due = [access |-> 0, content |-> 0]
  /\ worker = None
  /\ capture = "idle"
  /\ process = [draining |-> FALSE, stops |-> 0]

-----------------------------------------------------------------------------
(***************************************************************************)
(* Persistence: what each statement makes of the log and the snapshots.    *)
(***************************************************************************)
SnapshotOf(d) == {s \in snapshots : s.doc = d}
Upto(d) == IF SnapshotOf(d) = {} THEN 0 ELSE (CHOOSE s \in SnapshotOf(d) : TRUE).upto
Uncovered(d) == {u \in log : u.doc = d /\ u.id > Upto(d)}
Newest(us, id) == IF us = {} THEN id ELSE (CHOOSE u \in us : \A v \in us : v.id <= u.id).id

\* load_state and merge_updates: the snapshot, or else the seed, with the
\* updates that follow it.
LoadState(d, us, seed) ==
  LET base == IF SnapshotOf(d) # {} THEN (CHOOSE s \in SnapshotOf(d) : TRUE).text
              ELSE IF seed = None THEN [seed |-> None, edits |-> {}] ELSE seed
  IN  [text |-> [base EXCEPT !.edits = @ \cup UNION {u.edits : u \in us}],
       upto |-> Newest(us, Upto(d))]

\* upsert_snapshot: never goes back to an earlier watermark.
UpsertSnapshot(d, state) ==
  IF Upto(d) <= state.upto
    THEN {s \in snapshots : s.doc # d} \cup {[doc |-> d, upto |-> state.upto, text |-> state.text]}
    ELSE snapshots

\* Fault: updates are pruned although no snapshot covers them.
PruneUncovered(us, ss, d, latest) ==
  {u \in us : u.doc = d => u.id >= latest - Retention}

\* prune_updates.
PruneUpdates(us, ss, d, latest) ==
  LET cutoff == latest - Retention
  IN  IF cutoff > 0 /\ \E s \in ss : s.doc = d /\ s.upto >= cutoff
        THEN {u \in us : u.doc = d => u.id >= cutoff}
        ELSE us

ClearSuperseded(rows, d) == {r \in rows : r.doc.epoch = d.epoch => r.doc.rev = d.rev}

\* Fault: the rows of a document that is gone stay.
ClearNothing(rows, ds) == rows
ClearDocumentRevision(rows, ds) == {r \in rows : r.doc \notin ds}

\* pending_project_documents, and next_pending_document.
Pending == {u.doc : u \in {v \in log : v.id > Upto(v.doc)}}
NextPending ==
  LET us == {u \in log : u.id > Upto(u.doc)}
  IN  IF us = {} THEN None ELSE (CHOOSE u \in us : \A v \in us : u.id <= v.id).doc

\* project_collaboration_document: the locked row is still this document.
Projectable(d) == document.present /\ d = Current

(***************************************************************************)
(* reconcile_collaboration_document for the documents ds, over a log us    *)
(* that the same transaction may have written to.                          *)
(***************************************************************************)
Reconcile(ds, us, seed) ==
  LET current == {d \in ds : Projectable(d)}
      gone == {d \in ds : d.epoch = project.content /\ ~Projectable(d)}
      kept == ClearDocumentRevision(us, gone)
  IN  IF current = {}
        THEN /\ log' = kept
             /\ snapshots' = ClearDocumentRevision(snapshots, gone)
             /\ UNCHANGED document
        ELSE LET d == Current
                 state == LoadState(d, {u \in us : u.doc = d /\ u.id > Upto(d)}, seed)
             IN  /\ document' = [document EXCEPT !.text = state.text]
                 /\ snapshots' = ClearDocumentRevision(UpsertSnapshot(d, state), gone)
                 /\ log' = PruneUpdates(kept, snapshots', d, state.upto)

\* lock_document_updates: a bootstrap holds the lock of its document's id.
DocumentLocked(d) ==
  \E c \in Clients : clients[c].step = "locked" /\ clients[c].doc.epoch = d.epoch
ProjectLocked == capture = "locked"

-----------------------------------------------------------------------------
(***************************************************************************)
(* A connection, from the upgrade to the live stream.                      *)
(***************************************************************************)
Set(c, stream) == clients' = [clients EXCEPT ![c] = stream]

\* The end of handle_socket, on every path: the receiver is dropped, and the
\* tab will send its full state again once it is back.
Left(r) == [NoStream EXCEPT !.doc = r.doc, !.ydoc = r.ydoc]
Close(c) == clients' = [clients EXCEPT ![c] = Left(@)]

\* ws_handler up to the principal that ensure_project_access returns; the
\* admission fence turns it away while the process drains.
Connect(c) ==
  /\ clients[c].step = "closed" /\ ~process.draining
  /\ project.role[c] # "none"
  /\ Set(c, [clients[c] EXCEPT !.step = "admitted", !.canWrite = (project.role[c] = "write")])
  /\ UNCHANGED <<storage, due, tasks>>

\* The epochs are read after the principal, and the document after them.  A
\* tab that opens another document starts another Y.Doc.
Authorize(c) ==
  /\ clients[c].step = "admitted"
  /\ IF document.present
       THEN Set(c, [clients[c] EXCEPT !.step = "authorized", !.doc = Current,
                                      !.access = project.access,
                                      !.ydoc = IF clients[c].doc = Current THEN @ ELSE {}])
       ELSE Close(c)
  /\ UNCHANGED <<storage, due, tasks>>

\* handle_socket: a draining process closes the socket, otherwise it joins
\* the room and receives what is sent from here on.
Join(c) ==
  /\ clients[c].step = "authorized"
  /\ IF process.draining THEN Close(c) ELSE Set(c, [clients[c] EXCEPT !.step = "joined"])
  /\ UNCHANGED <<storage, due, tasks>>

\* revalidate_project: principal and content epoch, then the access epoch.
PrincipalCurrent(c) ==
  /\ project.role[c] # "none"
  /\ (project.role[c] = "write") = clients[c].canWrite
  /\ clients[c].doc.epoch = project.content

RevalidatePrincipal(c) ==
  /\ clients[c].step = "joined"
  /\ IF PrincipalCurrent(c) THEN Set(c, [clients[c] EXCEPT !.step = "rechecked"]) ELSE Close(c)
  /\ UNCHANGED <<storage, due, tasks>>

\* Fault: a new subscription trusts what was authorized before it joined.
RevalidateAccessNot(c) ==
  /\ clients[c].step = "rechecked"
  /\ Set(c, [clients[c] EXCEPT !.step = "current"])
  /\ UNCHANGED <<storage, due, tasks>>

RevalidateAccess(c) ==
  /\ clients[c].step = "rechecked"
  /\ IF clients[c].access = project.access
       THEN Set(c, [clients[c] EXCEPT !.step = "current"])
       ELSE Close(c)
  /\ UNCHANGED <<storage, due, tasks>>

\* prepare_document_bootstrap takes the lock of the document and reads the
\* text to seed from; a document that is not there any more ends the stream.
LockBootstrap(c) ==
  /\ clients[c].step = "current" /\ ~DocumentLocked(clients[c].doc)
  /\ IF Projectable(clients[c].doc)
       THEN Set(c, [clients[c] EXCEPT !.step = "locked", !.seed = document.text])
       ELSE Close(c)
  /\ UNCHANGED <<storage, due, tasks>>

(***************************************************************************)
(* The rest of the transaction, which needs the lock of the project, and   *)
(* send_bootstrap_state.  Any failure rolls everything back.               *)
(***************************************************************************)
Bootstrap(c) ==
  LET d == clients[c].doc
      state == LoadState(d, Uncovered(d),
                         IF Uncovered(d) = {} THEN clients[c].seed ELSE None)
  IN  /\ clients[c].step = "locked" /\ ~ProjectLocked
      /\ IF Projectable(d)
           THEN /\ document' = [document EXCEPT !.text = state.text]
                /\ snapshots' = ClearSuperseded(UpsertSnapshot(d, state), d)
                /\ log' = PruneUpdates(ClearSuperseded(log, d), snapshots', d, state.upto)
                /\ Set(c, [clients[c] EXCEPT !.step = "live", !.seed = None,
                                             !.ydoc = @ \cup state.text.edits])
           ELSE Close(c) /\ UNCHANGED <<document, log, snapshots>>
      /\ UNCHANGED <<project, lastId, accepted, due, tasks>>

-----------------------------------------------------------------------------
(***************************************************************************)
(* Rooms.  The forwarder of a connection takes events from its receiver.   *)
(***************************************************************************)
Subscribed(c) == clients[c].step \notin {"closed", "admitted", "authorized"}

\* A receiver that falls behind the channel's capacity loses events.
Received(r, e) ==
  IF r.lagged \/ Len(r.queue) >= Buffer
    THEN [r EXCEPT !.lagged = TRUE, !.queue = <<>>]
    ELSE [r EXCEPT !.queue = Append(@, e)]

Sent(cs, e, room) ==
  [c \in Clients |-> IF Subscribed(c) /\ c \in room THEN Received(cs[c], e) ELSE cs[c]]

Room(d) == {c \in Clients : clients[c].doc = d}

Streaming(c) == clients[c].step \in {"live", "writing", "answering"} /\ ~clients[c].told

\* Fault: the forwarder of a receiver that lagged goes on.
ForwardPastLag(c) ==
  /\ Streaming(c)
  /\ \/ clients[c].lagged /\ Set(c, [clients[c] EXCEPT !.lagged = FALSE])
     \/ /\ ~clients[c].lagged /\ clients[c].queue # <<>>
        /\ LET e == Head(clients[c].queue)
           IN  Set(c, [clients[c] EXCEPT !.queue = Tail(@), !.told = (e.kind = "end"),
                                         !.ydoc = @ \cup e.edits])
  /\ UNCHANGED <<storage, due, tasks>>

\* forward_room_events: an update goes to the tab; the end of the stream, or a
\* receiver that lagged, ends the forwarder.
Forward(c) ==
  /\ Streaming(c)
  /\ \/ clients[c].lagged /\ Set(c, [clients[c] EXCEPT !.told = TRUE, !.queue = <<>>])
     \/ /\ ~clients[c].lagged /\ clients[c].queue # <<>>
        /\ LET e == Head(clients[c].queue)
           IN  Set(c, [clients[c] EXCEPT !.queue = Tail(@), !.told = (e.kind = "end"),
                                         !.ydoc = @ \cup e.edits])
  /\ UNCHANGED <<storage, due, tasks>>

\* access_changed and invalidate_project, called after the commit.
Announce(kind) ==
  /\ due[kind] > 0
  /\ due' = [due EXCEPT ![kind] = @ - 1]
  /\ clients' = Sent(clients, EndEvent, Clients)
  /\ UNCHANGED <<storage, tasks>>

-----------------------------------------------------------------------------
(***************************************************************************)
(* The loop of handle_socket.                                              *)
(***************************************************************************)
\* The tab changes its text and sends the update, or sends its full state,
\* as it does once after each bootstrap.  A reader's update is ignored.
\* persist_yjs_event asks for write access first.
Submit(c, kind, edits) ==
  /\ clients[c].step = "live" /\ clients[c].canWrite /\ ~process.draining
  /\ lastId + Cardinality({w \in Clients : clients[w].step = "writing"}) < MaxUpdates
  /\ IF project.role[c] = "write"
       THEN Set(c, [clients[c] EXCEPT !.step = "writing", !.kind = kind, !.payload = edits,
                                      !.ydoc = @ \cup edits])
       ELSE Close(c)
  /\ UNCHANGED <<storage, due, tasks>>

Edit(c, e) == clients[c].synced /\ e \notin clients[c].ydoc /\ Submit(c, "update", {e})
Sync(c) == ~clients[c].synced /\ Submit(c, "sync", clients[c].ydoc)

\* The content epoch, the access epoch and the document are those of the
\* connection.
Acceptable(c) ==
  /\ clients[c].doc.epoch = project.content
  /\ clients[c].access = project.access
  /\ Projectable(clients[c].doc)

(***************************************************************************)
(* persist_update.  Otherwise the stream ends; a commit whose outcome is   *)
(* not known ends it too, after the update was stored.                     *)
(***************************************************************************)
PersistUpdate(c) ==
  LET d == clients[c].doc
      u == [id |-> lastId + 1, doc |-> d, edits |-> clients[c].payload, by |-> c]
  IN  /\ clients[c].step = "writing"
      /\ ~ProjectLocked /\ ~DocumentLocked(d)
      /\ IF Acceptable(c)
           THEN /\ lastId' = lastId + 1
                /\ accepted' = accepted \cup [doc: {d}, edit: u.edits]
                /\ IF clients[c].kind = "sync"
                     THEN Reconcile({d}, log \cup {u}, None)
                     ELSE /\ log' = PruneUpdates(log \cup {u}, snapshots, d, u.id)
                          /\ UNCHANGED <<document, snapshots>>
                /\ Set(c, [clients[c] EXCEPT !.step = "answering"]) \/ Close(c)
           ELSE Close(c) /\ UNCHANGED <<document, log, snapshots, lastId, accepted>>
      /\ UNCHANGED <<project, due, tasks>>

\* The acknowledgement goes through the forwarder; only when that is still
\* there does the update go to the room.
Answered(r) == [r EXCEPT !.step = "live", !.payload = {}, !.kind = "update",
                         !.synced = @ \/ r.kind = "sync"]

Broadcast(c) ==
  /\ clients[c].step = "answering"
  /\ IF clients[c].told
       THEN Close(c)
       ELSE clients' = Sent([clients EXCEPT ![c] = Answered(@)],
                            [kind |-> "update", edits |-> clients[c].payload],
                            Room(clients[c].doc))
  /\ UNCHANGED <<storage, due, tasks>>

\* The 30 second tick finds the authorization outdated.
Recheck(c) ==
  /\ clients[c].step = "live"
  /\ ~PrincipalCurrent(c) \/ clients[c].access # project.access
  /\ Close(c)
  /\ UNCHANGED <<storage, due, tasks>>

\* The tab went away, or closed after the server ended the stream.
Disconnect(c) ==
  /\ clients[c].step = "live"
  /\ Close(c)
  /\ UNCHANGED <<storage, due, tasks>>

\* A draining process closes every stream at the top of its loop.
DrainStream(c) ==
  /\ clients[c].step = "live" /\ process.draining
  /\ Close(c)
  /\ UNCHANGED <<storage, due, tasks>>

-----------------------------------------------------------------------------
(***************************************************************************)
(* The projection worker, and captures.                                    *)
(***************************************************************************)
TakePending ==
  /\ worker = None /\ ~process.draining
  /\ NextPending # None
  /\ worker' = NextPending
  /\ UNCHANGED <<storage, clients, due, capture, process>>

\* reconcile_pending_document.
ReconcilePending ==
  /\ worker # None
  /\ ~ProjectLocked /\ ~DocumentLocked(worker)
  /\ Reconcile({worker}, log, None)
  /\ worker' = None
  /\ UNCHANGED <<project, lastId, accepted, clients, due, capture, process>>

\* A projection that fails is left to the worker's next round.
ProjectionFails ==
  /\ worker # None
  /\ worker' = None
  /\ UNCHANGED <<storage, clients, due, capture, process>>

\* capture_project_snapshot takes the project first ...
BeginCapture ==
  /\ capture = "idle"
  /\ capture' = "locked"
  /\ UNCHANGED <<storage, clients, due, worker, process>>

\* Fault: the capture leaves the updates to the projection worker.
CaptureUnflushed ==
  /\ capture = "locked"
  /\ capture' = "idle"
  /\ UNCHANGED <<storage, clients, due, worker, process>>

\* ... and then each document with pending updates, and projects them:
\* flush_project_collaboration_for_capture.
Capture ==
  /\ capture = "locked"
  /\ \A d \in Pending : ~DocumentLocked(d)
  /\ Reconcile(Pending, log, None)
  /\ capture' = "idle"
  /\ UNCHANGED <<project, lastId, accepted, clients, due, worker, process>>

\* The capture waits for a document whose bootstrap waits for the project.
LockCycle(c) ==
  /\ capture = "locked" /\ clients[c].step = "locked"
  /\ \E d \in Pending : d.epoch = clients[c].doc.epoch

\* PostgreSQL aborts one of the two.
BreakCycle(c) ==
  /\ LockCycle(c)
  /\ \/ Close(c) /\ UNCHANGED capture
     \/ capture' = "idle" /\ UNCHANGED clients
  /\ UNCHANGED <<storage, due, worker, process>>

-----------------------------------------------------------------------------
(***************************************************************************)
(* What other components do to the document and the project.               *)
(***************************************************************************)
\* update_document: an authoritative write starts a new revision.
WriteDocument ==
  /\ document.present /\ document.rev < MaxRevision /\ ~ProjectLocked
  /\ document' = [document EXCEPT !.rev = @ + 1,
                    !.text = [seed |-> [Current EXCEPT !.rev = @ + 1], edits |-> {}]]
  /\ UNCHANGED <<project, log, snapshots, lastId, accepted, clients, due, tasks>>

\* The updates and the snapshot of the document go with its row.
Cascaded(rows) == {r \in rows : r.doc.epoch # project.content}

DeleteDocument ==
  /\ document.present /\ ~ProjectLocked
  /\ document' = [document EXCEPT !.present = FALSE]
  /\ log' = Cascaded(log) /\ snapshots' = Cascaded(snapshots)
  /\ UNCHANGED <<project, lastId, accepted, clients, due, tasks>>

\* replace_project_content, with clear_project in the same transaction.
ReplaceContent ==
  /\ project.content < MaxContent /\ ~ProjectLocked
  /\ project' = [project EXCEPT !.content = @ + 1]
  /\ document' = [present |-> TRUE, rev |-> 0,
                  text |-> [seed |-> [epoch |-> project.content + 1, rev |-> 0], edits |-> {}]]
  /\ log' = {} /\ snapshots' = {}
  /\ due' = [due EXCEPT !.content = @ + 1]
  /\ UNCHANGED <<lastId, accepted, clients, tasks>>

\* A grant changes, and advance_project_access_epoch with it.
ChangeAccess(c, role) ==
  /\ project.access < MaxAccess /\ ~ProjectLocked
  /\ role # project.role[c]
  /\ project' = [project EXCEPT !.access = @ + 1, !.role[c] = role]
  /\ due' = [due EXCEPT !.access = @ + 1]
  /\ UNCHANGED <<document, log, snapshots, lastId, accepted, clients, tasks>>

\* DrainTrigger::trigger.
Drain ==
  /\ process.stops < MaxStops /\ ~process.draining
  /\ process' = [draining |-> TRUE, stops |-> process.stops + 1]
  /\ UNCHANGED <<storage, clients, due, worker, capture>>

\* The process ends, after its connections or at once in a crash; open
\* transactions are rolled back, and another process starts.
Restart ==
  /\ \/ process.draining /\ \A c \in Clients : clients[c].step = "closed"
     \/ ~process.draining /\ process.stops < MaxStops
  /\ process' = [draining |-> FALSE,
                 stops |-> IF process.draining THEN process.stops ELSE process.stops + 1]
  /\ clients' = [c \in Clients |-> Left(clients[c])]
  /\ due' = [access |-> 0, content |-> 0]
  /\ worker' = None /\ capture' = "idle"
  /\ UNCHANGED storage

Serve(c) ==
  \/ Authorize(c) \/ Join(c) \/ RevalidatePrincipal(c) \/ RevalidateAccess(c)
  \/ LockBootstrap(c) \/ Bootstrap(c) \/ PersistUpdate(c) \/ Broadcast(c)
  \/ DrainStream(c)

Next ==
  \/ \E c \in Clients :
       \/ Connect(c) \/ Serve(c) \/ BreakCycle(c) \/ Forward(c) \/ Sync(c)
       \/ Recheck(c) \/ Disconnect(c)
       \/ \E e \in Edits : Edit(c, e)
       \/ \E r \in Roles : ChangeAccess(c, r)
  \/ \E k \in {"access", "content"} : Announce(k)
  \/ TakePending \/ ReconcilePending \/ ProjectionFails
  \/ BeginCapture \/ Capture
  \/ WriteDocument \/ DeleteDocument \/ ReplaceContent
  \/ Drain \/ Restart

Spec == Init /\ [][Next]_vars

\* Server tasks go on; transactions that wait for a lock get it in turn.
FairSpec ==
  /\ Spec
  /\ \A c \in Clients : SF_vars(Serve(c)) /\ WF_vars(BreakCycle(c))
  /\ WF_vars(TakePending) /\ SF_vars(ReconcilePending) /\ SF_vars(Capture)
  /\ WF_vars(Restart /\ process.draining)

-----------------------------------------------------------------------------
TypeOK ==
  /\ project \in [content: 0..MaxContent, access: 0..MaxAccess, role: [Clients -> Roles]]
  /\ document \in [present: BOOLEAN, rev: 0..MaxRevision, text: Text]
  /\ log \subseteq Update /\ snapshots \subseteq Snapshot
  /\ lastId \in 0..MaxUpdates
  /\ accepted \subseteq [doc: Identity, edit: Edits]
  /\ clients \in [Clients -> Client]
  /\ due \in [access: Nat, content: Nat]
  /\ worker \in Identity \cup {None}
  /\ capture \in {"idle", "locked"}
  /\ process \in [draining: BOOLEAN, stops: 0..MaxStops]

\* Pruning and compaction keep every accepted edit of the current document:
\* it is in the snapshot or in an update that follows it.
NoEditLost ==
  document.present =>
    \A a \in accepted : a.doc = Current =>
      \/ \E s \in SnapshotOf(Current) : a.edit \in s.text.edits
      \/ \E u \in Uncovered(Current) : a.edit \in u.edits

\* A stream that passed its bootstrap hears of every accepted edit: it has it,
\* it is queued, it is about to be broadcast, or a tab that holds it has not
\* sent its full state since it was cut off.
ReaderMissesNothing ==
  \A r \in Clients : Streaming(r) /\ ~clients[r].lagged =>
    \A a \in accepted : a.doc = clients[r].doc /\ a.doc = Current =>
      \/ a.edit \in clients[r].ydoc
      \/ \E i \in DOMAIN clients[r].queue : a.edit \in clients[r].queue[i].edits
      \/ \E i \in DOMAIN clients[r].queue : clients[r].queue[i].kind = "end"
      \/ \E c \in Clients : clients[c].step = "answering" /\ a.edit \in clients[c].payload
      \/ \E c \in Clients : clients[c].doc = a.doc /\ a.edit \in clients[c].ydoc
                             /\ ~clients[c].synced

\* A stream that was revalidated and whose access or content has changed
\* since is told, or the change is still to be announced.
StaleStreamIsTold ==
  \A c \in Clients :
    /\ Subscribed(c) /\ clients[c].step \notin {"joined", "rechecked"}
    /\ clients[c].access # project.access \/ clients[c].doc.epoch # project.content
    => \/ clients[c].told \/ clients[c].lagged
       \/ \E i \in DOMAIN clients[c].queue : clients[c].queue[i].kind = "end"
       \/ clients[c].access # project.access /\ due.access > 0
       \/ clients[c].doc.epoch # project.content /\ due.content > 0

\* A capture sees every edit that was accepted before it.
CaptureSeesAccepted ==
  [][capture = "locked" /\ Capture =>
       \A a \in accepted : a.doc = Current /\ document.present => a.edit \in document'.text.edits]_vars

\* The project is locked before its documents, so no two transactions wait
\* for each other.  Does not hold: a bootstrap locks its document first.
NoLockCycle == \A c \in Clients : ~LockCycle(c)

\* Every update is projected or cleared in the end.
UpdatesProjected == \A i \in 1..MaxUpdates :
  (\E u \in log : u.id = i /\ u.id > Upto(u.doc)) ~> ~(\E u \in log : u.id = i /\ u.id > Upto(u.doc))
=============================================================================
