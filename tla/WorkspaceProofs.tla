-------------------------- MODULE WorkspaceProofs --------------------------
(***************************************************************************)
(* What the locks on the project's row guarantee for any set of paths and  *)
(* any number of concurrent requests: the entry file is a document, no two *)
(* transactions write the same row, and a snapshot, and so a copy, is of   *)
(* one committed state.                                                    *)
(***************************************************************************)
EXTENDS Workspace, FiniteSetTheorems, TLAPS

SnapshotRow == [phase: {"none", "waiting", "locked", "done"}, entry: Paths \cup {None},
                documents: SUBSET Paths, metadata: Paths \cup {None}]

ContentTypes ==
  /\ documents \in [Paths -> Nat \cup {None}]
  /\ entry \in Paths
  /\ counters \in [sequence: Nat, restarts: Nat]
  /\ handlers = [h \in Handlers |-> handlers[h]]
  /\ snapshot \in SnapshotRow

\* A transaction holds the project's row until it ends, and one that holds it
\* FOR UPDATE holds it alone.
LockInv ==
  \A h \in Handlers :
    /\ handlers[h].phase = "writing" <=> handlers[h].lock # "none"
    /\ handlers[h].lock \in {"none", "share", "update"}
    /\ handlers[h].lock = "update" =>
         /\ snapshot.phase # "locked"
         /\ \A g \in Handlers \ {h} : handlers[g].lock = "none"

\* What the documents become under write w are rows again.
Writes(w) ==
  /\ DOMAIN w.documents \subseteq Paths
  /\ \A p \in DOMAIN w.documents : w.documents[p] \in Nat \cup {None}

\* Write w leaves an entry file that exists.
EntryKept(w, d, e) ==
  \E new \in EntryPaths :
    /\ new = IF w.entry = None THEN e ELSE w.entry
    /\ IF new \in DOMAIN w.documents THEN w.documents[new] # None ELSE d[new] # None

\* An incremental change removes no text, so it leaves the entry file.
KeepsTexts(w) ==
  /\ w.entry = None
  /\ \A p \in DOMAIN w.documents \cap TextPaths : w.documents[p] # None

\* A transaction that holds the row alone still sees what its checks saw.
WriteInv ==
  \A h \in Handlers : handlers[h].phase = "writing" =>
    /\ Writes(handlers[h].write)
    /\ handlers[h].lock = "share" => KeepsTexts(handlers[h].write)
    /\ handlers[h].lock = "update" => EntryKept(handlers[h].write, documents, entry)

\* No two transactions have an uncommitted change of the same document.
RowsAreApart ==
  \A h, g \in Handlers :
    h # g /\ handlers[h].lock # "none" /\ handlers[g].lock # "none" =>
      DOMAIN handlers[h].write.documents \cap DOMAIN handlers[g].write.documents = {}

\* While a reader holds its lock, what it has read is what is committed.
SnapshotIsCurrent == snapshot.phase = "locked" => snapshot.documents = Documents

IInv ==
  /\ ContentTypes /\ LockInv /\ WriteInv /\ RowsAreApart
  /\ SnapshotIsCurrent /\ EntryFileExists /\ CopyIsWhole

-----------------------------------------------------------------------------
\* The rows of one statement are numbered.
LEMMA NumberingIsInjection ==
  ASSUME NEW S, IsFiniteSet(S)
  PROVE  Numbering(S) \in Injection(S, 1..Cardinality(S))
<1>1. ExistsBijection(1..Cardinality(S), S) /\ Cardinality(S) \in Nat
  BY FS_CardinalityType
<1>2. PICK f \in Bijection(1..Cardinality(S), S) : TRUE
  BY <1>1 DEF ExistsBijection
<1>3. /\ f \in [1..Cardinality(S) -> S] /\ \A y \in S : \E x \in 1..Cardinality(S) : f[x] = y
  BY <1>2 DEF Bijection, Surjection
<1> DEFINE g == [y \in S |-> CHOOSE x \in 1..Cardinality(S) : f[x] = y]
<1>4. \A y \in S : g[y] \in 1..Cardinality(S) /\ f[g[y]] = y
  BY <1>3
<1>5. g \in Injection(S, 1..Cardinality(S))
  <2>1. g \in [S -> 1..Cardinality(S)]
    BY <1>4
  <2>2. IsInjective(g)
    BY <1>4 DEF IsInjective
  <2> QED
    BY <2>1, <2>2 DEF Injection
<1> QED
  BY <1>5 DEF Numbering

LEMMA NumberingType ==
  ASSUME NEW S, IsFiniteSet(S)
  PROVE  Numbering(S) \in [S -> Nat]
BY NumberingIsInjection, FS_CardinalityType DEF Injection

LEMMA SequenceIsRow ==
  ASSUME ContentTypes, NEW n \in Nat
  PROVE  Sequence(n) \in Nat /\ Sequence(n) # None
BY PathAssumption DEF ContentTypes, Sequence

\* The fields of what a request writes.
LEMMA NoWriteFields ==
  ASSUME NEW d, NEW m, NEW r, NEW e, NEW b
  PROVE  /\ [NoWrite EXCEPT !.documents = d].documents = d
         /\ [NoWrite EXCEPT !.documents = d].entry = None
         /\ [NoWrite EXCEPT !.mkdir = m].documents = [p \in {} |-> None]
         /\ [NoWrite EXCEPT !.mkdir = m].entry = None
         /\ [NoWrite EXCEPT !.entry = e].documents = [p \in {} |-> None]
         /\ [NoWrite EXCEPT !.entry = e].entry = e
         /\ [NoWrite EXCEPT !.documents = d, !.rmdir = r].documents = d
         /\ [NoWrite EXCEPT !.documents = d, !.rmdir = r].entry = None
         /\ [NoWrite EXCEPT !.documents = d, !.mkdir = m, !.rmdir = r, !.entry = e].documents = d
         /\ [NoWrite EXCEPT !.documents = d, !.mkdir = m, !.rmdir = r, !.entry = e].entry = e
         /\ [NoWrite EXCEPT !.documents = d, !.rmdir = r, !.entry = e, !.replaced = b].documents = d
         /\ [NoWrite EXCEPT !.documents = d, !.rmdir = r, !.entry = e, !.replaced = b].entry = e
BY DEF NoWrite

\* A transaction begins: its checks hold for what is committed, and its lock is
\* one that the others leave free.
LEMMA Begins ==
  ASSUME IInv, NEW h \in Handlers, NEW lock, NEW w, Begun(h, lock, w), Writes(w),
         counters' \in [sequence: Nat, restarts: Nat],
         \/ /\ lock = "share" /\ KeyShareLock /\ KeepsTexts(w)
            /\ \A p \in DOMAIN w.documents : RowFree(p)
         \/ lock = "update" /\ UpdateLock /\ EntryKept(w, documents, entry)
  PROVE  IInv'
<1>0. /\ UNCHANGED <<documents, entry, snapshot>>
      /\ handlers' = [handlers EXCEPT ![h] = [phase |-> "writing", lock |-> lock, write |-> w]]
  BY DEF Begun
<1>1. /\ handlers' = [g \in Handlers |-> handlers'[g]]
      /\ \A g \in Handlers \ {h} : handlers'[g] = handlers[g]
      /\ handlers'[h].phase = "writing" /\ handlers'[h].lock = lock /\ handlers'[h].write = w
  BY <1>0 DEF IInv, ContentTypes
<1>2. handlers[h].lock = "none"
  BY DEF IInv, LockInv, Begun
<1>3. ContentTypes'
  BY <1>0, <1>1 DEF IInv, ContentTypes
<1>4. LockInv'
  <2> SUFFICES ASSUME NEW g \in Handlers
               PROVE  /\ handlers'[g].phase = "writing" <=> handlers'[g].lock # "none"
                      /\ handlers'[g].lock \in {"none", "share", "update"}
                      /\ handlers'[g].lock = "update" =>
                           /\ snapshot'.phase # "locked"
                           /\ \A f \in Handlers \ {g} : handlers'[f].lock = "none"
    BY DEF LockInv
  <2>1. CASE g = h
    BY <1>0, <1>1, <2>1 DEF UpdateLock, Snapshotting
  <2>2. CASE g # h
    <3>1. handlers[g].lock # "update"
      BY <2>2 DEF KeyShareLock, LockedForUpdate, UpdateLock
    <3> QED
      BY <1>1, <2>2, <3>1 DEF IInv, LockInv
  <2> QED
    BY <2>1, <2>2
<1>5. WriteInv'
  BY <1>0, <1>1 DEF IInv, WriteInv
<1>6. RowsAreApart'
  <2>1. ASSUME NEW g \in Handlers, g # h, handlers'[g].lock # "none"
        PROVE  DOMAIN handlers'[g].write.documents \cap DOMAIN w.documents = {}
    <3>1. handlers'[g] = handlers[g] /\ handlers[g].lock # "none"
      BY <1>1, <2>1
    <3>2. \A p \in DOMAIN w.documents : RowFree(p)
      BY <3>1 DEF UpdateLock
    <3> QED
      BY <3>1, <3>2 DEF RowFree
  <2> QED
    BY <1>1, <2>1 DEF IInv, RowsAreApart
<1>7. SnapshotIsCurrent' /\ EntryFileExists' /\ CopyIsWhole'
  BY <1>0 DEF IInv, SnapshotIsCurrent, EntryFileExists, CopyIsWhole, Documents
<1> QED
  BY <1>3, <1>4, <1>5, <1>6, <1>7 DEF IInv

LEMMA DrawsType ==
  ASSUME ContentTypes, NEW n \in Nat, Draws(n)
  PROVE  counters' \in [sequence: Nat, restarts: Nat]
BY DEF ContentTypes, Draws

\* The incremental changes.
LEMMA IncrementalStep ==
  ASSUME IInv, NEW h \in Handlers, NEW p \in Paths, Incremental(h, p)
  PROVE  IInv'
<1> DEFINE rows == [q \in {p} |-> Sequence(1)]
           w == [NoWrite EXCEPT !.documents = rows]
<1>1. w.documents = rows /\ w.entry = None
  BY NoWriteFields
<1>2. Sequence(1) \in Nat /\ Sequence(1) # None
  BY SequenceIsRow DEF IInv
<1>3. DOMAIN rows = {p} /\ \A q \in {p} : rows[q] = Sequence(1)
  OBVIOUS
<1>4. counters' \in [sequence: Nat, restarts: Nat]
  BY DrawsType DEF IInv, Incremental
<1>5. Begun(h, "share", w) /\ KeyShareLock /\ RowFree(p)
  BY DEF Incremental
<1> HIDE DEF w, rows
<1>6. Writes(w) /\ KeepsTexts(w)
  BY <1>1, <1>2, <1>3 DEF Writes, KeepsTexts
<1> QED
  BY <1>1, <1>3, <1>4, <1>5, <1>6, Begins

LEMMA CreateAssetFileStep ==
  ASSUME IInv, NEW h \in Handlers, NEW p \in Paths, CreateAssetFile(h, p)
  PROVE  IInv'
<1> DEFINE rows == [q \in {p} \cap Documents |-> None]
           w == [NoWrite EXCEPT !.documents = rows]
<1>1. w.documents = rows /\ w.entry = None
  BY NoWriteFields
<1>2. /\ Begun(h, "share", w) /\ KeyShareLock /\ UNCHANGED counters /\ p \notin TextPaths
      /\ \A q \in {p} \cap Documents : RowFree(q)
  BY DEF CreateAssetFile, Documents
<1>3. DOMAIN rows = {p} \cap Documents /\ \A q \in {p} \cap Documents : rows[q] = None
  OBVIOUS
<1> HIDE DEF w, rows
<1>4. Writes(w) /\ KeepsTexts(w)
  BY <1>1, <1>2, <1>3 DEF Writes, KeepsTexts
<1>5. counters' \in [sequence: Nat, restarts: Nat]
  BY <1>2 DEF IInv, ContentTypes
<1> QED
  BY <1>1, <1>2, <1>3, <1>4, <1>5, Begins

LEMMA CreateDirectoryStep ==
  ASSUME IInv, NEW h \in Handlers, NEW p \in Paths, CreateDirectory(h, p)
  PROVE  IInv'
<1> DEFINE w == [NoWrite EXCEPT !.mkdir = {p}]
<1>1. w.documents = [q \in {} |-> None] /\ w.entry = None
  BY NoWriteFields
<1>2. Begun(h, "share", w) /\ KeyShareLock /\ UNCHANGED counters
  BY DEF CreateDirectory
<1> HIDE DEF w
<1>3. DOMAIN w.documents = {}
  BY <1>1
<1>4. Writes(w) /\ KeepsTexts(w)
  BY <1>1, <1>3 DEF Writes, KeepsTexts
<1>5. counters' \in [sequence: Nat, restarts: Nat]
  BY <1>2 DEF IInv, ContentTypes
<1> QED
  BY <1>2, <1>3, <1>4, <1>5, Begins

-----------------------------------------------------------------------------
\* The changes that hold the row alone.  Deletions spare the entry file.
LEMMA DeletionStep ==
  ASSUME IInv, NEW h \in Handlers, NEW S, S \subseteq Documents, entry \notin S, NEW w,
         w.documents = [p \in S |-> None], w.entry = None,
         UpdateLock, Begun(h, "update", w), UNCHANGED counters
  PROVE  IInv'
<1>1. DOMAIN w.documents = S /\ S \subseteq Paths
  BY DEF Documents
<1>2. Writes(w)
  BY <1>1 DEF Writes
<1>3. EntryKept(w, documents, entry)
  BY <1>1 DEF IInv, EntryFileExists, Documents, EntryKept
<1>4. counters' \in [sequence: Nat, restarts: Nat]
  BY DEF IInv, ContentTypes
<1> QED
  BY <1>2, <1>3, <1>4, Begins

LEMMA DeleteDocumentStep ==
  ASSUME IInv, NEW h \in Handlers, NEW p \in Paths, DeleteDocument(h, p)
  PROVE  IInv'
<1> DEFINE w == [NoWrite EXCEPT !.documents = [q \in {p} |-> None]]
<1>1. w.documents = [q \in {p} |-> None] /\ w.entry = None
  BY NoWriteFields
<1>2. Begun(h, "update", w) /\ UpdateLock /\ UNCHANGED counters
  BY DEF DeleteDocument
<1>3. {p} \subseteq Documents /\ entry \notin {p}
  BY DEF DeleteDocument, Documents
<1> HIDE DEF w
<1> QED
  BY <1>1, <1>2, <1>3, DeletionStep

LEMMA DeleteProjectFileStep ==
  ASSUME IInv, NEW h \in Handlers, NEW path \in Paths, DeleteProjectFile(h, path)
  PROVE  IInv'
<1> DEFINE gone == Subtree(path) \cap Documents
           w == [NoWrite EXCEPT !.documents = [p \in gone |-> None],
                                !.rmdir = Subtree(path) \cap directories]
<1>1. w.documents = [p \in gone |-> None] /\ w.entry = None
  BY NoWriteFields
<1>2. Begun(h, "update", w) /\ UpdateLock /\ UNCHANGED counters
  BY DEF DeleteProjectFile
<1>3. gone \subseteq Documents /\ entry \notin gone
  BY DEF DeleteProjectFile, Subtree
<1> HIDE DEF w, gone
<1> QED
  BY <1>1, <1>2, <1>3, DeletionStep

LEMMA ChangeEntryFileStep ==
  ASSUME IInv, NEW h \in Handlers, NEW p \in Paths, ChangeEntryFile(h, p)
  PROVE  IInv'
<1> DEFINE w == [NoWrite EXCEPT !.entry = p]
<1>1. w.documents = [q \in {} |-> None] /\ w.entry = p
  BY NoWriteFields
<1>2. /\ Begun(h, "update", w) /\ UpdateLock /\ UNCHANGED counters
      /\ p \in EntryPaths /\ documents[p] # None
  BY DEF ChangeEntryFile, Documents
<1> HIDE DEF w
<1>3. DOMAIN w.documents = {} /\ p # None
  BY <1>1, PathAssumption
<1>4. Writes(w) /\ EntryKept(w, documents, entry)
  BY <1>1, <1>2, <1>3 DEF Writes, EntryKept
<1>5. counters' \in [sequence: Nat, restarts: Nat]
  BY <1>2 DEF IInv, ContentTypes
<1> QED
  BY <1>2, <1>4, <1>5, Begins

\* Every row that moves gets a number, and the entry file moves with its row.
LEMMA MovedRowsType ==
  ASSUME IInv, NEW from, NEW to, NEW moved, moved \subseteq Paths
  PROVE  /\ DOMAIN MovedRows(from, to, moved) = Target(from, to, moved) \cup moved
         /\ \A q \in Target(from, to, moved) : MovedRows(from, to, moved)[q] \in Nat
         /\ \A q \in moved \ Target(from, to, moved) : MovedRows(from, to, moved)[q] = None
<1> DEFINE source(q) == CHOOSE p \in moved : MovedPath(p, from, to) = q
<1>1. \A q \in Target(from, to, moved) : source(q) \in moved
  BY DEF Target
<1>2. Numbering(moved) \in [moved -> Nat]
  BY PathAssumption, FS_Subset, NumberingType
<1>3. \A q \in Target(from, to, moved) : Sequence(Numbering(moved)[source(q)]) \in Nat
  <2> TAKE q \in Target(from, to, moved)
  <2>1. Numbering(moved)[source(q)] \in Nat
    BY <1>1, <1>2
  <2> QED
    BY <2>1, SequenceIsRow DEF IInv
<1> QED
  BY <1>3 DEF MovedRows

LEMMA MoveProjectFileStep ==
  ASSUME IInv, NEW h \in Handlers, NEW from \in Paths, NEW to \in Paths,
         MoveProjectFile(h, from, to)
  PROVE  IInv'
<1> DEFINE moved == Subtree(from) \cap Documents
           dirs == Subtree(from) \cap directories
           rows == MovedRows(from, to, moved)
           w == [NoWrite EXCEPT !.documents = rows, !.mkdir = Target(from, to, dirs),
                                !.rmdir = dirs, !.entry = MovedEntry(from, to)]
<1>1. w.documents = rows /\ w.entry = MovedEntry(from, to)
  BY NoWriteFields
<1>2. /\ Begun(h, "update", w) /\ UpdateLock /\ Draws(Cardinality(moved))
      /\ Target(from, to, moved \cup dirs) \subseteq Paths
      /\ MovedEntry(from, to) \in EntryPaths \cup {None}
  BY DEF MoveProjectFile
<1>3. moved \subseteq Paths /\ Target(from, to, moved) \subseteq Paths
  BY <1>2 DEF Documents, Target
<1>4. IsFiniteSet(moved)
  BY <1>3, PathAssumption, FS_Subset
<1>5. counters' \in [sequence: Nat, restarts: Nat]
  BY <1>2, <1>4, FS_CardinalityType, DrawsType DEF IInv
<1>6. /\ DOMAIN rows = Target(from, to, moved) \cup moved
      /\ \A q \in Target(from, to, moved) : rows[q] \in Nat
      /\ \A q \in moved \ Target(from, to, moved) : rows[q] = None
  BY <1>3, MovedRowsType
<1>7. Writes(w)
  BY <1>1, <1>3, <1>6 DEF Writes
<1>8. EntryKept(w, documents, entry)
  <2>1. entry \in Documents /\ entry \in EntryPaths /\ entry \in Paths
    BY DEF IInv, EntryFileExists, ContentTypes
  <2>2. CASE InSubtree(entry, from)
    <3>1. entry \in moved
      BY <2>1, <2>2 DEF Subtree
    <3>2. MovedEntry(from, to) \in Target(from, to, moved)
      BY <2>2, <3>1 DEF MovedEntry, Target
    <3>3. MovedEntry(from, to) \in EntryPaths /\ MovedEntry(from, to) # None
      BY <1>2, <1>3, <3>2, PathAssumption
    <3>4. rows[MovedEntry(from, to)] # None
      BY <1>6, <3>2, PathAssumption
    <3> QED
      BY <1>1, <1>6, <3>2, <3>3, <3>4 DEF EntryKept
  <2>3. CASE ~InSubtree(entry, from)
    <3>1. MovedEntry(from, to) = None /\ entry \notin moved
      BY <2>3 DEF MovedEntry, Subtree
    <3>2. entry \in DOMAIN rows => rows[entry] # None
      BY <1>6, <3>1, PathAssumption
    <3> QED
      BY <1>1, <2>1, <3>1, <3>2 DEF EntryKept, Documents
  <2> QED
    BY <2>2, <2>3
<1> HIDE DEF w
<1> QED
  BY <1>2, <1>5, <1>7, <1>8, Begins

LEMMA ReplaceProjectContentStep ==
  ASSUME IInv, NEW h \in Handlers, NEW content \in SUBSET Paths, NEW p \in Paths,
         ReplaceProjectContent(h, content, p)
  PROVE  IInv'
<1> DEFINE rows == [q \in Documents \cup content |->
                      IF q \in content THEN Sequence(Numbering(content)[q]) ELSE None]
           w == [NoWrite EXCEPT !.documents = rows, !.rmdir = directories, !.entry = p,
                                !.replaced = TRUE]
<1>1. w.documents = rows /\ w.entry = p
  BY NoWriteFields
<1>2. /\ Begun(h, "update", w) /\ UpdateLock /\ Draws(Cardinality(content))
      /\ p \in content /\ p \in EntryPaths
  BY DEF ReplaceProjectContent
<1>3. IsFiniteSet(content)
  BY PathAssumption, FS_Subset
<1>4. counters' \in [sequence: Nat, restarts: Nat]
  BY <1>2, <1>3, FS_CardinalityType, DrawsType DEF IInv
<1>5. \A q \in content : Sequence(Numbering(content)[q]) \in Nat
  <2> TAKE q \in content
  <2>1. Numbering(content)[q] \in Nat
    BY <1>3, NumberingType
  <2> QED
    BY <2>1, SequenceIsRow DEF IInv
<1>6. /\ DOMAIN rows = Documents \cup content
      /\ \A q \in DOMAIN rows : rows[q] \in Nat \cup {None}
      /\ \A q \in content : rows[q] \in Nat
  BY <1>5
<1> HIDE DEF w, rows
<1>7. Writes(w)
  BY <1>1, <1>6 DEF Writes, Documents
<1>8. EntryKept(w, documents, entry)
  BY <1>1, <1>2, <1>6, PathAssumption DEF EntryKept
<1> QED
  BY <1>2, <1>4, <1>7, <1>8, Begins

LEMMA RequestStep ==
  ASSUME IInv, NEW h \in Handlers, Request(h)
  PROVE  IInv'
<1>1. CASE DocumentRequest(h)
  BY <1>1, IncrementalStep, DeleteDocumentStep
  DEF DocumentRequest, CreateDocument, UpsertDocumentByPath, UpdateDocument
<1>2. CASE FileRequest(h)
  BY <1>2, IncrementalStep, CreateAssetFileStep, CreateDirectoryStep, DeleteProjectFileStep,
     MoveProjectFileStep
  DEF FileRequest, CreateTextFile
<1>3. CASE SettingsRequest(h)
  BY <1>3, ChangeEntryFileStep DEF SettingsRequest
<1>4. CASE \E p \in Paths : ProjectDocument(h, p)
  BY <1>4, IncrementalStep DEF ProjectDocument
<1>5. CASE \E S \in SUBSET Paths, p \in Paths : ReplaceProjectContent(h, S, p)
  BY <1>5, ReplaceProjectContentStep
<1> QED
  BY <1>1, <1>2, <1>3, <1>4, <1>5 DEF Request

-----------------------------------------------------------------------------
\* A transaction ends: the others keep their locks and writes, and what they may
\* rely on is as it was.
LEMMA EndsApart ==
  ASSUME IInv, NEW h \in Handlers, NEW record, record.lock = "none", record.phase # "writing",
         handlers' = [handlers EXCEPT ![h] = record], UNCHANGED snapshot
  PROVE  /\ handlers' = [g \in Handlers |-> handlers'[g]]
         /\ handlers'[h] = record /\ \A g \in Handlers \ {h} : handlers'[g] = handlers[g]
         /\ LockInv' /\ RowsAreApart'
<1>1. /\ handlers' = [g \in Handlers |-> handlers'[g]]
      /\ handlers'[h] = record /\ \A g \in Handlers \ {h} : handlers'[g] = handlers[g]
  BY DEF IInv, ContentTypes
<1>2. LockInv'
  BY <1>1 DEF IInv, LockInv
<1>3. RowsAreApart'
  BY <1>1 DEF IInv, RowsAreApart
<1> QED
  BY <1>1, <1>2, <1>3

LEMMA CommitStep ==
  ASSUME IInv, NEW h \in Handlers, Commit(h)
  PROVE  IInv'
<1> DEFINE w == handlers[h].write
           record == [phase |-> "committed", lock |-> "none",
                      write |-> [NoWrite EXCEPT !.replaced = w.replaced]]
<1>0. /\ handlers[h].phase = "writing" /\ VersionLock(h)
      /\ documents' = Overwritten(documents, w.documents)
      /\ entry' = IF w.entry = None THEN entry ELSE w.entry
      /\ handlers' = [handlers EXCEPT ![h] = record]
      /\ UNCHANGED <<counters, snapshot>>
  BY DEF Commit
<1>1. /\ handlers' = [g \in Handlers |-> handlers'[g]]
      /\ handlers'[h] = record /\ \A g \in Handlers \ {h} : handlers'[g] = handlers[g]
      /\ LockInv' /\ RowsAreApart'
  <2>1. record.lock = "none" /\ record.phase # "writing"
    OBVIOUS
  <2> HIDE DEF record
  <2> QED
    BY <1>0, <2>1, EndsApart
<1>2. Writes(w) /\ handlers[h].lock \in {"share", "update"}
  BY <1>0 DEF IInv, WriteInv, LockInv
<1> HIDE DEF w
<1>3. \A p \in Paths : documents'[p] = IF p \in DOMAIN w.documents THEN w.documents[p]
                                                                  ELSE documents[p]
  BY <1>0 DEF Overwritten
<1>4. documents' \in [Paths -> Nat \cup {None}]
  BY <1>0, <1>2 DEF IInv, ContentTypes, Overwritten, Writes
<1>5. snapshot.phase # "locked"
  BY <1>0, <1>2 DEF IInv, LockInv, VersionLock, Snapshotting
<1>6. entry' \in EntryPaths /\ documents'[entry'] # None
  <2>0. entry \in EntryPaths /\ documents[entry] # None /\ EntryPaths \subseteq Paths
    BY PathAssumption DEF IInv, EntryFileExists, Documents
  <2>1. CASE handlers[h].lock = "share"
    <3>1. KeepsTexts(w)
      BY <1>0, <2>1 DEF IInv, WriteInv, w
    <3> QED
      BY <1>0, <1>3, <2>0, <3>1, PathAssumption DEF KeepsTexts
  <2>2. CASE handlers[h].lock = "update"
    <3>1. EntryKept(w, documents, entry)
      BY <1>0, <2>2 DEF IInv, WriteInv, w
    <3> QED
      BY <1>0, <1>3, <2>0, <3>1 DEF EntryKept
  <2> QED
    BY <1>2, <2>1, <2>2
<1>7. ContentTypes'
  BY <1>0, <1>1, <1>4, <1>6, PathAssumption DEF IInv, ContentTypes
<1>8. WriteInv'
  <2> SUFFICES ASSUME NEW g \in Handlers, handlers'[g].phase = "writing"
               PROVE  /\ Writes(handlers'[g].write)
                      /\ handlers'[g].lock = "share" => KeepsTexts(handlers'[g].write)
                      /\ handlers'[g].lock # "update"
    BY DEF WriteInv
  <2>1. g # h /\ handlers'[g] = handlers[g]
    BY <1>1
  <2>2. handlers[g].lock # "update"
    BY <1>2, <2>1 DEF IInv, LockInv
  <2> QED
    BY <2>1, <2>2 DEF IInv, WriteInv
<1>9. SnapshotIsCurrent' /\ EntryFileExists' /\ CopyIsWhole'
  BY <1>0, <1>5, <1>6, PathAssumption
  DEF IInv, SnapshotIsCurrent, EntryFileExists, CopyIsWhole, Documents
<1> QED
  BY <1>1, <1>7, <1>8, <1>9 DEF IInv

\* A rollback, and the announcement after a commit.
LEMMA HandlerEnds ==
  ASSUME IInv, NEW h \in Handlers, Rollback(h) \/ WorkspaceChanged(h) \/ Unannounced(h)
  PROVE  IInv'
<1>0. /\ handlers' = [handlers EXCEPT ![h] = Idle]
      /\ UNCHANGED <<documents, entry, counters, snapshot>>
  BY DEF Rollback, WorkspaceChanged, Unannounced
<1>1. Idle.lock = "none" /\ Idle.phase = "idle"
  BY DEF Idle
<1>2. /\ handlers' = [g \in Handlers |-> handlers'[g]]
      /\ handlers'[h] = Idle /\ \A g \in Handlers \ {h} : handlers'[g] = handlers[g]
      /\ LockInv' /\ RowsAreApart'
  BY <1>0, <1>1, EndsApart
<1>3. ContentTypes'
  BY <1>0, <1>2 DEF IInv, ContentTypes
<1>4. WriteInv'
  BY <1>0, <1>1, <1>2 DEF IInv, WriteInv
<1>5. SnapshotIsCurrent' /\ EntryFileExists' /\ CopyIsWhole'
  BY <1>0 DEF IInv, SnapshotIsCurrent, EntryFileExists, CopyIsWhole, Documents
<1> QED
  BY <1>2, <1>3, <1>4, <1>5 DEF IInv

\* The reader of a snapshot.
LEMMA SnapshotStep ==
  ASSUME IInv,
         SnapshotStarts \/ SnapshotLocks \/ CopyProjectSource \/ CopyProject \/ ArchiveProject
  PROVE  IInv'
<1>0. UNCHANGED <<documents, entry, counters, handlers>> /\ snapshot \in SnapshotRow
  BY DEF SnapshotStarts, SnapshotLocks, CopyProjectSource, CopyProject, ArchiveProject, IInv,
         ContentTypes
<1>1. /\ snapshot' \in SnapshotRow
      /\ snapshot'.phase = "locked" => /\ snapshot'.documents = Documents
                                       /\ ~LockedForUpdate
      /\ snapshot'.phase = "done" => snapshot'.metadata \in snapshot'.documents
  <2>1. CASE SnapshotStarts
    BY <1>0, <2>1 DEF SnapshotStarts, SnapshotRow, IInv, ContentTypes
  <2>2. CASE SnapshotLocks
    BY <1>0, <2>2 DEF SnapshotLocks, SnapshotRow, Documents
  <2>3. CASE CopyProjectSource
    <3>1. snapshot.documents = Documents /\ entry \in Documents /\ entry \in Paths
      BY <2>3 DEF CopyProjectSource, IInv, SnapshotIsCurrent, EntryFileExists, Documents
    <3> QED
      BY <1>0, <2>3, <3>1 DEF CopyProjectSource, SourceEntry, SnapshotRow
  <2>4. CASE CopyProject \/ ArchiveProject
    BY <2>4 DEF CopyProject, ArchiveProject, NoSnapshot, SnapshotRow
  <2> QED
    BY <2>1, <2>2, <2>3, <2>4
<1>2. ContentTypes'
  BY <1>0, <1>1 DEF IInv, ContentTypes
<1>3. LockInv'
  BY <1>0, <1>1 DEF IInv, LockInv, LockedForUpdate
<1>4. WriteInv' /\ RowsAreApart' /\ EntryFileExists'
  BY <1>0 DEF IInv, WriteInv, RowsAreApart, EntryFileExists, Documents
<1>5. SnapshotIsCurrent' /\ CopyIsWhole'
  BY <1>0, <1>1 DEF SnapshotIsCurrent, CopyIsWhole, Documents
<1> QED
  BY <1>2, <1>3, <1>4, <1>5 DEF IInv

LEMMA RestartStep ==
  ASSUME IInv, Restart
  PROVE  IInv'
<1>1. /\ handlers' = [h \in Handlers |-> Idle] /\ snapshot' = NoSnapshot
      /\ UNCHANGED <<documents, entry>>
  BY DEF Restart
<1>2. Idle.lock = "none" /\ Idle.phase = "idle" /\ NoSnapshot.phase = "none"
  BY DEF Idle, NoSnapshot
<1>3. \A h \in Handlers : handlers'[h] = Idle
  BY <1>1
<1>4. ContentTypes'
  <2>1. NoSnapshot \in SnapshotRow
    BY DEF NoSnapshot, SnapshotRow
  <2>2. counters' \in [sequence: Nat, restarts: Nat]
    BY DEF Restart, IInv, ContentTypes
  <2> QED
    BY <1>1, <1>3, <2>1, <2>2 DEF IInv, ContentTypes
<1>5. LockInv' /\ WriteInv' /\ RowsAreApart'
  BY <1>2, <1>3 DEF LockInv, WriteInv, RowsAreApart
<1>6. SnapshotIsCurrent' /\ EntryFileExists' /\ CopyIsWhole'
  BY <1>1, <1>2 DEF IInv, SnapshotIsCurrent, EntryFileExists, CopyIsWhole, Documents
<1> QED
  BY <1>4, <1>5, <1>6 DEF IInv

-----------------------------------------------------------------------------
LEMMA InitInv ==
  ASSUME Init
  PROVE  IInv
<1>1. PICK content \in Starters : CreateProjectGraph(content)
  BY DEF Init
<1>2. content \subseteq Paths /\ IsFiniteSet(content)
  BY PathAssumption, FS_Subset
<1>3. Numbering(content) \in [content -> Nat] /\ Cardinality(content) \in Nat
  BY <1>2, NumberingType, FS_CardinalityType
<1>4. /\ documents = [p \in Paths |-> IF p \in content THEN Numbering(content)[p] ELSE None]
      /\ entry \in content /\ entry \in EntryPaths
      /\ counters = [sequence |-> Cardinality(content), restarts |-> 0]
  BY <1>1 DEF CreateProjectGraph
<1>5. /\ Idle.lock = "none" /\ Idle.phase = "idle" /\ NoSnapshot.phase = "none"
      /\ NoSnapshot \in SnapshotRow
  BY DEF Idle, NoSnapshot, SnapshotRow
<1>6. handlers = [h \in Handlers |-> Idle] /\ snapshot = NoSnapshot
  BY DEF Init
<1>7. \A h \in Handlers : handlers[h] = Idle
  BY <1>6
<1>8. ContentTypes
  <2>1. documents \in [Paths -> Nat \cup {None}]
    BY <1>3, <1>4
  <2> QED
    BY <1>2, <1>3, <1>4, <1>5, <1>6, <1>7, <2>1 DEF ContentTypes
<1>9. EntryFileExists
  BY <1>2, <1>3, <1>4, PathAssumption DEF EntryFileExists, Documents
<1>10. LockInv /\ WriteInv /\ RowsAreApart
  BY <1>5, <1>7 DEF LockInv, WriteInv, RowsAreApart
<1>11. SnapshotIsCurrent /\ CopyIsWhole
  BY <1>5, <1>6 DEF SnapshotIsCurrent, CopyIsWhole
<1> QED
  BY <1>8, <1>9, <1>10, <1>11 DEF IInv

\* The inductive invariant of the project's content.
THEOREM Invariance == Spec => []IInv
<1>1. Init => IInv
  BY InitInv
<1>2. IInv /\ [Next]_vars => IInv'
  <2> SUFFICES ASSUME IInv, [Next]_vars PROVE IInv'
    OBVIOUS
  <2>1. CASE UNCHANGED <<documents, entry, counters, handlers, snapshot>>
    BY <2>1 DEF IInv, ContentTypes, LockInv, WriteInv, RowsAreApart, SnapshotIsCurrent,
                EntryFileExists, CopyIsWhole, Documents
  <2>2. CASE Browser
    BY <2>1, <2>2 DEF Browser, OpenControlStream, Receive, CloseLagged, LoadTree, LoadDocuments,
                      ServerUnchanged
  <2>3. CASE UNCHANGED vars
    BY <2>1, <2>3 DEF vars
  <2> QED
    BY <2>2, <2>3, RequestStep, CommitStep, HandlerEnds, SnapshotStep, RestartStep DEF Next
<1> QED
  BY <1>1, <1>2, PTL DEF Spec

\* The entry file of a project is always one of its documents: what deletion,
\* moves, settings and replacement checked under lock_project_content_exclusively
\* is still so when they commit, and an incremental change removes a document only
\* to put an asset in its place (create_project_file), never at a text path.
THEOREM EntryFileStays == Spec => []EntryFileExists
<1>1. IInv => EntryFileExists
  BY DEF IInv
<1> QED
  BY <1>1, Invariance, PTL

\* A copy records an entry file that it copies (copy_project), whatever committed
\* while it waited for its lock.
THEOREM CopiesAreWhole == Spec => []CopyIsWhole
<1>1. IInv => CopyIsWhole
  BY DEF IInv
<1> QED
  BY <1>1, Invariance, PTL

\* While a reader of a snapshot holds the project's row FOR SHARE, the documents it
\* read are the committed ones, although incremental changes are under way.
THEOREM SnapshotsAreCurrent == Spec => []SnapshotIsCurrent
<1>1. IInv => SnapshotIsCurrent
  BY DEF IInv
<1> QED
  BY <1>1, Invariance, PTL

\* Two requests in flight never write the same document: the row locks of
\* incremental changes and the project's row keep them apart, so no commit
\* overwrites what another has not seen.
THEOREM WritersAreApart == Spec => []RowsAreApart
<1>1. IInv => RowsAreApart
  BY DEF IInv
<1> QED
  BY <1>1, Invariance, PTL
-----------------------------------------------------------------------------
(***************************************************************************)
(* Change sequence numbers, by which list_after_change_sequence pages.     *)
(***************************************************************************)
\* The rows that an open transaction of h has written, and their numbers.
Number(h, p) == handlers[h].write.documents[p]
Pending(h) ==
  {p \in DOMAIN handlers[h].write.documents : handlers[h].lock # "none" /\ Number(h, p) # None}

\* A change sequence number stands for one change: no two rows, committed or
\* written by an open transaction, have the same.
NumbersAreDistinct ==
  /\ \A p, q \in Documents : documents[p] = documents[q] => p = q
  /\ \A h \in Handlers : \A p \in Pending(h) :
       /\ \A q \in Documents : documents[q] # Number(h, p)
       /\ \A g \in Handlers : \A q \in Pending(g) : Number(g, q) = Number(h, p) => g = h /\ q = p

\* Numbers come from the sequence, and what is about to replace a row has a
\* larger one.
NumbersInv ==
  /\ \A p \in Documents : documents[p] <= counters.sequence
  /\ \A h \in Handlers : \A p \in Pending(h) :
       /\ Number(h, p) <= counters.sequence
       /\ p \in Documents => documents[p] < Number(h, p)
  /\ NumbersAreDistinct

\* Different rows of one statement get different numbers, and all it draws.
LEMMA NumberingDistinct ==
  ASSUME NEW S, IsFiniteSet(S)
  PROVE  /\ Cardinality(S) \in Nat
         /\ \A p \in S : Numbering(S)[p] \in Nat /\ 1 <= Numbering(S)[p]
                         /\ Numbering(S)[p] <= Cardinality(S)
         /\ \A p, q \in S : Numbering(S)[p] = Numbering(S)[q] => p = q
<1>1. Cardinality(S) \in Nat
  BY FS_CardinalityType
<1>2. Numbering(S) \in [S -> 1..Cardinality(S)] /\ IsInjective(Numbering(S))
  BY NumberingIsInjection DEF Injection
<1>3. \A p \in S : Numbering(S)[p] \in 1..Cardinality(S)
  BY <1>2
<1>4. \A p, q \in S : Numbering(S)[p] = Numbering(S)[q] => p = q
  BY <1>2 DEF IsInjective
<1> QED
  BY <1>1, <1>3, <1>4

\* What a request writes when it begins has numbers it drew.
FreshlyNumbered(w) ==
  /\ counters.sequence <= counters'.sequence
  /\ \A p \in DOMAIN w.documents : w.documents[p] # None =>
       counters.sequence < w.documents[p] /\ w.documents[p] <= counters'.sequence
  /\ \A p, q \in DOMAIN w.documents :
       w.documents[p] # None /\ w.documents[p] = w.documents[q] => p = q

\* The committed rows and the rows of open transactions are numbers.
LEMMA NumberTypes ==
  ASSUME IInv
  PROVE  /\ counters.sequence \in Nat
         /\ \A p \in Documents : p \in Paths /\ documents[p] \in Nat
         /\ \A h \in Handlers : \A p \in Pending(h) : p \in Paths /\ Number(h, p) \in Nat
<1>1. counters.sequence \in Nat /\ \A p \in Documents : p \in Paths /\ documents[p] \in Nat
  BY DEF IInv, ContentTypes, Documents
<1>2. ASSUME NEW h \in Handlers, NEW p \in Pending(h)
      PROVE  p \in Paths /\ Number(h, p) \in Nat
  <2>1. Writes(handlers[h].write) /\ p \in DOMAIN handlers[h].write.documents /\ Number(h, p) # None
    BY <1>2 DEF IInv, WriteInv, LockInv, Pending
  <2> QED
    BY <2>1 DEF Writes, Number
<1> QED
  BY <1>1, <1>2

LEMMA NumbersBegin ==
  ASSUME IInv, NumbersInv, NEW h \in Handlers, NEW lock, NEW w, Begun(h, lock, w), Writes(w),
         counters' \in [sequence: Nat, restarts: Nat], FreshlyNumbered(w)
  PROVE  NumbersInv'
<1>0. /\ UNCHANGED documents /\ Documents' = Documents
      /\ handlers' = [handlers EXCEPT ![h] = [phase |-> "writing", lock |-> lock, write |-> w]]
      /\ handlers = [g \in Handlers |-> handlers[g]]
  BY DEF Begun, Documents, IInv, ContentTypes
<1>1. ASSUME NEW g \in Handlers, g # h
      PROVE  Pending(g)' = Pending(g) /\ \A p \in Pending(g) : Number(g, p)' = Number(g, p)
  BY <1>0, <1>1 DEF Pending, Number
<1>2. ASSUME NEW p \in Pending(h)'
      PROVE  /\ p \in DOMAIN w.documents /\ w.documents[p] # None /\ w.documents[p] \in Nat
             /\ Number(h, p)' = w.documents[p]
             /\ counters.sequence < w.documents[p] /\ w.documents[p] <= counters'.sequence
  <2>1. handlers'[h].write = w
    BY <1>0
  <2>2. p \in DOMAIN w.documents /\ w.documents[p] # None /\ Number(h, p)' = w.documents[p]
    BY <1>2, <2>1 DEF Pending, Number
  <2> QED
    BY <2>2 DEF Writes, FreshlyNumbered
<1>3. /\ counters.sequence \in Nat /\ counters'.sequence \in Nat
      /\ counters.sequence <= counters'.sequence
      /\ \A p \in Documents : documents[p] \in Nat /\ documents[p] <= counters.sequence
      /\ \A g \in Handlers : \A p \in Pending(g) :
           Number(g, p) \in Nat /\ Number(g, p) <= counters.sequence
  BY NumberTypes DEF FreshlyNumbered, NumbersInv
<1>4. \A p \in Documents : documents'[p] <= counters'.sequence
  BY <1>0, <1>3
<1>5. ASSUME NEW g \in Handlers, NEW p \in Pending(g)'
      PROVE  /\ Number(g, p)' <= counters'.sequence
             /\ p \in Documents => documents[p] < Number(g, p)'
             /\ \A q \in Documents : documents[q] # Number(g, p)'
             /\ \A f \in Handlers : \A q \in Pending(f)' : Number(f, q)' = Number(g, p)' => f = g /\ q = p
  <2>1. CASE g = h
    <3>1. /\ Number(g, p)' = w.documents[p] /\ p \in DOMAIN w.documents /\ w.documents[p] # None
          /\ w.documents[p] \in Nat /\ counters.sequence < w.documents[p]
          /\ w.documents[p] <= counters'.sequence
      BY <1>2, <1>5, <2>1
    <3>2. ASSUME NEW f \in Handlers, NEW q \in Pending(f)', Number(f, q)' = Number(g, p)'
          PROVE  f = g /\ q = p
      <4>1. CASE f = h
        BY <1>2, <2>1, <3>1, <3>2, <4>1 DEF FreshlyNumbered
      <4>2. CASE f # h
        BY <1>1, <1>3, <3>1, <3>2, <4>2
      <4> QED
        BY <4>1, <4>2
    <3> QED
      BY <1>3, <3>1, <3>2
  <2>2. CASE g # h
    <3>1. p \in Pending(g) /\ Number(g, p)' = Number(g, p)
      BY <1>1, <1>5, <2>2
    <3>2. ASSUME NEW f \in Handlers, NEW q \in Pending(f)', Number(f, q)' = Number(g, p)'
          PROVE  f = g /\ q = p
      <4>1. CASE f = h
        BY <1>2, <1>3, <3>1, <3>2, <4>1
      <4>2. CASE f # h
        BY <1>1, <3>1, <3>2, <4>2 DEF NumbersInv, NumbersAreDistinct
      <4> QED
        BY <4>1, <4>2
    <3> QED
      BY <1>3, <3>1, <3>2 DEF NumbersInv, NumbersAreDistinct
  <2> QED
    BY <2>1, <2>2
<1>6. \A p, q \in Documents : documents[p] = documents[q] => p = q
  BY DEF NumbersInv, NumbersAreDistinct
<1> QED
  BY <1>0, <1>4, <1>5, <1>6 DEF NumbersInv, NumbersAreDistinct
\* A request that draws no number removes rows or writes none.
LEMMA NothingNumbered ==
  ASSUME IInv, NEW w, UNCHANGED counters, \A p \in DOMAIN w.documents : w.documents[p] = None
  PROVE  FreshlyNumbered(w) /\ counters' \in [sequence: Nat, restarts: Nat]
BY DEF FreshlyNumbered, IInv, ContentTypes

\* Numbers drawn for the rows of S, one for each.
LEMMA DrawnFor ==
  ASSUME IInv, NEW S, IsFiniteSet(S), Draws(Cardinality(S))
  PROVE  /\ counters' \in [sequence: Nat, restarts: Nat]
         /\ counters.sequence <= counters'.sequence
         /\ \A p \in S : /\ Sequence(Numbering(S)[p]) \in Nat
                         /\ counters.sequence < Sequence(Numbering(S)[p])
                         /\ Sequence(Numbering(S)[p]) <= counters'.sequence
         /\ \A p, q \in S :
              Sequence(Numbering(S)[p]) = Sequence(Numbering(S)[q]) => p = q
<1>1. /\ Cardinality(S) \in Nat
      /\ \A p \in S : Numbering(S)[p] \in Nat /\ 1 <= Numbering(S)[p]
                      /\ Numbering(S)[p] <= Cardinality(S)
      /\ \A p, q \in S : Numbering(S)[p] = Numbering(S)[q] => p = q
  BY NumberingDistinct
<1>2. counters.sequence \in Nat /\ counters'.sequence = counters.sequence + Cardinality(S)
  BY DEF IInv, ContentTypes, Draws
<1>3. counters' \in [sequence: Nat, restarts: Nat]
  BY <1>1, DrawsType DEF IInv
<1>4. counters.sequence <= counters'.sequence
  BY <1>1, <1>2
<1>5. ASSUME NEW p \in S
      PROVE  /\ Sequence(Numbering(S)[p]) \in Nat
             /\ counters.sequence < Sequence(Numbering(S)[p])
             /\ Sequence(Numbering(S)[p]) <= counters'.sequence
  BY <1>1, <1>2, <1>5 DEF Sequence
<1>6. ASSUME NEW p \in S, NEW q \in S, Sequence(Numbering(S)[p]) = Sequence(Numbering(S)[q])
      PROVE  p = q
  <2>1. Numbering(S)[p] = Numbering(S)[q]
    BY <1>1, <1>2, <1>6 DEF Sequence
  <2> QED
    BY <1>1, <2>1
<1> QED
  BY <1>3, <1>4, <1>5, <1>6

\* Each request numbers what it writes.
LEMMA IncrementalNumbers ==
  ASSUME IInv, NumbersInv, NEW h \in Handlers, NEW p \in Paths, Incremental(h, p)
  PROVE  NumbersInv'
<1> DEFINE rows == [q \in {p} |-> Sequence(1)]
           w == [NoWrite EXCEPT !.documents = rows]
<1>1. w.documents = rows /\ DOMAIN rows = {p} /\ rows[p] = Sequence(1)
  BY NoWriteFields
<1>2. Begun(h, "share", w) /\ Draws(1)
  BY DEF Incremental
<1>3. /\ counters.sequence \in Nat /\ counters'.sequence = counters.sequence + 1
      /\ Sequence(1) = counters.sequence + 1
  BY <1>2 DEF IInv, ContentTypes, Draws, Sequence
<1>4. counters' \in [sequence: Nat, restarts: Nat]
  BY <1>2, DrawsType DEF IInv
<1> HIDE DEF w, rows
<1>5. Writes(w) /\ FreshlyNumbered(w)
  BY <1>1, <1>3 DEF Writes, FreshlyNumbered
<1> QED
  BY <1>2, <1>4, <1>5, NumbersBegin

LEMMA UnnumberedSteps ==
  ASSUME IInv, NumbersInv, NEW h \in Handlers, NEW p \in Paths,
         \/ DeleteDocument(h, p) \/ CreateDirectory(h, p) \/ CreateAssetFile(h, p)
         \/ DeleteProjectFile(h, p) \/ ChangeEntryFile(h, p)
  PROVE  NumbersInv'
<1>1. ASSUME NEW lock, NEW w, NEW S \in SUBSET Paths, Begun(h, lock, w), UNCHANGED counters,
             w.documents = [q \in S |-> None]
      PROVE  NumbersInv'
  <2>1. DOMAIN w.documents = S /\ \A q \in DOMAIN w.documents : w.documents[q] = None
    BY <1>1
  <2>2. Writes(w)
    BY <2>1 DEF Writes
  <2> QED
    BY <1>1, <2>1, <2>2, NothingNumbered, NumbersBegin
<1>2. CASE DeleteDocument(h, p)
  <2> DEFINE w == [NoWrite EXCEPT !.documents = [q \in {p} |-> None]]
  <2>1. Begun(h, "update", w) /\ UNCHANGED counters /\ w.documents = [q \in {p} |-> None]
    BY <1>2, NoWriteFields DEF DeleteDocument
  <2> HIDE DEF w
  <2> QED
    BY <1>1, <2>1
<1>3. CASE CreateDirectory(h, p)
  <2> DEFINE w == [NoWrite EXCEPT !.mkdir = {p}]
  <2>1. Begun(h, "share", w) /\ UNCHANGED counters /\ w.documents = [q \in {} |-> None]
    BY <1>3, NoWriteFields DEF CreateDirectory
  <2> HIDE DEF w
  <2> QED
    BY <1>1, <2>1
<1>6. CASE CreateAssetFile(h, p)
  <2> DEFINE gone == {p} \cap Documents
             w == [NoWrite EXCEPT !.documents = [q \in gone |-> None]]
  <2>1. /\ Begun(h, "share", w) /\ UNCHANGED counters /\ w.documents = [q \in gone |-> None]
        /\ gone \in SUBSET Paths
    BY <1>6, NoWriteFields DEF CreateAssetFile, Documents
  <2> HIDE DEF w, gone
  <2> QED
    BY <1>1, <2>1
<1>4. CASE DeleteProjectFile(h, p)
  <2> DEFINE gone == Subtree(p) \cap Documents
             w == [NoWrite EXCEPT !.documents = [q \in gone |-> None],
                                  !.rmdir = Subtree(p) \cap directories]
  <2>1. /\ Begun(h, "update", w) /\ UNCHANGED counters /\ w.documents = [q \in gone |-> None]
        /\ gone \in SUBSET Paths
    BY <1>4, NoWriteFields DEF DeleteProjectFile, Documents
  <2> HIDE DEF w, gone
  <2> QED
    BY <1>1, <2>1
<1>5. CASE ChangeEntryFile(h, p)
  <2> DEFINE w == [NoWrite EXCEPT !.entry = p]
  <2>1. Begun(h, "update", w) /\ UNCHANGED counters /\ w.documents = [q \in {} |-> None]
    BY <1>5, NoWriteFields DEF ChangeEntryFile
  <2> HIDE DEF w
  <2> QED
    BY <1>1, <2>1
<1> QED
  BY <1>2, <1>3, <1>4, <1>5, <1>6

LEMMA MoveNumbers ==
  ASSUME IInv, NumbersInv, NEW h \in Handlers, NEW from \in Paths, NEW to \in Paths,
         MoveProjectFile(h, from, to)
  PROVE  NumbersInv'
<1> DEFINE moved == Subtree(from) \cap Documents
           dirs == Subtree(from) \cap directories
           rows == MovedRows(from, to, moved)
           source(q) == CHOOSE p \in moved : MovedPath(p, from, to) = q
           w == [NoWrite EXCEPT !.documents = rows, !.mkdir = Target(from, to, dirs),
                                !.rmdir = dirs, !.entry = MovedEntry(from, to)]
<1>1. w.documents = rows
  BY NoWriteFields
<1>2. /\ Begun(h, "update", w) /\ Draws(Cardinality(moved))
      /\ Target(from, to, moved \cup dirs) \subseteq Paths
  BY DEF MoveProjectFile
<1>3. moved \subseteq Paths /\ Target(from, to, moved) \subseteq Paths
  BY <1>2 DEF Documents, Target
<1>4. IsFiniteSet(moved)
  BY <1>3, PathAssumption, FS_Subset
<1>5. \A q \in Target(from, to, moved) : source(q) \in moved /\ MovedPath(source(q), from, to) = q
  BY DEF Target
<1>6. /\ DOMAIN rows = Target(from, to, moved) \cup moved
      /\ \A q \in Target(from, to, moved) : rows[q] = Sequence(Numbering(moved)[source(q)])
      /\ \A q \in moved \ Target(from, to, moved) : rows[q] = None
  BY DEF MovedRows
<1> HIDE DEF w, rows, source, moved
<1>7. /\ counters' \in [sequence: Nat, restarts: Nat]
      /\ counters.sequence <= counters'.sequence
      /\ \A p \in moved : /\ Sequence(Numbering(moved)[p]) \in Nat
                          /\ counters.sequence < Sequence(Numbering(moved)[p])
                          /\ Sequence(Numbering(moved)[p]) <= counters'.sequence
      /\ \A p, q \in moved :
           Sequence(Numbering(moved)[p]) = Sequence(Numbering(moved)[q]) => p = q
  BY <1>2, <1>4, DrawnFor
<1>8. Writes(w)
  BY <1>1, <1>3, <1>5, <1>6, <1>7 DEF Writes
<1>9. \A q \in DOMAIN rows : rows[q] # None => q \in Target(from, to, moved)
  BY <1>6
<1>10. FreshlyNumbered(w)
  <2>1. \A q \in DOMAIN rows : rows[q] # None =>
          counters.sequence < rows[q] /\ rows[q] <= counters'.sequence
    BY <1>5, <1>6, <1>7, <1>9
  <2>2. ASSUME NEW q \in DOMAIN rows, NEW r \in DOMAIN rows, rows[q] # None, rows[q] = rows[r]
        PROVE  q = r
    <3>1. q \in Target(from, to, moved) /\ r \in Target(from, to, moved)
      BY <1>9, <2>2
    <3>2. source(q) = source(r)
      BY <1>5, <1>6, <1>7, <2>2, <3>1
    <3> QED
      BY <1>5, <3>1, <3>2
  <2> QED
    BY <1>1, <1>7, <2>1, <2>2 DEF FreshlyNumbered
<1> QED
  BY <1>2, <1>7, <1>8, <1>10, NumbersBegin

LEMMA ReplaceNumbers ==
  ASSUME IInv, NumbersInv, NEW h \in Handlers, NEW content \in SUBSET Paths, NEW p \in Paths,
         ReplaceProjectContent(h, content, p)
  PROVE  NumbersInv'
<1> DEFINE rows == [q \in Documents \cup content |->
                      IF q \in content THEN Sequence(Numbering(content)[q]) ELSE None]
           w == [NoWrite EXCEPT !.documents = rows, !.rmdir = directories, !.entry = p,
                                !.replaced = TRUE]
<1>1. w.documents = rows
  BY NoWriteFields
<1>2. Begun(h, "update", w) /\ Draws(Cardinality(content))
  BY DEF ReplaceProjectContent
<1>3. IsFiniteSet(content)
  BY PathAssumption, FS_Subset
<1>4. /\ counters' \in [sequence: Nat, restarts: Nat]
      /\ counters.sequence <= counters'.sequence
      /\ \A q \in content : /\ Sequence(Numbering(content)[q]) \in Nat
                            /\ counters.sequence < Sequence(Numbering(content)[q])
                            /\ Sequence(Numbering(content)[q]) <= counters'.sequence
      /\ \A q, r \in content :
           Sequence(Numbering(content)[q]) = Sequence(Numbering(content)[r]) => q = r
  BY <1>2, <1>3, DrawnFor
<1>5. /\ DOMAIN rows = Documents \cup content /\ Documents \subseteq Paths
      /\ \A q \in content : rows[q] = Sequence(Numbering(content)[q])
      /\ \A q \in Documents \ content : rows[q] = None
  BY DEF Documents
<1> HIDE DEF w, rows
<1>6. Writes(w)
  BY <1>1, <1>4, <1>5 DEF Writes
<1>7. FreshlyNumbered(w)
  BY <1>1, <1>4, <1>5 DEF FreshlyNumbered
<1> QED
  BY <1>2, <1>4, <1>6, <1>7, NumbersBegin

LEMMA RequestNumbers ==
  ASSUME IInv, NumbersInv, NEW h \in Handlers, Request(h)
  PROVE  NumbersInv'
<1>1. CASE DocumentRequest(h)
  BY <1>1, IncrementalNumbers, UnnumberedSteps
  DEF DocumentRequest, CreateDocument, UpsertDocumentByPath, UpdateDocument
<1>2. CASE FileRequest(h)
  BY <1>2, IncrementalNumbers, UnnumberedSteps, MoveNumbers DEF FileRequest, CreateTextFile
<1>3. CASE SettingsRequest(h)
  BY <1>3, UnnumberedSteps DEF SettingsRequest
<1>4. CASE \E p \in Paths : ProjectDocument(h, p)
  BY <1>4, IncrementalNumbers DEF ProjectDocument
<1>5. CASE \E S \in SUBSET Paths, p \in Paths : ReplaceProjectContent(h, S, p)
  BY <1>5, ReplaceNumbers
<1> QED
  BY <1>1, <1>2, <1>3, <1>4, <1>5 DEF Request

\* A commit turns the numbers of its transaction into those of the rows.
LEMMA CommitNumbers ==
  ASSUME IInv, NumbersInv, NEW h \in Handlers, Commit(h)
  PROVE  /\ NumbersInv'
         /\ \A p \in Documents : documents'[p] \notin {None, documents[p]} =>
              documents[p] < documents'[p]
<1>0. /\ handlers[h].phase = "writing" /\ handlers[h].lock # "none"
      /\ documents' = Overwritten(documents, handlers[h].write.documents)
      /\ handlers' = [handlers EXCEPT ![h] = [phase |-> "committed", lock |-> "none",
           write |-> [NoWrite EXCEPT !.replaced = handlers[h].write.replaced]]]
      /\ handlers = [g \in Handlers |-> handlers[g]]
      /\ UNCHANGED counters
  BY DEF Commit, IInv, LockInv, ContentTypes
<1>1. Pending(h)' = {} /\ \A g \in Handlers : g # h => handlers'[g] = handlers[g]
  BY <1>0 DEF Pending
<1>2. ASSUME NEW g \in Handlers, g # h
      PROVE  Pending(g)' = Pending(g) /\ \A p \in Pending(g) : Number(g, p)' = Number(g, p)
  BY <1>1, <1>2 DEF Pending, Number
<1>3. ASSUME NEW p \in Documents'
      PROVE  /\ p \in Paths
             /\ \/ p \in Pending(h) /\ documents'[p] = Number(h, p)
                \/ /\ p \in Documents /\ documents'[p] = documents[p]
                   /\ p \notin DOMAIN handlers[h].write.documents
  BY <1>0, <1>3 DEF Documents, Overwritten, Pending, Number
<1>4. /\ counters.sequence \in Nat
      /\ \A p \in Documents : documents[p] \in Nat
      /\ \A g \in Handlers : \A p \in Pending(g) : Number(g, p) \in Nat
  BY NumberTypes
<1>5. \A p \in Documents' : documents'[p] <= counters'.sequence
  BY <1>0, <1>3 DEF NumbersInv
<1>6. \A p, q \in Documents' : documents'[p] = documents'[q] => p = q
  BY <1>3 DEF NumbersInv, NumbersAreDistinct
<1>7. ASSUME NEW g \in Handlers, NEW p \in Pending(g)'
      PROVE  /\ Number(g, p)' <= counters'.sequence
             /\ p \in Documents' => documents'[p] < Number(g, p)'
             /\ \A q \in Documents' : documents'[q] # Number(g, p)'
             /\ \A f \in Handlers : \A q \in Pending(f)' :
                  Number(f, q)' = Number(g, p)' => f = g /\ q = p
  <2>1. g # h /\ p \in Pending(g) /\ Number(g, p)' = Number(g, p)
    BY <1>1, <1>2, <1>7
  <2>2. p \notin Pending(h)
    BY <1>0, <2>1 DEF IInv, RowsAreApart, Pending
  <2>3. p \in Documents' => p \in Documents /\ documents'[p] = documents[p]
    BY <1>3, <2>2
  <2>4. p \in Documents' => documents'[p] < Number(g, p)'
    BY <2>1, <2>3 DEF NumbersInv
  <2>5. \A q \in Documents' : documents'[q] # Number(g, p)'
    BY <1>3, <2>1 DEF NumbersInv, NumbersAreDistinct
  <2>6. ASSUME NEW f \in Handlers, NEW q \in Pending(f)', Number(f, q)' = Number(g, p)'
        PROVE  f = g /\ q = p
    <3>1. f # h /\ q \in Pending(f) /\ Number(f, q)' = Number(f, q)
      BY <1>1, <1>2, <2>6
    <3> QED
      BY <2>1, <2>6, <3>1 DEF NumbersInv, NumbersAreDistinct
  <2> QED
    BY <1>0, <2>1, <2>4, <2>5, <2>6 DEF NumbersInv
<1>8. NumbersInv'
  BY <1>5, <1>6, <1>7 DEF NumbersInv, NumbersAreDistinct
<1>9. ASSUME NEW p \in Documents, documents'[p] \notin {None, documents[p]}
      PROVE  documents[p] < documents'[p]
  <2>1. p \in Documents'
    BY <1>9 DEF Documents
  <2> QED
    BY <1>3, <1>9, <2>1 DEF NumbersInv
<1> QED
  BY <1>8, <1>9

\* Steps that end or leave transactions draw and write nothing.
LEMMA NumbersStay ==
  ASSUME NumbersInv, UNCHANGED documents, counters'.sequence = counters.sequence,
         \A g \in Handlers : handlers'[g] = handlers[g] \/ handlers'[g].lock = "none"
  PROVE  NumbersInv'
<1>1. Documents' = Documents
  BY DEF Documents
<1>2. ASSUME NEW g \in Handlers, NEW p \in Pending(g)'
      PROVE  p \in Pending(g) /\ Number(g, p)' = Number(g, p)
  BY <1>2 DEF Pending, Number
<1> QED
  BY <1>1, <1>2 DEF NumbersInv, NumbersAreDistinct

LEMMA NumbersStep ==
  ASSUME IInv, NumbersInv, [Next]_vars
  PROVE  NumbersInv'
<1>0. handlers = [g \in Handlers |-> handlers[g]]
  BY DEF IInv, ContentTypes
<1>1. CASE UNCHANGED vars
  BY <1>1, NumbersStay DEF vars
<1>2. ASSUME NEW h \in Handlers, Rollback(h) \/ WorkspaceChanged(h) \/ Unannounced(h)
      PROVE  NumbersInv'
  <2>1. /\ UNCHANGED <<documents, counters>> /\ handlers' = [handlers EXCEPT ![h] = Idle]
        /\ Idle.lock = "none"
    BY <1>2 DEF Rollback, WorkspaceChanged, Unannounced, Idle
  <2>2. \A g \in Handlers : handlers'[g] = handlers[g] \/ handlers'[g].lock = "none"
    BY <1>0, <2>1
  <2> QED
    BY <2>1, <2>2, NumbersStay
<1>3. CASE SnapshotStarts \/ SnapshotLocks \/ CopyProjectSource \/ CopyProject \/ ArchiveProject
  BY <1>3, NumbersStay
  DEF SnapshotStarts, SnapshotLocks, CopyProjectSource, CopyProject, ArchiveProject
<1>4. CASE Browser
  BY <1>4, NumbersStay
  DEF Browser, OpenControlStream, Receive, CloseLagged, LoadTree, LoadDocuments, ServerUnchanged
<1>5. CASE Restart
  <2>1. /\ UNCHANGED documents /\ counters'.sequence = counters.sequence
        /\ handlers' = [h \in Handlers |-> Idle] /\ Idle.lock = "none"
    BY <1>5 DEF Restart, Idle, IInv, ContentTypes
  <2> QED
    BY <2>1, NumbersStay
<1> QED
  BY <1>1, <1>2, <1>3, <1>4, <1>5, RequestNumbers, CommitNumbers DEF Next

\* The inductive invariant of the numbers.
THEOREM NumbersInvariance == Spec => []NumbersInv
<1>1. Init => NumbersInv
  <2> SUFFICES ASSUME Init PROVE NumbersInv
    OBVIOUS
  <2>1. PICK content \in Starters : CreateProjectGraph(content)
    BY DEF Init
  <2>2. content \subseteq Paths /\ IsFiniteSet(content)
    BY PathAssumption, FS_Subset
  <2>3. /\ documents = [p \in Paths |-> IF p \in content THEN Numbering(content)[p] ELSE None]
        /\ counters.sequence = Cardinality(content)
    BY <2>1 DEF CreateProjectGraph
  <2>4. \A p \in Documents : p \in content /\ documents[p] = Numbering(content)[p]
    BY <2>3 DEF Documents
  <2>5. \A h \in Handlers : Pending(h) = {}
    BY DEF Init, Idle, Pending
  <2>6. /\ \A p \in content : Numbering(content)[p] <= Cardinality(content)
        /\ \A p, q \in content : Numbering(content)[p] = Numbering(content)[q] => p = q
    BY <2>2, NumberingDistinct
  <2> QED
    BY <2>3, <2>4, <2>5, <2>6 DEF NumbersInv, NumbersAreDistinct
<1>2. IInv /\ NumbersInv /\ [Next]_vars => NumbersInv'
  BY NumbersStep
<1> QED
  BY <1>1, <1>2, Invariance, PTL DEF Spec

\* A change sequence number is never given twice, although several transactions
\* draw numbers, roll back and commit in another order: a page that ends with one
\* row of list_after_change_sequence never hides a second one behind it.
THEOREM NumbersStayDistinct == Spec => []NumbersAreDistinct
<1>1. NumbersInv => NumbersAreDistinct
  BY DEF NumbersInv
<1> QED
  BY <1>1, NumbersInvariance, PTL

\* A document that changes gets a larger number.
RowsAdvance ==
  [][\A p \in Documents : documents'[p] \notin {None, documents[p]} =>
       documents[p] < documents'[p]]_vars

\* A reader that has the number of a row will be given the row again once it
\* changed, whichever of two requests drew its number first: the row's lock keeps
\* their order (upsert_by_path, update_content, move_subtree).
THEOREM RowsOnlyAdvance == Spec => RowsAdvance
<1>1. ASSUME IInv, NumbersInv, Next, NEW p \in Documents, documents'[p] \notin {None, documents[p]}
      PROVE  documents[p] < documents'[p]
  <2>1. PICK h \in Handlers : Commit(h)
    <3>1. ASSUME NEW h \in Handlers, Request(h) PROVE UNCHANGED documents
      BY <3>1 DEF Request, DocumentRequest, FileRequest, SettingsRequest, CreateDocument,
         UpsertDocumentByPath, UpdateDocument, ProjectDocument, DeleteDocument, CreateDirectory,
         CreateTextFile, CreateAssetFile, MoveProjectFile, DeleteProjectFile, ChangeEntryFile,
         ReplaceProjectContent, Incremental, Begun
    <3> QED
      BY <1>1, <3>1 DEF Next, Rollback, WorkspaceChanged, Unannounced, SnapshotStarts, SnapshotLocks,
         CopyProjectSource, CopyProject, ArchiveProject, Browser, OpenControlStream, Receive,
         CloseLagged, LoadTree, LoadDocuments, ServerUnchanged, Restart
  <2> QED
    BY <1>1, <2>1, CommitNumbers
<1>2. IInv /\ NumbersInv /\ [Next]_vars =>
        [\A p \in Documents : documents'[p] \notin {None, documents[p]} =>
           documents[p] < documents'[p]]_vars
  BY <1>1
<1> QED
  BY <1>2, Invariance, NumbersInvariance, PTL DEF Spec, RowsAdvance
=============================================================================
