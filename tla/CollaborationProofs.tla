------------------------ MODULE CollaborationProofs ------------------------
(***************************************************************************)
(* What the document streams guarantee for any number of tabs, edits and   *)
(* updates: compaction and pruning lose no accepted edit, a capture sees   *)
(* them all, a live stream misses none, and a stream whose authorization   *)
(* is outdated is told.                                                    *)
(***************************************************************************)
EXTENDS Collaboration, WellFoundedInduction, NaturalsInduction, TLAPS

Doc == [epoch: Nat, rev: Nat]
Txt == [seed: Doc \cup {None}, edits: SUBSET Edits]
LogRow == [id: Nat, doc: Doc, edits: SUBSET Edits, by: Clients]
SnapshotRow == [doc: Doc, upto: Nat, text: Txt]
Stream == [step: Steps, doc: Doc, canWrite: BOOLEAN, access: Nat, seed: Txt \cup {None},
           queue: Seq(Event), lagged: BOOLEAN, told: BOOLEAN, payload: SUBSET Edits,
           kind: {"update", "sync"}, ydoc: SUBSET Edits, synced: BOOLEAN]

TypeInv ==
  /\ project \in [content: Nat, access: Nat, role: [Clients -> Roles]]
  /\ document \in [present: BOOLEAN, rev: Nat, text: Txt]
  /\ log \subseteq LogRow /\ snapshots \subseteq SnapshotRow
  /\ lastId \in Nat
  /\ accepted \subseteq [doc: Doc, edit: Edits]
  /\ clients \in [Clients -> Stream]
  /\ due \in [access: Nat, content: Nat]
  /\ worker \in Doc \cup {None}

-----------------------------------------------------------------------------
\* A document that was or is the current one: a later one has no rows yet.
Known(d) == d.epoch < project.content \/ (d.epoch = project.content /\ d.rev <= document.rev)

\* One snapshot per document, with a watermark the sequence has reached; the
\* text of the current one is that of its snapshot.
SnapshotInv ==
  /\ \A s \in snapshots : s.upto <= lastId /\ Known(s.doc)
  /\ \A s, t \in snapshots : s.doc = t.doc => s = t
  /\ document.present => \A s \in snapshots : s.doc = Current => s.text = document.text

LogInv ==
  /\ \A u \in log : u.id <= lastId
  /\ \A a \in accepted : Known(a.doc)

StoreInv == SnapshotInv /\ LogInv /\ NoEditLost

-----------------------------------------------------------------------------
\* A tab has what it sends.
PayloadOK(r) == r.step \in {"writing", "answering"} => r.payload \subseteq r.ydoc

\* A stream that is forwarded to, and the edits it has or is about to get.
Reads(r) == r.step \in {"live", "writing", "answering"} /\ ~r.told /\ ~r.lagged
Heard(r, a) ==
  \/ a.edit \in r.ydoc
  \/ \E i \in DOMAIN r.queue : a.edit \in r.queue[i].edits \/ r.queue[i].kind = "end"

\* A stream that will still broadcast an edit: in its answer, or with the full
\* state it sends once it is back.
Owes(r, a) ==
  /\ r.doc = a.doc
  /\ \/ r.step = "answering" /\ a.edit \in r.payload
     \/ /\ a.edit \in r.ydoc /\ ~r.synced
        /\ r.step \in {"writing", "answering"} /\ r.kind = "sync" => a.edit \in r.payload

ReaderOK(r) ==
  Reads(r) => \A a \in accepted : a.doc = r.doc /\ a.doc = Current =>
                 Heard(r, a) \/ \E c \in Clients : Owes(clients[c], a)

\* A stream is checked for its content first and for its access after that.
Joined(r) == r.step \notin {"closed", "admitted", "authorized"}
Warned(r) == r.told \/ r.lagged \/ \E i \in DOMAIN r.queue : r.queue[i].kind = "end"
StaleOK(r) ==
  Joined(r) =>
    /\ r.step # "joined" /\ r.doc.epoch # project.content => Warned(r) \/ due.content > 0
    /\ r.step \notin {"joined", "rechecked"} /\ r.access # project.access
         => Warned(r) \/ due.access > 0

StreamInv ==
  \A c \in Clients : PayloadOK(clients[c]) /\ ReaderOK(clients[c]) /\ StaleOK(clients[c])

IInv == TypeInv /\ StoreInv /\ StreamInv

-----------------------------------------------------------------------------
\* The update log is numbered by naturals, so updates have a last one.
LEMMA LeastExists ==
  ASSUME NEW S \in SUBSET Nat, S # {}
  PROVE  \E m \in S : \A k \in S : m <= k
<1>1. IsWellFoundedOn(OpToRel(<, Nat), Nat)
  BY NatLessThanWellFounded
<1>2. PICK m \in S : \A k \in S : ~(<<k, m>> \in OpToRel(<, Nat))
  BY <1>1, WFMin
<1>3. \A k \in S : ~(k < m)
  BY <1>2 DEF OpToRel
<1> QED
  BY <1>3

\* A set of naturals below a bound has a greatest member.
LEMMA GreatestExists ==
  ASSUME NEW N \in Nat, NEW S \in SUBSET (0..N), S # {}
  PROVE  \E m \in S : \A k \in S : k <= m
<1> DEFINE T == {t \in Nat : \E k \in S : t = N - k}
<1>1. T \in SUBSET Nat /\ T # {}
  <2>1. PICK k \in S : TRUE
    OBVIOUS
  <2>2. N - k \in Nat
    BY <2>1
  <2> QED
    BY <2>1, <2>2
<1>2. PICK t \in T : \A u \in T : t <= u
  BY <1>1, LeastExists
<1>3. PICK m \in S : t = N - m
  OBVIOUS
<1> QED
  BY <1>2, <1>3

\* Newest is the watermark after the updates us that follow id.
LEMMA NewestFacts ==
  ASSUME NEW N \in Nat, NEW us \in SUBSET LogRow, \A u \in us : u.id <= N,
         NEW id \in Nat, id <= N, \A u \in us : id < u.id
  PROVE  Newest(us, id) \in Nat /\ Newest(us, id) <= N /\ id <= Newest(us, id)
<1>1. CASE us = {}
  BY <1>1 DEF Newest
<1>2. CASE us # {}
  <2> DEFINE ids == {i \in 0..N : \E u \in us : u.id = i}
  <2>1. \A u \in us : u.id \in ids
    BY DEF LogRow
  <2>2. ids # {}
    BY <1>2, <2>1
  <2>3. PICK m \in ids : \A k \in ids : k <= m
    BY <2>2, GreatestExists
  <2>4. \E u \in us : \A v \in us : v.id <= u.id
    BY <2>1, <2>3
  <2>5. (CHOOSE u \in us : \A v \in us : v.id <= u.id) \in us
    BY <2>4
  <2> QED
    BY <1>2, <2>5 DEF Newest, LogRow
<1> QED
  BY <1>1, <1>2

\* A document has at most one snapshot, whose watermark Upto is.
LEMMA UptoFacts ==
  ASSUME TypeInv, SnapshotInv, NEW d \in Doc
  PROVE  /\ Upto(d) \in Nat /\ Upto(d) <= lastId
         /\ \A s \in snapshots : s.doc = d => SnapshotOf(d) = {s} /\ s.upto = Upto(d)
<1>1. CASE SnapshotOf(d) = {}
  <2>1. \A s \in snapshots : s.doc # d
    BY <1>1 DEF SnapshotOf
  <2>2. Upto(d) = 0
    BY <1>1 DEF Upto
  <2> QED
    BY <2>1, <2>2 DEF TypeInv
<1>2. CASE SnapshotOf(d) # {}
  <2>1. PICK s \in snapshots : s.doc = d
    BY <1>2 DEF SnapshotOf
  <2>2. SnapshotOf(d) = {s}
    BY <2>1 DEF SnapshotOf, SnapshotInv
  <2>3. (CHOOSE t \in SnapshotOf(d) : TRUE) = s
    BY <2>2
  <2>4. Upto(d) = s.upto
    BY <1>2, <2>3 DEF Upto
  <2>5. \A t \in snapshots : t.doc = d => t = s
    BY <2>1 DEF SnapshotInv
  <2>6. s.upto \in Nat /\ s.upto <= lastId
    BY <2>1 DEF TypeInv, SnapshotRow, SnapshotInv
  <2> QED
    BY <2>2, <2>4, <2>5, <2>6
<1> QED
  BY <1>1, <1>2

\* The document of the rows is an identity.
LEMMA CurrentFacts ==
  ASSUME TypeInv
  PROVE  Current \in Doc /\ Current.epoch = project.content /\ Current.rev = document.rev
  BY DEF TypeInv, Current, Doc

\* load_state and merge_updates: the state has all the edits of the snapshot and
\* of the updates that follow it, and a watermark that does not go back.
LEMMA LoadStateFacts ==
  ASSUME TypeInv, SnapshotInv, NEW d \in Doc, NEW seed \in Txt \cup {None},
         NEW N \in Nat, lastId <= N, NEW us \in SUBSET LogRow,
         \A u \in us : u.id <= N /\ Upto(d) < u.id
  PROVE  LET state == LoadState(d, us, seed)
         IN  /\ state.text \in Txt /\ state.upto \in Nat /\ state.upto <= N
             /\ Upto(d) <= state.upto
             /\ \A s \in snapshots : s.doc = d => s.text.edits \subseteq state.text.edits
             /\ \A u \in us : u.edits \subseteq state.text.edits
<1>1. lastId \in Nat /\ snapshots \subseteq SnapshotRow
  BY DEF TypeInv
<1>2. Upto(d) \in Nat /\ Upto(d) <= N
  BY <1>1, UptoFacts
<1>3. /\ Newest(us, Upto(d)) \in Nat /\ Newest(us, Upto(d)) <= N
      /\ Upto(d) <= Newest(us, Upto(d))
  BY <1>2, NewestFacts
<1> DEFINE base == IF SnapshotOf(d) # {} THEN (CHOOSE s \in SnapshotOf(d) : TRUE).text
                   ELSE IF seed = None THEN [seed |-> None, edits |-> {}] ELSE seed
           merged == UNION {u.edits : u \in us}
<1>4. base \in Txt /\ \A s \in snapshots : s.doc = d => base = s.text
  <2>1. CASE SnapshotOf(d) = {}
    <3>1. \A s \in snapshots : s.doc # d
      BY <2>1 DEF SnapshotOf
    <3>2. [seed |-> None, edits |-> {}] \in Txt
      BY DEF Txt
    <3> QED
      BY <2>1, <3>1, <3>2
  <2>2. CASE SnapshotOf(d) # {}
    <3>1. PICK s \in snapshots : s.doc = d
      BY <2>2 DEF SnapshotOf
    <3>2. SnapshotOf(d) = {s}
      BY <3>1, UptoFacts
    <3>3. (CHOOSE t \in SnapshotOf(d) : TRUE) = s
      BY <3>2
    <3>4. base = s.text /\ s.text \in Txt
      BY <1>1, <2>2, <3>1, <3>3 DEF SnapshotRow
    <3>5. \A t \in snapshots : t.doc = d => t = s
      BY <3>1 DEF SnapshotInv
    <3> QED
      BY <3>4, <3>5
  <2> QED
    BY <2>1, <2>2
<1>5. merged \subseteq Edits /\ \A u \in us : u.edits \subseteq merged
  BY DEF LogRow
<1>6. LoadState(d, us, seed) = [text |-> [base EXCEPT !.edits = @ \cup merged],
                                upto |-> Newest(us, Upto(d))]
  BY DEF LoadState
<1> HIDE DEF base, merged
<1>7. /\ LoadState(d, us, seed).text = [base EXCEPT !.edits = @ \cup merged]
      /\ LoadState(d, us, seed).upto = Newest(us, Upto(d))
  BY <1>6
<1>8. /\ LoadState(d, us, seed).text \in Txt
      /\ LoadState(d, us, seed).text.edits = base.edits \cup merged
  BY <1>4, <1>5, <1>7 DEF Txt
<1> QED
  BY <1>3, <1>4, <1>5, <1>7, <1>8

-----------------------------------------------------------------------------
(* Transactions on the rows of the current document.                       *)

\* A transaction that projects the current document over the log us: its new
\* snapshot has every accepted edit, so what it prunes is covered.
Compacts(us, seed) ==
  LET state == LoadState(Current, {u \in us : u.doc = Current /\ u.id > Upto(Current)}, seed)
  IN  /\ UNCHANGED project
      /\ document' = [document EXCEPT !.text = state.text]
      /\ snapshots' \subseteq UpsertSnapshot(Current, state)
      /\ \A s \in UpsertSnapshot(Current, state) : s.doc = Current => s \in snapshots'
      /\ log' \subseteq us
      /\ lastId' \in Nat /\ lastId <= lastId'
      /\ \A u \in us : u.id <= lastId'
      /\ \A a \in accepted' :
           a \in accepted \/ (a.doc = Current /\ \E u \in us : /\ u.doc = Current
                                                              /\ Upto(Current) < u.id
                                                              /\ a.edit \in u.edits)

\* It keeps every accepted edit, in the snapshot and in the text.
LEMMA CompactionKeeps ==
  ASSUME TypeInv, StoreInv, document.present, NEW us \in SUBSET LogRow, log \subseteq us,
         NEW seed \in Txt \cup {None}, Compacts(us, seed)
  PROVE  /\ StoreInv' /\ Current' = Current
         /\ snapshots' \subseteq SnapshotRow /\ log' \subseteq LogRow
         /\ document' \in [present: BOOLEAN, rev: Nat, text: Txt]
         /\ \A a \in accepted' : a.doc = Current => a.edit \in document'.text.edits
<1> DEFINE d == Current
           new == {u \in us : u.doc = d /\ u.id > Upto(d)}
<1>1. PICK state : state = LoadState(d, new, seed)
  OBVIOUS
<1>2. /\ UNCHANGED project /\ document' = [document EXCEPT !.text = state.text]
      /\ snapshots' \subseteq UpsertSnapshot(d, state)
      /\ \A s \in UpsertSnapshot(d, state) : s.doc = d => s \in snapshots'
      /\ log' \subseteq us /\ lastId' \in Nat /\ lastId <= lastId' /\ \A u \in us : u.id <= lastId'
      /\ \A a \in accepted' :
           a \in accepted \/ (a.doc = d /\ \E u \in new : a.edit \in u.edits)
  <2>1. new = {u \in us : u.doc = Current /\ u.id > Upto(Current)}
    OBVIOUS
  <2>2. \A u \in us : u.doc = Current /\ Upto(Current) < u.id => u \in new
    OBVIOUS
  <2> QED
    BY <1>1, <2>1, <2>2 DEF Compacts
<1>3. d \in Doc /\ d.epoch = project.content /\ d.rev = document.rev
  BY CurrentFacts
<1>4. new \in SUBSET LogRow /\ \A u \in new : u.id <= lastId' /\ Upto(d) < u.id
  <2>1. Upto(d) \in Nat
    BY <1>3, UptoFacts DEF StoreInv
  <2> QED
    BY <1>2, <2>1 DEF LogRow
<1>5. /\ state.text \in Txt /\ state.upto \in Nat /\ state.upto <= lastId' /\ Upto(d) <= state.upto
      /\ \A s \in snapshots : s.doc = d => s.text.edits \subseteq state.text.edits
      /\ \A u \in new : u.edits \subseteq state.text.edits
  <2> HIDE DEF new, d
  <2> QED
    BY <1>1, <1>2, <1>3, <1>4, LoadStateFacts DEF StoreInv
<1>6. PICK row : row = [doc |-> d, upto |-> state.upto, text |-> state.text]
  OBVIOUS
<1>7. row \in SnapshotRow /\ row.doc = d /\ row.upto = state.upto /\ row.text = state.text
  BY <1>3, <1>5, <1>6 DEF SnapshotRow
<1>8. UpsertSnapshot(d, state) = {s \in snapshots : s.doc # d} \cup {row}
  BY <1>5, <1>6 DEF UpsertSnapshot
<1>9. row \in snapshots' /\ \A s \in snapshots' : s = row \/ (s \in snapshots /\ s.doc # d)
  BY <1>2, <1>7, <1>8
<1>10. /\ document' \in [present: BOOLEAN, rev: Nat, text: Txt]
       /\ document'.rev = document.rev /\ document'.text = state.text
  BY <1>2, <1>5 DEF TypeInv
<1>11. Current' = d
  BY <1>2, <1>10 DEF Current
<1>12. \A e : Known(e)' <=> Known(e)
  BY <1>2, <1>10 DEF Known
<1>13. Known(d)
  BY <1>3 DEF Known, TypeInv
<1>14. SnapshotInv'
  <2>1. \A s \in snapshots' : s.upto <= lastId' /\ Known(s.doc)'
    <3> SUFFICES ASSUME NEW s \in snapshots' PROVE s.upto <= lastId' /\ Known(s.doc)'
      OBVIOUS
    <3>1. CASE s = row
      BY <1>5, <1>7, <1>12, <1>13, <3>1
    <3>2. CASE s \in snapshots
      <4>1. s.upto \in Nat /\ s.upto <= lastId /\ lastId \in Nat
        BY <3>2 DEF StoreInv, SnapshotInv, TypeInv, SnapshotRow
      <4>2. Known(s.doc)
        BY <3>2 DEF StoreInv, SnapshotInv
      <4> QED
        BY <1>2, <1>12, <4>1, <4>2
    <3> QED
      BY <1>9, <3>1, <3>2
  <2>2. \A s, t \in snapshots' : s.doc = t.doc => s = t
    BY <1>7, <1>9 DEF StoreInv, SnapshotInv
  <2>3. \A s \in snapshots' : s.doc = d => s.text = document'.text
    BY <1>7, <1>9, <1>10
  <2> QED
    BY <1>11, <2>1, <2>2, <2>3 DEF SnapshotInv
<1>15. LogInv'
  <2>1. \A u \in log' : u.id <= lastId'
    BY <1>2
  <2>2. \A a \in accepted' : Known(a.doc)'
    BY <1>2, <1>12, <1>13 DEF StoreInv, LogInv
  <2> QED
    BY <2>1, <2>2 DEF LogInv
<1>16. ASSUME NEW a \in accepted', a.doc = d
       PROVE  a.edit \in state.text.edits
  <2>1. CASE a \in accepted
    <3>1. CASE \E s \in SnapshotOf(d) : a.edit \in s.text.edits
      BY <1>5, <3>1 DEF SnapshotOf
    <3>2. CASE \E u \in Uncovered(d) : a.edit \in u.edits
      <4>1. PICK u \in log : u.doc = d /\ u.id > Upto(d) /\ a.edit \in u.edits
        BY <3>2 DEF Uncovered
      <4>2. u \in new
        BY <4>1
      <4> QED
        BY <1>5, <4>1, <4>2
    <3> QED
      BY <1>16, <2>1, <3>1, <3>2 DEF StoreInv, NoEditLost
  <2>2. CASE \E u \in new : a.edit \in u.edits
    BY <1>5, <2>2
  <2> QED
    BY <1>2, <2>1, <2>2
<1>17. NoEditLost'
  <2>1. \A a \in accepted' : a.doc = d => \E s \in snapshots' : s.doc = d /\ a.edit \in s.text.edits
    BY <1>7, <1>9, <1>16
  <2> QED
    BY <1>11, <2>1 DEF NoEditLost, SnapshotOf
<1>18. snapshots' \subseteq SnapshotRow /\ log' \subseteq LogRow
  BY <1>2, <1>7, <1>9 DEF TypeInv
<1> QED
  BY <1>10, <1>11, <1>14, <1>15, <1>16, <1>17, <1>18 DEF StoreInv

\* A transaction that leaves the text alone, and of the current document's rows
\* removes only updates that its snapshot covers.
LEMMA RemovalKeeps ==
  ASSUME TypeInv, StoreInv, UNCHANGED <<project, document>>,
         snapshots' \subseteq snapshots, lastId' \in Nat, lastId <= lastId',
         log' \subseteq LogRow, \A u \in log' : u.id <= lastId',
         document.present => \A s \in snapshots : s.doc = Current => s \in snapshots',
         document.present =>
           \A u \in log : u.doc = Current /\ Upto(Current) < u.id => u \in log',
         \A a \in accepted' :
           \/ a \in accepted
           \/ /\ a.doc = Current
              /\ document.present => \E u \in log' : /\ u.doc = Current /\ Upto(Current) < u.id
                                                    /\ a.edit \in u.edits
  PROVE  StoreInv' /\ Current' = Current
<1>1. Current' = Current /\ Current \in Doc
  BY CurrentFacts DEF Current
<1>2. \A e : Known(e)' <=> Known(e)
  BY DEF Known
<1>3. Known(Current)
  BY CurrentFacts DEF Known, TypeInv
<1>4. SnapshotInv'
  <2>1. \A s \in snapshots : s.upto \in Nat /\ s.upto <= lastId' /\ lastId \in Nat
    BY DEF TypeInv, SnapshotRow, StoreInv, SnapshotInv
  <2> QED
    BY <1>1, <1>2, <2>1 DEF StoreInv, SnapshotInv
<1>5. LogInv'
  BY <1>2, <1>3 DEF StoreInv, LogInv
<1>6. ASSUME document.present, NEW a \in accepted', a.doc = Current
      PROVE  \/ \E s \in snapshots' : s.doc = Current /\ a.edit \in s.text.edits
             \/ \E u \in log' : u.doc = Current /\ Upto(Current) < u.id /\ a.edit \in u.edits
  <2>1. CASE a \in accepted
    <3>1. \/ \E s \in SnapshotOf(Current) : a.edit \in s.text.edits
          \/ \E u \in Uncovered(Current) : a.edit \in u.edits
      BY <1>6, <2>1 DEF StoreInv, NoEditLost
    <3>2. Upto(Current) \in Nat
      BY <1>1, UptoFacts DEF StoreInv
    <3> QED
      BY <1>6, <3>1, <3>2 DEF SnapshotOf, Uncovered, TypeInv, LogRow
  <2> QED
    BY <1>6, <2>1
<1>7. document.present => Upto(Current)' = Upto(Current)
  <2> SUFFICES ASSUME document.present PROVE Upto(Current)' = Upto(Current)
    OBVIOUS
  <2>1. PICK d \in Doc : d = Current
    BY <1>1
  <2>2. {s \in snapshots' : s.doc = d} = {s \in snapshots : s.doc = d}
    BY <2>1
  <2>3. SnapshotOf(d)' = SnapshotOf(d)
    BY <2>2 DEF SnapshotOf
  <2>4. Upto(d)' = Upto(d)
    BY <2>3 DEF Upto
  <2> QED
    BY <1>1, <2>1, <2>4
<1>8. NoEditLost'
  <2> SUFFICES ASSUME document.present, NEW a \in accepted', a.doc = Current
               PROVE  \/ \E s \in SnapshotOf(Current)' : a.edit \in s.text.edits
                      \/ \E u \in Uncovered(Current)' : a.edit \in u.edits
    BY <1>1 DEF NoEditLost
  <2>1. Upto(Current) \in Nat
    BY <1>1, UptoFacts DEF StoreInv
  <2> QED
    BY <1>1, <1>6, <1>7, <2>1 DEF SnapshotOf, Uncovered, LogRow
<1> QED
  BY <1>1, <1>4, <1>5, <1>8 DEF StoreInv

\* prune_updates removes nothing that the snapshot does not cover.
LEMMA PruneFacts ==
  ASSUME NEW us, NEW ss, NEW d, NEW latest
  PROVE  /\ PruneUpdates(us, ss, d, latest) \subseteq us
         /\ \A u \in us : u \notin PruneUpdates(us, ss, d, latest) =>
              u.doc = d /\ \E s \in ss : s.doc = d /\ s.upto >= latest - Retention
                                         /\ ~(u.id >= latest - Retention)
  BY DEF PruneUpdates

\* reconcile_collaboration_document, in a transaction that may have inserted an
\* update of the current document.
LEMMA ReconcileKeeps ==
  ASSUME TypeInv, StoreInv, NEW ds \in SUBSET Doc, NEW us \in SUBSET LogRow, log \subseteq us,
         Reconcile(ds, us, None), UNCHANGED project,
         lastId' \in Nat, lastId <= lastId', \A u \in us : u.id <= lastId',
         \A a \in accepted' :
           a \in accepted \/ (a.doc = Current /\ \E u \in us : /\ u.doc = Current
                                                              /\ Upto(Current) < u.id
                                                              /\ a.edit \in u.edits)
  PROVE  /\ StoreInv' /\ Current' = Current
         /\ snapshots' \subseteq SnapshotRow /\ log' \subseteq LogRow
         /\ document' \in [present: BOOLEAN, rev: Nat, text: Txt]
         /\ document.present /\ Current \in ds =>
              \A a \in accepted' : a.doc = Current => a.edit \in document'.text.edits
<1> DEFINE gone == {d \in ds : d.epoch = project.content /\ ~Projectable(d)}
           kept == ClearDocumentRevision(us, gone)
           state == LoadState(Current, {u \in us : u.doc = Current /\ u.id > Upto(Current)}, None)
<1>1. kept \subseteq us /\ (document.present => \A u \in us : u.doc = Current => u \in kept)
  BY DEF ClearDocumentRevision, Projectable
<1>2. \A ss : /\ ClearDocumentRevision(ss, gone) \subseteq ss
              /\ document.present => \A s \in ss : s.doc = Current => s \in ClearDocumentRevision(ss, gone)
  BY DEF ClearDocumentRevision, Projectable
<1>3. CASE document.present /\ Current \in ds
  <2>1. {d \in ds : Projectable(d)} # {}
    BY <1>3 DEF Projectable
  <2>2. /\ document' = [document EXCEPT !.text = state.text]
        /\ snapshots' = ClearDocumentRevision(UpsertSnapshot(Current, state), gone)
        /\ log' = PruneUpdates(kept, snapshots', Current, state.upto)
    BY <2>1 DEF Reconcile
  <2>3. log' \subseteq us
    BY <1>1, <2>2, PruneFacts
  <2> HIDE DEF gone, kept
  <2>4. Compacts(us, None)
    BY <1>2, <1>3, <2>2, <2>3 DEF Compacts
  <2> QED
    BY <1>3, <2>4, CompactionKeeps
<1>4. CASE ~(document.present /\ Current \in ds)
  <2>1. {d \in ds : Projectable(d)} = {}
    BY <1>4 DEF Projectable
  <2>2. /\ log' = kept /\ snapshots' = ClearDocumentRevision(snapshots, gone)
        /\ UNCHANGED document
    BY <2>1 DEF Reconcile
  <2> HIDE DEF gone, kept
  <2>3. snapshots' \subseteq snapshots /\ log' \subseteq us /\ log' \subseteq LogRow
    BY <1>1, <1>2, <2>2
  <2>4. document.present =>
          /\ \A s \in snapshots : s.doc = Current => s \in snapshots'
          /\ \A u \in us : u.doc = Current => u \in log'
    BY <1>1, <1>2, <2>2
  <2>5. \A u \in log' : u.id <= lastId'
    BY <2>3
  <2>6. StoreInv' /\ Current' = Current
    BY <2>2, <2>3, <2>4, <2>5, RemovalKeeps
  <2> QED
    BY <1>4, <2>2, <2>3, <2>6 DEF TypeInv
<1> QED
  BY <1>3, <1>4

-----------------------------------------------------------------------------
(* Streams.                                                                *)

\* One stream changes: it still has what it sends, is warned if it is stale,
\* broadcasts what it owed, and has heard of what it should.
LEMMA StreamMove ==
  ASSUME TypeInv, StreamInv, NEW c \in Clients, NEW s \in Stream, Set(c, s),
         Current' = Current, project'.content = project.content,
         project'.access = project.access, UNCHANGED due, PayloadOK(s), StaleOK(s),
         \A a \in accepted : a.doc = Current /\ Owes(clients[c], a) => Owes(s, a),
         \A a \in accepted' : a \in accepted \/ Owes(s, a),
         Reads(s) => \A a \in accepted : a.doc = s.doc /\ a.doc = Current =>
                        Heard(s, a) \/ \E b \in Clients : Owes(clients[b], a)
  PROVE  StreamInv' /\ clients' \in [Clients -> Stream]
<1>1. clients' \in [Clients -> Stream] /\ clients'[c] = s
  BY DEF Set, TypeInv
<1>2. \A b \in Clients : b # c => clients'[b] = clients[b]
  BY DEF Set, TypeInv
<1>3. ASSUME NEW a \in accepted, a.doc = Current, \E b \in Clients : Owes(clients[b], a)
      PROVE  \E b \in Clients : Owes(clients'[b], a)
  BY <1>1, <1>2, <1>3
<1>4. ASSUME NEW b \in Clients
      PROVE  PayloadOK(clients[b])' /\ ReaderOK(clients[b])' /\ StaleOK(clients[b])'
  <2>1. PICK r \in Stream : r = clients'[b]
    BY <1>1
  <2>2. PayloadOK(r) /\ StaleOK(r)
    BY <1>1, <1>2, <2>1 DEF StreamInv
  <2>3. StaleOK(r)'
    BY <2>2 DEF StaleOK
  <2>4. ReaderOK(r)'
    <3> SUFFICES ASSUME Reads(r), NEW a \in accepted', a.doc = r.doc, a.doc = Current
                 PROVE  Heard(r, a) \/ \E o \in Clients : Owes(clients'[o], a)
      BY DEF ReaderOK
    <3>1. CASE a \notin accepted
      BY <1>1, <3>1
    <3>2. CASE a \in accepted
      <4>1. Heard(r, a) \/ \E o \in Clients : Owes(clients[o], a)
        <5>1. CASE b = c
          BY <1>1, <2>1, <3>2, <5>1
        <5>2. CASE b # c
          <6>1. r = clients[b]
            BY <1>2, <2>1, <5>2
          <6> QED
            BY <3>2, <6>1 DEF StreamInv, ReaderOK
        <5> QED
          BY <5>1, <5>2
      <4> QED
        BY <1>3, <3>2, <4>1
    <3> QED
      BY <3>1, <3>2
  <2> QED
    BY <2>1, <2>2, <2>3, <2>4
<1> QED
  BY <1>1, <1>4 DEF StreamInv

\* A stream that ends leaves its tab with what it sent, to be synchronized.
LEMMA LeftFacts ==
  ASSUME NEW r \in Stream
  PROVE  /\ Left(r) \in Stream /\ Left(r).doc = r.doc /\ Left(r).ydoc = r.ydoc
         /\ ~Left(r).synced /\ Left(r).step = "closed"
         /\ PayloadOK(Left(r)) /\ StaleOK(Left(r)) /\ ~Reads(Left(r))
         /\ PayloadOK(r) => \A a : Owes(r, a) => Owes(Left(r), a)
<1>1. NoStream \in Stream
  BY DEF NoStream, Stream, Steps, FirstDocument, Doc
<1>2. Left(r) \in Stream
  BY <1>1 DEF Left, Stream
<1>3. /\ Left(r).doc = r.doc /\ Left(r).ydoc = r.ydoc
      /\ Left(r).synced = FALSE /\ Left(r).step = "closed"
  BY <1>1 DEF Left, Stream, NoStream
<1>4. PayloadOK(Left(r)) /\ StaleOK(Left(r)) /\ ~Reads(Left(r))
  BY <1>3 DEF PayloadOK, StaleOK, Joined, Reads
<1>5. ASSUME PayloadOK(r), NEW a, Owes(r, a)
      PROVE  Owes(Left(r), a)
  BY <1>3, <1>5 DEF PayloadOK, Owes
<1> QED
  BY <1>2, <1>3, <1>4, <1>5

\* Any stream may end, whatever it waits for.
LEMMA CloseMove ==
  ASSUME TypeInv, StreamInv, NEW c \in Clients, Close(c),
         Current' = Current, project'.content = project.content,
         project'.access = project.access, UNCHANGED due,
         \A a \in accepted' : a \in accepted \/ (a.doc = clients[c].doc /\ a.edit \in clients[c].ydoc)
  PROVE  StreamInv' /\ clients' \in [Clients -> Stream]
<1>1. PICK r \in Stream : r = clients[c] /\ PayloadOK(r)
  BY DEF TypeInv, StreamInv
<1>2. Set(c, Left(r))
  BY <1>1 DEF Close, Set
<1>3. /\ Left(r) \in Stream /\ PayloadOK(Left(r)) /\ StaleOK(Left(r)) /\ ~Reads(Left(r))
      /\ \A a : Owes(r, a) => Owes(Left(r), a)
  BY <1>1, LeftFacts
<1>4. \A a \in accepted' : a \in accepted \/ Owes(Left(r), a)
  BY <1>1, LeftFacts DEF Owes
<1> QED
  BY <1>1, <1>2, <1>3, <1>4, StreamMove

\* Nothing changes in storage.
LEMMA StoreStill ==
  ASSUME StoreInv, UNCHANGED <<document, log, snapshots, lastId, accepted>>,
         project'.content = project.content
  PROVE  StoreInv' /\ Current' = Current
<1>1. Current' = Current
  BY DEF Current
<1>2. SnapshotInv' /\ LogInv'
  BY <1>1 DEF StoreInv, SnapshotInv, LogInv, Known
<1>3. \A d : SnapshotOf(d)' = SnapshotOf(d) /\ Uncovered(d)' = Uncovered(d)
  BY DEF SnapshotOf, Uncovered, Upto
<1>4. PICK d : d = Current
  OBVIOUS
<1>5. SnapshotOf(d)' = SnapshotOf(d) /\ Uncovered(d)' = Uncovered(d)
  BY <1>3
<1>6. NoEditLost'
  BY <1>1, <1>4, <1>5 DEF StoreInv, NoEditLost
<1> QED
  BY <1>1, <1>2, <1>6 DEF StoreInv

\* A step of one stream, with nothing written.
LEMMA QuietMove ==
  ASSUME IInv, NEW c \in Clients, UNCHANGED <<storage, due, worker>>,
         \/ Close(c)
         \/ \E s \in Stream :
              /\ Set(c, s) /\ PayloadOK(s) /\ StaleOK(s)
              /\ \A a : Owes(clients[c], a) /\ a.doc = Current => Owes(s, a)
              /\ Reads(s) => \A a \in accepted : a.doc = s.doc /\ a.doc = Current =>
                                Heard(s, a) \/ \E b \in Clients : Owes(clients[b], a)
  PROVE  IInv'
<1>1. /\ UNCHANGED <<project, document, log, snapshots, lastId, accepted, due, worker>>
      /\ TypeInv /\ StoreInv /\ StreamInv
  BY DEF storage, IInv
<1>2. StoreInv' /\ Current' = Current
  BY <1>1, StoreStill
<1>3. StreamInv' /\ clients' \in [Clients -> Stream]
  <2>1. CASE Close(c)
    BY <1>1, <1>2, <2>1, CloseMove
  <2>2. CASE ~Close(c)
    <3>1. PICK s \in Stream :
            /\ Set(c, s) /\ PayloadOK(s) /\ StaleOK(s)
            /\ \A a : Owes(clients[c], a) /\ a.doc = Current => Owes(s, a)
            /\ Reads(s) => \A a \in accepted : a.doc = s.doc /\ a.doc = Current =>
                              Heard(s, a) \/ \E b \in Clients : Owes(clients[b], a)
      BY <2>2
    <3> QED
      BY <1>1, <1>2, <3>1, StreamMove
  <2> QED
    BY <2>1, <2>2
<1>4. TypeInv'
  BY <1>1, <1>3 DEF TypeInv
<1> QED
  BY <1>2, <1>3, <1>4 DEF IInv

\* A step that only moves a stream on before it is live.
LEMMA AdmissionMove ==
  ASSUME IInv, NEW c \in Clients, NEW s \in Stream, Set(c, s), UNCHANGED <<storage, due, worker>>,
         s.step \notin {"live", "writing", "answering"},
         s.synced = clients[c].synced,
         s.doc = clients[c].doc \/ s.doc = Current,
         clients[c].doc = s.doc => clients[c].ydoc \subseteq s.ydoc,
         clients[c].step # "answering", StaleOK(s)
  PROVE  IInv'
<1>1. PayloadOK(s) /\ ~Reads(s)
  BY DEF PayloadOK, Reads
<1>2. ASSUME NEW a, Owes(clients[c], a), a.doc = Current
      PROVE  Owes(s, a)
  BY <1>2 DEF Owes
<1> QED
  BY <1>1, <1>2, QuietMove

-----------------------------------------------------------------------------
(* Every step keeps the invariant.                                         *)

\* Initially nothing is stored and no stream is open.
LEMMA InitInv ==
  ASSUME Init
  PROVE  IInv
<1>1. NoStream \in Stream
  BY DEF NoStream, Stream, Steps, FirstDocument, Doc
<1>2. FirstDocument \in Doc
  BY DEF FirstDocument, Doc
<1>3. TypeInv
  BY <1>1, <1>2 DEF Init, TypeInv, Txt, Roles
<1>4. StoreInv
  BY DEF Init, StoreInv, SnapshotInv, LogInv, NoEditLost
<1>5. NoStream.step = "closed"
  BY DEF NoStream
<1>6. StreamInv
  BY <1>5 DEF Init, StreamInv, PayloadOK, ReaderOK, Reads, StaleOK, Joined
<1> QED
  BY <1>3, <1>4, <1>6 DEF IInv

\* A connection up to its room, and its revalidation after that.
LEMMA AdmissionStep ==
  ASSUME IInv, NEW c \in Clients,
         \/ Connect(c) \/ Authorize(c) \/ Join(c) \/ RevalidatePrincipal(c)
         \/ RevalidateAccess(c) \/ LockBootstrap(c)
  PROVE  IInv'
<1>1. UNCHANGED <<storage, due, worker>>
  BY DEF Connect, Authorize, Join, RevalidatePrincipal, RevalidateAccess, LockBootstrap, tasks
<1>2. PICK r \in Stream : r = clients[c] /\ StaleOK(r)
  BY DEF IInv, TypeInv, StreamInv
<1>3. CASE Close(c)
  BY <1>1, <1>3, QuietMove
<1>4. CASE Connect(c)
  <2> DEFINE s == [r EXCEPT !.step = "admitted", !.canWrite = (project.role[c] = "write")]
  <2>1. s \in Stream
    BY DEF Stream, Steps
  <2>2. s.step = "admitted" /\ s.synced = r.synced /\ s.doc = r.doc /\ s.ydoc = r.ydoc
    BY DEF Stream
  <2>3. Set(c, s) /\ r.step = "closed"
    BY <1>2, <1>4 DEF Connect
  <2> HIDE DEF s
  <2>4. StaleOK(s)
    BY <2>2 DEF StaleOK, Joined
  <2> QED
    BY <1>1, <1>2, <2>1, <2>2, <2>3, <2>4, AdmissionMove
<1>5. CASE Authorize(c) /\ ~Close(c)
  <2>1. Current \in Doc /\ project.access \in Nat
    BY CurrentFacts DEF IInv, TypeInv
  <2> DEFINE y == IF r.doc = Current THEN r.ydoc ELSE {}
             s == [r EXCEPT !.step = "authorized", !.doc = Current, !.access = project.access,
                            !.ydoc = y]
  <2>2. y \in SUBSET Edits
    BY DEF Stream
  <2>3. Set(c, s) /\ r.step = "admitted"
    BY <1>2, <1>5 DEF Authorize
  <2> HIDE DEF y
  <2>4. s \in Stream
    BY <2>1, <2>2 DEF Stream, Steps
  <2>5. s.step = "authorized" /\ s.synced = r.synced /\ s.doc = Current /\ s.ydoc = y
    BY DEF Stream
  <2> HIDE DEF s
  <2>6. StaleOK(s)
    BY <2>5 DEF StaleOK, Joined
  <2> QED
    BY <1>1, <1>2, <2>3, <2>4, <2>5, <2>6, AdmissionMove DEF y
<1>6. CASE /\ ~Close(c)
           /\ Join(c) \/ RevalidatePrincipal(c) \/ RevalidateAccess(c)
  <2>1. PICK step \in {"joined", "rechecked", "current"} :
          /\ Set(c, [r EXCEPT !.step = step])
          /\ r.step \in {"authorized", "joined", "rechecked"}
          /\ step # "joined" => r.doc.epoch = project.content \/ r.step = "rechecked"
          /\ step = "current" => r.access = project.access /\ r.step = "rechecked"
    BY <1>2, <1>6 DEF Join, RevalidatePrincipal, RevalidateAccess, PrincipalCurrent
  <2> DEFINE s == [r EXCEPT !.step = step]
  <2>2. s \in Stream
    BY DEF Stream, Steps
  <2>3. /\ s.step = step /\ s.synced = r.synced /\ s.doc = r.doc /\ s.ydoc = r.ydoc
        /\ s.access = r.access /\ s.queue = r.queue /\ s.told = r.told /\ s.lagged = r.lagged
    BY DEF Stream
  <2> HIDE DEF s
  <2>4. Warned(s) <=> Warned(r)
    BY <2>3 DEF Warned
  <2>5. StaleOK(s)
    BY <1>2, <2>1, <2>3, <2>4 DEF StaleOK, Joined
  <2> QED
    BY <1>1, <1>2, <2>1, <2>2, <2>3, <2>5, AdmissionMove DEF s
<1>7. CASE LockBootstrap(c) /\ ~Close(c)
  <2> DEFINE s == [r EXCEPT !.step = "locked", !.seed = document.text]
  <2>1. document.text \in Txt
    BY DEF IInv, TypeInv
  <2>2. s \in Stream
    BY <2>1 DEF Stream, Steps
  <2>3. /\ s.step = "locked" /\ s.synced = r.synced /\ s.doc = r.doc /\ s.ydoc = r.ydoc
        /\ s.access = r.access /\ s.queue = r.queue /\ s.told = r.told /\ s.lagged = r.lagged
    BY DEF Stream
  <2>4. Set(c, s) /\ r.step = "current"
    BY <1>2, <1>7 DEF LockBootstrap
  <2> HIDE DEF s
  <2>5. Warned(s) <=> Warned(r)
    BY <2>3 DEF Warned
  <2>6. StaleOK(s)
    BY <1>2, <2>3, <2>4, <2>5 DEF StaleOK, Joined
  <2> QED
    BY <1>1, <1>2, <2>2, <2>3, <2>4, <2>6, AdmissionMove
<1> QED
  BY <1>3, <1>4, <1>5, <1>6, <1>7

\* A stream that the loop of handle_socket, or the database, ends.
LEMMA EndStep ==
  ASSUME IInv, NEW c \in Clients, Recheck(c) \/ Disconnect(c) \/ DrainStream(c)
  PROVE  IInv'
<1>1. UNCHANGED <<storage, due, worker>> /\ Close(c)
  BY DEF Recheck, Disconnect, DrainStream, tasks
<1> QED
  BY <1>1, QuietMove

\* An update is sent by a tab that has synchronized, the full state by one that
\* has not: it has all the tab owes.
LEMMA SubmitStep ==
  ASSUME IInv, NEW c \in Clients, Sync(c) \/ \E e \in Edits : Edit(c, e)
  PROVE  IInv'
<1>1. UNCHANGED <<storage, due, worker>>
  BY DEF Sync, Edit, Submit, tasks
<1>2. PICK r \in Stream : r = clients[c] /\ StaleOK(r) /\ ReaderOK(r)
  BY DEF IInv, TypeInv, StreamInv
<1>3. CASE Close(c)
  BY <1>1, <1>3, QuietMove
<1>4. CASE ~Close(c)
  <2>1. PICK edits \in SUBSET Edits, kind \in {"update", "sync"} :
          /\ Set(c, [r EXCEPT !.step = "writing", !.kind = kind, !.payload = edits,
                              !.ydoc = @ \cup edits])
          /\ r.step = "live" /\ (r.synced \/ edits = r.ydoc)
    BY <1>2, <1>4 DEF Sync, Edit, Submit, Stream
  <2> DEFINE s == [r EXCEPT !.step = "writing", !.kind = kind, !.payload = edits,
                            !.ydoc = @ \cup edits]
  <2>2. s \in Stream
    BY DEF Stream, Steps
  <2>3. /\ s.step = "writing" /\ s.synced = r.synced /\ s.doc = r.doc /\ s.ydoc = r.ydoc \cup edits
        /\ s.access = r.access /\ s.queue = r.queue /\ s.told = r.told /\ s.lagged = r.lagged
        /\ s.payload = edits
    BY DEF Stream
  <2>4. Set(c, s)
    BY <2>1
  <2> HIDE DEF s
  <2>5. (Warned(s) <=> Warned(r)) /\ (Reads(s) <=> Reads(r))
    BY <2>1, <2>3 DEF Warned, Reads
  <2>6. StaleOK(s) /\ PayloadOK(s)
    BY <1>2, <2>1, <2>3, <2>5 DEF StaleOK, Joined, PayloadOK
  <2>7. \A a : (Owes(r, a) => Owes(s, a)) /\ (Heard(r, a) => Heard(s, a))
    BY <2>1, <2>3 DEF Owes, Heard
  <2>8. Reads(s) => \A a \in accepted : a.doc = s.doc /\ a.doc = Current =>
                       Heard(s, a) \/ \E b \in Clients : Owes(clients[b], a)
    BY <1>2, <2>3, <2>5, <2>7 DEF ReaderOK
  <2> QED
    BY <1>1, <1>2, <2>2, <2>4, <2>6, <2>7, <2>8, QuietMove
<1> QED
  BY <1>3, <1>4

\* forward_room_events: what leaves the queue is in the tab, or the stream ends.
LEMMA ForwardStep ==
  ASSUME IInv, NEW c \in Clients, Forward(c)
  PROVE  IInv'
<1>1. UNCHANGED <<storage, due, worker>>
  BY DEF Forward, tasks
<1>2. PICK r \in Stream : r = clients[c] /\ StaleOK(r) /\ ReaderOK(r) /\ PayloadOK(r)
  BY DEF IInv, TypeInv, StreamInv
<1>3. CASE r.lagged
  <2> DEFINE s == [r EXCEPT !.told = TRUE, !.queue = <<>>]
  <2>1. s \in Stream
    <3>1. <<>> \in Seq(Event)
      OBVIOUS
    <3> QED
      BY <3>1 DEF Stream
  <2>2. /\ s.step = r.step /\ s.synced = r.synced /\ s.doc = r.doc /\ s.ydoc = r.ydoc
        /\ s.kind = r.kind /\ s.payload = r.payload /\ s.told = TRUE
    BY DEF Stream
  <2>3. Set(c, s)
    BY <1>2, <1>3 DEF Forward
  <2> HIDE DEF s
  <2>4. Warned(s) /\ ~Reads(s)
    BY <2>2 DEF Warned, Reads
  <2>5. StaleOK(s) /\ PayloadOK(s) /\ \A a : Owes(r, a) => Owes(s, a)
    BY <1>2, <2>2, <2>4 DEF StaleOK, PayloadOK, Owes
  <2> QED
    BY <1>1, <1>2, <2>1, <2>3, <2>4, <2>5, QuietMove
<1>4. CASE ~r.lagged
  <2>1. PICK e \in Event : r.queue # <<>> /\ e = Head(r.queue)
    BY <1>2, <1>4 DEF Forward, Stream
  <2> DEFINE s == [r EXCEPT !.queue = Tail(@), !.told = (e.kind = "end"), !.ydoc = @ \cup e.edits]
  <2>2. Set(c, s) /\ r.step \in {"live", "writing", "answering"} /\ ~r.told
    BY <1>2, <1>4, <2>1 DEF Forward, Streaming
  <2>3. r.queue \in Seq(Event) /\ Tail(r.queue) \in Seq(Event)
    BY <2>1 DEF Stream
  <2>4. s \in Stream
    <3>1. PICK t \in BOOLEAN : t = (e.kind = "end")
      OBVIOUS
    <3>2. PICK y \in SUBSET Edits : y = r.ydoc \cup e.edits
      BY DEF Stream, Event
    <3>3. PICK q \in Seq(Event) : q = Tail(r.queue)
      BY <2>3
    <3> QED
      BY <3>1, <3>2, <3>3 DEF Stream
  <2>5. /\ s.step = r.step /\ s.synced = r.synced /\ s.doc = r.doc /\ s.ydoc = r.ydoc \cup e.edits
        /\ s.kind = r.kind /\ s.payload = r.payload /\ s.access = r.access /\ s.lagged = r.lagged
        /\ s.queue = Tail(r.queue) /\ s.told = (e.kind = "end")
    BY DEF Stream
  <2> HIDE DEF s
  <2>6. \A i \in DOMAIN r.queue :
          r.queue[i] = e \/ \E j \in DOMAIN s.queue : s.queue[j] = r.queue[i]
    <3> SUFFICES ASSUME NEW i \in DOMAIN r.queue
                 PROVE  r.queue[i] = e \/ \E j \in DOMAIN s.queue : s.queue[j] = r.queue[i]
      OBVIOUS
    <3>1. i \in 1..Len(r.queue) /\ Len(r.queue) \in Nat
      BY <2>3
    <3>2. CASE i = 1
      BY <2>1, <2>3, <3>2
    <3>3. CASE i # 1
      <4>1. i - 1 \in DOMAIN s.queue /\ s.queue[i - 1] = r.queue[i]
        BY <2>1, <2>3, <2>5, <3>1, <3>3
      <4> QED
        BY <4>1
    <3> QED
      BY <3>2, <3>3
  <2>7. Warned(r) => Warned(s)
    BY <1>4, <2>2, <2>5, <2>6 DEF Warned
  <2>8. StaleOK(s) /\ PayloadOK(s) /\ \A a : Owes(r, a) => Owes(s, a)
    BY <1>2, <2>5, <2>7 DEF StaleOK, Joined, PayloadOK, Owes
  <2>9. ASSUME Reads(s), NEW a \in accepted, a.doc = s.doc, a.doc = Current
        PROVE  Heard(s, a) \/ \E b \in Clients : Owes(clients[b], a)
    <3>1. Reads(r) /\ e.kind # "end"
      BY <1>4, <2>2, <2>5, <2>9 DEF Reads
    <3>2. Heard(r, a) => Heard(s, a)
      BY <2>5, <2>6, <3>1 DEF Heard
    <3> QED
      BY <1>2, <2>5, <2>9, <3>1, <3>2 DEF ReaderOK
  <2> QED
    BY <1>1, <1>2, <2>2, <2>4, <2>8, <2>9, QuietMove
<1> QED
  BY <1>3, <1>4

\* prepare_document_bootstrap: the state sent to the tab has every accepted edit.
LEMMA BootstrapStep ==
  ASSUME IInv, NEW c \in Clients, Bootstrap(c)
  PROVE  IInv'
<1>1. /\ UNCHANGED <<project, lastId, accepted, due, worker>>
      /\ TypeInv /\ StoreInv /\ StreamInv
  BY DEF Bootstrap, IInv, tasks
<1>2. PICK r \in Stream : r = clients[c] /\ StaleOK(r) /\ r.step = "locked"
  BY DEF IInv, TypeInv, StreamInv, Bootstrap
<1>3. CASE ~Projectable(r.doc)
  <2>1. Close(c) /\ UNCHANGED <<document, log, snapshots>>
    BY <1>2, <1>3 DEF Bootstrap
  <2> QED
    BY <1>1, <2>1, QuietMove DEF storage
<1>4. CASE Projectable(r.doc)
  <2>1. PICK seed \in Txt \cup {None} :
          seed = IF Uncovered(Current) = {} THEN r.seed ELSE None
    BY DEF Stream
  <2>2. PICK state : state = LoadState(Current, Uncovered(Current), seed)
    OBVIOUS
  <2>3. document.present /\ r.doc = Current
    BY <1>4 DEF Projectable
  <2> DEFINE s == [r EXCEPT !.step = "live", !.seed = None, !.ydoc = @ \cup state.text.edits]
  <2>4. /\ document' = [document EXCEPT !.text = state.text]
        /\ snapshots' = ClearSuperseded(UpsertSnapshot(Current, state), Current)
        /\ log' = PruneUpdates(ClearSuperseded(log, Current), snapshots', Current, state.upto)
        /\ Set(c, s)
    BY <1>2, <1>4, <2>1, <2>2, <2>3 DEF Bootstrap
  <2>5. log' \subseteq log
    <3>1. ClearSuperseded(log, Current) \subseteq log
      BY DEF ClearSuperseded
    <3> QED
      BY <2>4, <3>1, PruneFacts
  <2>6. /\ snapshots' \subseteq UpsertSnapshot(Current, state)
        /\ \A x \in UpsertSnapshot(Current, state) : x.doc = Current => x \in snapshots'
    BY <2>4 DEF ClearSuperseded
  <2>7. Uncovered(Current) = {u \in log : u.doc = Current /\ u.id > Upto(Current)}
    BY DEF Uncovered
  <2>8. log \subseteq LogRow /\ lastId \in Nat /\ \A u \in log : u.id <= lastId
    BY <1>1 DEF TypeInv, StoreInv, LogInv
  <2>9. Compacts(log, seed)
    BY <1>1, <2>2, <2>4, <2>5, <2>6, <2>7, <2>8 DEF Compacts
  <2>10. /\ StoreInv' /\ Current' = Current
         /\ snapshots' \subseteq SnapshotRow /\ log' \subseteq LogRow
         /\ document' \in [present: BOOLEAN, rev: Nat, text: Txt]
         /\ \A a \in accepted' : a.doc = Current => a.edit \in document'.text.edits
    BY <1>1, <2>3, <2>8, <2>9, CompactionKeeps
  <2>11. document'.text = state.text /\ state.text.edits \subseteq Edits
    BY <1>1, <2>4, <2>10 DEF TypeInv, Txt
  <2>12. s \in Stream
    BY <2>11 DEF Stream, Steps
  <2>13. /\ s.step = "live" /\ s.synced = r.synced /\ s.doc = r.doc
         /\ s.ydoc = r.ydoc \cup state.text.edits
         /\ s.access = r.access /\ s.queue = r.queue /\ s.told = r.told /\ s.lagged = r.lagged
    BY DEF Stream
  <2> HIDE DEF s
  <2>14. Warned(s) <=> Warned(r)
    BY <2>13 DEF Warned
  <2>15. StaleOK(s) /\ PayloadOK(s)
    BY <1>2, <2>13, <2>14 DEF StaleOK, Joined, PayloadOK
  <2>16. \A a : Owes(r, a) => Owes(s, a)
    BY <1>2, <2>13 DEF Owes
  <2>17. \A a \in accepted : a.doc = Current => Heard(s, a)
    BY <1>1, <2>10, <2>11, <2>13 DEF Heard
  <2>18. StreamInv' /\ clients' \in [Clients -> Stream]
    BY <1>1, <1>2, <2>4, <2>10, <2>12, <2>15, <2>16, <2>17, StreamMove
  <2>19. TypeInv'
    BY <1>1, <2>10, <2>18 DEF TypeInv
  <2> QED
    BY <2>10, <2>18, <2>19 DEF IInv
<1> QED
  BY <1>3, <1>4

\* The rows that persist_update leaves: the update it inserted is projected at
\* once, or stays in the log, where pruning spares what no snapshot covers.
LEMMA PersistKeeps ==
  ASSUME TypeInv, StoreInv, NEW c \in Clients, PersistUpdate(c), Acceptable(c)
  PROVE  /\ StoreInv' /\ Current' = Current
         /\ snapshots' \subseteq SnapshotRow /\ log' \subseteq LogRow
         /\ document' \in [present: BOOLEAN, rev: Nat, text: Txt]
         /\ lastId' \in Nat /\ accepted' \subseteq [doc: Doc, edit: Edits]
<1>1. PICK r \in Stream : r = clients[c]
  BY DEF TypeInv
<1>2. r.doc = Current /\ document.present /\ Current \in Doc /\ r.payload \subseteq Edits
  BY <1>1, CurrentFacts DEF Acceptable, Projectable, Stream
<1>3. PICK u : u = [id |-> lastId + 1, doc |-> r.doc, edits |-> r.payload, by |-> c]
  OBVIOUS
<1>4. u \in LogRow /\ u.id = lastId + 1 /\ u.doc = Current /\ u.edits = r.payload
  BY <1>2, <1>3 DEF TypeInv, LogRow
<1>5. /\ lastId' = lastId + 1 /\ UNCHANGED project
      /\ accepted' = accepted \cup [doc: {Current}, edit: u.edits]
      /\ \/ Reconcile({Current}, log \cup {u}, None)
         \/ /\ log' = PruneUpdates(log \cup {u}, snapshots, Current, u.id)
            /\ UNCHANGED <<document, snapshots>>
  BY <1>1, <1>2, <1>3, <1>4 DEF PersistUpdate
<1>6. Upto(Current) \in Nat /\ Upto(Current) < u.id /\ lastId \in Nat /\ u.id \in Nat
  <2>1. lastId \in Nat /\ Upto(Current) \in Nat /\ Upto(Current) <= lastId
    BY <1>2, UptoFacts DEF TypeInv, StoreInv
  <2> QED
    BY <1>4, <2>1
<1>7. PICK us \in SUBSET LogRow : us = log \cup {u}
  BY <1>4 DEF TypeInv
<1>8. lastId' \in Nat /\ lastId <= lastId' /\ \A v \in us : v.id <= lastId'
  BY <1>4, <1>5, <1>6, <1>7 DEF StoreInv, LogInv, LogRow
<1>9. \A a \in accepted' : a \in accepted \/ (a.doc = Current /\ a.edit \in u.edits)
  BY <1>5
<1>10. accepted' \subseteq [doc: Doc, edit: Edits]
  BY <1>2, <1>4, <1>5 DEF TypeInv
<1>11. CASE Reconcile({Current}, us, None)
  <2>1. PICK ds \in SUBSET Doc : ds = {Current}
    BY <1>2
  <2>2. Reconcile(ds, us, None)
    BY <1>11, <2>1
  <2> QED
    BY <1>4, <1>5, <1>6, <1>7, <1>8, <1>9, <1>10, <2>2, ReconcileKeeps
<1>12. CASE log' = PruneUpdates(us, snapshots, Current, u.id) /\ UNCHANGED <<document, snapshots>>
  <2>1. log' \subseteq us /\ log' \subseteq LogRow
    BY <1>12, PruneFacts
  <2>2. ASSUME NEW v \in us, v.doc = Current, Upto(Current) < v.id
        PROVE  v \in log'
    <3> SUFFICES ASSUME v \notin log' PROVE FALSE
      OBVIOUS
    <3>1. PICK s \in snapshots : /\ s.doc = Current /\ s.upto >= u.id - Retention
                                 /\ ~(v.id >= u.id - Retention)
      BY <1>12, PruneFacts
    <3>2. s.upto = Upto(Current) /\ v.id \in Nat /\ Retention \in Nat
      BY <1>2, <3>1, UptoFacts, CollaborationAssumption DEF StoreInv, LogRow
    <3> QED
      BY <1>6, <2>2, <3>1, <3>2
  <2>3. \A v \in log' : v.id <= lastId'
    BY <1>8, <2>1
  <2>4. \A v \in log : v.doc = Current /\ Upto(Current) < v.id => v \in log'
    BY <1>7, <2>2
  <2>5. u \in log'
    BY <1>4, <1>6, <1>7, <2>2
  <2>6. StoreInv' /\ Current' = Current
    BY <1>4, <1>5, <1>6, <1>8, <1>9, <1>12, <2>1, <2>3, <2>4, <2>5, RemovalKeeps
  <2> QED
    BY <1>8, <1>10, <1>12, <2>1, <2>6 DEF TypeInv
<1> QED
  BY <1>5, <1>7, <1>11, <1>12

\* persist_update: what it accepted will be broadcast by its stream, or be in
\* the full state of a tab that was cut off before the answer.
LEMMA PersistStep ==
  ASSUME IInv, NEW c \in Clients, PersistUpdate(c)
  PROVE  IInv'
<1>1. UNCHANGED <<project, due, worker>> /\ TypeInv /\ StoreInv /\ StreamInv
  BY DEF PersistUpdate, IInv, tasks
<1>2. PICK r \in Stream : /\ r = clients[c] /\ r.step = "writing"
                          /\ StaleOK(r) /\ PayloadOK(r) /\ ReaderOK(r)
  BY DEF IInv, TypeInv, StreamInv, PersistUpdate
<1>3. CASE ~Acceptable(c)
  <2>1. Close(c) /\ UNCHANGED <<document, log, snapshots, lastId, accepted>>
    BY <1>3 DEF PersistUpdate
  <2> QED
    BY <1>1, <2>1, QuietMove DEF storage
<1>4. CASE Acceptable(c)
  <2>1. /\ StoreInv' /\ Current' = Current
        /\ snapshots' \subseteq SnapshotRow /\ log' \subseteq LogRow
        /\ document' \in [present: BOOLEAN, rev: Nat, text: Txt]
        /\ lastId' \in Nat /\ accepted' \subseteq [doc: Doc, edit: Edits]
    BY <1>1, <1>4, PersistKeeps
  <2>2. accepted' = accepted \cup [doc: {r.doc}, edit: r.payload]
    BY <1>2, <1>4 DEF PersistUpdate
  <2>3. \A a \in accepted' : a \in accepted \/ (a.doc = r.doc /\ a.edit \in r.payload)
    BY <2>2
  <2>4. Set(c, [r EXCEPT !.step = "answering"]) \/ Close(c)
    BY <1>2, <1>4 DEF PersistUpdate
  <2>5. StreamInv' /\ clients' \in [Clients -> Stream]
    <3>1. CASE Close(c)
      <4>1. \A a \in accepted' : a \in accepted \/ (a.doc = r.doc /\ a.edit \in r.ydoc)
        BY <1>2, <2>3 DEF PayloadOK
      <4> QED
        BY <1>1, <1>2, <2>1, <3>1, <4>1, CloseMove
    <3>2. CASE Set(c, [r EXCEPT !.step = "answering"])
      <4> DEFINE s == [r EXCEPT !.step = "answering"]
      <4>1. s \in Stream
        BY DEF Stream, Steps
      <4>2. /\ s.step = "answering" /\ s.synced = r.synced /\ s.doc = r.doc /\ s.ydoc = r.ydoc
            /\ s.access = r.access /\ s.queue = r.queue /\ s.told = r.told /\ s.lagged = r.lagged
            /\ s.payload = r.payload /\ s.kind = r.kind
        BY DEF Stream
      <4>3. Set(c, s)
        BY <3>2
      <4> HIDE DEF s
      <4>4. (Warned(s) <=> Warned(r)) /\ (Reads(s) <=> Reads(r)) /\ \A a : Heard(r, a) => Heard(s, a)
        BY <1>2, <4>2 DEF Warned, Reads, Heard
      <4>5. StaleOK(s) /\ PayloadOK(s) /\ \A a : Owes(r, a) => Owes(s, a)
        BY <1>2, <4>2, <4>4 DEF StaleOK, Joined, PayloadOK, Owes
      <4>6. \A a \in accepted' : a \in accepted \/ Owes(s, a)
        BY <2>3, <4>2 DEF Owes
      <4>7. Reads(s) => \A a \in accepted : a.doc = s.doc /\ a.doc = Current =>
                           Heard(s, a) \/ \E b \in Clients : Owes(clients[b], a)
        BY <1>2, <4>2, <4>4 DEF ReaderOK
      <4> QED
        BY <1>1, <1>2, <2>1, <4>1, <4>3, <4>5, <4>6, <4>7, StreamMove
    <3> QED
      BY <2>4, <3>1, <3>2
  <2>6. TypeInv'
    BY <1>1, <2>1, <2>5 DEF TypeInv
  <2> QED
    BY <2>1, <2>5, <2>6 DEF IInv
<1> QED
  BY <1>3, <1>4

-----------------------------------------------------------------------------
(* Broadcasts.                                                             *)

\* A receiver has the event in its queue, or has lagged and will be told.
LEMMA ReceivedFacts ==
  ASSUME NEW r \in Stream, NEW e \in Event
  PROVE  LET q == Received(r, e)
         IN  /\ q \in Stream
             /\ q.step = r.step /\ q.doc = r.doc /\ q.access = r.access /\ q.told = r.told
             /\ q.payload = r.payload /\ q.kind = r.kind /\ q.ydoc = r.ydoc /\ q.synced = r.synced
             /\ Warned(r) \/ e.kind = "end" => Warned(q)
             /\ Reads(q) => /\ Reads(r)
                            /\ \A a : Heard(r, a) \/ a.edit \in e.edits => Heard(q, a)
<1> DEFINE q == Received(r, e)
<1>1. r.queue \in Seq(Event) /\ <<>> \in Seq(Event) /\ Len(r.queue) \in Nat
  BY DEF Stream
<1>2. CASE r.lagged \/ Len(r.queue) >= Buffer
  <2>1. q = [r EXCEPT !.lagged = TRUE, !.queue = <<>>]
    BY <1>2 DEF Received
  <2> HIDE DEF q
  <2>2. q \in Stream
    BY <1>1, <2>1 DEF Stream
  <2>3. /\ q.step = r.step /\ q.doc = r.doc /\ q.access = r.access /\ q.told = r.told
        /\ q.payload = r.payload /\ q.kind = r.kind /\ q.ydoc = r.ydoc /\ q.synced = r.synced
        /\ q.lagged = TRUE
    BY <2>1 DEF Stream
  <2>4. Warned(q) /\ ~Reads(q)
    BY <2>3 DEF Warned, Reads
  <2> QED
    BY <2>2, <2>3, <2>4 DEF q
<1>3. CASE ~(r.lagged \/ Len(r.queue) >= Buffer)
  <2>1. q = [r EXCEPT !.queue = Append(@, e)]
    BY <1>3 DEF Received
  <2>2. Append(r.queue, e) \in Seq(Event)
    BY <1>1
  <2> HIDE DEF q
  <2>3. q \in Stream
    BY <2>1, <2>2 DEF Stream
  <2>4. /\ q.step = r.step /\ q.doc = r.doc /\ q.access = r.access /\ q.told = r.told
        /\ q.payload = r.payload /\ q.kind = r.kind /\ q.ydoc = r.ydoc /\ q.synced = r.synced
        /\ q.lagged = r.lagged /\ q.queue = Append(r.queue, e)
    BY <2>1 DEF Stream
  <2>5. \A i \in DOMAIN r.queue : i \in DOMAIN q.queue /\ q.queue[i] = r.queue[i]
    BY <1>1, <2>4
  <2>6. \E i \in DOMAIN q.queue : q.queue[i] = e
    <3>1. Len(r.queue) + 1 \in DOMAIN q.queue /\ q.queue[Len(r.queue) + 1] = e
      BY <1>1, <2>4
    <3> QED
      BY <3>1
  <2>7. Warned(r) \/ e.kind = "end" => Warned(q)
    BY <2>4, <2>5, <2>6 DEF Warned
  <2>8. Reads(q) => Reads(r)
    BY <2>4 DEF Reads
  <2>9. \A a : Heard(r, a) \/ a.edit \in e.edits => Heard(q, a)
    BY <2>4, <2>5, <2>6 DEF Heard
  <2> QED
    BY <2>3, <2>4, <2>7, <2>8, <2>9 DEF q
<1> QED
  BY <1>2, <1>3

\* The stream whose answer went out owes what it sent no more.
LEMMA AnsweredFacts ==
  ASSUME NEW r \in Stream, r.step = "answering", StaleOK(r)
  PROVE  LET t == Answered(r)
         IN  /\ t \in Stream /\ t.step = "live" /\ t.doc = r.doc
             /\ PayloadOK(t) /\ StaleOK(t) /\ (Reads(t) <=> Reads(r))
             /\ \A a : Heard(r, a) => Heard(t, a)
             /\ \A a : Owes(r, a) => Owes(t, a) \/ a.edit \in r.payload
<1> DEFINE t == Answered(r)
<1>1. PICK b \in BOOLEAN : b = (r.synced \/ r.kind = "sync")
  OBVIOUS
<1>2. t = [r EXCEPT !.step = "live", !.payload = {}, !.kind = "update", !.synced = b]
  BY <1>1 DEF Answered, Stream
<1> HIDE DEF t
<1>3. t \in Stream
  BY <1>2 DEF Stream, Steps
<1>4. /\ t.step = "live" /\ t.doc = r.doc /\ t.access = r.access /\ t.told = r.told
      /\ t.lagged = r.lagged /\ t.queue = r.queue /\ t.ydoc = r.ydoc /\ t.synced = b
  BY <1>2 DEF Stream
<1>5. (Warned(t) <=> Warned(r)) /\ (Reads(t) <=> Reads(r)) /\ \A a : Heard(r, a) => Heard(t, a)
  BY <1>4 DEF Warned, Reads, Heard
<1>6. PayloadOK(t) /\ StaleOK(t)
  BY <1>4, <1>5 DEF PayloadOK, StaleOK, Joined
<1>7. \A a : Owes(r, a) => Owes(t, a) \/ a.edit \in r.payload
  BY <1>1, <1>4 DEF Owes, Stream
<1> QED
  BY <1>3, <1>4, <1>5, <1>6, <1>7 DEF t

\* The answer, and the broadcast that follows it: everyone in the room of the
\* document gets what its stream owed.
LEMMA BroadcastStep ==
  ASSUME IInv, NEW c \in Clients, Broadcast(c)
  PROVE  IInv'
<1>1. UNCHANGED <<storage, due, worker>>
  BY DEF Broadcast, tasks
<1>2. PICK r \in Stream : r = clients[c] /\ r.step = "answering" /\ StaleOK(r)
  BY DEF IInv, TypeInv, StreamInv, Broadcast
<1>3. CASE r.told
  BY <1>1, <1>2, <1>3, QuietMove DEF Broadcast
<1>4. CASE ~r.told
  <2>1. /\ UNCHANGED <<project, document, log, snapshots, lastId, accepted, due, worker>>
        /\ TypeInv /\ StoreInv /\ StreamInv
    BY <1>1 DEF storage, IInv
  <2>2. StoreInv' /\ Current' = Current
    BY <2>1, StoreStill
  <2>3. PICK t \in Stream : t = Answered(r) /\ t.doc = r.doc /\ t.step = "live"
    BY <1>2, AnsweredFacts
  <2>4. PICK base \in [Clients -> Stream] : base = [clients EXCEPT ![c] = t]
    BY <2>1, <2>3 DEF TypeInv
  <2>5. PICK e \in Event : e = [kind |-> "update", edits |-> r.payload]
    BY DEF Event, Stream
  <2>6. clients' = Sent(base, e, Room(r.doc))
    BY <1>2, <1>4, <2>3, <2>4, <2>5 DEF Broadcast
  <2>7. ASSUME NEW b \in Clients
        PROVE  /\ clients'[b] = base[b] \/ clients'[b] = Received(base[b], e)
               /\ b # c => base[b] = clients[b]
               /\ Joined(base[b]) /\ base[b].doc = r.doc => clients'[b] = Received(base[b], e)
               /\ base[c] = t
    <3>1. (b # c => base[b] = clients[b]) /\ base[c] = t
      BY <2>1, <2>4 DEF TypeInv
    <3>2. clients'[b] = IF Subscribed(b) /\ b \in Room(r.doc) THEN Received(base[b], e) ELSE base[b]
      BY <2>6 DEF Sent
    <3>3. (Subscribed(b) <=> Joined(base[b])) /\ (b \in Room(r.doc) <=> base[b].doc = r.doc)
      BY <1>2, <2>3, <3>1 DEF Subscribed, Joined, Room
    <3> QED
      BY <3>1, <3>2, <3>3
  <2>8. /\ t \in Stream /\ t.step = "live" /\ t.doc = r.doc /\ PayloadOK(t) /\ StaleOK(t)
        /\ (Reads(t) <=> Reads(r)) /\ \A a : Heard(r, a) => Heard(t, a)
        /\ \A a : Owes(r, a) => Owes(t, a) \/ a.edit \in r.payload
    BY <1>2, <2>3, AnsweredFacts
  <2>9. clients' \in [Clients -> Stream]
    <3>1. \A b \in Clients : clients'[b] \in Stream
      BY <2>7, ReceivedFacts
    <3>2. clients' = [b \in Clients |-> clients'[b]]
      BY <2>6 DEF Sent
    <3> QED
      BY <3>1, <3>2
  <2>10. \A b \in Clients : \A a : Owes(base[b], a) => Owes(clients'[b], a)
    <3> SUFFICES ASSUME NEW b \in Clients, NEW a, Owes(base[b], a) PROVE Owes(clients'[b], a)
      OBVIOUS
    <3>1. CASE clients'[b] = base[b]
      BY <3>1
    <3>2. CASE clients'[b] = Received(base[b], e)
      <4>1. PICK q : q = Received(base[b], e)
        OBVIOUS
      <4>2. /\ q.step = base[b].step /\ q.doc = base[b].doc /\ q.payload = base[b].payload
            /\ q.kind = base[b].kind /\ q.ydoc = base[b].ydoc /\ q.synced = base[b].synced
        BY <4>1, ReceivedFacts
      <4> QED
        BY <3>2, <4>1, <4>2 DEF Owes
    <3> QED
      BY <2>7, <3>1, <3>2
  <2>11. ASSUME NEW b \in Clients
         PROVE  PayloadOK(clients[b])' /\ ReaderOK(clients[b])' /\ StaleOK(clients[b])'
    <3>1. PICK p \in Stream : p = base[b]
      OBVIOUS
    <3>2. PICK q \in Stream : q = clients'[b]
      BY <2>9
    <3>3. /\ q.step = p.step /\ q.doc = p.doc /\ q.access = p.access /\ q.told = p.told
          /\ q.payload = p.payload /\ q.ydoc = p.ydoc
          /\ Warned(p) => Warned(q)
          /\ Reads(q) => Reads(p) /\ \A a : Heard(p, a) => Heard(q, a)
      BY <2>7, <3>1, <3>2, ReceivedFacts
    <3>4. PayloadOK(p) /\ StaleOK(p)
      BY <2>1, <2>7, <2>8, <3>1 DEF StreamInv
    <3>5. PayloadOK(q) /\ StaleOK(q)
      BY <3>3, <3>4 DEF PayloadOK, StaleOK, Joined
    <3>6. StaleOK(q)'
      BY <2>1, <3>5 DEF StaleOK
    <3>7. ReaderOK(q)'
      <4> SUFFICES ASSUME Reads(q), NEW a \in accepted, a.doc = q.doc, a.doc = Current
                   PROVE  Heard(q, a) \/ \E o \in Clients : Owes(clients'[o], a)
        BY <2>1, <2>2 DEF ReaderOK
      <4>1. Heard(p, a) \/ \E o \in Clients : Owes(clients[o], a)
        <5>1. Reads(p) /\ ReaderOK(clients[b])
          BY <2>1, <3>3 DEF StreamInv
        <5>2. CASE b = c
          BY <1>2, <2>7, <2>8, <3>1, <3>3, <5>1, <5>2 DEF ReaderOK
        <5>3. CASE b # c
          BY <2>7, <3>1, <3>3, <5>1, <5>3 DEF ReaderOK
        <5> QED
          BY <5>2, <5>3
      <4>2. CASE Heard(p, a)
        BY <3>3, <4>2
      <4>3. CASE \E o \in Clients : Owes(clients[o], a)
        <5>1. PICK o \in Clients : Owes(clients[o], a)
          BY <4>3
        <5>2. CASE o # c
          BY <2>7, <2>10, <5>1, <5>2
        <5>3. CASE o = c /\ Owes(t, a)
          BY <2>7, <2>10, <5>3
        <5>4. CASE o = c /\ a.edit \in r.payload
          <6>1. a.doc = r.doc /\ a.edit \in e.edits
            BY <1>2, <2>5, <5>1, <5>4 DEF Owes
          <6>2. Joined(p)
            BY <3>3 DEF Reads, Joined
          <6>3. q = Received(p, e)
            BY <2>7, <3>1, <3>2, <3>3, <6>1, <6>2
          <6> QED
            BY <6>1, <6>3, ReceivedFacts
        <5> QED
          BY <1>2, <2>8, <5>1, <5>2, <5>3, <5>4
      <4> QED
        BY <4>1, <4>2, <4>3
    <3> QED
      BY <3>2, <3>5, <3>6, <3>7
  <2>12. TypeInv'
    BY <2>1, <2>9 DEF TypeInv
  <2> QED
    BY <2>2, <2>11, <2>12 DEF IInv, StreamInv
<1> QED
  BY <1>3, <1>4

\* access_changed and invalidate_project reach every stream of the project.
LEMMA AnnounceStep ==
  ASSUME IInv, NEW k \in {"access", "content"}, Announce(k)
  PROVE  IInv'
<1>1. /\ UNCHANGED <<project, document, log, snapshots, lastId, accepted, worker>>
      /\ TypeInv /\ StoreInv /\ StreamInv
      /\ clients' = Sent(clients, EndEvent, Clients)
      /\ due' = [due EXCEPT ![k] = @ - 1] /\ due[k] > 0
  BY DEF Announce, storage, tasks, IInv
<1>2. StoreInv' /\ Current' = Current
  BY <1>1, StoreStill
<1>3. PICK e \in Event : e = EndEvent /\ e.kind = "end"
  <2>1. EndEvent \in Event /\ EndEvent.kind = "end"
    BY DEF Event, EndEvent
  <2> QED
    BY <2>1
<1>4. \A b \in Clients : clients[b] \in Stream
  BY <1>1 DEF TypeInv
<1>5. \A b \in Clients : clients'[b] = IF Joined(clients[b]) THEN Received(clients[b], e) ELSE clients[b]
  BY <1>1, <1>3 DEF Sent, Subscribed, Joined
<1>6. clients' \in [Clients -> Stream]
  <2>1. \A b \in Clients : clients'[b] \in Stream
    BY <1>4, <1>5, ReceivedFacts
  <2>2. clients' = [b \in Clients |-> clients'[b]]
    BY <1>1 DEF Sent
  <2> QED
    BY <2>1, <2>2
<1>7. ASSUME NEW b \in Clients
      PROVE  LET p == clients[b]
                 q == clients'[b]
             IN  /\ q.step = p.step /\ q.doc = p.doc /\ q.payload = p.payload
                 /\ q.kind = p.kind /\ q.ydoc = p.ydoc /\ q.synced = p.synced
                 /\ Joined(p) => Warned(q)
                 /\ Reads(q) => Reads(p) /\ \A a : Heard(p, a) => Heard(q, a)
  BY <1>3, <1>4, <1>5, ReceivedFacts
<1>8. \A b \in Clients : \A a : Owes(clients[b], a) => Owes(clients'[b], a)
  BY <1>7 DEF Owes
<1>9. ASSUME NEW b \in Clients
      PROVE  PayloadOK(clients[b])' /\ ReaderOK(clients[b])' /\ StaleOK(clients[b])'
  <2>1. PICK p \in Stream : p = clients[b] /\ PayloadOK(p) /\ ReaderOK(p)
    BY <1>1, <1>4 DEF StreamInv
  <2>2. PICK q \in Stream : q = clients'[b]
    BY <1>6
  <2>3. /\ q.step = p.step /\ q.doc = p.doc /\ q.payload = p.payload /\ q.ydoc = p.ydoc
        /\ Joined(p) => Warned(q)
        /\ Reads(q) => Reads(p) /\ \A a : Heard(p, a) => Heard(q, a)
    BY <1>7, <2>1, <2>2
  <2>4. PayloadOK(q)
    BY <2>1, <2>3 DEF PayloadOK
  <2>5. StaleOK(q)'
    BY <2>3 DEF StaleOK, Joined
  <2>6. ReaderOK(q)'
    BY <1>1, <1>2, <1>8, <2>1, <2>3 DEF ReaderOK
  <2> QED
    BY <2>2, <2>4, <2>5, <2>6
<1>10. TypeInv'
  <2>1. due' \in [access: Nat, content: Nat]
    <3>1. CASE k = "access"
      BY <1>1, <3>1 DEF TypeInv
    <3>2. CASE k = "content"
      BY <1>1, <3>2 DEF TypeInv
    <3> QED
      BY <3>1, <3>2
  <2> QED
    BY <1>1, <1>6, <2>1 DEF TypeInv
<1> QED
  BY <1>2, <1>9, <1>10 DEF IInv, StreamInv

-----------------------------------------------------------------------------
(* The worker, captures, and what others do to the document.               *)

\* Storage was written, and the streams do not change.
LEMMA StreamsStill ==
  ASSUME StreamInv, UNCHANGED <<clients, accepted, due>>, Current' = Current,
         project'.content = project.content, project'.access = project.access
  PROVE  StreamInv'
<1>1. ASSUME NEW c \in Clients
      PROVE  PayloadOK(clients[c])' /\ ReaderOK(clients[c])' /\ StaleOK(clients[c])'
  <2>1. PICK r : r = clients[c]
    OBVIOUS
  <2>2. PayloadOK(r) /\ ReaderOK(r) /\ StaleOK(r)
    BY <2>1 DEF StreamInv
  <2>3. ReaderOK(r)' /\ StaleOK(r)'
    BY <2>2 DEF ReaderOK, StaleOK
  <2> QED
    BY <2>1, <2>2, <2>3
<1> QED
  BY <1>1 DEF StreamInv

\* The worker and a capture take up only documents of the log.
LEMMA PendingFacts ==
  ASSUME TypeInv
  PROVE  Pending \subseteq Doc /\ NextPending \in Doc \cup {None}
<1>1. Pending \subseteq Doc
  BY DEF Pending, TypeInv, LogRow
<1>2. NextPending \in Doc \cup {None}
  <2> DEFINE us == {u \in log : u.id > Upto(u.doc)}
  <2>1. CASE us = {}
    BY <2>1 DEF NextPending
  <2>2. CASE us # {}
    <3> DEFINE ids == {i \in Nat : \E u \in us : u.id = i}
    <3>1. \A u \in us : u.id \in ids
      BY DEF TypeInv, LogRow
    <3>2. PICK m \in ids : \A k \in ids : m <= k
      BY <2>2, <3>1, LeastExists
    <3>3. \E u \in us : \A v \in us : u.id <= v.id
      BY <3>1, <3>2
    <3>4. PICK x : x = (CHOOSE u \in us : \A v \in us : u.id <= v.id)
      OBVIOUS
    <3>5. x \in us
      BY <3>3, <3>4
    <3>6. x \in log
      BY <3>5
    <3>7. NextPending = x.doc
      BY <2>2, <3>4 DEF NextPending
    <3> QED
      BY <3>6, <3>7 DEF TypeInv, LogRow
  <2> QED
    BY <2>1, <2>2
<1> QED
  BY <1>1, <1>2

\* Nothing is written and no stream changes.
LEMMA TaskStep ==
  ASSUME IInv, TakePending \/ ProjectionFails \/ BeginCapture \/ Drain
  PROVE  IInv'
<1>1. /\ UNCHANGED <<project, document, log, snapshots, lastId, accepted, clients, due>>
      /\ TypeInv /\ StoreInv /\ StreamInv
      /\ worker' \in {worker, NextPending, None}
  BY DEF TakePending, ProjectionFails, BeginCapture, Drain, storage, IInv
<1>2. StoreInv' /\ Current' = Current
  BY <1>1, StoreStill
<1>3. StreamInv'
  BY <1>1, <1>2, StreamsStill
<1>4. worker' \in Doc \cup {None}
  BY <1>1, PendingFacts DEF TypeInv
<1>5. TypeInv'
  BY <1>1, <1>4 DEF TypeInv
<1> QED
  BY <1>2, <1>3, <1>5 DEF IInv

\* A compaction by the projection worker or by a capture; a capture leaves the
\* text with every accepted edit.
LEMMA ProjectionStep ==
  ASSUME IInv, ReconcilePending \/ Capture
  PROVE  /\ IInv'
         /\ Capture /\ document.present => \A a \in accepted : a.doc = Current => a.edit \in document'.text.edits
<1>1. /\ UNCHANGED <<project, lastId, accepted, clients, due>>
      /\ TypeInv /\ StoreInv /\ StreamInv
      /\ worker' \in {worker, None}
  BY DEF ReconcilePending, Capture, IInv
<1>2. PICK ds \in SUBSET Doc : Reconcile(ds, log, None) /\ (Capture => ds = Pending)
  <2>1. CASE Capture
    BY <1>1, <2>1, PendingFacts DEF Capture
  <2>2. CASE ~Capture
    <3>1. worker \in Doc /\ Reconcile({worker}, log, None)
      BY <1>1, <2>2 DEF ReconcilePending, TypeInv
    <3>2. {worker} \in SUBSET Doc
      BY <3>1
    <3> QED
      BY <2>2, <3>1, <3>2
  <2> QED
    BY <2>1, <2>2
<1>3. log \subseteq LogRow /\ lastId \in Nat /\ \A u \in log : u.id <= lastId
  BY <1>1 DEF TypeInv, StoreInv, LogInv
<1>4. /\ StoreInv' /\ Current' = Current
      /\ snapshots' \subseteq SnapshotRow /\ log' \subseteq LogRow
      /\ document' \in [present: BOOLEAN, rev: Nat, text: Txt]
      /\ document.present /\ Current \in ds =>
           \A a \in accepted' : a.doc = Current => a.edit \in document'.text.edits
  BY <1>1, <1>2, <1>3, ReconcileKeeps
<1>5. StreamInv'
  BY <1>1, <1>4, StreamsStill
<1>6. TypeInv'
  <2>1. worker' \in Doc \cup {None}
    BY <1>1 DEF TypeInv
  <2> QED
    BY <1>1, <1>4, <2>1 DEF TypeInv
<1>7. ASSUME Capture, document.present, NEW a \in accepted, a.doc = Current
      PROVE  a.edit \in document'.text.edits
  <2>1. CASE Current \in Pending
    BY <1>1, <1>2, <1>4, <1>7, <2>1
  <2>2. CASE Current \notin Pending
    <3>1. Uncovered(Current) = {}
      BY <2>2 DEF Uncovered, Pending
    <3>2. PICK s \in snapshots : s.doc = Current /\ a.edit \in s.text.edits
      BY <1>1, <1>7, <3>1 DEF StoreInv, NoEditLost, SnapshotOf
    <3>3. a.edit \in document.text.edits
      BY <1>1, <1>7, <3>2 DEF StoreInv, SnapshotInv
    <3>4. {d \in Pending : Projectable(d)} = {}
      BY <2>2 DEF Projectable
    <3>5. UNCHANGED document
      BY <1>2, <1>7, <3>4 DEF Reconcile
    <3> QED
      BY <3>3, <3>5
  <2> QED
    BY <2>1, <2>2
<1> QED
  BY <1>4, <1>5, <1>6, <1>7 DEF IInv

\* The database aborts the bootstrap or the capture.
LEMMA BreakStep ==
  ASSUME IInv, NEW c \in Clients, BreakCycle(c)
  PROVE  IInv'
<1>1. UNCHANGED <<storage, due, worker>> /\ (Close(c) \/ UNCHANGED clients)
  BY DEF BreakCycle
<1>2. CASE Close(c)
  BY <1>1, <1>2, QuietMove
<1>3. CASE UNCHANGED clients
  <2>1. /\ UNCHANGED <<project, document, log, snapshots, lastId, accepted, clients, due, worker>>
        /\ TypeInv /\ StoreInv /\ StreamInv
    BY <1>1, <1>3 DEF storage, IInv
  <2>2. StoreInv' /\ StreamInv'
    BY <2>1, StoreStill, StreamsStill
  <2> QED
    BY <2>1, <2>2 DEF TypeInv, IInv
<1> QED
  BY <1>1, <1>2, <1>3

\* A new revision or a new content has no rows, and no accepted edits, yet.
LEMMA FreshDocument ==
  ASSUME TypeInv, StoreInv, UNCHANGED <<lastId, accepted>>,
         snapshots' \subseteq snapshots, log' \subseteq log,
         \A d \in Doc : Known(d) => Known(d)' /\ d # Current'
  PROVE  StoreInv' /\ \A a \in accepted : a.doc # Current'
<1>1. \A a \in accepted : a.doc \in Doc /\ Known(a.doc)
  BY DEF TypeInv, StoreInv, LogInv
<1>2. \A s \in snapshots : s.doc \in Doc /\ Known(s.doc)
  BY DEF TypeInv, SnapshotRow, StoreInv, SnapshotInv
<1>3. \A a \in accepted : a.doc # Current'
  BY <1>1
<1>4. ASSUME NEW s \in snapshots PROVE Known(s.doc)' /\ s.doc # Current'
  BY <1>2
<1>5. ASSUME NEW a \in accepted PROVE Known(a.doc)'
  BY <1>1
<1>6. SnapshotInv'
  BY <1>4 DEF StoreInv, SnapshotInv
<1>7. LogInv'
  BY <1>5 DEF StoreInv, LogInv
<1>8. NoEditLost'
  BY <1>3 DEF NoEditLost
<1> QED
  BY <1>3, <1>6, <1>7, <1>8 DEF StoreInv

\* An authoritative write, a deletion and a replacement of the content.
LEMMA ContentStep ==
  ASSUME IInv, WriteDocument \/ DeleteDocument \/ ReplaceContent
  PROVE  IInv'
<1>1. TypeInv /\ StoreInv /\ StreamInv
  BY DEF IInv
<1>2. /\ project.content \in Nat /\ document.rev \in Nat /\ due.content \in Nat
      /\ project \in [content: Nat, access: Nat, role: [Clients -> Roles]]
      /\ document \in [present: BOOLEAN, rev: Nat, text: Txt]
      /\ Current \in Doc /\ Current.epoch = project.content /\ Current.rev = document.rev
  BY <1>1, CurrentFacts DEF TypeInv
<1>3. CASE WriteDocument
  <2>1. UNCHANGED <<project, log, snapshots, lastId, accepted, clients, due, worker>>
    BY <1>3 DEF WriteDocument, tasks
  <2>2. PICK id \in Doc : id = [Current EXCEPT !.rev = @ + 1]
    <3>1. [Current EXCEPT !.rev = @ + 1] \in Doc
      BY <1>2 DEF Doc
    <3> QED
      BY <3>1
  <2>3. PICK text \in Txt : text = [seed |-> id, edits |-> {}]
    BY DEF Txt
  <2>4. document' = [document EXCEPT !.rev = @ + 1, !.text = text]
    BY <1>3, <2>2, <2>3 DEF WriteDocument
  <2>5. /\ document' \in [present: BOOLEAN, rev: Nat, text: Txt]
        /\ document'.rev = document.rev + 1
    <3>1. PICK n \in Nat : n = document.rev + 1
      BY <1>2
    <3>2. document' = [document EXCEPT !.rev = n, !.text = text]
      BY <1>2, <2>4, <3>1
    <3>3. document' \in [present: BOOLEAN, rev: Nat, text: Txt]
      BY <1>2, <3>2
    <3> QED
      BY <1>2, <3>1, <3>2, <3>3
  <2>6. Current'.epoch = project.content /\ Current'.rev = document.rev + 1
    BY <2>1, <2>5 DEF Current
  <2>7. ASSUME NEW d \in Doc, Known(d)
        PROVE  Known(d)' /\ d # Current'
    BY <1>2, <2>1, <2>5, <2>6, <2>7 DEF Known, Doc
  <2>8. StoreInv' /\ \A a \in accepted : a.doc # Current'
    BY <1>1, <2>1, <2>7, FreshDocument
  <2>9. ASSUME NEW c \in Clients
        PROVE  PayloadOK(clients[c])' /\ ReaderOK(clients[c])' /\ StaleOK(clients[c])'
    <3>1. PICK r : r = clients[c] /\ PayloadOK(r) /\ StaleOK(r)
      BY <1>1 DEF StreamInv
    <3>2. ReaderOK(r)' /\ StaleOK(r)'
      BY <2>1, <2>8, <3>1 DEF ReaderOK, StaleOK
    <3> QED
      BY <2>1, <3>1, <3>2
  <2>10. TypeInv'
    BY <1>1, <2>1, <2>5 DEF TypeInv
  <2> QED
    BY <2>8, <2>9, <2>10 DEF IInv, StreamInv
<1>4. CASE DeleteDocument
  <2>1. /\ UNCHANGED <<project, lastId, accepted, clients, due, worker>>
        /\ log' \subseteq log /\ snapshots' \subseteq snapshots
        /\ document' = [document EXCEPT !.present = FALSE]
    BY <1>4 DEF DeleteDocument, Cascaded, tasks
  <2>2. /\ document' \in [present: BOOLEAN, rev: Nat, text: Txt]
        /\ document'.rev = document.rev /\ ~document'.present
    BY <1>2, <2>1
  <2>3. Current' = Current
    BY <2>1, <2>2 DEF Current
  <2>4. SnapshotInv' /\ LogInv' /\ NoEditLost'
    BY <1>1, <2>1, <2>2 DEF StoreInv, SnapshotInv, LogInv, NoEditLost, Known
  <2>5. StreamInv'
    BY <1>1, <2>1, <2>3, StreamsStill
  <2>6. TypeInv'
    BY <1>1, <2>1, <2>2 DEF TypeInv
  <2> QED
    BY <2>4, <2>5, <2>6 DEF IInv, StoreInv
<1>5. CASE ReplaceContent
  <2>1. /\ UNCHANGED <<lastId, accepted, clients, worker>> /\ log' = {} /\ snapshots' = {}
        /\ project' = [project EXCEPT !.content = @ + 1]
        /\ due' = [due EXCEPT !.content = @ + 1]
    BY <1>5 DEF ReplaceContent, tasks
  <2>2. PICK id \in Doc : id = [epoch |-> project.content + 1, rev |-> 0]
    <3>1. [epoch |-> project.content + 1, rev |-> 0] \in Doc
      BY <1>2 DEF Doc
    <3> QED
      BY <3>1
  <2>3. PICK text \in Txt : text = [seed |-> id, edits |-> {}]
    BY DEF Txt
  <2>4. document' = [present |-> TRUE, rev |-> 0, text |-> text]
    BY <1>5, <2>2, <2>3 DEF ReplaceContent
  <2>5. /\ document' \in [present: BOOLEAN, rev: Nat, text: Txt]
        /\ project' \in [content: Nat, access: Nat, role: [Clients -> Roles]]
        /\ project'.content = project.content + 1 /\ project'.access = project.access
    BY <1>2, <2>1, <2>4
  <2>6. /\ due' \in [access: Nat, content: Nat] /\ due'.content > 0 /\ due'.access = due.access
    BY <1>1, <1>2, <2>1 DEF TypeInv
  <2>7. Current'.epoch = project.content + 1
    BY <2>5 DEF Current
  <2>8. ASSUME NEW d \in Doc, Known(d)
        PROVE  Known(d)' /\ d # Current'
    BY <1>2, <2>5, <2>7, <2>8 DEF Known, Doc
  <2>9. StoreInv' /\ \A a \in accepted : a.doc # Current'
    BY <1>1, <2>1, <2>8, FreshDocument
  <2>10. ASSUME NEW c \in Clients
         PROVE  PayloadOK(clients[c])' /\ ReaderOK(clients[c])' /\ StaleOK(clients[c])'
    <3>1. PICK r : r = clients[c] /\ PayloadOK(r) /\ StaleOK(r)
      BY <1>1 DEF StreamInv
    <3>2. ReaderOK(r)'
      BY <2>1, <2>9 DEF ReaderOK
    <3>3. StaleOK(r)'
      BY <2>5, <2>6, <3>1 DEF StaleOK
    <3> QED
      BY <2>1, <3>1, <3>2, <3>3
  <2>11. TypeInv'
    BY <1>1, <2>1, <2>5, <2>6 DEF TypeInv
  <2> QED
    BY <2>9, <2>10, <2>11 DEF IInv, StreamInv
<1> QED
  BY <1>3, <1>4, <1>5

\* A change of access is due to be announced.
LEMMA AccessStep ==
  ASSUME IInv, NEW c \in Clients, NEW role \in Roles, ChangeAccess(c, role)
  PROVE  IInv'
<1>1. /\ TypeInv /\ StoreInv /\ StreamInv
      /\ UNCHANGED <<document, log, snapshots, lastId, accepted, clients, worker>>
      /\ project' = [project EXCEPT !.access = @ + 1, !.role[c] = role]
      /\ due' = [due EXCEPT !.access = @ + 1]
  BY DEF IInv, ChangeAccess, tasks
<1>2. PICK roles \in [Clients -> Roles] : roles = [project.role EXCEPT ![c] = role]
  BY <1>1 DEF TypeInv
<1>3. project' = [project EXCEPT !.access = @ + 1, !.role = roles]
  BY <1>1, <1>2 DEF TypeInv
<1>4. /\ project' \in [content: Nat, access: Nat, role: [Clients -> Roles]]
      /\ project'.content = project.content
  <2>1. PICK n \in Nat : n = project.access + 1
    BY <1>1 DEF TypeInv
  <2>2. project' = [project EXCEPT !.access = n, !.role = roles]
    BY <1>3, <2>1
  <2>3. project' \in [content: Nat, access: Nat, role: [Clients -> Roles]]
    BY <1>1, <2>2 DEF TypeInv
  <2> QED
    BY <1>1, <2>2, <2>3 DEF TypeInv
<1>5. due' \in [access: Nat, content: Nat] /\ due'.access > 0 /\ due'.content = due.content
  BY <1>1 DEF TypeInv
<1>6. StoreInv' /\ Current' = Current
  BY <1>1, <1>4, StoreStill
<1>7. ASSUME NEW b \in Clients
      PROVE  PayloadOK(clients[b])' /\ ReaderOK(clients[b])' /\ StaleOK(clients[b])'
  <2>1. PICK r : r = clients[b] /\ PayloadOK(r) /\ StaleOK(r) /\ ReaderOK(r)
    BY <1>1 DEF StreamInv
  <2>2. ReaderOK(r)'
    BY <1>1, <1>6, <2>1 DEF ReaderOK
  <2>3. StaleOK(r)'
    BY <1>4, <1>5, <2>1 DEF StaleOK
  <2> QED
    BY <1>1, <2>1, <2>2, <2>3
<1>8. TypeInv'
  BY <1>1, <1>4, <1>5 DEF TypeInv
<1> QED
  BY <1>6, <1>7, <1>8 DEF IInv, StreamInv

\* When the process ends every stream ends; what was accepted is in the tabs.
LEMMA RestartStep ==
  ASSUME IInv, Restart
  PROVE  IInv'
<1>1. /\ UNCHANGED <<project, document, log, snapshots, lastId, accepted>>
      /\ TypeInv /\ StoreInv /\ StreamInv /\ worker' = None
      /\ due' = [access |-> 0, content |-> 0]
      /\ clients' = [c \in Clients |-> Left(clients[c])]
  BY DEF Restart, storage, IInv
<1>2. StoreInv'
  BY <1>1, StoreStill
<1>3. ASSUME NEW c \in Clients
      PROVE  /\ clients'[c] \in Stream /\ PayloadOK(clients[c])'
             /\ ReaderOK(clients[c])' /\ StaleOK(clients[c])'
  <2>1. PICK r \in Stream : r = clients[c]
    BY <1>1 DEF TypeInv
  <2>2. PICK l \in Stream : /\ l = Left(r) /\ l.step = "closed" /\ PayloadOK(l) /\ ~Reads(l)
    BY LeftFacts
  <2>3. clients'[c] = l
    BY <1>1, <2>1, <2>2
  <2>4. StaleOK(l)' /\ ReaderOK(l)'
    BY <2>2 DEF StaleOK, Joined, ReaderOK
  <2> QED
    BY <2>2, <2>3, <2>4
<1>4. TypeInv'
  BY <1>1, <1>3 DEF TypeInv
<1> QED
  BY <1>2, <1>3, <1>4 DEF IInv, StreamInv

-----------------------------------------------------------------------------
\* Every step of the streams, the worker, captures and other components keeps
\* the invariant.
LEMMA StepInv ==
  ASSUME IInv, [Next]_vars
  PROVE  IInv'
<1>1. CASE UNCHANGED vars
  <2>1. /\ UNCHANGED <<project, document, log, snapshots, lastId, accepted, clients, due, worker>>
        /\ TypeInv /\ StoreInv /\ StreamInv
    BY <1>1 DEF vars, IInv
  <2>2. StoreInv' /\ StreamInv'
    BY <2>1, StoreStill, StreamsStill
  <2> QED
    BY <2>1, <2>2 DEF TypeInv, IInv
<1>2. ASSUME NEW c \in Clients,
             \/ Connect(c) \/ Serve(c) \/ BreakCycle(c) \/ Forward(c) \/ Sync(c)
             \/ Recheck(c) \/ Disconnect(c)
             \/ \E e \in Edits : Edit(c, e)
             \/ \E r \in Roles : ChangeAccess(c, r)
      PROVE  IInv'
  BY <1>2, AdmissionStep, BootstrapStep, PersistStep, BroadcastStep, EndStep, BreakStep,
     ForwardStep, SubmitStep, AccessStep DEF Serve
<1>3. ASSUME NEW k \in {"access", "content"}, Announce(k)
      PROVE  IInv'
  BY <1>3, AnnounceStep
<1>4. CASE \/ TakePending \/ ReconcilePending \/ ProjectionFails \/ BeginCapture \/ Capture
           \/ WriteDocument \/ DeleteDocument \/ ReplaceContent \/ Drain \/ Restart
  BY <1>4, TaskStep, ProjectionStep, ContentStep, RestartStep
<1> QED
  BY <1>1, <1>2, <1>3, <1>4 DEF Next

\* The invariant holds of every reachable state of the document streams.
THEOREM Invariance == Spec => []IInv
  BY InitInv, StepInv, PTL DEF Spec

\* prune_updates, upsert_snapshot and the compactions of the bootstrap, of
\* persist_update, of the projection worker and of a capture lose no edit that
\* persist_update accepted for the current document.
THEOREM NoEditIsLost == Spec => []NoEditLost
<1>1. IInv => NoEditLost
  BY DEF IInv, StoreInv
<1> QED
  BY <1>1, Invariance, PTL

\* A forwarded stream that has not lagged hears of every edit that
\* persist_update accepted for the current document, although the broadcast
\* follows the commit and a tab may be cut off between the two.
THEOREM ReadersMissNothing == Spec => []ReaderMissesNothing
<1>1. IInv => ReaderMissesNothing
  <2> SUFFICES ASSUME IInv, NEW r \in Clients, Streaming(r) /\ ~clients[r].lagged,
                      NEW a \in accepted, a.doc = clients[r].doc, a.doc = Current
               PROVE  \/ a.edit \in clients[r].ydoc
                      \/ \E i \in DOMAIN clients[r].queue : a.edit \in clients[r].queue[i].edits
                      \/ \E i \in DOMAIN clients[r].queue : clients[r].queue[i].kind = "end"
                      \/ \E c \in Clients : clients[c].step = "answering" /\ a.edit \in clients[c].payload
                      \/ \E c \in Clients : clients[c].doc = a.doc /\ a.edit \in clients[c].ydoc
                                             /\ ~clients[c].synced
    BY DEF ReaderMissesNothing
  <2>1. Heard(clients[r], a) \/ \E c \in Clients : Owes(clients[c], a)
    BY DEF IInv, StreamInv, ReaderOK, Reads, Streaming
  <2> QED
    BY <2>1 DEF Heard, Owes
<1> QED
  BY <1>1, Invariance, PTL

\* A stream that revalidate_project let in and whose access or content epoch is
\* outdated was told, or access_changed or invalidate_project is still to come.
THEOREM StaleStreamsAreTold == Spec => []StaleStreamIsTold
<1>1. IInv => StaleStreamIsTold
  <2> SUFFICES ASSUME IInv, NEW c \in Clients, Subscribed(c),
                      clients[c].step \notin {"joined", "rechecked"},
                      clients[c].access # project.access \/ clients[c].doc.epoch # project.content
               PROVE  \/ clients[c].told \/ clients[c].lagged
                      \/ \E i \in DOMAIN clients[c].queue : clients[c].queue[i].kind = "end"
                      \/ clients[c].access # project.access /\ due.access > 0
                      \/ clients[c].doc.epoch # project.content /\ due.content > 0
    BY DEF StaleStreamIsTold
  <2>1. StaleOK(clients[c]) /\ Joined(clients[c])
    BY DEF IInv, StreamInv, Joined, Subscribed
  <2> QED
    BY <2>1 DEF StaleOK, Warned
<1> QED
  BY <1>1, Invariance, PTL

\* flush_project_collaboration_for_capture: the text that a capture leaves has
\* every edit that was accepted before it.
THEOREM CapturesSeeAccepted == Spec => CaptureSeesAccepted
<1>1. ASSUME IInv, [Next]_vars
      PROVE  [capture = "locked" /\ Capture =>
                \A a \in accepted : a.doc = Current /\ document.present =>
                   a.edit \in document'.text.edits]_vars
  BY <1>1, ProjectionStep
<1> QED
  BY <1>1, Invariance, PTL DEF Spec, CaptureSeesAccepted
=============================================================================
