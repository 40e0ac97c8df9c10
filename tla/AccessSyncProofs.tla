-------------------------- MODULE AccessSyncProofs --------------------------
(***************************************************************************)
(* What the access transactions guarantee for any number of users, groups  *)
(* and concurrent requests: an admitted realtime write comes from someone  *)
(* who may write, the template status and its guests and offers agree, and *)
(* transactions wait for each other only where a guest's admission meets a *)
(* change of its link.                                                     *)
(*                                                                         *)
(* Then what the two workers of a linked repository guarantee for any set  *)
(* of trees and any number of edits, moves and faults: what is recorded as *)
(* synchronised is, a sync is applied once, and nobody's commit is lost.   *)
(***************************************************************************)
EXTENDS Access, GitSync, SequenceTheorems, TLAPS

\* The transactions and where they are: what they hold, and what is left of the
\* locks they take.
Transaction(t) == t = [op |-> t.op, held |-> t.held, todo |-> t.todo]

\* The epoch is advanced after the locks S are taken.
Advancing(t, S) ==
  \/ t.held = S /\ t.todo = AdvanceLocks
  \/ t.held = S \cup {AccessLock("update")} /\ t.todo = <<ProjectRow("update")>>
  \/ t.held = S \cup {AccessLock("update"), ProjectRow("update")} /\ t.todo = <<>>

\* One row is changed, and the epoch advanced after it.
Changing(t, rowLock) ==
  \/ t.held = {} /\ t.todo = <<rowLock>> \o AdvanceLocks
  \/ Advancing(t, {rowLock})

Joining(t) ==
  LET linkLock == Lock("link", t.op.perm, "share")
  IN  \/ t.held = {} /\ t.todo = JoinLocks(t.op.perm, t.op.user)
      \/ t.held = {linkLock} /\ t.todo = RoleLocks(t.op.user)
      \/ Advancing(t, {linkLock, Lock("role", t.op.user, "update")})

AdmittingGuest(t) ==
  LET linkLock == Lock("link", t.op.perm, "share")
  IN  \/ t.held = {} /\ t.todo = GuestLocks(t.op.perm)
      \/ t.held = {ProjectRow("for_update")} /\ t.todo = <<linkLock>>
      \/ t.held = {ProjectRow("for_update"), linkLock} /\ t.todo = <<>>

Granting(t) ==
  \/ t.held = {} /\ t.todo = TemplateGrantLocks
  \/ t.held = {ProjectRow("for_update")} /\ t.todo = <<>>

\* A sync that found access of the organization advances the epoch.
Syncing(t) ==
  LET group == Lock("groups", t.op.user, "update")
      member == Lock("member", t.op.user, "update")
  IN  /\ t.op = [kind |-> "sync", user |-> t.op.user, groups |-> t.op.groups,
                 change |-> t.op.change, found |-> t.op.found]
      /\ \/ t.held = {} /\ t.todo = SyncLocks(t.op.user) /\ t.op.found = FALSE
         \/ t.held = {group} /\ t.todo \in {<<>>, <<member>>} /\ t.op.found = FALSE
         \/ t.held = {group, member} /\ t.todo = <<>> /\ t.op.found = FALSE
         \/ Advancing(t, {group, member}) /\ t.op.found = TRUE

TxnOK(t) ==
  \/ t = Idle
  \/ /\ Transaction(t)
     /\ \/ t.op.kind = "role" /\ Changing(t, Lock("role", t.op.user, "update"))
        \/ t.op.kind = "orgAccess" /\ Changing(t, Lock("orgAccess", "row", "update"))
        \/ t.op.kind = "groupRole" /\ Changing(t, Lock("groupRole", "row", "update"))
        \/ t.op.kind \in {"enable", "revoke"} /\ Changing(t, Lock("link", t.op.perm, "update"))
        \/ t.op.kind = "join" /\ Joining(t)
        \/ t.op.kind = "guest" /\ AdmittingGuest(t)
        \/ t.op.kind = "template" /\ Advancing(t, {})
        \/ t.op.kind = "templateGrant" /\ Granting(t)
        \/ t.op.kind = "sync" /\ Syncing(t)

\* The realtime stream; once it has passed the epoch's lock the epoch is its own.
WriterOK ==
  /\ stream = [at |-> stream.at, who |-> stream.who, epoch |-> stream.epoch,
               held |-> stream.held, todo |-> stream.todo]
  /\ \/ stream.at /= "checked" /\ stream.held = {} /\ stream.todo = <<>>
     \/ /\ stream.at = "checked"
        /\ \/ stream.held = {} /\ stream.todo = <<ProjectRow("key"), AccessLock("share")>>
           \/ stream.held = {ProjectRow("key")} /\ stream.todo = <<AccessLock("share")>>
           \/ /\ stream.held = {ProjectRow("key"), AccessLock("share")} /\ stream.todo = <<>>
              /\ stream.epoch = epoch

TypeInv ==
  /\ DOMAIN req = Requests /\ req = [r \in Requests |-> req[r]]
  /\ epoch \in Nat /\ stream.epoch \in Nat /\ stream.epoch <= epoch

LockInv ==
  /\ \A r \in Requests : TxnOK(req[r])
  /\ WriterOK

\* No two transactions hold locks that block each other.
ExclusionInv ==
  \A a, b \in Actors : a /= b => \A h \in Txn(a).held, k \in Txn(b).held : ~Blocks(h, k)

\* What a request read of the template status under the lock of the project.
StatusInv ==
  \A r \in Requests : ProjectRow("for_update") \in req[r].held =>
    /\ req[r].op.kind = "guest" => ~template
    /\ req[r].op.kind = "templateGrant" => template

\* A right that was checked and is lost moves the epoch away from the stream's.
RightInv == stream.at = "checked" /\ stream.epoch = epoch /\ ~missed => MayWrite(stream.who)

LinkInv == links \in [Permissions -> [id: Nat, live: BOOLEAN, expired: BOOLEAN]]

IInv ==
  TypeInv /\ LockInv /\ ExclusionInv /\ StatusInv /\ LinkInv /\ RightInv /\ ClassificationHolds

-----------------------------------------------------------------------------
(* Locks.                                                                  *)

\* A lock is told by what it is on, and by its mode.
LEMMA LockFacts ==
  ASSUME NEW kind, NEW of, NEW m
  PROVE  Lock(kind, of, m).on = <<kind, of>> /\ Lock(kind, of, m).mode = m
  BY DEF Lock

\* What blocks what: the table of PostgreSQL for the modes that are used.
LEMMA BlocksFacts ==
  ASSUME NEW h, NEW w
  PROVE  /\ Blocks(h, w) <=> Blocks(w, h)
         /\ Blocks(h, w) <=> /\ h.on = w.on
                             /\ ~(h.mode = "share" /\ w.mode = "share")
                             /\ ~(h.mode = "key" /\ w.mode \in {"key", "update"})
                             /\ ~(w.mode = "key" /\ h.mode \in {"key", "update"})
<1>1. {h.mode, w.mode} = {"share"} <=> h.mode = "share" /\ w.mode = "share"
  OBVIOUS
<1>2. {h.mode, w.mode} = {"key"} <=> h.mode = "key" /\ w.mode = "key"
  OBVIOUS
<1>3. {h.mode, w.mode} = {"key", "update"} <=>
        \/ h.mode = "key" /\ w.mode = "update"
        \/ h.mode = "update" /\ w.mode = "key"
  OBVIOUS
<1>4. {h.mode, w.mode} = {w.mode, h.mode}
  OBVIOUS
<1> QED
  BY <1>1, <1>2, <1>3, <1>4 DEF Blocks

\* The first and the rest of a sequence that starts with x.
LEMMA ConsFacts ==
  ASSUME NEW L, NEW x \in L, NEW s \in Seq(L)
  PROVE  <<x>> \o s \in Seq(L) /\ <<x>> \o s /= <<>> /\ Head(<<x>> \o s) = x /\ Tail(<<x>> \o s) = s
<1>1. <<x>> \in Seq(L)
  OBVIOUS
<1>2. /\ <<x>> \o s \in Seq(L) /\ Len(<<x>> \o s) = 1 + Len(s) /\ (<<x>> \o s)[1] = x
      /\ \A i \in 1..Len(s) : (<<x>> \o s)[i + 1] = s[i]
  BY <1>1
<1>3. <<x>> \o s /= <<>> /\ Head(<<x>> \o s) = x
  BY <1>2
<1>4. Tail(<<x>> \o s) \in Seq(L) /\ Len(Tail(<<x>> \o s)) = Len(s)
  BY <1>2, <1>3
<1>5. \A i \in 1..Len(s) : Tail(<<x>> \o s)[i] = s[i]
  BY <1>2, <1>3
<1> QED
  BY <1>2, <1>3, <1>4, <1>5, SeqEqual

\* Sequences of one and of two.
LEMMA PairFacts ==
  ASSUME NEW x, NEW y
  PROVE  /\ <<x, y>> /= <<>> /\ Head(<<x, y>>) = x /\ Tail(<<x, y>>) = <<y>>
         /\ <<x>> /= <<>> /\ Head(<<x>>) = x /\ Tail(<<x>>) = <<>>
<1> DEFINE L == {x, y}
<1>1. <<x, y>> \in Seq(L) /\ <<y>> \in Seq(L) /\ <<x>> \in Seq(L) /\ <<>> \in Seq(L)
  OBVIOUS
<1> HIDE DEF L
<1>2. Tail(<<x, y>>) = <<y>> /\ Tail(<<x>>) = <<>>
  BY <1>1, SeqEqual
<1> QED
  BY <1>1, <1>2

\* The sequences of locks, first and rest.
LEMMA PlanFacts ==
  ASSUME NEW l, NEW p, NEW u
  PROVE  /\ <<l>> \o AdvanceLocks /= <<>> /\ Head(<<l>> \o AdvanceLocks) = l
         /\ Tail(<<l>> \o AdvanceLocks) = AdvanceLocks
         /\ AdvanceLocks /= <<>> /\ Head(AdvanceLocks) = AccessLock("update")
         /\ Tail(AdvanceLocks) = <<ProjectRow("update")>>
         /\ JoinLocks(p, u) /= <<>> /\ Head(JoinLocks(p, u)) = Lock("link", p, "share")
         /\ Tail(JoinLocks(p, u)) = RoleLocks(u)
         /\ GuestLocks(p) /= <<>> /\ Head(GuestLocks(p)) = ProjectRow("for_update")
         /\ Tail(GuestLocks(p)) = <<Lock("link", p, "share")>>
<1> DEFINE L == {l, AccessLock("update"), ProjectRow("update"), Lock("link", p, "share"),
                 Lock("role", u, "update")}
<1>1. AdvanceLocks \in Seq(L)
  BY DEF AdvanceLocks
<1>2. l \in L /\ Lock("link", p, "share") \in L /\ Lock("role", u, "update") \in L
  OBVIOUS
<1> HIDE DEF L
<1>3. RoleLocks(u) \in Seq(L)
  BY <1>1, <1>2, ConsFacts DEF RoleLocks
<1>4. /\ <<l>> \o AdvanceLocks /= <<>> /\ Head(<<l>> \o AdvanceLocks) = l
      /\ Tail(<<l>> \o AdvanceLocks) = AdvanceLocks
  BY <1>1, <1>2, ConsFacts
<1>5. /\ JoinLocks(p, u) /= <<>> /\ Head(JoinLocks(p, u)) = Lock("link", p, "share")
      /\ Tail(JoinLocks(p, u)) = RoleLocks(u)
  BY <1>2, <1>3, ConsFacts DEF JoinLocks
<1>6. /\ AdvanceLocks /= <<>> /\ Head(AdvanceLocks) = AccessLock("update")
      /\ Tail(AdvanceLocks) = <<ProjectRow("update")>>
  BY PairFacts DEF AdvanceLocks
<1>7. /\ GuestLocks(p) /= <<>> /\ Head(GuestLocks(p)) = ProjectRow("for_update")
      /\ Tail(GuestLocks(p)) = <<Lock("link", p, "share")>>
  BY PairFacts DEF GuestLocks
<1> QED
  BY <1>4, <1>5, <1>6, <1>7

\* What a request is once it has taken the lock it waits for.
Holding(t, rowLock) == [t EXCEPT !.held = @ \cup {rowLock}]
Taken(t) == Holding(Continued(t, Head(t.todo).on), Head(t.todo))

\* A sync that writes down what it has read.
SyncOp(op) == op = [kind |-> "sync", user |-> op.user, groups |-> op.groups,
                    change |-> op.change, found |-> op.found]
WithChange(t, v, rest) == [t EXCEPT !.op.change = v, !.todo = rest]
WithFound(t, v, rest) == [t EXCEPT !.op.found = v, !.todo = rest]

\* The records of a transaction and of a sync, when one part of them changes.
LEMMA HoldingFacts ==
  ASSUME NEW t, Transaction(t), NEW rowLock
  PROVE  Holding(t, rowLock) = [op |-> t.op, held |-> t.held \cup {rowLock}, todo |-> t.todo]
<1>1. PICK op, held, todo : /\ t = [op |-> op, held |-> held, todo |-> todo]
                            /\ t.op = op /\ t.held = held /\ t.todo = todo
  BY DEF Transaction
<1>2. PICK h : h = held \cup {rowLock}
  OBVIOUS
<1>3. [t EXCEPT !.held = h] = [op |-> op, held |-> h, todo |-> todo]
  BY <1>1
<1> QED
  BY <1>1, <1>2, <1>3 DEF Holding

\* What a sync has read is written into its record.
LEMMA ReadFacts ==
  ASSUME NEW t, Transaction(t), SyncOp(t.op), NEW v, NEW rest
  PROVE  /\ WithChange(t, v, rest) =
              [op |-> [kind |-> "sync", user |-> t.op.user, groups |-> t.op.groups,
                       change |-> v, found |-> t.op.found], held |-> t.held, todo |-> rest]
         /\ WithFound(t, v, rest) =
              [op |-> [kind |-> "sync", user |-> t.op.user, groups |-> t.op.groups,
                       change |-> t.op.change, found |-> v], held |-> t.held, todo |-> rest]
<1>1. PICK op, held, todo : /\ t = [op |-> op, held |-> held, todo |-> todo]
                            /\ t.op = op /\ t.held = held /\ t.todo = todo
  BY DEF Transaction
<1>2. PICK u, g, c, f :
        /\ op = [kind |-> "sync", user |-> u, groups |-> g, change |-> c, found |-> f]
        /\ op.user = u /\ op.groups = g /\ op.change = c /\ op.found = f
  BY <1>1 DEF SyncOp
<1>3. PICK changed : changed = [op EXCEPT !.change = v]
  OBVIOUS
<1>4. changed = [kind |-> "sync", user |-> u, groups |-> g, change |-> v, found |-> f]
  BY <1>2, <1>3
<1>5. PICK found : found = [op EXCEPT !.found = v]
  OBVIOUS
<1>6. found = [kind |-> "sync", user |-> u, groups |-> g, change |-> c, found |-> v]
  BY <1>2, <1>5
<1>7. WithChange(t, v, rest) = [t EXCEPT !.op = changed, !.todo = rest]
  BY <1>1, <1>3 DEF WithChange
<1>8. WithFound(t, v, rest) = [t EXCEPT !.op = found, !.todo = rest]
  BY <1>1, <1>5 DEF WithFound
<1>9. \A x : [t EXCEPT !.op = x, !.todo = rest] = [op |-> x, held |-> held, todo |-> rest]
  <2> SUFFICES ASSUME NEW x
               PROVE  [t EXCEPT !.op = x, !.todo = rest] = [op |-> x, held |-> held, todo |-> rest]
    OBVIOUS
  <2>1. PICK s : s = [t EXCEPT !.op = x]
    OBVIOUS
  <2>2. s = [op |-> x, held |-> held, todo |-> todo]
    BY <1>1, <2>1
  <2>3. [s EXCEPT !.todo = rest] = [op |-> x, held |-> held, todo |-> rest]
    BY <2>2
  <2> QED
    BY <2>1, <2>3
<1> QED
  BY <1>1, <1>2, <1>4, <1>6, <1>7, <1>8, <1>9

\* A request that is not a sync goes on with the rest of its locks.
LEMMA TakenFacts ==
  ASSUME NEW t, Transaction(t),
         \/ t.op.kind /= "sync"
         \/ Head(t.todo).on[1] \notin {"groups", "member"}
  PROVE  Taken(t) = [op |-> t.op, held |-> t.held \cup {Head(t.todo)}, todo |-> Tail(t.todo)]
<1>1. PICK s : s = Continued(t, Head(t.todo).on)
  OBVIOUS
<1>2. s = [t EXCEPT !.todo = Tail(t.todo)]
  BY <1>1 DEF Continued
<1>3. PICK op, held, todo : /\ t = [op |-> op, held |-> held, todo |-> todo]
                            /\ t.op = op /\ t.held = held /\ t.todo = todo
  BY DEF Transaction
<1>4. PICK rest : rest = Tail(t.todo)
  OBVIOUS
<1>5. s = [op |-> op, held |-> held, todo |-> rest]
  BY <1>2, <1>3, <1>4
<1>6. Transaction(s) /\ s.op = op /\ s.held = held /\ s.todo = rest
  BY <1>5 DEF Transaction
<1>7. PICK rowLock : rowLock = Head(t.todo)
  OBVIOUS
<1>8. Holding(s, rowLock) = [op |-> op, held |-> held \cup {rowLock}, todo |-> rest]
  BY <1>6, HoldingFacts
<1>9. Taken(t) = Holding(s, rowLock)
  BY <1>1, <1>7 DEF Taken
<1> QED
  BY <1>3, <1>4, <1>7, <1>8, <1>9

\* Where a request that advances the epoch is after it has taken a lock.
LEMMA AdvancingFacts ==
  ASSUME NEW t, NEW s, NEW S, Advancing(t, S), t.todo /= <<>>,
         s = [op |-> t.op, held |-> t.held \cup {Head(t.todo)}, todo |-> Tail(t.todo)]
  PROVE  Advancing(s, S) /\ Head(t.todo).on[1] \in {"access", "project"}
<1>1. s.held = t.held \cup {Head(t.todo)} /\ s.todo = Tail(t.todo)
  OBVIOUS
<1>2. CASE t.held = S /\ t.todo = AdvanceLocks
  <2>1. Head(t.todo) = AccessLock("update") /\ Tail(t.todo) = <<ProjectRow("update")>>
    BY <1>2, PlanFacts
  <2> QED
    BY <1>1, <1>2, <2>1, LockFacts DEF Advancing, AccessLock
<1>3. CASE t.held = S \cup {AccessLock("update")} /\ t.todo = <<ProjectRow("update")>>
  <2>1. Head(t.todo) = ProjectRow("update") /\ Tail(t.todo) = <<>>
    BY <1>3, PairFacts
  <2>2. s.held = S \cup {AccessLock("update"), ProjectRow("update")}
    BY <1>1, <1>3, <2>1
  <2> QED
    BY <1>1, <2>1, <2>2, LockFacts DEF Advancing, ProjectRow
<1> QED
  BY <1>2, <1>3 DEF Advancing

\* The same for a request that changes one row first.
LEMMA ChangingFacts ==
  ASSUME NEW t, NEW s, NEW rowLock, Changing(t, rowLock), t.todo /= <<>>,
         s = [op |-> t.op, held |-> t.held \cup {Head(t.todo)}, todo |-> Tail(t.todo)]
  PROVE  Changing(s, rowLock)
<1>1. s.held = t.held \cup {Head(t.todo)} /\ s.todo = Tail(t.todo)
  OBVIOUS
<1>2. CASE t.held = {} /\ t.todo = <<rowLock>> \o AdvanceLocks
  <2>1. Head(t.todo) = rowLock /\ Tail(t.todo) = AdvanceLocks
    BY <1>2, PlanFacts
  <2>2. s.held = {rowLock}
    BY <1>1, <1>2, <2>1
  <2> QED
    BY <1>1, <2>1, <2>2 DEF Changing, Advancing
<1>3. CASE Advancing(t, {rowLock})
  BY <1>3, AdvancingFacts DEF Changing
<1> QED
  BY <1>2, <1>3 DEF Changing

\* The same for a request that joins through a link, or admits a guest.
LEMMA LinkFacts ==
  ASSUME NEW t, NEW s, t.todo /= <<>>,
         s = [op |-> t.op, held |-> t.held \cup {Head(t.todo)}, todo |-> Tail(t.todo)]
  PROVE  /\ Joining(t) => Joining(s)
         /\ AdmittingGuest(t) => AdmittingGuest(s)
         /\ Granting(t) => Granting(s)
<1>1. s.held = t.held \cup {Head(t.todo)} /\ s.todo = Tail(t.todo) /\ s.op = t.op
  OBVIOUS
<1>2. PICK linkLock : linkLock = Lock("link", t.op.perm, "share")
  OBVIOUS
<1>3. PICK role : role = Lock("role", t.op.user, "update")
  OBVIOUS
<1>4. ASSUME Joining(t) PROVE Joining(s)
  <2>1. CASE t.held = {} /\ t.todo = JoinLocks(t.op.perm, t.op.user)
    <3>1. Head(t.todo) = linkLock /\ Tail(t.todo) = RoleLocks(t.op.user)
      BY <1>2, <2>1, PlanFacts
    <3>2. s.held = {linkLock}
      BY <1>1, <2>1, <3>1
    <3> QED
      BY <1>1, <1>2, <3>1, <3>2 DEF Joining
  <2>2. CASE t.held = {linkLock} /\ t.todo = RoleLocks(t.op.user)
    <3>1. Head(t.todo) = role /\ Tail(t.todo) = AdvanceLocks
      BY <1>3, <2>2, PlanFacts DEF RoleLocks
    <3>2. s.held = {linkLock, role}
      BY <1>1, <2>2, <3>1
    <3> QED
      BY <1>1, <1>2, <1>3, <3>1, <3>2 DEF Joining, Advancing
  <2>3. CASE Advancing(t, {linkLock, role})
    <3>1. Advancing(s, {linkLock, role})
      BY <2>3, AdvancingFacts
    <3> QED
      BY <1>1, <1>2, <1>3, <3>1 DEF Joining
  <2> QED
    BY <1>2, <1>3, <1>4, <2>1, <2>2, <2>3 DEF Joining
<1>5. ASSUME AdmittingGuest(t) PROVE AdmittingGuest(s)
  <2>1. CASE t.held = {} /\ t.todo = GuestLocks(t.op.perm)
    <3>1. Head(t.todo) = ProjectRow("for_update") /\ Tail(t.todo) = <<linkLock>>
      BY <1>2, <2>1, PlanFacts
    <3>2. s.held = {ProjectRow("for_update")}
      BY <1>1, <2>1, <3>1
    <3> QED
      BY <1>1, <1>2, <3>1, <3>2 DEF AdmittingGuest
  <2>2. CASE t.held = {ProjectRow("for_update")} /\ t.todo = <<linkLock>>
    <3>1. Head(t.todo) = linkLock /\ Tail(t.todo) = <<>>
      BY <2>2, PairFacts
    <3>2. s.held = {ProjectRow("for_update"), linkLock}
      BY <1>1, <2>2, <3>1
    <3> QED
      BY <1>1, <1>2, <3>1, <3>2 DEF AdmittingGuest
  <2> QED
    BY <1>2, <1>5, <2>1, <2>2 DEF AdmittingGuest
<1>6. ASSUME Granting(t) PROVE Granting(s)
  <2>1. t.held = {} /\ t.todo = <<ProjectRow("for_update")>>
    BY <1>6 DEF Granting, TemplateGrantLocks
  <2>2. Head(t.todo) = ProjectRow("for_update") /\ Tail(t.todo) = <<>>
    BY <2>1, PairFacts
  <2>3. s.held = {ProjectRow("for_update")}
    BY <1>1, <2>1, <2>2
  <2> QED
    BY <1>1, <2>2, <2>3 DEF Granting
<1> QED
  BY <1>4, <1>5, <1>6

\* A sync goes on as what it has read demands.
LEMMA SyncFacts ==
  ASSUME NEW t, Transaction(t), t.op.kind = "sync", Syncing(t), t.todo /= <<>>
  PROVE  /\ Transaction(Taken(t)) /\ Taken(t).op.kind = "sync" /\ Syncing(Taken(t))
         /\ Taken(t).held = t.held \cup {Head(t.todo)}
<1>1. SyncOp(t.op)
  BY DEF Syncing, SyncOp
<1>2. PICK user : user = t.op.user
  OBVIOUS
<1>3. PICK group : group = Lock("groups", user, "update") /\ group.on = <<"groups", user>>
  BY LockFacts
<1>4. PICK member : member = Lock("member", user, "update") /\ member.on = <<"member", user>>
  BY LockFacts
<1>5. CASE t.held = {} /\ t.todo = SyncLocks(user) /\ t.op.found = FALSE
  <2>1. Head(t.todo) = group
    BY <1>3, <1>5, PairFacts DEF SyncLocks
  <2>2. PICK ch, rest : /\ rest \in {<<>>, <<member>>}
                        /\ Continued(t, group.on) = WithChange(t, ch, rest)
    <3>1. Continued(t, group.on) =
            WithChange(t, MembershipChange(t.op),
                       IF MembershipChange(t.op) = "none" THEN <<>>
                       ELSE <<Lock("member", t.op.user, "update")>>)
      BY <1>3 DEF Continued, WithChange
    <3>2. PICK r : /\ r = IF MembershipChange(t.op) = "none" THEN <<>>
                          ELSE <<Lock("member", t.op.user, "update")>>
                   /\ r \in {<<>>, <<member>>}
      BY <1>2, <1>4
    <3> QED
      BY <3>1, <3>2
  <2>3. PICK s : s = Continued(t, group.on)
    OBVIOUS
  <2>4. PICK op : op = [kind |-> "sync", user |-> user, groups |-> t.op.groups,
                        change |-> ch, found |-> t.op.found]
    OBVIOUS
  <2>5. s = [op |-> op, held |-> t.held, todo |-> rest]
    BY <1>1, <1>2, <2>2, <2>3, <2>4, ReadFacts
  <2>6. Transaction(s) /\ s.op = op /\ s.held = t.held /\ s.todo = rest
    BY <2>5 DEF Transaction
  <2>7. Taken(t) = [op |-> op, held |-> t.held \cup {group}, todo |-> rest]
    BY <2>1, <2>3, <2>6, HoldingFacts DEF Taken
  <2>8. Taken(t).op = op /\ Taken(t).held = {group} /\ Taken(t).todo = rest
    BY <1>5, <2>7
  <2>9. op.kind = "sync" /\ op.user = user /\ op.found = FALSE /\ SyncOp(op)
    BY <1>5, <2>4 DEF SyncOp
  <2>10. Syncing(Taken(t))
    BY <1>3, <1>4, <2>2, <2>8, <2>9 DEF Syncing, SyncOp
  <2> QED
    BY <1>5, <2>1, <2>7, <2>8, <2>9, <2>10 DEF Transaction
<1>6. CASE t.held = {group} /\ t.todo = <<member>> /\ t.op.found = FALSE
  <2>1. Head(t.todo) = member
    BY <1>6, PairFacts
  <2>2. PICK f, rest : /\ Continued(t, member.on) = WithFound(t, f, rest)
                       /\ (f = TRUE /\ rest = AdvanceLocks) \/ (f = FALSE /\ rest = <<>>)
    <3>1. Continued(t, member.on) =
            WithFound(t, orgAccess /= "none", IF orgAccess /= "none" THEN AdvanceLocks ELSE <<>>)
      BY <1>4 DEF Continued, WithFound
    <3>2. CASE orgAccess = "none"
      <4>1. Continued(t, member.on) = WithFound(t, FALSE, <<>>)
        BY <3>1, <3>2
      <4> QED
        BY <4>1
    <3>3. CASE orgAccess /= "none"
      <4>1. Continued(t, member.on) = WithFound(t, TRUE, AdvanceLocks)
        BY <3>1, <3>3
      <4> QED
        BY <4>1
    <3> QED
      BY <3>2, <3>3
  <2>3. PICK s : s = Continued(t, member.on)
    OBVIOUS
  <2>4. PICK op : op = [kind |-> "sync", user |-> user, groups |-> t.op.groups,
                        change |-> t.op.change, found |-> f]
    OBVIOUS
  <2>5. s = [op |-> op, held |-> t.held, todo |-> rest]
    BY <1>1, <1>2, <2>2, <2>3, <2>4, ReadFacts
  <2>6. Transaction(s) /\ s.op = op /\ s.held = t.held /\ s.todo = rest
    BY <2>5 DEF Transaction
  <2>7. Taken(t) = [op |-> op, held |-> t.held \cup {member}, todo |-> rest]
    BY <2>1, <2>3, <2>6, HoldingFacts DEF Taken
  <2>8. Taken(t).op = op /\ Taken(t).held = {group, member} /\ Taken(t).todo = rest
    BY <1>6, <2>7
  <2>9. op.kind = "sync" /\ op.user = user /\ op.found = f /\ SyncOp(op)
    BY <2>4 DEF SyncOp
  <2>10. Syncing(Taken(t))
    BY <1>3, <1>4, <2>2, <2>8, <2>9 DEF Syncing, SyncOp, Advancing
  <2> QED
    BY <1>6, <2>1, <2>7, <2>8, <2>9, <2>10 DEF Transaction
<1>7. CASE Advancing(t, {group, member}) /\ t.op.found = TRUE
  <2>1. PICK s : s = [op |-> t.op, held |-> t.held \cup {Head(t.todo)}, todo |-> Tail(t.todo)]
    OBVIOUS
  <2>2. Advancing(s, {group, member}) /\ Head(t.todo).on[1] \in {"access", "project"}
    BY <1>7, <2>1, AdvancingFacts
  <2>3. Taken(t) = s
    BY <2>1, <2>2, TakenFacts
  <2>4. s.op = t.op /\ s.held = t.held \cup {Head(t.todo)} /\ Transaction(s)
    BY <2>1 DEF Transaction
  <2>5. Syncing(s)
    BY <1>1, <1>2, <1>3, <1>4, <1>7, <2>2, <2>4 DEF Syncing, SyncOp
  <2> QED
    BY <2>3, <2>4, <2>5
<1> QED
  BY <1>2, <1>3, <1>4, <1>5, <1>6, <1>7 DEF Syncing

\* A request that takes a lock is one lock further.
LEMMA TakeKeeps ==
  ASSUME NEW t, TxnOK(t), t.todo /= <<>>
  PROVE  /\ TxnOK(Taken(t)) /\ Taken(t).op.kind = t.op.kind
         /\ Taken(t).held = t.held \cup {Head(t.todo)}
<1>1. t /= Idle /\ Transaction(t)
  BY DEF TxnOK, Idle
<1>2. CASE t.op.kind = "sync"
  <2>1. Syncing(t)
    BY <1>1, <1>2 DEF TxnOK
  <2> QED
    BY <1>1, <1>2, <2>1, SyncFacts DEF TxnOK
<1>3. CASE t.op.kind /= "sync"
  <2>1. PICK s : s = [op |-> t.op, held |-> t.held \cup {Head(t.todo)}, todo |-> Tail(t.todo)]
    OBVIOUS
  <2>2. Taken(t) = s
    BY <1>1, <1>3, <2>1, TakenFacts
  <2>3. s.op = t.op /\ s.held = t.held \cup {Head(t.todo)} /\ Transaction(s)
    BY <2>1 DEF Transaction
  <2>4. \A rowLock : Changing(t, rowLock) => Changing(s, rowLock)
    BY <2>1, ChangingFacts
  <2>5. Advancing(t, {}) => Advancing(s, {})
    BY <2>1, AdvancingFacts
  <2>6. (Joining(t) => Joining(s)) /\ (AdmittingGuest(t) => AdmittingGuest(s)) /\ (Granting(t) => Granting(s))
    BY <2>1, LinkFacts
  <2>7. TxnOK(s)
    BY <1>1, <1>3, <2>3, <2>4, <2>5, <2>6 DEF TxnOK
  <2> QED
    BY <2>2, <2>3, <2>7
<1> QED
  BY <1>2, <1>3

\* A request starts with all its locks to take.
LEMMA BeginKeeps ==
  ASSUME NEW op,
         op \in ManageRequests \cup JoinShareLink \cup TemporaryShareLogin \cup OidcLogin
  PROVE  TxnOK([op |-> op, held |-> {}, todo |-> Plan(op)])
<1>1. PICK t : t = [op |-> op, held |-> {}, todo |-> Plan(op)]
  OBVIOUS
<1>2. t.op = op /\ t.held = {} /\ t.todo = Plan(op) /\ Transaction(t)
  BY <1>1 DEF Transaction
<1>3. \/ op.kind \in {"role", "orgAccess", "groupRole", "enable", "revoke", "template",
                      "templateGrant", "join", "guest"}
      \/ op \in OidcLogin
  <2>1. ASSUME NEW u, op \in ManageOps(u)
        PROVE  op.kind \in {"role", "orgAccess", "groupRole", "enable", "revoke", "template", "templateGrant"}
    <3>1. \/ op \in UpsertRole \/ op \in UpsertOrganizationAccess(u)
          \/ op \in DeleteOrganizationAccess(u) \/ op \in UpsertGroupRole
          \/ op \in DeleteGroupRole \/ op \in CreateShareLink \/ op \in RevokeShareLink
          \/ op \in UpdateTemplate \/ op \in GrantTemplateAccess(u)
      BY <2>1 DEF ManageOps
    <3>2. (op \in UpsertRole => op.kind = "role")
      BY DEF UpsertRole
    <3>3. /\ op \in UpsertOrganizationAccess(u) => op.kind = "orgAccess"
          /\ op \in DeleteOrganizationAccess(u) => op.kind = "orgAccess"
      BY DEF UpsertOrganizationAccess, DeleteOrganizationAccess
    <3>4. /\ op \in UpsertGroupRole => op.kind = "groupRole"
          /\ op \in DeleteGroupRole => op.kind = "groupRole"
      BY DEF UpsertGroupRole, DeleteGroupRole
    <3>5. /\ op \in CreateShareLink => op.kind = "enable"
          /\ op \in RevokeShareLink => op.kind = "revoke"
      BY DEF CreateShareLink, RevokeShareLink
    <3>6. /\ op \in UpdateTemplate => op.kind = "template"
          /\ op \in GrantTemplateAccess(u) => op.kind = "templateGrant"
      BY DEF UpdateTemplate, GrantTemplateAccess
    <3> QED
      BY <3>1, <3>2, <3>3, <3>4, <3>5, <3>6
  <2>2. op \in JoinShareLink => op.kind = "join"
    BY DEF JoinShareLink
  <2>3. op \in TemporaryShareLogin => op.kind = "guest"
    BY DEF TemporaryShareLogin
  <2>4. CASE op \in ManageRequests
    <3>1. PICK u \in Users : op \in ManageOps(u)
      BY <2>4 DEF ManageRequests
    <3> QED
      BY <2>1, <3>1
  <2> QED
    BY <2>2, <2>3, <2>4
<1>4. CASE op \in OidcLogin
  <2>1. op.kind = "sync" /\ op.found = FALSE /\
        op = [kind |-> "sync", user |-> op.user, groups |-> op.groups,
              change |-> op.change, found |-> op.found]
    BY <1>4 DEF OidcLogin
  <2>2. Plan(op) = SyncLocks(op.user)
    BY <2>1 DEF Plan
  <2>3. Syncing(t)
    BY <1>2, <2>1, <2>2 DEF Syncing
  <2> QED
    BY <1>1, <1>2, <2>1, <2>3 DEF TxnOK
<1>5. CASE op.kind \in {"role", "orgAccess", "groupRole", "enable", "revoke"}
  BY <1>1, <1>2, <1>5 DEF TxnOK, Plan, Changing, RoleLocks, OrgAccessLocks, GroupRoleLocks,
     EnableLocks, RevokeLocks
<1>6. CASE op.kind \in {"template", "templateGrant", "join", "guest"}
  BY <1>1, <1>2, <1>6 DEF TxnOK, Plan, Advancing, Granting, Joining, AdmittingGuest,
     TemplateLocks, AdvanceLocks
<1> QED
  BY <1>3, <1>4, <1>5, <1>6

\* What a request holds when it commits.
LEMMA CommitFacts ==
  ASSUME NEW t, TxnOK(t), t /= Idle, t.todo = <<>>
  PROVE  /\ Advances(t.op) => AccessLock("update") \in t.held
         /\ t.op.kind = "template" => ProjectRow("update") \in t.held
         /\ t.op.kind \in {"guest", "templateGrant"} => ProjectRow("for_update") \in t.held
<1>1. /\ \A l : <<l>> \o AdvanceLocks /= <<>> /\ <<l>> /= <<>>
      /\ \A p, u : JoinLocks(p, u) /= <<>> /\ RoleLocks(u) /= <<>> /\ GuestLocks(p) /= <<>>
      /\ AdvanceLocks /= <<>>
  BY PlanFacts, PairFacts DEF RoleLocks
<1>2. \A S : Advancing(t, S) => AccessLock("update") \in t.held /\ ProjectRow("update") \in t.held
  BY <1>1 DEF Advancing
<1>3. \A l : Changing(t, l) => AccessLock("update") \in t.held
  BY <1>1, <1>2 DEF Changing
<1>4. Joining(t) => AccessLock("update") \in t.held
  BY <1>1, <1>2 DEF Joining
<1>5. AdmittingGuest(t) => ProjectRow("for_update") \in t.held
  BY <1>1 DEF AdmittingGuest
<1>6. Granting(t) => ProjectRow("for_update") \in t.held
  BY <1>1 DEF Granting, TemplateGrantLocks
<1>7. Syncing(t) /\ t.op.found => AccessLock("update") \in t.held
  BY <1>2 DEF Syncing
<1> QED
  BY <1>2, <1>3, <1>4, <1>5, <1>6, <1>7 DEF TxnOK, Advances

-----------------------------------------------------------------------------
(* A step of one transaction.                                              *)

\* A request moves on: it holds what it held, or a lock that was available.
LEMMA RequestMove ==
  ASSUME TypeInv, LockInv, ExclusionInv, NEW r \in Requests, NEW s, TxnOK(s),
         req' = [req EXCEPT ![r] = s], UNCHANGED stream,
         \A k \in s.held : k \in req[r].held \/ Available(r, k),
         epoch' = epoch \/ (epoch' = epoch + 1 /\ AccessLock("share") \notin stream.held)
  PROVE  /\ TypeInv' /\ LockInv' /\ ExclusionInv'
         /\ req'[r] = s /\ \A q \in Requests \ {r} : req'[q] = req[q]
<1>1. /\ req'[r] = s /\ (\A q \in Requests \ {r} : req'[q] = req[q])
      /\ DOMAIN req' = Requests /\ req' = [q \in Requests |-> req'[q]]
  BY DEF TypeInv
<1>2. TypeInv'
  <2>1. epoch' \in Nat /\ epoch <= epoch' /\ stream'.epoch \in Nat /\ stream'.epoch <= epoch'
    BY DEF TypeInv
  <2> QED
    BY <1>1, <2>1 DEF TypeInv
<1>3. LockInv'
  <2>1. \A q \in Requests : TxnOK(req'[q])
    BY <1>1 DEF LockInv
  <2>2. ASSUME NEW q \in Requests PROVE TxnOK(req[q])'
    <3>1. PICK t : t = req'[q] /\ TxnOK(t)
      BY <2>1
    <3>2. TxnOK(t)'
      BY <3>1 DEF TxnOK
    <3> QED
      BY <3>1, <3>2
  <2>3. WriterOK'
    BY DEF LockInv, WriterOK
  <2> QED
    BY <2>2, <2>3 DEF LockInv
<1>4. r /= Writer /\ Writer \in Actors /\ r \in Actors
  BY WriterAssumption DEF Actors
<1>5. \A a \in Actors : Txn(a)' = IF a = r THEN s ELSE Txn(a)
  BY <1>1, <1>4 DEF Txn, Actors
<1>6. Txn(r) = req[r]
  BY <1>4 DEF Txn
<1>7. ASSUME NEW b \in Actors, b /= r, NEW h \in s.held, NEW k \in Txn(b).held
      PROVE  ~Blocks(h, k) /\ ~Blocks(k, h)
  <2>1. CASE h \in req[r].held
    BY <1>4, <1>6, <1>7, <2>1, BlocksFacts DEF ExclusionInv
  <2>2. CASE Available(r, h)
    BY <1>7, <2>2, BlocksFacts DEF Available
  <2> QED
    BY <2>1, <2>2
<1>8. ExclusionInv'
  <2> SUFFICES ASSUME NEW a \in Actors, NEW b \in Actors, a /= b,
                      NEW h \in Txn(a)'.held, NEW k \in Txn(b)'.held
               PROVE  ~Blocks(h, k)
    BY DEF ExclusionInv
  <2>1. CASE a = r
    BY <1>5, <1>7, <2>1
  <2>2. CASE b = r
    BY <1>5, <1>7, <2>2
  <2>3. CASE a /= r /\ b /= r
    BY <1>5, <2>3 DEF ExclusionInv
  <2> QED
    BY <2>1, <2>2, <2>3
<1> QED
  BY <1>1, <1>2, <1>3, <1>8

\* The stream moves on.
LEMMA StreamMove ==
  ASSUME TypeInv, LockInv, ExclusionInv, UNCHANGED <<req, epoch>>, WriterOK',
         stream'.epoch \in Nat, stream'.epoch <= epoch,
         \A k \in stream'.held : k \in stream.held \/ Available(Writer, k)
  PROVE  TypeInv' /\ LockInv' /\ ExclusionInv'
<1>1. TypeInv'
  BY DEF TypeInv
<1>2. LockInv'
  <2>1. ASSUME NEW q \in Requests PROVE TxnOK(req[q])'
    BY DEF LockInv, TxnOK
  <2> QED
    BY <2>1 DEF LockInv
<1>3. Writer \in Actors
  BY DEF Actors
<1>4. \A a \in Actors : Txn(a)' = IF a = Writer THEN stream' ELSE Txn(a)
  BY DEF Txn
<1>5. Txn(Writer) = stream
  BY DEF Txn
<1>6. ASSUME NEW b \in Actors, b /= Writer, NEW h \in stream'.held, NEW k \in Txn(b).held
      PROVE  ~Blocks(h, k) /\ ~Blocks(k, h)
  <2>1. CASE h \in stream.held
    BY <1>3, <1>5, <1>6, <2>1, BlocksFacts DEF ExclusionInv
  <2>2. CASE Available(Writer, h)
    BY <1>6, <2>2, BlocksFacts DEF Available
  <2> QED
    BY <2>1, <2>2
<1>7. ExclusionInv'
  <2> SUFFICES ASSUME NEW a \in Actors, NEW b \in Actors, a /= b,
                      NEW h \in Txn(a)'.held, NEW k \in Txn(b)'.held
               PROVE  ~Blocks(h, k)
    BY DEF ExclusionInv
  <2>1. CASE a = Writer
    BY <1>4, <1>6, <2>1
  <2>2. CASE b = Writer
    BY <1>4, <1>6, <2>2
  <2>3. CASE a /= Writer /\ b /= Writer
    BY <1>4, <2>3 DEF ExclusionInv
  <2> QED
    BY <2>1, <2>2, <2>3
<1> QED
  BY <1>1, <1>2, <1>7

-----------------------------------------------------------------------------
(* Every step keeps the invariant.                                         *)

\* Initially no request runs and the stream is closed.
LEMMA InitInv ==
  ASSUME Init
  PROVE  IInv
<1>1. Closed.held = {} /\ Closed.todo = <<>> /\ Closed.at = "closed" /\ Closed.epoch = 0
  BY DEF Closed
<1>2. Idle.held = {}
  BY DEF Idle
<1>3. TypeInv
  BY <1>1 DEF Init, TypeInv
<1>4. LockInv
  <2>1. \A r \in Requests : TxnOK(req[r])
    BY DEF Init, TxnOK
  <2>2. WriterOK
    BY <1>1 DEF Init, WriterOK, Closed
  <2> QED
    BY <2>1, <2>2 DEF LockInv
<1>5. \A a \in Actors : Txn(a).held = {}
  BY <1>1, <1>2 DEF Init, Txn, Actors
<1>6. ExclusionInv /\ StatusInv
  BY <1>2, <1>5 DEF Init, ExclusionInv, StatusInv
<1>7. RightInv /\ ClassificationHolds
  BY <1>1 DEF Init, RightInv, ClassificationHolds
<1>8. LinkInv
  <2> DEFINE Link == [id: Nat, live: BOOLEAN, expired: BOOLEAN]
  <2>1. NoLink \in Link
    BY DEF NoLink
  <2>2. [NoLink EXCEPT !.id = 1, !.live = TRUE] \in Link
    BY <2>1
  <2> QED
    BY <2>1, <2>2 DEF Init, LinkInv
<1> QED
  BY <1>3, <1>4, <1>6, <1>7, <1>8 DEF IInv

\* The grants do not change, and with them what rests on them.
LEMMA GrantsStill ==
  ASSUME IInv, UNCHANGED grants
  PROVE  /\ LinkInv' /\ ClassificationHolds' /\ UNCHANGED <<epoch, template, orgAccess, missed>>
         /\ \A who : MayWrite(who)' = MayWrite(who)
         /\ UNCHANGED stream => RightInv'
<1>1. /\ UNCHANGED <<roles, orgAccess, members, links, guests, template, templateOrg, mode, epoch, missed>>
      /\ LinkInv /\ ClassificationHolds /\ RightInv
  BY DEF grants, IInv
<1>2. \A who : MayWrite(who)' = MayWrite(who)
  BY <1>1 DEF MayWrite, UserMayWrite, GuestMayWrite, Member, Active
<1>3. ASSUME UNCHANGED stream PROVE RightInv'
  <2>1. PICK who : who = stream.who
    OBVIOUS
  <2>2. MayWrite(who)' = MayWrite(who)
    BY <1>2
  <2> QED
    BY <1>1, <1>3, <2>1, <2>2 DEF RightInv
<1> QED
  BY <1>1, <1>2, <1>3 DEF LinkInv, ClassificationHolds

\* A request begins, takes its next lock, or is rolled back.
LEMMA RequestStep ==
  ASSUME IInv, NEW r \in Requests, Begin(r) \/ TakeLock(r) \/ Abort(r)
  PROVE  IInv'
<1>1. UNCHANGED grants /\ UNCHANGED stream /\ TypeInv /\ LockInv /\ ExclusionInv /\ StatusInv
  BY DEF Begin, TakeLock, Abort, IInv
<1>2. /\ LinkInv' /\ ClassificationHolds' /\ RightInv' /\ UNCHANGED <<epoch, template>>
  BY <1>1, GrantsStill
<1>3. Idle.held = {} /\ TxnOK(Idle)
  BY DEF Idle, TxnOK
<1>4. PICK s : /\ req' = [req EXCEPT ![r] = s] /\ TxnOK(s)
               /\ \A k \in s.held : k \in req[r].held \/ Available(r, k)
               /\ ProjectRow("for_update") \in s.held =>
                    /\ s.op.kind = "guest" => ~template
                    /\ s.op.kind = "templateGrant" => template
  <2>1. CASE Begin(r)
    <3>1. PICK op \in ManageRequests \cup JoinShareLink \cup TemporaryShareLogin \cup OidcLogin :
            req' = [req EXCEPT ![r] = [op |-> op, held |-> {}, todo |-> Plan(op)]]
      BY <2>1 DEF Begin
    <3>2. PICK s : s = [op |-> op, held |-> {}, todo |-> Plan(op)]
      OBVIOUS
    <3>3. TxnOK(s) /\ s.held = {}
      BY <3>1, <3>2, BeginKeeps
    <3> QED
      BY <3>1, <3>2, <3>3
  <2>2. CASE req' = [req EXCEPT ![r] = Idle]
    BY <1>3, <2>2
  <2>3. CASE TakeLock(r) /\ req' /= [req EXCEPT ![r] = Idle]
    <3>1. PICK t : t = req[r] /\ TxnOK(t)
      BY <1>1 DEF LockInv
    <3>2. PICK rowLock : rowLock = Head(t.todo)
      OBVIOUS
    <3>3. /\ t.todo /= <<>> /\ Available(r, rowLock) /\ ~Refused(t.op, rowLock.on)
          /\ req' = [req EXCEPT ![r] = Taken(t)]
      BY <2>3, <3>1, <3>2 DEF TakeLock, Taken, Holding
    <3>4. TxnOK(Taken(t)) /\ Taken(t).op.kind = t.op.kind /\ Taken(t).held = t.held \cup {rowLock}
      BY <3>1, <3>2, <3>3, TakeKeeps
    <3>5. ProjectRow("for_update").on[1] = "project"
      BY LockFacts DEF ProjectRow
    <3>6. rowLock = ProjectRow("for_update") =>
             (t.op.kind = "guest" => ~template) /\ (t.op.kind = "templateGrant" => template)
      BY <3>3, <3>5 DEF Refused, ProjectRefuses
    <3>7. ProjectRow("for_update") \in t.held =>
             (t.op.kind = "guest" => ~template) /\ (t.op.kind = "templateGrant" => template)
      BY <1>1, <3>1 DEF StatusInv
    <3> QED
      BY <3>1, <3>3, <3>4, <3>6, <3>7
  <2> QED
    BY <2>1, <2>2, <2>3 DEF Abort
<1>5. /\ TypeInv' /\ LockInv' /\ ExclusionInv'
      /\ req'[r] = s /\ \A q \in Requests \ {r} : req'[q] = req[q]
  BY <1>1, <1>2, <1>4, RequestMove
<1>6. StatusInv'
  <2>1. \A q \in Requests : ProjectRow("for_update") \in req'[q].held =>
          /\ req'[q].op.kind = "guest" => ~template
          /\ req'[q].op.kind = "templateGrant" => template
    BY <1>1, <1>4, <1>5 DEF StatusInv
  <2>2. ProjectRow("for_update")' = ProjectRow("for_update")
    BY DEF ProjectRow, Lock
  <2> QED
    BY <1>2, <2>1, <2>2 DEF StatusInv
<1> QED
  BY <1>2, <1>5, <1>6 DEF IInv

\* A commit: what it takes away advances the epoch, under the exclusive lock
\* that a stream past its check holds shared.
LEMMA CommitStep ==
  ASSUME IInv, NEW r \in Requests, Commit(r)
  PROVE  IInv'
<1>1. PICK t : t = req[r] /\ TxnOK(t) /\ t /= Idle /\ t.todo = <<>>
  BY DEF IInv, LockInv, Commit
<1>2. PICK op : op = t.op
  OBVIOUS
<1>3. /\ roles' = RolesAfter(op)
      /\ orgAccess' = (IF op.kind = "orgAccess" THEN op.perm ELSE orgAccess)
      /\ members' = MembersAfter(op) /\ links' = LinksAfter(op) /\ guests' = GuestsAfter(op)
      /\ template' = (IF op.kind = "template" THEN op.on ELSE template)
      /\ templateOrg' = TemplateOrgAfter(op)
      /\ epoch' = (IF Advances(op) THEN epoch + 1 ELSE epoch)
      /\ missed' = (missed \/ (members' /= members /\ ~op.found /\ orgAccess /= "none"))
      /\ req' = [req EXCEPT ![r] = Idle]
      /\ UNCHANGED stream
  BY <1>1, <1>2 DEF Commit
<1>4. /\ Advances(op) => AccessLock("update") \in t.held
      /\ op.kind = "template" => ProjectRow("update") \in t.held
      /\ op.kind \in {"guest", "templateGrant"} => ProjectRow("for_update") \in t.held
  BY <1>1, <1>2, CommitFacts
<1>5. TypeInv /\ LockInv /\ ExclusionInv /\ StatusInv /\ LinkInv /\ RightInv /\ ClassificationHolds
  BY DEF IInv
<1>6. r /= Writer /\ r \in Actors /\ Writer \in Actors /\ Txn(r) = t /\ Txn(Writer) = stream
  BY <1>1, WriterAssumption DEF Actors, Txn
<1>7. Advances(op) => AccessLock("share") \notin stream.held
  <2>1. Blocks(AccessLock("update"), AccessLock("share"))
    BY BlocksFacts, LockFacts DEF AccessLock
  <2> QED
    BY <1>4, <1>5, <1>6, <2>1 DEF ExclusionInv
<1>8. Idle.held = {} /\ TxnOK(Idle)
  BY DEF Idle, TxnOK
<1>9. /\ TypeInv' /\ LockInv' /\ ExclusionInv'
      /\ req'[r] = Idle /\ \A q \in Requests \ {r} : req'[q] = req[q]
  BY <1>3, <1>5, <1>7, <1>8, RequestMove
<1>10. StatusInv'
  <2> SUFFICES ASSUME NEW q \in Requests, q /= r, ProjectRow("for_update") \in req[q].held
               PROVE  /\ req[q].op.kind = "guest" => ~template'
                      /\ req[q].op.kind = "templateGrant" => template'
    <3>1. ProjectRow("for_update")' = ProjectRow("for_update")
      BY DEF ProjectRow, Lock
    <3> QED
      BY <1>8, <1>9, <3>1 DEF StatusInv
  <2>1. CASE op.kind = "template"
    <3>1. Blocks(ProjectRow("update"), ProjectRow("for_update"))
      BY BlocksFacts, LockFacts DEF ProjectRow
    <3>2. q \in Actors /\ Txn(q) = req[q]
      BY WriterAssumption DEF Actors, Txn
    <3> QED
      BY <1>4, <1>5, <1>6, <2>1, <3>1, <3>2 DEF ExclusionInv
  <2>2. CASE op.kind /= "template"
    BY <1>3, <1>5, <2>2 DEF StatusInv
  <2> QED
    BY <2>1, <2>2
<1>11. LinkInv'
  <2> DEFINE Link == [id: Nat, live: BOOLEAN, expired: BOOLEAN]
  <2>1. CASE op.kind = "enable"
    <3>1. links' = [links EXCEPT ![op.perm] = [id |-> IF @.live THEN @.id ELSE @.id + 1,
                                                live |-> TRUE, expired |-> FALSE]]
      BY <1>3, <2>1 DEF LinksAfter, LinkEnabled
    <3>2. CASE op.perm \in Permissions
      <4>1. links[op.perm] \in Link
        BY <1>5, <3>2 DEF LinkInv
      <4>2. PICK n \in Nat : n = IF links[op.perm].live THEN links[op.perm].id ELSE links[op.perm].id + 1
        BY <4>1
      <4>3. PICK new \in Link : new = [id |-> n, live |-> TRUE, expired |-> FALSE]
        OBVIOUS
      <4>4. links' = [links EXCEPT ![op.perm] = new]
        BY <3>1, <4>2, <4>3
      <4> QED
        BY <1>5, <3>2, <4>4 DEF LinkInv
    <3>3. CASE op.perm \notin Permissions
      BY <1>5, <3>1, <3>3 DEF LinkInv
    <3> QED
      BY <3>2, <3>3
  <2>2. CASE op.kind = "revoke"
    <3>1. links' = [links EXCEPT ![op.perm].live = FALSE]
      BY <1>3, <2>2 DEF LinksAfter, LinkRevoked
    <3> QED
      BY <1>5, <3>1 DEF LinkInv
  <2>3. CASE op.kind \notin {"enable", "revoke"}
    BY <1>3, <1>5, <2>3 DEF LinkInv, LinksAfter
  <2> QED
    BY <2>1, <2>2, <2>3
<1>12. ClassificationHolds'
  <2>1. CASE op.kind = "guest"
    <3>1. ~template
      BY <1>1, <1>2, <1>4, <1>5, <2>1 DEF StatusInv
    <3> QED
      BY <1>3, <1>5, <2>1, <3>1 DEF ClassificationHolds, TemplateOrgAfter
  <2>2. CASE op.kind = "templateGrant"
    <3>1. template
      BY <1>1, <1>2, <1>4, <1>5, <2>2 DEF StatusInv
    <3> QED
      BY <1>3, <1>5, <2>2, <3>1 DEF ClassificationHolds, GuestsAfter
  <2>3. CASE op.kind \notin {"guest", "templateGrant"}
    BY <1>3, <1>5, <2>3 DEF ClassificationHolds, GuestsAfter, TemplateOrgAfter
  <2> QED
    BY <2>1, <2>2, <2>3
<1>13. RightInv'
  <2> SUFFICES ASSUME stream.at = "checked", stream.epoch = epoch', ~missed'
               PROVE  MayWrite(stream.who)'
    BY <1>3 DEF RightInv
  <2>1. ~Advances(op) /\ epoch' = epoch
    BY <1>3, <1>5 DEF TypeInv
  <2>2. PICK who : who = stream.who /\ who = stream'.who
    BY <1>3
  <2>3. MayWrite(who) /\ ~missed
    BY <1>3, <1>5, <2>1, <2>2 DEF RightInv
  <2>4. /\ roles' = roles /\ orgAccess' = orgAccess /\ links' = links /\ guests \subseteq guests'
    BY <1>3, <2>1 DEF Advances, RolesAfter, LinksAfter, GuestsAfter, GuestAdmitted
  <2>5. members' = members \/ orgAccess = "none"
    <3>1. CASE op.kind = "sync"
      <4>1. ~op.found
        BY <2>1, <3>1 DEF Advances
      <4>2. missed' = (missed \/ (members' /= members /\ ~op.found /\ orgAccess /= "none"))
        BY <1>3
      <4>3. ~(members' /= members /\ ~op.found /\ orgAccess /= "none")
        BY <4>2, Zenon
      <4> QED
        BY <4>1, <4>3
    <3>2. CASE op.kind /= "sync"
      BY <1>3, <3>2 DEF MembersAfter
    <3> QED
      BY <3>1, <3>2
  <2>6. UserMayWrite(who) => UserMayWrite(who)'
    BY <2>4, <2>5 DEF UserMayWrite, Member
  <2>7. GuestMayWrite(who) => GuestMayWrite(who)'
    BY <2>4 DEF GuestMayWrite, Active
  <2>8. MayWrite(who)'
    BY <2>3, <2>6, <2>7 DEF MayWrite
  <2> QED
    BY <2>2, <2>8
<1> QED
  BY <1>9, <1>10, <1>11, <1>12, <1>13 DEF IInv

\* Requests of one statement: none takes away a right that a stream was
\* admitted with, but for the end of its link and the anonymous mode.
LEMMA SettingsStep ==
  ASSUME IInv,
         \/ \E g \in Groups, role \in OrgRoles \cup {"none"} : UpdateGroupMapping(g, role)
         \/ \E m \in Modes : UpdateAuthSettings(m)
         \/ DeleteTemplateAccess
         \/ \E p \in Permissions : LinkExpires(p)
  PROVE  IInv'
<1>1. /\ UNCHANGED <<roles, orgAccess, members, guests, template, epoch, missed, req, stream>>
      /\ templateOrg' => templateOrg
      /\ UNCHANGED links \/ \E p \in Permissions : links' = [links EXCEPT ![p].expired = TRUE]
  BY DEF UpdateGroupMapping, UpdateAuthSettings, DeleteTemplateAccess, LinkExpires
<1>2. TypeInv /\ LockInv /\ ExclusionInv /\ StatusInv /\ LinkInv /\ RightInv /\ ClassificationHolds
  BY DEF IInv
<1>3. LinkInv' /\ \A p \in Permissions : links'[p].id = links[p].id /\ links'[p].live = links[p].live
  <2>1. CASE UNCHANGED links
    BY <1>2, <2>1 DEF LinkInv
  <2>2. CASE \E p \in Permissions : links' = [links EXCEPT ![p].expired = TRUE]
    <3>1. PICK p \in Permissions : links' = [links EXCEPT ![p].expired = TRUE]
      BY <2>2
    <3>2. LinkInv'
      BY <1>2, <3>1 DEF LinkInv
    <3> QED
      BY <1>2, <3>1, <3>2 DEF LinkInv
  <2> QED
    BY <1>1, <2>1, <2>2
<1>4. RightInv'
  <2>1. PICK who : who = stream.who
    OBVIOUS
  <2>2. "write" \in Permissions
    BY DEF Permissions
  <2>3. MayWrite(who) => MayWrite(who)'
    BY <1>1, <1>3, <2>2 DEF MayWrite, UserMayWrite, GuestMayWrite, Member, Active
  <2> QED
    BY <1>1, <1>2, <2>1, <2>3 DEF RightInv
<1>5. TypeInv' /\ WriterOK' /\ ClassificationHolds' /\ StatusInv'
  BY <1>1, <1>2 DEF TypeInv, LockInv, WriterOK, ClassificationHolds, StatusInv
<1>6. LockInv' /\ ExclusionInv'
  <2>1. stream'.epoch \in Nat /\ stream'.epoch <= epoch
    BY <1>1, <1>2 DEF TypeInv
  <2> QED
    BY <1>1, <1>2, <1>5, <2>1, StreamMove
<1> QED
  BY <1>3, <1>4, <1>5, <1>6 DEF IInv

\* The stream opens, checks its principal, takes its locks, and commits.
LEMMA StreamStep ==
  ASSUME IInv,
         \/ \E who \in Users \cup guests : OpenStream(who)
         \/ ReadEpoch \/ CheckWrite \/ TakeWriteLock \/ EndUpdate
  PROVE  IInv'
<1>1. UNCHANGED grants /\ UNCHANGED req
  BY DEF OpenStream, ReadEpoch, CheckWrite, TakeWriteLock, EndUpdate
<1>2. TypeInv /\ LockInv /\ ExclusionInv /\ StatusInv /\ RightInv /\ WriterOK
  BY DEF IInv, LockInv
<1>3. /\ LinkInv' /\ ClassificationHolds' /\ UNCHANGED <<epoch, template, missed>>
      /\ \A who : MayWrite(who)' = MayWrite(who)
  BY <1>1, GrantsStill
<1>4. PICK at, who, e, held, todo :
        /\ stream = [at |-> at, who |-> who, epoch |-> e, held |-> held, todo |-> todo]
        /\ stream.at = at /\ stream.who = who /\ stream.epoch = e
        /\ stream.held = held /\ stream.todo = todo
  BY <1>2 DEF WriterOK
<1>5. PICK s : s = stream'
  OBVIOUS
<1>6. /\ s = [at |-> s.at, who |-> s.who, epoch |-> s.epoch, held |-> s.held, todo |-> s.todo]
      /\ s.epoch \in {e, epoch, 0}
      /\ \/ s.at /= "checked" /\ s.held = {} /\ s.todo = <<>>
         \/ /\ s.at = "checked" /\ s.who = who /\ s.epoch = e
            /\ \/ s.held = {} /\ s.todo = <<ProjectRow("key"), AccessLock("share")>>
               \/ s.held = {ProjectRow("key")} /\ s.todo = <<AccessLock("share")>>
               \/ /\ s.held = {ProjectRow("key"), AccessLock("share")} /\ s.todo = <<>>
                  /\ s.epoch = epoch
            /\ WriteAllowed(who) \/ at = "checked"
      /\ \A k \in s.held : k \in held \/ Available(Writer, k)
  <2>1. CASE s = Closed
    BY <1>5, <2>1 DEF Closed
  <2>2. CASE \E w \in Users \cup guests : OpenStream(w)
    BY <1>5, <2>2 DEF OpenStream, Closed
  <2>3. CASE ReadEpoch
    <3>1. at = "authorized" /\ held = {} /\ todo = <<>>
      BY <1>2, <1>4, <2>3 DEF ReadEpoch, WriterOK
    <3>2. s = [at |-> "open", who |-> who, epoch |-> epoch, held |-> {}, todo |-> <<>>]
      BY <1>4, <1>5, <2>3, <3>1 DEF ReadEpoch
    <3> QED
      BY <3>2
  <2>4. CASE CheckWrite /\ s /= Closed
    <3>1. at = "open" /\ held = {}
      BY <1>2, <1>4, <2>4 DEF CheckWrite, WriterOK
    <3>2. PICK locks : locks = <<ProjectRow("key"), AccessLock("share")>>
      OBVIOUS
    <3>3. WriteAllowed(who) /\ s = [stream EXCEPT !.at = "checked", !.todo = locks]
      BY <1>4, <1>5, <2>4, <3>2 DEF CheckWrite
    <3>4. s = [at |-> "checked", who |-> who, epoch |-> e, held |-> {}, todo |-> locks]
      BY <1>4, <3>1, <3>3
    <3>5. /\ s.at = "checked" /\ s.who = who /\ s.epoch = e /\ s.held = {} /\ s.todo = locks
          /\ s = [at |-> s.at, who |-> s.who, epoch |-> s.epoch, held |-> s.held, todo |-> s.todo]
      BY <3>4
    <3> QED
      BY <3>2, <3>3, <3>5
  <2>5. CASE TakeWriteLock /\ s /= Closed
    <3>1. PICK rowLock, rest : rowLock = Head(todo) /\ rest = Tail(todo)
      OBVIOUS
    <3>2. PICK h : h = held \cup {rowLock}
      OBVIOUS
    <3>3. /\ todo /= <<>> /\ Available(Writer, rowLock)
          /\ rowLock.on[1] = "access" => e = epoch
          /\ s = [stream EXCEPT !.held = h, !.todo = rest]
      BY <1>4, <1>5, <2>5, <3>1, <3>2 DEF TakeWriteLock
    <3>4. s = [at |-> at, who |-> who, epoch |-> e, held |-> h, todo |-> rest]
      BY <1>4, <3>3
    <3>5. at = "checked"
      BY <1>2, <1>4, <3>3 DEF WriterOK
    <3>8. /\ s.at = at /\ s.who = who /\ s.epoch = e /\ s.held = h /\ s.todo = rest
          /\ s = [at |-> s.at, who |-> s.who, epoch |-> s.epoch, held |-> s.held, todo |-> s.todo]
      BY <3>4
    <3>6. CASE held = {} /\ todo = <<ProjectRow("key"), AccessLock("share")>>
      <4>1. rowLock = ProjectRow("key") /\ rest = <<AccessLock("share")>>
        BY <3>1, <3>6, PairFacts
      <4>2. h = {ProjectRow("key")}
        BY <3>2, <3>6, <4>1
      <4> QED
        BY <3>2, <3>3, <3>5, <3>8, <4>1, <4>2
    <3>7. CASE held = {ProjectRow("key")} /\ todo = <<AccessLock("share")>>
      <4>1. rowLock = AccessLock("share") /\ rest = <<>> /\ rowLock.on[1] = "access"
        BY <3>1, <3>7, PairFacts, LockFacts DEF AccessLock
      <4>2. h = {ProjectRow("key"), AccessLock("share")}
        BY <3>2, <3>7, <4>1
      <4> QED
        BY <3>2, <3>3, <3>5, <3>7, <3>8, <4>1, <4>2
    <3> QED
      BY <1>2, <1>4, <3>3, <3>5, <3>6, <3>7 DEF WriterOK
  <2>6. CASE EndUpdate
    <3>1. s = [at |-> "open", who |-> who, epoch |-> e, held |-> {}, todo |-> <<>>]
      BY <1>4, <1>5, <2>6 DEF EndUpdate
    <3> QED
      BY <3>1
  <2> QED
    BY <2>1, <2>2, <2>3, <2>4, <2>5, <2>6
<1>7. WriterOK'
  <2>1. /\ ProjectRow("key")' = ProjectRow("key") /\ AccessLock("share")' = AccessLock("share")
    BY DEF ProjectRow, AccessLock, Lock
  <2> QED
    BY <1>3, <1>5, <1>6, <2>1 DEF WriterOK
<1>8. stream'.epoch \in Nat /\ stream'.epoch <= epoch
  BY <1>2, <1>4, <1>5, <1>6 DEF TypeInv
<1>9. TypeInv' /\ LockInv' /\ ExclusionInv'
  BY <1>1, <1>2, <1>3, <1>4, <1>5, <1>6, <1>7, <1>8, StreamMove
<1>10. RightInv'
  <2> SUFFICES ASSUME s.at = "checked", s.epoch = epoch, ~missed
               PROVE  MayWrite(stream.who)'
    BY <1>3, <1>5 DEF RightInv
  <2>1. MayWrite(who) /\ s.who = who
    <3>1. WriteAllowed(who) => MayWrite(who)
      BY DEF WriteAllowed, PrincipalCanWrite, MayWrite
    <3>2. s.epoch = e /\ s.who = who /\ (WriteAllowed(who) \/ at = "checked")
      BY <1>6
    <3>3. at = "checked" => MayWrite(who)
      BY <1>2, <1>4, <3>2 DEF RightInv
    <3> QED
      BY <3>1, <3>2, <3>3
  <2>2. MayWrite(who)' /\ stream'.who = who
    BY <1>3, <1>5, <2>1
  <2> QED
    BY <2>2
<1>11. StatusInv'
  BY <1>1, <1>2, <1>3 DEF StatusInv, ProjectRow, Lock
<1> QED
  BY <1>3, <1>9, <1>10, <1>11 DEF IInv

\* Every step of the specification keeps the invariant.
LEMMA StepInv ==
  ASSUME IInv, [Next]_vars
  PROVE  IInv'
<1>1. CASE UNCHANGED vars
  <2>1. UNCHANGED grants /\ UNCHANGED <<req, stream>>
    BY <1>1 DEF vars
  <2>2. /\ LinkInv' /\ ClassificationHolds' /\ UNCHANGED <<epoch, template, missed>>
        /\ \A who : MayWrite(who)' = MayWrite(who)
    BY <2>1, GrantsStill DEF IInv
  <2>3. TypeInv' /\ WriterOK' /\ StatusInv'
    BY <2>1, <2>2 DEF IInv, TypeInv, LockInv, WriterOK, StatusInv
  <2>4. stream'.epoch \in Nat /\ stream'.epoch <= epoch
    BY <2>1 DEF IInv, TypeInv
  <2>5. LockInv' /\ ExclusionInv'
    BY <2>1, <2>2, <2>3, <2>4, StreamMove DEF IInv
  <2>6. RightInv'
    <3>1. PICK who : who = stream.who
      OBVIOUS
    <3> QED
      BY <2>1, <2>2, <3>1 DEF IInv, RightInv
  <2> QED
    BY <2>2, <2>3, <2>5, <2>6 DEF IInv
<1>2. CASE \E r \in Requests : Begin(r) \/ TakeLock(r) \/ Abort(r)
  BY <1>2, RequestStep
<1>3. CASE \E r \in Requests : Commit(r)
  BY <1>3, CommitStep
<1>4. CASE \/ \E g \in Groups, role \in OrgRoles \cup {"none"} : UpdateGroupMapping(g, role)
           \/ \E m \in Modes : UpdateAuthSettings(m)
           \/ DeleteTemplateAccess
           \/ \E p \in Permissions : LinkExpires(p)
  BY <1>4, SettingsStep
<1>5. CASE \/ \E who \in Users \cup guests : OpenStream(who)
           \/ ReadEpoch \/ CheckWrite \/ TakeWriteLock \/ EndUpdate
  BY <1>5, StreamStep
<1> QED
  BY <1>1, <1>2, <1>3, <1>4, <1>5 DEF Next

\* The inductive invariant of the access transactions.
THEOREM Invariance == Spec => []IInv
<1> QED
  BY InitInv, StepInv, PTL DEF Spec

\* An update that has passed the epoch's lock comes from someone who may write:
\* its epoch is still the project's, and a right lost since it was checked would
\* have advanced that (updates.rs, grant_persistence.rs).
THEOREM WritersMayWrite == Spec => []AdmittedWriterMayWrite
<1>1. IInv => AdmittedWriterMayWrite
  <2> SUFFICES ASSUME IInv, stream.at = "checked", stream.todo = <<>>, ~missed
               PROVE  MayWrite(stream.who)
    BY DEF AdmittedWriterMayWrite
  <2>1. /\ <<ProjectRow("key"), AccessLock("share")>> /= <<>>
        /\ <<AccessLock("share")>> /= <<>>
    BY PairFacts
  <2>2. stream.epoch = epoch
    BY <2>1 DEF IInv, LockInv, WriterOK
  <2> QED
    BY <2>2 DEF IInv, RightInv
<1> QED
  BY <1>1, Invariance, PTL

\* A template has no guests, and only a template is offered to an organization:
\* both are decided under the lock of the project, which a change of the status
\* takes as well (template_status.rs, sharing.rs, organization_grants.rs).
THEOREM ClassificationAlwaysHolds == Spec => []ClassificationHolds
<1> QED
  BY Invariance, PTL DEF IInv

-----------------------------------------------------------------------------
(* The order of the locks.                                                 *)

\* Rows that are locked first, then what is locked after them, then the
\* advisory lock of the access epoch, then the project.
Order(rowLock) ==
  IF rowLock.on[1] = "project" THEN 4
  ELSE IF rowLock.on[1] = "access" THEN 3
  ELSE IF rowLock.on[1] \in {"member", "role"} THEN 2 ELSE 1

\* A transaction that holds nothing is waited for by none.
Level(t) == IF t.held = {} THEN 0 ELSE Order(Head(t.todo))

\* The lock that t waits for comes after the ones it holds.
Ordered(t) ==
  /\ Head(t.todo).mode = "update"
  /\ \A h \in t.held : Order(h) < Order(Head(t.todo))

\* Advancing the epoch keeps to the order after rows that come first.
LEMMA AdvancingOrder ==
  ASSUME NEW t, NEW S, Advancing(t, S), t.todo /= <<>>, \A h \in S : Order(h) \in {1, 2}
  PROVE  Ordered(t)
<1>1. /\ Order(AccessLock("update")) = 3 /\ Order(ProjectRow("update")) = 4
      /\ AccessLock("update").mode = "update" /\ ProjectRow("update").mode = "update"
  BY LockFacts DEF Order, AccessLock, ProjectRow
<1>2. CASE t.held = S /\ t.todo = AdvanceLocks
  <2>1. Head(t.todo) = AccessLock("update")
    BY <1>2, PlanFacts
  <2> QED
    BY <1>1, <1>2, <2>1 DEF Ordered
<1>3. CASE t.held = S \cup {AccessLock("update")} /\ t.todo = <<ProjectRow("update")>>
  <2>1. Head(t.todo) = ProjectRow("update")
    BY <1>3, PairFacts
  <2> QED
    BY <1>1, <1>3, <2>1 DEF Ordered
<1> QED
  BY <1>2, <1>3 DEF Advancing

\* Every request keeps to the order, but for the guest who waits for the link
\* with the project locked.
LEMMA RequestOrder ==
  ASSUME NEW t, TxnOK(t), t.todo /= <<>>, t.held /= {}
  PROVE  \/ Ordered(t)
         \/ /\ t.op.kind = "guest" /\ Head(t.todo) = Lock("link", t.op.perm, "share")
<1>1. t /= Idle
  BY DEF Idle
<1>2. ASSUME NEW kind \in {"role", "orgAccess", "groupRole", "link"}, NEW of,
             Changing(t, Lock(kind, of, "update"))
      PROVE  Ordered(t)
  <2>1. Order(Lock(kind, of, "update")) \in {1, 2}
    BY LockFacts DEF Order
  <2>2. Advancing(t, {Lock(kind, of, "update")})
    BY <1>2 DEF Changing
  <2> QED
    BY <2>1, <2>2, AdvancingOrder
<1>3. ASSUME Joining(t) PROVE Ordered(t)
  <2>1. PICK linkLock, role : linkLock = Lock("link", t.op.perm, "share") /\ role = Lock("role", t.op.user, "update")
    OBVIOUS
  <2>2. Order(linkLock) = 1 /\ Order(role) = 2 /\ role.mode = "update"
    BY <2>1, LockFacts DEF Order
  <2>3. CASE t.held = {linkLock} /\ t.todo = RoleLocks(t.op.user)
    <3>1. Head(t.todo) = role
      BY <2>1, <2>3, PlanFacts DEF RoleLocks
    <3> QED
      BY <2>2, <2>3, <3>1 DEF Ordered
  <2>4. CASE Advancing(t, {linkLock, role})
    BY <2>2, <2>4, AdvancingOrder
  <2> QED
    BY <1>3, <2>1, <2>3, <2>4 DEF Joining
<1>4. ASSUME AdmittingGuest(t) PROVE Head(t.todo) = Lock("link", t.op.perm, "share")
  BY <1>4, PairFacts DEF AdmittingGuest
<1>5. ASSUME Granting(t) PROVE FALSE
  BY <1>5 DEF Granting
<1>6. ASSUME Syncing(t) PROVE Ordered(t)
  <2>1. PICK group, member : /\ group = Lock("groups", t.op.user, "update")
                             /\ member = Lock("member", t.op.user, "update")
    OBVIOUS
  <2>2. Order(group) = 1 /\ Order(member) = 2 /\ member.mode = "update"
    BY <2>1, LockFacts DEF Order
  <2>3. CASE t.held = {group} /\ t.todo = <<member>>
    <3>1. Head(t.todo) = member
      BY <2>3, PairFacts
    <3> QED
      BY <2>2, <2>3, <3>1 DEF Ordered
  <2>4. CASE Advancing(t, {group, member})
    BY <2>2, <2>4, AdvancingOrder
  <2> QED
    BY <1>6, <2>1, <2>3, <2>4 DEF Syncing
<1>7. ASSUME Advancing(t, {}) PROVE Ordered(t)
  BY <1>7, AdvancingOrder
<1> QED
  BY <1>1, <1>2, <1>3, <1>4, <1>5, <1>6, <1>7 DEF TxnOK

\* Only a change of a link holds it against those who read it.
LEMMA LinkHolders ==
  ASSUME NEW t, TxnOK(t), NEW h \in t.held, h.on[1] = "link", h.mode /= "share"
  PROVE  t.op.kind \in {"enable", "revoke"}
<1>1. t /= Idle
  BY DEF Idle
<1>2. ASSUME NEW S, Advancing(t, S) PROVE h \in S
  BY <1>2, LockFacts DEF Advancing, AccessLock, ProjectRow
<1>3. ASSUME NEW kind, NEW of, Changing(t, Lock(kind, of, "update")) PROVE kind = "link"
  <2>1. Advancing(t, {Lock(kind, of, "update")})
    BY <1>3 DEF Changing
  <2>2. h = Lock(kind, of, "update")
    BY <1>2, <2>1
  <2> QED
    BY <2>2, LockFacts
<1>4. ~Joining(t)
  <2>1. \A S : Advancing(t, S) => h \in S
    BY <1>2
  <2> QED
    BY <2>1, LockFacts DEF Joining
<1>5. ~AdmittingGuest(t) /\ ~Granting(t)
  BY LockFacts DEF AdmittingGuest, Granting, ProjectRow
<1>6. ~Syncing(t)
  <2>1. \A S : Advancing(t, S) => h \in S
    BY <1>2
  <2> QED
    BY <2>1, LockFacts DEF Syncing
<1>7. ~Advancing(t, {})
  BY <1>2
<1> QED
  BY <1>1, <1>3, <1>4, <1>5, <1>6, <1>7 DEF TxnOK

\* Without a guest who waits for a link, who is waited for and waits as well
\* waits for a later lock.
LEMMA WaitsUp ==
  ASSUME IInv, NEW a \in Actors, NEW b \in Actors, a /= b, Waits(a, b), Txn(b).todo /= <<>>,
         \A c \in {a, b} : c /= Writer =>
            ~(req[c].op.kind = "guest" /\ Head(req[c].todo) = Lock("link", req[c].op.perm, "share"))
  PROVE  Level(Txn(a)) < Level(Txn(b))
<1>1. PICK h \in Txn(b).held : Blocks(h, Head(Txn(a).todo))
  BY DEF Waits
<1>2. Txn(b).held /= {} /\ Level(Txn(b)) = Order(Head(Txn(b).todo)) /\ Level(Txn(b)) \in 1..4
  BY <1>1 DEF Level, Order
<1>3. CASE Txn(a).held = {}
  BY <1>2, <1>3 DEF Level
<1>4. CASE Txn(a).held /= {}
  <2>1. Level(Txn(a)) = Order(Head(Txn(a).todo))
    BY <1>4 DEF Level
  <2>2. Order(h) = Order(Head(Txn(a).todo))
    BY <1>1, BlocksFacts DEF Order
  <2>3. ASSUME NEW c \in {a, b}, c /= Writer PROVE Ordered(Txn(c))
    <3>1. c \in Requests /\ Txn(c) = req[c] /\ TxnOK(req[c])
      BY <2>3 DEF Actors, Txn, IInv, LockInv
    <3>2. req[c].todo /= <<>> /\ req[c].held /= {}
      BY <1>2, <1>4, <2>3, <3>1 DEF Waits
    <3> QED
      BY <2>3, <3>1, <3>2, RequestOrder
  <2>4. CASE b = Writer
    <3>1. stream.held = {ProjectRow("key")}
      BY <1>1, <2>4, PairFacts DEF IInv, LockInv, WriterOK, Txn
    <3>2. h.mode = "key"
      BY <1>1, <2>4, <3>1, LockFacts DEF Txn, ProjectRow
    <3>3. Head(Txn(a).todo).mode = "update"
      BY <2>3, <2>4 DEF Ordered
    <3> QED
      BY <1>1, <3>2, <3>3, BlocksFacts
  <2>5. CASE b /= Writer
    BY <1>1, <1>2, <2>1, <2>2, <2>3, <2>5 DEF Ordered
  <2> QED
    BY <2>4, <2>5
<1> QED
  BY <1>3, <1>4

\* Requests and realtime writes take their locks in an order that leaves no
\* cycle of waits, but for the admission of a guest and a change of its link
\* (sharing.rs).
THEOREM LocksAlwaysOrdered == Spec => []LocksAreOrdered
<1>1. IInv => LocksAreOrdered
  <2> SUFFICES ASSUME IInv, NEW S \in SUBSET Actors, Cycle(S),
                      ~\E a, b \in S \ {Writer} :
                          req[a].op.kind = "guest" /\ req[b].op.kind \in {"enable", "revoke"}
               PROVE  FALSE
    BY DEF LocksAreOrdered
  <2>1. \A a \in S : \E b \in S \ {a} : Waits(a, b)
    BY DEF Cycle
  <2>2. ASSUME NEW a \in S, a /= Writer, req[a].op.kind = "guest",
               Head(req[a].todo) = Lock("link", req[a].op.perm, "share")
        PROVE  FALSE
    <3>1. PICK b \in S \ {a} : Waits(a, b)
      BY <2>1
    <3>2. PICK h \in Txn(b).held : Blocks(h, Lock("link", req[a].op.perm, "share"))
      BY <2>2, <3>1 DEF Waits, Txn
    <3>3. h.on[1] = "link" /\ h.mode /= "share"
      BY <3>2, BlocksFacts, LockFacts
    <3>4. b /= Writer
      BY <3>2, <3>3, LockFacts DEF IInv, LockInv, WriterOK, Txn, ProjectRow, AccessLock
    <3>5. b \in Requests /\ Txn(b) = req[b] /\ TxnOK(req[b])
      BY <3>4 DEF Actors, Txn, IInv, LockInv
    <3>6. req[b].op.kind \in {"enable", "revoke"}
      BY <3>2, <3>3, <3>5, LinkHolders
    <3> QED
      BY <2>2, <3>4, <3>6
  <2>3. \A a \in S : Level(Txn(a)) \in 0..4
    BY DEF Level, Order
  <2>4. ASSUME NEW a \in S PROVE \E b \in S : Level(Txn(a)) < Level(Txn(b))
    <3>1. PICK b \in S \ {a} : Waits(a, b)
      BY <2>1
    <3>2. Txn(b).todo /= <<>>
      BY <2>1 DEF Waits
    <3> QED
      BY <2>2, <3>1, <3>2, WaitsUp
  <2>5. PICK a0 \in S : TRUE
    BY DEF Cycle
  <2>6. PICK a1 \in S : Level(Txn(a0)) < Level(Txn(a1))
    BY <2>4
  <2>7. PICK a2 \in S : Level(Txn(a1)) < Level(Txn(a2))
    BY <2>4
  <2>8. PICK a3 \in S : Level(Txn(a2)) < Level(Txn(a3))
    BY <2>4
  <2>9. PICK a4 \in S : Level(Txn(a3)) < Level(Txn(a4))
    BY <2>4
  <2>10. PICK a5 \in S : Level(Txn(a4)) < Level(Txn(a5))
    BY <2>4
  <2> QED
    BY <2>3, <2>6, <2>7, <2>8, <2>9, <2>10
<1> QED
  BY <1>1, Invariance, PTL

-----------------------------------------------------------------------------
(***************************************************************************)
(* GitSync.                                                                *)
(***************************************************************************)
\* Where the checkpoint worker, and the inbound worker, hold the project's lock.
CLocked == {"project", "load", "flush", "commit", "capture", "list", "mark_list",
            "mark_push", "mark_verify", "push", "verify",
            "complete", "fail"}
ILocked == {"flush", "apply", "finalize", "complete"}

\* A worker works on a claimed row of a linked project, the lock keeps the two
\* apart, and the inbound worker has fetched the tree that it is about to apply.
WorkersInv ==
  /\ Queued => Linked
  /\ cw.at # "idle" => Queued
  /\ iw.at # "idle" => job.state = "processing"
  /\ cw.at \in CLocked => lock = "checkpoint"
  /\ iw.at \in ILocked => lock = "inbound"
  /\ iw.at \in {"stage", "lock", "flush", "apply"} => iw.tree \in Contents

\* A commit recorded for version v: not older than what the link l has, and, as
\* long as v is the current version n, with the files of the Workspace.
Records(v, sha, l, n, c, files) ==
  /\ v \in Nat /\ l.synced <= v /\ v <= n
  /\ sha \in 1..Len(c) /\ l.sha <= sha
  /\ v = n => c[sha].tree = files

Holds(v, sha) == Records(v, sha, link, version, commits, content)

\* The commit exists and the worker knows it.
Captured == {"capture", "list", "mark_list", "mark_push", "mark_verify", "push", "verify",
             "complete"}

\* Whatever the link, the row and the worker have recorded is a commit of the
\* version they recorded it for; a version read before the flush is not newer
\* than the files flushed.
CheckpointInv ==
  /\ link.sha # 0 => Holds(link.synced, link.sha)
  /\ link.sha = 0 => link.synced = 0
  /\ row.captured # None => Holds(row.captured, row.sha)
  /\ cw.at \in {"flush", "commit"} =>
       link.synced <= cw.version /\ cw.version <= version /\ cw.base = link.sha
  /\ cw.at = "commit" => head \in Contents /\ (cw.version = version => head = content)
  /\ cw.at \in Captured => Holds(cw.version, cw.sha)

\* A job whose content was applied is only ever resumed, until it ends.
OnceInv ==
  "applied" \notin astray /\ applies # 0 =>
    /\ applies = 1
    /\ JobActive => Resumable /\ job.state # "paused"
    /\ iw.at \notin {"fetch", "mark", "stage", "lock", "flush", "apply"}
    /\ iw.at = "fail" => iw.phase = "revision" /\ iw.err = "retry"

\* The worker goes on with the same version, base and commit.
SameCheckpoint == cw'.version = cw.version /\ cw'.base = cw.base /\ cw'.sha = cw.sha

LEMMA CMoves ==
  ASSUME cw \in CWorker, NEW at \in CSteps, NEW err \in Errors, NEW gen \in Nat,
         \/ cw' = [cw EXCEPT !.at = at]
         \/ cw' = [cw EXCEPT !.at = at, !.err = err]
         \/ cw' = [cw EXCEPT !.at = at, !.err = err, !.gen = gen]
  PROVE  cw' \in CWorker /\ SameCheckpoint
BY DEF CWorker, SameCheckpoint

LEMMA CheckpointMoves ==
  ASSUME SyncTypeOK,
         \/ ClaimDue \/ LockForCheckpoint \/ FlushProjectCollaboration \/ FlushWorkspace
         \/ CaptureCheckpoint \/ CommandRejected \/ MarkReauthorizationRequired \/ ListRemote
         \/ PushCheckpoint \/ VerifyPush \/ CheckpointStepFails
  PROVE  cw' \in CWorker /\ SameCheckpoint
<1>0. cw \in CWorker /\ grant.gen \in Nat
  BY DEF SyncTypeOK, GrantRow
<1>1. \A at \in CSteps, err \in Errors, gen \in Nat :
        \/ cw' = [cw EXCEPT !.at = at]
        \/ cw' = [cw EXCEPT !.at = at, !.err = err]
        \/ cw' = [cw EXCEPT !.at = at, !.err = err, !.gen = gen]
        => cw' \in CWorker /\ SameCheckpoint
  BY <1>0, CMoves
<1> USE DEF CSteps, Errors
<1>2. CASE ClaimDue
  BY <1>0, <1>1, <1>2, Zenon DEF ClaimDue, CGoto, Due
<1>3. CASE LockForCheckpoint
  BY <1>0, <1>1, <1>3, Zenon DEF LockForCheckpoint, CGoto
<1>4. CASE FlushProjectCollaboration
  BY <1>0, <1>1, <1>4, Zenon DEF FlushProjectCollaboration, Projected, Saved, CGoto
<1>5. CASE FlushWorkspace
  BY <1>0, <1>1, <1>5, Zenon DEF FlushWorkspace, CGoto
<1>6. CASE CaptureCheckpoint
  BY <1>0, <1>1, <1>6, Zenon DEF CaptureCheckpoint, CGoto
<1>7. CASE CommandRejected
  <2>1. \A c \in {"list", "push", "verify"} : Marking[c] \in CSteps
    BY DEF Marking
  <2>2. PICK at \in CSteps : cw' = [cw EXCEPT !.at = at, !.err = "reauth", !.gen = grant.gen]
    BY <1>7, <2>1 DEF CommandRejected
  <2> QED
    BY <1>0, <1>1, <2>2, Zenon
<1>8. CASE MarkReauthorizationRequired
  BY <1>0, <1>1, <1>8, Zenon DEF MarkReauthorizationRequired, Marking, CGoto
<1>9. CASE ListRemote
  BY <1>0, <1>1, <1>9, Zenon DEF ListRemote, CGoto, CFails
<1>10. CASE PushCheckpoint
  BY <1>0, <1>1, <1>10, Zenon DEF PushCheckpoint, CGoto, CFails
<1>11. CASE VerifyPush
  BY <1>0, <1>1, <1>11, Zenon DEF VerifyPush, CGoto, CFails
<1>12. CASE CheckpointStepFails
  BY <1>0, <1>1, <1>12, Zenon DEF CheckpointStepFails, CFails, Uncaptured
<1> QED
  BY <1>2, <1>3, <1>4, <1>5, <1>6, <1>7, <1>8, <1>9, <1>10, <1>11, <1>12

LEMMA MaxOfTwo ==
  ASSUME NEW a \in Nat, NEW b \in Nat
  PROVE  Max({a, b}) \in Nat /\ Max({a, b}) \in {a, b} /\ Max({a, b}) >= a /\ Max({a, b}) >= b
<1>1. \E x \in {a, b} : \A y \in {a, b} : x >= y
  OBVIOUS
<1> QED
  BY <1>1 DEF Max

\* The types of the fields.
LEMMA SyncFields ==
  ASSUME SyncTypeOK
  PROVE  /\ link.synced \in Nat /\ link.sha \in Nat /\ row.sha \in Nat
         /\ row.captured \in Nat \cup {None} /\ row.state \in {"none"} \cup ActiveStates
         /\ row.err \in Errors
         /\ job.state \in {"none", "succeeded", "failed"} \cup ActiveStates
         /\ job.phase \in Phases /\ job.applied \in Nat \cup {None}
         /\ grant.gen \in Nat
         /\ cw.at \in CSteps /\ cw.version \in Nat /\ cw.base \in Nat /\ cw.sha \in Nat
         /\ cw.err \in Errors
         /\ iw.at \in ISteps /\ iw.tree \in Contents \cup {None} /\ iw.err \in Errors
         /\ iw.phase \in Phases
BY DEF SyncTypeOK, LinkRow, QueueRow, JobRow, GrantRow, CWorker, IWorker

\* The type invariant: one case per action, and in it one step per row changed.
LEMMA SyncTypes ==
  ASSUME SyncTypeOK, WorkersInv, CheckpointInv, SyncNext
  PROVE  SyncTypeOK'
<1> USE ContentsAssumption
<1>0. /\ link \in LinkRow /\ row \in QueueRow /\ job \in JobRow /\ grant \in GrantRow
      /\ cw \in CWorker /\ iw \in IWorker
  BY DEF SyncTypeOK
<1>1. CASE \E c \in Contents \ Rejected : Edit(c)
  <2> QED
    BY <1>0, <1>1 DEF Edit, Saved, SyncTypeOK, repository, ghosts
<1>2. CASE \E c \in Contents \ Rejected : AcceptUpdate(c)
  <2> QED
    BY <1>0, <1>2 DEF AcceptUpdate, SyncTypeOK, repository, ghosts
<1>3. CASE ProjectUpdate
  <2> QED
    BY <1>0, <1>3 DEF ProjectUpdate, Projected, Saved, SyncTypeOK, repository, ghosts
<1>4. CASE LinkRepository
  <2>1. link' \in LinkRow
    BY <1>0, <1>4 DEF LinkRepository, NewLink, NotLinked, Linked, LinkRow
  <2>2. {ref, link.sha, row.sha, cw.base, cw.sha}' \subseteq 0..Len(commits')
    BY <1>0, <1>4
    DEF LinkRepository, NewLink, NotLinked, Linked, SyncTypeOK, repository, LinkRow,
        QueueRow, CWorker
  <2> QED
    BY <1>0, <1>4, <2>1, <2>2
    DEF LinkRepository, NewLink, NotLinked, Linked, SyncTypeOK, workspace
<1>5. CASE LinkAgain
  <2>1. link' \in LinkRow
    BY <1>0, <1>5 DEF LinkAgain, Linked, LinkRow
  <2>2. {ref, link.sha, row.sha, cw.base, cw.sha}' \subseteq 0..Len(commits')
    BY <1>0, <1>5 DEF LinkAgain, Linked, SyncTypeOK, repository, LinkRow, QueueRow, CWorker
  <2> QED
    BY <1>0, <1>5, <2>1, <2>2 DEF LinkAgain, Linked, SyncTypeOK, workspace, repository, ghosts
<1>6. CASE UnlinkRepository
  <2>1. link' \in LinkRow
    BY <1>0, <1>6 DEF UnlinkRepository, NotLinked, NoJob, Linked, Queued, JobActive, LinkRow
  <2>2. job' \in JobRow
    BY <1>0, <1>6
    DEF UnlinkRepository, NotLinked, NoJob, Linked, Queued, JobActive, JobRow, ActiveStates,
        Phases, Errors
  <2>3. {ref, link.sha, row.sha, cw.base, cw.sha}' \subseteq 0..Len(commits')
    BY <1>0, <1>6
    DEF UnlinkRepository, NotLinked, NoJob, Linked, Queued, JobActive, SyncTypeOK,
        repository, LinkRow, QueueRow, CWorker
  <2> QED
    BY <1>0, <1>6, <2>1, <2>2, <2>3
    DEF UnlinkRepository, NotLinked, NoJob, Linked, Queued, JobActive, SyncTypeOK,
        workspace, repository
<1>7. CASE EnqueueCheckpoint
  <2>1. row' \in QueueRow
    <3>1. CASE ResumeQueue
      BY <1>0, <3>1 DEF ResumeQueue, QueueRow, ActiveStates, Errors
    <3>2. CASE row' = [NoRow EXCEPT !.state = "pending"]
      BY <3>2 DEF NoRow, QueueRow, ActiveStates, Errors
    <3> QED
      BY <1>7, <3>1, <3>2 DEF EnqueueCheckpoint
  <2>2. {ref, link.sha, row.sha, cw.base, cw.sha}' \subseteq 0..Len(commits')
    <3>1. row'.sha \in {row.sha, 0}
      <4>1. CASE ResumeQueue
        BY <1>0, <4>1 DEF ResumeQueue, QueueRow
      <4>2. CASE row' = [NoRow EXCEPT !.state = "pending"]
        BY <4>2 DEF NoRow
      <4> QED
        BY <1>7, <4>1, <4>2 DEF EnqueueCheckpoint
    <3> QED
      BY <1>7, <3>1 DEF EnqueueCheckpoint, SyncTypeOK, repository
  <2> QED
    BY <1>0, <1>7, <2>1, <2>2
    DEF EnqueueCheckpoint, ResumeQueue, NoRow, Queued, Linked, JobActive, SyncTypeOK,
        workspace, repository, ghosts
<1>8. CASE EnqueueSync
  <2>1. job' \in JobRow
    BY <1>0, <1>8
    DEF EnqueueSync, NewJob, NoJob, Linked, Queued, JobActive, JobRow, ActiveStates, Phases,
        Errors
  <2> QED
    BY <1>0, <1>8, <2>1
    DEF EnqueueSync, NewJob, NoJob, Linked, Queued, JobActive, SyncTypeOK, workspace,
        repository
<1>9. CASE Reauthorize
  <2>1. grant' \in GrantRow
    BY <1>0, <1>9 DEF Reauthorize, ResumeReauthorized, GrantRow
  <2>2. link' \in LinkRow
    BY <1>0, <1>9 DEF Reauthorize, ResumeReauthorized, LinkRow
  <2>3. row' \in QueueRow
    BY <1>0, <1>9 DEF Reauthorize, ResumeReauthorized, QueueRow, ActiveStates, Errors
  <2>4. job' \in JobRow
    BY <1>0, <1>9 DEF Reauthorize, ResumeReauthorized, JobRow, ActiveStates, Phases, Errors
  <2>5. {ref, link.sha, row.sha, cw.base, cw.sha}' \subseteq 0..Len(commits')
    BY <1>0, <1>9
    DEF Reauthorize, ResumeReauthorized, SyncTypeOK, repository, LinkRow, QueueRow, CWorker
  <2> QED
    BY <1>0, <1>9, <2>1, <2>2, <2>3, <2>4, <2>5
    DEF Reauthorize, ResumeReauthorized, SyncTypeOK, workspace, repository, ghosts
<1>10. CASE BranchMoves
  <2> QED
    BY <1>0, <1>10 DEF BranchMoves, SyncTypeOK, workspace, ghosts
<1>11. CASE \E c \in Contents : SourceMoves(c)
  <2> QED
    BY <1>0, <1>11 DEF SourceMoves, SyncTypeOK, workspace, ghosts
<1>12. CASE GrantRevoked
  <2>1. grant' \in GrantRow
    BY <1>0, <1>12 DEF GrantRevoked, GrantRow
  <2> QED
    BY <1>0, <1>12, <2>1 DEF GrantRevoked, SyncTypeOK, workspace, repository
<1>13. CASE ClaimDue
  <2>1. row' \in QueueRow
    BY <1>0, <1>13 DEF ClaimDue, CGoto, Due, QueueRow, ActiveStates, Errors
  <2>2. cw' \in CWorker /\ SameCheckpoint
    BY <1>13, CheckpointMoves
  <2>3. {ref, link.sha, row.sha, cw.base, cw.sha}' \subseteq 0..Len(commits')
    BY <1>0, <1>13, <2>1, <2>2
    DEF ClaimDue, CGoto, Due, SyncTypeOK, repository, LinkRow, QueueRow, SameCheckpoint
  <2> QED
    BY <1>0, <1>13, <2>1, <2>2, <2>3
    DEF ClaimDue, CGoto, Due, SyncTypeOK, workspace, repository, Rest
<1>14. CASE LockForCheckpoint
  <2>1. cw' \in CWorker /\ SameCheckpoint
    BY <1>14, CheckpointMoves
  <2>2. {ref, link.sha, row.sha, cw.base, cw.sha}' \subseteq 0..Len(commits')
    BY <1>0, <1>14, <2>1
    DEF LockForCheckpoint, CGoto, SyncTypeOK, repository, LinkRow, QueueRow, SameCheckpoint
  <2> QED
    BY <1>0, <1>14, <2>1, <2>2
    DEF LockForCheckpoint, CGoto, SyncTypeOK, workspace, repository, Rest
<1>15. CASE FlushProjectCollaboration
  <2>1. cw' \in CWorker /\ SameCheckpoint
    BY <1>15, CheckpointMoves
  <2>2. {ref, link.sha, row.sha, cw.base, cw.sha}' \subseteq 0..Len(commits')
    BY <1>0, <1>15, <2>1
    DEF FlushProjectCollaboration, Projected, Saved, CGoto, SyncTypeOK, repository, LinkRow,
        QueueRow, SameCheckpoint
  <2> QED
    BY <1>0, <1>15, <2>1, <2>2
    DEF FlushProjectCollaboration, Projected, Saved, CGoto, SyncTypeOK, repository, Rest
<1>16. CASE LoadCheckpointContext
  <2>1. cw' \in CWorker
    <3>1. PICK at \in CSteps, v \in Nat :
            cw' = [cw EXCEPT !.base = link.sha, !.gen = grant.gen, !.at = at, !.version = v,
                             !.sha = row.sha]
      <4>1. version \in Nat /\ (row.captured # None => row.captured \in Nat)
        BY SyncFields DEF SyncTypeOK
      <4> QED
        BY <1>16, <4>1, Zenon DEF LoadCheckpointContext, CSteps
    <3> QED
      BY <1>0, <3>1, SyncFields DEF CWorker
  <2>2. {ref, link.sha, row.sha, cw.base, cw.sha}' \subseteq 0..Len(commits')
    BY <1>0, <1>16 DEF LoadCheckpointContext, SyncTypeOK, repository, LinkRow, QueueRow, CWorker
  <2> QED
    BY <1>0, <1>16, <2>1, <2>2
    DEF LoadCheckpointContext, SyncTypeOK, workspace, repository, Rest
<1>17. CASE FlushWorkspace
  <2>1. cw' \in CWorker /\ SameCheckpoint
    BY <1>17, CheckpointMoves
  <2>2. {ref, link.sha, row.sha, cw.base, cw.sha}' \subseteq 0..Len(commits')
    BY <1>0, <1>17, <2>1
    DEF FlushWorkspace, CGoto, SyncTypeOK, repository, LinkRow, QueueRow, SameCheckpoint
  <2> QED
    BY <1>0, <1>17, <2>1, <2>2 DEF FlushWorkspace, CGoto, SyncTypeOK, repository, Rest
<1>18. CASE CreateCheckpointCommit
  <2>1. cw' \in CWorker
    <3>1. cw.base \in Nat /\ Len(commits') \in Nat
      BY <1>0, <1>18, SyncFields DEF CreateCheckpointCommit, SyncTypeOK
    <3>2. PICK at \in CSteps, sha \in Nat, err \in Errors :
            cw' = [cw EXCEPT !.at = at, !.sha = sha] \/ cw' = [cw EXCEPT !.at = at, !.err = err]
      BY <1>18, <3>1, Zenon DEF CreateCheckpointCommit, CFails, CSteps, Errors
    <3> QED
      BY <1>0, <3>2 DEF CWorker
  <2>3. commits' \in Seq([tree: Contents, parent: Nat]) /\ Len(commits') >= Len(commits)
    <3> DEFINE new == [tree |-> head, parent |-> cw.base]
    <3>1. new \in [tree: Contents, parent: Nat]
      BY <1>18, SyncFields DEF CreateCheckpointCommit, CheckpointInv
    <3>2. commits \in Seq([tree: Contents, parent: Nat])
      BY DEF SyncTypeOK
    <3> HIDE DEF new
    <3>3. /\ Append(commits, new) \in Seq([tree: Contents, parent: Nat])
          /\ Len(Append(commits, new)) = Len(commits) + 1
      BY <3>1, <3>2
    <3>4. Len(commits) \in Nat
      BY <3>2
    <3>5. commits' = commits \/ commits' = Append(commits, new)
      BY <1>18, Zenon DEF CreateCheckpointCommit, new
    <3>6. CASE commits' = commits
      BY <3>2, <3>4, <3>6
    <3>7. CASE commits' = Append(commits, new)
      BY <3>3, <3>4, <3>7
    <3> QED
      BY <3>5, <3>6, <3>7
  <2>4. {ref, link.sha, row.sha, cw.base, cw.sha}' \subseteq 0..Len(commits')
    <3>1. CASE /\ SameTree /\ UNCHANGED <<commits, ref>>
               /\ cw' = [cw EXCEPT !.at = "capture", !.sha = cw.base]
      BY <1>0, <1>18, <3>1 DEF CreateCheckpointCommit, SyncTypeOK, CWorker
    <3>2. CASE /\ commits' = Append(commits, [tree |-> head, parent |-> cw.base])
               /\ ref' = Len(commits')
               /\ cw' = [cw EXCEPT !.at = "capture", !.sha = ref']
      BY <1>0, <1>18, <2>3, <3>2 DEF CreateCheckpointCommit, SyncTypeOK, CWorker
    <3>3. CASE CFails("retry") /\ UNCHANGED <<commits, ref>>
      BY <1>0, <1>18, <3>3 DEF CreateCheckpointCommit, CFails, SyncTypeOK, CWorker
    <3> QED
      BY <1>18, <3>1, <3>2, <3>3 DEF CreateCheckpointCommit
  <2> QED
    <3>1. remote \in -1..Len(commits')
      BY <2>3 DEF SyncTypeOK
    <3> QED
      BY <1>0, <1>18, <2>1, <2>3, <2>4, <3>1
      DEF CreateCheckpointCommit, SyncTypeOK, workspace, Rest
<1>19. CASE CaptureCheckpoint
  <2>1. row' \in QueueRow
    BY <1>0, <1>19, SyncFields DEF CaptureCheckpoint, QueueRow
  <2>2. cw' \in CWorker /\ SameCheckpoint
    BY <1>19, CheckpointMoves
  <2>3. {ref, link.sha, row.sha, cw.base, cw.sha}' \subseteq 0..Len(commits')
    BY <1>0, <1>19, <2>1, <2>2
    DEF CaptureCheckpoint, CGoto, SyncTypeOK, repository, LinkRow, QueueRow, SameCheckpoint
  <2> QED
    BY <1>0, <1>19, <2>1, <2>2, <2>3
    DEF CaptureCheckpoint, CGoto, SyncTypeOK, workspace, repository, Rest
<1>20. CASE CommandRejected
  <2>1. cw' \in CWorker /\ SameCheckpoint
    BY <1>20, CheckpointMoves
  <2>2. {ref, link.sha, row.sha, cw.base, cw.sha}' \subseteq 0..Len(commits')
    BY <1>0, <1>20, <2>1
    DEF CommandRejected, Marking, SyncTypeOK, repository, LinkRow, QueueRow, SameCheckpoint
  <2> QED
    BY <1>0, <1>20, <2>1, <2>2 DEF CommandRejected, Marking, SyncTypeOK, workspace, repository, Rest
<1>21. CASE MarkReauthorizationRequired
  <2>1. grant' \in GrantRow
    BY <1>0, <1>21 DEF MarkReauthorizationRequired, Marking, CGoto, GrantRow
  <2>2. cw' \in CWorker /\ SameCheckpoint
    BY <1>21, CheckpointMoves
  <2>3. {ref, link.sha, row.sha, cw.base, cw.sha}' \subseteq 0..Len(commits')
    BY <1>0, <1>21, <2>1, <2>2
    DEF MarkReauthorizationRequired, Marking, CGoto, SyncTypeOK, repository, LinkRow, QueueRow,
        SameCheckpoint
  <2> QED
    BY <1>0, <1>21, <2>1, <2>2, <2>3
    DEF MarkReauthorizationRequired, Marking, CGoto, SyncTypeOK, workspace, repository, Rest
<1>22. CASE ListRemote
  <2>1. cw' \in CWorker /\ SameCheckpoint
    BY <1>22, CheckpointMoves
  <2>2. {ref, link.sha, row.sha, cw.base, cw.sha}' \subseteq 0..Len(commits')
    BY <1>0, <1>22, <2>1
    DEF ListRemote, CGoto, CFails, SyncTypeOK, repository, LinkRow, QueueRow, SameCheckpoint
  <2> QED
    BY <1>0, <1>22, <2>1, <2>2
    DEF ListRemote, CGoto, CFails, SyncTypeOK, workspace, repository, Rest
<1>23. CASE PushCheckpoint
  <2>1. cw' \in CWorker /\ SameCheckpoint
    BY <1>23, CheckpointMoves
  <2>2. {ref, link.sha, row.sha, cw.base, cw.sha}' \subseteq 0..Len(commits')
    BY <1>0, <1>23, <2>1
    DEF PushCheckpoint, CGoto, CFails, SyncTypeOK, repository, LinkRow, QueueRow,
        SameCheckpoint
  <2> QED
    BY <1>0, <1>23, <2>1, <2>2 DEF PushCheckpoint, CGoto, CFails, SyncTypeOK, workspace, Rest
<1>24. CASE VerifyPush
  <2>1. cw' \in CWorker /\ SameCheckpoint
    BY <1>24, CheckpointMoves
  <2>2. {ref, link.sha, row.sha, cw.base, cw.sha}' \subseteq 0..Len(commits')
    BY <1>0, <1>24, <2>1
    DEF VerifyPush, CGoto, CFails, SyncTypeOK, repository, LinkRow, QueueRow, SameCheckpoint
  <2> QED
    BY <1>0, <1>24, <2>1, <2>2
    DEF VerifyPush, CGoto, CFails, SyncTypeOK, workspace, repository, Rest
<1>25. CASE CompleteCheckpoint
  <2>1. link' \in LinkRow
    BY <1>25, SyncFields, MaxOfTwo DEF CompleteCheckpoint, LinkRow
  <2>2. row' \in QueueRow
    BY <1>0, <1>25 DEF CompleteCheckpoint, CIdle, NoRow, QueueRow, ActiveStates, Errors
  <2>3. cw' \in CWorker
    BY <1>0, <1>25 DEF CompleteCheckpoint, CIdle, NoRow, CWorker, CSteps, Errors
  <2>4. {ref, link.sha, row.sha, cw.base, cw.sha}' \subseteq 0..Len(commits')
    BY <1>0, <1>25
    DEF CompleteCheckpoint, CIdle, NoRow, SyncTypeOK, repository, LinkRow, QueueRow, CWorker
  <2> QED
    BY <1>0, <1>25, <2>1, <2>2, <2>3, <2>4
    DEF CompleteCheckpoint, CIdle, NoRow, SyncTypeOK, workspace, repository, Rest
<1>26. CASE FailCheckpoint
  <2>1. row' \in QueueRow
    <3>1. PICK state \in ActiveStates : row' = [row EXCEPT !.state = state, !.err = cw.err]
      BY <1>26, Zenon DEF FailCheckpoint, ActiveStates
    <3> QED
      BY <1>0, <3>1, SyncFields DEF QueueRow
  <2>2. link' \in LinkRow
    BY <1>0, <1>26 DEF FailCheckpoint, CIdle, LinkRow
  <2>3. cw' \in CWorker
    BY <1>0, <1>26 DEF FailCheckpoint, CIdle, CWorker, CSteps, Errors
  <2>4. {ref, link.sha, row.sha, cw.base, cw.sha}' \subseteq 0..Len(commits')
    BY <1>0, <1>26 DEF FailCheckpoint, CIdle, SyncTypeOK, repository, LinkRow, QueueRow, CWorker
  <2> QED
    BY <1>0, <1>26, <2>1, <2>2, <2>3, <2>4
    DEF FailCheckpoint, CIdle, SyncTypeOK, workspace, repository, Rest
<1>27. CASE CheckpointStepFails
  <2>1. cw' \in CWorker /\ SameCheckpoint
    BY <1>27, CheckpointMoves
  <2>2. {ref, link.sha, row.sha, cw.base, cw.sha}' \subseteq 0..Len(commits')
    BY <1>0, <1>27, <2>1
    DEF CheckpointStepFails, CFails, Uncaptured, SyncTypeOK, repository, LinkRow, QueueRow,
        SameCheckpoint
  <2> QED
    BY <1>0, <1>27, <2>1, <2>2
    DEF CheckpointStepFails, CFails, Uncaptured, SyncTypeOK, workspace, repository
<1>28. CASE CheckpointResultLost
  <2>1. cw' \in CWorker
    BY <1>0, <1>28 DEF CheckpointResultLost, CIdle, CWorker, CSteps, Errors
  <2>2. {ref, link.sha, row.sha, cw.base, cw.sha}' \subseteq 0..Len(commits')
    BY <1>0, <1>28
    DEF CheckpointResultLost, CIdle, SyncTypeOK, repository, LinkRow, QueueRow, CWorker
  <2> QED
    BY <1>0, <1>28, <2>1, <2>2
    DEF CheckpointResultLost, CIdle, SyncTypeOK, workspace, repository
<1>29. CASE ClaimDueJob
  <2>1. job' \in JobRow
    BY <1>0, <1>29 DEF ClaimDueJob, IGoto, Resumable, Due, JobRow, ActiveStates, Phases, Errors
  <2>2. iw' \in IWorker
    BY <1>0, <1>29 DEF ClaimDueJob, IGoto, Resumable, Due, IWorker, ISteps, Errors, Phases
  <2> QED
    BY <1>0, <1>29, <2>1, <2>2
    DEF ClaimDueJob, IGoto, Resumable, Due, SyncTypeOK, workspace, Others
<1>30. CASE InboundJobLink
  <2>1. iw' \in IWorker
    <3>1. PICK at \in ISteps : iw' = [iw EXCEPT !.at = at, !.gen = grant.gen]
      BY <1>30, Zenon DEF InboundJobLink, ISteps
    <3> QED
      BY <1>0, <3>1, SyncFields DEF IWorker
  <2> QED
    BY <1>0, <1>30, <2>1 DEF InboundJobLink, Resumable, SyncTypeOK, workspace, Others
<1>31. CASE PrepareInboundState
  <2>1. iw' \in IWorker
    <3>1. source \in Contents
      BY DEF SyncTypeOK
    <3> QED
      BY <1>0, <1>31, <3>1 DEF PrepareInboundState, IFails, IWorker, ISteps, Errors, Phases
  <2>2. job' \in JobRow
    BY <1>0, <1>31
    DEF PrepareInboundState, IFails, Importable, JobRow, ActiveStates, Phases, Errors
  <2> QED
    BY <1>0, <1>31, <2>1, <2>2
    DEF PrepareInboundState, IFails, Importable, SyncTypeOK, workspace, Others
<1>32. CASE FetchRejected
  <2>1. iw' \in IWorker
    <3>1. PICK at \in ISteps :
            iw' = [iw EXCEPT !.at = at, !.err = "reauth", !.phase = "queued", !.gen = grant.gen]
      BY <1>32, Zenon DEF FetchRejected, ISteps
    <3> QED
      BY <1>0, <3>1, SyncFields DEF IWorker, Errors, Phases
  <2> QED
    BY <1>0, <1>32, <2>1 DEF FetchRejected, SyncTypeOK, workspace, Others
<1>33. CASE MarkFetchRejected
  <2>1. grant' \in GrantRow
    BY <1>0, <1>33 DEF MarkFetchRejected, IGoto, GrantRow
  <2>2. iw' \in IWorker
    BY <1>0, <1>33 DEF MarkFetchRejected, IGoto, IWorker, ISteps, Errors, Phases
  <2> QED
    BY <1>0, <1>33, <2>1, <2>2 DEF MarkFetchRejected, IGoto, SyncTypeOK, workspace, Others
<1>34. CASE StageAssets
  <2>1. job' \in JobRow
    BY <1>0, <1>34 DEF StageAssets, IGoto, JobRow, ActiveStates, Phases, Errors
  <2>2. iw' \in IWorker
    BY <1>0, <1>34 DEF StageAssets, IGoto, IWorker, ISteps, Errors, Phases
  <2> QED
    BY <1>0, <1>34, <2>1, <2>2 DEF StageAssets, IGoto, SyncTypeOK, workspace, Others
<1>35. CASE LockForInbound
  <2>1. iw' \in IWorker
    BY <1>0, <1>35 DEF LockForInbound, IGoto, IWorker, ISteps, Errors, Phases
  <2> QED
    BY <1>0, <1>35, <2>1 DEF LockForInbound, IGoto, SyncTypeOK, workspace, Others
<1>36. CASE FlushBeforeReplacement
  <2>1. iw' \in IWorker
    BY <1>0, <1>36 DEF FlushBeforeReplacement, IGoto, IWorker, ISteps, Errors, Phases
  <2> QED
    BY <1>0, <1>36, <2>1 DEF FlushBeforeReplacement, IGoto, SyncTypeOK, Others
<1>37. CASE ApplyInboundContent
  <2>1. job' \in JobRow
    <3>1. version + 1 \in Nat
      BY DEF SyncTypeOK
    <3> QED
      BY <1>0, <1>37, <3>1 DEF ApplyInboundContent, Applied, JobRow, Phases
  <2>2. iw' \in IWorker
    BY <1>0, <1>37
    DEF ApplyInboundContent, Applied, Saved, IGoto, IWorker, ISteps, Errors, Phases
  <2>3. iw.tree \in Contents
    BY <1>37 DEF ApplyInboundContent, WorkersInv
  <2> QED
    BY <1>0, <1>37, <2>1, <2>2, <2>3
    DEF ApplyInboundContent, Applied, Saved, SyncTypeOK, Others
<1>38. CASE FlushImportedRevision
  <2>1. iw' \in IWorker
    BY <1>0, <1>38 DEF FlushImportedRevision, IGoto, IWorker, ISteps, Errors, Phases
  <2> QED
    BY <1>0, <1>38, <2>1 DEF FlushImportedRevision, IGoto, SyncTypeOK, Others
<1>39. CASE CompleteJob
  <2>1. job' \in JobRow
    BY <1>0, <1>39 DEF CompleteJob, IIdle, JobRow, ActiveStates, Phases, Errors
  <2>2. iw' \in IWorker
    BY <1>0, <1>39 DEF CompleteJob, IIdle, IWorker, ISteps, Errors, Phases
  <2> QED
    BY <1>0, <1>39, <2>1, <2>2 DEF CompleteJob, IIdle, SyncTypeOK, workspace, Others
<1>40. CASE RecordFailure
  <2>1. job' \in JobRow
    <3>1. PICK state \in {"paused", "retry_wait", "failed"}, n \in Nat \cup {None} :
            job' = [job EXCEPT !.state = state, !.phase = iw.phase, !.applied = n, !.err = iw.err]
      BY <1>40, SyncFields DEF RecordFailure
    <3> QED
      BY <1>0, <3>1, SyncFields DEF JobRow, ActiveStates
  <2>2. iw' \in IWorker
    BY <1>0, <1>40 DEF RecordFailure, IIdle, IWorker, ISteps, Errors, Phases
  <2> QED
    BY <1>0, <1>40, <2>1, <2>2 DEF RecordFailure, IIdle, SyncTypeOK, workspace, Others
<1>41. CASE ApplyIsAmbiguous
  <2>1. job' \in JobRow
    <3>1. version + 1 \in Nat
      BY DEF SyncTypeOK
    <3>2. CASE Applied
      BY <1>0, <3>1, <3>2 DEF Applied, JobRow, Phases
    <3> QED
      BY <1>0, <1>41, <3>2 DEF ApplyIsAmbiguous
  <2>2. iw' \in IWorker
    BY <1>0, <1>41 DEF ApplyIsAmbiguous, Applied, Saved, IIdle, IWorker, ISteps, Errors, Phases
  <2>3. iw.tree \in Contents
    BY <1>41 DEF ApplyIsAmbiguous, WorkersInv
  <2>4. /\ content' \in Contents /\ version' \in Nat \ {0} /\ draft' \in Contents \cup {None}
        /\ applies' \in Nat
    <3>1. CASE Applied
      BY <2>3, <3>1 DEF Applied, Saved, SyncTypeOK
    <3> QED
      BY <1>41, <3>1 DEF ApplyIsAmbiguous, SyncTypeOK
  <2> QED
    BY <1>0, <1>41, <2>1, <2>2, <2>4 DEF ApplyIsAmbiguous, SyncTypeOK, repository
<1>42. CASE InboundStepFails
  <2>1. iw' \in IWorker
    BY <1>0, <1>42
    DEF InboundStepFails, IFails, RetryPhase, Resumable, IWorker, ISteps, Errors, Phases
  <2> QED
    BY <1>0, <1>42, <2>1
    DEF InboundStepFails, IFails, RetryPhase, Resumable, SyncTypeOK, workspace, repository
<1>43. CASE InboundResultLost
  <2>1. iw' \in IWorker
    BY <1>0, <1>43 DEF InboundResultLost, IIdle, IWorker, ISteps, Errors, Phases
  <2> QED
    BY <1>0, <1>43, <2>1 DEF InboundResultLost, IIdle, SyncTypeOK, workspace, repository
<1>44. CASE Stop
  <2>1. cw' \in CWorker
    BY <1>0, <1>44 DEF Stop, CIdle, IIdle, Uncaptured, CWorker, CSteps, Errors
  <2>2. iw' \in IWorker
    BY <1>0, <1>44 DEF Stop, CIdle, IIdle, Uncaptured, IWorker, ISteps, Errors, Phases
  <2>3. {ref, link.sha, row.sha, cw.base, cw.sha}' \subseteq 0..Len(commits')
    BY <1>0, <1>44
    DEF Stop, CIdle, IIdle, Uncaptured, SyncTypeOK, repository, LinkRow, QueueRow, CWorker
  <2> QED
    BY <1>0, <1>44, <2>1, <2>2, <2>3
    DEF Stop, CIdle, IIdle, Uncaptured, SyncTypeOK, workspace, repository
<1> QED
  BY <1>1, <1>2, <1>3, <1>4, <1>5, <1>6, <1>7, <1>8, <1>9, <1>10, <1>11, <1>12, <1>13,
     <1>14, <1>15, <1>16, <1>17, <1>18, <1>19, <1>20, <1>21, <1>22, <1>23, <1>24, <1>25,
     <1>26, <1>27, <1>28, <1>29, <1>30, <1>31, <1>32, <1>33, <1>34, <1>35, <1>36, <1>37,
     <1>38, <1>39, <1>40, <1>41, <1>42, <1>43, <1>44
  DEF SyncNext, LinkingRequest, CheckpointWorker, InboundWorker

\* Claims and the project's lock.
LEMMA WorkersStep ==
  ASSUME SyncTypeOK, WorkersInv, SyncNext
  PROVE  WorkersInv'
<1>0. /\ link \in LinkRow /\ row \in QueueRow /\ job \in JobRow /\ grant \in GrantRow
      /\ cw \in CWorker /\ iw \in IWorker /\ source \in Contents
  BY DEF SyncTypeOK
<1> USE DEF CLocked, ILocked
<1>1. CASE \E c \in Contents \ Rejected : Edit(c)
  BY <1>0, <1>1 DEF Edit, Saved, WorkersInv, Queued, Linked, repository, ghosts
<1>2. CASE \E c \in Contents \ Rejected : AcceptUpdate(c)
  BY <1>0, <1>2 DEF AcceptUpdate, WorkersInv, Queued, Linked, repository, ghosts
<1>3. CASE ProjectUpdate
  BY <1>0, <1>3
  DEF ProjectUpdate, Projected, Saved, WorkersInv, Queued, Linked, repository, ghosts
<1>4. CASE LinkRepository
  BY <1>0, <1>4
  DEF LinkRepository, NewLink, NotLinked, WorkersInv, Queued, Linked, workspace, LinkRow
<1>5. CASE LinkAgain
  BY <1>0, <1>5
  DEF LinkAgain, WorkersInv, Queued, Linked, workspace, repository, ghosts, LinkRow
<1>6. CASE UnlinkRepository
  BY <1>0, <1>6
  DEF UnlinkRepository, NotLinked, NoJob, JobActive, WorkersInv, Queued, Linked, workspace,
      repository, LinkRow, JobRow
<1>7. CASE EnqueueCheckpoint
  BY <1>0, <1>7
  DEF EnqueueCheckpoint, ResumeQueue, NoRow, JobActive, WorkersInv, Queued, Linked,
      workspace, repository, ghosts, QueueRow
<1>8. CASE EnqueueSync
  BY <1>0, <1>8
  DEF EnqueueSync, NewJob, NoJob, JobActive, WorkersInv, Queued, Linked, workspace,
      repository, JobRow
<1>9. CASE Reauthorize
  BY <1>0, <1>9
  DEF Reauthorize, ResumeReauthorized, WorkersInv, Queued, Linked, workspace, repository,
      ghosts, LinkRow, QueueRow, JobRow
<1>10. CASE BranchMoves
  BY <1>0, <1>10 DEF BranchMoves, WorkersInv, Queued, Linked, workspace, ghosts
<1>11. CASE \E c \in Contents : SourceMoves(c)
  BY <1>0, <1>11 DEF SourceMoves, WorkersInv, Queued, Linked, workspace, ghosts
<1>12. CASE GrantRevoked
  BY <1>0, <1>12 DEF GrantRevoked, WorkersInv, Queued, Linked, workspace, repository
<1>13. CASE ClaimDue
  BY <1>0, <1>13
  DEF ClaimDue, CGoto, Due, WorkersInv, Queued, Linked, workspace, repository, Rest,
      QueueRow, CWorker
<1>14. CASE LockForCheckpoint
  BY <1>0, <1>14
  DEF LockForCheckpoint, CGoto, WorkersInv, Queued, Linked, workspace, repository, Rest,
      CWorker
<1>15. CASE FlushProjectCollaboration
  BY <1>0, <1>15
  DEF FlushProjectCollaboration, Projected, Saved, CGoto, WorkersInv, Queued, Linked,
      repository, Rest, CWorker
<1>16. CASE LoadCheckpointContext
  BY <1>0, <1>16
  DEF LoadCheckpointContext, WorkersInv, Queued, Linked, workspace, repository, Rest,
      CWorker
<1>17. CASE FlushWorkspace
  BY <1>0, <1>17
  DEF FlushWorkspace, CGoto, WorkersInv, Queued, Linked, repository, Rest, CWorker
<1>18. CASE CreateCheckpointCommit
  BY <1>0, <1>18
  DEF CreateCheckpointCommit, SameTree, CFails, TreeOf, WorkersInv, Queued, Linked,
      workspace, Rest, CWorker
<1>19. CASE CaptureCheckpoint
  BY <1>0, <1>19
  DEF CaptureCheckpoint, CGoto, WorkersInv, Queued, Linked, workspace, repository, Rest,
      QueueRow, CWorker
<1>20. CASE CommandRejected
  BY <1>0, <1>20
  DEF CommandRejected, Marking, WorkersInv, Queued, Linked, workspace, repository, Rest, CWorker
<1>21. CASE MarkReauthorizationRequired
  BY <1>0, <1>21
  DEF MarkReauthorizationRequired, Marking, CGoto, WorkersInv, Queued, Linked, workspace, repository,
      Rest, CWorker
<1>22. CASE ListRemote
  BY <1>0, <1>22
  DEF ListRemote, CGoto, CFails, WorkersInv, Queued, Linked, workspace, repository, Rest,
      CWorker
<1>23. CASE PushCheckpoint
  BY <1>0, <1>23
  DEF PushCheckpoint, CGoto, CFails, WorkersInv, Queued, Linked, workspace, Rest, CWorker
<1>24. CASE VerifyPush
  BY <1>0, <1>24
  DEF VerifyPush, CGoto, CFails, WorkersInv, Queued, Linked, workspace, repository, Rest,
      CWorker
<1>25. CASE CompleteCheckpoint
  BY <1>0, <1>25
  DEF CompleteCheckpoint, CIdle, NoRow, WorkersInv, Queued, Linked, workspace, repository,
      Rest, LinkRow, QueueRow, CWorker
<1>26. CASE FailCheckpoint
  BY <1>0, <1>26
  DEF FailCheckpoint, CIdle, WorkersInv, Queued, Linked, workspace, repository, Rest,
      QueueRow, LinkRow, CWorker
<1>27. CASE CheckpointStepFails
  BY <1>0, <1>27
  DEF CheckpointStepFails, CFails, Uncaptured, WorkersInv, Queued, Linked, workspace,
      repository, CWorker
<1>28. CASE CheckpointResultLost
  BY <1>0, <1>28
  DEF CheckpointResultLost, CIdle, WorkersInv, Queued, Linked, workspace, repository,
      CWorker
<1>29. CASE ClaimDueJob
  BY <1>0, <1>29
  DEF ClaimDueJob, IGoto, Resumable, Due, WorkersInv, Queued, Linked, workspace, Others,
      JobRow, IWorker
<1>30. CASE InboundJobLink
  BY <1>0, <1>30
  DEF InboundJobLink, Resumable, WorkersInv, Queued, Linked, workspace, Others, IWorker
<1>31. CASE PrepareInboundState
  BY <1>0, <1>31
  DEF PrepareInboundState, IFails, Importable, WorkersInv, Queued, Linked, workspace,
      Others, IWorker, JobRow
<1>32. CASE FetchRejected
  BY <1>0, <1>32 DEF FetchRejected, WorkersInv, Queued, Linked, workspace, Others, IWorker
<1>33. CASE MarkFetchRejected
  BY <1>0, <1>33
  DEF MarkFetchRejected, IGoto, WorkersInv, Queued, Linked, workspace, Others, IWorker
<1>34. CASE StageAssets
  BY <1>0, <1>34
  DEF StageAssets, IGoto, WorkersInv, Queued, Linked, workspace, Others, JobRow, IWorker
<1>35. CASE LockForInbound
  BY <1>0, <1>35
  DEF LockForInbound, IGoto, WorkersInv, Queued, Linked, workspace, Others, IWorker
<1>36. CASE FlushBeforeReplacement
  BY <1>0, <1>36 DEF FlushBeforeReplacement, IGoto, WorkersInv, Queued, Linked, Others, IWorker
<1>37. CASE ApplyInboundContent
  BY <1>0, <1>37
  DEF ApplyInboundContent, Applied, Saved, IGoto, WorkersInv, Queued, Linked, Others,
      JobRow, IWorker
<1>38. CASE FlushImportedRevision
  BY <1>0, <1>38 DEF FlushImportedRevision, IGoto, WorkersInv, Queued, Linked, Others, IWorker
<1>39. CASE CompleteJob
  BY <1>0, <1>39
  DEF CompleteJob, IIdle, WorkersInv, Queued, Linked, workspace, Others, JobRow, IWorker
<1>40. CASE RecordFailure
  BY <1>0, <1>40
  DEF RecordFailure, IIdle, WorkersInv, Queued, Linked, workspace, Others, JobRow, IWorker
<1>41. CASE ApplyIsAmbiguous
  BY <1>0, <1>41
  DEF ApplyIsAmbiguous, Applied, Saved, IIdle, WorkersInv, Queued, Linked, repository,
      JobRow, IWorker
<1>42. CASE InboundStepFails
  BY <1>0, <1>42
  DEF InboundStepFails, IFails, RetryPhase, Resumable, WorkersInv, Queued, Linked,
      workspace, repository, IWorker
<1>43. CASE InboundResultLost
  BY <1>0, <1>43
  DEF InboundResultLost, IIdle, WorkersInv, Queued, Linked, workspace, repository, IWorker
<1>44. CASE Stop
  BY <1>0, <1>44
  DEF Stop, CIdle, IIdle, Uncaptured, WorkersInv, Queued, Linked, workspace, repository,
      CWorker, IWorker
<1> QED
  BY <1>1, <1>2, <1>3, <1>4, <1>5, <1>6, <1>7, <1>8, <1>9, <1>10, <1>11, <1>12, <1>13,
     <1>14, <1>15, <1>16, <1>17, <1>18, <1>19, <1>20, <1>21, <1>22, <1>23, <1>24, <1>25,
     <1>26, <1>27, <1>28, <1>29, <1>30, <1>31, <1>32, <1>33, <1>34, <1>35, <1>36, <1>37,
     <1>38, <1>39, <1>40, <1>41, <1>42, <1>43, <1>44
  DEF SyncNext, LinkingRequest, CheckpointWorker, InboundWorker

\* The job's phases.
LEMMA OnceStep ==
  ASSUME SyncTypeOK, WorkersInv, OnceInv, SyncNext
  PROVE  OnceInv'
<1>0. /\ link \in LinkRow /\ row \in QueueRow /\ job \in JobRow /\ grant \in GrantRow
      /\ cw \in CWorker /\ iw \in IWorker /\ applies \in Nat /\ version \in Nat
  BY DEF SyncTypeOK
<1> USE DEF CLocked, ILocked
<1>1. CASE \E c \in Contents \ Rejected : Edit(c)
  BY <1>0, <1>1, ContentsAssumption
  DEF Edit, Saved, OnceInv, WorkersInv, JobActive, ActiveStates, Resumable, repository,
      ghosts
<1>2. CASE \E c \in Contents \ Rejected : AcceptUpdate(c)
  BY <1>0, <1>2, ContentsAssumption
  DEF AcceptUpdate, OnceInv, WorkersInv, JobActive, ActiveStates, Resumable, repository,
      ghosts
<1>3. CASE ProjectUpdate
  BY <1>0, <1>3, ContentsAssumption
  DEF ProjectUpdate, Projected, Saved, OnceInv, WorkersInv, JobActive, ActiveStates,
      Resumable, repository, ghosts
<1>4. CASE LinkRepository
  BY <1>0, <1>4, ContentsAssumption
  DEF LinkRepository, NewLink, NotLinked, Linked, OnceInv, WorkersInv, JobActive,
      ActiveStates, Resumable, workspace
<1>5. CASE LinkAgain
  BY <1>0, <1>5, ContentsAssumption
  DEF LinkAgain, Linked, OnceInv, WorkersInv, JobActive, ActiveStates, Resumable, workspace,
      repository, ghosts
<1>6. CASE UnlinkRepository
  BY <1>0, <1>6, ContentsAssumption
  DEF UnlinkRepository, NotLinked, NoJob, Linked, Queued, OnceInv, WorkersInv, JobActive,
      ActiveStates, Resumable, workspace, repository, JobRow
<1>7. CASE EnqueueCheckpoint
  BY <1>0, <1>7, ContentsAssumption
  DEF EnqueueCheckpoint, ResumeQueue, NoRow, Queued, Linked, OnceInv, WorkersInv, JobActive,
      ActiveStates, Resumable, workspace, repository, ghosts
<1>8. CASE EnqueueSync
  BY <1>0, <1>8, ContentsAssumption
  DEF EnqueueSync, NewJob, NoJob, Linked, Queued, OnceInv, WorkersInv, JobActive,
      ActiveStates, Resumable, workspace, repository, JobRow
<1>9. CASE Reauthorize
  BY <1>0, <1>9, ContentsAssumption
  DEF Reauthorize, ResumeReauthorized, OnceInv, WorkersInv, JobActive, ActiveStates,
      Resumable, workspace, repository, ghosts, JobRow
<1>10. CASE BranchMoves
  BY <1>0, <1>10, ContentsAssumption
  DEF BranchMoves, OnceInv, WorkersInv, JobActive, ActiveStates, Resumable, workspace,
      ghosts
<1>11. CASE \E c \in Contents : SourceMoves(c)
  BY <1>0, <1>11, ContentsAssumption
  DEF SourceMoves, OnceInv, WorkersInv, JobActive, ActiveStates, Resumable, workspace,
      ghosts
<1>12. CASE GrantRevoked
  BY <1>0, <1>12, ContentsAssumption
  DEF GrantRevoked, OnceInv, WorkersInv, JobActive, ActiveStates, Resumable, workspace,
      repository
<1>13. CASE ClaimDue
  BY <1>0, <1>13, ContentsAssumption
  DEF ClaimDue, CGoto, Due, OnceInv, WorkersInv, JobActive, ActiveStates, Resumable,
      workspace, repository, Rest
<1>14. CASE LockForCheckpoint
  BY <1>0, <1>14, ContentsAssumption
  DEF LockForCheckpoint, CGoto, OnceInv, WorkersInv, JobActive, ActiveStates, Resumable,
      workspace, repository, Rest
<1>15. CASE FlushProjectCollaboration
  BY <1>0, <1>15, ContentsAssumption
  DEF FlushProjectCollaboration, Projected, Saved, CGoto, OnceInv, WorkersInv, JobActive,
      ActiveStates, Resumable, repository, Rest
<1>16. CASE LoadCheckpointContext
  BY <1>0, <1>16, ContentsAssumption
  DEF LoadCheckpointContext, OnceInv, WorkersInv, JobActive, ActiveStates, Resumable,
      workspace, repository, Rest
<1>17. CASE FlushWorkspace
  BY <1>0, <1>17, ContentsAssumption
  DEF FlushWorkspace, CGoto, OnceInv, WorkersInv, JobActive, ActiveStates, Resumable,
      repository, Rest
<1>18. CASE CreateCheckpointCommit
  BY <1>0, <1>18, ContentsAssumption
  DEF CreateCheckpointCommit, SameTree, CFails, TreeOf, OnceInv, WorkersInv, JobActive,
      ActiveStates, Resumable, workspace, Rest
<1>19. CASE CaptureCheckpoint
  BY <1>0, <1>19, ContentsAssumption
  DEF CaptureCheckpoint, CGoto, OnceInv, WorkersInv, JobActive, ActiveStates, Resumable,
      workspace, repository, Rest
<1>20. CASE CommandRejected
  BY <1>0, <1>20, ContentsAssumption
  DEF CommandRejected, Marking, OnceInv, WorkersInv, JobActive, ActiveStates, Resumable, workspace,
      repository, Rest
<1>21. CASE MarkReauthorizationRequired
  BY <1>0, <1>21, ContentsAssumption
  DEF MarkReauthorizationRequired, Marking, CGoto, OnceInv, WorkersInv, JobActive, ActiveStates,
      Resumable, workspace, repository, Rest
<1>22. CASE ListRemote
  BY <1>0, <1>22, ContentsAssumption
  DEF ListRemote, CGoto, CFails, OnceInv, WorkersInv, JobActive, ActiveStates, Resumable,
      workspace, repository, Rest
<1>23. CASE PushCheckpoint
  BY <1>0, <1>23, ContentsAssumption
  DEF PushCheckpoint, CGoto, CFails, OnceInv, WorkersInv, JobActive, ActiveStates,
      Resumable, workspace, Rest
<1>24. CASE VerifyPush
  BY <1>0, <1>24, ContentsAssumption
  DEF VerifyPush, CGoto, CFails, OnceInv, WorkersInv, JobActive, ActiveStates, Resumable,
      workspace, repository, Rest
<1>25. CASE CompleteCheckpoint
  BY <1>0, <1>25, ContentsAssumption
  DEF CompleteCheckpoint, CIdle, NoRow, OnceInv, WorkersInv, JobActive, ActiveStates,
      Resumable, workspace, repository, Rest
<1>26. CASE FailCheckpoint
  BY <1>0, <1>26, ContentsAssumption
  DEF FailCheckpoint, CIdle, OnceInv, WorkersInv, JobActive, ActiveStates, Resumable,
      workspace, repository, Rest
<1>27. CASE CheckpointStepFails
  BY <1>0, <1>27, ContentsAssumption
  DEF CheckpointStepFails, CFails, Uncaptured, OnceInv, WorkersInv, JobActive, ActiveStates,
      Resumable, workspace, repository
<1>28. CASE CheckpointResultLost
  BY <1>0, <1>28, ContentsAssumption
  DEF CheckpointResultLost, CIdle, OnceInv, WorkersInv, JobActive, ActiveStates, Resumable,
      workspace, repository
<1>29. CASE ClaimDueJob
  BY <1>0, <1>29, ContentsAssumption
  DEF ClaimDueJob, IGoto, Resumable, Due, OnceInv, WorkersInv, JobActive, ActiveStates,
      workspace, Others, JobRow, IWorker
<1>30. CASE InboundJobLink
  BY <1>0, <1>30, ContentsAssumption
  DEF InboundJobLink, Resumable, OnceInv, WorkersInv, JobActive, ActiveStates, workspace,
      Others, IWorker
<1>31. CASE PrepareInboundState
  BY <1>0, <1>31, ContentsAssumption
  DEF PrepareInboundState, IFails, Importable, OnceInv, WorkersInv, JobActive, ActiveStates,
      Resumable, workspace, Others, IWorker, JobRow
<1>32. CASE FetchRejected
  BY <1>0, <1>32, ContentsAssumption
  DEF FetchRejected, OnceInv, WorkersInv, JobActive, ActiveStates, Resumable, workspace,
      Others, IWorker
<1>33. CASE MarkFetchRejected
  BY <1>0, <1>33, ContentsAssumption
  DEF MarkFetchRejected, IGoto, OnceInv, WorkersInv, JobActive, ActiveStates, Resumable,
      workspace, Others, IWorker
<1>34. CASE StageAssets
  BY <1>0, <1>34, ContentsAssumption
  DEF StageAssets, IGoto, OnceInv, WorkersInv, JobActive, ActiveStates, Resumable,
      workspace, Others, JobRow, IWorker
<1>35. CASE LockForInbound
  BY <1>0, <1>35, ContentsAssumption
  DEF LockForInbound, IGoto, OnceInv, WorkersInv, JobActive, ActiveStates, Resumable,
      workspace, Others, IWorker
<1>36. CASE FlushBeforeReplacement
  BY <1>0, <1>36, ContentsAssumption
  DEF FlushBeforeReplacement, IGoto, OnceInv, WorkersInv, JobActive, ActiveStates,
      Resumable, Others, IWorker
<1>37. CASE ApplyInboundContent
  BY <1>0, <1>37, ContentsAssumption
  DEF ApplyInboundContent, Applied, Saved, IGoto, OnceInv, WorkersInv, JobActive,
      ActiveStates, Resumable, Others, JobRow, IWorker
<1>38. CASE FlushImportedRevision
  BY <1>0, <1>38, ContentsAssumption
  DEF FlushImportedRevision, IGoto, OnceInv, WorkersInv, JobActive, ActiveStates, Resumable,
      Others, IWorker
<1>39. CASE CompleteJob
  BY <1>0, <1>39, ContentsAssumption
  DEF CompleteJob, IIdle, OnceInv, WorkersInv, JobActive, ActiveStates, Resumable,
      workspace, Others, JobRow, IWorker
<1>40. CASE RecordFailure
  BY <1>0, <1>40, ContentsAssumption
  DEF RecordFailure, IIdle, OnceInv, WorkersInv, JobActive, ActiveStates, Resumable,
      workspace, Others, JobRow, IWorker
<1>41. CASE ApplyIsAmbiguous
  <2>1. CASE Applied
    BY <1>0, <1>41, <2>1, ContentsAssumption
    DEF ApplyIsAmbiguous, Applied, IIdle, OnceInv, WorkersInv, Resumable, JobRow
  <2>2. CASE UNCHANGED <<job, applies>>
    BY <1>0, <1>41, <2>2 DEF ApplyIsAmbiguous, IIdle, OnceInv, JobActive, Resumable
  <2> QED
    BY <1>41, <2>1, <2>2 DEF ApplyIsAmbiguous
<1>42. CASE InboundStepFails
  BY <1>0, <1>42, ContentsAssumption
  DEF InboundStepFails, IFails, RetryPhase, Resumable, OnceInv, WorkersInv, JobActive,
      ActiveStates, workspace, repository, IWorker
<1>43. CASE InboundResultLost
  BY <1>0, <1>43, ContentsAssumption
  DEF InboundResultLost, IIdle, OnceInv, WorkersInv, JobActive, ActiveStates, Resumable,
      workspace, repository, IWorker
<1>44. CASE Stop
  BY <1>0, <1>44, ContentsAssumption
  DEF Stop, CIdle, IIdle, Uncaptured, OnceInv, WorkersInv, JobActive, ActiveStates,
      Resumable, workspace, repository, IWorker
<1> QED
  BY <1>1, <1>2, <1>3, <1>4, <1>5, <1>6, <1>7, <1>8, <1>9, <1>10, <1>11, <1>12, <1>13,
     <1>14, <1>15, <1>16, <1>17, <1>18, <1>19, <1>20, <1>21, <1>22, <1>23, <1>24, <1>25,
     <1>26, <1>27, <1>28, <1>29, <1>30, <1>31, <1>32, <1>33, <1>34, <1>35, <1>36, <1>37,
     <1>38, <1>39, <1>40, <1>41, <1>42, <1>43, <1>44
  DEF SyncNext, LinkingRequest, CheckpointWorker, InboundWorker

\* What was recorded stays true when the Workspace changes, when the link's
\* status changes and when a commit is added.
LEMMA RecordsLater ==
  ASSUME NEW v, NEW sha, NEW l, NEW n \in Nat, NEW c, NEW files, NEW files2,
         Records(v, sha, l, n, c, files)
  PROVE  Records(v, sha, l, n + 1, c, files2)
BY DEF Records

LEMMA RecordsLinked ==
  ASSUME NEW v, NEW sha, NEW l, NEW l2, NEW n, NEW c, NEW files,
         Records(v, sha, l, n, c, files), l2.synced = l.synced, l2.sha = l.sha
  PROVE  Records(v, sha, l2, n, c, files)
BY DEF Records

LEMMA RecordsAppended ==
  ASSUME NEW v, NEW sha, NEW l, NEW n, NEW S, NEW c \in Seq(S), NEW x \in S, NEW files,
         Records(v, sha, l, n, c, files)
  PROVE  Records(v, sha, l, n, Append(c, x), files)
<1>1. Len(Append(c, x)) = Len(c) + 1 /\ \A i \in 1..Len(c) : Append(c, x)[i] = c[i]
  OBVIOUS
<1>2. Len(c) \in Nat
  OBVIOUS
<1> QED
  BY <1>1, <1>2 DEF Records

\* Where the worker has not captured a version yet, or has given it up.
Quiet == {"idle", "lock", "project", "load", "fail"}

\* Steps that record nothing.
KeepsRecords ==
  /\ (content' = content /\ version' = version) \/ version' = version + 1
  /\ commits' = commits
  /\ link'.synced = link.synced /\ link'.sha = link.sha
  /\ row'.captured = None \/ (row'.captured = row.captured /\ row'.sha = row.sha)
  /\ \/ cw'.at \in Quiet
     \/ SameCheckpoint /\ cw'.at = cw.at /\ (cw.at = "commit" => head' = head)
     \/ SameCheckpoint /\ cw.at \in Captured /\ cw'.at \in Captured

LEMMA RecordsKept ==
  ASSUME SyncTypeOK, CheckpointInv, KeepsRecords
  PROVE  CheckpointInv'
<1>0. version \in Nat /\ cw.version \in Nat
  BY SyncFields DEF SyncTypeOK
<1>1. \A v, sha : Holds(v, sha) => Records(v, sha, link', version', commits', content')
  <2> SUFFICES ASSUME NEW v, NEW sha, Records(v, sha, link, version, commits, content)
               PROVE  Records(v, sha, link', version', commits', content')
    BY DEF Holds
  <2>1. Records(v, sha, link', version, commits, content)
    BY RecordsLinked DEF KeepsRecords
  <2>2. Records(v, sha, link', version + 1, commits, content')
    BY <1>0, <2>1, RecordsLater
  <2> QED
    BY <2>1, <2>2 DEF KeepsRecords
<1>2. (link.sha # 0 => Holds(link.synced, link.sha))' /\ (link.sha = 0 => link.synced = 0)'
  BY <1>1 DEF KeepsRecords, CheckpointInv, Holds
<1>3. (row.captured # None => Holds(row.captured, row.sha))'
  BY <1>1 DEF KeepsRecords, CheckpointInv, Holds
<1>4. (cw.at \in {"flush", "commit"} =>
         link.synced <= cw.version /\ cw.version <= version /\ cw.base = link.sha)'
  BY <1>0 DEF KeepsRecords, CheckpointInv, SameCheckpoint, Quiet, Captured
<1>5. (cw.at = "commit" => head \in Contents /\ (cw.version = version => head = content))'
  BY <1>0 DEF KeepsRecords, CheckpointInv, SameCheckpoint, Quiet, Captured
<1>6. (cw.at \in Captured => Holds(cw.version, cw.sha))'
  <2>1. CASE cw'.at \in Quiet
    BY <2>1 DEF Quiet, Captured
  <2>2. CASE SameCheckpoint /\ cw.at \in Captured
    BY <1>1, <2>2 DEF SameCheckpoint, CheckpointInv, Holds
  <2> QED
    BY <2>1, <2>2 DEF KeepsRecords
<1> QED
  BY <1>2, <1>3, <1>4, <1>5, <1>6 DEF CheckpointInv

\* What the link, the row and the worker have recorded.
LEMMA CheckpointStep ==
  ASSUME SyncTypeOK, WorkersInv, CheckpointInv, SyncNext
  PROVE  CheckpointInv'
<1>0. /\ link \in LinkRow /\ row \in QueueRow /\ cw \in CWorker
      /\ version \in Nat
  BY DEF SyncTypeOK
<1>1. CASE \E c \in Contents \ Rejected : Edit(c)
  <2> QED
    BY <1>0, <1>1, RecordsKept
    DEF Edit, Saved, KeepsRecords, SameCheckpoint, Quiet, Captured, WorkersInv, CLocked,
        ILocked, repository, ghosts
<1>2. CASE \E c \in Contents \ Rejected : AcceptUpdate(c)
  <2> QED
    BY <1>0, <1>2, RecordsKept
    DEF AcceptUpdate, KeepsRecords, SameCheckpoint, Quiet, Captured, WorkersInv, CLocked,
        ILocked, repository, ghosts
<1>3. CASE ProjectUpdate
  <2> QED
    BY <1>0, <1>3, RecordsKept
    DEF ProjectUpdate, Projected, Saved, KeepsRecords, SameCheckpoint, Quiet, Captured,
        WorkersInv, CLocked, ILocked, repository, ghosts
<1>4. CASE LinkRepository
  <2>1. link'.synced = 0 /\ link'.sha = 0
    BY <1>4 DEF LinkRepository, NewLink, NotLinked
  <2>2. cw.at = "idle"
    BY <1>4 DEF LinkRepository, WorkersInv
  <2>3. \A v, sha : Holds(v, sha) => Records(v, sha, link', version, commits, content)
    BY <2>1 DEF Holds, Records
  <2>4. UNCHANGED <<content, version, commits, row, cw>>
    BY <1>4 DEF LinkRepository, workspace
  <2> QED
    BY <2>1, <2>2, <2>3, <2>4 DEF CheckpointInv, Holds, Captured
<1>5. CASE LinkAgain
  <2> QED
    BY <1>0, <1>5, RecordsKept
    DEF LinkAgain, Linked, KeepsRecords, SameCheckpoint, Quiet, Captured, WorkersInv,
        CLocked, ILocked, workspace, repository, ghosts, LinkRow
<1>6. CASE UnlinkRepository
  <2>1. link'.synced = 0 /\ link'.sha = 0
    BY <1>6 DEF UnlinkRepository, NotLinked
  <2>2. cw.at = "idle"
    BY <1>6 DEF UnlinkRepository, WorkersInv
  <2>3. \A v, sha : Holds(v, sha) => Records(v, sha, link', version, commits, content)
    BY <2>1 DEF Holds, Records
  <2>4. UNCHANGED <<content, version, commits, row, cw>>
    BY <1>6 DEF UnlinkRepository, workspace, repository
  <2> QED
    BY <2>1, <2>2, <2>3, <2>4 DEF CheckpointInv, Holds, Captured
<1>7. CASE EnqueueCheckpoint
  <2> QED
    BY <1>0, <1>7, RecordsKept
    DEF EnqueueCheckpoint, ResumeQueue, NoRow, Queued, Linked, JobActive, KeepsRecords,
        SameCheckpoint, Quiet, Captured, WorkersInv, CLocked, ILocked, workspace,
        repository, ghosts, QueueRow
<1>8. CASE EnqueueSync
  <2> QED
    BY <1>0, <1>8, RecordsKept
    DEF EnqueueSync, NewJob, NoJob, Linked, Queued, JobActive, KeepsRecords, SameCheckpoint,
        Quiet, Captured, WorkersInv, CLocked, ILocked, workspace, repository
<1>9. CASE Reauthorize
  <2> QED
    BY <1>0, <1>9, RecordsKept
    DEF Reauthorize, ResumeReauthorized, KeepsRecords, SameCheckpoint, Quiet, Captured,
        WorkersInv, CLocked, ILocked, workspace, repository, ghosts, LinkRow, QueueRow
<1>10. CASE BranchMoves
  <2> QED
    BY <1>0, <1>10, RecordsKept
    DEF BranchMoves, KeepsRecords, SameCheckpoint, Quiet, Captured, WorkersInv, CLocked,
        ILocked, workspace, ghosts
<1>11. CASE \E c \in Contents : SourceMoves(c)
  <2> QED
    BY <1>0, <1>11, RecordsKept
    DEF SourceMoves, KeepsRecords, SameCheckpoint, Quiet, Captured, WorkersInv, CLocked,
        ILocked, workspace, ghosts
<1>12. CASE GrantRevoked
  <2> QED
    BY <1>0, <1>12, RecordsKept
    DEF GrantRevoked, KeepsRecords, SameCheckpoint, Quiet, Captured, WorkersInv, CLocked,
        ILocked, workspace, repository
<1>13. CASE ClaimDue
  <2>1. SameCheckpoint
    BY <1>13, CheckpointMoves
  <2> QED
    BY <1>0, <1>13, RecordsKept, <2>1
    DEF ClaimDue, CGoto, Due, KeepsRecords, Quiet, Captured, WorkersInv, CLocked, ILocked,
        workspace, repository, Rest, QueueRow, CWorker
<1>14. CASE LockForCheckpoint
  <2>1. SameCheckpoint
    BY <1>14, CheckpointMoves
  <2> QED
    BY <1>0, <1>14, RecordsKept, <2>1
    DEF LockForCheckpoint, CGoto, KeepsRecords, Quiet, Captured, WorkersInv, CLocked,
        ILocked, workspace, repository, Rest, CWorker
<1>15. CASE FlushProjectCollaboration
  <2>1. SameCheckpoint
    BY <1>15, CheckpointMoves
  <2> QED
    BY <1>0, <1>15, RecordsKept, <2>1
    DEF FlushProjectCollaboration, Projected, Saved, CGoto, KeepsRecords, Quiet, Captured,
        WorkersInv, CLocked, ILocked, repository, Rest, CWorker
<1>16. CASE LoadCheckpointContext
  <2>1. UNCHANGED <<content, version, head, commits, link, row>>
    BY <1>16 DEF LoadCheckpointContext, workspace, repository
  <2>2. link.synced <= version
    BY <1>0 DEF CheckpointInv, Holds, Records
  <2>3. CASE row.captured = None
    <3>1. cw'.at = "flush" /\ cw'.version = version /\ cw'.base = link.sha
      BY <1>0, <1>16, <2>3 DEF LoadCheckpointContext, CWorker
    <3>2. link.synced <= version /\ version <= version
      BY <1>0, <2>2
    <3> QED
      BY <2>1, <3>1, <3>2 DEF CheckpointInv, Holds, Captured
  <2>4. CASE row.captured # None
    <3>1. cw'.at = "list" /\ cw'.version = row.captured /\ cw'.sha = row.sha
      BY <1>0, <1>16, <2>4 DEF LoadCheckpointContext, CWorker
    <3> QED
      BY <2>1, <2>4, <3>1 DEF CheckpointInv, Holds
  <2> QED
    BY <2>3, <2>4
<1>17. CASE FlushWorkspace
  <2>1. cw'.at = "commit" /\ SameCheckpoint /\ head' = content /\ content \in Contents
    BY <1>0, <1>17, CheckpointMoves DEF FlushWorkspace, CGoto, CWorker, SyncTypeOK
  <2>2. cw.at = "flush" /\ UNCHANGED <<content, version, commits, link, row>>
    BY <1>17 DEF FlushWorkspace, repository
  <2> QED
    BY <2>1, <2>2 DEF CheckpointInv, Holds, SameCheckpoint, Captured
<1>18. CASE CreateCheckpointCommit
  <2>0. UNCHANGED <<content, version, head, link, row>>
    BY <1>18 DEF CreateCheckpointCommit, workspace
  <2>1. CASE /\ SameTree /\ commits' = commits
             /\ cw' = [cw EXCEPT !.at = "capture", !.sha = cw.base]
    <3>1. cw'.at = "capture" /\ cw'.version = cw.version /\ cw'.sha = cw.base
      BY <1>0, <2>1 DEF CWorker
    <3>2. cw.base \in 1..Len(commits) /\ commits[cw.base].tree = head
      BY <2>1 DEF SameTree, TreeOf, SyncTypeOK
    <3>3. Holds(cw.version, cw.base)
      BY <1>18, <3>2, SyncFields DEF CreateCheckpointCommit, CheckpointInv, Holds, Records
    <3> QED
      BY <2>0, <2>1, <3>1, <3>3 DEF CheckpointInv, Holds
  <2>2. CASE /\ commits' = Append(commits, [tree |-> head, parent |-> cw.base])
             /\ cw' = [cw EXCEPT !.at = "capture", !.sha = ref'] /\ ref' = Len(commits')
    <3> DEFINE new == [tree |-> head, parent |-> cw.base]
    <3>1. new \in [tree: Contents, parent: Nat]
      BY <1>18, SyncFields DEF CreateCheckpointCommit, CheckpointInv
    <3>2. commits \in Seq([tree: Contents, parent: Nat]) /\ commits' = Append(commits, new)
      BY <2>2 DEF SyncTypeOK
    <3>3. cw'.at = "capture" /\ cw'.version = cw.version /\ cw'.sha = Len(commits')
      BY <1>0, <2>2 DEF CWorker
    <3>4. new.tree = head
      OBVIOUS
    <3> HIDE DEF new
    <3>5. /\ Len(commits') = Len(commits) + 1 /\ Len(commits) \in Nat
          /\ commits'[Len(commits')] = new
      BY <3>1, <3>2
    <3>6. \A v, sha : Holds(v, sha) => Records(v, sha, link, version, commits', content)
      BY <3>1, <3>2, RecordsAppended DEF Holds
    <3>7. link.sha \in 0..Len(commits)
      BY DEF SyncTypeOK
    <3>8. Records(cw.version, Len(commits'), link, version, commits', content)
      BY <1>18, <3>4, <3>5, <3>7, SyncFields DEF CreateCheckpointCommit, CheckpointInv, Records
    <3> QED
      BY <2>0, <3>3, <3>6, <3>8 DEF CheckpointInv, Holds
  <2>3. CASE CFails("retry") /\ commits' = commits
    <3>1. cw'.at = "fail"
      BY <1>0, <2>3 DEF CFails, CWorker
    <3> QED
      BY <2>0, <2>3, <3>1, RecordsKept DEF KeepsRecords, Quiet
  <2> QED
    BY <1>18, <2>1, <2>2, <2>3 DEF CreateCheckpointCommit
<1>19. CASE CaptureCheckpoint
  <2>1. cw'.at = "list" /\ SameCheckpoint
    BY <1>0, <1>19, CheckpointMoves DEF CaptureCheckpoint, CGoto, CWorker
  <2>2. row'.captured = cw.version /\ row'.sha = cw.sha
    BY <1>0, <1>19 DEF CaptureCheckpoint, QueueRow
  <2>3. Holds(cw.version, cw.sha) /\ UNCHANGED <<content, version, head, commits, link>>
    BY <1>19 DEF CaptureCheckpoint, CheckpointInv, Captured, workspace, repository
  <2> QED
    BY <2>1, <2>2, <2>3 DEF CheckpointInv, Holds, SameCheckpoint
<1>20. CASE CommandRejected
  <2>1. SameCheckpoint
    BY <1>20, CheckpointMoves
  <2> QED
    BY <1>0, <1>20, RecordsKept, <2>1
    DEF CommandRejected, Marking, KeepsRecords, Quiet, Captured, WorkersInv, CLocked, ILocked,
        workspace, repository, Rest, CWorker
<1>21. CASE MarkReauthorizationRequired
  <2>1. SameCheckpoint
    BY <1>21, CheckpointMoves
  <2>2. cw.at \in {"mark_list", "mark_push", "mark_verify"}
    BY <1>21 DEF MarkReauthorizationRequired, Marking
  <2>3. cw'.at \in {"fail", "list", "push", "verify"}
    BY <1>0, <1>21 DEF MarkReauthorizationRequired, CGoto, CWorker
  <2>4. UNCHANGED <<workspace, repository, link, row, job, iw>>
    BY <1>21 DEF MarkReauthorizationRequired, Rest
  <2> QED
    BY <1>0, <2>1, <2>2, <2>3, <2>4, RecordsKept
    DEF KeepsRecords, Quiet, Captured, WorkersInv, CLocked, ILocked, workspace, repository
<1>22. CASE ListRemote
  <2>1. SameCheckpoint
    BY <1>22, CheckpointMoves
  <2> QED
    BY <1>0, <1>22, RecordsKept, <2>1
    DEF ListRemote, CGoto, CFails, KeepsRecords, Quiet, Captured, WorkersInv, CLocked,
        ILocked, workspace, repository, Rest, CWorker
<1>23. CASE PushCheckpoint
  <2>1. SameCheckpoint
    BY <1>23, CheckpointMoves
  <2> QED
    BY <1>0, <1>23, RecordsKept, <2>1
    DEF PushCheckpoint, CGoto, CFails, KeepsRecords, Quiet, Captured, WorkersInv, CLocked,
        ILocked, workspace, Rest, CWorker
<1>24. CASE VerifyPush
  <2>1. SameCheckpoint
    BY <1>24, CheckpointMoves
  <2> QED
    BY <1>0, <1>24, RecordsKept, <2>1
    DEF VerifyPush, CGoto, CFails, KeepsRecords, Quiet, Captured, WorkersInv, CLocked,
        ILocked, workspace, repository, Rest, CWorker
<1>25. CASE CompleteCheckpoint
  <2>1. Holds(cw.version, cw.sha) /\ UNCHANGED <<content, version, commits>>
    BY <1>25 DEF CompleteCheckpoint, CheckpointInv, Captured, workspace, repository
  <2>2. link'.synced = cw.version /\ link'.sha = cw.sha
    <3>1. Max({link.synced, cw.version}) = cw.version
      BY <2>1, SyncFields, MaxOfTwo DEF Holds, Records
    <3> QED
      BY <1>25, <3>1 DEF CompleteCheckpoint
  <2>3. Records(cw.version, cw.sha, link', version, commits, content)
    BY <2>1, <2>2, SyncFields DEF Holds, Records
  <2>4. row'.captured = None /\ cw'.at = "idle" /\ cw.sha # 0
    BY <1>25, <2>1 DEF CompleteCheckpoint, NoRow, CIdle, Holds, Records
  <2> QED
    BY <2>1, <2>2, <2>3, <2>4 DEF CheckpointInv, Holds, Captured
<1>26. CASE FailCheckpoint
  <2> QED
    BY <1>0, <1>26, RecordsKept
    DEF FailCheckpoint, CIdle, KeepsRecords, SameCheckpoint, Quiet, Captured, WorkersInv,
        CLocked, ILocked, workspace, repository, Rest, QueueRow, LinkRow, CWorker
<1>27. CASE CheckpointStepFails
  <2>1. SameCheckpoint
    BY <1>27, CheckpointMoves
  <2> QED
    BY <1>0, <1>27, RecordsKept, <2>1
    DEF CheckpointStepFails, CFails, Uncaptured, KeepsRecords, Quiet, Captured, WorkersInv,
        CLocked, ILocked, workspace, repository, CWorker
<1>28. CASE CheckpointResultLost
  <2> QED
    BY <1>0, <1>28, RecordsKept
    DEF CheckpointResultLost, CIdle, KeepsRecords, SameCheckpoint, Quiet, Captured,
        WorkersInv, CLocked, ILocked, workspace, repository, CWorker
<1>29. CASE ClaimDueJob
  <2> QED
    BY <1>0, <1>29, RecordsKept
    DEF ClaimDueJob, IGoto, Resumable, Due, KeepsRecords, SameCheckpoint, Quiet, Captured,
        WorkersInv, CLocked, ILocked, workspace, Others
<1>30. CASE InboundJobLink
  <2> QED
    BY <1>0, <1>30, RecordsKept
    DEF InboundJobLink, Resumable, KeepsRecords, SameCheckpoint, Quiet, Captured,
        WorkersInv, CLocked, ILocked, workspace, Others
<1>31. CASE PrepareInboundState
  <2> QED
    BY <1>0, <1>31, RecordsKept
    DEF PrepareInboundState, IFails, Importable, KeepsRecords, SameCheckpoint, Quiet,
        Captured, WorkersInv, CLocked, ILocked, workspace, Others
<1>32. CASE FetchRejected
  <2> QED
    BY <1>0, <1>32, RecordsKept
    DEF FetchRejected, KeepsRecords, SameCheckpoint, Quiet, Captured, WorkersInv, CLocked,
        ILocked, workspace, Others
<1>33. CASE MarkFetchRejected
  <2> QED
    BY <1>0, <1>33, RecordsKept
    DEF MarkFetchRejected, IGoto, KeepsRecords, SameCheckpoint, Quiet, Captured, WorkersInv,
        CLocked, ILocked, workspace, Others
<1>34. CASE StageAssets
  <2> QED
    BY <1>0, <1>34, RecordsKept
    DEF StageAssets, IGoto, KeepsRecords, SameCheckpoint, Quiet, Captured, WorkersInv,
        CLocked, ILocked, workspace, Others
<1>35. CASE LockForInbound
  <2> QED
    BY <1>0, <1>35, RecordsKept
    DEF LockForInbound, IGoto, KeepsRecords, SameCheckpoint, Quiet, Captured, WorkersInv,
        CLocked, ILocked, workspace, Others
<1>36. CASE FlushBeforeReplacement
  <2> QED
    BY <1>0, <1>36, RecordsKept
    DEF FlushBeforeReplacement, IGoto, KeepsRecords, SameCheckpoint, Quiet, Captured,
        WorkersInv, CLocked, ILocked, Others
<1>37. CASE ApplyInboundContent
  <2> QED
    BY <1>0, <1>37, RecordsKept
    DEF ApplyInboundContent, Applied, Saved, IGoto, KeepsRecords, SameCheckpoint, Quiet,
        Captured, WorkersInv, CLocked, ILocked, Others
<1>38. CASE FlushImportedRevision
  <2> QED
    BY <1>0, <1>38, RecordsKept
    DEF FlushImportedRevision, IGoto, KeepsRecords, SameCheckpoint, Quiet, Captured,
        WorkersInv, CLocked, ILocked, Others
<1>39. CASE CompleteJob
  <2> QED
    BY <1>0, <1>39, RecordsKept
    DEF CompleteJob, IIdle, KeepsRecords, SameCheckpoint, Quiet, Captured, WorkersInv,
        CLocked, ILocked, workspace, Others
<1>40. CASE RecordFailure
  <2> QED
    BY <1>0, <1>40, RecordsKept
    DEF RecordFailure, IIdle, KeepsRecords, SameCheckpoint, Quiet, Captured, WorkersInv,
        CLocked, ILocked, workspace, Others
<1>41. CASE ApplyIsAmbiguous
  <2> QED
    BY <1>0, <1>41, RecordsKept
    DEF ApplyIsAmbiguous, Applied, Saved, IIdle, KeepsRecords, SameCheckpoint, Quiet,
        Captured, WorkersInv, CLocked, ILocked, repository
<1>42. CASE InboundStepFails
  <2> QED
    BY <1>0, <1>42, RecordsKept
    DEF InboundStepFails, IFails, RetryPhase, Resumable, KeepsRecords, SameCheckpoint,
        Quiet, Captured, WorkersInv, CLocked, ILocked, workspace, repository
<1>43. CASE InboundResultLost
  <2> QED
    BY <1>0, <1>43, RecordsKept
    DEF InboundResultLost, IIdle, KeepsRecords, SameCheckpoint, Quiet, Captured, WorkersInv,
        CLocked, ILocked, workspace, repository
<1>44. CASE Stop
  <2> QED
    BY <1>0, <1>44, RecordsKept
    DEF Stop, CIdle, IIdle, Uncaptured, KeepsRecords, SameCheckpoint, Quiet, Captured,
        WorkersInv, CLocked, ILocked, workspace, repository, CWorker
<1> QED
  BY <1>1, <1>2, <1>3, <1>4, <1>5, <1>6, <1>7, <1>8, <1>9, <1>10, <1>11, <1>12, <1>13,
     <1>14, <1>15, <1>16, <1>17, <1>18, <1>19, <1>20, <1>21, <1>22, <1>23, <1>24, <1>25,
     <1>26, <1>27, <1>28, <1>29, <1>30, <1>31, <1>32, <1>33, <1>34, <1>35, <1>36, <1>37,
     <1>38, <1>39, <1>40, <1>41, <1>42, <1>43, <1>44
  DEF SyncNext, LinkingRequest, CheckpointWorker, InboundWorker

SyncIInv == SyncTypeOK /\ WorkersInv /\ CheckpointInv /\ OnceInv

LEMMA SyncInitInv ==
  ASSUME SyncInit
  PROVE  SyncIInv
<1> USE ContentsAssumption
<1>1. SyncTypeOK
  <2>1. link \in LinkRow /\ link.sha = 0
    BY DEF SyncInit, NewLink, NotLinked, LinkRow
  <2>2. row \in QueueRow /\ row.sha = 0
    BY DEF SyncInit, NoRow, QueueRow, Errors
  <2>3. job \in JobRow
    <3>1. NoJob \in JobRow
      BY DEF NoJob, JobRow, Phases, Errors
    <3>2. NewJob("import") \in JobRow
      BY <3>1 DEF NewJob, JobRow, ActiveStates, Phases
    <3> QED
      BY <3>1, <3>2 DEF SyncInit
  <2>4. grant \in GrantRow
    BY DEF SyncInit, GrantRow
  <2>5. cw \in CWorker /\ cw.base = 0 /\ cw.sha = 0
    BY DEF SyncInit, CIdle, CWorker, CSteps, Errors
  <2>6. iw \in IWorker
    BY DEF SyncInit, IIdle, IWorker, ISteps, Phases, Errors
  <2>7. commits \in Seq([tree: Contents, parent: Nat]) /\ Len(commits) = 0
    BY DEF SyncInit
  <2> QED
    BY <2>1, <2>2, <2>3, <2>4, <2>5, <2>6, <2>7 DEF SyncInit, SyncTypeOK
<1>2. row.state = "none" /\ row.captured = None /\ cw.at = "idle" /\ iw.at = "idle"
  BY DEF SyncInit, NoRow, CIdle, IIdle
<1>3. WorkersInv
  BY <1>2 DEF WorkersInv, Queued, CLocked, ILocked
<1>4. CheckpointInv
  BY <1>2 DEF SyncInit, NewLink, NotLinked, CheckpointInv, Captured
<1>5. OnceInv
  BY DEF SyncInit, OnceInv
<1> QED
  BY <1>1, <1>3, <1>4, <1>5 DEF SyncIInv

\* The inductive invariant of linking, checkpoints and synchronisation.
THEOREM SyncInvariance == SyncSpec => []SyncIInv
<1>1. SyncInit => SyncIInv
  BY SyncInitInv
<1>2. SyncIInv /\ [SyncNext]_syncVars => SyncIInv'
  <2> SUFFICES ASSUME SyncIInv, [SyncNext]_syncVars PROVE SyncIInv'
    OBVIOUS
  <2>1. CASE UNCHANGED syncVars
    BY <2>1 DEF SyncIInv, SyncTypeOK, WorkersInv, CheckpointInv, OnceInv, syncVars, workspace, 
                repository, ghosts, Holds, Queued, Linked, JobActive, Resumable
  <2>2. CASE SyncNext
    BY <2>2, SyncTypes, WorkersStep, CheckpointStep, OnceStep DEF SyncIInv
  <2> QED
    BY <2>1, <2>2
<1> QED
  BY <1>1, <1>2, PTL DEF SyncSpec

\* A project reported up to date is: enqueue_checkpoint and derive_project_state
\* compare versions only, and the commit holds the current files, whatever was
\* edited, imported, retried or restarted while it was captured and pushed.
THEOREM UpToDateHolds == SyncSpec => []UpToDateIsTrue
<1>1. SyncIInv => UpToDateIsTrue
  <2> SUFFICES ASSUME SyncIInv, UpToDate PROVE TreeOf(link.sha) = content
    BY DEF UpToDateIsTrue
  <2>1. Holds(link.synced, link.sha) /\ link.synced >= version
    BY DEF SyncIInv, CheckpointInv, UpToDate
  <2>2. version \in Nat /\ link.synced \in Nat
    BY SyncFields DEF SyncIInv, SyncTypeOK
  <2> QED
    BY <2>1, <2>2 DEF Holds, Records, TreeOf
<1> QED
  BY <1>1, SyncInvariance, PTL

\* A sync replaces the Workspace once, however often its worker stops, loses an
\* answer or is retried, except when the link of an applied job cannot be loaded.
THEOREM SyncAppliesOnce == SyncSpec => []AppliedOnce
<1>1. SyncIInv => AppliedOnce
  BY DEF SyncIInv, SyncTypeOK, OnceInv, AppliedOnce
<1> QED
  BY <1>1, SyncInvariance, PTL

\* push_checkpoint_ref never takes a commit of somebody else off the managed
\* branch, whenever that commit arrives.
THEOREM OthersCommitsStay == SyncSpec => BranchKeepsCommits
<1>1. SyncIInv /\ [SyncNext]_syncVars =>
        [remote = -1 /\ Linked' => remote' = -1 \/ (~Linked /\ remote' = 0)]_syncVars
  <2> SUFFICES ASSUME SyncIInv, SyncNext, remote = -1
               PROVE  remote' = -1 \/ (~Linked /\ remote' = 0)
    BY DEF syncVars, workspace, repository, ghosts
  <2>1. CASE LinkRepository
    BY <2>1 DEF LinkRepository
  <2>2. CASE BranchMoves
    BY <2>2 DEF BranchMoves
  <2>3. CASE PushCheckpoint
    <3>1. cw.sha \in 1..Len(commits) /\ commits \in Seq([tree: Contents, parent: Nat])
      BY <2>3 DEF SyncIInv, SyncTypeOK, CheckpointInv, PushCheckpoint, Captured, Holds, Records
    <3>2. commits[cw.sha] \in [tree: Contents, parent: Nat]
      BY <3>1, ElementOfSeq
    <3>3. remote # commits[cw.sha].parent
      BY <3>2
    <3> QED
      BY <2>3, <3>3 DEF PushCheckpoint
  <2>4. CASE LinkAgain \/ UnlinkRepository \/ ProjectUpdate \/ EnqueueCheckpoint \/ EnqueueSync
             \/ Reauthorize \/ GrantRevoked \/ CheckpointStepFails \/ CheckpointResultLost
             \/ ApplyIsAmbiguous \/ InboundStepFails \/ InboundResultLost \/ Stop
             \/ (\E c \in Contents \ Rejected : Edit(c) \/ AcceptUpdate(c))
             \/ (\E c \in Contents : SourceMoves(c))
    BY <2>4
    DEF LinkAgain, UnlinkRepository, ProjectUpdate, EnqueueCheckpoint, EnqueueSync,
        Reauthorize, GrantRevoked, CheckpointStepFails, CheckpointResultLost,
        ApplyIsAmbiguous, InboundStepFails, InboundResultLost, Stop, Edit, AcceptUpdate,
        SourceMoves, repository
  <2>5. CASE InboundWorker
    BY <2>5
    DEF InboundWorker, ClaimDueJob, InboundJobLink, PrepareInboundState, FetchRejected,
        MarkFetchRejected, StageAssets, LockForInbound, FlushBeforeReplacement,
        ApplyInboundContent, FlushImportedRevision, CompleteJob, RecordFailure, Others
  <2>6. CASE CheckpointWorker /\ ~PushCheckpoint
    BY <2>6
    DEF CheckpointWorker, ClaimDue, LockForCheckpoint, FlushProjectCollaboration,
        LoadCheckpointContext, FlushWorkspace, CreateCheckpointCommit, CaptureCheckpoint,
        CommandRejected, MarkReauthorizationRequired, Marking, ListRemote, VerifyPush,
        CompleteCheckpoint, FailCheckpoint, repository
  <2> QED
    BY <2>1, <2>2, <2>3, <2>4, <2>5, <2>6 DEF SyncNext, LinkingRequest
<1> QED
  BY <1>1, SyncInvariance, PTL DEF SyncSpec, BranchKeepsCommits

\* The link never goes back to an older commit or an older version.
CheckpointsAdvance ==
  [][Linked /\ Linked' => link.sha <= link'.sha /\ link.synced <= link'.synced]_syncVars

\* complete_checkpoint only moves the link's recorded version and commit forward,
\* also when a row captured before a restart is pushed by a later claim.
THEOREM CheckpointsNeverGoBack == SyncSpec => CheckpointsAdvance
<1>1. SyncIInv /\ [SyncNext]_syncVars =>
        [Linked /\ Linked' => link.sha <= link'.sha /\ link.synced <= link'.synced]_syncVars
  <2> SUFFICES ASSUME SyncIInv, SyncNext, Linked, Linked'
               PROVE  link.sha <= link'.sha /\ link.synced <= link'.synced
    BY DEF syncVars, workspace, repository, ghosts
  <2>0. link \in LinkRow /\ link.sha \in Nat /\ link.synced \in Nat
    BY SyncFields DEF SyncIInv, SyncTypeOK
  <2>1. CASE CompleteCheckpoint
    <3>1. Holds(cw.version, cw.sha)
      BY <2>1 DEF SyncIInv, CheckpointInv, Captured, CompleteCheckpoint
    <3>2. link'.sha = cw.sha /\ link'.synced = Max({link.synced, cw.version})
      BY <2>1 DEF CompleteCheckpoint
    <3>3. Max({link.synced, cw.version}) >= link.synced
      BY <2>0, <3>1, MaxOfTwo DEF Holds, Records
    <3> QED
      BY <2>0, <3>1, <3>2, <3>3, MaxOfTwo DEF Holds, Records
  <2>2. CASE LinkAgain \/ Reauthorize \/ FailCheckpoint
    <3>1. \/ link' = link
          \/ \E status : link' = [link EXCEPT !.status = status]
      BY <2>2, Zenon DEF LinkAgain, Reauthorize, ResumeReauthorized, FailCheckpoint
    <3> QED
      BY <2>0, <3>1 DEF LinkRow
  <2>3. CASE LinkRepository
    BY <2>3 DEF LinkRepository
  <2>4. CASE UnlinkRepository
    BY <2>4 DEF UnlinkRepository, NotLinked, Linked
  <2>5. CASE link' = link
    BY <2>0, <2>5
  <2>6. CASE ProjectUpdate \/ EnqueueCheckpoint \/ EnqueueSync \/ BranchMoves \/ GrantRevoked
             \/ CheckpointStepFails \/ CheckpointResultLost \/ ApplyIsAmbiguous
             \/ InboundStepFails \/ InboundResultLost \/ Stop \/ InboundWorker
             \/ (\E c \in Contents \ Rejected : Edit(c) \/ AcceptUpdate(c))
             \/ (\E c \in Contents : SourceMoves(c))
    BY <2>5, <2>6
    DEF ProjectUpdate, EnqueueCheckpoint, EnqueueSync, BranchMoves, GrantRevoked,
        CheckpointStepFails, CheckpointResultLost, ApplyIsAmbiguous, InboundStepFails,
        InboundResultLost, Stop, Edit, AcceptUpdate, SourceMoves, InboundWorker, ClaimDueJob,
        InboundJobLink, PrepareInboundState, FetchRejected, MarkFetchRejected, StageAssets,
        LockForInbound, FlushBeforeReplacement, ApplyInboundContent, FlushImportedRevision,
        CompleteJob, RecordFailure
  <2>7. CASE ClaimDue \/ LockForCheckpoint \/ FlushProjectCollaboration \/ LoadCheckpointContext
             \/ FlushWorkspace \/ CreateCheckpointCommit \/ CaptureCheckpoint \/ CommandRejected
             \/ MarkReauthorizationRequired \/ ListRemote \/ PushCheckpoint \/ VerifyPush
    BY <2>5, <2>7
    DEF ClaimDue, LockForCheckpoint, FlushProjectCollaboration, LoadCheckpointContext,
        FlushWorkspace, CreateCheckpointCommit, CaptureCheckpoint, CommandRejected,
        MarkReauthorizationRequired, ListRemote, PushCheckpoint, VerifyPush
  <2> QED
    BY <2>1, <2>2, <2>3, <2>4, <2>6, <2>7 DEF SyncNext, LinkingRequest, CheckpointWorker
<1> QED
  BY <1>1, SyncInvariance, PTL DEF SyncSpec, CheckpointsAdvance
=============================================================================
