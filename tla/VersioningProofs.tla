-------------------------- MODULE VersioningProofs --------------------------
(***************************************************************************)
(* What the local history guarantees for any number of edits, pushes,      *)
(* paths and failures: an edit the head does not hold stays marked, queued *)
(* and credited; a revision opened from the live Workspace shows its tree  *)
(* where no row hides a change; and the answer of a push is true of the    *)
(* branch and of the Workspace.                                            *)
(*                                                                         *)
(* The argument compares trees.  The Workspace `follows' an older tree     *)
(* when only edits lie between them, all of them marked; it `agrees' with  *)
(* a commit when what it has and the commit lacks is marked, as long as no *)
(* push went astray.  The Workspace agrees with the head at every step but *)
(* the ones of a push between git's move of the branch and the import or   *)
(* the reset of the branch; there the captured files agree with the old    *)
(* head, and the Workspace follows the files or is the import.             *)
(***************************************************************************)
EXTENDS Versioning, TLAPS

Ats == {"none", "config", "queue", "snapshot", "replace", "commit", "complete", "backend",
        "capture", "reconcile", "import", "merge", "record", "restore", "undo", "reload",
        "resync", "done"}

Operation ==
    [kind : Kinds \cup {"idle"}, at : Ats, cfg : BOOLEAN, before : Nat, files : Tree,
     version : Nat, staged : Tree, mat : Nat, may : BOOLEAN,
     next : {"none", "commit", "record", "resync"}]

TypeInv ==
    /\ content \in Tree /\ worktree \in Tree
    /\ version \in Nat /\ pending \in BOOLEAN /\ queued \in BOOLEAN
    /\ authors \subseteq Edits /\ touched \subseteq Paths
    /\ commits \in Seq(Commit)
    /\ \A n \in DOMAIN commits : commits[n].parent < n
    /\ head \in 0..Len(commits) /\ clone \in 0..Len(commits)
    /\ op \in Operation /\ op.before \in 0..Len(commits)
    /\ answer \in [what : {"none", "accepted", "refused", "rejected", "failed"},
                   commit : Nat, kept : BOOLEAN]
    /\ astray \subseteq {"merged", "restored"}

-----------------------------------------------------------------------------
(* Comparing two trees, given what is marked.                              *)

\* TreeAt and Ancestors, of any sequence of commits.
TreeIn(cs, n) == IF n = 0 THEN NoFiles ELSE cs[n].tree
ClosedIn(cs, S) == \A m \in S : cs[m].parent \in S \cup {0}
AncestorsIn(cs, n) ==
    {k \in DOMAIN cs :
        /\ n /= 0
        /\ \A S \in SUBSET DOMAIN cs : n \in S /\ ClosedIn(cs, S) => k \in S}

\* An edit that `new' holds and `old' does not is marked, queued and credited.
Credited(new, old, pen, que, aut) ==
    \A e \in Edits, p \in Paths :
        Holds(new[p], e) /\ ~Holds(old[p], e) => pen /\ que /\ e \in aut

\* The two differ only at paths that are recorded as touched.
Traced(new, old, tou) == \A p \in Paths : p \notin tou => new[p] = old[p]

\* `new' at version ver came from `old' at version v by edits.
Follows(new, old, v, ver, pen, que, aut, tou) ==
    /\ ver >= v
    /\ ver = v => new = old
    /\ ver > v => pen
    /\ Credited(new, old, pen, que, aut)
    /\ Traced(new, old, tou)

\* A commit's tree `old' lacks nothing of `new' that is not marked.
Agrees(new, old, pen, que, aut, tou, ast) ==
    /\ "restored" \notin ast => Credited(new, old, pen, que, aut) /\ (pen \/ new = old)
    /\ ast = {} => Traced(new, old, tou)

ContentFollows(tree, v) == Follows(content, tree, v, version, pending, queued, authors, touched)
ContentAgrees(n) == Agrees(content, TreeIn(commits, n), pending, queued, authors, touched, astray)

-----------------------------------------------------------------------------
(* Where an operation stands.                                              *)

\* A push whose captured state is still needed.
Captured == op.kind = "push" /\ op.at \notin {"capture", "done"}
\* A push between the branch's move and the import, or the branch's reset.
Suspended == op.kind = "push"
               /\ op.at \in {"reconcile", "import", "merge", "restore", "undo"}
\* A push whose merge or import is in the Workspace and not yet recorded.
Imported == op.kind = "push" /\ op.next = "record" /\ op.at \in {"snapshot", "replace", "record"}

\* The head the Workspace agrees with, outside of a push's critical steps.
HeadInv == ~Suspended => ContentAgrees(head)

\* The snapshot of the operation, the worktree made from it, the commit made of
\* that.
StagedInv ==
    /\ op.at \in {"replace", "commit", "complete", "resync"} \/ (op.at = "record" /\ op.cfg)
         => ContentFollows(op.staged, op.mat)
    /\ op.at \in {"commit", "complete", "resync"} \/ (op.at = "record" /\ op.cfg)
         => worktree = op.staged
    /\ op.at = "complete" => TreeIn(commits, head) = op.staged
    /\ op.at \in {"snapshot", "replace"} /\ op.next = "record" => op.cfg

\* Which steps a push goes through, and which ones are a push's alone.
PhaseInv ==
    /\ op.at \in {"capture", "reconcile", "import", "merge", "record", "restore", "undo",
                  "reload", "resync"} \/ op.next \in {"record", "resync"}
         => op.kind = "push"
    /\ op.at \in {"snapshot", "replace"} => op.next /= "none"
    /\ op.at = "record" => op.next = "record"
    /\ op.at = "import" => ~op.cfg
    /\ op.at = "merge" => op.cfg
    /\ op.at \in {"commit", "complete"} => op.next = "commit"
    /\ op.kind = "push" /\ op.at \in {"capture", "backend", "reconcile", "import", "merge"}
         => op.next = "none"
    /\ op.at \in {"restore", "undo", "reload"} => op.next \in {"none", "record"}
    /\ op.kind = "push" => op.at \notin {"config", "queue"}
    /\ op.at = "none" <=> op.kind = "idle"

\* The import, as seen from the captured state.
ImportOK ==
    /\ version > op.version
    /\ version > op.version + 1 => pending
    /\ "restored" \notin astray
         => Credited(content, TreeIn(commits, op.before), pending, queued, authors)
    /\ touched = Paths

\* git receive-pack only adds the pushed change to the commit it found.
PushedOK == \A e \in Edits, p \in Paths :
                Holds(TreeIn(commits, head)[p], e) => Holds(TreeIn(commits, op.before)[p], e)

PushInv ==
    /\ Captured => Agrees(op.files, TreeIn(commits, op.before), pending, queued, authors,
                          touched, astray)
    /\ Captured /\ op.at \in {"backend", "reconcile", "import", "merge"}
         => ContentFollows(op.files, op.version)
    /\ op.at = "restore" /\ ~op.may => ContentFollows(op.files, op.version)
    /\ op.kind = "push" /\ op.at /= "done" /\ op.cfg => pending
    /\ op.kind = "push" /\ op.at \in {"backend", "undo", "reload"} => head = op.before
    /\ op.at \in {"reconcile", "import", "merge"} => PushedOK
    /\ Imported => ImportOK
    /\ op.at = "record" /\ ~op.cfg => ContentFollows(TreeIn(commits, head), op.mat)
    /\ (op.at = "restore" /\ op.may) \/ op.at = "undo"
         => ContentFollows(op.files, op.version) \/ ImportOK

\* The commit the answer speaks of.
AnswerInv ==
    /\ op.kind = "push" /\ op.at \in {"capture", "backend"} => answer.what = "none"
    /\ answer.what = "accepted"
         => answer.commit \in AncestorsIn(commits, head) /\ (op.kind = "push" => op.at = "done")
    /\ answer.what = "rejected"
         => /\ answer.commit \in DOMAIN commits \ AncestorsIn(commits, head)
            /\ op.kind = "push"
                 => \/ op.at = "done" \/ op.next \in {"commit", "resync"}
    /\ op.at \in {"import", "merge", "restore", "undo", "reload"} \/ Imported
         => answer.commit \in DOMAIN commits /\ answer.commit > op.before
    /\ op.at \in {"import", "merge"} \/ Imported => answer.commit = head
    /\ op.at = "reconcile" => answer.commit = head \/ head = op.before
    /\ op.at = "reconcile" /\ Moved => answer.commit > op.before

IInv == TypeInv /\ PhaseInv /\ HeadInv /\ StagedInv /\ PushInv /\ AnswerInv

-----------------------------------------------------------------------------
(* The algebra of following and agreeing.                                  *)

LEMMA FollowsSelf ==
    ASSUME NEW t, NEW v \in Nat, NEW pen, NEW que, NEW aut, NEW tou
    PROVE  Follows(t, t, v, v, pen, que, aut, tou)
BY DEF Follows, Credited, Traced

LEMMA AgreesSelf ==
    ASSUME NEW t, NEW pen, NEW que, NEW aut, NEW tou, NEW ast
    PROVE  Agrees(t, t, pen, que, aut, tou, ast)
BY DEF Agrees, Credited, Traced

LEMMA FollowsAgrees ==
    ASSUME NEW new, NEW old, NEW v \in Nat, NEW ver \in Nat, NEW pen \in BOOLEAN,
           NEW que \in BOOLEAN, NEW aut, NEW tou, NEW ast,
           Follows(new, old, v, ver, pen, que, aut, tou)
    PROVE  Agrees(new, old, pen, que, aut, tou, ast)
<1>1. ver = v \/ ver > v
  BY DEF Follows
<1> QED
  BY <1>1, Zenon DEF Follows, Agrees

LEMMA AgreesFollows ==
    ASSUME NEW new, NEW mid, NEW old, NEW v \in Nat, NEW ver \in Nat, NEW pen \in BOOLEAN,
           NEW que \in BOOLEAN, NEW aut, NEW tou, NEW ast,
           Follows(new, mid, v, ver, pen, que, aut, tou),
           Agrees(mid, old, pen, que, aut, tou, ast)
    PROVE  Agrees(new, old, pen, que, aut, tou, ast)
<1>1. ver = v \/ ver > v
  BY DEF Follows
<1>2. ASSUME "restored" \notin ast PROVE Credited(new, old, pen, que, aut)
  BY <1>2 DEF Follows, Agrees, Credited
<1>3. ASSUME "restored" \notin ast PROVE pen \/ new = old
  BY <1>1, <1>3, Zenon DEF Follows, Agrees
<1>4. ASSUME ast = {} PROVE Traced(new, old, tou)
  BY <1>4, Zenon DEF Follows, Agrees, Traced
<1> QED
  BY <1>2, <1>3, <1>4, Zenon DEF Agrees

-----------------------------------------------------------------------------
(* An edit in the browser.                                                 *)

\* The tree t1 is t with the paths S changed by the edit e.
Edited(t1, t, e, S) ==
    /\ \A q \in Paths : q \notin S => t1[q] = t[q]
    /\ \A f \in Atoms, q \in Paths : Holds(t1[q], f) => Holds(t[q], f) \/ f = e

LEMMA EditedByEdit ==
    ASSUME NEW e \in Edits, NEW p \in Paths, content \in Tree, Edit(e, p)
    PROVE  Edited(content', content, e, {p}) /\ content' \in Tree
<1>1. CASE content' = [content EXCEPT ![p] = Written(@, e, p)]
  <2>1. content' = [content EXCEPT ![p] = Written(content[p], e, p)]
    BY <1>1
  <2>2. Written(content[p], e, p) \in File
    BY DEF Tree, File, Written, Atoms
  <2>3. \A f \in Atoms : Holds(Written(content[p], e, p), f) => Holds(content[p], f) \/ f = e
    BY DEF Holds, Written
  <2> QED
    BY <2>1, <2>2, <2>3 DEF Edited, Tree
<1>2. CASE content' = [content EXCEPT ![p] = Absent]
  BY <1>2 DEF Edited, Tree, File, Holds
<1> QED
  BY <1>1, <1>2, Zenon DEF Edit

LEMMA EditedByMove ==
    ASSUME NEW e \in Edits, NEW p \in Paths, NEW q \in Paths, content \in Tree, Move(e, p, q)
    PROVE  Edited(content', content, e, {p, q}) /\ content' \in Tree
<1>1. content' = [content EXCEPT ![p] = Absent, ![q] = {e}]
  BY DEF Move
<1>2. {e} \in File /\ Absent \in File
  BY DEF File, Atoms
<1>3. content' \in Tree
  BY <1>1, <1>2 DEF Tree
<1>4. \A r \in Paths : content'[r] = content[r] \/ content'[r] = Absent \/ content'[r] = {e}
  BY <1>1 DEF Tree
<1>5. \A r \in Paths : r \notin {p, q} => content'[r] = content[r]
  BY <1>1 DEF Tree
<1> QED
  BY <1>3, <1>4, <1>5 DEF Edited, Holds

LEMMA EditFollows ==
    ASSUME NEW t1, NEW t, NEW old, NEW e \in Edits, NEW S, NEW v \in Nat,
           NEW ver \in Nat, NEW pen \in BOOLEAN, NEW que \in BOOLEAN, NEW aut, NEW tou,
           Edited(t1, t, e, S), Follows(t, old, v, ver, pen, que, aut, tou)
    PROVE  Follows(t1, old, v, ver + 1, TRUE, TRUE, aut \cup {e}, tou \cup S)
<1>1. ver + 1 > v /\ ver + 1 >= v /\ ver + 1 /= v
  BY DEF Follows
<1>2. Credited(t1, old, TRUE, TRUE, aut \cup {e})
  BY DEF Follows, Credited, Edited, Atoms
<1>3. Traced(t1, old, tou \cup S)
  BY DEF Follows, Traced, Edited
<1> QED
  BY <1>1, <1>2, <1>3 DEF Follows

LEMMA EditAgrees ==
    ASSUME NEW t1, NEW t, NEW old, NEW e \in Edits, NEW S,
           NEW pen \in BOOLEAN, NEW que \in BOOLEAN, NEW aut, NEW tou, NEW ast,
           Edited(t1, t, e, S), Agrees(t, old, pen, que, aut, tou, ast)
    PROVE  Agrees(t1, old, TRUE, TRUE, aut \cup {e}, tou \cup S, ast)
<1>1. ASSUME "restored" \notin ast PROVE Credited(t1, old, TRUE, TRUE, aut \cup {e})
  BY <1>1 DEF Agrees, Credited, Edited, Atoms
<1>2. ASSUME ast = {} PROVE Traced(t1, old, tou \cup S)
  BY <1>2 DEF Agrees, Traced, Edited
<1> QED
  BY <1>1, <1>2 DEF Agrees

\* More that is marked leaves two trees in agreement.
LEMMA MoreMarks ==
    ASSUME NEW new, NEW old, NEW e, NEW S, NEW pen \in BOOLEAN, NEW que \in BOOLEAN,
           NEW aut, NEW tou, NEW ast, Agrees(new, old, pen, que, aut, tou, ast)
    PROVE  Agrees(new, old, TRUE, TRUE, aut \cup {e}, tou \cup S, ast)
BY DEF Agrees, Credited, Traced

LEMMA MarkedAgrees ==
    ASSUME NEW new, NEW old, NEW pen \in BOOLEAN, NEW que \in BOOLEAN,
           NEW aut, NEW tou, NEW ast, Agrees(new, old, pen, que, aut, tou, ast)
    PROVE  /\ Agrees(new, old, TRUE, que, aut, tou, ast)
           /\ Agrees(new, old, pen, que /\ pen, aut, tou, ast)
           /\ Agrees(new, old, pen, que, aut, Paths, ast)
           /\ Agrees(new, old, pen, que, aut, tou, ast \cup {"restored"})
BY DEF Agrees, Credited, Traced

-----------------------------------------------------------------------------
(* The commits.                                                            *)

LEMMA TreeAtIn == \A n : TreeAt(n) = TreeIn(commits, n)
BY DEF TreeAt, TreeIn

LEMMA AncestorsAtIn == \A n : Ancestors(n) = AncestorsIn(commits, n)
BY DEF Ancestors, AncestorsIn, Closed, ClosedIn

LEMMA NoFilesType == NoFiles \in Tree
BY DEF NoFiles, Tree, File

LEMMA TreeType ==
    ASSUME NEW cs \in Seq(Commit), NEW n \in 0..Len(cs)
    PROVE  TreeIn(cs, n) \in Tree
<1>1. CASE n = 0
  BY <1>1, NoFilesType DEF TreeIn
<1>2. CASE n /= 0
  <2>1. cs[n] \in Commit
    BY <1>2
  <2> QED
    BY <1>2, <2>1 DEF TreeIn, Commit
<1> QED
  BY <1>1, <1>2

\* A new commit leaves the trees of the others.
LEMMA AppendTree ==
    ASSUME NEW cs \in Seq(Commit), NEW c \in Commit
    PROVE  /\ Append(cs, c) \in Seq(Commit)
           /\ Len(Append(cs, c)) = Len(cs) + 1
           /\ \A n \in 0..Len(cs) : TreeIn(Append(cs, c), n) = TreeIn(cs, n)
           /\ TreeIn(Append(cs, c), Len(cs) + 1) = c.tree
           /\ \A n \in DOMAIN cs : n \in DOMAIN Append(cs, c) /\ Append(cs, c)[n] = cs[n]
           /\ Append(cs, c)[Len(cs) + 1] = c
           /\ DOMAIN Append(cs, c) = DOMAIN cs \cup {Len(cs) + 1}
BY DEF TreeIn

LEMMA AppendParents ==
    ASSUME NEW cs \in Seq(Commit), NEW c \in Commit, c.parent < Len(cs) + 1,
           \A n \in DOMAIN cs : cs[n].parent < n
    PROVE  \A n \in DOMAIN Append(cs, c) : Append(cs, c)[n].parent < n
BY AppendTree

\* A commit is its own ancestor, and no commit is an ancestor of an older one.
LEMMA AncestorBounds ==
    ASSUME NEW cs \in Seq(Commit), NEW n \in DOMAIN cs, \A m \in DOMAIN cs : cs[m].parent < m
    PROVE  n \in AncestorsIn(cs, n) /\ \A k \in AncestorsIn(cs, n) : k <= n
<1>1. n \in AncestorsIn(cs, n)
  BY DEF AncestorsIn
<1>2. ASSUME NEW k \in AncestorsIn(cs, n) PROVE k <= n
  <2>1. 1..n \in SUBSET DOMAIN cs /\ n \in 1..n
    OBVIOUS
  <2>2. ASSUME NEW m \in 1..n PROVE cs[m].parent \in (1..n) \cup {0}
    <3>1. cs[m] \in Commit /\ cs[m].parent < m
      OBVIOUS
    <3> QED
      BY <3>1 DEF Commit
  <2>3. ClosedIn(cs, 1..n)
    BY <2>2 DEF ClosedIn
  <2> QED
    BY <2>1, <2>3 DEF AncestorsIn
<1> QED
  BY <1>1, <1>2

\* The ancestors of a new commit are itself and its parent's.
LEMMA AncestorsAppend ==
    ASSUME NEW cs \in Seq(Commit), NEW c \in Commit, NEW h \in 0..Len(cs), c.parent = h,
           \A m \in DOMAIN cs : cs[m].parent < m
    PROVE  AncestorsIn(Append(cs, c), Len(cs) + 1) = AncestorsIn(cs, h) \cup {Len(cs) + 1}
<1> DEFINE cs1 == Append(cs, c)
           new == Len(cs) + 1
<1>1. /\ cs1 \in Seq(Commit) /\ cs1[new] = c /\ new \in Nat \ {0}
      /\ DOMAIN cs1 = DOMAIN cs \cup {new} /\ new \notin DOMAIN cs
      /\ \A m \in DOMAIN cs : cs1[m] = cs[m]
  BY AppendTree
<1>2. new \in AncestorsIn(cs1, new)
  BY <1>1 DEF AncestorsIn
<1>3. ASSUME NEW k \in AncestorsIn(cs, h) PROVE k \in AncestorsIn(cs1, new)
  <2>1. h /= 0 /\ k \in DOMAIN cs
    BY DEF AncestorsIn
  <2>2. ASSUME NEW S \in SUBSET DOMAIN cs1, new \in S, ClosedIn(cs1, S) PROVE k \in S
    <3> DEFINE R == S \cap DOMAIN cs
    <3>1. h \in R
      BY <1>1, <2>1, <2>2 DEF ClosedIn
    <3>2. ASSUME NEW m \in R PROVE cs[m].parent \in R \cup {0}
      <4>1. cs[m].parent \in S \cup {0}
        BY <1>1, <2>2 DEF ClosedIn
      <4>2. cs[m].parent < m /\ cs[m].parent \in Nat
        <5>1. m \in DOMAIN cs /\ cs[m] \in Commit
          OBVIOUS
        <5> QED
          BY <5>1 DEF Commit
      <4>3. cs[m].parent = 0 \/ cs[m].parent \in DOMAIN cs
        BY <4>2
      <4> QED
        BY <4>1, <4>3
    <3>3. ClosedIn(cs, R) /\ R \in SUBSET DOMAIN cs
      BY <3>2 DEF ClosedIn
    <3>4. k \in R
      BY <3>1, <3>3 DEF AncestorsIn
    <3> QED
      BY <3>4
  <2> QED
    BY <1>1, <2>1, <2>2 DEF AncestorsIn
<1>4. ASSUME NEW k \in AncestorsIn(cs1, new), k /= new PROVE k \in AncestorsIn(cs, h)
  <2>1. k \in DOMAIN cs
    BY <1>1, <1>4 DEF AncestorsIn
  <2>2. h /= 0
    <3> SUFFICES ASSUME h = 0 PROVE FALSE
      OBVIOUS
    <3>1. ClosedIn(cs1, {new}) /\ {new} \in SUBSET DOMAIN cs1
      BY <1>1 DEF ClosedIn
    <3> QED
      BY <1>4, <3>1 DEF AncestorsIn
  <2>3. ASSUME NEW S \in SUBSET DOMAIN cs, h \in S, ClosedIn(cs, S) PROVE k \in S
    <3>1. ClosedIn(cs1, S \cup {new})
      BY <1>1, <2>3 DEF ClosedIn
    <3>2. S \cup {new} \in SUBSET DOMAIN cs1
      BY <1>1
    <3> QED
      BY <1>4, <3>1, <3>2 DEF AncestorsIn
  <2> QED
    BY <2>1, <2>2, <2>3 DEF AncestorsIn
<1> QED
  BY <1>2, <1>3, <1>4

-----------------------------------------------------------------------------
(* The operation record.                                                   *)

LEMMA IdleType == Idle \in Operation
BY NoFilesType DEF Idle, Operation, Ats

-----------------------------------------------------------------------------
(* Each action preserves the invariant.                                    *)

LEMMA LoadRepositoryStep ==
    ASSUME IInv, LoadRepository
    PROVE  IInv'
<1> USE DEF IInv
<1>1. PICK a \in {"snapshot", "queue"} : op' = [op EXCEPT !.at = a, !.next = "commit"]
  BY DEF LoadRepository
<1>2. op \in Operation /\ a \in Ats
  BY DEF TypeInv, Ats
<1>3. /\ op' \in Operation /\ op'.at = a /\ op'.kind = op.kind /\ op'.cfg = op.cfg
      /\ op'.before = op.before /\ op'.next = "commit"
  BY <1>1, <1>2 DEF Operation
<1>4. UNCHANGED <<content, version, pending, queued, authors, touched, commits, head, worktree,
                  clone, answer, astray>>
  BY DEF LoadRepository, project, repository
<1>5. op.at = "config" /\ op.kind /= "push"
  BY DEF LoadRepository, Working, PhaseInv
<1>6. TypeInv'
  BY <1>3, <1>4 DEF TypeInv
<1>7. PhaseInv'
  BY <1>3, <1>5 DEF PhaseInv
<1>8. HeadInv'
  BY <1>3, <1>4, <1>5 DEF HeadInv, Suspended, ContentAgrees
<1>9. StagedInv'
  BY <1>3, <1>5 DEF StagedInv
<1>10. PushInv'
  BY <1>3, <1>5 DEF PushInv, Captured, Imported
<1>11. AnswerInv'
  BY <1>3, <1>4, <1>5 DEF AnswerInv, Imported
<1> QED
  BY <1>6, <1>7, <1>8, <1>9, <1>10, <1>11

LEMMA SnapshotStep ==
    ASSUME IInv, Snapshot
    PROVE  IInv'
<1> USE DEF IInv
<1>1. op \in Operation /\ version \in Nat /\ content \in Tree
  BY DEF TypeInv
<1>2. op.at = "snapshot" /\ op' = [op EXCEPT !.at = "replace", !.mat = version, !.staged = content]
  BY DEF Snapshot, Working
<1>3. /\ op' \in Operation /\ op'.at = "replace" /\ op'.kind = op.kind /\ op'.cfg = op.cfg
      /\ op'.before = op.before /\ op'.files = op.files /\ op'.version = op.version
      /\ op'.staged = content /\ op'.mat = version /\ op'.may = op.may /\ op'.next = op.next
  BY <1>1, <1>2 DEF Operation, Ats
<1>4. UNCHANGED <<content, version, pending, queued, authors, touched, commits, head, worktree,
                  clone, answer, astray>>
  BY DEF Snapshot, project, repository
<1>6. TypeInv'
  BY <1>3, <1>4 DEF TypeInv
<1>7. PhaseInv'
  BY <1>2, <1>3 DEF PhaseInv
<1>8. HeadInv'
  BY <1>2, <1>3, <1>4 DEF HeadInv, Suspended, ContentAgrees
<1>9. StagedInv'
  BY <1>1, <1>2, <1>3, <1>4, FollowsSelf DEF StagedInv, ContentFollows
<1>10. PushInv'
  BY <1>2, <1>3, <1>4 DEF PushInv, Captured, Imported, ImportOK
<1>11. AnswerInv'
  BY <1>2, <1>3, <1>4 DEF AnswerInv, Imported
<1> QED
  BY <1>6, <1>7, <1>8, <1>9, <1>10, <1>11

LEMMA ReplaceWorktreeStep ==
    ASSUME IInv, ReplaceWorktree
    PROVE  IInv'
<1> USE DEF IInv
<1>1. op \in Operation /\ op.next \in Ats
  BY DEF TypeInv, PhaseInv, ReplaceWorktree, Working, Operation, Ats
<1>2. op.at = "replace" /\ op' = [op EXCEPT !.at = op.next]
  BY DEF ReplaceWorktree, Working, Goto
<1>3. /\ op' \in Operation /\ op'.at = op.next /\ op'.kind = op.kind /\ op'.cfg = op.cfg
      /\ op'.before = op.before /\ op'.files = op.files /\ op'.version = op.version
      /\ op'.staged = op.staged /\ op'.mat = op.mat /\ op'.may = op.may /\ op'.next = op.next
  BY <1>1, <1>2 DEF Operation
<1>4. UNCHANGED <<content, version, pending, queued, authors, touched, commits, head,
                  clone, answer, astray>>
  BY DEF ReplaceWorktree, project
<1>5. worktree' = op.staged /\ op.next \in {"commit", "record", "resync"}
  BY <1>1, <1>2 DEF ReplaceWorktree, PhaseInv, Operation
<1>6. TypeInv'
  BY <1>1, <1>3, <1>4, <1>5 DEF TypeInv, Operation
<1>7. PhaseInv'
  BY <1>2, <1>3, <1>5 DEF PhaseInv
<1>8. HeadInv'
  BY <1>2, <1>3, <1>4, <1>5 DEF HeadInv, Suspended, ContentAgrees
<1>9. StagedInv'
  BY <1>2, <1>3, <1>4, <1>5 DEF StagedInv, ContentFollows
<1>10. PushInv'
  BY <1>2, <1>3, <1>4, <1>5 DEF PushInv, Captured, Imported, ImportOK, StagedInv
<1>11. AnswerInv'
  BY <1>2, <1>3, <1>4, <1>5 DEF AnswerInv, Imported
<1> QED
  BY <1>6, <1>7, <1>8, <1>9, <1>10, <1>11

LEMMA CommitStagedStep ==
    ASSUME IInv, CommitStaged
    PROVE  IInv'
<1> USE DEF IInv
<1>1. op \in Operation /\ version \in Nat /\ op.mat \in Nat /\ pending \in BOOLEAN
        /\ queued \in BOOLEAN
  BY DEF TypeInv, Operation
<1>2. op.at = "commit" /\ op' = [op EXCEPT !.at = "complete"]
  BY DEF CommitStaged, Working, Goto
<1>3. /\ op' \in Operation /\ op'.at = "complete" /\ op'.kind = op.kind /\ op'.cfg = op.cfg
      /\ op'.before = op.before /\ op'.files = op.files /\ op'.version = op.version
      /\ op'.staged = op.staged /\ op'.mat = op.mat /\ op'.may = op.may /\ op'.next = op.next
  BY <1>1, <1>2 DEF Operation, Ats
<1>4. UNCHANGED <<content, version, pending, queued, authors, touched, worktree,
                  clone, answer, astray>>
  BY DEF CommitStaged, project
<1>5. op.next = "commit" /\ worktree = op.staged
  BY <1>2 DEF PhaseInv, StagedInv
<1>6. /\ commits' \in Seq(Commit) /\ Len(commits') >= Len(commits)
      /\ \A n \in DOMAIN commits' : commits'[n].parent < n
      /\ head' \in 0..Len(commits')
      /\ \A n \in 0..Len(commits) : TreeIn(commits', n) = TreeIn(commits, n)
      /\ TreeIn(commits', head') = op.staged
      /\ \A k \in DOMAIN commits : k \in DOMAIN commits'
             /\ (k \in AncestorsIn(commits', head') <=> k \in AncestorsIn(commits, head))
  <2>1. CASE UNCHANGED <<commits, head>> /\ WorktreeIsClean
    <3>1. TreeIn(commits, head) = op.staged
      BY <2>1, <1>5, TreeAtIn DEF WorktreeIsClean
    <3>2. commits \in Seq(Commit) /\ Len(commits) \in Nat /\ head \in 0..Len(commits)
            /\ \A n \in DOMAIN commits : commits[n].parent < n
      BY DEF TypeInv
    <3> QED
      BY <2>1, <3>1, <3>2
  <2>2. CASE NewCommit(head, worktree, CommitAuthors)
    <3> DEFINE c == [parent |-> head, tree |-> worktree, authors |-> authors]
    <3>1. c \in Commit /\ c.parent = head /\ c.tree = worktree /\ head < Len(commits) + 1
            /\ commits \in Seq(Commit) /\ head \in 0..Len(commits)
            /\ \A n \in DOMAIN commits : commits[n].parent < n
      BY DEF TypeInv, Commit
    <3>2. commits' = Append(commits, c) /\ head' = Len(commits) + 1
      BY <2>2 DEF NewCommit, CommitAuthors
    <3> HIDE DEF c
    <3>3. \A n \in DOMAIN commits' : commits'[n].parent < n
      BY <3>1, <3>2, AppendParents
    <3>4. /\ commits' \in Seq(Commit) /\ Len(commits') = Len(commits) + 1
          /\ \A n \in 0..Len(commits) : TreeIn(commits', n) = TreeIn(commits, n)
          /\ TreeIn(commits', head') = op.staged
          /\ \A n \in DOMAIN commits : n \in DOMAIN commits'
      BY <3>1, <3>2, <1>5, AppendTree
    <3>5. AncestorsIn(commits', head') = AncestorsIn(commits, head) \cup {Len(commits) + 1}
      BY <3>1, <3>2, AncestorsAppend
    <3>6. \A k \in DOMAIN commits : k /= Len(commits) + 1
      BY <3>1
    <3>7. Len(commits) \in Nat
      BY <3>1
    <3> QED
      BY <3>2, <3>3, <3>4, <3>5, <3>6, <3>7
  <2> QED
    BY <2>1, <2>2 DEF CommitStaged
<1>7. TypeInv'
  BY <1>3, <1>4, <1>6 DEF TypeInv
<1>8. PhaseInv'
  BY <1>2, <1>3, <1>5 DEF PhaseInv
<1>9. ContentFollows(op.staged, op.mat)
  BY <1>2 DEF StagedInv
<1>10. HeadInv'
  BY <1>1, <1>3, <1>4, <1>6, <1>9, FollowsAgrees DEF HeadInv, Suspended, ContentAgrees, ContentFollows
<1>11. StagedInv'
  BY <1>2, <1>3, <1>4, <1>5, <1>6, <1>9 DEF StagedInv, ContentFollows
<1>12. op.before \in 0..Len(commits)
  BY DEF TypeInv
<1>13. PushInv'
  BY <1>2, <1>3, <1>4, <1>5, <1>6, <1>12 DEF PushInv, Captured, Imported
<1>14. AnswerInv'
  BY <1>2, <1>3, <1>4, <1>5, <1>6 DEF AnswerInv, Imported, AncestorsIn
<1> QED
  BY <1>7, <1>8, <1>10, <1>11, <1>13, <1>14

LEMMA CompleteStep ==
    ASSUME IInv, Complete
    PROVE  IInv'
<1> USE DEF IInv
<1>1. op \in Operation /\ version \in Nat /\ op.mat \in Nat /\ pending \in BOOLEAN
        /\ queued \in BOOLEAN
  BY DEF TypeInv, Operation
<1>2. PICK a \in {"backend", "done"} : op' = [op EXCEPT !.at = a] /\ (a = "backend" => op.kind = "fetch")
  BY DEF Complete, Goto, AfterFlush
<1>3. /\ op' \in Operation /\ op'.at = a /\ op'.kind = op.kind /\ op'.cfg = op.cfg
      /\ op'.before = op.before /\ op'.next = op.next
  BY <1>1, <1>2 DEF Operation, Ats
<1>4. UNCHANGED <<content, version, commits, head, worktree, clone, answer>>
  BY DEF Complete, repository
<1>5. op.at = "complete" /\ op.next = "commit" /\ op.kind /= "idle"
        /\ TreeIn(commits, head) = op.staged /\ ContentFollows(op.staged, op.mat)
  BY DEF Complete, Working, Locked, PhaseInv, StagedInv
<1>6. TypeInv'
  BY <1>3, <1>4 DEF TypeInv, Complete, Synced
<1>7. PhaseInv'
  BY <1>2, <1>3, <1>5 DEF PhaseInv
<1>8. HeadInv'
  <2>1. CASE op.mat = version
    <3>1. content = TreeIn(commits, head)
      BY <1>5, <2>1 DEF ContentFollows, Follows
    <3> QED
      BY <3>1, <1>4, AgreesSelf DEF HeadInv, ContentAgrees
  <2>2. CASE op.mat /= version
    BY <2>2, <1>3, <1>4, <1>5 DEF Complete, HeadInv, ContentAgrees, Suspended
  <2> QED
    BY <2>1, <2>2
<1>9. StagedInv'
  BY <1>2, <1>3, <1>5 DEF StagedInv
<1>10. PushInv'
  BY <1>2, <1>3, <1>5 DEF PushInv, Captured, Imported
<1>11. AnswerInv'
  BY <1>2, <1>3, <1>4, <1>5 DEF AnswerInv, Imported
<1> QED
  BY <1>6, <1>7, <1>8, <1>9, <1>10, <1>11

LEMMA ClearQueueIfCleanStep ==
    ASSUME IInv, ClearQueueIfClean
    PROVE  IInv'
<1> USE DEF IInv
<1>1. op \in Operation /\ pending \in BOOLEAN /\ queued \in BOOLEAN
  BY DEF TypeInv
<1>2. PICK a \in {"backend", "done"} : op' = [op EXCEPT !.at = a]
  BY DEF ClearQueueIfClean, Goto, AfterFlush
<1>3. /\ op' \in Operation /\ op'.at = a /\ op'.kind = op.kind /\ op'.cfg = op.cfg
      /\ op'.before = op.before /\ op'.next = op.next
  BY <1>1, <1>2 DEF Operation, Ats
<1>4. UNCHANGED <<content, version, pending, authors, touched, commits, head, worktree, clone,
                  answer, astray>>
  BY DEF ClearQueueIfClean, repository
<1>5. op.at = "queue" /\ op.kind /= "push" /\ op.kind /= "idle" /\ queued' = (queued /\ pending)
  BY DEF ClearQueueIfClean, Working, Locked, PhaseInv
<1>6. TypeInv'
  BY <1>3, <1>4, <1>5 DEF TypeInv
<1>7. PhaseInv'
  BY <1>2, <1>3, <1>5 DEF PhaseInv
<1>8. HeadInv'
  <2>1. ContentAgrees(head)
    BY <1>5 DEF HeadInv, Suspended
  <2>2. Agrees(content, TreeIn(commits, head), pending, queued /\ pending, authors, touched, astray)
    BY <1>1, <2>1, MarkedAgrees, Zenon DEF ContentAgrees
  <2> QED
    BY <1>4, <1>5, <2>2, Zenon DEF HeadInv, ContentAgrees
<1>9. StagedInv'
  BY <1>2, <1>3, <1>5 DEF StagedInv
<1>10. PushInv'
  BY <1>2, <1>3, <1>5 DEF PushInv, Captured, Imported, PhaseInv
<1>11. AnswerInv'
  BY <1>2, <1>3, <1>4, <1>5 DEF AnswerInv, Imported
<1> QED
  BY <1>6, <1>7, <1>8, <1>9, <1>10, <1>11

LEMMA UploadPackStep ==
    ASSUME IInv, UploadPack
    PROVE  IInv'
<1> USE DEF IInv
<1>1. op \in Operation
  BY DEF TypeInv
<1>2. op' = [op EXCEPT !.at = "done"] /\ clone' = head
  BY DEF UploadPack, Goto
<1>3. /\ op' \in Operation /\ op'.at = "done" /\ op'.kind = op.kind /\ op'.cfg = op.cfg
      /\ op'.before = op.before /\ op'.next = op.next
  BY <1>1, <1>2 DEF Operation, Ats
<1>4. UNCHANGED <<content, version, pending, queued, authors, touched, commits, head, worktree,
                  answer, astray>>
  BY DEF UploadPack, project, repository
<1>5. op.at = "backend" /\ op.kind = "fetch"
  BY DEF UploadPack, Working
<1>6. TypeInv'
  BY <1>2, <1>3, <1>4 DEF TypeInv
<1>7. PhaseInv'
  BY <1>3, <1>5 DEF PhaseInv
<1>8. HeadInv'
  BY <1>3, <1>4, <1>5 DEF HeadInv, Suspended, ContentAgrees
<1>9. StagedInv'
  BY <1>3, <1>5 DEF StagedInv
<1>10. PushInv'
  BY <1>3, <1>5 DEF PushInv, Captured, Imported
<1>11. AnswerInv'
  BY <1>3, <1>4, <1>5 DEF AnswerInv, Imported
<1> QED
  BY <1>6, <1>7, <1>8, <1>9, <1>10, <1>11

LEMMA CaptureSessionStep ==
    ASSUME IInv, CaptureSession
    PROVE  IInv'
<1> USE DEF IInv
<1>1. op \in Operation /\ version \in Nat /\ content \in Tree /\ head \in 0..Len(commits)
        /\ head \in Nat
  BY DEF TypeInv
<1>2. op.at = "capture" /\ op' = [op EXCEPT !.at = "backend", !.before = head,
                                              !.files = content, !.version = version]
  BY DEF CaptureSession, Working
<1>3. /\ op' \in Operation /\ op'.at = "backend" /\ op'.kind = op.kind /\ op'.cfg = op.cfg
      /\ op'.before = head /\ op'.files = content /\ op'.version = version
      /\ op'.next = op.next
  BY <1>1, <1>2 DEF Operation, Ats
<1>4. UNCHANGED <<content, version, pending, queued, authors, touched, commits, head, worktree,
                  clone, answer, astray>>
  BY DEF CaptureSession, project, repository
<1>5. op.kind = "push" /\ op.next = "none"
  BY <1>2 DEF PhaseInv
<1>6. TypeInv'
  BY <1>1, <1>3, <1>4 DEF TypeInv
<1>7. PhaseInv'
  BY <1>2, <1>3, <1>5 DEF PhaseInv
<1>8. ContentAgrees(head)
  BY <1>2 DEF HeadInv, Suspended
<1>9. HeadInv'
  BY <1>4, <1>8 DEF HeadInv, ContentAgrees
<1>10. StagedInv'
  BY <1>3, <1>5 DEF StagedInv
<1>11. PushInv'
  BY <1>1, <1>2, <1>3, <1>4, <1>5, <1>8, FollowsSelf
  DEF PushInv, Captured, Imported, ContentAgrees, ContentFollows
<1>12. AnswerInv'
  BY <1>2, <1>3, <1>4, <1>5 DEF AnswerInv, Imported
<1> QED
  BY <1>6, <1>7, <1>9, <1>10, <1>11, <1>12

\* A pushed tree holds no edit that the clone's did not.
LEMMA PushedEdits ==
    ASSUME NEW c \in Pushes, NEW p \in Paths, NEW t \in PushedTrees(c, p),
           TreeIn(commits, clone) \in Tree
    PROVE  /\ t \in Tree
           /\ \A e \in Edits, q \in Paths : Holds(t[q], e) => Holds(TreeIn(commits, clone)[q], e)
           /\ \A d \in Pushes, q \in Paths :
                Holds(t[q], d) => Holds(TreeIn(commits, clone)[q], d) \/ d = c
<1> DEFINE b == TreeIn(commits, clone)
<1>1. b \in Tree /\ b = TreeAt(clone)
  BY TreeAtIn
<1> HIDE DEF b
<1>2. Written(b[p], c, p) \in File
  BY <1>1 DEF Tree, File, Written, Atoms
<1>3. /\ \A e \in Edits : Holds(Written(b[p], c, p), e) => Holds(b[p], e)
      /\ \A d \in Pushes : Holds(Written(b[p], c, p), d) => Holds(b[p], d) \/ d = c
  BY AtomsAssumption DEF Holds, Written
<1>4. t = [b EXCEPT ![p] = Written(b[p], c, p)] \/ t = [b EXCEPT ![p] = Absent]
  BY <1>1 DEF PushedTrees
<1>5. CASE t = [b EXCEPT ![p] = Written(b[p], c, p)]
  BY <1>1, <1>2, <1>3, <1>5 DEF Tree, b
<1>6. CASE t = [b EXCEPT ![p] = Absent]
  BY <1>1, <1>6 DEF Tree, File, Holds, b
<1> QED
  BY <1>4, <1>5, <1>6

LEMMA ReceivePackStep ==
    ASSUME IInv, NEW c \in Pushes, NEW p \in Paths, ReceivePack(c, p)
    PROVE  IInv'
<1> USE DEF IInv
<1>1. op \in Operation /\ commits \in Seq(Commit) /\ Len(commits) \in Nat
        /\ head \in 0..Len(commits) /\ clone \in 0..Len(commits)
        /\ \A n \in DOMAIN commits : commits[n].parent < n
  BY DEF TypeInv
<1>2. op.at = "backend" /\ op.kind = "push" /\ head = op.before /\ op.next = "none"
  BY DEF ReceivePack, Working, PhaseInv, PushInv
<1>3. PICK a \in {"reconcile", "restore"}, b \in BOOLEAN :
        /\ op' = [op EXCEPT !.at = a, !.may = b]
        /\ a = "restore" => ~b
        /\ \/ /\ clone = head
              /\ \E tree \in PushedTrees(c, p) : NewCommit(clone, tree, {}) /\ worktree' = tree
           \/ a = "reconcile" /\ UNCHANGED repository
  <2>1. CASE op' = [op EXCEPT !.at = "restore", !.may = FALSE] /\ clone = head
               /\ \E tree \in PushedTrees(c, p) : NewCommit(clone, tree, {}) /\ worktree' = tree
    BY <2>1
  <2>2. CASE op' = [op EXCEPT !.at = "reconcile"]
    <3>1. op' = [op EXCEPT !.at = "reconcile", !.may = op.may] /\ op.may \in BOOLEAN
      BY <1>1, <2>2 DEF Operation
    <3> QED
      BY <3>1 DEF ReceivePack
  <2> QED
    BY <2>1, <2>2 DEF ReceivePack, Goto
<1>4. /\ op' \in Operation /\ op'.at = a /\ op'.kind = "push" /\ op'.cfg = op.cfg
      /\ op'.before = op.before /\ op'.files = op.files /\ op'.version = op.version
      /\ op'.may = b /\ op'.next = "none"
  BY <1>1, <1>2, <1>3 DEF Operation, Ats
<1>5. UNCHANGED <<content, version, pending, queued, authors, touched, clone, astray>>
  BY DEF ReceivePack, project
<1>6. /\ answer'.what = "none" /\ answer'.commit = Len(commits) + 1
      /\ answer' \in [what : {"none", "accepted", "refused", "rejected", "failed"},
                      commit : Nat, kept : BOOLEAN]
  <2>1. answer' = [NoAnswer EXCEPT !.commit = Len(commits) + 1]
    BY DEF ReceivePack
  <2>2. answer' = [what |-> "none", commit |-> Len(commits) + 1, kept |-> FALSE]
    BY <2>1 DEF NoAnswer
  <2> QED
    BY <1>1, <2>2
<1>7. /\ commits' \in Seq(Commit) /\ Len(commits') \in Nat /\ Len(commits) <= Len(commits')
      /\ \A n \in DOMAIN commits' : commits'[n].parent < n
      /\ worktree' \in Tree
      /\ \A n \in 0..Len(commits) : TreeIn(commits', n) = TreeIn(commits, n)
      /\ \A e \in Edits, q \in Paths :
           Holds(TreeIn(commits', head')[q], e) => Holds(TreeIn(commits, head)[q], e)
      /\ \/ head' = Len(commits) + 1 /\ Len(commits') = Len(commits) + 1
         \/ head' = head /\ a = "reconcile"
  <2>1. CASE UNCHANGED repository /\ a = "reconcile"
    BY <1>1, <2>1 DEF TypeInv, repository
  <2>2. ASSUME clone = head, NEW tree \in PushedTrees(c, p), NewCommit(clone, tree, {}),
               worktree' = tree
        PROVE  <1>7!:
    <3> DEFINE r == [parent |-> clone, tree |-> tree, authors |-> {}]
    <3>1. /\ tree \in Tree
          /\ \A e \in Edits, q \in Paths : Holds(tree[q], e) => Holds(TreeIn(commits, clone)[q], e)
      BY <1>1, PushedEdits, TreeType
    <3>2. r \in Commit /\ r.parent = clone /\ r.tree = tree /\ clone < Len(commits) + 1
      BY <1>1, <3>1 DEF Commit
    <3>3. commits' = Append(commits, r) /\ head' = Len(commits) + 1
      BY <2>2 DEF NewCommit
    <3> HIDE DEF r
    <3>4. \A n \in DOMAIN commits' : commits'[n].parent < n
      BY <1>1, <3>2, <3>3, AppendParents
    <3>5. /\ commits' \in Seq(Commit) /\ Len(commits') = Len(commits) + 1
          /\ \A n \in 0..Len(commits) : TreeIn(commits', n) = TreeIn(commits, n)
          /\ TreeIn(commits', head') = tree
      BY <1>1, <3>2, <3>3, AppendTree
    <3> QED
      BY <1>1, <2>2, <3>1, <3>3, <3>4, <3>5
  <2> QED
    BY <1>3, <2>1, <2>2
<1>8. TypeInv'
  BY <1>1, <1>2, <1>4, <1>5, <1>6, <1>7 DEF TypeInv
<1>9. PhaseInv'
  BY <1>4 DEF PhaseInv
<1>10. HeadInv'
  BY <1>4 DEF HeadInv, Suspended
<1>11. StagedInv'
  BY <1>4 DEF StagedInv
<1>12. ContentFollows(op.files, op.version)
         /\ Agrees(op.files, TreeIn(commits, op.before), pending, queued, authors, touched, astray)
  BY <1>2 DEF PushInv, Captured
<1>13. (op.cfg => pending) /\ TreeIn(commits', op.before) = TreeIn(commits, op.before)
         /\ PushedOK'
  BY <1>1, <1>2, <1>4, <1>7 DEF PushInv, PushedOK
<1>14. PushInv'
  BY <1>2, <1>3, <1>4, <1>5, <1>12, <1>13 DEF PushInv, Captured, Imported, ContentFollows
<1>15. AnswerInv'
  BY <1>1, <1>2, <1>4, <1>6, <1>7 DEF AnswerInv, Imported, Moved
<1> QED
  BY <1>8, <1>9, <1>10, <1>11, <1>14, <1>15

LEMMA ReconcileStep ==
    ASSUME IInv, Reconcile
    PROVE  IInv'
<1> USE DEF IInv
<1>1. op \in Operation /\ commits \in Seq(Commit) /\ head \in 0..Len(commits)
        /\ version \in Nat /\ op.version \in Nat /\ pending \in BOOLEAN /\ queued \in BOOLEAN
        /\ op.before \in 0..Len(commits) /\ Len(commits) \in Nat
  BY DEF TypeInv, Operation
<1>2. op.at = "reconcile" /\ op.kind = "push" /\ op.next = "none"
  BY DEF Reconcile, Working, PhaseInv
<1>3. PICK a \in {"done", "restore", "merge", "import"}, b \in BOOLEAN :
        /\ op' = [op EXCEPT !.at = a, !.may = b]
        /\ a = "restore" => ~b
        /\ a = "done" <=> ~Moved
        /\ a = "merge" => op.cfg
        /\ a = "import" => ~op.cfg
  <2>1. op.may \in BOOLEAN /\ \A x \in {"done", "merge", "import"} :
                                Goto(x) = [op EXCEPT !.at = x, !.may = op.may]
    BY <1>1 DEF Operation, Goto
  <2>2. CASE ~Moved
    BY <2>1, <2>2 DEF Reconcile
  <2>3. CASE Moved /\ ~ValidDefaultRefUpdate
    <3>1. op' = [op EXCEPT !.at = "restore", !.may = FALSE]
      BY <2>3 DEF Reconcile
    <3> QED
      BY <2>3, <3>1
  <2>4. CASE Moved /\ ValidDefaultRefUpdate
    <3>1. op' = Goto(IF op.cfg THEN "merge" ELSE "import")
      BY <2>4 DEF Reconcile
    <3> QED
      BY <2>1, <2>4, <3>1
  <2> QED
    BY <2>2, <2>3, <2>4
<1>4. /\ op' \in Operation /\ op'.at = a /\ op'.kind = "push" /\ op'.cfg = op.cfg
      /\ op'.before = op.before /\ op'.files = op.files /\ op'.version = op.version
      /\ op'.may = b /\ op'.next = "none"
  BY <1>1, <1>2, <1>3 DEF Operation, Ats
<1>5. UNCHANGED <<content, version, pending, queued, authors, touched, commits, head, worktree,
                  clone, astray>>
  BY DEF Reconcile, project, repository
<1>6. /\ Moved => answer' = answer
      /\ ~Moved => answer'.what = "refused"
      /\ answer'.commit = answer.commit
      /\ answer' \in [what : {"none", "accepted", "refused", "rejected", "failed"},
                      commit : Nat, kept : BOOLEAN]
  BY DEF Reconcile, TypeInv
<1>7. TypeInv'
  BY <1>4, <1>5, <1>6 DEF TypeInv
<1>8. PhaseInv'
  BY <1>3, <1>4 DEF PhaseInv
<1>9. ContentFollows(op.files, op.version)
        /\ Agrees(op.files, TreeIn(commits, op.before), pending, queued, authors, touched, astray)
        /\ (op.cfg => pending) /\ PushedOK
  BY <1>2 DEF PushInv, Captured
<1>10. HeadInv'
  <2>1. CASE Moved
    BY <1>3, <1>4, <2>1 DEF HeadInv, Suspended
  <2>2. CASE ~Moved
    <3>1. head = op.before
      BY <2>2 DEF Moved
    <3>2. ContentAgrees(head)
      BY <1>1, <1>9, <3>1, AgreesFollows DEF ContentAgrees, ContentFollows
    <3> QED
      BY <1>5, <3>2 DEF HeadInv, ContentAgrees
  <2> QED
    BY <2>1, <2>2
<1>11. StagedInv'
  BY <1>4 DEF StagedInv
<1>12. PushInv'
  BY <1>3, <1>4, <1>5, <1>9 DEF PushInv, Captured, Imported, ContentFollows, PushedOK
<1>13. AnswerInv'
  <2>1. answer.what \notin {"accepted", "rejected"}
    BY <1>2 DEF AnswerInv
  <2>2. CASE Moved
    <3>1. answer.commit = head /\ head > op.before /\ head \in DOMAIN commits
      BY <1>1, <1>2, <2>2 DEF AnswerInv, Moved
    <3> QED
      BY <1>3, <1>4, <1>5, <1>6, <2>1, <2>2, <3>1 DEF AnswerInv, Imported
  <2>3. CASE ~Moved
    BY <1>3, <1>4, <1>5, <1>6, <2>1, <2>3 DEF AnswerInv, Imported
  <2> QED
    BY <2>2, <2>3
<1> QED
  BY <1>7, <1>8, <1>10, <1>11, <1>12, <1>13

\* What a merge without a conflict holds of the three trees.
LEMMA MergedEdits ==
    ASSUME NEW base \in Tree, NEW pushed \in Tree, NEW online \in Tree,
           NEW m \in MergeOnlineOverPushed(base, pushed, online),
           \A p \in Paths : m[p] /= Conflict
    PROVE  /\ m \in Tree
           /\ \A e \in Atoms, p \in Paths :
                Holds(m[p], e) => Holds(pushed[p], e) \/ (Holds(online[p], e) /\ ~Holds(base[p], e))
<1>1. ASSUME NEW p \in Paths
      PROVE  /\ m[p] \in File
             /\ \A e \in Atoms : Holds(m[p], e)
                  => Holds(pushed[p], e) \/ (Holds(online[p], e) /\ ~Holds(base[p], e))
  <2>1. m[p] \in MergeOutcomes(p, base[p], pushed[p], online[p]) /\ m[p] /= Conflict
    BY DEF MergeOnlineOverPushed
  <2>2. base[p] \in File /\ pushed[p] \in File /\ online[p] \in File
    BY DEF Tree
  <2>3. CASE m[p] = pushed[p] \/ (pushed[p] = base[p] /\ m[p] = online[p])
    BY <2>2, <2>3
  <2>4. CASE /\ Absent \notin {base[p], pushed[p], online[p]}
             /\ m[p] = MergedText(base[p], pushed[p], online[p])
    BY <2>2, <2>4 DEF MergedText, Holds, File
  <2> QED
    BY <2>1, <2>3, <2>4 DEF MergeOutcomes
<1>2. m \in [Paths -> UNION {MergeOutcomes(p, base[p], pushed[p], online[p]) : p \in Paths}]
  BY DEF MergeOnlineOverPushed
<1>3. m = [p \in Paths |-> m[p]]
  BY <1>2
<1> QED
  BY <1>1, <1>3 DEF Tree

\* A push that is refused before its import.
LEMMA RejectStep ==
    ASSUME IInv, NEW b \in BOOLEAN, op.at \in {"import", "merge"},
           UNCHANGED <<project, commits, head, worktree, clone, answer, astray>>,
           op' = [op EXCEPT !.at = "restore", !.may = b]
    PROVE  IInv'
<1> USE DEF IInv
<1>1. op \in Operation /\ op.kind = "push" /\ op.next = "none"
  BY DEF TypeInv, PhaseInv
<1>2. ContentFollows(op.files, op.version)
        /\ Agrees(op.files, TreeIn(commits, op.before), pending, queued, authors, touched, astray)
        /\ (op.cfg => pending)
  BY <1>1 DEF PushInv, Captured
<1>3. answer.what \notin {"accepted", "rejected"} /\ answer.commit = head
        /\ answer.commit \in DOMAIN commits /\ answer.commit > op.before
  BY <1>1 DEF AnswerInv
<1>4. /\ op' \in Operation /\ op'.at = "restore" /\ op'.kind = "push" /\ op'.cfg = op.cfg
      /\ op'.before = op.before /\ op'.files = op.files /\ op'.version = op.version
      /\ op'.may = b /\ op'.next = "none"
  BY <1>1 DEF Operation, Ats
<1>5. UNCHANGED <<content, version, pending, queued, authors, touched>>
  BY DEF project
<1>6. TypeInv'
  BY <1>4, <1>5 DEF TypeInv
<1>7. PhaseInv'
  BY <1>4 DEF PhaseInv
<1>8. HeadInv' /\ StagedInv'
  BY <1>4 DEF HeadInv, Suspended, StagedInv
<1>9. PushInv'
  BY <1>2, <1>4, <1>5 DEF PushInv, Captured, Imported, ContentFollows
<1>10. AnswerInv'
  BY <1>3, <1>4 DEF AnswerInv, Imported
<1> QED
  BY <1>6, <1>7, <1>8, <1>9, <1>10

\* The outcomes of an import or a merge of `tree'.
LEMMA ImportStep ==
    ASSUME IInv, NEW tree \in Tree, NEW a \in {"record", "snapshot"}, NEW b \in BOOLEAN,
           op.at = IF a = "record" THEN "import" ELSE "merge",
           UNCHANGED <<commits, head, worktree, clone, answer, astray>>,
           a = "record" => tree = TreeIn(commits, head),
           "restored" \notin astray
             => /\ Credited(tree, TreeIn(commits, op.before), pending, queued, authors)
                /\ Credited(tree, TreeIn(commits, head), pending, queued, authors),
           \/ UNCHANGED project /\ op' = [op EXCEPT !.at = "restore", !.may = b]
           \/ /\ ReplaceContent(tree) /\ op.version = version
              /\ op' = [op EXCEPT !.at = a, !.mat = version + 1, !.next = "record"]
           \/ /\ ReplaceContent(tree) /\ op.version = version
              /\ op' = [op EXCEPT !.at = "restore", !.may = TRUE]
    PROVE  IInv'
<1> USE DEF IInv
<1>1. op \in Operation /\ version \in Nat /\ op.version \in Nat
        /\ pending \in BOOLEAN /\ queued \in BOOLEAN
        /\ op.before \in 0..Len(commits) /\ head \in 0..Len(commits)
  BY DEF TypeInv, Operation
<1>2. op.at \in {"import", "merge"} /\ op.kind = "push" /\ op.next = "none"
        /\ (a = "record" => ~op.cfg) /\ (a = "snapshot" => op.cfg)
  BY DEF PhaseInv
<1>3. ContentFollows(op.files, op.version)
        /\ Agrees(op.files, TreeIn(commits, op.before), pending, queued, authors, touched, astray)
        /\ (op.cfg => pending)
  BY <1>2 DEF PushInv, Captured
<1>4. answer.what \notin {"accepted", "rejected"} /\ answer.commit = head
        /\ answer.commit \in DOMAIN commits /\ answer.commit > op.before
  BY <1>2 DEF AnswerInv
<1>5. CASE UNCHANGED project /\ op' = [op EXCEPT !.at = "restore", !.may = b]
  BY <1>2, <1>5, RejectStep
<1>6. ASSUME ReplaceContent(tree), op.version = version, NEW x \in {"restore", a},
             op'.at = x, op' \in Operation, op'.kind = "push", op'.cfg = op.cfg,
             op'.before = op.before, op'.files = op.files, op'.version = op.version,
             x = "restore" => op'.may /\ op'.next = "none",
             x = a => op'.mat = version + 1 /\ op'.next = "record"
      PROVE  IInv'
  <2>1. content' = tree /\ version' = version + 1 /\ touched' = Paths
          /\ UNCHANGED <<pending, queued, authors>>
    BY <1>6 DEF ReplaceContent
  <2>2. TypeInv'
    BY <1>6, <2>1 DEF TypeInv
  <2>3. PhaseInv'
    BY <1>2, <1>6 DEF PhaseInv
  <2>4. ImportOK'
    BY <1>1, <1>6, <2>1 DEF ImportOK
  <2>5. HeadInv'
    <3>1. CASE x = "restore"
      BY <3>1, <1>6 DEF HeadInv, Suspended
    <3>2. CASE a = "record"
      <4>1. content' = TreeIn(commits', head')
        BY <3>2, <2>1
      <4> QED
        BY <4>1, AgreesSelf DEF HeadInv, ContentAgrees
    <3>3. CASE a = "snapshot"
      <4>1. pending /\ Traced(tree, TreeIn(commits, head), Paths)
        BY <3>3, <1>2, <1>3 DEF Traced
      <4>2. Agrees(tree, TreeIn(commits, head), pending, queued, authors, Paths, astray)
        BY <4>1 DEF Agrees
      <4> QED
        BY <4>2, <2>1 DEF HeadInv, ContentAgrees
    <3> QED
      BY <3>1, <3>2, <3>3
  <2>6. StagedInv'
    BY <1>2, <1>6 DEF StagedInv
  <2>7. Agrees(op.files, TreeIn(commits, op.before), pending, queued, authors, Paths, astray)
    BY <1>3 DEF Agrees, Traced
  <2>8. a = "record" => Follows(tree, TreeIn(commits, head), version + 1, version + 1,
                                pending, queued, authors, Paths)
    BY <1>1, FollowsSelf
  <2>9. PushInv'
    BY <1>2, <1>3, <1>6, <2>1, <2>4, <2>7, <2>8 DEF PushInv, Captured, Imported, ContentFollows
  <2>10. AnswerInv'
    BY <1>4, <1>6 DEF AnswerInv, Imported
  <2> QED
    BY <2>2, <2>3, <2>5, <2>6, <2>9, <2>10
<1>7. CASE ReplaceContent(tree) /\ op.version = version
             /\ op' = [op EXCEPT !.at = a, !.mat = version + 1, !.next = "record"]
  <2>1. /\ op' \in Operation /\ op'.at = a /\ op'.kind = "push" /\ op'.cfg = op.cfg
        /\ op'.before = op.before /\ op'.files = op.files /\ op'.version = op.version
        /\ op'.mat = version + 1 /\ op'.next = "record"
    <3>1. PICK v \in Nat : v = version + 1
      BY <1>1
    <3>2. op' = [op EXCEPT !.at = a, !.mat = v, !.next = "record"] /\ a \in Ats
      BY <1>7, <3>1 DEF Ats
    <3>3. op' \in Operation
      BY <1>1, <3>2 DEF Operation
    <3> QED
      BY <1>1, <1>2, <3>1, <3>2, <3>3 DEF Operation
  <2> QED
    BY <1>6, <1>7, <2>1
<1>8. CASE ReplaceContent(tree) /\ op.version = version
             /\ op' = [op EXCEPT !.at = "restore", !.may = TRUE]
  <2>1. /\ op' \in Operation /\ op'.at = "restore" /\ op'.kind = "push" /\ op'.cfg = op.cfg
        /\ op'.before = op.before /\ op'.files = op.files /\ op'.version = op.version
        /\ op'.may /\ op'.next = "none"
    BY <1>1, <1>2, <1>8 DEF Operation, Ats
  <2> QED
    BY <1>6, <1>8, <2>1
<1> QED
  BY <1>5, <1>7, <1>8

LEMMA ImportPushedWorkspaceStep ==
    ASSUME IInv, ImportPushedWorkspace
    PROVE  IInv'
<1>1. op.at = "import" /\ UNCHANGED <<commits, head, worktree, clone, answer, astray>>
  BY DEF ImportPushedWorkspace, Working, repository
<1>2. PICK tree : tree = TreeIn(commits, head)
  OBVIOUS
<1>3. tree \in Tree
  BY <1>2, TreeType DEF IInv, TypeInv
<1>4. /\ Credited(tree, TreeIn(commits, op.before), pending, queued, authors)
      /\ Credited(tree, TreeIn(commits, head), pending, queued, authors)
  BY <1>1, <1>2 DEF IInv, PushInv, PushedOK, Credited
<1>5. \E b \in BOOLEAN :
        \/ UNCHANGED project /\ op' = [op EXCEPT !.at = "restore", !.may = b]
        \/ /\ ReplaceContent(tree) /\ op.version = version
           /\ op' = [op EXCEPT !.at = "record", !.mat = version + 1, !.next = "record"]
        \/ /\ ReplaceContent(tree) /\ op.version = version
           /\ op' = [op EXCEPT !.at = "restore", !.may = TRUE]
  BY <1>2, TreeAtIn DEF ImportPushedWorkspace, ApplyImport, ImportFails, Reject
<1> QED
  BY <1>1, <1>2, <1>3, <1>4, <1>5, ImportStep

LEMMA MergeOnlineDeltaStep ==
    ASSUME IInv, MergeOnlineDelta
    PROVE  IInv'
<1>1. op.at = "merge" /\ UNCHANGED <<commits, head, worktree, clone, answer, astray>>
  BY DEF MergeOnlineDelta, Working, repository
<1>2. PICK merged \in MergeOnlineOverPushed(TreeIn(commits, op.before), TreeIn(commits, head), op.files) :
         IF \E p \in Paths : merged[p] = Conflict
         THEN Reject(FALSE) /\ UNCHANGED <<project, faults>>
         ELSE \/ ApplyImport(merged, op.version, "snapshot") /\ UNCHANGED faults
              \/ ImportFails(merged, op.version) /\ Reject(TRUE)
  BY TreeAtIn DEF MergeOnlineDelta
<1>3. /\ TreeIn(commits, op.before) \in Tree /\ TreeIn(commits, head) \in Tree
      /\ op.files \in Tree
  BY TreeType DEF IInv, TypeInv, Operation
<1>4. /\ PushedOK
      /\ Agrees(op.files, TreeIn(commits, op.before), pending, queued, authors, touched, astray)
  BY <1>1 DEF IInv, PhaseInv, PushInv, Captured
<1>5. CASE \E p \in Paths : merged[p] = Conflict
  <2>1. UNCHANGED project /\ op' = [op EXCEPT !.at = "restore", !.may = FALSE]
    BY <1>2, <1>5 DEF Reject
  <2> QED
    BY <1>1, <2>1, RejectStep
<1>6. CASE \A p \in Paths : merged[p] /= Conflict
  <2>1. /\ merged \in Tree
        /\ \A e \in Edits, p \in Paths :
             Holds(merged[p], e)
               => \/ Holds(TreeIn(commits, head)[p], e)
                  \/ Holds(op.files[p], e) /\ ~Holds(TreeIn(commits, op.before)[p], e)
    BY <1>3, <1>6, MergedEdits DEF Atoms
  <2>2. "restored" \notin astray
          => /\ Credited(merged, TreeIn(commits, op.before), pending, queued, authors)
             /\ Credited(merged, TreeIn(commits, head), pending, queued, authors)
    BY <1>4, <2>1 DEF Agrees, Credited, PushedOK
  <2>3. \E b \in BOOLEAN :
          \/ UNCHANGED project /\ op' = [op EXCEPT !.at = "restore", !.may = b]
          \/ /\ ReplaceContent(merged) /\ op.version = version
             /\ op' = [op EXCEPT !.at = "snapshot", !.mat = version + 1, !.next = "record"]
          \/ /\ ReplaceContent(merged) /\ op.version = version
             /\ op' = [op EXCEPT !.at = "restore", !.may = TRUE]
    BY <1>2, <1>6 DEF ApplyImport, ImportFails, Reject
  <2> QED
    BY <1>1, <2>1, <2>2, <2>3, ImportStep
<1> QED
  BY <1>5, <1>6

LEMMA RecordSyncStep ==
    ASSUME IInv, RecordSync
    PROVE  IInv'
<1> USE DEF IInv
<1>1. op \in Operation /\ version \in Nat /\ op.mat \in Nat /\ pending \in BOOLEAN
        /\ queued \in BOOLEAN /\ op.cfg \in BOOLEAN /\ commits \in Seq(Commit)
        /\ \A n \in DOMAIN commits : commits[n].parent < n
  BY DEF TypeInv, Operation
<1>2. op.at = "record" /\ op.kind = "push" /\ op.next = "record" /\ op' = [op EXCEPT !.at = "done"]
  BY DEF RecordSync, Working, Goto, PhaseInv
<1>3. /\ op' \in Operation /\ op'.at = "done" /\ op'.kind = "push" /\ op'.before = op.before
      /\ op'.next = "record"
  BY <1>1, <1>2 DEF Operation, Ats
<1>4. UNCHANGED <<content, version, commits, head, worktree>> /\ clone' = answer.commit
  BY DEF RecordSync, repository
<1>5. answer.commit = head /\ head \in DOMAIN commits
  BY <1>2 DEF AnswerInv, Imported
<1>6. /\ answer'.what = "accepted" /\ answer'.commit = answer.commit
      /\ answer' \in [what : {"none", "accepted", "refused", "rejected", "failed"},
                      commit : Nat, kept : BOOLEAN]
  BY DEF RecordSync, TypeInv
<1>7. PICK left \in BOOLEAN :
        /\ left = (op.cfg /\ ~WorktreeIsClean)
        /\ IF op.mat = version
           THEN /\ pending' = left
                /\ authors' = IF left THEN authors ELSE {}
                /\ queued' = (queued /\ left)
                /\ touched' = {}
                /\ astray' = IF left THEN astray \cup {"merged"} ELSE {}
           ELSE UNCHANGED <<pending, authors, queued, touched, astray>>
  BY DEF RecordSync
<1>8. TypeInv'
  BY <1>1, <1>3, <1>4, <1>5, <1>6, <1>7 DEF TypeInv
<1>9. PhaseInv'
  BY <1>3 DEF PhaseInv
<1>10. /\ ContentAgrees(head) /\ (op.cfg => pending)
       /\ op.cfg => ContentFollows(op.staged, op.mat) /\ worktree = op.staged
       /\ ~op.cfg => ContentFollows(TreeIn(commits, head), op.mat)
  BY <1>2 DEF HeadInv, Suspended, StagedInv, PushInv
<1>11. HeadInv'
  <2>1. CASE op.mat /= version
    BY <1>4, <1>7, <1>10, <2>1 DEF HeadInv, ContentAgrees
  <2>2. CASE op.mat = version /\ ~left
    <3>1. content = TreeIn(commits, head)
      <4>1. CASE op.cfg
        BY <1>7, <1>10, <2>2, <4>1, TreeAtIn DEF ContentFollows, Follows, WorktreeIsClean
      <4>2. CASE ~op.cfg
        BY <1>10, <2>2, <4>2 DEF ContentFollows, Follows
      <4> QED
        BY <4>1, <4>2
    <3> QED
      BY <1>4, <3>1, AgreesSelf DEF HeadInv, ContentAgrees
  <2>3. CASE op.mat = version /\ left
    <3>1. pending /\ pending' = pending /\ queued' = queued /\ authors' = authors
            /\ astray' = astray \cup {"merged"}
      BY <1>1, <1>7, <1>10, <2>3
    <3>2. Agrees(content, TreeIn(commits, head), pending, queued, authors, touched', astray')
      BY <1>10, <3>1 DEF ContentAgrees, Agrees
    <3> QED
      BY <1>4, <3>1, <3>2 DEF HeadInv, ContentAgrees
  <2> QED
    BY <2>1, <2>2, <2>3
<1>12. StagedInv'
  BY <1>3 DEF StagedInv
<1>13. PushInv'
  BY <1>3 DEF PushInv, Captured, Imported
<1>14. head \in AncestorsIn(commits, head)
  BY <1>1, <1>5, AncestorBounds
<1>15. AnswerInv'
  BY <1>3, <1>4, <1>5, <1>6, <1>14 DEF AnswerInv, Imported
<1> QED
  BY <1>8, <1>9, <1>11, <1>12, <1>13, <1>15

LEMMA RestoreHeadStep ==
    ASSUME IInv, RestoreHead
    PROVE  IInv'
<1> USE DEF IInv
<1>1. op \in Operation /\ version \in Nat /\ op.version \in Nat /\ pending \in BOOLEAN
        /\ queued \in BOOLEAN /\ op.may \in BOOLEAN /\ commits \in Seq(Commit)
        /\ op.before \in 0..Len(commits)
  BY DEF TypeInv, Operation
<1>2. op.at = "restore" /\ op.kind = "push" /\ op.next \in {"none", "record"}
  BY DEF RestoreHead, Working, PhaseInv
<1>3. PICK a \in {"undo", "reload"} : op' = [op EXCEPT !.at = a] /\ (a = "undo" <=> op.may)
  BY DEF RestoreHead, Goto
<1>4. /\ op' \in Operation /\ op'.at = a /\ op'.kind = "push" /\ op'.cfg = op.cfg
      /\ op'.before = op.before /\ op'.files = op.files /\ op'.version = op.version
      /\ op'.next = op.next
  BY <1>1, <1>2, <1>3 DEF Operation, Ats
<1>5. /\ UNCHANGED <<content, version, pending, queued, authors, touched, commits, clone,
                     answer, astray>>
      /\ head' = op.before /\ worktree' = TreeIn(commits, op.before)
  BY TreeAtIn DEF RestoreHead, project
<1>6. TypeInv'
  <2>1. worktree' \in Tree
    BY <1>1, <1>5, TreeType
  <2> QED
    BY <1>1, <1>4, <1>5, <2>1 DEF TypeInv
<1>7. PhaseInv'
  BY <1>2, <1>3, <1>4 DEF PhaseInv
<1>8. Agrees(op.files, TreeIn(commits, op.before), pending, queued, authors, touched, astray)
        /\ (op.cfg => pending)
        /\ (~op.may => ContentFollows(op.files, op.version))
        /\ (op.may => ContentFollows(op.files, op.version) \/ ImportOK)
  BY <1>2 DEF PushInv, Captured
<1>9. HeadInv'
  <2>1. CASE op.may
    BY <1>3, <1>4, <2>1 DEF HeadInv, Suspended
  <2>2. CASE ~op.may
    <3>1. Agrees(content, TreeIn(commits, op.before), pending, queued, authors, touched, astray)
      BY <1>1, <1>8, <2>2, AgreesFollows DEF ContentFollows
    <3> QED
      BY <1>5, <3>1 DEF HeadInv, ContentAgrees
  <2> QED
    BY <2>1, <2>2
<1>10. StagedInv'
  BY <1>3, <1>4 DEF StagedInv
<1>11. PushInv'
  BY <1>3, <1>4, <1>5, <1>8 DEF PushInv, Captured, Imported, ContentFollows, ImportOK
<1>12. AnswerInv'
  BY <1>2, <1>3, <1>4, <1>5 DEF AnswerInv, Imported
<1> QED
  BY <1>6, <1>7, <1>9, <1>10, <1>11, <1>12

LEMMA RestoreWorkspaceStep ==
    ASSUME IInv, RestoreWorkspace
    PROVE  IInv'
<1> USE DEF IInv
<1>1. op \in Operation /\ version \in Nat /\ op.version \in Nat /\ pending \in BOOLEAN
        /\ queued \in BOOLEAN /\ op.files \in Tree
  BY DEF TypeInv, Operation
<1>2. op.at = "undo" /\ op.kind = "push" /\ op.next \in {"none", "record"} /\ head = op.before
  BY DEF RestoreWorkspace, Working, PhaseInv, PushInv
<1>3. op' = [op EXCEPT !.at = "reload"]
  BY DEF RestoreWorkspace, Goto
<1>4. /\ op' \in Operation /\ op'.at = "reload" /\ op'.kind = "push" /\ op'.cfg = op.cfg
      /\ op'.before = op.before /\ op'.files = op.files /\ op'.version = op.version
      /\ op'.next = op.next
  BY <1>1, <1>2, <1>3 DEF Operation, Ats
<1>5. UNCHANGED <<pending, queued, authors, commits, head, worktree, clone, astray>>
  BY DEF RestoreWorkspace, project, repository, ReplaceContent
<1>6. /\ answer'.what = answer.what /\ answer'.commit = answer.commit
      /\ answer' \in [what : {"none", "accepted", "refused", "rejected", "failed"},
                      commit : Nat, kept : BOOLEAN]
  <2>1. PICK k \in BOOLEAN : answer' = [answer EXCEPT !.kept = k]
    <3>1. answer' = [answer EXCEPT !.kept = (version > op.version + 1)]
      BY DEF RestoreWorkspace
    <3>2. (version > op.version + 1) = TRUE \/ (version > op.version + 1) = FALSE
      OBVIOUS
    <3> QED
      BY <3>1, <3>2, Zenon
  <2> QED
    BY <2>1 DEF TypeInv
<1>7. \/ version = op.version + 1 /\ content' = op.files /\ version' = version + 1 /\ touched' = Paths
      \/ version /= op.version + 1 /\ UNCHANGED <<content, version, touched>>
  BY DEF RestoreWorkspace, project, ReplaceContent
<1>8. TypeInv'
  BY <1>1, <1>4, <1>5, <1>6, <1>7 DEF TypeInv
<1>9. PhaseInv'
  BY <1>2, <1>4 DEF PhaseInv
<1>10. Agrees(op.files, TreeIn(commits, op.before), pending, queued, authors, touched, astray)
         /\ (op.cfg => pending)
         /\ (ContentFollows(op.files, op.version) \/ ImportOK)
  BY <1>2 DEF PushInv, Captured
<1>11. Agrees(op.files, TreeIn(commits, op.before), pending, queued, authors, touched', astray)
         /\ Agrees(content', TreeIn(commits, op.before), pending, queued, authors, touched', astray)
  <2>1. CASE version = op.version + 1
    BY <1>7, <1>10, <2>1 DEF Agrees, Traced
  <2>2. CASE version /= op.version + 1 /\ ContentFollows(op.files, op.version)
    BY <1>1, <1>7, <1>10, <2>2, AgreesFollows DEF ContentFollows
  <2>3. CASE version /= op.version + 1 /\ ImportOK
    <3>1. pending /\ touched = Paths
            /\ ("restored" \notin astray
                  => Credited(content, TreeIn(commits, op.before), pending, queued, authors))
      BY <1>1, <2>3 DEF ImportOK
    <3>2. Agrees(content, TreeIn(commits, op.before), pending, queued, authors, touched, astray)
      BY <3>1 DEF Agrees, Traced
    <3> QED
      BY <1>7, <1>10, <2>3, <3>2
  <2> QED
    BY <1>10, <2>1, <2>2, <2>3
<1>12. HeadInv'
  BY <1>2, <1>5, <1>11 DEF HeadInv, ContentAgrees
<1>13. StagedInv'
  BY <1>4 DEF StagedInv
<1>14. PushInv'
  BY <1>2, <1>4, <1>5, <1>10, <1>11 DEF PushInv, Captured, Imported
<1>15. AnswerInv'
  BY <1>2, <1>4, <1>5, <1>6 DEF AnswerInv, Imported
<1> QED
  BY <1>8, <1>9, <1>12, <1>13, <1>14, <1>15

LEMMA ReloadRepositoryStep ==
    ASSUME IInv, ReloadRepository
    PROVE  IInv'
<1> USE DEF IInv
<1>1. op \in Operation /\ commits \in Seq(Commit)
        /\ \A n \in DOMAIN commits : commits[n].parent < n
  BY DEF TypeInv
<1>2. op.at = "reload" /\ op.kind = "push" /\ head = op.before
  BY DEF ReloadRepository, Working, PhaseInv, PushInv
<1>3. PICK x \in {"commit", "resync"} : op' = [op EXCEPT !.at = "snapshot", !.next = x]
  BY DEF ReloadRepository
<1>4. /\ op' \in Operation /\ op'.at = "snapshot" /\ op'.kind = "push" /\ op'.cfg = op.cfg
      /\ op'.before = op.before /\ op'.files = op.files /\ op'.version = op.version
      /\ op'.next = x
  BY <1>1, <1>2, <1>3 DEF Operation, Ats
<1>5. UNCHANGED <<content, version, pending, queued, authors, touched, commits, head, worktree,
                  clone, astray>>
  BY DEF ReloadRepository, project, repository
<1>6. /\ answer'.what = "rejected" /\ answer'.commit = answer.commit
      /\ answer' \in [what : {"none", "accepted", "refused", "rejected", "failed"},
                      commit : Nat, kept : BOOLEAN]
  BY DEF ReloadRepository, TypeInv
<1>7. TypeInv'
  BY <1>4, <1>5, <1>6 DEF TypeInv
<1>8. PhaseInv'
  BY <1>4 DEF PhaseInv
<1>9. HeadInv'
  BY <1>2, <1>5 DEF HeadInv, Suspended, ContentAgrees
<1>10. StagedInv'
  BY <1>4 DEF StagedInv
<1>11. PushInv'
  BY <1>2, <1>4, <1>5 DEF PushInv, Captured, Imported
<1>12. answer.commit \in DOMAIN commits /\ answer.commit > head
  BY <1>2 DEF AnswerInv
<1>13. answer.commit \notin AncestorsIn(commits, head)
  <2>1. CASE head = 0
    BY <2>1 DEF AncestorsIn
  <2>2. CASE head /= 0
    <3>1. head \in DOMAIN commits /\ head \in Nat /\ answer.commit \in Nat
      BY <1>1, <2>2 DEF TypeInv
    <3>2. \A k \in AncestorsIn(commits, head) : k <= head
      BY <1>1, <3>1, AncestorBounds
    <3> QED
      BY <1>12, <3>1, <3>2
  <2> QED
    BY <2>1, <2>2
<1>14. AnswerInv'
  BY <1>4, <1>5, <1>6, <1>12, <1>13 DEF AnswerInv, Imported
<1> QED
  BY <1>7, <1>8, <1>9, <1>10, <1>11, <1>14

LEMMA RecordRestoredStep ==
    ASSUME IInv, RecordRestored
    PROVE  IInv'
<1> USE DEF IInv
<1>1. op \in Operation /\ version \in Nat /\ op.mat \in Nat
  BY DEF TypeInv, Operation
<1>2. op.at = "resync" /\ op.kind = "push" /\ op' = [op EXCEPT !.at = "done"]
  BY DEF RecordRestored, Working, Goto, PhaseInv
<1>3. /\ op' \in Operation /\ op'.at = "done" /\ op'.kind = "push" /\ op'.before = op.before
      /\ op'.next = op.next
  BY <1>1, <1>2 DEF Operation, Ats
<1>4. UNCHANGED <<content, version, commits, head, worktree, clone, answer>>
  BY DEF RecordRestored, repository
<1>5. /\ op.mat = version => Synced /\ astray' = IF WorktreeIsClean THEN {} ELSE {"restored"}
      /\ op.mat /= version => UNCHANGED <<pending, authors, queued, touched, astray>>
  BY DEF RecordRestored
<1>6. TypeInv'
  BY <1>3, <1>4, <1>5 DEF TypeInv, Synced
<1>7. PhaseInv'
  BY <1>2, <1>3 DEF PhaseInv
<1>8. ContentAgrees(head) /\ ContentFollows(op.staged, op.mat) /\ worktree = op.staged
  BY <1>2 DEF HeadInv, Suspended, StagedInv
<1>9. HeadInv'
  <2>1. CASE op.mat /= version
    BY <1>4, <1>5, <1>8, <2>1 DEF HeadInv, ContentAgrees
  <2>2. CASE op.mat = version /\ WorktreeIsClean
    <3>1. content = TreeIn(commits, head)
      BY <1>8, <2>2, TreeAtIn DEF ContentFollows, Follows, WorktreeIsClean
    <3> QED
      BY <1>4, <3>1, AgreesSelf DEF HeadInv, ContentAgrees
  <2>3. CASE op.mat = version /\ ~WorktreeIsClean
    BY <1>5, <2>3 DEF HeadInv, ContentAgrees, Agrees
  <2> QED
    BY <2>1, <2>2, <2>3
<1>10. StagedInv'
  BY <1>3 DEF StagedInv
<1>11. PushInv'
  BY <1>3 DEF PushInv, Captured, Imported
<1>12. AnswerInv'
  BY <1>2, <1>3, <1>4 DEF AnswerInv, Imported
<1> QED
  BY <1>6, <1>7, <1>9, <1>10, <1>11, <1>12

\* An operation begins: with nothing but the configuration.
LEMMA BeginStep ==
    ASSUME IInv, op.kind = "idle", op' \in Operation, op'.kind \in Kinds, op'.before = 0,
           op'.next = IF op'.at = "snapshot" THEN "commit" ELSE "none",
           IF op'.kind = "push"
           THEN op'.at = "capture" /\ (op'.cfg => pending') /\ answer' = NoAnswer
           ELSE op'.at \in {"config", "snapshot", "backend"} /\ answer' = answer,
           UNCHANGED <<content, version, queued, authors, touched, commits, head, worktree,
                       clone, astray>>,
           pending' \in {pending, TRUE}
    PROVE  IInv'
<1> USE DEF IInv
<1>1. pending \in BOOLEAN /\ queued \in BOOLEAN /\ Len(commits) \in Nat
  BY DEF TypeInv
<1>2. answer' \in [what : {"none", "accepted", "refused", "rejected", "failed"},
                   commit : Nat, kept : BOOLEAN]
  <2>1. CASE answer' = NoAnswer
    BY <2>1 DEF NoAnswer
  <2>2. CASE answer' = answer
    BY <2>2 DEF TypeInv
  <2> QED
    BY <2>1, <2>2, Zenon
<1>3. TypeInv'
  <2>1. pending' \in BOOLEAN
    BY <1>1, Zenon
  <2>2. op'.before \in 0..Len(commits)
    BY <1>1
  <2> QED
    BY <1>2, <2>1, <2>2 DEF TypeInv
<1>4. PhaseInv'
  BY DEF PhaseInv, Kinds
<1>5. HeadInv'
  <2>1. ContentAgrees(head)
    BY DEF HeadInv, Suspended
  <2>2. Agrees(content, TreeIn(commits, head), pending', queued, authors, touched, astray)
    <3>1. CASE pending' = pending
      BY <2>1, <3>1 DEF ContentAgrees
    <3>2. CASE pending' = TRUE
      BY <2>1, <3>2 DEF ContentAgrees, Agrees, Credited
    <3> QED
      BY <3>1, <3>2
  <2> QED
    BY <2>2 DEF HeadInv, ContentAgrees
<1>6. StagedInv'
  BY DEF StagedInv
<1>7. PushInv'
  BY DEF PushInv, Captured, Imported
<1>8. AnswerInv'
  <2>1. CASE op'.kind = "push"
    BY <2>1 DEF AnswerInv, Imported, NoAnswer
  <2>2. CASE op'.kind /= "push"
    BY <2>2 DEF AnswerInv, Imported
  <2> QED
    BY <2>1, <2>2
<1> QED
  BY <1>3, <1>4, <1>5, <1>6, <1>7, <1>8

\* An operation ends.
LEMMA EndStep ==
    ASSUME IInv, op.kind /= "idle",
           op' = Idle \/ op' = [op EXCEPT !.at = "done"],
           UNCHANGED <<content, version, pending, queued, authors, touched, commits, head, clone>>,
           worktree' \in Tree,
           answer' = answer \/ answer' = [answer EXCEPT !.what = "failed"],
           astray' \in {astray, astray \cup {"restored"}},
           ContentAgrees(head)'
    PROVE  IInv'
<1> USE DEF IInv
<1>1. op \in Operation /\ op.before \in 0..Len(commits) /\ Len(commits) \in Nat
  BY DEF TypeInv
<1>2. /\ op' \in Operation /\ op'.before \in 0..Len(commits)
      /\ op'.kind \in {op.kind, "idle"} /\ op'.next \in {op.next, "none"}
      /\ op'.at = IF op'.kind = "idle" THEN "none" ELSE "done"
  <2>1. CASE op' = Idle
    BY <1>1, <2>1, IdleType DEF Idle
  <2>2. CASE op' = [op EXCEPT !.at = "done"]
    BY <1>1, <2>2 DEF Operation, Ats
  <2> QED
    BY <2>1, <2>2
<1>3. /\ answer'.commit = answer.commit /\ answer'.what \in {answer.what, "failed"}
      /\ answer' \in [what : {"none", "accepted", "refused", "rejected", "failed"},
                      commit : Nat, kept : BOOLEAN]
  BY DEF TypeInv
<1>4. TypeInv'
  BY <1>2, <1>3 DEF TypeInv
<1>5. PhaseInv'
  <2>1. op'.kind = op.kind \/ op'.next = "none"
    BY <1>1 DEF Operation, Idle
  <2> QED
    BY <1>2, <2>1 DEF PhaseInv
<1>6. HeadInv'
  BY DEF HeadInv
<1>7. StagedInv'
  BY <1>2 DEF StagedInv
<1>8. PushInv'
  BY <1>2 DEF PushInv, Captured, Imported
<1>9. AnswerInv'
  BY <1>2, <1>3 DEF AnswerInv, Imported
<1> QED
  BY <1>4, <1>5, <1>6, <1>7, <1>8, <1>9

LEMMA ReleaseStep ==
    ASSUME IInv, Release
    PROVE  IInv'
<1>1. op.kind /= "idle" /\ op.at = "done" /\ op' = Idle
  BY DEF Release, Working, Locked
<1>2. UNCHANGED <<content, version, pending, queued, authors, touched, commits, head, worktree,
                  clone, answer, astray>>
  BY DEF Release, project, repository
<1>3. ContentAgrees(head)' /\ worktree' \in Tree
  BY <1>1, <1>2 DEF IInv, TypeInv, HeadInv, Suspended, ContentAgrees
<1> QED
  BY <1>1, <1>2, <1>3, EndStep

LEMMA StopStep ==
    ASSUME IInv, Stop
    PROVE  IInv'
<1>1. op.kind /= "idle" /\ op' = Idle
  BY DEF Stop, Locked
<1>2. UNCHANGED <<content, version, pending, queued, authors, touched, commits, head, clone,
                  answer>>
  BY DEF Stop, project
<1>3. worktree' \in Tree
  BY NoFilesType DEF Stop, IInv, TypeInv, Operation
<1>4. astray' \in {astray, astray \cup {"restored"}} /\ ContentAgrees(head)'
  <2>1. CASE Restoring \/ Unimported
    BY <2>1 DEF Stop, ContentAgrees, Agrees
  <2>2. CASE ~(Restoring \/ Unimported)
    <3>1. astray' = astray
      BY <2>2 DEF Stop
    <3>2. CASE Suspended
      <4>1. op.at \in {"reconcile", "import", "merge"} /\ head = op.before
        BY <2>2, <3>2 DEF Suspended, Restoring, Unimported, Moved
      <4>2. ContentFollows(op.files, op.version)
              /\ Agrees(op.files, TreeIn(commits, op.before), pending, queued, authors, touched, astray)
        BY <3>2, <4>1 DEF IInv, PushInv, Captured, Suspended
      <4>3. version \in Nat /\ op.version \in Nat /\ pending \in BOOLEAN /\ queued \in BOOLEAN
        BY DEF IInv, TypeInv, Operation
      <4>4. ContentAgrees(head)
        BY <4>1, <4>2, <4>3, AgreesFollows DEF ContentAgrees, ContentFollows
      <4> QED
        BY <1>2, <3>1, <4>4 DEF ContentAgrees
    <3>3. CASE ~Suspended
      BY <1>2, <3>1, <3>3 DEF IInv, HeadInv, ContentAgrees
    <3> QED
      BY <3>1, <3>2, <3>3
  <2> QED
    BY <2>1, <2>2
<1> QED
  BY <1>1, <1>2, <1>3, <1>4, EndStep

LEMMA StepFailsStep ==
    ASSUME IInv, StepFails
    PROVE  IInv'
<1> DEFINE undo == op.kind = "push" /\ ~Restoring /\ op.at \in {"snapshot", "replace", "record"}
<1>1. UNCHANGED <<content, version, pending, queued, authors, touched, commits, head, worktree,
                  clone>>
  BY DEF StepFails, project, repository
<1>2. op.kind /= "idle"
  BY DEF StepFails, IInv, PhaseInv
<1>3. CASE ~undo
  <2>1. op' = [op EXCEPT !.at = "done"]
    BY <1>3 DEF StepFails, Goto
  <2>2. answer' = answer \/ answer' = [answer EXCEPT !.what = "failed"]
    BY <1>3 DEF StepFails
  <2>3. worktree' \in Tree
    BY <1>1 DEF IInv, TypeInv
  <2>4. astray' \in {astray, astray \cup {"restored"}} /\ ContentAgrees(head)'
    <3>1. CASE Restoring
      BY <3>1 DEF StepFails, ContentAgrees, Agrees
    <3>2. CASE ~Restoring
      <4>1. ~Suspended /\ astray' = astray
        BY <3>2 DEF StepFails, Suspended, Restoring
      <4> QED
        BY <1>1, <4>1 DEF IInv, HeadInv, ContentAgrees
    <3> QED
      BY <3>1, <3>2
  <2> QED
    BY <1>1, <1>2, <2>1, <2>2, <2>3, <2>4, EndStep
<1>4. CASE undo
  <2> USE DEF IInv
  <2>1. op' = [op EXCEPT !.at = "restore", !.may = TRUE] /\ answer' = answer /\ astray' = astray
    BY <1>4 DEF StepFails
  <2>2. op \in Operation /\ op.next = "record" /\ Imported
    BY <1>4 DEF TypeInv, Operation, PhaseInv, Restoring, Imported
  <2>3. /\ op' \in Operation /\ op'.at = "restore" /\ op'.kind = "push" /\ op'.cfg = op.cfg
        /\ op'.before = op.before /\ op'.files = op.files /\ op'.version = op.version
        /\ op'.may /\ op'.next = "record"
    BY <1>4, <2>1, <2>2 DEF Operation, Ats
  <2>4. TypeInv'
    BY <1>1, <2>1, <2>3 DEF TypeInv
  <2>5. PhaseInv'
    BY <2>3 DEF PhaseInv
  <2>6. HeadInv' /\ StagedInv'
    BY <2>3 DEF HeadInv, Suspended, StagedInv
  <2>7. PushInv'
    BY <1>1, <1>4, <2>1, <2>2, <2>3 DEF PushInv, Captured, Imported, ImportOK
  <2>8. AnswerInv'
    BY <1>1, <1>4, <2>1, <2>2, <2>3 DEF AnswerInv, Imported
  <2> QED
    BY <2>4, <2>5, <2>6, <2>7, <2>8
<1> QED
  BY <1>3, <1>4

LEMMA BeginsStep ==
    ASSUME IInv,
           FlushWorker \/ CreateRevision \/ FlushForCheckpoint
             \/ \E kind \in {"fetch", "push"} : GitHttpBackend(kind)
    PROVE  IInv'
<1> USE IdleType DEF Locked, project, repository
<1>1. CASE FlushWorker
  <2>1. op' = [Idle EXCEPT !.kind = "flush", !.at = "config"]
    BY <1>1 DEF FlushWorker
  <2>2. op' \in Operation /\ op'.kind = "flush" /\ op'.at = "config" /\ op'.before = 0
          /\ op'.next = "none"
    BY <2>1 DEF Operation, Idle, Kinds, Ats
  <2> QED
    BY <1>1, <2>2, BeginStep DEF FlushWorker, Kinds
<1>2. CASE CreateRevision
  <2>1. op' = [Idle EXCEPT !.kind = "revision", !.at = "snapshot", !.next = "commit"]
    BY <1>2 DEF CreateRevision
  <2>2. op' \in Operation /\ op'.kind = "revision" /\ op'.at = "snapshot" /\ op'.before = 0
          /\ op'.next = "commit"
    BY <2>1 DEF Operation, Idle, Kinds, Ats
  <2> QED
    BY <1>2, <2>2, BeginStep DEF CreateRevision, Kinds
<1>3. CASE FlushForCheckpoint
  <2>1. op' = [Idle EXCEPT !.kind = "checkpoint", !.at = "config"]
    BY <1>3 DEF FlushForCheckpoint
  <2>2. op' \in Operation /\ op'.kind = "checkpoint" /\ op'.at = "config" /\ op'.before = 0
          /\ op'.next = "none"
    BY <2>1 DEF Operation, Idle, Kinds, Ats
  <2> QED
    BY <1>3, <2>2, BeginStep DEF FlushForCheckpoint, Kinds
<1>4. ASSUME NEW kind \in {"fetch", "push"}, GitHttpBackend(kind) PROVE IInv'
  <2>1. PICK a \in {"capture", "config", "backend"} :
          /\ op' = [Idle EXCEPT !.kind = kind, !.cfg = pending, !.at = a]
          /\ kind = "push" <=> a = "capture"
    BY <1>4 DEF GitHttpBackend
  <2>2. pending \in BOOLEAN
    BY DEF IInv, TypeInv
  <2>3. op' \in Operation /\ op'.kind = kind /\ op'.at = a /\ op'.before = 0
          /\ op'.next = "none" /\ op'.cfg = pending
    BY <2>1, <2>2 DEF Operation, Idle, Kinds, Ats
  <2>4. /\ op.kind = "idle" /\ pending' = pending
        /\ UNCHANGED <<content, version, queued, authors, touched, commits, head, worktree,
                       clone, astray>>
        /\ answer' = IF kind = "push" THEN NoAnswer ELSE answer
    BY <1>4 DEF GitHttpBackend
  <2> QED
    BY <2>1, <2>3, <2>4, BeginStep DEF Kinds
<1> QED
  BY <1>1, <1>2, <1>3, <1>4

LEMMA DirtyStep ==
    ASSUME IInv, NEW e \in Edits, NEW S \in SUBSET Paths, NEW hidden,
           Edited(content', content, e, S), content' \in Tree, Dirty(e, S, hidden),
           UNCHANGED <<commits, head, worktree, op, clone, answer, astray>>
    PROVE  IInv'
<1> USE DEF IInv
<1>1. op \in Operation /\ version \in Nat /\ op.mat \in Nat /\ op.version \in Nat
        /\ pending \in BOOLEAN /\ queued \in BOOLEAN /\ content \in Tree
  BY DEF TypeInv, Operation
<1>2. Edited(content', content, e, S) /\ content' \in Tree
  OBVIOUS
<1>3. /\ version' = version + 1 /\ pending' = TRUE /\ queued' = TRUE
      /\ authors' = authors \cup {e} /\ touched' = touched \cup S
      /\ UNCHANGED <<commits, head, worktree, op, clone, answer, astray>>
  BY DEF Dirty
<1>4. TypeInv'
  BY <1>1, <1>2, <1>3 DEF TypeInv
<1>5. PhaseInv'
  BY <1>3 DEF PhaseInv
<1>6. ASSUME NEW t, NEW v \in Nat, ContentFollows(t, v)
      PROVE  Follows(content', t, v, version', pending', queued', authors', touched')
  BY <1>1, <1>2, <1>3, <1>6, EditFollows DEF ContentFollows
<1>7. ASSUME ImportOK PROVE ImportOK'
  <2>1. "restored" \notin astray
          => Credited(content', TreeIn(commits, op.before), TRUE, TRUE, authors')
    BY <1>2, <1>3, <1>7 DEF ImportOK, Credited, Edited, Atoms
  <2>2. version' > op.version /\ touched' = Paths
    BY <1>1, <1>3, <1>7 DEF ImportOK
  <2> QED
    BY <1>3, <2>1, <2>2 DEF ImportOK
<1>8. HeadInv'
  <2>1. ContentAgrees(head) => ContentAgrees(head)'
    BY <1>1, <1>2, <1>3, EditAgrees DEF ContentAgrees
  <2> QED
    BY <1>3, <2>1 DEF HeadInv, Suspended
<1>9. StagedInv'
  BY <1>1, <1>3, <1>6 DEF StagedInv, ContentFollows
<1>10. PushInv'
  <2>1. Captured => Agrees(op.files, TreeIn(commits, op.before), TRUE, TRUE, authors', touched', astray)
    BY <1>1, <1>3, MoreMarks DEF PushInv
  <2>2. ContentFollows(op.files, op.version)
          => Follows(content', op.files, op.version, version', pending', queued', authors', touched')
    BY <1>1, <1>6
  <2>3. ContentFollows(TreeIn(commits, head), op.mat)
          => Follows(content', TreeIn(commits, head), op.mat, version', pending', queued',
                     authors', touched')
    BY <1>1, <1>6
  <2> QED
    BY <1>3, <1>7, <2>1, <2>2, <2>3 DEF PushInv, Captured, Imported, PushedOK, ContentFollows
<1>11. AnswerInv'
  BY <1>3 DEF AnswerInv, Imported, Moved
<1> QED
  BY <1>4, <1>5, <1>8, <1>9, <1>10, <1>11

LEMMA EditStep ==
    ASSUME IInv, NEW e \in Edits, NEW p \in Paths,
           Edit(e, p) \/ \E q \in Paths : Move(e, p, q)
    PROVE  IInv'
<1>1. content \in Tree
  BY DEF IInv, TypeInv
<1>2. CASE Edit(e, p)
  <2>1. Edited(content', content, e, {p}) /\ content' \in Tree
    BY <1>1, <1>2, EditedByEdit
  <2>2. PICK hidden : Dirty(e, {p}, hidden)
    BY <1>2 DEF Edit
  <2>3. UNCHANGED <<commits, head, worktree, op, clone, answer, astray>>
    BY <1>2 DEF Edit, repository
  <2> QED
    BY <2>1, <2>2, <2>3, DirtyStep
<1>3. ASSUME NEW q \in Paths, Move(e, p, q) PROVE IInv'
  <2>1. Edited(content', content, e, {p, q}) /\ content' \in Tree
    BY <1>1, <1>3, EditedByMove
  <2>2. PICK hidden : Dirty(e, {p, q}, hidden)
    BY <1>3 DEF Move
  <2>3. UNCHANGED <<commits, head, worktree, op, clone, answer, astray>>
    BY <1>3 DEF Move, repository
  <2> QED
    BY <2>1, <2>2, <2>3, DirtyStep
<1> QED
  BY <1>2, <1>3

LEMMA FrameStep ==
    ASSUME IInv,
           UNCHANGED <<content, version, pending, queued, authors, touched, commits, head, worktree,
                       op, clone, answer, astray>>
    PROVE  IInv'
BY DEF IInv, TypeInv, PhaseInv, HeadInv, StagedInv, PushInv, AnswerInv, Suspended, Captured,
       Imported, ImportOK, PushedOK, ContentAgrees, ContentFollows, Moved

-----------------------------------------------------------------------------
(* The theorems.                                                           *)

LEMMA InitInv ==
    ASSUME Init
    PROVE  IInv
<1>1. content \in Tree
  BY PathsAssumption DEF Init, Tree, File
<1>2. op \in Operation /\ op.kind = "idle" /\ op.at = "none" /\ op.next = "none" /\ op.before = 0
  BY IdleType DEF Init, Idle
<1>3. answer.what = "none" /\ answer \in [what : {"none", "accepted", "refused", "rejected", "failed"},
                                          commit : Nat, kept : BOOLEAN]
  BY DEF Init, NoAnswer
<1>4. TypeInv
  BY <1>1, <1>2, <1>3, NoFilesType DEF Init, TypeInv
<1>5. PhaseInv
  BY <1>2 DEF PhaseInv
<1>6. HeadInv
  <2>1. \A e \in Edits, p \in Paths : ~Holds(content[p], e)
    BY DEF Init, Holds
  <2> QED
    BY <2>1 DEF Init, HeadInv, ContentAgrees, Agrees, Credited, Traced
<1>7. StagedInv /\ PushInv
  BY <1>2 DEF StagedInv, PushInv, Captured, Imported
<1>8. AnswerInv
  BY <1>2, <1>3 DEF AnswerInv, Imported
<1> QED
  BY <1>4, <1>5, <1>6, <1>7, <1>8 DEF IInv

LEMMA NextInv ==
    ASSUME IInv, [Next]_vars
    PROVE  IInv'
<1>1. CASE UNCHANGED vars
  BY <1>1, FrameStep DEF vars, project, repository
<1>2. CASE Next
  <2>1. CASE \E e \in Edits, p \in Paths : Edit(e, p) \/ \E q \in Paths : Move(e, p, q)
    BY <2>1, EditStep
  <2>2. CASE ListDueProjects
    BY <2>2, FrameStep DEF ListDueProjects, project
  <2>3. CASE FlushWorker \/ CreateRevision \/ FlushForCheckpoint
               \/ \E kind \in {"fetch", "push"} : GitHttpBackend(kind)
    BY <2>3, BeginsStep
  <2>4. CASE OpStep
    <3>1. CASE LoadRepository \/ ClearQueueIfClean \/ Snapshot \/ ReplaceWorktree
                 \/ CommitStaged \/ Complete \/ UploadPack
      BY <3>1, LoadRepositoryStep, ClearQueueIfCleanStep, SnapshotStep, ReplaceWorktreeStep,
         CommitStagedStep, CompleteStep, UploadPackStep
    <3>2. CASE CaptureSession \/ \E c \in Pushes, p \in Paths : ReceivePack(c, p)
      BY <3>2, CaptureSessionStep, ReceivePackStep
    <3>3. CASE Reconcile \/ ImportPushedWorkspace \/ MergeOnlineDelta \/ RecordSync
      BY <3>3, ReconcileStep, ImportPushedWorkspaceStep, MergeOnlineDeltaStep, RecordSyncStep
    <3>4. CASE RestoreHead \/ RestoreWorkspace \/ ReloadRepository \/ RecordRestored \/ Release
      BY <3>4, RestoreHeadStep, RestoreWorkspaceStep, ReloadRepositoryStep, RecordRestoredStep,
         ReleaseStep
    <3> QED
      BY <2>4, <3>1, <3>2, <3>3, <3>4 DEF OpStep
  <2>5. CASE StepFails \/ Stop
    BY <2>5, StepFailsStep, StopStep
  <2> QED
    BY <1>2, <2>1, <2>2, <2>3, <2>4, <2>5 DEF Next
<1> QED
  BY <1>1, <1>2

\* The inductive invariant: at every step of a flush, a revision or a push the
\* Workspace, the staged snapshot, the worktree and the branch stand to each
\* other as the versions, the marks and the answer say.
THEOREM Invariance == Spec => []IInv
<1>1. Init => IInv
  BY InitInv
<1>2. IInv /\ [Next]_vars => IInv'
  BY NextInv
<1> QED
  BY <1>1, <1>2, PTL DEF Spec

\* An edit of the Workspace that the head does not hold is marked, queued and
\* credited (complete_materialized_workspace_sync clears the marks only when no
\* version is newer than the snapshot), and an unmarked repository is the
\* Workspace: for any number of editors, pushes and failures.
THEOREM UncommittedStaysPending == Spec => []UncommittedIsPending
<1>1. IInv => UncommittedIsPending
  <2> SUFFICES ASSUME IInv, ~Locked, "restored" \notin astray
               PROVE  /\ \A e \in Edits, p \in Paths :
                           Holds(content[p], e) /\ ~Holds(TreeAt(head)[p], e)
                             => pending /\ queued /\ e \in authors
                      /\ ~pending => content = TreeAt(head)
    BY DEF UncommittedIsPending
  <2>1. ContentAgrees(head)
    BY DEF IInv, HeadInv, Suspended, Locked
  <2>2. Credited(content, TreeAt(head), pending, queued, authors)
          /\ (pending \/ content = TreeAt(head))
    BY <2>1, TreeAtIn DEF ContentAgrees, Agrees
  <2> QED
    BY <2>2, Zenon DEF Credited
<1> QED
  BY <1>1, Invariance, PTL

\* A revision opened from the live Workspace (revision_documents with the paths
\* of load_live_revision_paths) shows the revision's tree at every path whose row
\* does not hide its last change, however edits, moves, flushes and rejected
\* pushes interleave.
THEOREM LiveTransfersAreRevisions == Spec => []LiveTransferIsRevision
<1>1. IInv => LiveTransferIsRevision
  <2> SUFFICES ASSUME IInv, ~Locked, astray = {}, head /= 0, NEW n \in DOMAIN commits,
                      NEW p \in Paths \ unseen
               PROVE  RevisionShown(n)[p] = TreeAt(n)[p]
    BY DEF LiveTransferIsRevision
  <2>1. ContentAgrees(head)
    BY DEF IInv, HeadInv, Suspended, Locked
  <2>2. (pending \/ content = TreeAt(head)) /\ Traced(content, TreeAt(head), touched)
    BY <2>1, TreeAtIn DEF ContentAgrees, Agrees
  <2>3. ASSUME p \notin LiveAnchorPaths(n) PROVE content[p] = TreeAt(n)[p]
    <3>1. TreeAt(head)[p] = TreeAt(n)[p] /\ p \notin LiveRevisionPaths
      BY <2>3 DEF LiveAnchorPaths, DiffChangedPaths
    <3>2. CASE ~pending
      BY <2>2, <3>1, <3>2
    <3>3. CASE pending
      <4>1. p \notin touched \/ content[p] = Absent
        BY <3>1, <3>3 DEF LiveRevisionPaths
      <4>2. (content[p] = Absent) = (TreeAt(head)[p] = Absent)
        BY <3>1, <3>3 DEF LiveRevisionPaths
      <4> QED
        BY <2>2, <3>1, <4>1, <4>2 DEF Traced
    <3> QED
      BY <3>2, <3>3
  <2> QED
    BY <2>3 DEF RevisionShown
<1> QED
  BY <1>1, Invariance, PTL

-----------------------------------------------------------------------------
(* A rejected push leaves the Workspace.  A pushed change is nowhere before *)
(* it is made (MadeInv), so the captured files are free of it, and so is    *)
(* the Workspace until its import; the import is undone by the files, or is *)
(* under newer edits, which is what `kept' says (RejectInv).                *)

\* The pushed changes in a tree are among S.
Known(t, S) == \A c \in Pushes, p \in Paths : Holds(t[p], c) => c \in S

MadeInv ==
    /\ Known(content, made) /\ Known(worktree, made)
    /\ Known(op.files, made) /\ Known(op.staged, made)
    /\ \A n \in DOMAIN commits : Known(commits[n].tree, made)

\* PushedIn, of any sequence of commits.
PushedOf(cs, n) ==
    {c \in Pushes : /\ \E p \in Paths : Holds(TreeIn(cs, n)[p], c)
                    /\ \A p \in Paths : ~Holds(TreeIn(cs, cs[n].parent)[p], c)}

\* The tree has nothing of the last push.
FreeOfPush(t) == \A c \in PushedOf(commits, answer.commit), p \in Paths : ~Holds(t[p], c)

\* The branch has moved and nothing was imported.
Before == \/ op.at \in {"import", "merge"}
          \/ op.at = "reconcile" /\ Moved
          \/ op.at = "restore" /\ ~op.may
\* The captured files may still be put back.
Undoable == Before \/ Imported \/ op.at \in {"restore", "undo"}
\* The Workspace has been dealt with.
Undone == op.at = "reload" \/ answer.what = "rejected"

RejectInv ==
    /\ Undoable => FreeOfPush(op.files)
    /\ Before => FreeOfPush(content)
    /\ Undone => answer.kept \/ FreeOfPush(content)

LEMMA AnswerCommitted ==
    ASSUME IInv, Undoable \/ Undone
    PROVE  answer.commit \in DOMAIN commits
<1>1. head \in 0..Len(commits) /\ op.before \in Nat /\ commits \in Seq(Commit)
  BY DEF IInv, TypeInv, Operation
<1>2. CASE op.at = "reconcile" /\ Moved
  <2>1. answer.commit = head /\ answer.commit > op.before
    BY <1>2 DEF IInv, AnswerInv, Moved
  <2> QED
    BY <1>1, <2>1
<1> QED
  BY <1>2 DEF IInv, AnswerInv, Undoable, Undone, Before

\* A later commit changes nothing of what a push added.
LEMMA PushedAppend ==
    ASSUME NEW cs \in Seq(Commit), NEW c \in Commit, NEW n \in DOMAIN cs, cs[n].parent < n
    PROVE  PushedOf(Append(cs, c), n) = PushedOf(cs, n)
<1>1. n \in 0..Len(cs) /\ cs[n] \in Commit
  OBVIOUS
<1>2. cs[n].parent \in 0..Len(cs)
  BY <1>1 DEF Commit
<1>3. /\ TreeIn(Append(cs, c), n) = TreeIn(cs, n)
      /\ Append(cs, c)[n] = cs[n]
      /\ TreeIn(Append(cs, c), cs[n].parent) = TreeIn(cs, cs[n].parent)
  BY <1>1, <1>2, AppendTree
<1> QED
  BY <1>3 DEF PushedOf

\* Steps that leave the Workspace.
LEMMA RejectFrame ==
    ASSUME IInv, RejectInv, content' = content,
           commits' = commits \/ \E c \in Commit : commits' = Append(commits, c),
           Undoable' => Undoable /\ op'.files = op.files /\ answer'.commit = answer.commit,
           Before' => Before /\ answer'.commit = answer.commit,
           Undone' => /\ Before \/ Undone
                      /\ answer'.commit = answer.commit /\ answer'.kept = answer.kept
    PROVE  RejectInv'
<1>1. ASSUME Undoable' \/ Before' \/ Undone'
      PROVE  PushedOf(commits', answer'.commit) = PushedOf(commits, answer.commit)
  <2>1. Undoable \/ Undone
    BY <1>1 DEF Undoable
  <2>2. answer'.commit = answer.commit /\ answer.commit \in DOMAIN commits
    BY <1>1, <2>1, AnswerCommitted
  <2>3. commits \in Seq(Commit) /\ commits[answer.commit].parent < answer.commit
    BY <2>2 DEF IInv, TypeInv
  <2> QED
    BY <2>2, <2>3, PushedAppend
<1>2. ASSUME Undoable' PROVE FreeOfPush(op.files)'
  BY <1>1, <1>2 DEF RejectInv, FreeOfPush
<1>3. ASSUME Before' PROVE FreeOfPush(content)'
  BY <1>1, <1>3 DEF RejectInv, FreeOfPush
<1>4. ASSUME Undone' PROVE answer'.kept \/ FreeOfPush(content)'
  BY <1>1, <1>4 DEF RejectInv, FreeOfPush
<1> QED
  BY <1>2, <1>3, <1>4 DEF RejectInv

LEMMA RejectQuietStep ==
    ASSUME IInv, RejectInv,
           \/ LoadRepository \/ ClearQueueIfClean \/ Snapshot \/ ReplaceWorktree
           \/ CommitStaged \/ Complete \/ UploadPack \/ CaptureSession
           \/ Reconcile \/ RecordSync \/ RestoreHead \/ ReloadRepository \/ RecordRestored
           \/ Release \/ StepFails \/ Stop
    PROVE  RejectInv'
<1> USE DEF project, repository
<1>1. op \in Operation /\ worktree \in Tree /\ authors \subseteq Edits /\ head \in Nat
        /\ answer \in [what : {"none", "accepted", "refused", "rejected", "failed"},
                       commit : Nat, kept : BOOLEAN]
  BY DEF IInv, TypeInv
<1>2. op.kind = "push" => op.at \notin {"config", "queue"}
  BY DEF IInv, PhaseInv
<1>3. /\ op.at \in {"capture", "reconcile", "import", "merge", "record", "restore", "undo",
                    "reload", "resync"} => op.kind = "push"
      /\ op.kind = "push" /\ op.at \in {"capture", "backend", "reconcile"}
           => op.next = "none" /\ answer.what /= "rejected"
      /\ op.at = "record" => op.next = "record"
  BY DEF IInv, PhaseInv, AnswerInv
<1>4. CASE LoadRepository \/ ClearQueueIfClean \/ Complete \/ Release
  <2>1. /\ content' = content /\ commits' = commits /\ answer' = answer
        /\ \/ op' = Idle
           \/ \E a \in {"snapshot", "queue", "backend", "done"} :
                op' = [op EXCEPT !.at = a, !.next = "commit"] \/ op' = [op EXCEPT !.at = a]
    BY <1>4 DEF LoadRepository, ClearQueueIfClean, Complete, Release, Goto, AfterFlush
  <2>2. CASE op' = Idle
    BY <2>1, <2>2, RejectFrame DEF Idle, Undoable, Before, Undone, Imported
  <2>3. ASSUME NEW a \in {"snapshot", "queue", "backend", "done"},
               op' = [op EXCEPT !.at = a, !.next = "commit"]
        PROVE  RejectInv'
    <3>1. op'.at = a /\ op'.next = "commit"
      BY <1>1, <2>3 DEF Operation
    <3> QED
      BY <2>1, <3>1, RejectFrame DEF Undoable, Before, Undone, Imported
  <2>4. CASE /\ ClearQueueIfClean \/ Complete
    <3>1. op'.at \in {"backend", "done"}
      BY <1>1, <2>4 DEF Operation, ClearQueueIfClean, Complete, Goto, AfterFlush
    <3> QED
      BY <2>1, <3>1, RejectFrame DEF Undoable, Before, Undone, Imported
  <2>5. CASE LoadRepository
    BY <2>3, <2>5 DEF LoadRepository
  <2>6. CASE Release
    BY <2>2, <2>6 DEF Release
  <2> QED
    BY <1>4, <2>4, <2>5, <2>6
<1>5. CASE Snapshot
  <2>1. op' = [op EXCEPT !.at = "replace", !.mat = version, !.staged = content]
          /\ op.at = "snapshot" /\ UNCHANGED <<content, commits, answer>>
    BY <1>5 DEF Snapshot, Working
  <2>2. op'.at = "replace" /\ op'.files = op.files /\ op'.kind = op.kind /\ op'.next = op.next
    BY <1>1, <2>1 DEF Operation
  <2> QED
    BY <2>1, <2>2, RejectFrame DEF Undoable, Before, Undone, Imported
<1>6. CASE ReplaceWorktree
  <2>1. op' = [op EXCEPT !.at = op.next] /\ op.at = "replace"
          /\ UNCHANGED <<content, commits, answer>>
    BY <1>6 DEF ReplaceWorktree, Working, Goto
  <2>2. op'.at = op.next /\ op'.files = op.files /\ op'.kind = op.kind /\ op'.next = op.next
          /\ op.next \in {"none", "commit", "record", "resync"}
    BY <1>1, <2>1 DEF Operation
  <2> QED
    BY <2>1, <2>2, RejectFrame DEF Undoable, Before, Undone, Imported
<1>7. CASE CommitStaged
  <2>1. op' = [op EXCEPT !.at = "complete"] /\ UNCHANGED <<content, answer>>
    BY <1>7 DEF CommitStaged, Goto
  <2>2. op'.at = "complete"
    BY <1>1, <2>1 DEF Operation
  <2>3. commits' = commits \/ commits' = Append(commits, [parent |-> head, tree |-> worktree,
                                                          authors |-> authors])
    BY <1>7 DEF CommitStaged, NewCommit, CommitAuthors
  <2>4. [parent |-> head, tree |-> worktree, authors |-> authors] \in Commit
    BY <1>1 DEF Commit
  <2> QED
    BY <2>1, <2>2, <2>3, <2>4, RejectFrame DEF Undoable, Before, Undone, Imported
<1>8. CASE UploadPack \/ CaptureSession
  <2>1. op'.at \in {"done", "backend"} /\ UNCHANGED <<content, commits, answer>>
    BY <1>1, <1>8 DEF UploadPack, CaptureSession, Goto, Operation
  <2> QED
    BY <2>1, RejectFrame DEF Undoable, Before, Undone, Imported
<1>9. CASE Reconcile
  <2>1. op.at = "reconcile" /\ UNCHANGED <<content, commits, head>> /\ op.next = "none"
          /\ answer.what /= "rejected"
    BY <1>3, <1>9 DEF Reconcile, Working
  <2>2. CASE ~Moved
    <3>1. op' = [op EXCEPT !.at = "done"] /\ answer' = [answer EXCEPT !.what = "refused"]
      BY <1>9, <2>2 DEF Reconcile, Goto
    <3>2. op'.at = "done" /\ answer'.what = "refused"
      BY <1>1, <3>1 DEF Operation
    <3> QED
      BY <2>1, <3>2, RejectFrame DEF Undoable, Before, Undone, Imported
  <2>3. CASE Moved
    <3>1. /\ answer' = answer
          /\ \/ op' = [op EXCEPT !.at = "restore", !.may = FALSE]
             \/ op' = [op EXCEPT !.at = "merge"] \/ op' = [op EXCEPT !.at = "import"]
      BY <1>9, <2>3 DEF Reconcile, Goto
    <3>2. op'.at \in {"restore", "merge", "import"} /\ op'.files = op.files
      BY <1>1, <3>1 DEF Operation
    <3> QED
      BY <2>1, <2>3, <3>1, <3>2, RejectFrame DEF Undoable, Before, Undone, Imported
  <2> QED
    BY <2>2, <2>3
<1>10. CASE RecordSync
  <2>1. /\ op' = [op EXCEPT !.at = "done"] /\ answer' = [answer EXCEPT !.what = "accepted"]
        /\ UNCHANGED <<content, commits>>
    BY <1>10 DEF RecordSync, Goto
  <2>2. op'.at = "done" /\ answer'.what = "accepted"
    BY <1>1, <2>1 DEF Operation
  <2> QED
    BY <2>1, <2>2, RejectFrame DEF Undoable, Before, Undone, Imported
<1>11. CASE RestoreHead
  <2>1. /\ op' = [op EXCEPT !.at = IF op.may THEN "undo" ELSE "reload"] /\ op.at = "restore"
        /\ UNCHANGED <<content, commits, answer>>
    BY <1>11 DEF RestoreHead, Goto, Working
  <2>2. op'.at = (IF op.may THEN "undo" ELSE "reload") /\ op'.files = op.files
    BY <1>1, <2>1 DEF Operation
  <2> QED
    BY <2>1, <2>2, RejectFrame DEF Undoable, Before, Undone, Imported
<1>12. CASE ReloadRepository
  <2>1. /\ op.at = "reload" /\ answer' = [answer EXCEPT !.what = "rejected"]
        /\ \E n \in {"commit", "resync"} : op' = [op EXCEPT !.at = "snapshot", !.next = n]
        /\ UNCHANGED <<content, commits>>
    BY <1>12 DEF ReloadRepository, Working
  <2>2. /\ op'.at = "snapshot" /\ op'.next \in {"commit", "resync"}
        /\ answer'.commit = answer.commit /\ answer'.kept = answer.kept
    BY <1>1, <2>1 DEF Operation
  <2> QED
    BY <2>1, <2>2, RejectFrame DEF Undoable, Before, Undone, Imported
<1>13. CASE RecordRestored
  <2>1. op'.at = "done" /\ UNCHANGED <<content, commits, answer>>
    BY <1>1, <1>13 DEF RecordRestored, Goto, Operation
  <2> QED
    BY <2>1, RejectFrame DEF Undoable, Before, Undone, Imported
<1>14. CASE StepFails
  <2>1. /\ UNCHANGED <<content, commits>>
        /\ answer' = answer \/ answer' = [answer EXCEPT !.what = "failed"]
    BY <1>14 DEF StepFails
  <2>2. /\ answer'.commit = answer.commit /\ answer'.kept = answer.kept
        /\ answer'.what \in {answer.what, "failed"}
    BY <1>1, <2>1
  <2>3. \/ op' = [op EXCEPT !.at = "done"]
        \/ /\ op' = [op EXCEPT !.at = "restore", !.may = TRUE]
           /\ op.kind = "push" /\ ~Restoring /\ op.at \in {"snapshot", "replace", "record"}
    BY <1>14 DEF StepFails, Goto
  <2>4. CASE op' = [op EXCEPT !.at = "done"]
    <3>1. op'.at = "done"
      BY <1>1, <2>4 DEF Operation
    <3> QED
      BY <2>1, <2>2, <3>1, RejectFrame DEF Undoable, Before, Undone, Imported
  <2>5. CASE /\ op' = [op EXCEPT !.at = "restore", !.may = TRUE]
             /\ op.kind = "push" /\ ~Restoring /\ op.at \in {"snapshot", "replace", "record"}
    <3>1. op'.at = "restore" /\ op'.may = TRUE /\ op'.files = op.files
      BY <1>1, <2>5 DEF Operation
    <3>2. op.next /= "none"
      BY <2>5 DEF IInv, PhaseInv
    <3>3. op.next = "record"
      BY <1>1, <2>5, <3>2 DEF Restoring, Operation
    <3>4. Imported
      BY <2>5, <3>3 DEF Imported
    <3>5. Undone' => Undone
      BY <2>2, <3>1 DEF Undone
    <3> QED
      BY <2>1, <2>2, <3>1, <3>4, <3>5, RejectFrame DEF Undoable, Before
  <2> QED
    BY <2>3, <2>4, <2>5
<1>15. CASE Stop
  <2>1. op' = Idle /\ UNCHANGED <<content, commits, answer>>
    BY <1>15 DEF Stop
  <2> QED
    BY <2>1, RejectFrame DEF Idle, Undoable, Before, Undone, Imported
<1> QED
  BY <1>4, <1>5, <1>6, <1>7, <1>8, <1>9, <1>10, <1>11, <1>12, <1>13, <1>14, <1>15

LEMMA RejectReceiveStep ==
    ASSUME IInv, RejectInv, MadeInv, NEW c \in Pushes, NEW p \in Paths, ReceivePack(c, p)
    PROVE  RejectInv'
<1>1. op \in Operation /\ commits \in Seq(Commit) /\ clone \in 0..Len(commits)
  BY DEF IInv, TypeInv
<1>2. op.at = "backend" /\ op.kind = "push" /\ c \notin made
        /\ content' = content /\ answer' = [NoAnswer EXCEPT !.commit = Len(commits) + 1]
  BY DEF ReceivePack, Working, project
<1>3. answer'.what = "none" /\ answer'.commit = Len(commits) + 1
  BY <1>2 DEF NoAnswer
<1>4. op.next = "none" /\ head = op.before
  BY <1>2 DEF IInv, PhaseInv, PushInv
<1>5. /\ op'.at \in {"reconcile", "restore"} /\ op'.files = op.files /\ op'.before = op.before
      /\ op'.next = "none"
  BY <1>1, <1>4 DEF ReceivePack, Goto, Operation
<1>6. CASE commits' = commits /\ head' = head /\ op'.at = "reconcile"
  BY <1>3, <1>4, <1>5, <1>6 DEF RejectInv, Undoable, Before, Undone, Imported, Moved
<1>7. CASE \E tree \in PushedTrees(c, p) : NewCommit(clone, tree, {})
  <2>1. PICK tree \in PushedTrees(c, p) :
          commits' = Append(commits, [parent |-> clone, tree |-> tree, authors |-> {}])
    BY <1>7 DEF NewCommit
  <2>2. TreeIn(commits, clone) \in Tree
    BY <1>1, TreeType
  <2>3. /\ tree \in Tree
        /\ \A d \in Pushes, q \in Paths :
             Holds(tree[q], d) => Holds(TreeIn(commits, clone)[q], d) \/ d = c
    BY <2>2, PushedEdits
  <2> DEFINE cm == [parent |-> clone, tree |-> tree, authors |-> {}]
  <2>4. cm \in Commit /\ cm.parent = clone /\ cm.tree = tree
    BY <1>1, <2>3 DEF Commit
  <2> HIDE DEF cm
  <2>5. /\ commits'[Len(commits) + 1] = cm
        /\ TreeIn(commits', Len(commits) + 1) = tree
        /\ TreeIn(commits', clone) = TreeIn(commits, clone)
    BY <1>1, <2>1, <2>4, AppendTree DEF cm
  <2>6. PushedOf(commits', answer'.commit) \subseteq {c}
    BY <1>3, <2>3, <2>4, <2>5 DEF PushedOf
  <2>7. \A q \in Paths : ~Holds(content[q], c) /\ ~Holds(op.files[q], c)
    BY <1>2 DEF MadeInv, Known
  <2>8. FreeOfPush(content)' /\ FreeOfPush(op.files)'
    BY <1>2, <1>5, <2>6, <2>7 DEF FreeOfPush
  <2> QED
    BY <1>3, <1>5, <2>8 DEF RejectInv, Undone
<1>8. \/ commits' = commits /\ head' = head /\ op'.at = "reconcile"
      \/ \E tree \in PushedTrees(c, p) : NewCommit(clone, tree, {})
  <2>1. CASE op' = Goto("reconcile") /\ UNCHANGED repository
    BY <1>1, <2>1 DEF Goto, Operation, repository
  <2> QED
    BY <2>1 DEF ReceivePack
<1> QED
  BY <1>6, <1>7, <1>8

\* An import: the files that were captured stay free of the push.
LEMMA RejectImportStep ==
    ASSUME IInv, RejectInv, ImportPushedWorkspace \/ MergeOnlineDelta
    PROVE  RejectInv'
<1>1. op \in Operation
  BY DEF IInv, TypeInv
<1>2. op.at \in {"import", "merge"} /\ commits' = commits /\ answer' = answer
  BY DEF ImportPushedWorkspace, MergeOnlineDelta, Working, repository
<1>3. op.kind = "push" /\ op.next = "none" /\ answer.what /= "rejected"
  BY <1>2 DEF IInv, PhaseInv, AnswerInv
<1>4. \/ \E b \in BOOLEAN : Reject(b)
      \/ \E a \in {"record", "snapshot"} :
           op' = [op EXCEPT !.at = a, !.mat = version + 1, !.next = "record"]
  BY DEF ImportPushedWorkspace, MergeOnlineDelta, ApplyImport
<1>5. op'.at \in {"restore", "record", "snapshot"} /\ op'.files = op.files
  BY <1>1, <1>4 DEF Reject, Operation
<1>6. FreeOfPush(op.files) /\ FreeOfPush(content)
  BY <1>2 DEF RejectInv, Undoable, Before
<1>7. op'.at = "restore" /\ ~op'.may => content' = content
  <2>1. CASE \E tree, then : ApplyImport(tree, op.version, then)
    <3>1. PICK tree, then : ApplyImport(tree, op.version, then)
      BY <2>1
    <3>2. CASE op' = [op EXCEPT !.at = then, !.mat = version + 1, !.next = "record"]
      <4>1. op'.next = "record"
        BY <1>1, <3>2 DEF Operation
      <4>2. \A b : ~Reject(b)
        BY <1>1, <1>3, <4>1 DEF Reject, Operation
      <4>3. \E a \in {"record", "snapshot"} :
              op' = [op EXCEPT !.at = a, !.mat = version + 1, !.next = "record"]
        BY <1>4, <4>2
      <4> QED
        BY <1>1, <4>3 DEF Operation
    <3> QED
      BY <3>1, <3>2 DEF ApplyImport, project
  <2>2. CASE Reject(TRUE)
    <3>1. op'.may = TRUE
      BY <1>1, <2>2 DEF Reject, Operation
    <3> QED
      BY <3>1
  <2>3. CASE UNCHANGED project
    BY <2>3 DEF project
  <2> QED
    BY <2>1, <2>2, <2>3 DEF ImportPushedWorkspace, MergeOnlineDelta
<1>8. FreeOfPush(op.files)'
  BY <1>2, <1>5, <1>6 DEF FreeOfPush
<1>9. Before' => FreeOfPush(content)'
  BY <1>2, <1>5, <1>6, <1>7 DEF FreeOfPush, Before
<1>10. ~Undone'
  BY <1>2, <1>3, <1>5 DEF Undone
<1> QED
  BY <1>8, <1>9, <1>10 DEF RejectInv

\* The undo: the files are put back, the Workspace never changed, or newer edits
\* are kept and the answer says so.
LEMMA RejectUndoStep ==
    ASSUME IInv, RejectInv, RestoreWorkspace
    PROVE  RejectInv'
<1>1. op \in Operation /\ version \in Nat /\ op.version \in Nat
        /\ answer \in [what : {"none", "accepted", "refused", "rejected", "failed"},
                       commit : Nat, kept : BOOLEAN]
  BY DEF IInv, TypeInv, Operation
<1>2. /\ op.at = "undo" /\ op' = [op EXCEPT !.at = "reload"] /\ commits' = commits
      /\ answer' = [answer EXCEPT !.kept = version > op.version + 1]
  BY DEF RestoreWorkspace, Working, Goto, repository
<1>3. op'.at = "reload" /\ answer'.commit = answer.commit
        /\ answer'.kept = (version > op.version + 1)
  BY <1>1, <1>2 DEF Operation
<1>4. FreeOfPush(op.files)
  BY <1>2 DEF RejectInv, Undoable
<1>5. ASSUME ~(version > op.version + 1) PROVE content' = op.files
  <2>1. CASE version = op.version + 1
    BY <2>1 DEF RestoreWorkspace, ReplaceContent
  <2>2. CASE version /= op.version + 1
    <3>1. ContentFollows(op.files, op.version) \/ ImportOK
      BY <1>2 DEF IInv, PushInv
    <3>2. version = op.version /\ content = op.files
      BY <1>1, <1>5, <2>2, <3>1 DEF ContentFollows, Follows, ImportOK
    <3> QED
      BY <2>2, <3>2 DEF RestoreWorkspace, project
  <2> QED
    BY <2>1, <2>2
<1>6. answer'.kept \/ FreeOfPush(content)'
  BY <1>2, <1>3, <1>4, <1>5 DEF FreeOfPush
<1> QED
  BY <1>3, <1>6 DEF RejectInv, Undoable, Before, Imported

LEMMA RejectEditStep ==
    ASSUME IInv, RejectInv, NEW e \in Edits, NEW S, Edited(content', content, e, S),
           UNCHANGED <<commits, head, op, answer>>
    PROVE  RejectInv'
<1>1. \A c \in Pushes, p \in Paths : Holds(content'[p], c) => Holds(content[p], c)
  BY AtomsAssumption DEF Edited, Atoms
<1>2. FreeOfPush(content) => FreeOfPush(content)'
  BY <1>1 DEF FreeOfPush, PushedOf
<1>3. FreeOfPush(op.files) => FreeOfPush(op.files)'
  BY DEF FreeOfPush
<1> QED
  BY <1>2, <1>3 DEF RejectInv, Undoable, Before, Undone, Imported, Moved

LEMMA RejectBeginsStep ==
    ASSUME IInv, RejectInv,
           FlushWorker \/ CreateRevision \/ FlushForCheckpoint
             \/ \E kind \in {"fetch", "push"} : GitHttpBackend(kind)
    PROVE  RejectInv'
<1>1. /\ content' = content /\ commits' = commits
      /\ answer' \in {answer, NoAnswer}
  BY DEF FlushWorker, CreateRevision, FlushForCheckpoint, GitHttpBackend, project, repository
<1>2. op'.at \in {"config", "snapshot", "capture", "backend"} /\ op'.next \in {"none", "commit"}
  BY DEF FlushWorker, CreateRevision, FlushForCheckpoint, GitHttpBackend, Idle
<1>3. NoAnswer.what = "none"
  BY DEF NoAnswer
<1>4. ~Undoable' /\ ~Before' /\ (Undone' => Undone /\ answer' = answer)
  BY <1>1, <1>2, <1>3 DEF Undoable, Before, Undone, Imported
<1> QED
  BY <1>1, <1>4, RejectFrame

\* Steps that make no new tree.
Trees == {content, worktree, op.files, op.staged, NoFiles}
           \cup {TreeIn(commits, n) : n \in 0..Len(commits)}

LEMMA TreesKnown ==
    ASSUME IInv, MadeInv, NEW t \in Trees
    PROVE  Known(t, made)
<1>1. Known(NoFiles, made)
  BY DEF Known, NoFiles, Holds
<1>2. commits \in Seq(Commit)
  BY DEF IInv, TypeInv
<1>3. \A n \in 0..Len(commits) : Known(TreeIn(commits, n), made)
  BY <1>1, <1>2 DEF MadeInv, TreeIn
<1> QED
  BY <1>1, <1>3 DEF Trees, MadeInv

LEMMA MadeFrame ==
    ASSUME IInv, MadeInv, made \subseteq made',
           Known(content', made'), Known(worktree', made'),
           Known(op'.files, made'), Known(op'.staged, made'),
           \/ commits' = commits
           \/ \E cm \in Commit : commits' = Append(commits, cm) /\ Known(cm.tree, made')
    PROVE  MadeInv'
<1>1. commits \in Seq(Commit)
  BY DEF IInv, TypeInv
<1>2. \A n \in DOMAIN commits : Known(commits[n].tree, made')
  BY DEF MadeInv, Known
<1>3. CASE commits' = commits
  BY <1>2, <1>3 DEF MadeInv
<1>4. ASSUME NEW cm \in Commit, commits' = Append(commits, cm), Known(cm.tree, made')
      PROVE  MadeInv'
  <2>1. \A n \in DOMAIN commits' : commits'[n] = cm \/ (n \in DOMAIN commits /\ commits'[n] = commits[n])
    BY <1>1, <1>4, AppendTree
  <2> QED
    BY <1>2, <1>4, <2>1 DEF MadeInv
<1> QED
  BY <1>3, <1>4

LEMMA MadeTreesStep ==
    ASSUME IInv, MadeInv, made \subseteq made', content' \in Trees, worktree' \in Trees,
           op'.files \in Trees, op'.staged \in Trees,
           \/ commits' = commits
           \/ \E cm \in Commit : commits' = Append(commits, cm) /\ cm.tree \in Trees
    PROVE  MadeInv'
<1>1. ASSUME NEW t \in Trees PROVE Known(t, made')
  BY <1>1, TreesKnown DEF Known
<1> QED
  BY <1>1, MadeFrame

LEMMA MadeQuietStep ==
    ASSUME IInv, MadeInv,
           \/ LoadRepository \/ ClearQueueIfClean \/ Snapshot \/ ReplaceWorktree
           \/ CommitStaged \/ Complete \/ UploadPack \/ CaptureSession
           \/ Reconcile \/ RecordSync \/ RestoreHead \/ RestoreWorkspace \/ ReloadRepository
           \/ RecordRestored \/ Release \/ StepFails \/ Stop
           \/ FlushWorker \/ CreateRevision \/ FlushForCheckpoint
           \/ \E kind \in {"fetch", "push"} : GitHttpBackend(kind)
    PROVE  MadeInv'
<1> USE DEF project, repository
<1>1. op \in Operation /\ worktree \in Tree /\ authors \subseteq Edits /\ head \in 0..Len(commits)
        /\ op.before \in 0..Len(commits)
  BY DEF IInv, TypeInv
<1>2. made' = made
  BY DEF LoadRepository, ClearQueueIfClean, Snapshot, ReplaceWorktree, CommitStaged, Complete,
         UploadPack, CaptureSession, Reconcile, RecordSync, RestoreHead, RestoreWorkspace,
         ReloadRepository, RecordRestored, Release, StepFails, Stop, FlushWorker, CreateRevision,
         FlushForCheckpoint, GitHttpBackend
<1>3. /\ {content, worktree, op.files, op.staged, NoFiles} \subseteq Trees
      /\ TreeIn(commits, op.before) \in Trees
  BY <1>1 DEF Trees
<1>4. CASE LoadRepository \/ ClearQueueIfClean \/ Complete \/ UploadPack \/ Reconcile
             \/ RecordSync \/ ReloadRepository \/ RecordRestored \/ StepFails
  <2>1. UNCHANGED <<content, worktree, commits>>
    BY <1>4 DEF LoadRepository, ClearQueueIfClean, Complete, UploadPack, Reconcile, RecordSync,
                ReloadRepository, RecordRestored, StepFails
  <2>2. \/ \E a : op' = [op EXCEPT !.at = a]
        \/ \E a, b : op' = [op EXCEPT !.at = a, !.may = b] \/ op' = [op EXCEPT !.at = a, !.next = b]
    <3>1. CASE Reconcile
      BY <3>1 DEF Reconcile, Goto
    <3>2. CASE StepFails
      BY <3>2 DEF StepFails, Goto
    <3>3. CASE LoadRepository \/ ReloadRepository
      BY <3>3, Zenon DEF LoadRepository, ReloadRepository
    <3> QED
      BY <1>4, <3>1, <3>2, <3>3 DEF ClearQueueIfClean, Complete, UploadPack, RecordSync,
                                    RecordRestored, Goto
  <2>3. op'.files = op.files /\ op'.staged = op.staged
    BY <1>1, <2>2 DEF Operation
  <2> QED
    BY <1>2, <1>3, <2>1, <2>3, MadeTreesStep
<1>5. CASE Snapshot
  <2>1. op' = [op EXCEPT !.at = "replace", !.mat = version, !.staged = content]
          /\ UNCHANGED <<content, worktree, commits>>
    BY <1>5 DEF Snapshot
  <2>2. op'.files = op.files /\ op'.staged = content
    BY <1>1, <2>1 DEF Operation
  <2> QED
    BY <1>2, <1>3, <2>1, <2>2, MadeTreesStep
<1>6. CASE ReplaceWorktree \/ RestoreHead
  <2>1. /\ \E a : op' = [op EXCEPT !.at = a]
        /\ worktree' \in {op.staged, TreeIn(commits, op.before)}
        /\ UNCHANGED <<content, commits>>
    BY <1>6, TreeAtIn DEF ReplaceWorktree, RestoreHead, Goto
  <2>2. op'.files = op.files /\ op'.staged = op.staged
    BY <1>1, <2>1 DEF Operation
  <2> QED
    BY <1>2, <1>3, <2>1, <2>2, MadeTreesStep
<1>7. CASE CommitStaged
  <2>1. op' = [op EXCEPT !.at = "complete"] /\ UNCHANGED <<content, worktree>>
    BY <1>7 DEF CommitStaged, Goto
  <2>2. op'.files = op.files /\ op'.staged = op.staged
    BY <1>1, <2>1 DEF Operation
  <2> DEFINE cm == [parent |-> head, tree |-> worktree, authors |-> authors]
  <2>3. commits' = commits \/ commits' = Append(commits, cm)
    BY <1>7 DEF CommitStaged, NewCommit, CommitAuthors
  <2>4. cm \in Commit /\ cm.tree = worktree
    BY <1>1 DEF Commit
  <2> HIDE DEF cm
  <2> QED
    BY <1>2, <1>3, <2>1, <2>2, <2>3, <2>4, MadeTreesStep
<1>8. CASE CaptureSession
  <2>1. op' = [op EXCEPT !.at = "backend", !.before = head, !.files = content, !.version = version]
          /\ UNCHANGED <<content, worktree, commits>>
    BY <1>8 DEF CaptureSession
  <2>2. op'.files = content /\ op'.staged = op.staged
    BY <1>1, <2>1 DEF Operation
  <2> QED
    BY <1>2, <1>3, <2>1, <2>2, MadeTreesStep
<1>9. CASE RestoreWorkspace
  <2>1. /\ op' = [op EXCEPT !.at = "reload"] /\ UNCHANGED <<worktree, commits>>
        /\ content' \in {content, op.files}
    BY <1>9 DEF RestoreWorkspace, Goto, ReplaceContent
  <2>2. op'.files = op.files /\ op'.staged = op.staged
    BY <1>1, <2>1 DEF Operation
  <2> QED
    BY <1>2, <1>3, <2>1, <2>2, MadeTreesStep
<1>10. CASE Release \/ Stop
  <2>1. /\ op' = Idle /\ UNCHANGED <<content, commits>>
        /\ worktree' \in {worktree, op.staged, NoFiles}
    BY <1>10 DEF Release, Stop
  <2>2. op'.files = NoFiles /\ op'.staged = NoFiles
    BY <2>1 DEF Idle
  <2> QED
    BY <1>2, <1>3, <2>1, <2>2, MadeTreesStep
<1>11. CASE FlushWorker \/ CreateRevision \/ FlushForCheckpoint
              \/ \E kind \in {"fetch", "push"} : GitHttpBackend(kind)
  <2>1. UNCHANGED <<content, worktree, commits>>
    BY <1>11 DEF FlushWorker, CreateRevision, FlushForCheckpoint, GitHttpBackend
  <2>2. op'.files = NoFiles /\ op'.staged = NoFiles
    BY <1>11 DEF FlushWorker, CreateRevision, FlushForCheckpoint, GitHttpBackend, Idle
  <2> QED
    BY <1>2, <1>3, <2>1, <2>2, MadeTreesStep
<1> QED
  BY <1>4, <1>5, <1>6, <1>7, <1>8, <1>9, <1>10, <1>11

LEMMA MadeReceiveStep ==
    ASSUME IInv, MadeInv, NEW c \in Pushes, NEW p \in Paths, ReceivePack(c, p)
    PROVE  MadeInv'
<1>1. op \in Operation /\ commits \in Seq(Commit) /\ clone \in 0..Len(commits)
  BY DEF IInv, TypeInv
<1>2. made' = made \cup {c} /\ content' = content
  BY DEF ReceivePack, project
<1>3. op'.files = op.files /\ op'.staged = op.staged
  BY <1>1 DEF ReceivePack, Goto, Operation
<1>4. Known(content', made') /\ Known(op'.files, made') /\ Known(op'.staged, made')
        /\ Known(worktree, made')
  BY <1>2, <1>3 DEF MadeInv, Known
<1>5. CASE UNCHANGED repository
  BY <1>2, <1>4, <1>5, MadeFrame DEF repository
<1>6. ASSUME NEW tree \in PushedTrees(c, p), NewCommit(clone, tree, {}), worktree' = tree
      PROVE  MadeInv'
  <2>1. TreeIn(commits, clone) \in Tree /\ TreeIn(commits, clone) \in Trees
    BY <1>1, TreeType DEF Trees
  <2>2. /\ tree \in Tree
        /\ \A d \in Pushes, q \in Paths :
             Holds(tree[q], d) => Holds(TreeIn(commits, clone)[q], d) \/ d = c
    BY <2>1, PushedEdits
  <2>3. Known(TreeIn(commits, clone), made)
    BY <2>1, TreesKnown
  <2>4. Known(tree, made')
    BY <1>2, <2>2, <2>3 DEF Known
  <2> DEFINE cm == [parent |-> clone, tree |-> tree, authors |-> {}]
  <2>5. cm \in Commit /\ cm.tree = tree
    BY <1>1, <2>2 DEF Commit
  <2>6. commits' = Append(commits, cm)
    BY <1>6 DEF NewCommit
  <2> HIDE DEF cm
  <2> QED
    BY <1>2, <1>4, <1>6, <2>4, <2>5, <2>6, MadeFrame
<1>7. \/ UNCHANGED repository
      \/ \E tree \in PushedTrees(c, p) : NewCommit(clone, tree, {}) /\ worktree' = tree
  BY DEF ReceivePack
<1> QED
  BY <1>5, <1>6, <1>7

LEMMA MadeImportStep ==
    ASSUME IInv, MadeInv, ImportPushedWorkspace \/ MergeOnlineDelta
    PROVE  MadeInv'
<1>1. op \in Operation /\ commits \in Seq(Commit) /\ head \in 0..Len(commits)
        /\ op.before \in 0..Len(commits) /\ op.files \in Tree
  BY DEF IInv, TypeInv, Operation
<1>2. made' = made /\ UNCHANGED <<worktree, commits>>
  BY DEF ImportPushedWorkspace, MergeOnlineDelta, repository
<1>3. \/ \E b : op' = [op EXCEPT !.at = "restore", !.may = b]
      \/ \E a, v : op' = [op EXCEPT !.at = a, !.mat = v, !.next = "record"]
  BY DEF ImportPushedWorkspace, MergeOnlineDelta, ApplyImport, Reject
<1>4. op'.files = op.files /\ op'.staged = op.staged
  BY <1>1, <1>3 DEF Operation
<1>5. Known(TreeIn(commits, head), made) /\ Known(TreeIn(commits, op.before), made)
        /\ Known(op.files, made) /\ Known(content, made)
  BY <1>1, TreesKnown DEF Trees
<1>6. Known(content', made)
  <2>1. CASE ImportPushedWorkspace
    <3>1. content' = content \/ content' = TreeIn(commits, head)
      BY <2>1, TreeAtIn DEF ImportPushedWorkspace, ApplyImport, ImportFails, ReplaceContent, project
    <3> QED
      BY <1>5, <3>1
  <2>2. CASE MergeOnlineDelta
    <3>1. PICK m \in MergeOnlineOverPushed(TreeIn(commits, op.before), TreeIn(commits, head), op.files) :
            \/ content' = content
            \/ content' = m /\ \A p \in Paths : m[p] /= Conflict
      BY <2>2, TreeAtIn DEF MergeOnlineDelta, ApplyImport, ImportFails, ReplaceContent, project
    <3>2. CASE content' = m /\ \A p \in Paths : m[p] /= Conflict
      <4>1. TreeIn(commits, op.before) \in Tree /\ TreeIn(commits, head) \in Tree
        BY <1>1, TreeType
      <4>2. \A c \in Pushes, p \in Paths :
              Holds(m[p], c) => Holds(TreeIn(commits, head)[p], c) \/ Holds(op.files[p], c)
        BY <1>1, <3>2, <4>1, MergedEdits DEF Atoms
      <4> QED
        BY <1>5, <3>2, <4>2 DEF Known
    <3> QED
      BY <1>5, <3>1, <3>2
  <2> QED
    BY <2>1, <2>2
<1> QED
  BY <1>2, <1>4, <1>6, MadeFrame DEF MadeInv

LEMMA MadeEditStep ==
    ASSUME IInv, MadeInv, NEW e \in Edits, NEW S, Edited(content', content, e, S),
           UNCHANGED <<commits, worktree, op>>, made \subseteq made'
    PROVE  MadeInv'
<1>1. Known(content', made')
  BY AtomsAssumption DEF Edited, Atoms, MadeInv, Known
<1>2. Known(worktree', made') /\ Known(op'.files, made') /\ Known(op'.staged, made')
  BY DEF MadeInv, Known
<1> QED
  BY <1>1, <1>2, MadeFrame

LEMMA PushNextInv ==
    ASSUME IInv, MadeInv, RejectInv, [Next]_vars
    PROVE  MadeInv' /\ RejectInv'
<1>1. CASE UNCHANGED vars \/ ListDueProjects
  <2>1. UNCHANGED <<content, commits, head, worktree, op, answer, made>>
    BY <1>1 DEF vars, project, repository, ListDueProjects
  <2> QED
    BY <2>1 DEF MadeInv, RejectInv, Undoable, Before, Undone, Imported, Moved, FreeOfPush
<1>2. CASE \E e \in Edits, p \in Paths : Edit(e, p) \/ \E q \in Paths : Move(e, p, q)
  <2>1. PICK e \in Edits, p \in Paths : Edit(e, p) \/ \E q \in Paths : Move(e, p, q)
    BY <1>2
  <2>2. content \in Tree
    BY DEF IInv, TypeInv
  <2>3. \E S : Edited(content', content, e, S)
    BY <2>1, <2>2, EditedByEdit, EditedByMove
  <2>4. UNCHANGED <<commits, head, worktree, op, answer>> /\ made \subseteq made'
    BY <2>1 DEF Edit, Move, repository
  <2> QED
    BY <2>3, <2>4, MadeEditStep, RejectEditStep
<1>3. CASE FlushWorker \/ CreateRevision \/ FlushForCheckpoint
             \/ \E kind \in {"fetch", "push"} : GitHttpBackend(kind)
  BY <1>3, MadeQuietStep, RejectBeginsStep
<1>4. CASE OpStep
  <2>1. CASE \E c \in Pushes, p \in Paths : ReceivePack(c, p)
    BY <2>1, MadeReceiveStep, RejectReceiveStep
  <2>2. CASE ImportPushedWorkspace \/ MergeOnlineDelta
    BY <2>2, MadeImportStep, RejectImportStep
  <2>3. CASE RestoreWorkspace
    BY <2>3, MadeQuietStep, RejectUndoStep
  <2>4. CASE \/ LoadRepository \/ ClearQueueIfClean \/ Snapshot \/ ReplaceWorktree
             \/ CommitStaged \/ Complete \/ UploadPack \/ CaptureSession
             \/ Reconcile \/ RecordSync \/ RestoreHead \/ ReloadRepository \/ RecordRestored
             \/ Release
    BY <2>4, MadeQuietStep, RejectQuietStep
  <2> QED
    BY <1>4, <2>1, <2>2, <2>3, <2>4 DEF OpStep
<1>5. CASE StepFails \/ Stop
  BY <1>5, MadeQuietStep, RejectQuietStep
<1> QED
  BY <1>1, <1>2, <1>3, <1>4, <1>5 DEF Next

\* What the owner is told about a push (ReceivePackSession::finalize) is true ever
\* after: an accepted commit stays in the branch's history; a rejected one never
\* enters it, and the Workspace has nothing of it unless newer edits were kept on
\* top of its import, whatever later edits, flushes, pushes and resets do.
THEOREM PushAnswersAreTrue == Spec => []PushAnswerIsTrue
<1>1. Init => MadeInv /\ RejectInv
  <2> SUFFICES ASSUME Init PROVE MadeInv /\ RejectInv
    OBVIOUS
  <2>1. op.at = "none" /\ op.files = NoFiles /\ op.staged = NoFiles /\ answer.what = "none"
    BY DEF Init, Idle, NoAnswer
  <2>2. Known(content, made) /\ Known(NoFiles, made) /\ DOMAIN commits = {}
    BY DEF Init, Known, Holds, NoFiles
  <2> QED
    BY <2>1, <2>2 DEF Init, MadeInv, RejectInv, Undoable, Before, Undone, Imported
<1>2. IInv /\ MadeInv /\ RejectInv /\ [Next]_vars => (MadeInv /\ RejectInv)'
  BY PushNextInv
<1>3. IInv /\ RejectInv => PushAnswerIsTrue
  <2> SUFFICES ASSUME IInv, RejectInv PROVE PushAnswerIsTrue
    OBVIOUS
  <2>1. PushedIn(answer.commit) = PushedOf(commits, answer.commit)
    BY TreeAtIn DEF PushedIn, PushedOf
  <2>2. answer.what = "rejected"
          => \/ answer.kept
             \/ \A c \in PushedIn(answer.commit), p \in Paths : ~Holds(content[p], c)
    BY <2>1 DEF RejectInv, Undone, FreeOfPush
  <2> QED
    BY <2>2, AncestorsAtIn DEF IInv, AnswerInv, PushAnswerIsTrue
<1> QED
  BY <1>1, <1>2, <1>3, Invariance, PTL DEF Spec
=============================================================================
