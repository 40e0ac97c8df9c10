---------------------------- MODULE MCVersioning ----------------------------
(***************************************************************************)
(* A small instance of Versioning for TLC: a project that begins with its  *)
(* entry file, or with its entry file and two assets.                      *)
(***************************************************************************)
EXTENDS Versioning
CONSTANTS main, fig, pic
MCPaths == {main, fig, pic}
MCTextPaths == {main}
MCStarters == {{main}, MCPaths}

\* The project began with its assets, as its first commit shows.
WithAssets ==
    IF commits = <<>> THEN content[pic] = {} ELSE commits[1].tree[pic] /= Absent

\* The project that begins with its entry file has at most one asset; all
\* operations and faults are explored there, with the time of every row new.
\* The one with two assets is there for their moves and for rows with old
\* times: its edits begin once the first commit is made, and it has no
\* faults and no requests of the owner's clone.
Scope ==
    /\ ~WithAssets => content[pic] = Absent /\ content[fig] /= {} /\ unseen = {}
    /\ WithAssets => /\ commits = <<>> => made = {}
                     /\ made \subseteq Edits /\ faults = 0
                     /\ op.kind \notin {"push", "fetch"}
=============================================================================
