---------------------------- MODULE MCWorkspace ----------------------------
(***************************************************************************)
(* A small instance of Workspace for TLC: a main file, a second file that  *)
(* may be the entry, the same second file inside a directory; the          *)
(* directory's path is not a text file's.                                  *)
(***************************************************************************)
EXTENDS Workspace

MCPaths == {<<"main">>, <<"d">>, <<"d", "main">>}
MCEntryPaths == {<<"main">>, <<"d", "main">>}
MCStarters == {{<<"main">>}, MCEntryPaths}

\* The browser has connected.
Followed == [client EXCEPT !.missed = FALSE] # Offline

\* The readers of snapshots and the browser do not meet.  The readers are
\* explored before a restart, which ends them.  Beside the browser there are
\* fewer changes of documents, and one transaction is open at a time, while
\* the changes of both handlers may wait to be announced.
Scope ==
  /\ Followed \/ counters.restarts > 0 =>
       snapshot = NoSnapshot /\ counters.sequence <= 3
  /\ Followed => Cardinality({h \in Handlers : handlers[h].phase = "writing"}) <= 1
=============================================================================
