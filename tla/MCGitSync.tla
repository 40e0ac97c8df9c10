----------------------------- MODULE MCGitSync -----------------------------
(* One project and one repository, over two or three trees of files. *)
EXTENDS GitSync
CONSTANTS c1, c2, bad
MCContents == {c1, c2, bad}
MCRejected == {bad}
=============================================================================
