---------------------------- MODULE MCAssetStore ----------------------------
(***************************************************************************)
(* A small instance of AssetStore for TLC.                                 *)
(***************************************************************************)
EXTENDS AssetStore

First == CHOOSE s \in Submitters : TRUE
FirstKey == CHOOSE i \in IdempotencyKeys : TRUE
LastKey == CHOOSE i \in IdempotencyKeys \ {FirstKey} : TRUE

\* Submissions without an asset are explored with every submitter, every
\* idempotency key and every job: they are about admission.  Once an object
\* has been stored, one submitter makes up to two jobs, the first of them
\* with FirstKey: they are there to pin the assets.
Scope ==
  counters.keys > 0 =>
    /\ \A s \in Submitters \ {First} : submitters[s] = NoSubmission
    /\ submitters[First].key # LastKey
    /\ counters.jobs = 2 => submitters[First].phase # "reserving"
    /\ counters.jobs <= 2
    /\ jobs[1].key \in {None, FirstKey} /\ jobs[2].key # LastKey
=============================================================================
