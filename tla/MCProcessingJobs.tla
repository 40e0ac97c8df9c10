-------------------------- MODULE MCProcessingJobs --------------------------
(***************************************************************************)
(* Small instances of ProcessingJobs for TLC.                              *)
(***************************************************************************)
EXTENDS ProcessingJobs

First == CHOOSE j \in Jobs : TRUE
FirstInput == CHOOSE i \in Inputs : TRUE
Submitted == {j \in Jobs : jobs[j].state # "none"}

\* One job is explored with every attempt and every Core process.  A second
\* one is submitted once the first (First, made of FirstInput) has succeeded,
\* and then each uses one attempt and one Core process is busy at a time: the
\* second is there to reuse the result of the first and to meet retention.
Scope ==
  /\ Submitted # {} => First \in Submitted
  /\ jobs[First].state \notin {"none", "deleted"} => jobs[First].queueExp = QueueWait
  /\ jobs[First].input \in {None, FirstInput}
  /\ Cardinality({c \in Cores : core[c].pc \in {"retaining", "maintained"}}) <= 1
  /\ Cardinality(Submitted) > 1 =>
       /\ jobs[First].state \in {"succeeded", "deleted"}
       /\ \A j \in Jobs : jobs[j].count <= 1 /\ jobs[j].queueExp <= QueueWait + 1
       /\ Cardinality({c \in Cores : core[c] # IdleCore}) <= 1
=============================================================================
