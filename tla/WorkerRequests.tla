--------------------------- MODULE WorkerRequests ---------------------------
(***************************************************************************)
(* The replay records of worker mutations: with_worker_request             *)
(* (worker_http.rs) around begin_worker_request, finish and abort          *)
(* (worker_idempotency.rs), for the request identifiers of one worker.     *)
(*                                                                         *)
(* A call reserves the identifier in one transaction, runs the mutation in *)
(* another and stores the response in a third.  The SDK repeats a request  *)
(* with the same identifier, so several calls may carry it at once, and a  *)
(* call may vanish between any two of the steps: the process stops, or the *)
(* connection closes and the handler's future is dropped.                  *)
(***************************************************************************)
EXTENDS WorkerCommon

CONSTANTS
  Ids,            \* request identifiers
  Payloads,       \* route and payload digests
  Calls,          \* handler executions, a bound on how many run at once
  PendingTTL,     \* REQUEST_PENDING_TTL
  ReplayTTL,      \* REQUEST_REPLAY_TTL
  MaxRun,         \* a handler ends within this time
  MaxEffects      \* bound: effects of an identifier before a commit with unknown outcome

ASSUME RequestsAssumption ==
  /\ None \notin Ids /\ None \notin Payloads
  /\ PendingTTL \in Nat /\ ReplayTTL \in Nat /\ MaxRun \in Nat /\ MaxEffects \in Nat

VARIABLES
  rows,     \* processing_worker_requests
  calls,    \* the running handlers
  runs,     \* how often the mutation of an identifier was run to an answer
  effects,  \* how often it changed the domain state, when it did last, and
            \* whether the handler knew that it had
  first,    \* the first answer the worker got for an identifier, and until
            \* when Core keeps it
  heard     \* the last answer the worker got

requestsVars == <<clock, rows, calls, runs, effects, first, heard>>

\* "pending" is status 102.  The answer of a run is identified by its number.
Row == [state: {"none", "pending", "done"}, payload: Payloads \cup {None},
        reply: Nat, expires: Nat]
NoRow == [state |-> "none", payload |-> None, reply |-> 0, expires |-> 0]

Call == [pc: {"idle", "running", "answered", "failed"}, id: Ids \cup {None},
         payload: Payloads \cup {None}, reply: Nat, since: Nat]
NoCall == [pc |-> "idle", id |-> None, payload |-> None, reply |-> 0, since |-> 0]

Heard == [id: Ids \cup {None}, asked: Payloads \cup {None},
          made: Payloads \cup {None}, reply: Nat, at: Nat]

RequestsTypeOK ==
  /\ clock \in Nat
  /\ rows \in [Ids -> Row]
  /\ calls \in [Calls -> Call]
  /\ runs \in [Ids -> Nat]
  /\ effects \in [Ids -> [count: Nat, at: Nat, known: BOOLEAN]]
  /\ first \in [Ids -> [reply: Nat, until: Nat]]
  /\ heard \in Heard

RequestsInit ==
  /\ clock = 0
  /\ rows = [r \in Ids |-> NoRow]
  /\ calls = [c \in Calls |-> NoCall]
  /\ runs = [r \in Ids |-> 0]
  /\ effects = [r \in Ids |-> [count |-> 0, at |-> 0, known |-> TRUE]]
  /\ first = [r \in Ids |-> [reply |-> 0, until |-> 0]]
  /\ heard = [id |-> None, asked |-> None, made |-> None, reply |-> 0, at |-> 0]

-----------------------------------------------------------------------------
Live(c) == calls[c].pc # "idle"

\* Time passes as long as every handler still has time to end.
RequestsTick ==
  /\ \A c \in Calls : Live(c) => clock - calls[c].since < MaxRun
  /\ Ticks
  /\ UNCHANGED <<rows, calls, runs, effects, first, heard>>

\* The response of a run reaches the worker, or is lost on the way.
Answer(r, asked, made, reply, until) ==
  \/ UNCHANGED <<first, heard>>
  \/ /\ heard' = [id |-> r, asked |-> asked, made |-> made, reply |-> reply, at |-> clock]
     /\ first' = IF first[r].reply = 0
                   THEN [first EXCEPT ![r] = [reply |-> reply, until |-> until]]
                   ELSE first

-----------------------------------------------------------------------------
(***************************************************************************)
(* begin_worker_request.                                                   *)
(***************************************************************************)
Free(r) == rows[r].state = "none" \/ rows[r].expires <= clock

\* No record, or a lapsed one: the call reserves the identifier and executes.
Reserve(c, r, p) ==
  /\ Open
  /\ ~Live(c)
  /\ Free(r)
  /\ rows' = [rows EXCEPT ![r] = [state |-> "pending", payload |-> p, reply |-> 0,
                                  expires |-> clock + PendingTTL]]
  /\ calls' = [calls EXCEPT ![c] = [pc |-> "running", id |-> r, payload |-> p,
                                    reply |-> 0, since |-> clock]]
  /\ UNCHANGED <<clock, runs, effects, first, heard>>

\* A stored response is replayed to a request with the same route and payload;
\* another payload is refused, and a pending record answers "in progress".
Replay(r, p) ==
  /\ Open
  /\ rows[r].state = "done" /\ rows[r].expires > clock
  /\ rows[r].payload = p
  /\ Answer(r, p, rows[r].payload, rows[r].reply, rows[r].expires)
  /\ UNCHANGED <<clock, rows, calls, runs, effects>>

-----------------------------------------------------------------------------
(***************************************************************************)
(* The mutation: one transaction, or one that is reported failed (a 5xx).  *)
(***************************************************************************)
Executed(r, known) ==
  effects' = [effects EXCEPT ![r] = [count |-> @.count + 1, at |-> clock, known |-> known]]

\* A response below 500: the mutation committed, or was refused.
ActionAnswers(c) ==
  /\ calls[c].pc = "running"
  /\ LET r == calls[c].id IN
     /\ runs' = [runs EXCEPT ![r] = @ + 1]
     /\ calls' = [calls EXCEPT ![c] = [@ EXCEPT !.pc = "answered",
                                                !.reply = runs[r] + 1]]
     /\ Executed(r, TRUE) \/ UNCHANGED effects
  /\ UNCHANGED <<clock, rows, first, heard>>

\* A server error: nothing was committed, or the outcome of the commit itself
\* was lost and it took effect.
ActionFails(c) ==
  /\ calls[c].pc = "running"
  /\ calls' = [calls EXCEPT ![c] = [@ EXCEPT !.pc = "failed"]]
  /\ \/ effects[calls[c].id].count < MaxEffects /\ Executed(calls[c].id, FALSE)
     \/ UNCHANGED effects
  /\ UNCHANGED <<clock, rows, runs, first, heard>>

-----------------------------------------------------------------------------
(***************************************************************************)
(* finish and abort find the reservation by identifier, route, payload and *)
(* pending status.  When it is gone the caller gets a server error.        *)
(***************************************************************************)
Reserved(c) ==
  LET row == rows[calls[c].id] IN
  row.state = "pending" /\ row.payload = calls[c].payload

\* Fault: the stored response keeps the deadline of the reservation.
FinishShort(c) ==
  /\ calls[c].pc = "answered"
  /\ LET r == calls[c].id IN
     /\ Reserved(c)
     /\ rows' = [rows EXCEPT ![r] = [@ EXCEPT !.state = "done", !.reply = calls[c].reply]]
     /\ Answer(r, calls[c].payload, calls[c].payload, calls[c].reply, clock + ReplayTTL)
  /\ calls' = [calls EXCEPT ![c] = NoCall]
  /\ UNCHANGED <<clock, runs, effects>>

Finish(c) ==
  /\ calls[c].pc = "answered"
  /\ LET r == calls[c].id IN
     IF Reserved(c)
       THEN /\ rows' = [rows EXCEPT ![r] =
                 [state |-> "done", payload |-> calls[c].payload,
                  reply |-> calls[c].reply, expires |-> clock + ReplayTTL]]
            /\ Answer(r, calls[c].payload, calls[c].payload, calls[c].reply,
                      clock + ReplayTTL)
       ELSE UNCHANGED <<rows, first, heard>>
  /\ calls' = [calls EXCEPT ![c] = NoCall]
  /\ UNCHANGED <<clock, runs, effects>>

Abort(c) ==
  /\ calls[c].pc = "failed"
  /\ rows' = IF Reserved(c) THEN [rows EXCEPT ![calls[c].id] = NoRow] ELSE rows
  /\ calls' = [calls EXCEPT ![c] = NoCall]
  /\ UNCHANGED <<clock, runs, effects, first, heard>>

\* Fault: a dropped call gives its reservation back.
VanishReleases(c) ==
  /\ Live(c)
  /\ rows' = IF Reserved(c) THEN [rows EXCEPT ![calls[c].id] = NoRow] ELSE rows
  /\ calls' = [calls EXCEPT ![c] = NoCall]
  /\ UNCHANGED <<clock, runs, effects, first, heard>>

\* The process stops, the connection closes, or the database is out of reach:
\* the record keeps its pending fence.
Vanish(c) ==
  /\ Live(c)
  /\ calls' = [calls EXCEPT ![c] = NoCall]
  /\ UNCHANGED <<clock, rows, runs, effects, first, heard>>

\* maintain_lifecycle deletes lapsed records.
Purge ==
  /\ \E r \in Ids : rows[r].state # "none" /\ rows[r].expires <= clock
  /\ rows' = [r \in Ids |-> IF rows[r].expires <= clock THEN NoRow ELSE rows[r]]
  /\ UNCHANGED <<clock, calls, runs, effects, first, heard>>

RequestsNext ==
  \/ RequestsTick
  \/ \E r \in Ids, p \in Payloads : Replay(r, p) \/ \E c \in Calls : Reserve(c, r, p)
  \/ \E c \in Calls :
       ActionAnswers(c) \/ ActionFails(c) \/ Finish(c) \/ Abort(c) \/ Vanish(c)
  \/ Purge

RequestsSpec == RequestsInit /\ [][RequestsNext]_requestsVars

-----------------------------------------------------------------------------
(***************************************************************************)
(* Properties.                                                             *)
(***************************************************************************)

\* The mutation of an identifier takes effect again only when the pending fence
\* of an execution that vanished, or the replay window of one that finished, has
\* passed, or when the last effect was that of a commit which was reported as
\* failed: for such a 5xx, and for nothing else, with_worker_request gives the
\* fence back although the mutation took effect.
EffectIsFenced ==
  [][\A r \in Ids :
       effects'[r] # effects[r] /\ effects[r].count > 0 /\ effects[r].known =>
         clock >= effects[r].at + (PendingTTL - MaxRun)]_requestsVars

\* A caller hears the answer to its own payload, never that of another request
\* under the same identifier, and within the replay window of the first answer
\* the worker got it hears that answer and no other, although the mutation may
\* have been run before by a call that vanished.
AnswerIsStable ==
  heard.id # None =>
    /\ heard.asked = heard.made
    /\ heard.at < first[heard.id].until => heard.reply = first[heard.id].reply
=============================================================================
