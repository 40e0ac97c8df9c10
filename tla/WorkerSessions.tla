--------------------------- MODULE WorkerSessions ---------------------------
(***************************************************************************)
(* Worker sessions and their capacity: register_session, heartbeat_session,*)
(* drain_session, the session part of try_claim and of maintain_lifecycle  *)
(* in Core, and the acquisition loop of run_agent_with_processors in the   *)
(* SDK, with its semaphore, long poll, shutdown and drain.                 *)
(*                                                                         *)
(* Each session has one agent and one processor.  A job is only something  *)
(* that can be claimed; ProcessingJobs has the rest of it.                 *)
(***************************************************************************)
EXTENDS WorkerCommon

CONSTANTS
  Sessions,      \* worker sessions, each registered by one agent process
  Jobs,          \* claimable jobs
  Slots,         \* the registered ceiling, and the size of the semaphore
  SessionLease, ClaimLease,
  MaxFailures,   \* heartbeat failures after which the agent gives the session up
  Lag            \* how old the `now` of a handler may be at its commit

ASSUME SessionsAssumption ==
  /\ None \notin Sessions /\ None \notin Jobs
  /\ IsFiniteSet(Jobs)
  /\ Slots \in Nat \ {0}
  /\ SessionLease \in Nat \ {0} /\ ClaimLease \in Nat \ {0}
  /\ MaxFailures \in Nat \ {0}
  /\ Lag \in Nat

VARIABLES
  sessions,  \* processing_worker_sessions
  claims,    \* the running attempt of each job, if any
  agents,    \* the acquisition loop of each agent
  polls,     \* claims:acquire requests, from the agent to Core and back
  sweep      \* the commit that Core's maintenance loop makes next

sessionsVars == <<clock, sessions, claims, agents, polls, sweep>>

SessionRow == [state: {"none", "active", "draining", "expired"}, expires: Nat]

\* `late` is not in the row: it tells that a heartbeat which read the clock
\* before the lease lapsed renewed the claim after it lapsed.
ClaimRow == [session: Sessions \cup {None}, lease: Nat, late: BOOLEAN]
NoClaim == [session |-> None, lease |-> 0, late |-> FALSE]
Granted(s, t) == [session |-> s, lease |-> t + ClaimLease, late |-> FALSE]

\* `tasks` are the claims the agent works on, `failures` counts heartbeats of
\* the session that failed in a row, `clean` tells that no call of the agent
\* failed for good.
AgentSteps == {"off", "looping", "acquiring", "closing", "leaving", "exited"}
Agent == [pc: AgentSteps, tasks: SUBSET Jobs, stopping: BOOLEAN,
          failures: 0..MaxFailures, clean: BOOLEAN]
NoAgent == [pc |-> "off", tasks |-> {}, stopping |-> FALSE, failures |-> 0, clean |-> TRUE]

\* "open" while Core looks for work, "answered" with or without a claim, or
\* "refused".  `orphan` is an earlier one that the agent gave up and Core still
\* serves.
Poll == [state: {"none", "open", "answered", "refused"}, job: Jobs \cup {None},
         orphan: BOOLEAN]
NoPoll == [state |-> "none", job |-> None, orphan |-> FALSE]

SessionsTypeOK ==
  /\ clock \in Nat
  /\ sessions \in [Sessions -> SessionRow]
  /\ claims \in [Jobs -> ClaimRow]
  /\ agents \in [Sessions -> Agent]
  /\ polls \in [Sessions -> Poll]
  /\ sweep \in {"sessions", "claims"}

SessionsInit ==
  /\ clock = 0
  /\ sessions = [s \in Sessions |-> [state |-> "none", expires |-> 0]]
  /\ claims = [j \in Jobs |-> NoClaim]
  /\ agents = [s \in Sessions |-> NoAgent]
  /\ polls = [s \in Sessions |-> NoPoll]
  /\ sweep = "sessions"

Nows == {t \in 0..clock : clock - t <= Lag}

SessionsTick ==
  /\ Ticks
  /\ UNCHANGED <<sessions, claims, agents, polls, sweep>>

-----------------------------------------------------------------------------
(***************************************************************************)
(* Sessions in Core.                                                       *)
(***************************************************************************)
\* register_session, and the agent that called it starts its loop.
RegisterSession(s, t) ==
  /\ Open
  /\ agents[s].pc = "off"
  /\ sessions' = [sessions EXCEPT ![s] =
                    [state |-> "active", expires |-> t + SessionLease]]
  /\ agents' = [agents EXCEPT ![s] = [agents[s] EXCEPT !.pc = "looping"]]
  /\ UNCHANGED <<clock, claims, polls, sweep>>

Renewed(s, t) == sessions[s].state = "active" /\ sessions[s].expires > t

\* heartbeat_session: what it makes of the row.
HeartbeatRow(s, t) ==
  CASE sessions[s].state = "draining" -> sessions[s]
    [] Renewed(s, t) -> [state |-> "active", expires |-> t + SessionLease]
    [] OTHER -> [state |-> "expired", expires |-> 0]

\* One turn of session_heartbeat_loop: the call may fail before or after Core
\* handled it, and enough failures in a row give the session up.
HeartbeatSession(s, t) ==
  /\ Open
  /\ agents[s].pc \in {"looping", "acquiring"}
  /\ agents[s].failures < MaxFailures
  /\ \/ /\ sessions' = [sessions EXCEPT ![s] = HeartbeatRow(s, t)]
        /\ agents' = [agents EXCEPT ![s] =
             [agents[s] EXCEPT !.failures = IF Renewed(s, t) THEN 0 ELSE @ + 1,
                               !.clean = @ /\ Renewed(s, t)]]
     \/ /\ sessions' \in {sessions, [sessions EXCEPT ![s] = HeartbeatRow(s, t)]}
        /\ agents' = [agents EXCEPT ![s] =
             [agents[s] EXCEPT !.failures = @ + 1, !.clean = FALSE]]
  /\ UNCHANGED <<clock, claims, polls, sweep>>

Drained == [s \in Sessions |->
  IF sessions[s].state = "active"
    THEN [state |-> "draining", expires |-> sessions[s].expires]
    ELSE sessions[s]]

Running(s) == {j \in Jobs : claims[j].session = s}

\* Fault: drained sessions are left alone.
LapsedActive(s, t) == sessions[s].state = "active" /\ sessions[s].expires <= t

Lapsed(s, t) ==
  \/ sessions[s].state = "active" /\ sessions[s].expires <= t
  \/ sessions[s].state = "draining" /\ Running(s) = {}

\* maintain_lifecycle, first commits: sessions whose lease lapsed, and drained
\* sessions without a running attempt.
SweepSessions(t) ==
  /\ sweep = "sessions"
  /\ sessions' = [s \in Sessions |->
       IF Lapsed(s, t) THEN [state |-> "expired", expires |-> 0] ELSE sessions[s]]
  /\ sweep' = "claims"
  /\ UNCHANGED <<clock, claims, agents, polls>>

\* Then the claims whose lease lapsed; an error in between ends the pass.
SweepClaims(t) ==
  /\ sweep = "claims"
  /\ \/ claims' = [j \in Jobs |->
          IF claims[j].session # None /\ claims[j].lease <= t THEN NoClaim ELSE claims[j]]
     \/ Open /\ UNCHANGED claims
  /\ sweep' = "sessions"
  /\ UNCHANGED <<clock, sessions, agents, polls>>

Maintain == \E t \in Nows : SweepSessions(t) \/ SweepClaims(t)

-----------------------------------------------------------------------------
(***************************************************************************)
(* Claims.                                                                 *)
(***************************************************************************)
\* The running attempts of the session that try_claim counts against its slots.
Counted(s, t) == {j \in Running(s) : claims[j].lease > t}

\* A long poll of the session ends; nobody hears the answer to an orphan.
PollAnswered(s, state, j) ==
  \/ /\ polls[s].state = "open"
     /\ polls' = [polls EXCEPT ![s] = [polls[s] EXCEPT !.state = state, !.job = j]]
  \/ /\ polls[s].orphan
     /\ polls' = [polls EXCEPT ![s] = [polls[s] EXCEPT !.orphan = FALSE]]

\* Fault: the running claims are not counted.
TryClaimUncounted(s, j, t) ==
  /\ Renewed(s, t)
  /\ claims[j].session = None
  /\ claims' = [claims EXCEPT ![j] = Granted(s, t)]
  /\ PollAnswered(s, "answered", j)
  /\ UNCHANGED <<clock, sessions, agents, sweep>>

\* try_claim inside the long poll: the session must be active, and a slot free.
TryClaim(s, j, t) ==
  /\ Renewed(s, t)
  /\ Cardinality(Counted(s, t)) < Slots
  /\ claims[j].session = None
  /\ claims' = [claims EXCEPT ![j] = Granted(s, t)]
  /\ PollAnswered(s, "answered", j)
  /\ UNCHANGED <<clock, sessions, agents, sweep>>

\* The long poll ends without a claim, or because the session is gone.
PollEnds(s, t) ==
  /\ PollAnswered(s, IF Renewed(s, t) THEN "answered" ELSE "refused", None)
  /\ UNCHANGED <<clock, sessions, claims, agents, sweep>>

\* heartbeat_claim of a claim the agent works on.
HeartbeatClaim(s, j, t) ==
  /\ Open
  /\ j \in agents[s].tasks
  /\ claims[j].session = s /\ claims[j].lease > t
  /\ claims' = [claims EXCEPT ![j] = [Granted(s, t) EXCEPT
                   !.late = claims[j].late \/ claims[j].lease <= clock]]
  /\ UNCHANGED <<clock, sessions, agents, polls, sweep>>

\* The task of a claim ends: it closed the claim, or left it to lapse after a
\* call that failed for good.
TaskEnds(s, j, closed) ==
  /\ j \in agents[s].tasks
  /\ agents' = [agents EXCEPT ![s] =
       [agents[s] EXCEPT !.tasks = @ \ {j}, !.clean = @ /\ closed]]
  /\ claims' = IF closed /\ claims[j].session = s
                 THEN [claims EXCEPT ![j] = NoClaim] ELSE claims
  /\ UNCHANGED <<clock, sessions, polls, sweep>>

-----------------------------------------------------------------------------
(***************************************************************************)
(* The loop of run_agent_with_processors.                                  *)
(***************************************************************************)
Lost(s) == agents[s].failures = MaxFailures

\* A permit is free: the agent offers it and waits for the answer.
Acquire(s) ==
  /\ Open
  /\ agents[s].pc = "looping" /\ ~Lost(s) /\ ~agents[s].stopping
  /\ Cardinality(agents[s].tasks) < Slots
  /\ agents' = [agents EXCEPT ![s] = [agents[s] EXCEPT !.pc = "acquiring"]]
  /\ polls' = [polls EXCEPT ![s] = [polls[s] EXCEPT !.state = "open", !.job = None]]
  /\ UNCHANGED <<clock, sessions, claims, sweep>>

\* The answer arrives; the SDK repeated the request by its identifier until it
\* did.  A granted claim gets a task, and a shutdown that came meanwhile ends
\* the loop.
Acquired(s) ==
  /\ agents[s].pc = "acquiring"
  /\ polls[s].state \in {"answered", "refused"}
  /\ agents' = [agents EXCEPT ![s] = [agents[s] EXCEPT
       !.pc = IF agents[s].stopping THEN "closing" ELSE "looping",
       !.tasks = IF polls[s].job # None THEN @ \cup {polls[s].job} ELSE @]]
  /\ polls' = [polls EXCEPT ![s] = [polls[s] EXCEPT !.state = "none", !.job = None]]
  /\ UNCHANGED <<clock, sessions, claims, sweep>>

\* Every repetition failed: the permit is dropped, and with it a claim that
\* Core may have granted.  Core's long poll may still be open.
AcquireFails(s) ==
  /\ Open
  /\ agents[s].pc = "acquiring"
  /\ agents' = [agents EXCEPT ![s] = [agents[s] EXCEPT
       !.pc = IF agents[s].stopping THEN "closing" ELSE "looping", !.clean = FALSE]]
  /\ \E left \in {FALSE, polls[s].state = "open"} :
       polls' = [polls EXCEPT ![s] =
         [polls[s] EXCEPT !.state = "none", !.job = None, !.orphan = @ \/ left]]
  /\ UNCHANGED <<clock, sessions, claims, sweep>>

\* Fault: the loop ends without the answer of the acquisition.
ShutdownAtOnce(s) ==
  /\ Open
  /\ ~agents[s].stopping
  /\ agents[s].pc \in {"looping", "acquiring"}
  /\ agents' = [agents EXCEPT ![s] = [agents[s] EXCEPT !.pc = "closing", !.stopping = TRUE]]
  /\ UNCHANGED <<clock, sessions, claims, polls, sweep>>

\* SIGTERM.  The loop notices it when it waits for a permit or for an answer.
\* Then the session is drained first and the answer awaited; if the session
\* cannot be drained, the acquisition is abandoned.
Shutdown(s) ==
  /\ Open
  /\ ~agents[s].stopping
  /\ \/ /\ agents[s].pc = "looping" /\ Cardinality(agents[s].tasks) >= Slots
        /\ agents' = [agents EXCEPT ![s] = [agents[s] EXCEPT !.pc = "closing", !.stopping = TRUE]]
        /\ UNCHANGED sessions
     \/ /\ agents[s].pc = "acquiring"
        /\ sessions[s].state \in {"active", "draining"}
        /\ agents' = [agents EXCEPT ![s] = [agents[s] EXCEPT !.stopping = TRUE]]
        /\ sessions' = [sessions EXCEPT ![s] = Drained[s]]
     \/ /\ agents[s].pc = "acquiring"
        /\ agents' = [agents EXCEPT ![s] = [agents[s] EXCEPT
             !.pc = "closing", !.stopping = TRUE, !.clean = FALSE]]
        /\ UNCHANGED sessions
  /\ UNCHANGED <<clock, claims, polls, sweep>>

\* The heartbeat loop gave the session up: the loop ends, an acquisition that
\* is under way is dropped.
SessionLost(s) ==
  /\ agents[s].pc \in {"looping", "acquiring"} /\ ~agents[s].stopping
  /\ Lost(s)
  /\ agents' = [agents EXCEPT ![s] = [agents[s] EXCEPT !.pc = "closing"]]
  /\ UNCHANGED <<clock, sessions, claims, polls, sweep>>

\* After the loop the session is drained, if it was not yet; an error is
\* ignored.
DrainSession(s) ==
  /\ agents[s].pc = "closing"
  /\ agents' = [agents EXCEPT ![s] = [agents[s] EXCEPT !.pc = "leaving"]]
  /\ sessions' \in {[sessions EXCEPT ![s] = Drained[s]], sessions}
  /\ UNCHANGED <<clock, claims, polls, sweep>>

\* The process exits when the last task ended.
Exit(s) ==
  /\ agents[s].pc = "leaving"
  /\ agents[s].tasks = {}
  /\ agents' = [agents EXCEPT ![s] = [agents[s] EXCEPT !.pc = "exited"]]
  /\ UNCHANGED <<clock, sessions, claims, polls, sweep>>

-----------------------------------------------------------------------------
SessionsCore ==
  \/ Maintain
  \/ \E s \in Sessions, t \in Nows : PollEnds(s, t) \/ \E j \in Jobs : TryClaim(s, j, t)

AgentStep(s) ==
  \/ \E t \in Nows : RegisterSession(s, t) \/ HeartbeatSession(s, t)
  \/ \E j \in Jobs, t \in Nows : HeartbeatClaim(s, j, t)
  \/ \E j \in Jobs, closed \in BOOLEAN : TaskEnds(s, j, closed)
  \/ Acquire(s) \/ Acquired(s) \/ AcquireFails(s)
  \/ Shutdown(s) \/ SessionLost(s) \/ DrainSession(s) \/ Exit(s)

SessionsNext == SessionsTick \/ SessionsCore \/ \E s \in Sessions : AgentStep(s)

SessionsSpec == SessionsInit /\ [][SessionsNext]_sessionsVars

\* Time passes and Core's maintenance loop runs; agents owe nothing.
SessionsFairSpec == SessionsSpec /\ WF_sessionsVars(SessionsTick) /\ WF_sessionsVars(Maintain)

-----------------------------------------------------------------------------
(***************************************************************************)
(* Properties.                                                             *)
(***************************************************************************)

Occupied(s) == {j \in Counted(s, clock) : ~claims[j].late}

\* A session never holds more unexpired running claims than the slots it
\* registered, although claims lapse, close and are renewed while it polls.
\* The exception is a renewal that comes too late: heartbeat_claim reads the
\* clock before it has a connection and does not lock the session, so try_claim
\* may have given the slot of the lapsed claim away in between.
SlotCeiling ==
  \A s \in Sessions : Cardinality(Occupied(s)) <= Slots

\* A graceful shutdown strands nothing: when an agent exited and none of its
\* calls failed, Core has no running claim of its session, not even one that
\* was granted while the agent drained.
NothingStranded ==
  \A s \in Sessions :
    agents[s].pc = "exited" /\ agents[s].clean => Running(s) = {}

\* A session that an agent left, gracefully or not, does not linger: it expires
\* once its claims closed or lapsed.
SessionsClose ==
  \A s \in Sessions :
    sessions[s].state \in {"active", "draining"} ~> sessions[s].state = "expired"
=============================================================================
