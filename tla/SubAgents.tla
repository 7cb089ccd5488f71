------------------------------ MODULE SubAgents ------------------------------
(***************************************************************************)
(* Background sub-agent sessions: the registry                             *)
(* (src/src/tools/subagent_registry.rs), the spawn tool that fills it      *)
(* (subagent_spawn.rs) and the kill of subagent_manage.rs.                 *)
(*                                                                         *)
(* A session is served by a tokio task: the model call itself for a local  *)
(* agent, a relay of a worker node's event stream for a remote one.  The   *)
(* spawning call, the task, the user's kill, the worker node and the       *)
(* network all move independently; the registry's lock makes each registry *)
(* method one step, and nothing more than that.                            *)
(*                                                                         *)
(* A session id is a fresh UUID, so a member of Sessions is used once.     *)
(* What a task computes is abstracted to whether it succeeds.              *)
(***************************************************************************)
EXTENDS Naturals, FiniteSets

CONSTANTS
    Local, Remote,   \* session ids, by the kind of agent they are spawned for
    MaxConcurrent,   \* MAX_CONCURRENT_SUBAGENTS
    TokenRequired    \* the worker nodes have LLAMAFARM_FEDERATION_TOKEN set

Sessions == Local \cup Remote

ASSUME SessionsAssumption ==
    /\ IsFiniteSet(Sessions)
    /\ Local \cap Remote = {}
    /\ MaxConcurrent \in Nat \ {0}
    /\ TokenRequired \in BOOLEAN

VARIABLES
    status,    \* SubAgentSession.status, "absent" when not in the registry
    handle,    \* whether the registry holds the session's join handle
    spawner,   \* how far the subagent_spawn call of the session is
    task,      \* the session's tokio task
    aborted,   \* sessions whose task was asked to abort
    worker,    \* the task on the worker node, for a remote session
    cancels,   \* cancel requests on their way to the worker node
    aged       \* sessions finished for SESSION_MAX_AGE_SECS

registry == <<status, handle>>
vars == <<registry, spawner, task, aborted, worker, cancels, aged>>

Running == {s \in Sessions : status[s] = "Running"}

\* Past its last await point, where an abort no longer stops it.
Finishing(s) == task[s] \in {"succeeding", "failing"}

-----------------------------------------------------------------------------
Init ==
    /\ status = [s \in Sessions |-> "absent"]
    /\ handle = [s \in Sessions |-> FALSE]
    /\ spawner = [s \in Sessions |-> "idle"]
    /\ task = [s \in Sessions |-> "none"]
    /\ aborted = {}
    /\ worker = [s \in Sessions |-> "none"]
    /\ cancels = {}
    /\ aged = {}

-----------------------------------------------------------------------------
(* The spawning call *)

\* A bug: the limit is compared as if the new session were not counted.
HasSlotLate == Cardinality(Running) <= MaxConcurrent

HasSlot == Cardinality(Running) < MaxConcurrent

\* SubAgentRegistry::try_insert; a call without a slot changes nothing.
TryInsert(s) ==
    /\ spawner[s] = "idle"
    /\ HasSlot
    /\ status' = [status EXCEPT ![s] = "Running"]
    /\ spawner' = [spawner EXCEPT ![s] = "inserted"]
    /\ UNCHANGED <<handle, task, aborted, worker, cancels, aged>>

\* start_remote_task fails: the node is unreachable or slow, it rejects the
\* task, or its answer is lost.  The `?` returns at once; the session stays.
\* A stopped turn that drops the waiting call leaves the same behind.
StartFails(s) ==
    /\ s \in Remote
    /\ spawner[s] = "inserted"
    /\ spawner' = [spawner EXCEPT ![s] = "failed"]
    /\ UNCHANGED <<registry, task, aborted, worker, cancels, aged>>

\* tokio::spawn, for a remote session once the worker's answer is there.
SpawnTask(s) ==
    /\ spawner[s] = "inserted"
    /\ s \in Remote => worker[s] # "none"
    /\ spawner' = [spawner EXCEPT ![s] = "spawned"]
    /\ task' = [task EXCEPT ![s] = "running"]
    /\ UNCHANGED <<registry, aborted, worker, cancels, aged>>

\* SubAgentRegistry::set_handle, under a lock of its own.
SetHandle(s) ==
    /\ spawner[s] = "spawned"
    /\ spawner' = [spawner EXCEPT ![s] = "returned"]
    /\ handle' = [handle EXCEPT ![s] = status[s] # "absent"]
    /\ UNCHANGED <<status, task, aborted, worker, cancels, aged>>

-----------------------------------------------------------------------------
(* The session's task *)

\* A bug: the relay takes the end of the stream for success.
TaskAnswersEarly(s, answer) ==
    /\ task[s] = "running"
    /\ task' = [task EXCEPT ![s] = answer]
    /\ UNCHANGED <<registry, spawner, aborted, worker, cancels, aged>>

\* The model call or the worker's stream has produced its answer.  A relay
\* succeeds only on the worker's "done"; any call may fail or time out.
TaskAnswers(s, answer) ==
    /\ task[s] = "running"
    /\ answer = "succeeding" /\ s \in Remote => worker[s] = "done"
    /\ task' = [task EXCEPT ![s] = answer]
    /\ UNCHANGED <<registry, spawner, aborted, worker, cancels, aged>>

\* A bug: the session is only marked when the registry holds its handle.
RecordResultIfHeld(s) ==
    /\ Finishing(s)
    /\ task' = [task EXCEPT ![s] = "ended"]
    /\ status' = [status EXCEPT
          ![s] = IF ~handle[s] THEN @
                 ELSE IF task[s] = "succeeding" THEN "Completed" ELSE "Failed"]
    /\ handle' = [handle EXCEPT ![s] = FALSE]
    /\ UNCHANGED <<spawner, aborted, worker, cancels, aged>>

\* SubAgentRegistry::complete and fail: they look at no earlier status.
RecordResult(s) ==
    /\ Finishing(s)
    /\ task' = [task EXCEPT ![s] = "ended"]
    /\ IF status[s] = "absent" THEN UNCHANGED registry
       ELSE /\ status' = [status EXCEPT
                  ![s] = IF task[s] = "succeeding" THEN "Completed" ELSE "Failed"]
            /\ handle' = [handle EXCEPT ![s] = FALSE]
    /\ UNCHANGED <<spawner, aborted, worker, cancels, aged>>

\* The runtime drops an aborted task at an await point.
TaskAborts(s) ==
    /\ s \in aborted
    /\ task[s] = "running"
    /\ task' = [task EXCEPT ![s] = "ended"]
    /\ UNCHANGED <<registry, spawner, aborted, worker, cancels, aged>>

-----------------------------------------------------------------------------
(* The user *)

\* A bug: a finished session can be killed.
KillAny(s) ==
    /\ status[s] # "absent"
    /\ status' = [status EXCEPT ![s] = "Killed"]
    /\ handle' = [handle EXCEPT ![s] = FALSE]
    /\ aborted' = IF handle[s] THEN aborted \cup {s} ELSE aborted
    /\ cancels' = IF handle[s] THEN cancels \cup ({s} \cap Remote) ELSE cancels
    /\ UNCHANGED <<spawner, task, worker, aged>>

\* SubAgentRegistry::kill: the handle, if there is one by now, is taken and
\* aborted, and the worker node is sent a cancel.
Kill(s) ==
    /\ status[s] = "Running"
    /\ status' = [status EXCEPT ![s] = "Killed"]
    /\ handle' = [handle EXCEPT ![s] = FALSE]
    /\ aborted' = IF handle[s] THEN aborted \cup {s} ELSE aborted
    /\ cancels' = IF handle[s] THEN cancels \cup ({s} \cap Remote) ELSE cancels
    /\ UNCHANGED <<spawner, task, worker, aged>>

\* An hour passes after the session finished.  Calls and their tasks are
\* limited to minutes, so both are over by then.
Age(s) ==
    /\ status[s] \in {"Completed", "Failed", "Killed"}
    /\ s \notin aged
    /\ spawner[s] \in {"returned", "failed"}
    /\ task[s] \in {"none", "ended"}
    /\ aged' = aged \cup {s}
    /\ UNCHANGED <<registry, spawner, task, aborted, worker, cancels>>

\* SubAgentRegistry::list removes what is old enough before it lists.
List ==
    /\ status' = [s \in Sessions |-> IF s \in aged THEN "absent" ELSE status[s]]
    /\ handle' = [s \in Sessions |-> handle[s] /\ s \notin aged]
    /\ UNCHANGED <<spawner, task, aborted, worker, cancels, aged>>

-----------------------------------------------------------------------------
(* The worker node and the network *)

\* The start request arrives, perhaps after its sender stopped waiting.
WorkerAccepts(s) ==
    /\ s \in Remote
    /\ spawner[s] \in {"inserted", "failed"}
    /\ worker[s] = "none"
    /\ worker' = [worker EXCEPT ![s] = "running"]
    /\ UNCHANGED <<registry, spawner, task, aborted, cancels, aged>>

WorkerEnds(s, result) ==
    /\ worker[s] = "running"
    /\ worker' = [worker EXCEPT ![s] = result]
    /\ UNCHANGED <<registry, spawner, task, aborted, cancels, aged>>

\* Kill posts the cancel without the federation token: a node that requires
\* it refuses the request.
DeliverCancel(s) ==
    /\ s \in cancels
    /\ cancels' = cancels \ {s}
    /\ worker' = [worker EXCEPT
          ![s] = IF @ = "running" /\ ~TokenRequired THEN "stopped" ELSE @]
    /\ UNCHANGED <<registry, spawner, task, aborted, aged>>

LoseCancel(s) ==
    /\ s \in cancels
    /\ cancels' = cancels \ {s}
    /\ UNCHANGED <<registry, spawner, task, aborted, worker, aged>>

-----------------------------------------------------------------------------
Spawn(s) == TryInsert(s) \/ StartFails(s) \/ SpawnTask(s) \/ SetHandle(s)

TaskStep(s) ==
    \/ \E answer \in {"succeeding", "failing"} : TaskAnswers(s, answer)
    \/ RecordResult(s)
    \/ TaskAborts(s)

WorkerStep(s) ==
    \/ WorkerAccepts(s)
    \/ \E result \in {"done", "failed"} : WorkerEnds(s, result)
    \/ DeliverCancel(s)
    \/ LoseCancel(s)

Next ==
    \/ \E s \in Sessions :
           Spawn(s) \/ TaskStep(s) \/ Kill(s) \/ Age(s) \/ WorkerStep(s)
    \/ List

Spec == Init /\ [][Next]_vars

\* The spawning call runs on (start_remote_task has a 10 s client timeout),
\* the task's timeout makes it answer (SPAWN_TIMEOUT_SECS, or the client
\* timeout of the relay), and the runtime drops what was aborted.
Fairness ==
    \A s \in Sessions :
        /\ WF_vars(StartFails(s) \/ SpawnTask(s))
        /\ WF_vars(SetHandle(s))
        /\ WF_vars(TaskStep(s))

LiveSpec == Spec /\ Fairness

-----------------------------------------------------------------------------
(* Type invariant *)

TypeOK ==
    /\ status \in [Sessions -> {"absent", "Running", "Completed", "Failed",
                                "Killed"}]
    /\ handle \in [Sessions -> BOOLEAN]
    /\ spawner \in [Sessions -> {"idle", "inserted", "spawned", "returned",
                                 "failed"}]
    /\ task \in [Sessions -> {"none", "running", "succeeding", "failing",
                              "ended"}]
    /\ worker \in [Sessions -> {"none", "running", "done", "failed", "stopped"}]
    /\ {aborted, aged} \subseteq SUBSET Sessions
    /\ cancels \subseteq Remote
    /\ \A s \in Sessions : status[s] = "absent" => ~handle[s]

-----------------------------------------------------------------------------
(* Safety *)

\* However spawns race, no more sessions are Running than the limit allows
\* (try_insert checks and inserts under one lock).
RunningWithinLimit == Cardinality(Running) <= MaxConcurrent

\* A slot is held by a call in progress, by a live task, or by a remote start
\* that failed: only that failure leaks its slot (the `?` after
\* start_remote_task).
SlotHeldForAReason ==
    \A s \in Running :
        \/ spawner[s] \in {"inserted", "failed"}
        \/ task[s] = "running" \/ Finishing(s)

\* A recorded result is final until the session is cleaned up: neither a late
\* kill nor a second record replaces it (kill, complete, fail).
ResultsAreFinal ==
    [][\A s \in Sessions :
          status[s] \in {"Completed", "Failed"}
              => status'[s] \in {status[s], "absent"}]_vars

\* A remote session reported Completed did complete: its worker task ran to
\* "done", whatever kills, lost cancels and late answers came in between.
CompletedMeansDone ==
    \A s \in Remote : status[s] = "Completed" => worker[s] = "done"

-----------------------------------------------------------------------------
(* Liveness *)

\* A session whose spawn succeeded stops being Running: its task is bounded
\* by a timeout and its result is recorded whoever holds the handle.
SpawnedSessionsEnd ==
    \A s \in Sessions : spawner[s] = "returned" ~> status[s] # "Running"

-----------------------------------------------------------------------------
(* What the comments of the code say *)

\* "Kill a running session by aborting its tokio task": a killed session's
\* task reports no result (kill before set_handle has no handle to abort).
KilledStaysKilled ==
    [][\A s \in Sessions :
          status[s] = "Killed" => status'[s] \in {"Killed", "absent"}]_vars
=============================================================================
