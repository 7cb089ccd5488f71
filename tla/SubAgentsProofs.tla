-------------------------- MODULE SubAgentsProofs --------------------------
(***************************************************************************)
(* Theorems about SubAgents for every set of sessions and every limit.     *)
(*                                                                         *)
(* SessionInv strengthens the safety properties with what ties the task,   *)
(* the spawning call and the join handle of a session together.            *)
(***************************************************************************)
EXTENDS SubAgents, FiniteSetTheorems, TLAPS

\* A session not yet inserted has left no trace, and a task exists only once
\* its call has spawned it.
CallsAndTasks ==
    \A s \in Sessions :
        /\ spawner[s] = "idle" => status[s] = "absent"
        /\ spawner[s] \in {"idle", "inserted", "failed"} <=> task[s] = "none"

\* The handle is there only after set_handle, and what was aborted had one.
HandlesAndAborts ==
    \A s \in Sessions :
        /\ handle[s] => spawner[s] = "returned"
        /\ s \in aborted => spawner[s] = "returned" /\ status[s] # "Running"

\* A result is recorded by a task in its last step.
ResultsEndTasks ==
    \A s \in Sessions :
        status[s] \in {"Completed", "Failed"} => task[s] = "ended"

\* A relay that is about to report success has seen the worker finish.
SuccessSeen ==
    \A s \in Remote : task[s] = "succeeding" => worker[s] = "done"

SessionInv ==
    /\ TypeOK
    /\ RunningWithinLimit
    /\ SlotHeldForAReason
    /\ CompletedMeansDone
    /\ CallsAndTasks
    /\ HandlesAndAborts
    /\ ResultsEndTasks
    /\ SuccessSeen

\* Only an insert into a free slot makes the set of running sessions grow, and
\* then by one.
LEMMA LimitKept ==
    ASSUME SessionsAssumption, NEW R \in SUBSET Sessions, NEW s \in Sessions,
           Cardinality(R) < MaxConcurrent
    PROVE  Cardinality(R \cup {s}) <= MaxConcurrent
<1>1. IsFiniteSet(R)
  BY FS_Subset DEF SessionsAssumption
<1>2. Cardinality(R) \in Nat
  BY <1>1, FS_CardinalityType
<1>3. Cardinality(R \cup {s}) = Cardinality(R)
          \/ Cardinality(R \cup {s}) = Cardinality(R) + 1
  BY <1>1, FS_AddElement
<1> QED
  BY <1>2, <1>3 DEF SessionsAssumption

LEMMA LimitKeptBySubset ==
    ASSUME SessionsAssumption, NEW R \in SUBSET Sessions, NEW Q \in SUBSET R,
           Cardinality(R) <= MaxConcurrent
    PROVE  Cardinality(Q) <= MaxConcurrent
<1>1. IsFiniteSet(R)
  BY FS_Subset DEF SessionsAssumption
<1>2. Cardinality(R) \in Nat /\ Cardinality(Q) \in Nat
          /\ Cardinality(Q) <= Cardinality(R)
  BY <1>1, FS_Subset, FS_CardinalityType
<1> QED
  BY <1>2 DEF SessionsAssumption

LEMMA SessionInit == SessionsAssumption /\ Init => SessionInv
<1> SUFFICES ASSUME SessionsAssumption, Init PROVE SessionInv
  OBVIOUS
<1>1. Running = {}
  BY DEF Init, Running
<1>2. RunningWithinLimit
  BY <1>1, FS_EmptySet DEF RunningWithinLimit, SessionsAssumption
<1> QED
  BY <1>1, <1>2 DEF SessionInv, Init, TypeOK, SlotHeldForAReason,
     CompletedMeansDone, CallsAndTasks, HandlesAndAborts, ResultsEndTasks,
     SuccessSeen, Sessions

\* A step after which no further session is running keeps within the limit.
LEMMA NoNewRunning ==
    ASSUME SessionsAssumption, RunningWithinLimit, Running' \subseteq Running
    PROVE  RunningWithinLimit'
<1>1. Running \in SUBSET Sessions
  BY DEF Running
<1> QED
  BY <1>1, LimitKeptBySubset DEF RunningWithinLimit

LEMMA SessionStep ==
    ASSUME SessionsAssumption, SessionInv, [Next]_vars
    PROVE  SessionInv'
<1> USE DEF SessionInv, CallsAndTasks, HandlesAndAborts, ResultsEndTasks,
        SuccessSeen, SlotHeldForAReason, CompletedMeansDone, Running, TypeOK,
        registry, Finishing
<1>1. ASSUME NEW s \in Sessions, TryInsert(s) PROVE SessionInv'
  <2>1. Running' = Running \cup {s}
    BY <1>1 DEF TryInsert
  <2>2. RunningWithinLimit'
    <3>1. Running \in SUBSET Sessions
      OBVIOUS
    <3>2. Cardinality(Running) < MaxConcurrent
      BY ONLY <1>1 DEF TryInsert, HasSlot
    <3>3. Cardinality(Running \cup {s}) <= MaxConcurrent
      BY ONLY <1>1, <3>1, <3>2, LimitKept, SessionsAssumption
    <3> QED
      BY ONLY <2>1, <3>3 DEF RunningWithinLimit
  <2> QED
    BY <1>1, <2>2 DEF TryInsert
<1>2. ASSUME NEW s \in Sessions, StartFails(s) PROVE SessionInv'
  BY <1>2, NoNewRunning DEF StartFails
<1>3. ASSUME NEW s \in Sessions, SpawnTask(s) PROVE SessionInv'
  BY <1>3, NoNewRunning DEF SpawnTask
<1>4. ASSUME NEW s \in Sessions, SetHandle(s) PROVE SessionInv'
  BY <1>4, NoNewRunning DEF SetHandle
<1>5. ASSUME NEW s \in Sessions, NEW answer \in {"succeeding", "failing"},
             TaskAnswers(s, answer)
      PROVE SessionInv'
  BY <1>5, NoNewRunning DEF TaskAnswers
<1>6. ASSUME NEW s \in Sessions, RecordResult(s) PROVE SessionInv'
  <2>1. TypeOK'
    <3>1. CASE status[s] = "absent"
      BY ONLY SessionInv, <1>6, <3>1 DEF RecordResult
    <3>2. CASE status[s] # "absent"
      <4> DEFINE result == IF task[s] = "succeeding" THEN "Completed"
                           ELSE "Failed"
      <4>1. result \in {"Completed", "Failed"}
        OBVIOUS
      <4>2. status' = [status EXCEPT ![s] = result]
                /\ handle' = [handle EXCEPT ![s] = FALSE]
                /\ task' = [task EXCEPT ![s] = "ended"]
        BY ONLY <1>6, <3>2 DEF RecordResult
      <4>3. UNCHANGED <<spawner, aborted, worker, cancels, aged>>
        BY ONLY <1>6 DEF RecordResult
      <4> QED
        BY ONLY SessionInv, <4>1, <4>2, <4>3, s \in Sessions
    <3> QED
      BY <3>1, <3>2
  <2>2. RunningWithinLimit'
    <3>1. Running' \subseteq Running
      BY ONLY SessionInv, <1>6 DEF RecordResult
    <3> QED
      BY <3>1, NoNewRunning
  <2>3. SlotHeldForAReason' /\ ResultsEndTasks'
    BY ONLY SessionInv, <1>6 DEF RecordResult
  <2>4. CompletedMeansDone' /\ SuccessSeen'
    BY ONLY SessionInv, <1>6 DEF RecordResult, Sessions
  <2>5. CallsAndTasks' /\ HandlesAndAborts'
    BY ONLY SessionInv, <1>6 DEF RecordResult
  <2> QED
    BY <2>1, <2>2, <2>3, <2>4, <2>5
<1>7. ASSUME NEW s \in Sessions, TaskAborts(s) PROVE SessionInv'
  BY <1>7, NoNewRunning DEF TaskAborts
<1>8. ASSUME NEW s \in Sessions, Kill(s) PROVE SessionInv'
  BY <1>8, NoNewRunning DEF Kill
<1>9. ASSUME NEW s \in Sessions, Age(s) PROVE SessionInv'
  BY <1>9, NoNewRunning DEF Age
<1>10. CASE List
  <2>1. TypeOK'
    BY ONLY SessionInv, List DEF List
  <2>2. RunningWithinLimit'
    <3>1. Running' \subseteq Running
      BY ONLY SessionInv, List DEF List
    <3> QED
      BY <3>1, NoNewRunning
  <2>3. SlotHeldForAReason' /\ ResultsEndTasks'
    BY ONLY SessionInv, List DEF List
  <2>4. CompletedMeansDone' /\ SuccessSeen'
    BY ONLY SessionInv, List DEF List, Sessions
  <2>5. CallsAndTasks' /\ HandlesAndAborts'
    BY ONLY SessionInv, List DEF List
  <2> QED
    BY <1>10, <2>1, <2>2, <2>3, <2>4, <2>5
<1>11. ASSUME NEW s \in Sessions, WorkerAccepts(s) PROVE SessionInv'
  BY <1>11, NoNewRunning DEF WorkerAccepts
<1>12. ASSUME NEW s \in Sessions, NEW result \in {"done", "failed"},
              WorkerEnds(s, result)
       PROVE SessionInv'
  BY <1>12, NoNewRunning DEF WorkerEnds
<1>13. ASSUME NEW s \in Sessions, DeliverCancel(s) PROVE SessionInv'
  <2>1. CompletedMeansDone' /\ SuccessSeen' /\ TypeOK'
    BY ONLY SessionInv, <1>13 DEF DeliverCancel, Sessions
  <2>2. UNCHANGED <<status, handle, spawner, task, aborted>>
    BY <1>13 DEF DeliverCancel
  <2>3. RunningWithinLimit'
    BY <2>2, NoNewRunning
  <2> QED
    BY <2>1, <2>2, <2>3
<1>14. ASSUME NEW s \in Sessions, LoseCancel(s) PROVE SessionInv'
  BY <1>14, NoNewRunning DEF LoseCancel
<1>15. CASE UNCHANGED vars
  BY <1>15, NoNewRunning DEF vars
<1> HIDE DEF SessionInv, CallsAndTasks, HandlesAndAborts, ResultsEndTasks,
        SuccessSeen, SlotHeldForAReason, CompletedMeansDone, Running, TypeOK,
        registry, Finishing
<1> QED
  BY <1>1, <1>2, <1>3, <1>4, <1>5, <1>6, <1>7, <1>8, <1>9, <1>10, <1>11,
     <1>12, <1>13, <1>14, <1>15
  DEF Next, Spawn, TaskStep, WorkerStep

LEMMA SessionInvariant == Spec => []SessionInv
<1>1. ASSUME SessionInv, [Next]_vars PROVE SessionInv'
  BY <1>1, SessionStep, SessionsAssumption
<1>2. Init => SessionInv
  BY SessionInit, SessionsAssumption
<1> QED
  BY <1>1, <1>2, PTL DEF Spec

\* Every reachable state of the registry, its tasks and its workers is of the
\* declared type, and a session that is not in the registry has no handle.
THEOREM TypeCorrect == Spec => []TypeOK
<1>1. SessionInv => TypeOK
  BY DEF SessionInv
<1> QED
  BY <1>1, SessionInvariant, PTL

\* However many spawns race, at most MaxConcurrent sessions are Running
\* (SubAgentRegistry::try_insert).
THEOREM LimitHolds == Spec => []RunningWithinLimit
<1>1. SessionInv => RunningWithinLimit
  BY DEF SessionInv
<1> QED
  BY <1>1, SessionInvariant, PTL

\* A Running session has a call in progress, a live task, or a failed remote
\* start behind it: no interleaving of kill, set_handle and complete leaks a
\* slot otherwise.
THEOREM SlotsHeldForAReason == Spec => []SlotHeldForAReason
<1>1. SessionInv => SlotHeldForAReason
  BY DEF SessionInv
<1> QED
  BY <1>1, SessionInvariant, PTL

\* A remote session is reported Completed only if its worker task was done
\* (consume_remote_task and SubAgentRegistry::complete).
THEOREM CompletionIsReal == Spec => []CompletedMeansDone
<1>1. SessionInv => CompletedMeansDone
  BY DEF SessionInv
<1> QED
  BY <1>1, SessionInvariant, PTL

\* A recorded result is never replaced while its session is in the registry
\* (SubAgentRegistry::complete, fail and kill).
THEOREM ResultsStay == Spec => ResultsAreFinal
<1> DEFINE Final == \A s \in Sessions :
               status[s] \in {"Completed", "Failed"}
                   => status'[s] \in {status[s], "absent"}
<1>1. ASSUME SessionInv, [Next]_vars PROVE Final
  <2> SUFFICES ASSUME NEW s \in Sessions, status[s] \in {"Completed", "Failed"}
               PROVE  status'[s] \in {status[s], "absent"}
    OBVIOUS
  <2>1. spawner[s] # "idle" /\ ~Finishing(s) /\ status[s] # "Running"
    BY <1>1 DEF SessionInv, CallsAndTasks, ResultsEndTasks, Finishing
  <2>2. status \in [Sessions -> {"absent", "Running", "Completed", "Failed",
                                 "Killed"}]
    BY <1>1 DEF SessionInv, TypeOK
  <2>3. ASSUME NEW r \in Sessions, TryInsert(r) PROVE status'[s] = status[s]
    BY <2>1, <2>2, <2>3 DEF TryInsert
  <2>4. ASSUME NEW r \in Sessions, RecordResult(r) PROVE status'[s] = status[s]
    BY ONLY <2>1, <2>2, <2>4 DEF RecordResult, registry
  <2>5. ASSUME NEW r \in Sessions, Kill(r) PROVE status'[s] = status[s]
    BY <2>1, <2>2, <2>5 DEF Kill
  <2>6. CASE List
    BY <2>6 DEF List
  <2>7. CASE UNCHANGED status
    BY <2>7
  <2> QED
    BY <1>1, <2>3, <2>4, <2>5, <2>6, <2>7
    DEF Next, Spawn, TaskStep, WorkerStep, StartFails, SpawnTask, SetHandle,
        TaskAnswers, TaskAborts, Age, WorkerAccepts, WorkerEnds, DeliverCancel,
        LoseCancel, vars, registry
<1> QED
  BY <1>1, SessionInvariant, PTL DEF ResultsAreFinal, Spec
=============================================================================
