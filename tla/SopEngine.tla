------------------------------ MODULE SopEngine ------------------------------
(***************************************************************************)
(* Runs of standard operating procedures: the engine                       *)
(* (src/src/sop/engine.rs), the tools and the dispatcher that call it      *)
(* (tools/sop_execute.rs, sop_advance.rs, sop_approve.rs, sop/dispatch.rs) *)
(* and the run records they leave in the memory backend (sop/audit.rs).    *)
(*                                                                         *)
(* The engine is behind one mutex, so each method call is a step.  A       *)
(* caller writes its audit record after it has dropped that lock, from a   *)
(* snapshot it took under it: such writes are steps of their own, in any   *)
(* order with everything else.                                             *)
(*                                                                         *)
(* Time is abstracted to what the engine asks of it: whether a cooldown    *)
(* has elapsed, and whether a run has waited longer than the approval      *)
(* timeout.  Run ids are the run counter (their prefix is the start time). *)
(***************************************************************************)
EXTENDS Naturals, Sequences, FiniteSets, SequencesExt

CONSTANTS
    Sops,                \* SOP names
    Catalogs,            \* what load_sops may find: names -> definitions
    Triggered,           \* the lists of SOP names an event can match
    MaxConcurrentTotal, MaxFinishedRuns,   \* as configured, 0: keep them all
    TimeoutPoller,       \* whether something calls check_approval_timeouts
    MaxRuns              \* a bound for TLC on the number of runs

Modes == {"Auto", "Supervised", "StepByStep", "PriorityBased"}

\* `confirm` has the requires_confirmation of each step, `high` stands for a
\* priority of Critical or High, `cooldown` for cooldown_secs > 0.
Definition ==
    [confirm: Seq(BOOLEAN), mode: Modes, high: BOOLEAN, cooldown: BOOLEAN,
     max_concurrent: Nat]

ASSUME SopAssumption ==
    /\ \A c \in Catalogs : DOMAIN c \subseteq Sops /\ c \in [DOMAIN c -> Definition]
    /\ Triggered \subseteq Seq(Sops)
    /\ {MaxConcurrentTotal, MaxFinishedRuns, MaxRuns} \subseteq Nat
    /\ TimeoutPoller \in BOOLEAN

VARIABLES
    sops,         \* the loaded definitions
    active,       \* active_runs: run id -> run
    finished,     \* finished_runs, oldest first
    run_counter,
    panicked,     \* an index was out of bounds: the process is gone
    writes,       \* the audit writes each call still has to make
    stored,       \* run id -> status in its sop_run_ record, "none" without
    \* History, read by properties only:
    cooling,      \* finished runs whose cooldown has not elapsed, oldest first
    approved      \* the steps that were approved, as <<run id, step>>

engine == <<sops, active, finished, run_counter, panicked>>
vars == <<engine, writes, stored, cooling, approved>>

Ids == 1..MaxRuns
Terminal == {"Completed", "Failed", "Cancelled"}
Statuses == {"Running", "WaitingApproval"} \cup Terminal
\* A skipped step advances the run as a completed one does.
Outcomes == {"completed", "failed"}

Update(f, x, value) ==
    [y \in DOMAIN f \cup {x} |-> IF y = x THEN value ELSE f[y]]

-----------------------------------------------------------------------------
(* Starting runs *)

\* resolve_step_action: whether step i waits for approval
NeedsApproval(def, i) ==
    \/ def.confirm[i]
    \/ def.mode = "StepByStep"
    \/ def.mode = "Supervised" /\ i = 1
    \/ def.mode = "PriorityBased" /\ ~def.high /\ i = 1

ActiveOf(runs, s) == {r \in DOMAIN runs : runs[r].sop = s}

\* The run finish_run recorded last for this SOP is still cooling down.
CoolingDown(s) ==
    LET own == {i \in DOMAIN finished : finished[i].sop = s}
    IN \E i \in own : /\ \A j \in own : j <= i
                      /\ \E k \in DOMAIN cooling :
                             cooling[k].id = finished[i].id

\* A bug: the cooldown is not looked at.
CanStartHot(runs, s) ==
    /\ s \in DOMAIN sops
    /\ Cardinality(ActiveOf(runs, s)) < sops[s].max_concurrent
    /\ Cardinality(DOMAIN runs) < MaxConcurrentTotal

\* can_start
CanStart(runs, s) ==
    /\ s \in DOMAIN sops
    /\ Cardinality(ActiveOf(runs, s)) < sops[s].max_concurrent
    /\ Cardinality(DOMAIN runs) < MaxConcurrentTotal
    /\ ~(sops[s].cooldown /\ CoolingDown(s))

NewRun(s, id) ==
    LET waits == NeedsApproval(sops[s], 1)
    IN [id |-> id, sop |-> s, step |-> 1, total |-> Len(sops[s].confirm),
        status |-> IF waits THEN "WaitingApproval" ELSE "Running",
        waiting |-> IF waits THEN "recent" ELSE "no",
        results |-> <<>>]

\* start_run on [active, run_counter]; a refused start changes neither.
StartRun(e, s) ==
    IF CanStart(e.active, s) /\ sops[s].confirm # <<>>
    THEN LET id == e.run_counter + 1
         IN [active |-> Update(e.active, id, NewRun(s, id)), run_counter |-> id]
    ELSE e

\* start_run for each name in turn, under one lock
StartAll(names) ==
    LET after[i \in 0..Len(names)] ==
            IF i = 0 THEN [active |-> active, run_counter |-> run_counter]
            ELSE StartRun(after[i - 1], names[i])
    IN after[Len(names)]

\* The audit of a call: one write per run it snapshotted, one after the other.
Snapshot(run) == [id |-> run.id, status |-> run.status]
Audit(runs) == IF runs = <<>> THEN {} ELSE {[i \in DOMAIN runs |-> Snapshot(runs[i])]}

\* The lock hold of sop_execute (one name, the user's) or the second one of
\* dispatch_sop_event: the names were matched before, perhaps against
\* definitions that a reload has replaced since.
StartRuns(names) ==
    LET after == StartAll(names)
        n     == after.run_counter - run_counter
    IN /\ after.run_counter <= MaxRuns
       /\ active' = after.active
       /\ run_counter' = after.run_counter
       /\ writes' = writes \cup
              Audit([i \in 1..n |-> after.active[run_counter + i]])
       /\ UNCHANGED <<sops, finished, panicked, stored, cooling, approved>>

-----------------------------------------------------------------------------
(* Finishing, advancing and approving *)

\* The finished runs that stay in memory.
Kept(runs) ==
    IF MaxFinishedRuns > 0 /\ Len(runs) > MaxFinishedRuns
    THEN SubSeq(runs, Len(runs) - MaxFinishedRuns + 1, Len(runs)) ELSE runs

\* finish_run
Finish(run, status) ==
    LET ended == [run EXCEPT !.status = status]
    IN /\ active' = [r \in DOMAIN active \ {run.id} |-> active[r]]
       /\ finished' = Kept(Append(finished, ended))
       /\ cooling' = Append(cooling, [id |-> run.id, sop |-> run.sop])

\* The process panics: nothing after that matters.
Panic == panicked' = TRUE /\ UNCHANGED <<sops, active, finished, run_counter,
                                         writes, stored, cooling, approved>>

\* A bug: the last step is taken for one before the last.
AdvanceStepShort(r, outcome) ==
    /\ r \in DOMAIN active
    /\ active[r].sop \in DOMAIN sops
    /\ LET run == [active[r] EXCEPT !.results = Append(@, outcome)]
       IN IF outcome = "failed" \/ run.step + 1 >= run.total
          THEN /\ Finish(run, IF outcome = "failed" THEN "Failed"
                              ELSE "Completed")
               /\ writes' = writes \cup {<<[id |-> r, status |->
                      IF outcome = "failed" THEN "Failed" ELSE "Completed"]>>}
          ELSE /\ active' = [active EXCEPT ![r] = [run EXCEPT !.step = @ + 1]]
               /\ UNCHANGED <<finished, cooling, writes>>
    /\ UNCHANGED <<sops, run_counter, panicked, stored, approved>>

\* A bug: the outcome is reported without the run being finished.
AdvanceStepReportsOnly(r, outcome) ==
    /\ r \in DOMAIN active
    /\ active[r].sop \in DOMAIN sops
    /\ writes' = writes \cup {<<[id |-> r, status |-> "Completed"]>>}
    /\ UNCHANGED <<engine, stored, cooling, approved>>

\* sop_advance on an active run: record the result, then fail, complete or go
\* to the next step.  The status of the run is not looked at, and a next step
\* that needs no approval leaves it as it is.
AdvanceStep(r, outcome) ==
    /\ r \in DOMAIN active
    /\ active[r].sop \in DOMAIN sops
    /\ LET run  == [active[r] EXCEPT !.results = Append(@, outcome)]
           next == run.step + 1
           end  == IF outcome = "failed" THEN "Failed" ELSE "Completed"
           def  == sops[run.sop]
       IN IF outcome = "failed" \/ next > run.total
          THEN /\ Finish(run, end)
               /\ writes' = writes \cup {<<[id |-> r, status |-> end]>>}
               /\ UNCHANGED <<sops, run_counter, panicked, stored, approved>>
          ELSE IF next > Len(def.confirm) THEN Panic
          ELSE /\ active' = [active EXCEPT
                      ![r] = IF NeedsApproval(def, next)
                             THEN [run EXCEPT !.step = next, !.waiting = "recent",
                                              !.status = "WaitingApproval"]
                             ELSE [run EXCEPT !.step = next]]
               /\ UNCHANGED <<sops, finished, run_counter, panicked, writes,
                              stored, cooling, approved>>

\* cancel_run: the caller is left to audit it, and none does.
CancelRun(r) ==
    /\ r \in DOMAIN active
    /\ Finish(active[r], "Cancelled")
    /\ UNCHANGED <<sops, run_counter, panicked, writes, stored, approved>>

\* A bug: the timestamp of the wait stays behind.
ApprovedRunKeepsWait(run) == [run EXCEPT !.status = "Running"]

ApprovedRun(run) == [run EXCEPT !.status = "Running", !.waiting = "no"]

\* approve_step for every run of a set.  A run whose SOP is no longer loaded is
\* set Running before the error that tells the caller nothing happened.
Approve(runs) ==
    LET loaded == {r \in runs : active[r].sop \in DOMAIN sops}
    IN IF \E r \in loaded : active[r].step > Len(sops[active[r].sop].confirm)
       THEN Panic
       ELSE /\ active' = [r \in DOMAIN active |->
                              IF r \in runs THEN ApprovedRun(active[r])
                              ELSE active[r]]
            /\ approved' = approved \cup {<<r, active[r].step>> : r \in loaded}
            /\ UNCHANGED <<sops, finished, run_counter, panicked, writes,
                           stored, cooling>>

\* sop_approve
ApproveStep(r) ==
    /\ r \in DOMAIN active
    /\ active[r].status = "WaitingApproval"
    /\ Approve({r})

\* The runs check_approval_timeouts approves: long enough in waiting, of an SOP
\* that is loaded and of high priority.
TimedOut ==
    {r \in DOMAIN active :
        /\ active[r].status = "WaitingApproval"
        /\ active[r].waiting = "overdue"
        /\ active[r].sop \in DOMAIN sops
        /\ sops[active[r].sop].high}

CheckApprovalTimeouts ==
    /\ TimeoutPoller
    /\ TimedOut # {}
    /\ Approve(TimedOut)

\* reload
Reload ==
    /\ sops' \in Catalogs
    /\ UNCHANGED <<active, finished, run_counter, panicked, writes, stored,
                   cooling, approved>>

-----------------------------------------------------------------------------
(* Time and the memory backend *)

\* Of the runs of an SOP the one that finished first cools down first.
CooldownElapses(i) ==
    /\ i \in DOMAIN cooling
    /\ \A j \in 1..(i - 1) : cooling[j].sop # cooling[i].sop
    /\ cooling' = RemoveAt(cooling, i)
    /\ UNCHANGED <<engine, writes, stored, approved>>

WaitTimesOut(r) ==
    /\ r \in DOMAIN active
    /\ active[r].waiting = "recent"
    /\ active' = [active EXCEPT ![r].waiting = "overdue"]
    /\ UNCHANGED <<sops, finished, run_counter, panicked, writes, stored,
                   cooling, approved>>

WriteDone(w) == (writes \ {w}) \cup (IF Len(w) > 1 THEN {Tail(w)} ELSE {})

\* log_run_start and log_run_complete store under the same key.
StoreRecord(w) ==
    /\ w \in writes
    /\ stored' = [stored EXCEPT ![Head(w).id] = Head(w).status]
    /\ writes' = WriteDone(w)
    /\ UNCHANGED <<engine, cooling, approved>>

\* A failed store is logged and forgotten.
StoreFails(w) ==
    /\ w \in writes
    /\ writes' = WriteDone(w)
    /\ UNCHANGED <<engine, stored, cooling, approved>>

-----------------------------------------------------------------------------
Init ==
    /\ sops \in Catalogs
    /\ active = <<>>
    /\ finished = <<>>
    /\ run_counter = 0
    /\ panicked = FALSE
    /\ writes = {}
    /\ stored = [r \in Ids |-> "none"]
    /\ cooling = <<>>
    /\ approved = {}

RunStep(r) ==
    \/ \E outcome \in Outcomes : AdvanceStep(r, outcome)
    \/ CancelRun(r)
    \/ ApproveStep(r)
    \/ WaitTimesOut(r)

AuditStep(w) == StoreRecord(w) \/ StoreFails(w)

Next ==
    /\ ~panicked
    /\ \/ \E names \in Triggered : StartRuns(names)
       \/ \E r \in Ids : RunStep(r)
       \/ CheckApprovalTimeouts
       \/ Reload
       \/ \E i \in DOMAIN cooling : CooldownElapses(i)
       \/ \E w \in writes : AuditStep(w)

Spec == Init /\ [][Next]_vars

\* Time passes, and the scheduler polls if it does so at all.  Operators,
\* agents and events are not obliged to do anything.
Fairness ==
    /\ \A r \in Ids : WF_vars(~panicked /\ WaitTimesOut(r))
    /\ WF_vars(~panicked /\ CheckApprovalTimeouts)

LiveSpec == Spec /\ Fairness

-----------------------------------------------------------------------------
(* Type invariant *)

RunType ==
    [id: Ids, sop: Sops, step: Nat \ {0}, total: Nat \ {0}, status: Statuses,
     waiting: {"no", "recent", "overdue"}, results: Seq(Outcomes)]

TypeOK ==
    /\ sops \in Catalogs
    /\ DOMAIN active \subseteq 1..run_counter
    /\ \A r \in DOMAIN active :
           /\ active[r] \in RunType
           /\ active[r].id = r
           /\ active[r].status = "WaitingApproval" <=> active[r].waiting # "no"
           /\ active[r].status \notin Terminal
    /\ finished \in Seq(RunType)
    /\ MaxFinishedRuns > 0 => Len(finished) <= MaxFinishedRuns
    /\ run_counter \in 0..MaxRuns
    /\ panicked \in BOOLEAN
    /\ \A w \in writes : w \in Seq([id: Ids, status: Statuses])
    /\ stored \in [Ids -> {"none"} \cup Statuses]
    /\ cooling \in Seq([id: Ids, sop: Sops])
    /\ approved \subseteq Ids \X Nat

-----------------------------------------------------------------------------
(* Safety *)

\* A finished run has left the memory of the engine: as many later ones as that
\* keeps have pushed it out.
Forgotten(id) ==
    /\ MaxFinishedRuns > 0 /\ Len(finished) = MaxFinishedRuns
    /\ \A i \in DOMAIN finished : finished[i].id # id

\* A run starts only where there is room, for its SOP and for all of them, at
\* every place of a batch of starts, whatever finished, was forgotten or was
\* loaded again before; and only when all runs of its SOP have cooled down that
\* the engine has not forgotten (can_start asks the active runs and the last
\* finished one still in memory).
StartsWithinLimits ==
    [][\A r \in DOMAIN active' \ DOMAIN active :
          LET s == active'[r].sop
          IN /\ Cardinality(ActiveOf(active', s)) <= sops[s].max_concurrent
             /\ Cardinality(DOMAIN active') <= MaxConcurrentTotal
             /\ sops[s].cooldown =>
                    \A k \in DOMAIN cooling :
                        cooling[k].sop = s => Forgotten(cooling[k].id)]_vars

\* Results are recorded for the steps in order, one each and none after a
\* failure: a run completes with a result for every step and fails on its last
\* one (advance_step and the step number sop_advance reads).
ResultsFollowSteps ==
    LET clean(run, n) == Len(run.results) = n /\ \A i \in 1..n : run.results[i] # "failed"
        failedLast(run) ==
            /\ Len(run.results) = run.step
            /\ \A i \in 1..run.step : run.results[i] = "failed" <=> i = run.step
        InProgress(run) == run.step <= run.total /\ clean(run, run.step - 1)
    IN /\ \A r \in DOMAIN active : panicked \/ InProgress(active[r])
       /\ \A i \in DOMAIN finished :
              \/ finished[i].status = "Completed"
                     /\ clean(finished[i], finished[i].total)
              \/ finished[i].status = "Failed" /\ failedLast(finished[i])
              \/ finished[i].status = "Cancelled" /\ InProgress(finished[i])

\* No run record claims an end that did not happen, although records are
\* written after the lock is gone (sop_advance, log_run_complete).
StoredOutcomesAreTrue ==
    \A r \in Ids : stored[r] \in Terminal =>
        /\ r \notin DOMAIN active
        /\ \A i \in DOMAIN finished :
               finished[i].id = r => finished[i].status = stored[r]

-----------------------------------------------------------------------------
(* Liveness *)

Waits(r) ==
    /\ ~panicked
    /\ r \in DOMAIN active
    /\ active[r].status = "WaitingApproval"
    /\ active[r].sop \in DOMAIN sops
    /\ sops[active[r].sop].high

\* A run of a high priority SOP does not wait for an operator forever:
\* "approval timeout polling in the scheduler handles progression"
\* (dispatch.rs), if it calls check_approval_timeouts.
HighPriorityWaitsEnd == \A r \in Ids : Waits(r) ~> ~Waits(r)

-----------------------------------------------------------------------------
(* What the documentation says *)

\* "requires_confirmation: true enforces approval for that step": its result
\* is recorded only after an approval.
ConfirmedStepsWereApproved ==
    \A run \in Range(active) \cup Range(finished) :
        \A i \in DOMAIN run.results :
            sops[run.sop].confirm[i] => <<run.id, i>> \in approved

\* The run record is "created on start, updated on complete": an outcome is
\* not overwritten by an earlier state of the run.
RecordedOutcomesStay ==
    [][\A r \in Ids : stored[r] \in Terminal => stored'[r] = stored[r]]_vars
=============================================================================
