---------------------------- MODULE CronScheduler ----------------------------
(***************************************************************************)
(* Scheduled jobs: the table of jobs (src/src/cron/store.rs), the poll     *)
(* loop that runs what is due (src/src/cron/scheduler.rs) and, beside it,  *)
(* the requests that run a job at once and those that change, pause or     *)
(* remove it (src/src/gateway/api.rs, src/src/tools/cron_run.rs).          *)
(*                                                                         *)
(* Every statement on the database is a step of its own.  The scheduler    *)
(* works on the rows it polled, a caller on the row it read, and           *)
(* update_job writes back every column of a row it read before: what       *)
(* happens to the row in between is what the properties are about.         *)
(*                                                                         *)
(* An execution, its retries, the delivery of its output and the record of *)
(* it are one step that succeeds or fails, for what precedes the record    *)
(* reads and changes nothing of the database.  The last_* columns are left *)
(* out: no step depends on them.                                           *)
(***************************************************************************)
EXTENDS Naturals, Sequences, FiniteSets

CONSTANTS
    Jobs,           \* ids: random, so one is never given out twice
    Schedules,      \* the schedules that requests give
    Callers,        \* requests to run a job now that may be in progress at once, as numbers
    Editors,        \* requests to update a job that may be in progress at once
    MaxTasks,       \* scheduler.max_tasks
    MaxConcurrent,  \* scheduler.max_concurrent
    MaxHistory,     \* cron.max_run_history
    MaxTime,        \* bounds for TLC: the clock,
    MaxRequests,    \* the requests of users
    MaxFaults       \* and the crashes and failures of the database

\* A time, a period, or the times a cron expression stands for.
Schedule == [kind: {"at", "every"}, time: Nat \ {0}] \cup [kind: {"cron"}, times: SUBSET Nat]
Slots == 1..MaxConcurrent

ASSUME CronAssumption ==
    /\ Schedules \subseteq Schedule
    /\ {MaxTasks, MaxConcurrent, MaxHistory} \subseteq Nat \ {0}
    /\ {MaxTime, MaxRequests, MaxFaults} \subseteq Nat
    /\ Callers \subseteq Nat \ Slots

Runners == Slots \cup Callers

VARIABLES
    now,       \* the clock
    jobs,      \* the rows of cron_jobs, by id
    issued,    \* ids given out so far
    records,   \* how many rows of cron_runs each job has
    batch,     \* polled rows whose execution has not started
    run,       \* what each slot of the scheduler and each caller is doing
    edit,      \* what each editor read and is about to write
    requests,  \* requests made so far
    faults,    \* faults so far
    \* History, read by properties only:
    started,   \* what the scheduler last started each job for
    idle,      \* job -> starts by the scheduler since it is off or removed
    stale,     \* jobs whose row was written from one that was out of date
    excused    \* jobs resumed, no longer kept or given a time back, and jobs of lost runs

table == <<jobs, issued, records>>
actors == <<batch, run, edit>>
history == <<started, idle, stale, excused>>
vars == <<now, table, actors, requests, faults, history>>

Row == [schedule: Schedule, enabled: BOOLEAN, delete_after_run: BOOLEAN, next_run: Nat]
Live == DOMAIN jobs
AnySchedule == [kind |-> "at", time |-> 1]
NoRow == [schedule |-> AnySchedule, enabled |-> FALSE, delete_after_run |-> FALSE, next_run |-> 0]
Free == [stage |-> "free", id |-> "none", copy |-> NoRow, ok |-> FALSE]
NoEdit == [id |-> "none", read |-> NoRow, write |-> NoRow]

\* next_run_for_schedule fails for a cron expression without a time to come, as
\* one that names a year that is over: HasNext says when it gives a next run.
Following(s, from) == {t \in s.times : t > from}
HasNext(s, from) == s.kind = "cron" => Following(s, from) # {}
NextRun(s, from) ==
    CASE s.kind = "at"    -> s.time
      [] s.kind = "every" -> from + s.time
      [] s.kind = "cron"  -> CHOOSE t \in Following(s, from) :
                                 \A u \in Following(s, from) : t <= u

\* validate_schedule
Valid(s) == HasNext(s, now) /\ (s.kind = "at" => s.time > now)

IsOneShot(row) == row.delete_after_run /\ row.schedule.kind = "at"

\* A one-shot that is kept is due for ever, and so is a job whose cron expression
\* has run out.
Kept(row) == row.schedule.kind = "at" /\ ~row.delete_after_run
StaysDue(row) == Kept(row) \/ ~HasNext(row.schedule, now)

Resumed(old, row) == ~old.enabled /\ row.enabled
NoLongerKept(old, row) == Kept(old) /\ ~Kept(row)

\* A bug: paused jobs are polled.
IsDueAlways(row) == row.next_run <= now
IsDue(row) == row.enabled /\ row.next_run <= now
Due(j) == j \in Live /\ IsDue(jobs[j])
Occurrence(row) == <<row.schedule, row.next_run>>

\* A job gets a time back that it was started for: the table changed to and
\* fro after an update read it.
Returns(j, row) == Occurrence(jobs[j]) # started[j] /\ Occurrence(row) = started[j]

\* A statement that finds no row changes nothing.
Write(j, row) == jobs' = [k \in Live |-> IF k = j THEN row ELSE jobs[k]]
Unfinished(j) == {p \in Runners : run[p].stage # "free" /\ run[p].id = j}
Request == requests < MaxRequests /\ requests' = requests + 1
Fault == faults < MaxFaults /\ faults' = faults + 1

-----------------------------------------------------------------------------
(* The requests of users *)

\* add_shell_job deletes its one-shots, add_agent_job as it is told.
Add(j, s) ==
    /\ Request
    /\ j \notin issued /\ Valid(s)
    /\ \E d \in BOOLEAN :
           jobs' = [k \in Live \cup {j} |->
                        IF k = j THEN [schedule |-> s, enabled |-> TRUE, delete_after_run |-> d,
                                       next_run |-> NextRun(s, now)]
                        ELSE jobs[k]]
    /\ issued' = issued \cup {j}
    /\ UNCHANGED <<now, records, actors, faults, history>>

DeleteRow(j) ==
    /\ jobs' = [k \in Live \ {j} |-> jobs[k]]
    /\ records' = [records EXCEPT ![j] = 0]   \* ON DELETE CASCADE

\* remove_job
Delete(j) ==
    /\ Request
    /\ j \in Live
    /\ DeleteRow(j)
    /\ UNCHANGED <<now, issued, actors, faults, history>>

\* What update_job makes of a row for some patch: pauses and resumes, new
\* schedules, whether it is deleted after its run, and patches of columns that
\* are left out here.
RescheduledRows(row) ==
    {[row EXCEPT !.schedule = s, !.next_run = NextRun(s, now)] : s \in {s \in Schedules : Valid(s)}}

\* A bug: a new schedule leaves the next run alone.
PatchedOldNextRun(row) ==
    {[r EXCEPT !.enabled = b] :
        r \in {row} \cup {[row EXCEPT !.schedule = s] : s \in Schedules}, b \in BOOLEAN}

Flagged(row, enabled, delete) == [row EXCEPT !.enabled = enabled, !.delete_after_run = delete]

Patched(row) ==
    {Flagged(r, b, d) : r \in {row} \cup RescheduledRows(row), b \in BOOLEAN, d \in BOOLEAN}

\* update_job reads the row ...
ReadJob(e, j) ==
    /\ Request
    /\ edit[e] = NoEdit
    /\ j \in Live
    /\ \E row \in Patched(jobs[j]) :
           edit' = [edit EXCEPT ![e] = [id |-> j, read |-> jobs[j], write |-> row]]
    /\ UNCHANGED <<now, table, batch, run, faults, history>>

\* ... and writes all its columns back.
WriteJob(e) ==
    LET j == edit[e].id
        row == edit[e].write
    IN /\ edit[e] # NoEdit
       /\ Write(j, row)
       /\ edit' = [edit EXCEPT ![e] = NoEdit]
       /\ stale' = IF j \in Live /\ jobs[j] # edit[e].read THEN stale \cup {j} ELSE stale
       /\ excused' = IF /\ j \in Live
                        /\ Resumed(jobs[j], row) \/ NoLongerKept(jobs[j], row) \/ Returns(j, row)
                     THEN excused \cup {j} ELSE excused
       /\ idle' = IF j \in Live /\ row.enabled THEN [idle EXCEPT ![j] = 0] ELSE idle
       /\ UNCHANGED <<now, issued, records, batch, run, requests, faults, started>>

\* handle_api_cron_run and cron_run read the row and execute it at once.
RunNow(p, j) ==
    /\ Request
    /\ p \in Callers /\ run[p] = Free
    /\ j \in Live
    /\ run' = [run EXCEPT ![p] = [stage |-> "executing", id |-> j, copy |-> jobs[j],
                                  ok |-> FALSE]]
    /\ UNCHANGED <<now, table, batch, edit, faults, history>>

-----------------------------------------------------------------------------
(* The scheduler *)

\* due_jobs: the first MaxTasks of what is due.
Polled(q) ==
    LET due == {j \in Live : IsDue(jobs[j])}
    IN /\ {q[i] : i \in DOMAIN q} \subseteq due
       /\ \A i, k \in DOMAIN q : i < k => q[i] # q[k] /\ jobs[q[i]].next_run <= jobs[q[k]].next_run
       /\ Len(q) = MaxTasks \/ Len(q) = Cardinality(due)
       /\ \A i \in DOMAIN q : \A j \in due \ {q[k] : k \in DOMAIN q} :
              jobs[q[i]].next_run <= jobs[j].next_run

\* A bug: the next poll does not wait for the batch.
PollAnyTime ==
    \E n \in 1..MaxTasks : \E q \in [1..n -> Live] :
        /\ Polled(q)
        /\ batch' = [i \in 1..n |-> [id |-> q[i], row |-> jobs[q[i]]]]
        /\ UNCHANGED <<now, table, run, edit, requests, faults, started, idle, stale, excused>>

\* run polls when every job of the last batch is done with.
Poll ==
    /\ batch = <<>>
    /\ \A p \in Slots : run[p] = Free
    /\ \E n \in 1..MaxTasks : \E q \in [1..n -> Live] :
           /\ Polled(q)
           /\ batch' = [i \in 1..n |-> [id |-> q[i], row |-> jobs[q[i]]]]
    /\ UNCHANGED <<now, table, run, edit, requests, faults, started, idle, stale, excused>>

NextStarts(p) ==
    /\ batch # <<>> /\ p \in Slots /\ run[p] = Free
    /\ \A q \in Slots : q < p => run[q] # Free
    /\ batch' = Tail(batch)
    /\ LET j == Head(batch).id
       IN /\ run' = [run EXCEPT ![p] = [stage |-> "executing", id |-> j,
                                        copy |-> Head(batch).row, ok |-> FALSE]]
          /\ started' = [started EXCEPT ![j] = Occurrence(Head(batch).row)]
          /\ idle' = [idle EXCEPT ![j] = IF j \in Live /\ jobs[j].enabled THEN @ ELSE @ + 1]
    /\ UNCHANGED <<now, issued, records, edit, requests, faults, stale, excused>>

\* A bug: a job is rescheduled before it runs.
StartRescheduled(p) ==
    /\ NextStarts(p)
    /\ LET j == Head(batch).id
       IN IF j \in Live /\ HasNext(jobs[j].schedule, now)
          THEN Write(j, [jobs[j] EXCEPT !.next_run = NextRun(jobs[j].schedule, now)])
          ELSE UNCHANGED jobs

\* buffer_unordered starts the next job when a slot is free.
Start(p) == NextStarts(p) /\ UNCHANGED jobs

-----------------------------------------------------------------------------
(* An execution and what is written after it *)

In(p, stage) == run[p].stage = stage
End(p) == run' = [run EXCEPT ![p] = Free]

\* After the record cron_run only stores the last result; the scheduler and
\* handle_api_cron_run go on.  Only of a one-shot does it matter whether
\* execute_job_with_retry and the delivery of its output succeeded.
AfterRecord(p) ==
    \/ p \in Callers /\ End(p)
    \/ \E ok \in BOOLEAN :
           run' = [run EXCEPT ![p].stage = "recorded", ![p].ok = ok /\ IsOneShot(run[p].copy)]

\* An execution ends and record_run inserts and prunes in one transaction; the
\* foreign key fails it for a removed job.
RecordRun(p) ==
    LET j == run[p].id
    IN /\ In(p, "executing")
       /\ records' = IF j \in Live /\ records[j] < MaxHistory
                     THEN [records EXCEPT ![j] = @ + 1] ELSE records
       /\ AfterRecord(p)
       /\ UNCHANGED <<now, jobs, issued, batch, edit, requests, faults, history>>

\* A one-shot that succeeded is removed ...
RemoveDone(p) ==
    /\ In(p, "recorded") /\ IsOneShot(run[p].copy) /\ run[p].ok
    /\ DeleteRow(run[p].id)
    /\ End(p)
    /\ UNCHANGED <<now, issued, batch, edit, requests, faults, history>>

\* ... and one that failed is disabled by update_job, in two statements.
ReadFailed(p) ==
    LET j == run[p].id
    IN /\ In(p, "recorded") /\ IsOneShot(run[p].copy) /\ ~run[p].ok
       /\ IF j \in Live
          THEN run' = [run EXCEPT ![p].stage = "disabling", ![p].copy = jobs[j]]
          ELSE End(p)
       /\ UNCHANGED <<now, table, batch, edit, requests, faults, history>>

DisableFailed(p) ==
    LET j == run[p].id
    IN /\ In(p, "disabling")
       /\ Write(j, [run[p].copy EXCEPT !.enabled = FALSE])
       /\ End(p)
       /\ stale' = IF j \in Live /\ jobs[j] # run[p].copy THEN stale \cup {j} ELSE stale
       /\ UNCHANGED <<now, issued, records, batch, edit, requests, faults,
                      started, idle, excused>>

\* A bug: the run of a removed job is not ended.
RescheduleLive(p) ==
    LET j == run[p].id
        copy == run[p].copy
    IN /\ In(p, "recorded") /\ ~IsOneShot(copy) /\ j \in Live
       /\ IF HasNext(copy.schedule, now)
          THEN Write(j, [jobs[j] EXCEPT !.next_run = NextRun(copy.schedule, now)])
          ELSE UNCHANGED jobs
       /\ End(p)
       /\ UNCHANGED <<now, issued, records, batch, edit, requests, faults, history>>

\* reschedule_after_run: the schedule is that of the copy.  Where that has run
\* out the row stays as it is, and the error is ignored.
Reschedule(p) ==
    LET j == run[p].id
        copy == run[p].copy
        writes == j \in Live /\ HasNext(copy.schedule, now)
    IN /\ In(p, "recorded") /\ ~IsOneShot(copy)
       /\ IF writes
          THEN Write(j, [jobs[j] EXCEPT !.next_run = NextRun(copy.schedule, now)])
          ELSE UNCHANGED jobs
       /\ End(p)
       /\ stale' = IF writes /\ jobs[j].schedule # copy.schedule
                   THEN stale \cup {j} ELSE stale
       /\ UNCHANGED <<now, issued, records, batch, edit, requests, faults,
                      started, idle, excused>>

-----------------------------------------------------------------------------
(* Time and faults *)

Tick == now < MaxTime /\ now' = now + 1 /\ UNCHANGED <<table, actors, requests, faults, history>>

\* The error of a statement after an execution is ignored.
StoreFails(p) ==
    /\ Fault
    /\ \/ In(p, "executing") /\ AfterRecord(p)
       \/ run[p].stage \in {"recorded", "disabling"} /\ End(p)
    /\ excused' = excused \cup {run[p].id}
    /\ UNCHANGED <<now, table, batch, edit, requests, started, idle, stale>>

\* The daemon stops and starts again: all that is kept is the database.
Crash ==
    /\ Fault
    /\ batch' = <<>>
    /\ run' = [p \in Runners |-> Free]
    /\ edit' = [e \in Editors |-> NoEdit]
    /\ excused' = excused \cup {j \in Jobs : Unfinished(j) # {}}
    /\ UNCHANGED <<now, table, requests, started, idle, stale>>

Init ==
    /\ now = 0
    /\ jobs = <<>>
    /\ issued = {}
    /\ records = [j \in Jobs |-> 0]
    /\ batch = <<>>
    /\ run = [p \in Runners |-> Free]
    /\ edit = [e \in Editors |-> NoEdit]
    /\ requests = 0
    /\ faults = 0
    /\ started = [j \in Jobs |-> Occurrence(NoRow)]
    /\ idle = [j \in Jobs |-> 0]
    /\ stale = {}
    /\ excused = {}

RunStep(p) ==
    \/ RecordRun(p)
    \/ RemoveDone(p)
    \/ ReadFailed(p)
    \/ DisableFailed(p)
    \/ Reschedule(p)

Next ==
    \/ \E j \in Jobs, s \in Schedules : Add(j, s)
    \/ \E j \in Jobs : Delete(j)
    \/ \E e \in Editors, j \in Jobs : ReadJob(e, j)
    \/ \E e \in Editors : WriteJob(e)
    \/ \E p \in Callers, j \in Jobs : RunNow(p, j)
    \/ Poll
    \/ \E p \in Slots : Start(p)
    \/ \E p \in Runners : RunStep(p)
    \/ \E p \in Runners : StoreFails(p)
    \/ Crash
    \/ Tick

\* The task of the scheduler goes on while it has something to do, and an
\* execution ends: a shell job by its timeout at the latest, an agent job by the
\* limit on its iterations.
SchedulerStep == Poll \/ \E p \in Slots : Start(p) \/ RunStep(p)
Fairness == WF_vars(SchedulerStep)

Spec == Init /\ [][Next]_vars /\ Fairness

-----------------------------------------------------------------------------
Run == [stage: {"free", "executing", "recorded", "disabling"}, id: Jobs \cup {"none"},
        copy: Row, ok: BOOLEAN]

TypeOK ==
    /\ now \in Nat
    /\ Live \subseteq issued /\ issued \subseteq Jobs
    /\ \A j \in Live : jobs[j] \in Row
    /\ records \in [Jobs -> 0..MaxHistory]
    /\ batch \in Seq([id: Jobs, row: Row])
    /\ run \in [Runners -> Run]
    /\ edit \in [Editors -> [id: Jobs \cup {"none"}, read: Row, write: Row]]
    /\ started \in [Jobs -> Schedule \X Nat]
    /\ idle \in [Jobs -> Nat]
    /\ stale \subseteq Jobs /\ excused \subseteq Jobs
    /\ requests \in Nat

\* A removed job leaves no record of its runs behind, although a run of it may
\* end and be recorded after the removal (record_run, remove_job).
NoRecordsOfRemovedJobs == \A j \in Jobs : records[j] > 0 => j \in Live

\* The next run of a job is one its schedule gave at some time, whatever update
\* was made while it ran, unless that update replaced the schedule the run was
\* started with, or was itself overtaken by another write (update_job,
\* reschedule_after_run).
Follows(row) ==
    \E from \in 0..now :
        HasNext(row.schedule, from) /\ row.next_run = NextRun(row.schedule, from)

NextRunFollowsSchedule == \A j \in Live \ stale : Follows(jobs[j])

\* A job that is paused or removed is started at most once more, if it had been
\* polled before: until it is resumed no poll takes it up again (due_jobs,
\* pause_job, remove_job).
OffMeansAtMostOneMore == \A j \in Jobs : idle[j] <= 1

\* The scheduler starts a job once for each time it falls due.  It starts it
\* again for the same time only after a crash or a failed statement, a resume,
\* an update that gives it that time back, a write from a row that was out of
\* date, if it is or was a one-shot that is not deleted after its run, or when its
\* cron expression has run out (execute_and_persist_job, process_due_jobs).
StartedOncePerOccurrence ==
    [][\A j \in Jobs, p \in Slots :
          /\ run[p] = Free /\ run'[p] # Free /\ run'[p].id = j
          /\ Occurrence(run'[p].copy) = started[j]
          => j \in stale \cup excused \/ StaysDue(run'[p].copy)]_vars

\* A time a job fell due at is passed over only when a run of it is over, or by
\* a request: no crash, failure or race of the scheduler with other runs drops
\* it (persist_job_result, handle_api_cron_run).
OccurrencesAreNotDropped ==
    [][\A j \in Jobs :
          Due(j) /\ ~Due(j)'
          => \/ \E p \in Runners : run[p].id = j /\ run[p].stage \in {"recorded", "disabling"}
             \/ \E e \in Editors : edit[e].id = j /\ edit'[e] = NoEdit
             \/ requests' # requests]_vars

\* Jobs that stay due take up every poll: if they are enough of them, a job that
\* fell due after them is never polled.
Starved(j) ==
    LET hogs == {k \in Live \ {j} : jobs[k].enabled /\ StaysDue(jobs[k])
                                    /\ jobs[k].next_run <= jobs[j].next_run}
    IN Cardinality(hogs) >= MaxTasks

\* A job that is due is started in the end, or is no longer due, whatever else
\* runs, fails or crashes, unless it is starved.
DueJobsStart ==
    \A j \in Jobs : []<>(\/ ~Due(j)
                         \/ \E p \in Slots : run[p].id = j
                         \/ Starved(j))
=============================================================================
