------------------------- MODULE CronSchedulerProofs -------------------------
(***************************************************************************)
(* Theorems about CronScheduler for every set of jobs and schedules, every *)
(* limit and every number of requests and faults.                          *)
(*                                                                         *)
(* CronInv strengthens the safety properties with what an update is about  *)
(* to write, and with where a job that is off may still be.  OnceInv says  *)
(* where a start for each time a job falls due still shows: in the time it *)
(* is due at next, or in a run that is not over.                           *)
(***************************************************************************)
EXTENDS CronScheduler, SequenceTheorems, NaturalsInduction, WellFoundedInduction, TLAPS

SameTimes(r, row) == r.schedule = row.schedule /\ r.next_run = row.next_run

\* A run has a job as long as it lasts.
RunsHaveJobs == \A p \in Runners : run[p].stage # "free" => run[p].id \in Jobs

\* An update leaves schedule and next run alone or makes them fit.
EditsFit == \A e \in Editors : SameTimes(edit[e].write, edit[e].read) \/ Follows(edit[e].write)

\* A batch holds each job once, and only jobs that were added.
BatchDistinct ==
    /\ \A i \in DOMAIN batch : batch[i].id \in issued
    /\ \A i, k \in DOMAIN batch : batch[i].id = batch[k].id => i = k

\* A job that was started while it was off is no longer polled and still off.
StartedOffStaysOff ==
    \A j \in Jobs :
        idle[j] > 0 => /\ idle[j] = 1
                       /\ j \in issued
                       /\ \A i \in DOMAIN batch : batch[i].id # j
                       /\ j \in Live => ~jobs[j].enabled

CronInv ==
    /\ TypeOK
    /\ RunsHaveJobs
    /\ NoRecordsOfRemovedJobs
    /\ EditsFit
    /\ NextRunFollowsSchedule
    /\ BatchDistinct
    /\ StartedOffStaysOff

-----------------------------------------------------------------------------
\* A set of times that is not empty has a first one.
LEMMA FirstTime ==
    ASSUME NEW T, T \subseteq Nat, T # {}
    PROVE  \E t \in T : \A u \in T : t <= u
<1> DEFINE R == OpToRel(<, Nat)
<1>1. IsWellFoundedOn(R, Nat)
  BY NatLessThanWellFounded
<1>2. \A x, y \in Nat : x < y => <<x, y>> \in R
  BY DEF OpToRel
<1> HIDE DEF R
<1>3. PICK t \in T : \A u \in T : ~(<<u, t>> \in R)
  BY <1>1, WFMin
<1>4. ASSUME NEW u \in T
      PROVE  t <= u
  <2>1. u \in Nat /\ t \in Nat
    OBVIOUS
  <2>2. ~(u < t)
    BY <1>2, <1>3, <2>1
  <2> QED
    BY ONLY <2>1, <2>2
<1> QED
  BY <1>4

\* A schedule that gives a next run gives one to come, unless it is a time.
LEMMA NextRunLater ==
    ASSUME NEW s \in Schedule, NEW n \in Nat, HasNext(s, n)
    PROVE  /\ NextRun(s, n) \in Nat
           /\ s.kind = "at" => NextRun(s, n) = s.time
           /\ s.kind # "at" => NextRun(s, n) > n
<1>1. CASE s.kind = "at"
  BY <1>1 DEF NextRun, Schedule
<1>2. CASE s.kind = "every"
  <2>1. s.time \in Nat /\ s.time > 0 /\ NextRun(s, n) = n + s.time
    BY <1>2 DEF NextRun, Schedule
  <2> QED
    BY <1>2, <2>1
<1>3. CASE s.kind = "cron"
  <2> DEFINE T == Following(s, n)
  <2>1. T \subseteq Nat /\ T # {} /\ \A t \in T : t > n
    BY <1>3 DEF HasNext, Following, Schedule
  <2>2. NextRun(s, n) = CHOOSE t \in T : \A u \in T : t <= u
    BY <1>3 DEF NextRun
  <2> HIDE DEF T
  <2>3. \E t \in T : \A u \in T : t <= u
    BY <2>1, FirstTime
  <2>4. NextRun(s, n) \in T
    BY <2>2, <2>3
  <2> QED
    BY <1>3, <2>1, <2>4
<1> QED
  BY <1>1, <1>2, <1>3 DEF Schedule

\* A cron expression that has run out stays so.
LEMMA RunOutStays ==
    ASSUME NEW s \in Schedule, NEW m \in Nat, NEW n \in Nat, m <= n, HasNext(s, n)
    PROVE  HasNext(s, m)
<1>1. ASSUME s.kind = "cron" PROVE Following(s, n) \subseteq Following(s, m)
  BY <1>1 DEF Following, Schedule
<1> QED
  BY <1>1 DEF HasNext

LEMMA RowsTyped == NoRow \in Row /\ Free \in Run /\ NoEdit.read \in Row
BY DEF Schedule, NoRow, Row, AnySchedule, Free, Run, NoEdit

LEMMA GivenNow ==
    ASSUME now \in Nat, NEW r, HasNext(r.schedule, now), r.next_run = NextRun(r.schedule, now)
    PROVE  Follows(r)
<1>1. now \in 0..now
  OBVIOUS
<1> QED
  BY <1>1 DEF Follows

\* What a patch makes of a row is a row whose next run is the old one or fits.
LEMMA PatchedRows ==
    ASSUME CronAssumption, now \in Nat, NEW row \in Row, NEW r \in Patched(row)
    PROVE  r \in Row /\ (SameTimes(r, row) \/ Follows(r))
<1>1. PICK q \in {row} \cup RescheduledRows(row), b \in BOOLEAN, d \in BOOLEAN :
          r = Flagged(q, b, d)
  BY DEF Patched
<1>2. CASE q = row
  BY <1>1, <1>2 DEF Row, SameTimes, Flagged
<1>3. CASE q \in RescheduledRows(row)
  <2>1. PICK s \in Schedules :
            Valid(s) /\ q = [row EXCEPT !.schedule = s, !.next_run = NextRun(s, now)]
    BY <1>3 DEF RescheduledRows
  <2>2. s \in Schedule /\ NextRun(s, now) \in Nat /\ HasNext(s, now)
    BY <2>1, NextRunLater DEF CronAssumption, Valid
  <2>3. r.schedule = s /\ r.next_run = NextRun(s, now) /\ r \in Row
    BY <1>1, <2>1, <2>2 DEF Row, Flagged
  <2> QED
    BY <2>2, <2>3, GivenNow
<1> QED
  BY <1>1, <1>2, <1>3

\* The statement UPDATE ... WHERE id touches one row at most.
LEMMA Written ==
    ASSUME NEW j, NEW row, Write(j, row)
    PROVE  /\ Live' = Live
           /\ \A k \in Live : jobs'[k] = IF k = j THEN row ELSE jobs[k]
BY DEF Write, Live

LEMMA Deleted ==
    ASSUME NEW j, DeleteRow(j)
    PROVE  /\ Live' = Live \ {j}
           /\ \A k \in Live \ {j} : jobs'[k] = jobs[k]
BY DEF DeleteRow, Live

\* What a schedule gave once it has given as time passes.
LEMMA FollowsLater ==
    ASSUME now \in Nat, now' \in Nat, now <= now', NEW row \in Row, Follows(row)
    PROVE  Follows(row)'
<1>1. 0..now \subseteq 0..now'
  OBVIOUS
<1> QED
  BY <1>1 DEF Follows

LEMMA CronInit == CronAssumption /\ Init => CronInv
<1> SUFFICES ASSUME CronAssumption, Init PROVE CronInv
  OBVIOUS
<1>0. NoRow \in Row /\ Free \in Run /\ AnySchedule \in Schedule /\ 0 \in Nat
  BY RowsTyped DEF AnySchedule, Schedule
<1>1. Live = {}
  BY DEF Init, Live
<1>2. TypeOK
  <2>1. Occurrence(NoRow) \in Schedule \X Nat
    BY <1>0 DEF Occurrence, Row
  <2>2. NoEdit \in [id: Jobs \cup {"none"}, read: Row, write: Row]
    BY <1>0 DEF NoEdit
  <2>3. batch \in Seq([id: Jobs, row: Row])
    BY DEF Init
  <2>4. MaxHistory \in Nat /\ 0 \in 0..MaxHistory
    BY DEF CronAssumption
  <2> QED
    BY <1>0, <1>1, <2>1, <2>2, <2>3, <2>4 DEF Init, TypeOK
<1> QED
  BY <1>1, <1>2 DEF Init, CronInv, RunsHaveJobs, NoRecordsOfRemovedJobs, EditsFit, SameTimes,
     NoEdit, NextRunFollowsSchedule, BatchDistinct, StartedOffStaysOff, Free

-----------------------------------------------------------------------------
(* Types *)

LEMMA TypesKept ==
    ASSUME CronAssumption, TypeOK, RunsHaveJobs, [Next]_vars
    PROVE  TypeOK' /\ RunsHaveJobs'
<1> USE DEF TypeOK
<1>0. /\ NoRow \in Row /\ Free \in Run
      /\ NoEdit \in [id: Jobs \cup {"none"}, read: Row, write: Row]
  BY RowsTyped DEF NoEdit
<1>1. ASSUME NEW j \in Jobs, NEW s \in Schedules, Add(j, s)
      PROVE  TypeOK' /\ RunsHaveJobs'
  <2>1. s \in Schedule /\ NextRun(s, now) \in Nat
    BY <1>1, NextRunLater DEF CronAssumption, Add, Valid
  <2>2. PICK d \in BOOLEAN :
            jobs' = [k \in Live \cup {j} |->
                        IF k = j THEN [schedule |-> s, enabled |-> TRUE, delete_after_run |-> d,
                                       next_run |-> NextRun(s, now)]
                        ELSE jobs[k]]
    BY <1>1 DEF Add
  <2>3. Live' = Live \cup {j} /\ \A k \in Live' : jobs'[k] \in Row
    BY <2>1, <2>2 DEF Live, Row
  <2>4. requests' \in Nat
    BY <1>1 DEF Add, Request
  <2>5. now' = now /\ issued' = issued \cup {j}
        /\ UNCHANGED <<records, batch, run, edit, started, idle, stale, excused>>
    BY <1>1 DEF Add, actors, history
  <2> QED
    BY <2>3, <2>4, <2>5 DEF RunsHaveJobs
<1>2. ASSUME NEW j \in Jobs, Delete(j)
      PROVE  TypeOK' /\ RunsHaveJobs'
  <2>1. Live' = Live \ {j} /\ \A k \in Live' : jobs'[k] \in Row
    BY <1>2, Deleted DEF Delete
  <2>2. records' \in [Jobs -> 0..MaxHistory]
    BY <1>2 DEF Delete, DeleteRow, CronAssumption
  <2>3. requests' \in Nat
    BY <1>2 DEF Delete, Request
  <2>4. UNCHANGED <<now, issued, batch, run, edit, started, idle, stale, excused>>
    BY <1>2 DEF Delete, actors, history
  <2> QED
    BY <2>1, <2>2, <2>3, <2>4 DEF RunsHaveJobs
<1>3. ASSUME NEW e \in Editors, NEW j \in Jobs, ReadJob(e, j)
      PROVE  TypeOK' /\ RunsHaveJobs'
  <2>1. PICK row \in Patched(jobs[j]) :
            edit' = [edit EXCEPT ![e] = [id |-> j, read |-> jobs[j], write |-> row]]
    BY <1>3 DEF ReadJob
  <2>2. jobs[j] \in Row /\ row \in Row
    BY <1>3, PatchedRows DEF ReadJob
  <2>3. edit' \in [Editors -> [id: Jobs \cup {"none"}, read: Row, write: Row]]
    BY <2>1, <2>2
  <2>4. requests' \in Nat
    BY <1>3 DEF ReadJob, Request
  <2>5. UNCHANGED <<now, jobs, issued, records, batch, run, started, idle, stale, excused>>
    BY <1>3 DEF ReadJob, table, history
  <2> QED
    BY <2>3, <2>4, <2>5 DEF Live, RunsHaveJobs
<1>4. ASSUME NEW e \in Editors, WriteJob(e)
      PROVE  TypeOK' /\ RunsHaveJobs'
  <2>1. edit[e].write \in Row
    <3>1. edit \in [Editors -> [id: Jobs \cup {"none"}, read: Row, write: Row]]
      OBVIOUS
    <3>2. edit[e] \in [id: Jobs \cup {"none"}, read: Row, write: Row]
      BY <3>1
    <3> HIDE DEF TypeOK
    <3> QED
      BY <3>2
  <2>2. Live' = Live /\ \A k \in Live' : jobs'[k] \in Row
    <3>1. Write(edit[e].id, edit[e].write) /\ \A k \in Live : jobs[k] \in Row
      BY <1>4 DEF WriteJob
    <3> HIDE DEF TypeOK
    <3>2. Live' = Live
          /\ \A k \in Live : jobs'[k] = IF k = edit[e].id THEN edit[e].write ELSE jobs[k]
      BY ONLY <3>1, Written
    <3> QED
      BY ONLY <2>1, <3>1, <3>2
  <2>3. edit' \in [Editors -> [id: Jobs \cup {"none"}, read: Row, write: Row]]
    BY <1>0, <1>4 DEF WriteJob
  <2>4. stale' \subseteq Jobs /\ excused' \subseteq Jobs
    BY <1>4 DEF WriteJob
  <2>5. idle' \in [Jobs -> Nat]
    BY <1>4 DEF WriteJob
  <2>6. UNCHANGED <<now, issued, records, batch, run, requests, started>>
    BY <1>4 DEF WriteJob
  <2> QED
    BY <2>2, <2>3, <2>4, <2>5, <2>6 DEF RunsHaveJobs
<1>5. ASSUME NEW p \in Callers, NEW j \in Jobs, RunNow(p, j)
      PROVE  TypeOK' /\ RunsHaveJobs'
  <2>1. run' = [run EXCEPT ![p] = [stage |-> "executing", id |-> j, copy |-> jobs[j],
                                   ok |-> FALSE]]
    BY <1>5 DEF RunNow
  <2>2. jobs[j] \in Row
    BY <1>5 DEF RunNow
  <2>3. run' \in [Runners -> Run]
    BY <2>1, <2>2 DEF Run
  <2>4. RunsHaveJobs'
    BY <2>1 DEF RunsHaveJobs
  <2>5. requests' \in Nat
    BY <1>5 DEF RunNow, Request
  <2>6. UNCHANGED <<now, jobs, issued, records, batch, edit, started, idle, stale, excused>>
    BY <1>5 DEF RunNow, table, history
  <2> QED
    BY <2>3, <2>4, <2>5, <2>6 DEF Live
<1>6. ASSUME Poll
      PROVE  TypeOK' /\ RunsHaveJobs'
  <2>0. PICK n \in 1..MaxTasks : \E q \in [1..n -> Live] :
            batch' = [i \in 1..n |-> [id |-> q[i], row |-> jobs[q[i]]]]
    BY <1>6 DEF Poll
  <2>1. PICK q \in [1..n -> Live] :
            batch' = [i \in 1..n |-> [id |-> q[i], row |-> jobs[q[i]]]]
    BY <2>0
  <2>2. n \in Nat
    BY <2>1 DEF CronAssumption
  <2>3. \A i \in 1..n : [id |-> q[i], row |-> jobs[q[i]]] \in [id: Jobs, row: Row]
    OBVIOUS
  <2>4. batch' \in Seq([id: Jobs, row: Row])
    BY <2>1, <2>2, <2>3
  <2>5. UNCHANGED <<now, jobs, issued, records, run, edit, requests, started, idle, stale,
                    excused>>
    BY <1>6 DEF Poll, table
  <2> QED
    BY <2>4, <2>5 DEF Live, RunsHaveJobs
<1>7. ASSUME NEW p \in Slots, Start(p)
      PROVE  TypeOK' /\ RunsHaveJobs'
  <2> DEFINE j == Head(batch).id
  <2>1. Head(batch) \in [id: Jobs, row: Row] /\ batch' \in Seq([id: Jobs, row: Row])
    BY <1>7, HeadTailProperties DEF Start, NextStarts
  <2>2. /\ run' = [run EXCEPT ![p] = [stage |-> "executing", id |-> j,
                                      copy |-> Head(batch).row, ok |-> FALSE]]
        /\ started' = [started EXCEPT ![j] = Occurrence(Head(batch).row)]
        /\ idle' = [idle EXCEPT ![j] = IF j \in Live /\ jobs[j].enabled THEN @ ELSE @ + 1]
    BY <1>7 DEF Start, NextStarts
  <2>3. run' \in [Runners -> Run]
    BY <2>1, <2>2 DEF Run
  <2>4. RunsHaveJobs'
    BY <2>1, <2>2 DEF RunsHaveJobs
  <2>5. started' \in [Jobs -> Schedule \X Nat]
    <3>1. Occurrence(Head(batch).row) \in Schedule \X Nat
      BY <2>1 DEF Occurrence, Row
    <3> QED
      BY <2>2, <3>1
  <2>6. idle' \in [Jobs -> Nat]
    <3> DEFINE n == IF j \in Live /\ jobs[j].enabled THEN idle[j] ELSE idle[j] + 1
    <3>1. idle[j] \in Nat
      BY <2>1
    <3>2. n \in Nat
      BY <3>1
    <3>3. idle' = [idle EXCEPT ![j] = n]
      BY <2>2
    <3> HIDE DEF n
    <3> QED
      BY <3>2, <3>3
  <2>7. UNCHANGED <<now, jobs, issued, records, edit, requests, stale, excused>>
    BY <1>7 DEF Start, NextStarts
  <2> QED
    BY <2>1, <2>3, <2>4, <2>5, <2>6, <2>7 DEF Live
<1>8. ASSUME NEW p \in Runners, RunStep(p) \/ StoreFails(p)
      PROVE  TypeOK' /\ RunsHaveJobs'
  <2>1. run[p] \in Run /\ (run[p].stage # "free" => run[p].id \in Jobs)
    BY DEF RunsHaveJobs
  <2>3. ASSUME \/ AfterRecord(p) /\ In(p, "executing")
               \/ End(p)
        PROVE  run' \in [Runners -> Run] /\ RunsHaveJobs'
    <3>1. CASE run' = [run EXCEPT ![p] = Free]
      BY <1>0, <3>1 DEF RunsHaveJobs, Free
    <3>2. ASSUME NEW ok \in BOOLEAN, In(p, "executing"),
                 run' = [run EXCEPT ![p].stage = "recorded", ![p].ok = ok]
          PROVE  run' \in [Runners -> Run] /\ RunsHaveJobs'
      <4>1. [run[p] EXCEPT !.stage = "recorded", !.ok = ok] \in Run
        BY <2>1 DEF Run
      <4>2. run' \in [Runners -> Run]
        BY <3>2, <4>1
      <4> QED
        BY <2>1, <3>2, <4>2 DEF RunsHaveJobs, In
    <3>3. \A ok \in BOOLEAN : (ok /\ IsOneShot(run[p].copy)) \in BOOLEAN
      OBVIOUS
    <3>4. CASE End(p)
      BY <3>1, <3>4 DEF End
    <3>5. CASE In(p, "executing") /\ AfterRecord(p) /\ ~End(p)
      BY <3>2, <3>3, <3>5 DEF AfterRecord
    <3> QED
      BY <2>3, <3>4, <3>5
  <2>4. CASE RecordRun(p)
    <3> DEFINE j == run[p].id
    <3>1. records' \in [Jobs -> 0..MaxHistory]
      <4>1. \/ records' = records
            \/ j \in Live /\ records[j] < MaxHistory /\ records' = [records EXCEPT ![j] = @ + 1]
        BY <2>4 DEF RecordRun
      <4>2. records \in [Jobs -> 0..MaxHistory] /\ MaxHistory \in Nat
        BY CronAssumption
      <4> HIDE DEF TypeOK
      <4>3. CASE records[j] < MaxHistory /\ j \in Jobs
        <5>1. records[j] + 1 \in 0..MaxHistory
          BY <4>2, <4>3
        <5> QED BY <4>1, <4>2, <5>1
      <4> QED BY <4>1, <4>2, <4>3
    <3> QED
      BY <2>3, <2>4, <3>1 DEF RecordRun, history, Live
  <2>5. CASE RemoveDone(p)
    <3>1. Live' \subseteq Live /\ \A k \in Live' : jobs'[k] \in Row
      BY <2>5, Deleted, ZenonT(40) DEF RemoveDone
    <3>2. records' \in [Jobs -> 0..MaxHistory]
      <4>1. 0 \in 0..MaxHistory
        BY DEF CronAssumption
      <4> QED
        BY <2>5, <4>1 DEF RemoveDone, DeleteRow
    <3> QED
      BY <2>3, <2>5, <3>1, <3>2 DEF RemoveDone, history
  <2>6. CASE ReadFailed(p)
    <3>1. run' \in [Runners -> Run] /\ RunsHaveJobs'
      <4>1. CASE run[p].id \in Live
        <5>1. run' = [run EXCEPT ![p].stage = "disabling", ![p].copy = jobs[run[p].id]]
          BY <2>6, <4>1 DEF ReadFailed
        <5>2. jobs[run[p].id] \in Row
          BY <4>1
        <5>3. [run[p] EXCEPT !.stage = "disabling", !.copy = jobs[run[p].id]] \in Run
          BY <2>1, <5>2 DEF Run
        <5>4. run' \in [Runners -> Run]
          BY <5>1, <5>3
        <5> QED
          BY <4>1, <5>1, <5>4, SMTT(40) DEF RunsHaveJobs
      <4>2. CASE run[p].id \notin Live
        BY <2>3, <2>6, <4>2 DEF ReadFailed
      <4> QED
        BY <4>1, <4>2
    <3> QED
      BY <2>6, <3>1 DEF ReadFailed, table, history, Live
  <2>7. CASE DisableFailed(p)
    <3>1. [run[p].copy EXCEPT !.enabled = FALSE] \in Row
      BY <2>1 DEF Run, Row
    <3>2. Live' = Live /\ \A k \in Live' : jobs'[k] \in Row
      <4> DEFINE row == [run[p].copy EXCEPT !.enabled = FALSE]
      <4>1. row \in Row /\ Write(run[p].id, row)
        BY <2>7, <3>1 DEF DisableFailed
      <4> HIDE DEF row
      <4>2. Live' = Live /\ \A k \in Live : jobs'[k] = IF k = run[p].id THEN row ELSE jobs[k]
        BY <4>1, Written
      <4> QED
        BY <4>1, <4>2
    <3> QED
      BY <2>1, <2>3, <2>7, <3>2 DEF DisableFailed
  <2>8. CASE Reschedule(p)
    <3>1. Live' = Live /\ \A k \in Live' : jobs'[k] \in Row
      <4>1. CASE run[p].id \in Live /\ HasNext(run[p].copy.schedule, now)
        <5>1. NextRun(run[p].copy.schedule, now) \in Nat
          BY <2>1, <4>1, NextRunLater DEF Run, Row
        <5>2. [jobs[run[p].id] EXCEPT !.next_run = NextRun(run[p].copy.schedule, now)] \in Row
          BY <4>1, <5>1, ZenonT(40) DEF Row
        <5> QED
          <6> DEFINE row == [jobs[run[p].id] EXCEPT !.next_run = NextRun(run[p].copy.schedule, now)]
          <6>1. row \in Row /\ Write(run[p].id, row)
            BY <2>8, <4>1, <5>2 DEF Reschedule
          <6> HIDE DEF row
          <6>2. Live' = Live /\ \A k \in Live : jobs'[k] = IF k = run[p].id THEN row ELSE jobs[k]
            BY <6>1, Written
          <6> QED
            BY <6>1, <6>2
      <4>2. CASE ~(run[p].id \in Live /\ HasNext(run[p].copy.schedule, now))
        BY <2>8, <4>2 DEF Reschedule, Live
      <4> QED
        BY <4>1, <4>2
    <3> QED
      BY <2>1, <2>3, <2>8, <3>1 DEF Reschedule
  <2>9. CASE StoreFails(p)
    <3>1. run[p].id \in Jobs
      BY <2>1, <2>9 DEF StoreFails, In
    <3> QED
      BY <2>3, <2>9, <3>1 DEF StoreFails, table, Live
  <2> QED
    BY <1>8, <2>4, <2>5, <2>6, <2>7, <2>8, <2>9 DEF RunStep
<1>9. ASSUME Crash
      PROVE  TypeOK' /\ RunsHaveJobs'
  <2>1. run' \in [Runners -> Run] /\ RunsHaveJobs'
    BY <1>0, <1>9 DEF Crash, RunsHaveJobs, Free
  <2>2. edit' \in [Editors -> [id: Jobs \cup {"none"}, read: Row, write: Row]]
    BY <1>0, <1>9 DEF Crash
  <2>3. batch' \in Seq([id: Jobs, row: Row])
    BY <1>9 DEF Crash
  <2> QED
    BY <1>9, <2>1, <2>2, <2>3 DEF Crash, table, Live
<1>10. CASE Tick
  BY <1>10 DEF Tick, table, actors, history, Live, RunsHaveJobs
<1>11. CASE UNCHANGED vars
  BY <1>11 DEF vars, table, actors, history, Live, RunsHaveJobs
<1> QED
  BY <1>1, <1>2, <1>3, <1>4, <1>5, <1>6, <1>7, <1>8, <1>9, <1>10, <1>11 DEF Next

-----------------------------------------------------------------------------
(* Records and next runs *)

LEMMA RecordsKept ==
    ASSUME CronAssumption, TypeOK, NoRecordsOfRemovedJobs, [Next]_vars
    PROVE  NoRecordsOfRemovedJobs'
<1> USE DEF TypeOK, NoRecordsOfRemovedJobs
<1>1. ASSUME NEW j, DeleteRow(j)
      PROVE  NoRecordsOfRemovedJobs'
  <2>1. Live' = Live \ {j}
    BY <1>1, Deleted
  <2>2. \A k \in Jobs : records'[k] = IF k = j THEN 0 ELSE records[k]
    BY <1>1 DEF DeleteRow
  <2> QED
    BY <2>1, <2>2
<1>2. ASSUME NEW j \in Jobs, NEW s \in Schedules, Add(j, s)
      PROVE  NoRecordsOfRemovedJobs'
  BY <1>2 DEF Add, Live
<1>3. ASSUME NEW e \in Editors, WriteJob(e)
      PROVE  NoRecordsOfRemovedJobs'
  BY <1>3, Written DEF WriteJob
<1>4. ASSUME NEW p \in Runners, RunStep(p)
      PROVE  NoRecordsOfRemovedJobs'
  <2>1. CASE RecordRun(p)
    BY <2>1 DEF RecordRun, Live
  <2>2. CASE DisableFailed(p)
    BY <2>2, Written DEF DisableFailed
  <2>3. CASE Reschedule(p)
    <3>1. Live' = Live
      BY <2>3, Written DEF Reschedule, Live
    <3> QED
      BY <2>3, <3>1 DEF Reschedule
  <2> QED
    BY <1>1, <1>4, <2>1, <2>2, <2>3
       DEF RunStep, RemoveDone, ReadFailed, table, Live
<1> QED
  BY <1>1, <1>2, <1>3, <1>4
     DEF Next, Delete, ReadJob, RunNow, Poll, Start, NextStarts, StoreFails, Crash, Tick,
         vars, table, Live

\* A row with the times of one that fits does.
LEMMA SameTimesFollow ==
    ASSUME NEW r, NEW row, SameTimes(r, row), Follows(row)
    PROVE  Follows(r)
BY DEF SameTimes, Follows

LEMMA TimesKept ==
    ASSUME CronAssumption, TypeOK, RunsHaveJobs, TypeOK', EditsFit, NextRunFollowsSchedule,
           [Next]_vars
    PROVE  EditsFit' /\ NextRunFollowsSchedule'
<1> DEFINE RowsFit == \A j \in Live \ stale : Follows(jobs[j])
<1>0. /\ RowsFit
      /\ RowsFit' => NextRunFollowsSchedule'
  BY DEF NextRunFollowsSchedule
<1> USE DEF TypeOK
<1>1. ASSUME UNCHANGED <<now, edit>>
      PROVE  EditsFit'
  BY <1>1 DEF EditsFit, Follows
<1>2. ASSUME UNCHANGED <<now, stale>>, Live' \subseteq Live, \A j \in Live' : jobs'[j] = jobs[j]
      PROVE  RowsFit'
  BY <1>0, <1>2 DEF Follows
<1>3. ASSUME NEW j \in Jobs, NEW s \in Schedules, Add(j, s)
      PROVE  EditsFit' /\ RowsFit'
  <2>1. HasNext(s, now) /\ UNCHANGED <<now, stale, edit>>
    BY <1>3 DEF Add, Valid, history, actors
  <2>2. /\ Live' = Live \cup {j}
        /\ jobs'[j].schedule = s /\ jobs'[j].next_run = NextRun(s, now)
        /\ \A k \in Live : k # j => jobs'[k] = jobs[k]
    BY <1>3 DEF Add, Live
  <2>4. Follows(jobs[j])'
    <3>1. Follows(jobs'[j])
      BY <2>1, <2>2, GivenNow
    <3> QED
      BY <2>1, <3>1 DEF Follows
  <2>5. \A k \in Live \ stale : k # j => Follows(jobs[k])'
    BY <1>0, <2>1, <2>2 DEF Follows
  <2> QED
    BY <1>1, <2>1, <2>2, <2>4, <2>5
<1>4. ASSUME NEW j, DeleteRow(j), UNCHANGED <<now, edit, stale>>
      PROVE  EditsFit' /\ RowsFit'
  BY <1>1, <1>2, <1>4, Deleted
<1>5. ASSUME NEW e \in Editors, NEW j \in Jobs, ReadJob(e, j)
      PROVE  EditsFit' /\ RowsFit'
  <2>1. PICK row \in Patched(jobs[j]) :
            edit' = [edit EXCEPT ![e] = [id |-> j, read |-> jobs[j], write |-> row]]
    BY <1>5 DEF ReadJob
  <2>2. SameTimes(row, jobs[j]) \/ Follows(row)
    BY <1>5, PatchedRows DEF ReadJob
  <2>3. UNCHANGED <<now, jobs, stale>>
    BY <1>5 DEF ReadJob, table, history
  <2>4. EditsFit'
    BY <2>1, <2>2, <2>3 DEF EditsFit, SameTimes, Follows
  <2> QED
    BY <1>2, <2>3, <2>4 DEF Live
<1>6. ASSUME NEW e \in Editors, WriteJob(e)
      PROVE  EditsFit' /\ RowsFit'
  <2> DEFINE j == edit[e].id
             row == edit[e].write
  <2>1. /\ Live' = Live
        /\ \A k \in Live : jobs'[k] = IF k = j THEN row ELSE jobs[k]
    BY <1>6, Written, ZenonT(40) DEF WriteJob
  <2>2. /\ now' = now
        /\ edit' = [edit EXCEPT ![e] = NoEdit]
        /\ stale' = IF j \in Live /\ jobs[j] # edit[e].read THEN stale \cup {j} ELSE stale
    BY <1>6 DEF WriteJob
  <2>3. EditsFit'
    BY <2>2 DEF EditsFit, SameTimes, Follows, NoEdit
  <2>4. ASSUME j \in Live, j \notin stale'
        PROVE  Follows(row)
    BY <1>0, <2>2, <2>4, SameTimesFollow DEF EditsFit
  <2>5. \A k \in Live \ stale : Follows(jobs[k])
    BY <1>0
  <2>6. \A k \in (Live \ stale)' : Follows(jobs[k])'
    <3> SUFFICES ASSUME NEW k \in Live, k \notin stale' PROVE Follows(jobs[k])'
      BY <2>1
    <3>1. CASE k = j
      BY <2>1, <2>2, <2>4, <3>1 DEF Follows
    <3>2. CASE k # j
      <4>1. Follows(jobs[k]) /\ jobs'[k] = jobs[k]
        BY <2>1, <2>2, <2>5, <3>2
      <4> QED
        BY <2>2, <4>1 DEF Follows
    <3> QED
      BY <3>1, <3>2
  <2> QED
    BY <2>3, <2>6
<1>7. ASSUME NEW p \in Runners, RunStep(p)
      PROVE  EditsFit' /\ RowsFit'
  <2> DEFINE j == run[p].id
             copy == run[p].copy
  <2>1. copy \in Row /\ UNCHANGED <<now, edit>>
    BY <1>7 DEF RunStep, RecordRun, RemoveDone, ReadFailed, DisableFailed, Reschedule, Run
  <2>2. CASE UNCHANGED <<jobs, stale>>
    BY <1>1, <1>2, <2>1, <2>2 DEF Live
  <2>3. CASE RemoveDone(p)
    BY <1>4, <2>3 DEF RemoveDone, history
  <2>4. ASSUME NEW row, Write(j, row), j \in Live \ stale' => Follows(row),
               stale \subseteq stale'
        PROVE  RowsFit'
    <3>1. Live' = Live /\ \A k \in Live : jobs'[k] = IF k = j THEN row ELSE jobs[k]
      BY ONLY <2>4, Written
    <3> HIDE DEF TypeOK
    <3>2. \A k \in Live \ stale : Follows(jobs[k])
      BY <1>0
    <3> QED
      BY <2>1, <2>4, <3>1, <3>2 DEF Follows
  <2>5. CASE DisableFailed(p)
    <3> DEFINE row == [copy EXCEPT !.enabled = FALSE]
    <3>1. SameTimes(row, copy)
      BY <2>1 DEF SameTimes, Row
    <3>2. /\ Write(j, row)
          /\ stale' = IF j \in Live /\ jobs[j] # copy THEN stale \cup {j} ELSE stale
      BY <2>5 DEF DisableFailed
    <3> HIDE DEF row
    <3>3. j \in Live \ stale' => Follows(row)
      BY <1>0, <3>1, <3>2, SameTimesFollow
    <3> QED
      BY <1>1, <2>1, <2>4, <3>2, <3>3
  <2>6. CASE Reschedule(p)
    <3>1. CASE ~(j \in Live /\ HasNext(copy.schedule, now))
      BY <2>2, <2>6, <3>1 DEF Reschedule
    <3>2. CASE j \in Live /\ HasNext(copy.schedule, now)
      <4> DEFINE row == [jobs[j] EXCEPT !.next_run = NextRun(copy.schedule, now)]
      <4>1. /\ Write(j, row)
            /\ stale' = IF j \in Live /\ jobs[j].schedule # copy.schedule
                        THEN stale \cup {j} ELSE stale
        BY <2>6, <3>2 DEF Reschedule
      <4>2. NextRun(copy.schedule, now) \in Nat
        BY <2>1, <3>2, NextRunLater DEF Row
      <4>3. row \in Row /\ row.schedule = jobs[j].schedule
            /\ row.next_run = NextRun(copy.schedule, now)
        BY <3>2, <4>2, ZenonT(40) DEF Row
      <4> HIDE DEF row
      <4>4. j \notin stale' => Follows(row)
        BY <3>2, <4>1, <4>3, GivenNow
      <4> QED
        BY <1>1, <2>1, <2>4, <4>1, <4>4
    <3> QED
      BY <3>1, <3>2
  <2> QED
    BY <1>7, <2>2, <2>3, <2>5, <2>6
       DEF RunStep, RecordRun, ReadFailed, table, history
<1>8. ASSUME Crash
      PROVE  EditsFit' /\ RowsFit'
  <2>1. EditsFit'
    BY <1>8 DEF Crash, EditsFit, SameTimes, NoEdit
  <2> QED
    BY <1>2, <1>8, <2>1 DEF Crash, table, Live
<1>9. ASSUME Tick
      PROVE  EditsFit' /\ RowsFit'
  <2>1. UNCHANGED <<jobs, edit, stale>> /\ now <= now'
    BY <1>9 DEF Tick, table, actors, history
  <2>2. ASSUME NEW row \in Row, Follows(row)
        PROVE  Follows(row)'
    BY <2>1, <2>2, FollowsLater
  <2>3. EditsFit'
    BY <2>1, <2>2 DEF EditsFit, SameTimes
  <2>4. RowsFit'
    <3> SUFFICES ASSUME NEW j \in Live \ stale PROVE Follows(jobs[j])'
      BY <2>1 DEF Live
    <3>2. jobs[j] \in Row /\ Follows(jobs[j]) /\ jobs'[j] = jobs[j]
      BY <1>0, <2>1
    <3>3. PICK row \in Row : row = jobs[j] /\ Follows(row) /\ row = jobs'[j]
      BY <3>2
    <3>4. Follows(row)'
      BY <2>2, <3>3
    <3> QED
      BY <3>3, <3>4 DEF Follows
  <2> QED
    BY <2>3, <2>4
<1>10. CASE UNCHANGED <<now, jobs, edit, stale>>
  BY <1>0, <1>1, <1>2, <1>10 DEF Live
<1> QED
  BY <1>0, <1>3, <1>4, <1>5, <1>6, <1>7, <1>8, <1>9, <1>10
     DEF Next, Delete, RunNow, Poll, Start, NextStarts, StoreFails,
         vars, table, actors, history

-----------------------------------------------------------------------------
(* Jobs that are off *)

LEMMA NotPolledAgain ==
    ASSUME StartedOffStaysOff, NEW i \in DOMAIN batch, NEW k \in Jobs, idle[k] > 0
    PROVE  k # batch[i].id
BY DEF StartedOffStaysOff

LEMMA OffKept ==
    ASSUME CronAssumption, TypeOK, TypeOK', RunsHaveJobs, BatchDistinct, StartedOffStaysOff,
           [Next]_vars
    PROVE  BatchDistinct' /\ StartedOffStaysOff'
<1> USE DEF TypeOK
<1>0. MaxTasks \in Nat /\ DOMAIN batch = 1..Len(batch) /\ Len(batch) \in Nat
  BY DEF CronAssumption
<1>1. ASSUME UNCHANGED <<batch, issued>>
      PROVE  BatchDistinct'
  BY <1>1 DEF BatchDistinct
<1>2. ASSUME UNCHANGED <<batch, issued, idle>>, Live' \subseteq Live,
             \A k \in Live' : jobs'[k].enabled => jobs[k].enabled
      PROVE  StartedOffStaysOff'
  BY <1>2 DEF StartedOffStaysOff
<1>3. ASSUME NEW j \in Jobs, NEW s \in Schedules, Add(j, s)
      PROVE  BatchDistinct' /\ StartedOffStaysOff'
  <2>1. /\ Live' = Live \cup {j} /\ issued' = issued \cup {j} /\ j \notin issued
        /\ \A k \in Live : k # j => jobs'[k] = jobs[k]
        /\ UNCHANGED <<batch, idle>>
    BY <1>3 DEF Add, Live, actors, history
  <2>2. BatchDistinct'
    BY <2>1 DEF BatchDistinct
  <2>3. StartedOffStaysOff'
    BY <2>1 DEF StartedOffStaysOff
  <2> QED
    BY <2>2, <2>3
<1>4. ASSUME NEW j, DeleteRow(j), UNCHANGED <<batch, issued, idle>>
      PROVE  BatchDistinct' /\ StartedOffStaysOff'
  BY <1>1, <1>2, <1>4, Deleted
<1>5. ASSUME NEW e \in Editors, WriteJob(e)
      PROVE  BatchDistinct' /\ StartedOffStaysOff'
  <2> DEFINE j == edit[e].id
             row == edit[e].write
  <2>1. /\ Live' = Live
        /\ \A k \in Live : jobs'[k] = IF k = j THEN row ELSE jobs[k]
    BY <1>5, Written, ZenonT(40) DEF WriteJob
  <2>2. /\ idle' = IF j \in Live /\ row.enabled THEN [idle EXCEPT ![j] = 0] ELSE idle
        /\ UNCHANGED <<batch, issued>>
    BY <1>5 DEF WriteJob
  <2>3. BatchDistinct'
    BY <1>1, <2>2
  <2>4. StartedOffStaysOff'
    <3> SUFFICES ASSUME NEW k \in Jobs, idle'[k] > 0
                 PROVE  /\ idle'[k] = 1
                        /\ k \in issued
                        /\ \A i \in DOMAIN batch : batch[i].id # k
                        /\ k \in Live => ~jobs'[k].enabled
      BY <2>1, <2>2 DEF StartedOffStaysOff
    <3>1. idle'[k] = idle[k] /\ (k = j /\ j \in Live => ~row.enabled)
      BY <2>2
    <3> QED
      BY <2>1, <3>1 DEF StartedOffStaysOff
  <2> QED
    BY <2>3, <2>4
<1>6. ASSUME Poll
      PROVE  BatchDistinct' /\ StartedOffStaysOff'
  <2>0. PICK n \in 1..MaxTasks : \E q \in [1..n -> Live] :
            /\ Polled(q)
            /\ batch' = [i \in 1..n |-> [id |-> q[i], row |-> jobs[q[i]]]]
    BY <1>6 DEF Poll
  <2>1. PICK q \in [1..n -> Live] :
            /\ Polled(q)
            /\ batch' = [i \in 1..n |-> [id |-> q[i], row |-> jobs[q[i]]]]
    BY <2>0
  <2>2. DOMAIN batch' = 1..n /\ \A i \in 1..n : batch'[i].id = q[i]
    BY <2>1
  <2>3. /\ \A i \in 1..n : q[i] \in Live /\ jobs[q[i]].enabled
        /\ \A i, k \in 1..n : i < k => q[i] # q[k]
    BY <2>1 DEF Polled, IsDue
  <2>4. UNCHANGED <<jobs, issued, idle>>
    BY <1>6 DEF Poll, table
  <2>5. n \in Nat /\ \A i, k \in 1..n : i < k \/ i = k \/ k < i
    BY <1>0
  <2>6. BatchDistinct'
    <3>1. \A i \in 1..n : batch'[i].id \in issued
      BY <2>2, <2>3
    <3>2. ASSUME NEW i \in 1..n, NEW k \in 1..n, q[i] = q[k]
          PROVE  i = k
      BY <2>3, <2>5, <3>2
    <3>3. \A i, k \in DOMAIN batch' : batch'[i].id = batch'[k].id => i = k
      BY <2>2, <3>2
    <3> QED
      BY <2>2, <2>4, <3>1, <3>3 DEF BatchDistinct
  <2>7. StartedOffStaysOff'
    BY <2>2, <2>3, <2>4, ZenonT(40) DEF StartedOffStaysOff, Live
  <2> QED
    BY <2>6, <2>7
<1>7. ASSUME NEW p \in Slots, Start(p)
      PROVE  BatchDistinct' /\ StartedOffStaysOff'
  <2> DEFINE j == batch[1].id
  <2>1. /\ batch # <<>> /\ batch' = Tail(batch)
        /\ idle' = [idle EXCEPT ![Head(batch).id] =
                        IF Head(batch).id \in Live /\ jobs[Head(batch).id].enabled
                        THEN @ ELSE @ + 1]
        /\ UNCHANGED <<jobs, issued>>
    BY <1>7 DEF Start, NextStarts
  <2>2. 1 \in 1..Len(batch) /\ Head(batch) = batch[1]
    BY <1>0, <2>1
  <2>3. /\ DOMAIN batch' = 1..(Len(batch) - 1)
        /\ \A i \in 1..(Len(batch) - 1) : batch'[i] = batch[i + 1]
    <3>1. /\ Tail(batch) \in Seq([id: Jobs, row: Row])
          /\ Len(Tail(batch)) = Len(batch) - 1
          /\ \A i \in 1..Len(Tail(batch)) : Tail(batch)[i] = batch[i + 1]
      BY <2>1, HeadTailProperties
    <3>2. Len(Tail(batch)) \in Nat /\ DOMAIN Tail(batch) = 1..Len(Tail(batch))
      BY <3>1
    <3>3. DOMAIN batch' = 1..(Len(batch) - 1)
      BY <2>1, <3>1, <3>2
    <3>4. \A i \in 1..(Len(batch) - 1) : batch'[i] = batch[i + 1]
      BY <2>1, <3>1
    <3> QED
      BY <3>3, <3>4
  <2>3a. \A i \in 1..(Len(batch) - 1) : i + 1 \in 1..Len(batch)
    BY <1>0
  <2>4. j \in issued /\ idle[j] = 0 /\ \A i \in 1..Len(batch) : batch[i].id = j => i = 1
    <3>1. 1 \in DOMAIN batch
      BY <1>0, <2>2
    <3>2. j \in issued /\ \A i \in DOMAIN batch : batch[i].id = j => i = 1
      BY <3>1 DEF BatchDistinct
    <3>3. j \in Jobs
      BY <3>2
    <3>4. \A k \in Jobs : idle[k] > 0 => k # batch[1].id
      BY <3>1, NotPolledAgain
    <3>5. \A k \in Jobs : k # batch[1].id \/ idle[k] = 0
      <4> SUFFICES ASSUME NEW k \in Jobs, idle[k] # 0 PROVE k # batch[1].id
        OBVIOUS
      <4>0. idle[k] \in Nat
        BY DEF TypeOK
      <4>1. idle[k] > 0
        BY ONLY <4>0, idle[k] # 0
      <4> QED
        BY <3>4, <4>1
    <3> QED
      BY <1>0, <3>2, <3>3, <3>5
  <2>5. \A i \in DOMAIN batch' : batch'[i].id # j
    <3> SUFFICES ASSUME NEW i \in 1..(Len(batch) - 1), batch[i + 1].id = j PROVE FALSE
      BY <2>3, <2>3a
    <3>1. i + 1 = 1
      BY <2>3, <2>3a, <2>4
    <3> QED
      BY <1>0, <3>1
  <2>6. BatchDistinct'
    <3>1. \A i \in 1..(Len(batch) - 1) : batch'[i].id \in issued
      BY <1>0, <2>3, <2>3a DEF BatchDistinct
    <3>2. ASSUME NEW i \in 1..(Len(batch) - 1), NEW k \in 1..(Len(batch) - 1),
                 batch'[i].id = batch'[k].id
          PROVE  i = k
      <4>1. i + 1 = k + 1
        <5>1. i + 1 \in DOMAIN batch /\ k + 1 \in DOMAIN batch
          BY <1>0, <2>3, <2>3a
        <5>2. batch[i + 1].id = batch[k + 1].id
          BY <2>3, <2>3a, <3>2
        <5> QED
          BY <5>1, <5>2 DEF BatchDistinct
      <4> QED
        BY <1>0, <4>1
    <3> QED
      BY <2>1, <2>3, <2>3a, <3>1, <3>2 DEF BatchDistinct
  <2>7. ASSUME NEW k \in Jobs, idle'[k] > 0
        PROVE  /\ idle'[k] = 1
               /\ k \in issued
               /\ \A i \in DOMAIN batch' : batch'[i].id # k
               /\ k \in Live => ~jobs[k].enabled
    <3>1. CASE k = j
      <4>1. idle'[j] = IF j \in Live /\ jobs[j].enabled THEN 0 ELSE 1
        <5>1. j \in Jobs
          BY <3>1
        <5>2. idle'[j] = IF j \in Live /\ jobs[j].enabled THEN idle[j] ELSE idle[j] + 1
          BY <2>1, <2>2, <5>1
        <5> QED
          BY <2>4, <5>2
      <4>2. idle'[j] > 0
        BY <2>7, <3>1
      <4>3. ~(j \in Live /\ jobs[j].enabled) /\ idle'[j] = 1
        BY <4>1, <4>2
      <4> QED
        BY <2>4, <2>5, <3>1, <4>3
    <3>2. CASE k # j
      <4>1. idle'[k] = idle[k]
        BY <2>1, <2>2, <3>2
      <4>2. idle[k] = 1 /\ k \in issued /\ (k \in Live => ~jobs[k].enabled)
            /\ \A i \in 1..Len(batch) : batch[i].id # k
        BY <1>0, <2>7, <4>1 DEF StartedOffStaysOff
      <4> QED
        BY <2>3, <2>3a, <4>1, <4>2
    <3> QED
      BY <3>1, <3>2
  <2> QED
    BY <2>1, <2>6, <2>7 DEF StartedOffStaysOff, Live
<1>8. ASSUME NEW p \in Runners, RunStep(p)
      PROVE  BatchDistinct' /\ StartedOffStaysOff'
  <2> DEFINE j == run[p].id
             copy == run[p].copy
  <2>1. copy \in Row /\ UNCHANGED <<batch, issued, idle>>
    BY <1>8 DEF RunStep, RecordRun, RemoveDone, ReadFailed, DisableFailed, Reschedule,
                Run, table, history
  <2>2. CASE UNCHANGED jobs
    BY <1>1, <1>2, <2>1, <2>2 DEF Live
  <2>3. CASE RemoveDone(p)
    BY <1>4, <2>1, <2>3 DEF RemoveDone
  <2>4. ASSUME NEW row, Write(j, row), j \in Live /\ row.enabled => jobs[j].enabled
        PROVE  BatchDistinct' /\ StartedOffStaysOff'
    <3>1. Live' = Live /\ \A k \in Live : jobs'[k] = IF k = j THEN row ELSE jobs[k]
      BY ONLY <2>4, Written
    <3> QED
      BY <1>1, <1>2, <2>1, <2>4, <3>1
  <2>5. CASE DisableFailed(p)
    <3> DEFINE row == [copy EXCEPT !.enabled = FALSE]
    <3>1. ~row.enabled /\ Write(j, row)
      BY <2>1, <2>5 DEF Row, DisableFailed
    <3> HIDE DEF row
    <3> QED
      BY <2>4, <3>1
  <2>6. CASE Reschedule(p) /\ j \in Live /\ HasNext(copy.schedule, now)
    <3> DEFINE row == [jobs[j] EXCEPT !.next_run = NextRun(copy.schedule, now)]
    <3>1. Write(j, row) /\ row.enabled = jobs[j].enabled
      BY <2>6 DEF Reschedule, Row
    <3> HIDE DEF row
    <3> QED
      BY <2>4, <3>1
  <2> QED
    BY <1>8, <2>2, <2>3, <2>5, <2>6
       DEF RunStep, RecordRun, ReadFailed, Reschedule, table
<1>9. ASSUME Crash
      PROVE  BatchDistinct' /\ StartedOffStaysOff'
  <2>1. batch' = <<>> /\ UNCHANGED <<jobs, issued, idle>>
    BY <1>9 DEF Crash, table
  <2> QED
    BY <2>1 DEF BatchDistinct, StartedOffStaysOff, Live
<1>10. CASE UNCHANGED <<jobs, issued, batch, idle>>
  BY <1>1, <1>2, <1>10 DEF Live
<1> QED
  BY <1>3, <1>4, <1>5, <1>6, <1>7, <1>8, <1>9, <1>10
     DEF Next, Delete, ReadJob, RunNow, StoreFails, Tick, vars, table, actors, history

-----------------------------------------------------------------------------
LEMMA CronInvariant == Spec => []CronInv
<1>1. Init => CronInv
  BY CronAssumption, CronInit
<1>2. CronInv /\ [Next]_vars => CronInv'
  BY CronAssumption, TypesKept, RecordsKept, TimesKept, OffKept DEF CronInv
<1> QED
  BY <1>1, <1>2, PTL DEF Spec

\* The table, the polled rows, the runs and the updates stay well typed, and no
\* job keeps more records than max_run_history, for every set of jobs and
\* schedules and every limit.
THEOREM TypeCorrect == Spec => []TypeOK
<1>1. CronInv => TypeOK
  BY DEF CronInv
<1> QED
  BY <1>1, CronInvariant, PTL

\* However many runs of a job end while or after it is removed, a removed job
\* has no records (record_run, remove_job).
THEOREM RemovalLeavesNoRecords == Spec => []NoRecordsOfRemovedJobs
<1>1. CronInv => NoRecordsOfRemovedJobs
  BY DEF CronInv
<1> QED
  BY <1>1, CronInvariant, PTL

\* Unless a row was written from one that was out of date, next_run is a time
\* the job's schedule gives, for any number of concurrent updates and runs
\* (update_job, reschedule_after_run).
THEOREM SchedulesAreFollowed == Spec => []NextRunFollowsSchedule
<1>1. CronInv => NextRunFollowsSchedule
  BY DEF CronInv
<1> QED
  BY <1>1, CronInvariant, PTL

\* A paused or removed job is started at most once more, whatever the size of
\* the batches and the number of slots (due_jobs, process_due_jobs).
THEOREM OffJobsStop == Spec => []OffMeansAtMostOneMore
<1>1. CronInv => OffMeansAtMostOneMore
  <2> SUFFICES ASSUME CronInv, NEW j \in Jobs PROVE idle[j] <= 1
    BY DEF OffMeansAtMostOneMore
  <2>1. idle[j] \in Nat
    BY DEF CronInv, TypeOK
  <2>2. idle[j] > 0 => idle[j] = 1
    BY DEF CronInv, StartedOffStaysOff
  <2> QED
    BY <2>1, <2>2
<1> QED
  BY <1>1, CronInvariant, PTL

-----------------------------------------------------------------------------
(* One start per occurrence *)

\* StartedOncePerOccurrence says nothing of such a job.
Settled(j) == j \in stale \cup excused

StartedPast ==
    /\ \A j \in Jobs : started[j][2] <= now
    /\ \A i \in DOMAIN batch : batch[i].row.next_run <= now

RunsAreIssued ==
    \A p \in Runners :
        run[p].stage # "free" => run[p].id \in issued

\* A job that was taken from a kept row is still kept.
StaysKept(j, copy) == j \in Live /\ Kept(copy) => Kept(jobs[j]) \/ Settled(j)

KeptStays ==
    /\ \A p \in Runners :
           run[p].stage \in {"executing", "recorded"} => StaysKept(run[p].id, run[p].copy)
    /\ \A i \in DOMAIN batch : StaysKept(batch[i].id, batch[i].row)

\* The next poll could start the job for the time it was last started for.
Again(j) ==
    /\ j \in Live /\ jobs[j].enabled /\ ~StaysDue(jobs[j])
    /\ Occurrence(jobs[j]) = started[j]
    /\ ~Settled(j)

\* No poll comes before the run that was started for that time is over.
RunsFor(p, j) ==
    /\ run[p].stage # "free" /\ run[p].id = j
    /\ run[p].stage \in {"executing", "recorded"} => Occurrence(run[p].copy) = started[j]

StillRuns == \A j \in Jobs : Again(j) => \E p \in Slots : RunsFor(p, j)

BatchIsNew ==
    \A i \in DOMAIN batch :
        Occurrence(batch[i].row) = started[batch[i].id]
        => Settled(batch[i].id) \/ StaysDue(batch[i].row)

OnceInv ==
    /\ StartedPast
    /\ RunsAreIssued
    /\ KeptStays
    /\ StillRuns
    /\ BatchIsNew

LEMMA OnceInit == CronAssumption /\ Init => OnceInv
<1> SUFFICES ASSUME Init PROVE OnceInv
  OBVIOUS
<1>1. Live = {} /\ DOMAIN batch = {}
  BY DEF Init, Live
<1>2. StartedPast
  BY <1>1 DEF Init, StartedPast, Occurrence, NoRow
<1> QED
  BY <1>1, <1>2 DEF Init, OnceInv, RunsAreIssued, KeptStays, StillRuns, Again, BatchIsNew, Free

\* What is settled stays so.
LEMMA SettledStays ==
    ASSUME TypeOK, [Next]_vars
    PROVE  /\ stale \subseteq stale' /\ excused \subseteq excused'
           /\ \A j \in Jobs : Settled(j) => Settled(j)'
<1>1. stale \subseteq stale' /\ excused \subseteq excused'
  BY DEF Next, Add, Delete, ReadJob, WriteJob, RunNow, Poll, Start, NextStarts, RunStep, RecordRun, RemoveDone, ReadFailed, DisableFailed, Reschedule, StoreFails, Crash, Tick,
         vars, history
<1> QED
  BY <1>1, SMTT(40) DEF Settled

LEMMA TimeGoesOn ==
    ASSUME TypeOK, [Next]_vars
    PROVE  now \in Nat /\ now' \in Nat /\ now <= now'
<1>1. now \in Nat /\ (now' = now \/ now' = now + 1)
  BY DEF TypeOK, Next, Add, Delete, ReadJob, WriteJob, RunNow, Poll, Start, NextStarts,
         RunStep, RecordRun, RemoveDone, ReadFailed, DisableFailed, Reschedule, StoreFails,
         Crash, Tick, vars
<1> QED
  BY ONLY <1>1

\* What stays due does so as time passes.
LEMMA StaysDueLater ==
    ASSUME TypeOK, [Next]_vars, NEW row \in Row, StaysDue(row)
    PROVE  StaysDue(row)'
<1>1. row.schedule \in Schedule
  BY DEF Row
<1>2. HasNext(row.schedule, now') => HasNext(row.schedule, now)
  BY <1>1, TimeGoesOn, RunOutStays
<1> QED
  BY <1>2 DEF StaysDue, Kept, HasNext, Following

LEMMA BatchTyped ==
    ASSUME TypeOK, NEW i \in DOMAIN batch
    PROVE  batch[i].id \in Jobs /\ batch[i].row \in Row
<1>1. batch \in Seq([id: Jobs, row: Row]) /\ i \in 1..Len(batch)
  BY DEF TypeOK
<1>2. batch[i] \in [id: Jobs, row: Row]
  BY <1>1, ElementOfSeq
<1> QED
  BY <1>2

\* What Poll takes into the batch.
LEMMA PolledRows ==
    ASSUME CronAssumption, TypeOK, Poll
    PROVE  \A i \in DOMAIN batch' :
               /\ batch'[i].id \in Live /\ batch'[i].row = jobs[batch'[i].id]
               /\ IsDue(batch'[i].row)
<1>1. PICK n \in 1..MaxTasks : \E q \in [1..n -> Live] :
          Polled(q) /\ batch' = [i \in 1..n |-> [id |-> q[i], row |-> jobs[q[i]]]]
  BY DEF Poll
<1>2. PICK q \in [1..n -> Live] :
          Polled(q) /\ batch' = [i \in 1..n |-> [id |-> q[i], row |-> jobs[q[i]]]]
  BY <1>1
<1>3. \A i \in 1..n : q[i] \in Live /\ IsDue(jobs[q[i]])
  BY <1>2 DEF Polled
<1> QED
  BY <1>2, <1>3

\* What Start leaves in the batch.
LEMMA StartedRest ==
    ASSUME TypeOK, NEW p \in Slots, Start(p)
    PROVE  /\ 1 \in DOMAIN batch /\ Head(batch) = batch[1]
           /\ batch[1] \in [id: Jobs, row: Row]
           /\ \A i \in DOMAIN batch' : /\ i + 1 \in DOMAIN batch /\ i + 1 # 1
                                       /\ batch'[i] = batch[i + 1]
<1>1. batch # <<>> /\ batch' = Tail(batch) /\ batch \in Seq([id: Jobs, row: Row])
  BY DEF TypeOK, Start, NextStarts
<1>2. /\ Tail(batch) \in Seq([id: Jobs, row: Row])
      /\ Len(Tail(batch)) = Len(batch) - 1
      /\ \A i \in 1..Len(Tail(batch)) : Tail(batch)[i] = batch[i + 1]
  BY <1>1, HeadTailProperties
<1>3. Len(batch) \in Nat /\ DOMAIN batch = 1..Len(batch) /\ Len(batch) >= 1
  BY <1>1
<1>4. DOMAIN batch' = 1..(Len(batch) - 1)
  BY <1>1, <1>2, <1>3
<1>5. \A i \in 1..(Len(batch) - 1) : i + 1 \in 1..Len(batch) /\ i + 1 # 1
  BY <1>3
<1>6. 1 \in 1..Len(batch) /\ Head(batch) = batch[1]
  BY <1>1, <1>3
<1>7. batch[1] \in [id: Jobs, row: Row]
  BY <1>1, <1>6, ElementOfSeq
<1> QED
  BY <1>1, <1>2, <1>3, <1>4, <1>5, <1>6, <1>7

LEMMA PastKept ==
    ASSUME CronAssumption, TypeOK, TypeOK', StartedPast, [Next]_vars
    PROVE  StartedPast'
<1>1. CASE UNCHANGED <<now, started, batch>>
  BY <1>1 DEF StartedPast
<1>2. CASE Poll
  <2>1. \A i \in DOMAIN batch' : batch'[i].row.next_run <= now
    BY <1>2, PolledRows DEF IsDue
  <2> QED
    BY <1>2, <2>1 DEF Poll, StartedPast
<1>3. ASSUME NEW p \in Slots, Start(p)
      PROVE  StartedPast'
  <2>1. /\ started' = [started EXCEPT ![batch[1].id] = Occurrence(batch[1].row)]
        /\ now' = now
    BY <1>3, StartedRest DEF Start, NextStarts
  <2>2. Occurrence(batch[1].row)[2] <= now
    BY <1>3, StartedRest DEF StartedPast, Occurrence
  <2>3. \A j \in Jobs : started'[j][2] <= now
    BY <2>1, <2>2 DEF StartedPast, TypeOK
  <2>4. \A i \in DOMAIN batch' : batch'[i].row.next_run <= now
    BY <1>3, StartedRest DEF StartedPast
  <2> QED
    BY <2>1, <2>3, <2>4 DEF StartedPast
<1>4. CASE Crash
  BY <1>4 DEF Crash, StartedPast
<1>5. CASE Tick
  <2>1. UNCHANGED <<started, batch>> /\ now' = now + 1 /\ now \in Nat
    BY <1>5 DEF Tick, actors, history, TypeOK
  <2>2. \A j \in Jobs : started[j][2] \in Nat
    BY DEF TypeOK
  <2>3. \A i \in DOMAIN batch : batch[i].row.next_run \in Nat
    <3>1. batch \in Seq([id: Jobs, row: Row]) /\ DOMAIN batch = 1..Len(batch)
      BY DEF TypeOK
    <3>2. \A i \in DOMAIN batch : batch[i] \in [id: Jobs, row: Row]
      BY <3>1, ElementOfSeq
    <3> QED
      BY <3>2 DEF Row
  <2> QED
    BY <2>1, <2>2, <2>3 DEF StartedPast
<1> QED
  BY <1>1, <1>2, <1>3, <1>4, <1>5
     DEF Next, Add, Delete, ReadJob, WriteJob, RunNow, RunStep, RecordRun, RemoveDone, ReadFailed, DisableFailed, Reschedule, StoreFails,
         vars, actors, history

\* No step drops an id that was given out.
LEMMA IssuedKept ==
    ASSUME TypeOK, RunsAreIssued, BatchDistinct, [Next]_vars
    PROVE  RunsAreIssued'
<1>1. issued \subseteq issued'
  BY DEF Next, Add, Delete, ReadJob, WriteJob, RunNow, Poll, Start, NextStarts, RunStep, RecordRun, RemoveDone, ReadFailed, DisableFailed, Reschedule, StoreFails, Crash, Tick,
         vars, table
<1>2. CASE UNCHANGED run
  BY <1>1, <1>2 DEF RunsAreIssued
<1>3. ASSUME NEW p \in Runners, RunStep(p) \/ StoreFails(p)
      PROVE  RunsAreIssued'
  <2>1. run \in [Runners -> Run]
    BY DEF TypeOK
  <2>2. \/ run' = [run EXCEPT ![p] = Free]
        \/ /\ run[p].stage # "free"
           /\ run'[p].id = run[p].id
           /\ \A q \in Runners \ {p} : run'[q] = run[q]
    BY <1>3, <2>1 DEF RunStep, RecordRun, RemoveDone, ReadFailed, DisableFailed, Reschedule,
       StoreFails, AfterRecord, In, End, Run
  <2> QED
    BY <1>1, <2>1, <2>2 DEF RunsAreIssued, Free
<1>4. ASSUME NEW p \in Callers, NEW j \in Jobs, RunNow(p, j)
      PROVE  RunsAreIssued'
  <2>1. run' = [run EXCEPT ![p] = [stage |-> "executing", id |-> j,
                                   copy |-> jobs[j], ok |-> FALSE]]
    BY <1>4 DEF RunNow
  <2>2. j \in issued
    BY <1>4 DEF RunNow, TypeOK
  <2> QED
    BY <1>1, <2>1, <2>2 DEF RunsAreIssued, TypeOK
<1>5. ASSUME NEW p \in Slots, Start(p)
      PROVE  RunsAreIssued'
  <2>1. run' = [run EXCEPT ![p] = [stage |-> "executing", id |-> batch[1].id,
                                   copy |-> batch[1].row, ok |-> FALSE]]
    BY <1>5, StartedRest DEF Start, NextStarts
  <2>2. batch[1].id \in issued
    BY <1>5, StartedRest DEF BatchDistinct
  <2> QED
    BY <1>1, <2>1, <2>2 DEF RunsAreIssued, TypeOK
<1>6. CASE Crash
  BY <1>6 DEF Crash, RunsAreIssued, Free
<1> QED
  BY <1>2, <1>3, <1>4, <1>5, <1>6
     DEF Next, Add, Delete, ReadJob, WriteJob, Poll, Tick, vars, actors

\* A row stays a kept one as long as nothing is said of it.
LEMMA RowsStayKept ==
    ASSUME TypeOK, RunsHaveJobs, [Next]_vars
    PROVE  /\ \A k \in Live' : k \in issued => k \in Live
           /\ \A k \in Live : k \in Live' /\ Kept(jobs[k]) => Kept(jobs'[k]) \/ Settled(k)'
<1> DEFINE Good == /\ \A k \in Live' : k \in issued => k \in Live
                   /\ \A k \in Live : k \in Live' /\ Kept(jobs[k]) => Kept(jobs'[k]) \/ Settled(k)'
<1>1. CASE UNCHANGED jobs
  BY <1>1 DEF Live
<1>2. ASSUME NEW j, DeleteRow(j)
      PROVE  Good
  BY <1>2, Deleted
<1>3. ASSUME NEW j \in Jobs, NEW s \in Schedules, Add(j, s)
      PROVE  Good
  <2>1. /\ Live' = Live \cup {j} /\ j \notin issued
        /\ \A k \in Live : k # j => jobs'[k] = jobs[k]
    BY <1>3 DEF Add, Live
  <2> QED
    BY <2>1 DEF TypeOK
<1>4. ASSUME NEW j, NEW row, Write(j, row),
             j \in Live /\ Kept(jobs[j]) => Kept(row) \/ Settled(j)'
      PROVE  Good
  <2>1. Live' = Live /\ \A k \in Live : jobs'[k] = IF k = j THEN row ELSE jobs[k]
    BY <1>4, Written
  <2> QED
    BY <1>4, <2>1
<1>5. ASSUME NEW e \in Editors, WriteJob(e)
      PROVE  Good
  <2>1. PICK j, row : j = edit[e].id /\ row = edit[e].write
    OBVIOUS
  <2>2. /\ Write(j, row)
        /\ j \in Live /\ NoLongerKept(jobs[j], row) => j \in excused'
    BY <1>5, <2>1 DEF WriteJob
  <2>3. j \in Live /\ Kept(jobs[j]) => Kept(row) \/ Settled(j)'
    BY <2>2 DEF NoLongerKept, Settled
  <2> HIDE DEF Good
  <2> QED
    BY <1>4, <2>2, <2>3
<1>6. ASSUME NEW p \in Runners, DisableFailed(p)
      PROVE  Good
  <2>1. PICK j, copy : j = run[p].id /\ copy = run[p].copy
    OBVIOUS
  <2>2. /\ Write(j, [copy EXCEPT !.enabled = FALSE])
        /\ j \in Live /\ jobs[j] # copy => j \in stale'
    BY <1>6, <2>1 DEF DisableFailed
  <2>3. copy \in Row
    BY <2>1 DEF TypeOK, Run
  <2>4. Kept(copy) => Kept([copy EXCEPT !.enabled = FALSE])
    BY <2>3 DEF Row, Kept
  <2>5. j \in Live /\ Kept(jobs[j]) => Kept([copy EXCEPT !.enabled = FALSE]) \/ Settled(j)'
    BY <2>2, <2>4 DEF Settled
  <2> HIDE DEF Good
  <2> QED
    BY <1>4, <2>2, <2>5
<1>7. ASSUME NEW p \in Runners, Reschedule(p),
             run[p].id \in Live, HasNext(run[p].copy.schedule, now)
      PROVE  Good
  <2> DEFINE j == run[p].id
             row == [jobs[j] EXCEPT !.next_run = NextRun(run[p].copy.schedule, now)]
  <2>1. Write(j, row)
    BY <1>7 DEF Reschedule
  <2>2. jobs[j] \in Row
    BY <1>7 DEF TypeOK
  <2>3. Kept(jobs[j]) => Kept(row)
    BY <2>2 DEF Row, Kept
  <2> HIDE DEF j, row, Good
  <2> QED
    BY <1>4, <2>1, <2>3
<1> QED
  BY <1>1, <1>2, <1>3, <1>5, <1>6, <1>7
     DEF Next, Delete, ReadJob, RunNow, Poll, Start, NextStarts, RunStep, RecordRun,
         RemoveDone, ReadFailed, Reschedule, StoreFails, Crash, Tick, vars, table

LEMMA KeptKept ==
    ASSUME CronAssumption, TypeOK, TypeOK', RunsHaveJobs, RunsAreIssued, BatchDistinct, KeptStays,
           [Next]_vars
    PROVE  KeptStays'
<1> DEFINE Stages == {"executing", "recorded"}
<1>0. ASSUME NEW j \in issued, NEW copy, StaysKept(j, copy)
      PROVE  StaysKept(j, copy)'
  <2> SUFFICES ASSUME j \in Live', Kept(copy) PROVE Kept(jobs'[j]) \/ Settled(j)'
    BY DEF StaysKept, Kept
  <2>1. j \in Live /\ (Kept(jobs[j]) \/ Settled(j))
    BY <1>0, RowsStayKept DEF StaysKept
  <2> QED
    BY <2>1, RowsStayKept, SettledStays DEF TypeOK
<1>1. ASSUME NEW p \in Runners, run[p].stage \in Stages
      PROVE  \E j, c : j = run[p].id /\ c = run[p].copy /\ StaysKept(j, c)'
  <2>1. PICK j, c : j = run[p].id /\ c = run[p].copy
    OBVIOUS
  <2>2. j \in issued /\ StaysKept(j, c)
    BY <1>1, <2>1 DEF RunsAreIssued, KeptStays
  <2> QED
    BY <1>0, <2>1, <2>2
<1>2. ASSUME NEW i \in DOMAIN batch
      PROVE  \E j, c : j = batch[i].id /\ c = batch[i].row /\ StaysKept(j, c)'
  <2>1. PICK j, c : j = batch[i].id /\ c = batch[i].row
    OBVIOUS
  <2>2. j \in issued /\ StaysKept(j, c)
    BY <2>1 DEF BatchDistinct, KeptStays
  <2> QED
    BY <1>0, <2>1, <2>2
<1>3. ASSUME NEW j \in Live, UNCHANGED jobs
      PROVE  \A c : c = jobs[j] => StaysKept(j, c)'
  BY <1>3 DEF StaysKept, Kept, Live
<1>4. ASSUME \A p \in Runners :
                 run'[p].stage \in Stages
                 => \E j, c : j = run'[p].id /\ c = run'[p].copy /\ StaysKept(j, c)',
             \A i \in DOMAIN batch' :
                 \E j, c : j = batch'[i].id /\ c = batch'[i].row /\ StaysKept(j, c)'
      PROVE  KeptStays'
  BY <1>4 DEF KeptStays, StaysKept, Kept
<1> HIDE DEF Stages
<1>5. CASE UNCHANGED <<run, batch>>
  BY <1>1, <1>2, <1>4, <1>5
<1>6. ASSUME NEW p \in Runners, RunStep(p) \/ StoreFails(p)
      PROVE  KeptStays'
  <2>1. run \in [Runners -> Run] /\ UNCHANGED batch
    BY <1>6 DEF TypeOK, RunStep, RecordRun, RemoveDone, ReadFailed, DisableFailed,
       Reschedule, StoreFails
  <2>2. /\ run'[p].stage \in Stages
           => /\ run[p].stage \in Stages
              /\ run'[p].id = run[p].id /\ run'[p].copy = run[p].copy
        /\ \A q \in Runners \ {p} : run'[q] = run[q]
    BY <1>6, <2>1 DEF RunStep, RecordRun, RemoveDone, ReadFailed, DisableFailed, Reschedule,
       StoreFails, AfterRecord, In, End, Run, Free, Stages
  <2> QED
    BY <1>1, <1>2, <1>4, <2>1, <2>2
<1>7. ASSUME NEW p \in Callers, NEW j \in Jobs, RunNow(p, j)
      PROVE  KeptStays'
  <2>1. /\ run'[p].id = j /\ run'[p].copy = jobs[j] /\ j \in Live
        /\ \A q \in Runners \ {p} : run'[q] = run[q]
        /\ UNCHANGED <<batch, jobs>>
    BY <1>7 DEF RunNow, TypeOK, Runners, table
  <2> QED
    BY <1>1, <1>2, <1>3, <1>4, <2>1
<1>8. ASSUME NEW p \in Slots, Start(p)
      PROVE  KeptStays'
  <2>1. /\ run'[p].id = batch[1].id /\ run'[p].copy = batch[1].row
        /\ \A q \in Runners \ {p} : run'[q] = run[q]
    BY <1>8, StartedRest DEF Start, NextStarts, TypeOK, Runners
  <2>2. \A i \in DOMAIN batch' : i + 1 \in DOMAIN batch /\ batch'[i] = batch[i + 1]
    BY <1>8, StartedRest
  <2>3. 1 \in DOMAIN batch
    BY <1>8, StartedRest
  <2>4. \A i \in DOMAIN batch' :
            \E j, c : j = batch'[i].id /\ c = batch'[i].row /\ StaysKept(j, c)'
    BY <1>2, <2>2
  <2>5. \E j, c : j = run'[p].id /\ c = run'[p].copy /\ StaysKept(j, c)'
    BY <1>2, <2>1, <2>3
  <2>6. \A q \in Runners :
            run'[q].stage \in Stages
            => \E j, c : j = run'[q].id /\ c = run'[q].copy /\ StaysKept(j, c)'
    BY <1>1, <2>1, <2>5
  <2> QED
    BY <1>4, <2>4, <2>6
<1>9. CASE Poll
  <2>1. UNCHANGED <<run, jobs>>
    BY <1>9 DEF Poll, table
  <2>2. \A i \in DOMAIN batch' : batch'[i].id \in Live /\ batch'[i].row = jobs[batch'[i].id]
    BY <1>9, PolledRows
  <2> QED
    BY <1>1, <1>3, <1>4, <2>1, <2>2
<1>10. CASE Crash
  BY <1>10 DEF Crash, KeptStays, Free
<1> QED
  BY <1>5, <1>6, <1>7, <1>8, <1>9, <1>10
     DEF Next, Add, Delete, ReadJob, WriteJob, Tick, vars, actors

\* A run that is over gives its job a time ahead, or the one it was always due at,
\* if its schedule has not run out.
LEMMA RescheduledIsPast ==
    ASSUME CronAssumption, TypeOK, TypeOK', StartedPast, KeptStays, [Next]_vars,
           UNCHANGED started, NEW p \in Runners, Reschedule(p), NEW j \in Jobs, run[p].id = j,
           HasNext(run[p].copy.schedule, now)
    PROVE  ~Again(j)'
<1> SUFFICES ASSUME Again(j)' PROVE FALSE
  OBVIOUS
<1>1. ~Settled(j) /\ ~Settled(j)' /\ j \in Live'
  BY SettledStays DEF Again
<1>2. /\ now \in Nat /\ started[j][2] \in Nat /\ started[j][2] <= now
      /\ started[j][2] = jobs'[j].next_run
      /\ ~Kept(jobs'[j])
  <2>1. now \in Nat /\ started[j] \in Schedule \X Nat
    BY DEF TypeOK
  <2>2. started[j] = <<jobs'[j].schedule, jobs'[j].next_run>> /\ started[j][2] <= now
    BY DEF Again, Occurrence, StartedPast
  <2>3. ~Kept(jobs'[j])
    BY DEF Again, StaysDue, Kept
  <2> QED
    BY ONLY <2>1, <2>2, <2>3
<1>3. PICK copy : copy = run[p].copy
  OBVIOUS
<1>4. j \in Live
  BY <1>1, Written DEF Reschedule, Live
<1>5. /\ Write(j, [jobs[j] EXCEPT !.next_run = NextRun(copy.schedule, now)])
      /\ jobs[j].schedule # copy.schedule => j \in stale'
      /\ StaysKept(j, copy) /\ ~IsOneShot(copy)
  BY <1>3, <1>4 DEF Reschedule, KeptStays, In
<1>6. copy \in Row
  BY <1>3 DEF TypeOK, Run
<1>7. jobs[j] \in Row /\ jobs[j].schedule = copy.schedule
  BY <1>1, <1>4, <1>5 DEF TypeOK, Settled
<1>8. jobs'[j] = [jobs[j] EXCEPT !.next_run = NextRun(copy.schedule, now)]
  BY <1>4, <1>5, Written
<1>9. CASE copy.schedule.kind = "at"
  <2>1. Kept(copy)
    BY <1>5, <1>9 DEF IsOneShot, Kept
  <2>2. Kept(jobs[j])
    BY <1>1, <1>4, <1>5, <2>1 DEF StaysKept
  <2>3. Kept(jobs'[j])
    BY <1>7, <1>8, <2>2 DEF Kept, Row
  <2> QED
    BY <1>2, <2>3
<1>10. CASE copy.schedule.kind # "at"
  <2>1. NextRun(copy.schedule, now) \in Nat /\ NextRun(copy.schedule, now) > now
    BY <1>2, <1>3, <1>6, <1>10, NextRunLater DEF Row
  <2>2. jobs'[j].next_run = NextRun(copy.schedule, now)
    BY <1>7, <1>8 DEF Row
  <2> QED
    BY <1>2, <2>1, <2>2
<1> QED
  BY <1>9, <1>10

\* A step other than Start gives no job a time back that it was started for,
\* unless the history says so.
LEMMA AgainWasSo ==
    ASSUME CronAssumption, TypeOK, TypeOK', RunsHaveJobs, StartedPast, KeptStays,
           [Next]_vars, UNCHANGED started, NEW j \in Jobs, Again(j)'
    PROVE  Again(j)
<1>1. ~Settled(j) /\ ~Settled(j)' /\ j \in Live'
  BY SettledStays DEF Again
<1>0. HasNext(jobs'[j].schedule, now) /\ ~Kept(jobs'[j])
  <2>1. jobs'[j].schedule \in Schedule
    BY <1>1 DEF TypeOK, Row
  <2>2. HasNext(jobs'[j].schedule, now') /\ ~Kept(jobs'[j])
    BY DEF Again, StaysDue, Kept, HasNext, Following
  <2> QED
    BY <2>1, <2>2, TimeGoesOn, RunOutStays
<1>2. ASSUME j \in Live, jobs'[j] = jobs[j]
      PROVE  Again(j)
  <2>1. ~StaysDue(jobs[j])
    BY <1>0, <1>2 DEF StaysDue
  <2> QED
    BY <1>1, <1>2, <2>1 DEF Again, Occurrence
<1>3. /\ now \in Nat /\ started[j][2] \in Nat /\ started[j][2] <= now
      /\ started[j][2] = jobs'[j].next_run
      /\ jobs'[j].enabled /\ ~Kept(jobs'[j])
  <2>1. now \in Nat /\ started[j] \in Schedule \X Nat
    BY DEF TypeOK
  <2>2. started[j] = <<jobs'[j].schedule, jobs'[j].next_run>> /\ started[j][2] <= now
    BY DEF Again, Occurrence, StartedPast
  <2>3. jobs'[j].enabled /\ ~Kept(jobs'[j])
    BY <1>0 DEF Again
  <2> QED
    BY ONLY <2>1, <2>2, <2>3
<1>4. ASSUME NEW k \in Jobs, NEW s \in Schedules, Add(k, s)
      PROVE  Again(j)
  <2>1. CASE k = j
    <3>1. jobs'[j].next_run = NextRun(s, now)
      BY <1>4, <2>1 DEF Add
    <3>2. s \in Schedule /\ HasNext(s, now) /\ (s.kind = "at" => s.time > now)
      BY <1>4 DEF Add, Valid, CronAssumption
    <3>3. NextRun(s, now) \in Nat /\ NextRun(s, now) > now
      BY <1>3, <3>2, NextRunLater
    <3> QED
      BY <1>3, <3>1, <3>3
  <2>2. CASE k # j
    <3>1. j \in Live /\ jobs'[j] = jobs[j]
      BY <1>1, <1>4, <2>2 DEF Add, Live
    <3> QED
      BY <1>2, <3>1
  <2> QED
    BY <2>1, <2>2
<1>5. ASSUME NEW k, DeleteRow(k)
      PROVE  Again(j)
  BY <1>1, <1>2, <1>5, Deleted
<1>6. ASSUME NEW k, NEW row, Write(k, row), k = j /\ jobs'[j] = row /\ j \in Live => Again(j)
      PROVE  Again(j)
  <2>1. j \in Live /\ jobs'[j] = IF j = k THEN row ELSE jobs[j]
    BY <1>1, <1>6, Written
  <2> QED
    BY <1>2, <1>6, <2>1
<1>7. ASSUME NEW e \in Editors, WriteJob(e)
      PROVE  Again(j)
  <2>1. PICK k, row : k = edit[e].id /\ row = edit[e].write
    OBVIOUS
  <2>2. /\ Write(k, row)
        /\ k \in Live /\ (\/ Resumed(jobs[k], row)
                          \/ NoLongerKept(jobs[k], row)
                          \/ Returns(k, row)) => k \in excused'
    BY <1>7, <2>1 DEF WriteJob
  <2>3. ASSUME k = j, jobs'[j] = row, j \in Live
        PROVE  Again(j)
    <3>1. ~Resumed(jobs[j], row) /\ ~NoLongerKept(jobs[j], row) /\ ~Returns(j, row)
      BY <1>1, <2>2, <2>3 DEF Settled
    <3>2. jobs[j].enabled
      BY <1>3, <2>3, <3>1 DEF Resumed
    <3>3. ~Kept(jobs[j])
      BY <1>3, <2>3, <3>1 DEF NoLongerKept
    <3>4. Occurrence(row) = started[j]
      BY <2>3 DEF Again
    <3>5. Occurrence(jobs[j]) = started[j]
      BY <3>1, <3>4 DEF Returns
    <3>6. jobs[j].schedule = jobs'[j].schedule
      BY <2>3, <3>4, <3>5 DEF Occurrence
    <3>7. ~StaysDue(jobs[j])
      BY <1>0, <3>3, <3>6 DEF StaysDue
    <3> QED
      BY <1>1, <2>3, <3>2, <3>5, <3>7 DEF Again
  <2> QED
    BY <1>6, <2>2, <2>3
<1>8. ASSUME NEW p \in Runners, DisableFailed(p)
      PROVE  Again(j)
  <2>1. PICK k, copy : k = run[p].id /\ copy = run[p].copy
    OBVIOUS
  <2>2. copy \in Row /\ Write(k, [copy EXCEPT !.enabled = FALSE])
    BY <1>8, <2>1 DEF DisableFailed, TypeOK, Run
  <2>3. ~[copy EXCEPT !.enabled = FALSE].enabled
    BY <2>2 DEF Row
  <2> QED
    BY <1>3, <1>6, <2>2, <2>3
<1>9. ASSUME NEW p \in Runners, Reschedule(p),
             run[p].id \in Live, HasNext(run[p].copy.schedule, now)
      PROVE  Again(j)
  <2>1. PICK k, row : k = run[p].id /\ Write(k, row)
    BY <1>9 DEF Reschedule
  <2>2. k # j
    BY <1>9, <2>1, RescheduledIsPast
  <2> QED
    BY <1>6, <2>1, <2>2
<1>10. CASE UNCHANGED jobs
  <2>1. j \in Live /\ jobs'[j] = jobs[j]
    BY <1>1, <1>10 DEF Live
  <2> QED
    BY <1>2, <2>1
<1> QED
  BY <1>4, <1>5, <1>7, <1>8, <1>9, <1>10
     DEF Next, Delete, ReadJob, RunNow, Poll, Start, NextStarts, RunStep, RecordRun,
         RemoveDone, ReadFailed, Reschedule, StoreFails, Crash, Tick, vars, table

LEMMA OnceKept ==
    ASSUME CronAssumption, CronInv, CronInv', OnceInv, [Next]_vars
    PROVE  OnceInv'
<1> USE DEF CronInv
<1>1. StartedPast' /\ RunsAreIssued' /\ KeptStays'
  BY PastKept, IssuedKept, KeptKept DEF OnceInv
<1>2. \A j \in Jobs : UNCHANGED started /\ Again(j)' => Again(j)
  BY AgainWasSo DEF OnceInv
<1>3. ASSUME NEW p \in Slots, Start(p)
      PROVE  StillRuns' /\ BatchIsNew'
  <2> DEFINE k == batch[1].id
  <2>1. /\ batch[1].id \in Jobs
        /\ started' = [started EXCEPT ![batch[1].id] = Occurrence(batch[1].row)]
        /\ run'[p].stage = "executing" /\ run'[p].id = batch[1].id
        /\ run'[p].copy = batch[1].row
        /\ run[p] = Free
        /\ \A q \in Runners \ {p} : run'[q] = run[q]
        /\ UNCHANGED <<now, jobs, stale, excused>>
    BY <1>3, StartedRest DEF Start, NextStarts, TypeOK, Runners
  <2>2. ASSUME NEW j \in Jobs, Again(j)'
        PROVE  \E q \in Slots : RunsFor(q, j)'
    <3>1. CASE j = batch[1].id
      <4>1. started'[j] = Occurrence(batch[1].row)
        BY <2>1, <3>1 DEF TypeOK
      <4>2. RunsFor(p, j)'
        BY <2>1, <3>1, <4>1 DEF RunsFor, Occurrence
      <4> QED
        BY <4>2
    <3>2. CASE j # batch[1].id
      <4>1. started'[j] = started[j]
        BY <2>1, <3>2 DEF TypeOK
      <4>2. Again(j)
        BY <2>1, <2>2, <4>1 DEF Again, Live, Settled, StaysDue, Kept, HasNext, Following, Occurrence
      <4>3. PICK q \in Slots : RunsFor(q, j)
        BY <4>2 DEF OnceInv, StillRuns
      <4>4. q # p /\ q \in Runners
        BY <2>1, <4>3 DEF Free, Runners, RunsFor
      <4>5. RunsFor(q, j)'
        BY <2>1, <4>1, <4>3, <4>4 DEF RunsFor, Occurrence
      <4> QED
        BY <4>5
    <3> QED
      BY <3>1, <3>2
  <2>3. ASSUME NEW i \in DOMAIN batch', Occurrence(batch'[i].row) = started'[batch'[i].id]
        PROVE  Settled(batch[i].id)' \/ StaysDue(batch'[i].row)
    <3>1. /\ i + 1 \in DOMAIN batch /\ i + 1 # 1 /\ 1 \in DOMAIN batch
          /\ batch'[i] = batch[i + 1]
      BY <1>3, StartedRest
    <3>2. batch[i + 1].id # batch[1].id /\ batch[i + 1].id \in Jobs
      BY <3>1 DEF BatchDistinct, TypeOK
    <3>3. Occurrence(batch[i + 1].row) = started[batch[i + 1].id]
      BY <2>1, <2>3, <3>1, <3>2 DEF TypeOK
    <3>4. Settled(batch[i + 1].id) \/ StaysDue(batch[i + 1].row)
      BY <3>1, <3>3 DEF OnceInv, BatchIsNew
    <3> QED
      BY <2>1, <3>1, <3>4 DEF Settled
  <2>4. BatchIsNew'
    BY <2>1, <2>3 DEF BatchIsNew, Occurrence, StaysDue, Kept, HasNext, Following
  <2> QED
    BY <2>2, <2>4 DEF StillRuns
<1>4. ASSUME NEW p \in Runners, RunStep(p) \/ StoreFails(p)
      PROVE  StillRuns'
  <2> SUFFICES ASSUME NEW j \in Jobs, Again(j)'
               PROVE  \E q \in Slots : RunsFor(q, j)'
    BY DEF StillRuns
  <2>1. UNCHANGED started /\ run \in [Runners -> Run]
    BY <1>4 DEF RunStep, RecordRun, RemoveDone, ReadFailed, DisableFailed, Reschedule,
       StoreFails, history, TypeOK
  <2>2. PICK q \in Slots : RunsFor(q, j)
    BY <1>2, <2>1 DEF OnceInv, StillRuns
  <2>3. CASE q # p
    <3>1. run'[q] = run[q]
      BY <1>4, <2>1, <2>3 DEF RunStep, RecordRun, RemoveDone, ReadFailed, DisableFailed,
         Reschedule, StoreFails, AfterRecord, End, Runners
    <3>2. RunsFor(q, j)'
      BY <2>1, <2>2, <3>1 DEF RunsFor, Occurrence
    <3> QED
      BY <3>2
  <2>4. CASE q = p
    <3>0. j \in Live' /\ ~Settled(j)' /\ jobs'[j].enabled
      BY DEF Again
    <3>1. /\ run[p].id = j /\ p \notin Callers
          /\ run[p].stage \in {"executing", "recorded"} => Occurrence(run[p].copy) = started[j]
      BY <2>2, <2>4 DEF RunsFor, CronAssumption
    <3>2. CASE RecordRun(p)
      <4>1. PICK ok \in BOOLEAN :
                run' = [run EXCEPT ![p].stage = "recorded",
                                   ![p].ok = ok /\ IsOneShot(run[p].copy)]
        BY <3>1, <3>2 DEF RecordRun, AfterRecord
      <4>2. /\ run'[p].stage = "recorded" /\ run'[p].id = run[p].id
            /\ run'[p].copy = run[p].copy
        BY <2>1, <4>1 DEF Run
      <4>3. run[p].stage = "executing"
        BY <3>2 DEF RecordRun, In
      <4>4. RunsFor(p, j)'
        BY <2>1, <3>1, <4>2, <4>3 DEF RunsFor, Occurrence
      <4> QED
        BY <2>4, <4>4
    <3>3. CASE RemoveDone(p)
      <4>1. j \notin Live'
        BY <3>1, <3>3, Deleted DEF RemoveDone
      <4> QED
        BY <3>0, <4>1
    <3>4. CASE ReadFailed(p)
      <4>1. j \in Live
        BY <3>0, <3>4 DEF ReadFailed, table, Live
      <4>2. run'[p].stage = "disabling" /\ run'[p].id = j
        BY <2>1, <3>1, <3>4, <4>1 DEF ReadFailed, Run
      <4>3. RunsFor(p, j)'
        BY <4>2 DEF RunsFor
      <4> QED
        BY <2>4, <4>3
    <3>5. CASE DisableFailed(p)
      <4>1. run[p].copy \in Row
        BY <2>1 DEF Run
      <4>2. j \in Live /\ jobs'[j] = [run[p].copy EXCEPT !.enabled = FALSE]
        BY <3>0, <3>1, <3>5, Written DEF DisableFailed
      <4>3. ~jobs'[j].enabled
        BY <4>1, <4>2 DEF Row
      <4> QED
        BY <3>0, <4>3
    <3>6. CASE Reschedule(p)
      <4>1. ~HasNext(run[p].copy.schedule, now)
        BY <2>1, <3>1, <3>6, RescheduledIsPast DEF OnceInv
      <4>2. UNCHANGED <<now, jobs>> /\ Occurrence(run[p].copy) = started[j]
        BY <3>1, <3>6, <4>1 DEF Reschedule, In
      <4>3. jobs'[j].schedule = run[p].copy.schedule
        BY <2>1, <4>2 DEF Again, Occurrence
      <4> QED
        BY <4>1, <4>2, <4>3 DEF Again, StaysDue, HasNext, Following
    <3>7. CASE StoreFails(p)
      BY <3>0, <3>1, <3>7 DEF StoreFails, Settled
    <3> QED
      BY <1>4, <3>2, <3>3, <3>4, <3>5, <3>6, <3>7 DEF RunStep
  <2> QED
    BY <2>3, <2>4
<1>5. ASSUME UNCHANGED <<started, batch>>
      PROVE  BatchIsNew'
  <2>1. \A i \in DOMAIN batch : batch[i].id \in Jobs
    BY DEF BatchDistinct, TypeOK
  <2>2. ASSUME NEW i \in DOMAIN batch, Occurrence(batch[i].row) = started[batch[i].id]
        PROVE  Settled(batch[i].id)' \/ StaysDue(batch[i].row)'
    <3>1. Settled(batch[i].id) \/ StaysDue(batch[i].row)
      BY <2>2 DEF OnceInv, BatchIsNew
    <3>2. stale \subseteq stale' /\ excused \subseteq excused'
      BY SettledStays
    <3>3. PICK row \in Row : row = batch[i].row
      BY BatchTyped
    <3>4. StaysDue(row) => StaysDue(row)'
      BY StaysDueLater
    <3> QED
      BY <1>5, <3>1, <3>2, <3>3, <3>4 DEF Settled, StaysDue, Kept, HasNext, Following
  <2> QED
    BY <1>5, <2>2 DEF BatchIsNew, Occurrence, StaysDue, Kept, HasNext, Following
<1>6. ASSUME UNCHANGED <<started, run>>
      PROVE  StillRuns'
  BY <1>2, <1>6 DEF OnceInv, StillRuns, RunsFor, Occurrence
<1>7. ASSUME Poll
      PROVE  StillRuns' /\ BatchIsNew'
  <2>1. UNCHANGED <<now, started, run, jobs, stale, excused>> /\ \A p \in Slots : run[p] = Free
    BY <1>7 DEF Poll, table
  <2>2. ASSUME NEW i \in DOMAIN batch', Occurrence(batch'[i].row) = started'[batch'[i].id]
        PROVE  Settled(batch[i].id)' \/ StaysDue(batch'[i].row)
    <3>1. PICK j \in Live : j = batch'[i].id /\ batch'[i].row = jobs[j] /\ jobs[j].enabled
      BY <1>7, PolledRows DEF IsDue
    <3>2. j \in Jobs /\ ~Again(j)
      <4>1. j \in Jobs
        BY DEF TypeOK
      <4>2. \A p \in Slots : run[p].stage = "free"
        BY <2>1 DEF Free
      <4> QED
        BY <4>1, <4>2 DEF OnceInv, StillRuns, RunsFor
    <3>3. Settled(j) \/ StaysDue(jobs[j])
      BY <2>1, <2>2, <3>1, <3>2 DEF Again
    <3> QED
      BY <2>1, <3>1, <3>3 DEF Settled
  <2>3. BatchIsNew'
    BY <2>1, <2>2 DEF BatchIsNew, Occurrence, StaysDue, Kept, HasNext, Following
  <2> QED
    BY <1>6, <2>1, <2>3
<1>8. ASSUME Crash
      PROVE  StillRuns' /\ BatchIsNew'
  <2>1. BatchIsNew'
    BY <1>8 DEF Crash, BatchIsNew
  <2>2. ASSUME NEW j \in Jobs, Again(j)'
        PROVE  FALSE
    <3>1. Again(j)
      BY <1>2, <1>8, <2>2 DEF Crash
    <3>2. PICK q \in Slots : run[q].stage # "free" /\ run[q].id = j
      BY <3>1 DEF OnceInv, StillRuns, RunsFor
    <3>3. j \in excused'
      BY <1>8, <3>2 DEF Crash, Unfinished, Runners
    <3> QED
      BY <2>2, <3>3 DEF Again, Settled
  <2> QED
    BY <2>1, <2>2 DEF StillRuns
<1>9. ASSUME NEW p \in Callers, NEW j \in Jobs, RunNow(p, j)
      PROVE  StillRuns'
  <2>1. /\ run[p] = Free /\ UNCHANGED started
        /\ \A q \in Runners \ {p} : run'[q] = run[q]
    BY <1>9 DEF RunNow, history, TypeOK
  <2>2. \A q \in Slots : run[q].stage # "free" => run'[q] = run[q]
    BY <2>1 DEF Runners, Free
  <2> QED
    BY <1>2, <2>1, <2>2 DEF OnceInv, StillRuns, RunsFor, Occurrence
<1> QED
  BY <1>1, <1>3, <1>4, <1>5, <1>6, <1>7, <1>8, <1>9, ZenonT(40)
     DEF OnceInv, Next, Add, Delete, ReadJob, WriteJob, RunNow, RunStep, RecordRun,
         RemoveDone, ReadFailed, DisableFailed, Reschedule, StoreFails, Tick, vars, actors, history

LEMMA CronHistory == Spec => [](CronInv /\ OnceInv)
<1>1. Init => OnceInv
  BY CronAssumption, OnceInit
<1>2. CronInv /\ CronInv' /\ OnceInv /\ [Next]_vars => OnceInv'
  BY CronAssumption, OnceKept
<1> QED
  BY <1>1, <1>2, CronInvariant, PTL DEF Spec

\* However many updates, callers, slots and jobs there are, the scheduler starts
\* a job once for each time it falls due: the next poll waits for the batch, and
\* a run that is over leaves no time behind that it was started for
\* (process_due_jobs, reschedule_after_run, disable_failed_one_shot).
THEOREM StartsAreOnce == Spec => StartedOncePerOccurrence
<1> DEFINE Once ==
        \A j \in Jobs, p \in Slots :
            /\ run[p] = Free /\ run'[p] # Free /\ run'[p].id = j
            /\ Occurrence(run'[p].copy) = started[j]
            => j \in stale \cup excused \/ StaysDue(run'[p].copy)
<1>1. CronInv /\ OnceInv /\ [Next]_vars => [Once]_vars
  <2> SUFFICES ASSUME CronInv, OnceInv, Next,
                      NEW j \in Jobs, NEW p \in Slots,
                      run[p] = Free, run'[p] # Free, run'[p].id = j,
                      Occurrence(run'[p].copy) = started[j]
               PROVE  j \in stale \cup excused \/ StaysDue(run'[p].copy)
    OBVIOUS
  <2> USE CronAssumption DEF CronInv
  <2>1. run \in [Runners -> Run] /\ p \in Runners /\ run[p].stage = "free"
    BY DEF TypeOK, Runners, Free
  <2>2. ASSUME NEW q \in Slots, Start(q)
        PROVE  j \in stale \cup excused \/ StaysDue(run'[p].copy)
    <3>1. run' = [run EXCEPT ![q] = [stage |-> "executing", id |-> batch[1].id,
                                     copy |-> batch[1].row, ok |-> FALSE]]
      BY <2>2, StartedRest DEF Start, NextStarts
    <3>2. 1 \in DOMAIN batch
      BY <2>2, StartedRest
    <3>3. p = q
      BY <2>1, <3>1
    <3>4. j = batch[1].id /\ run'[p].copy = batch[1].row
      BY <2>1, <3>1, <3>3
    <3> QED
      BY <3>2, <3>4 DEF OnceInv, BatchIsNew, Settled
  <2>3. ASSUME NEW q \in Runners, RunStep(q) \/ StoreFails(q)
        PROVE  FALSE
    <3>1. q # p
      BY <2>1, <2>3 DEF RunStep, RecordRun, RemoveDone, ReadFailed, DisableFailed, Reschedule,
         StoreFails, In
    <3>2. run'[p] = run[p]
      BY <2>1, <2>3, <3>1 DEF RunStep, RecordRun, RemoveDone, ReadFailed, DisableFailed,
         Reschedule, StoreFails, AfterRecord, End
    <3> QED
      BY <3>2
  <2>4. ASSUME NEW q \in Callers, NEW k \in Jobs, RunNow(q, k)
        PROVE  FALSE
    <3>1. q # p
      BY DEF CronAssumption
    <3>2. run'[p] = run[p]
      BY <2>1, <2>4, <3>1 DEF RunNow
    <3> QED
      BY <3>2
  <2>5. ~Crash
    BY <2>1 DEF Crash
  <2>6. ~UNCHANGED run
    OBVIOUS
  <2> QED
    BY <2>2, <2>3, <2>4, <2>5, <2>6
       DEF Next, Add, Delete, ReadJob, WriteJob, Poll, Tick, actors
<1> QED
  BY <1>1, CronHistory, PTL DEF Spec, StartedOncePerOccurrence

\* No crash, failed statement or race of the scheduler with other runs takes a
\* job off that is due, for any number of them: only the end of one of its runs
\* or a request does (persist_job_result, handle_api_cron_run).
THEOREM DueJobsStayDue == Spec => OccurrencesAreNotDropped
<1> DEFINE Kept1 ==
        \A j \in Jobs :
            Due(j) /\ ~Due(j)'
            => \/ \E p \in Runners : run[p].id = j /\ run[p].stage \in {"recorded", "disabling"}
               \/ \E e \in Editors : edit[e].id = j /\ edit'[e] = NoEdit
               \/ requests' # requests
<1>1. CronInv /\ [Next]_vars => [Kept1]_vars
  <2> SUFFICES ASSUME CronInv, Next, NEW j \in Jobs, Due(j), ~Due(j)', requests' = requests
               PROVE  \/ \E p \in Runners : run[p].id = j /\ run[p].stage \in {"recorded", "disabling"}
                      \/ \E e \in Editors : edit[e].id = j /\ edit'[e] = NoEdit
    OBVIOUS
  <2>1. TypeOK /\ requests \in Nat /\ requests + 1 # requests
    BY DEF CronInv, TypeOK
  <2>2. ~(jobs' = jobs /\ now' = now)
    BY DEF Due, Live, IsDue
  <2>3. ASSUME NEW e \in Editors, WriteJob(e)
        PROVE  \E d \in Editors : edit[d].id = j /\ edit'[d] = NoEdit
    <3>1. edit' = [edit EXCEPT ![e] = NoEdit] /\ UNCHANGED now
          /\ Write(edit[e].id, edit[e].write)
      BY <2>3 DEF WriteJob
    <3>2. edit[e].id = j
      <4> SUFFICES ASSUME edit[e].id # j PROVE FALSE
        OBVIOUS
      <4>1. j \in Live /\ Live' = Live /\ jobs'[j] = jobs[j]
        BY <3>1, Written DEF Due
      <4> QED
        BY <3>1, <4>1 DEF Due, IsDue
    <3> QED
      BY <2>1, <3>1, <3>2 DEF TypeOK
  <2>4. ASSUME NEW p \in Runners, RemoveDone(p)
        PROVE  run[p].id = j /\ run[p].stage \in {"recorded", "disabling"}
    <3>1. j \in Live \ {run[p].id} => j \in Live' /\ jobs'[j] = jobs[j]
      BY <2>4, Deleted DEF RemoveDone
    <3>2. UNCHANGED now /\ run[p].stage = "recorded"
      BY <2>4 DEF RemoveDone, In
    <3> QED
      BY <3>1, <3>2 DEF Due, IsDue
  <2>5. ASSUME NEW p \in Runners, DisableFailed(p) \/ Reschedule(p)
        PROVE  run[p].id = j /\ run[p].stage \in {"recorded", "disabling"}
    <3>1. UNCHANGED now /\ run[p].stage \in {"recorded", "disabling"}
      BY <2>5 DEF DisableFailed, Reschedule, In
    <3>2. \E row : Write(run[p].id, row)
      BY <2>2, <2>5, <3>1 DEF DisableFailed, Reschedule
    <3>3. run[p].id # j => j \in Live /\ j \in Live' /\ jobs'[j] = jobs[j]
      BY <3>2, Written DEF Due
    <3> QED
      BY <3>1, <3>3 DEF Due, IsDue
  <2>6. CASE Tick
    <3>1. UNCHANGED jobs /\ now \in Nat /\ now' = now + 1
      BY <2>1, <2>6 DEF Tick, table, TypeOK
    <3>2. jobs[j] \in Row
      BY <2>1 DEF Due, TypeOK
    <3>3. jobs[j].next_run \in Nat /\ jobs[j].next_run <= now + 1
      BY <2>1, <3>2 DEF Due, IsDue, TypeOK, Row
    <3> QED
      BY <3>1, <3>3 DEF Due, IsDue, Live
  <2> QED
    BY <2>1, <2>2, <2>3, <2>4, <2>5, <2>6
       DEF Next, Add, Delete, ReadJob, RunNow, Request, Poll, Start, NextStarts, RunStep, RecordRun, ReadFailed, StoreFails, Crash, table
<1> QED
  BY <1>1, CronInvariant, PTL DEF Spec, OccurrencesAreNotDropped
=============================================================================
