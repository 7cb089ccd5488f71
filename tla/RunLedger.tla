------------------------------ MODULE RunLedger ------------------------------
(***************************************************************************)
(* The run ledger (src/src/agent/run_ledger.rs): the plan of a run, the    *)
(* tool calls that count as evidence for its steps, the verifier, and the  *)
(* file that keeps them; with the task_plan tool it mirrors                *)
(* (src/src/tools/task_plan.rs), the web chat's turns                      *)
(* (src/src/gateway/ws.rs) and the autonomous loop                         *)
(* (src/src/agent/autonomous.rs), which open and close it.                 *)
(*                                                                         *)
(* Every opening of a ledger is a run with data of its own; all turns of a *)
(* chat session have one file, and nothing keeps two of them from being    *)
(* open together.  A save is three system calls, each a step.  A tool call *)
(* is what the ledger tells of it: whether it succeeded and which of the   *)
(* expected patterns it shows.                                             *)
(***************************************************************************)
EXTENDS Naturals, FiniteSets, Sequences, SequencesExt

CONSTANTS
    Runs,           \* openings of a ledger
    Paths,          \* ledger files
    OwnPaths,       \* those of AutonomousLoops; the others are chat sessions
    Earlier,        \* what earlier turns may have left: files, and the list
    NoRun, NoFile, Torn, NoTitle, NoPath,
    PlanCalls,      \* the calls of task_plan that the runs of a file make
    ToolCalls,      \* their calls of other tools
    Titles,         \* of tasks; NoTitle stands for a missing or an empty one
    Tools,          \* what a task may name as its tools
    Patterns,       \* what a call may name as the evidence a task expects
    Blank, Trim,    \* an empty text; what is left of a pattern without the space
                    \* around it
    MaxEvents,      \* MAX_EVENTS
    RetryBudget,    \* of an AutonomousLoop
    MaxCalls,       \* bounds for TLC: tool calls,
    MaxOpen,        \*   runs open at a time
    MaxCrashes      \*   and crashes

Resolved == {"completed", "failed", "blocked", "skipped"}
Statuses == {"pending", "in_progress"} \cup Resolved

\* An entry of a call, the task that task_plan makes of it, and the step that
\* the ledger makes of it.  Lists of dependencies and patterns are sets, a title
\* stands for itself and the space around it.
Entry ==
    [title: Titles \cup {NoTitle}, status: Statuses, tools: SUBSET Tools,
     depends_on: SUBSET Nat, expected_evidence: SUBSET Patterns]

TaskItem ==
    [id: Nat, title: Titles \cup {NoTitle}, status: Statuses,
     tools: SUBSET Tools, depends_on: SUBSET Nat,
     expected_evidence: SUBSET Patterns]

PlanStep ==
    [id: Nat, title: Titles \cup {NoTitle}, status: Statuses,
     tools: SUBSET Tools, depends_on: SUBSET Nat,
     expected_evidence: SUBSET Patterns, evidence: SUBSET Nat, verified: BOOLEAN]

ToolEvent == [success: BOOLEAN, shows: SUBSET Patterns]

\* proved is history: the steps that were in progress when a tool call
\* succeeded, since the plan was last replaced.
RunLedgerData ==
    [status: {"running", "completed", "completed_unverified", "failed", "cancelled"},
     attempts: 0..RetryBudget, routed: Nat, plan: Seq(PlanStep),
     events: Seq(ToolEvent), proved: SUBSET Nat]

TaskList == [tasks: Seq(TaskItem), next_id: Nat, owner: Paths \cup {NoPath}]

\* A call of task_plan names its action, exactly, or leaves it to the tool to infer
\* (named), and carries the entries to create, the entry to add, or the fields to
\* change in a task.  Of a call of another tool, shows are the patterns it shows.
IsPlanCall(call) == "action" \in DOMAIN call

IsChange(change) ==
    /\ "status" \in DOMAIN change => change.status \in Statuses
    /\ "tools" \in DOMAIN change => change.tools \subseteq Tools
    /\ "depends_on" \in DOMAIN change => change.depends_on \subseteq Nat
    /\ "expected_evidence" \in DOMAIN change => change.expected_evidence \subseteq Patterns

WellFormed(call) ==
    /\ IsPlanCall(call)
    /\ call.named \in BOOLEAN
    /\ \/ call.action = "create" /\ call.entries \in Seq(Entry)
       \/ call.action = "add" /\ call.entry \in Entry
       \/ call.action = "update" /\ call.id \in Nat /\ IsChange(call.change)
       \/ call.action = "delete"

ASSUME LedgerAssumption ==
    /\ OwnPaths \subseteq Paths
    /\ NoRun \notin Runs /\ NoPath \notin Paths
    /\ {NoFile, Torn} \cap RunLedgerData = {}
    /\ MaxEvents \in Nat /\ RetryBudget \in Nat \ {0}
    /\ Trim \in [Patterns -> Patterns \cup {Blank}]
    /\ \A p \in Paths : \A call \in PlanCalls[p] : WellFormed(call)
    /\ \A call \in ToolCalls :
          ~IsPlanCall(call) /\ call.success \in BOOLEAN /\ call.shows \subseteq Patterns

VARIABLES
    list,       \* the list of the process's task_plan tool
    file, tmp,  \* the content of each ledger file and of its temporary file
    live,       \* ACTIVE_RUNS, by file
    run,        \* the runs
    calls,      \* how many calls were executed
    crashes,    \* how often the process died
    contested,  \* history: files that two runs had open together
    kept        \* history: the events whose recording was not cut off

vars == <<list, file, tmp, live, run, calls, crashes, contested, kept>>

FreshData ==
    [status |-> "running", attempts |-> 0, routed |-> 0,
     plan |-> <<>>, events |-> <<>>, proved |-> {}]

EmptyList == [tasks |-> <<>>, next_id |-> 1, owner |-> NoPath]

\* A run: where it is, its file, how far its save is and which file it writes
\* to, its data, executed calls that are not recorded yet, the failed attempts so
\* far and the status it will close with.
NotOpened ==
    [at |-> "none", path |-> NoPath, save |-> "none", writes |-> "none",
     data |-> FreshData, outcomes |-> <<>>, attempt |-> 0, verdict |-> "running"]

Open(r) == run[r].at \notin {"none", "closed", "abandoned"}
Autonomous(r) == run[r].path \in OwnPaths
Ready(r, at) == run[r].at = at /\ run[r].save = "none"

\* A run that is over: an abandoned one keeps its data, which stays registered.
Closed == [NotOpened EXCEPT !.at = "closed"]
Abandoned(r) ==
    [NotOpened EXCEPT !.at = "abandoned", !.path = run[r].path, !.data = run[r].data]

-----------------------------------------------------------------------------
(* The verifier *)

\* A bug: failed calls count.
SuccessfulOrNot(step, events) == step.evidence

Successful(step, events) == {n \in step.evidence : events[n].success}

Earned(step, events) ==
    /\ step.status = "completed"
    /\ Successful(step, events) # {}
    /\ \A pattern \in step.expected_evidence :
           \E n \in Successful(step, events) : pattern \in events[n].shows

\* verify_steps: in plan order, so that a step can only rest on earlier ones
VerifySteps(plan, events) ==
    LET ok[n \in DOMAIN plan] ==
            /\ Earned(plan[n], events)
            /\ \A d \in plan[n].depends_on :
                  \E m \in 1..(n - 1) : plan[m].id = d /\ ok[m]
    IN [n \in DOMAIN plan |-> [plan[n] EXCEPT !.verified = ok[n]]]

Verified(data) == [data EXCEPT !.plan = VerifySteps(data.plan, data.events)]

\* unverified_plan_summary: whether a step keeps a run from being complete
Blocks(step) ==
    \/ step.status \in {"pending", "in_progress"}
    \/ step.status = "completed" /\ ~step.verified

Blocked(data) ==
    LET plan == Verified(data).plan
    IN \E n \in DOMAIN plan : Blocks(plan[n])

-----------------------------------------------------------------------------
(* task_plan, and its mirror in the ledger *)

\* usize_list and string_list of task_plan.rs: no zero, no space around a pattern,
\* no pattern of space alone.  Those of run_ledger.rs take all as it is.
Trimmed(patterns) == {Trim[pattern] : pattern \in patterns} \ {Blank}

Task(id, entry) ==
    [id |-> id, title |-> entry.title, status |-> entry.status,
     tools |-> entry.tools, depends_on |-> entry.depends_on \ {0},
     expected_evidence |-> Trimmed(entry.expected_evidence)]

NewStep(id, entry) ==
    [id |-> id, title |-> entry.title, status |-> entry.status,
     tools |-> entry.tools, depends_on |-> entry.depends_on,
     expected_evidence |-> entry.expected_evidence,
     evidence |-> {}, verified |-> FALSE]

\* Of entries, or of steps, those with a title.
Titled(entries) ==
    LET titled[n \in 0..Len(entries)] ==
            IF n = 0 THEN <<>>
            ELSE IF entries[n].title = NoTitle THEN titled[n - 1]
            ELSE Append(titled[n - 1], entries[n])
    IN titled[Len(entries)]

AllTitled(entries) == \A n \in DOMAIN entries : entries[n].title # NoTitle

Numbered(entries) == [n \in DOMAIN entries |-> Task(n, entries[n])]
Steps(entries) == [n \in DOMAIN entries |-> NewStep(n, entries[n])]

Pending(entry) == [entry EXCEPT !.status = "pending"]

Ids(tasks) == {tasks[n].id : n \in DOMAIN tasks}

\* What task_plan takes of a change.
Cleaned(change) ==
    [field \in DOMAIN change |->
        CASE field = "depends_on" -> change.depends_on \ {0}
          [] field = "expected_evidence" -> Trimmed(change.expected_evidence)
          [] OTHER -> change[field]]

Changed(task, change) ==
    [task EXCEPT
        !.status = IF "status" \in DOMAIN change THEN change.status ELSE @,
        !.tools = IF "tools" \in DOMAIN change THEN change.tools ELSE @,
        !.depends_on =
            IF "depends_on" \in DOMAIN change THEN change.depends_on ELSE @,
        !.expected_evidence =
            IF "expected_evidence" \in DOMAIN change
            THEN change.expected_evidence ELSE @]

Updated(tasks, id, change) ==
    [n \in DOMAIN tasks |->
        IF tasks[n].id = id THEN Changed(tasks[n], change) ELSE tasks[n]]

\* handle_create and the others; the action may be inferred from the arguments
Accepts(call) ==
    CASE call.action = "create" -> Titled(call.entries) # <<>>
      [] call.action = "update" ->
             call.id \in Ids(list.tasks) /\ DOMAIN call.change # {}
      [] call.action = "add" -> call.entry.title # NoTitle
      [] call.action = "delete" -> TRUE

Tasks(call) ==
    CASE call.action = "create" -> Numbered(Titled(call.entries))
      [] call.action = "add" ->
             Append(list.tasks, Task(list.next_id, Pending(call.entry)))
      [] call.action = "update" -> Updated(list.tasks, call.id, Cleaned(call.change))
      [] call.action = "delete" -> <<>>

NextId(call) ==
    CASE call.action = "create" -> Len(Tasks(call)) + 1
      [] call.action = "add" -> list.next_id + 1
      [] call.action = "update" -> list.next_id
      [] call.action = "delete" -> 1

\* owner is history: the file whose runs alone have changed the list since
\* they replaced all of it in a way the ledger copies.
Owner(call, path) ==
    IF /\ call.named
       /\ \/ call.action = "delete"
          \/ call.action = "create" /\ AllTitled(call.entries)
          \/ call.action \in {"add", "update"} /\ list.owner = path
    THEN path ELSE NoPath

ChangedList(call, path) ==
    [tasks |-> Tasks(call), next_id |-> NextId(call), owner |-> Owner(call, path)]

NextStepId(plan) == Max({0} \cup Ids(plan)) + 1

\* mirror_task_plan: it numbers the entries before it drops those without a
\* title, and knows the action only by its name
MirroredPlan(plan, call) ==
    CASE ~call.named -> plan
      [] call.named /\ call.action = "create" ->
             Titled(Steps(call.entries))
      [] call.named /\ call.action = "add" ->
             Append(plan, NewStep(NextStepId(plan), Pending(call.entry)))
      [] call.named /\ call.action = "update" ->
             Updated(plan, call.id, call.change)
      [] call.named /\ call.action = "delete" -> <<>>

Mirrored(data, call) ==
    Verified([data EXCEPT
        !.plan = MirroredPlan(@, call),
        !.proved = IF call.named /\ call.action \in {"create", "delete"}
                   THEN {} ELSE @])

\* record_tool_event: the step a call is evidence for, if any
InProgress(plan) == {n \in DOMAIN plan : plan[n].status = "in_progress"}
Permitting(plan, tool) ==
    {n \in InProgress(plan) : plan[n].tools = {} \/ tool \in plan[n].tools}

Served(plan, call) ==
    IF IsPlanCall(call) \/ InProgress(plan) = {} THEN {}
    ELSE IF Permitting(plan, call.tool) = {} THEN {Min(InProgress(plan))}
    ELSE {Min(Permitting(plan, call.tool))}

Event(outcome) ==
    [success |-> outcome.success,
     shows |-> IF IsPlanCall(outcome.call) THEN {} ELSE outcome.call.shows]

WithEvent(data, outcome) ==
    LET seq == Len(data.events) + 1
        served == Served(data.plan, outcome.call)
    IN Verified([data EXCEPT
           !.events = Append(@, Event(outcome)),
           !.plan = [n \in DOMAIN data.plan |->
                        IF n \in served
                        THEN [data.plan[n] EXCEPT !.evidence = @ \cup {seq}]
                        ELSE data.plan[n]],
           !.proved = IF outcome.success /\ ~IsPlanCall(outcome.call)
                      THEN @ \cup {data.plan[n].id : n \in InProgress(data.plan)}
                      ELSE @])

Events(content) == IF content \in {NoFile, Torn} THEN <<>> ELSE content.events

-----------------------------------------------------------------------------
Init ==
    /\ \E left \in Earlier : list = left.list /\ file = left.file
    /\ tmp = [p \in Paths |-> NoFile]
    /\ live = [p \in Paths |-> NoRun]
    /\ run = [r \in Runs |-> NotOpened]
    /\ calls = 0
    /\ crashes = 0
    /\ contested = {}
    /\ kept = [p \in Paths |-> Events(file[p])]

-----------------------------------------------------------------------------
(* Saving: fs::write of the temporary file, which truncates it first, and   *)
(* rename.  Whoever has the file open goes on with it under its new name.   *)

Step(r, next) == run' = [run EXCEPT ![r] = next]

\* Every mutation ends with a save.  The change of the data is local, so that
\* the first system call is part of the mutation's step; only an opening has
\* read the file before it (OpenLedger).
Saves(r, next) ==
    /\ Step(r, [next EXCEPT !.save = "open", !.writes = "tmp"])
    /\ tmp' = [tmp EXCEPT ![run[r].path] = Torn]

Truncate(r) ==
    /\ run[r].save = "due"
    /\ Saves(r, run[r])
    /\ UNCHANGED <<list, file, live, calls, crashes, contested, kept>>

\* Bytes of two writers in one file need not parse.
Written(r) ==
    {run[r].data} \cup
        IF \E q \in Runs \ {r} :
               /\ run[q].path = run[r].path
               /\ run[q].save \in {"open", "written"}
               /\ run[q].writes = run[r].writes
        THEN {Torn} ELSE {}

Fill(r) ==
    LET p == run[r].path
    IN /\ run[r].save = "open"
       /\ \/ /\ run[r].writes = "tmp"
             /\ \E content \in Written(r) : tmp' = [tmp EXCEPT ![p] = content]
             /\ UNCHANGED file
          \/ /\ run[r].writes = "file"
             /\ \E content \in Written(r) : file' = [file EXCEPT ![p] = content]
             /\ UNCHANGED tmp
          \/ run[r].writes = "gone" /\ UNCHANGED <<file, tmp>>
       /\ Step(r, [run[r] EXCEPT !.save = "written"])
       /\ UNCHANGED <<list, live, calls, crashes, contested, kept>>

\* Where the others write once the temporary file has become the ledger.
Moved(writes) ==
    CASE writes = "tmp" -> "file"
      [] writes = "file" -> "gone"
      [] OTHER -> writes

\* A rename that finds no temporary file fails, which is logged.
Rename(r) ==
    LET p == run[r].path
        saved == [run[r] EXCEPT !.save = "none", !.writes = "none"]
    IN /\ run[r].save = "written"
       /\ \/ /\ tmp[p] # NoFile
             /\ file' = [file EXCEPT ![p] = tmp[p]]
             /\ tmp' = [tmp EXCEPT ![p] = NoFile]
             /\ run' = [q \in Runs |->
                   IF q = r THEN saved
                   ELSE IF run[q].path = p
                        THEN [run[q] EXCEPT !.writes = Moved(@)] ELSE run[q]]
          \/ /\ tmp[p] = NoFile
             /\ Step(r, saved)
             /\ UNCHANGED <<file, tmp>>
       /\ UNCHANGED <<list, live, calls, crashes, contested, kept>>

-----------------------------------------------------------------------------
(* Opening *)

\* A bug: a ledger that exists is not read.
OpenedAnew(content) == FreshData

\* A file that does not parse is replaced by fresh data.
Opened(content) ==
    IF content \in {NoFile, Torn} THEN FreshData
    ELSE [content EXCEPT !.status = "running"]

\* The identifier of an autonomous run is new, that of a chat turn its session's.
Openable(p) ==
    p \in OwnPaths =>
        file[p] = NoFile /\ tmp[p] = NoFile /\ \A q \in Runs : run[q].path # p

\* open_or_create, up to its save
OpenLedger(r) ==
    /\ run[r].at = "none"
    /\ Cardinality({q \in Runs : Open(q)}) < MaxOpen
    /\ \E p \in Paths :
          /\ Openable(p)
          /\ Step(r, [run[r] EXCEPT !.at = "opening", !.path = p, !.save = "due",
                                    !.data = Opened(file[p])])
          /\ contested' = contested \cup
                 {run[q].path : q \in {q \in Runs : Open(q) /\ run[q].path = p}}
    /\ UNCHANGED <<list, file, tmp, live, calls, crashes, kept>>

Register(r) ==
    /\ Ready(r, "opening")
    /\ live' = [live EXCEPT ![run[r].path] = r]
    /\ Step(r, [run[r] EXCEPT
                   !.at = IF Autonomous(r) THEN "between" ELSE "routing"])
    /\ UNCHANGED <<list, file, tmp, calls, crashes, contested, kept>>

\* record_tool_routing; of its records the model keeps the number
RecordRouting(r) ==
    /\ Ready(r, "routing")
    /\ Saves(r, [run[r] EXCEPT !.at = "working", !.data.routed = @ + 1])
    /\ UNCHANGED <<list, file, live, calls, crashes, contested, kept>>

-----------------------------------------------------------------------------
(* The tool loop: a batch of calls is executed, then recorded in order *)

Execute(r, outcome) ==
    /\ Ready(r, "working")
    /\ calls < MaxCalls
    /\ calls' = calls + 1
    /\ Step(r, [run[r] EXCEPT !.outcomes = Append(@, outcome)])
    /\ UNCHANGED <<file, tmp, live, crashes, contested, kept>>

ExecuteTool(r) ==
    /\ \E call \in ToolCalls : Execute(r, [call |-> call, success |-> call.success])
    /\ UNCHANGED list

ExecutePlanCall(r) ==
    /\ Ready(r, "working")
    /\ \E call \in PlanCalls[run[r].path] :
        LET accepted == Accepts(call)
        IN /\ Execute(r, [call |-> call, success |-> accepted])
           /\ list' = IF accepted THEN ChangedList(call, run[r].path) ELSE list

\* The batch is over, or being recorded.
Recording(r) ==
    /\ Ready(r, "working") \/ Ready(r, "recording")
    /\ run[r].outcomes # <<>>

\* A bug: refused calls are mirrored as well.
IsMirroredAlways(outcome) == IsPlanCall(outcome.call)

IsMirrored(outcome) == IsPlanCall(outcome.call) /\ outcome.success

\* record_tool_event, first part: the mirror of a task_plan call
RecordPlanCall(r) ==
    /\ Recording(r)
    /\ IsMirrored(Head(run[r].outcomes))
    /\ Saves(r, [run[r] EXCEPT
                    !.at = "mirrored",
                    !.data = Mirrored(@, Head(run[r].outcomes).call)])
    /\ UNCHANGED <<list, file, live, calls, crashes, contested, kept>>

\* record_tool_event, second part; a full ledger takes no more events
RecordEvent(r) ==
    LET outcome == Head(run[r].outcomes)
        next == [run[r] EXCEPT
                   !.outcomes = Tail(@),
                   !.at = IF Len(run[r].outcomes) = 1 THEN "working" ELSE "recording"]
        data == WithEvent(run[r].data, outcome)
    IN /\ \/ Ready(r, "mirrored")
          \/ Recording(r) /\ ~IsMirrored(outcome)
       /\ \/ /\ Len(run[r].data.events) >= MaxEvents
             /\ Step(r, next)
             /\ UNCHANGED <<tmp, kept>>
          \/ /\ Len(run[r].data.events) < MaxEvents
             /\ Saves(r, [next EXCEPT !.data = data])
             /\ kept' = [kept EXCEPT ![run[r].path] = data.events]
       /\ UNCHANGED <<list, file, live, calls, crashes, contested>>

-----------------------------------------------------------------------------
(* The end of a tool loop *)

\* Executed calls that are dropped have changed the list all the same.
Disowned(r) ==
    IF \E n \in DOMAIN run[r].outcomes : IsMirrored(run[r].outcomes[n])
    THEN [list EXCEPT !.owner = NoPath] ELSE list

\* A cancelled batch is not recorded.
LoopCancelled(r) ==
    /\ Ready(r, "working")
    /\ list' = Disowned(r)
    /\ Step(r, IF Autonomous(r) THEN Abandoned(r)
               ELSE [run[r] EXCEPT !.at = "closing", !.outcomes = <<>>,
                                   !.verdict = "cancelled"])
    /\ UNCHANGED <<file, tmp, live, calls, crashes, contested, kept>>

\* An error of the provider; an AutonomousLoop passes it on at once.
LoopFailed(r) ==
    /\ Ready(r, "working")
    /\ run[r].outcomes = <<>>
    /\ Step(r, IF Autonomous(r) THEN Abandoned(r)
               ELSE [run[r] EXCEPT !.at = "closing", !.verdict = "failed"])
    /\ UNCHANGED <<list, file, tmp, live, calls, crashes, contested, kept>>

\* The answer ends a chat turn, whatever its plan looks like.
TurnAnswered(r) ==
    /\ ~Autonomous(r)
    /\ Ready(r, "working")
    /\ run[r].outcomes = <<>>
    /\ Step(r, [run[r] EXCEPT !.at = "closing", !.verdict = "completed"])
    /\ UNCHANGED <<list, file, tmp, live, calls, crashes, contested, kept>>

-----------------------------------------------------------------------------
(* The autonomous loop *)

\* set_attempt before finalize
Conclude(r, attempts, verdict) ==
    /\ Saves(r, [run[r] EXCEPT !.at = "closing", !.verdict = verdict,
                               !.data.attempts = attempts])
    /\ UNCHANGED <<list, file, live, calls, crashes, contested, kept>>

BeginAttempt(r) ==
    /\ Ready(r, "between")
    /\ Step(r, [run[r] EXCEPT !.at = "working"])
    /\ UNCHANGED <<list, file, tmp, live, calls, crashes, contested, kept>>

WallClockCap(r) ==
    /\ Ready(r, "between")
    /\ Conclude(r, run[r].attempt, "failed")

CancelledBetween(r) ==
    /\ Ready(r, "between")
    /\ Step(r, [run[r] EXCEPT !.at = "closing", !.verdict = "cancelled"])
    /\ UNCHANGED <<list, file, tmp, live, calls, crashes, contested, kept>>

Complete(r, prose_complete) == prose_complete /\ ~Blocked(run[r].data)

AttemptAnswered(r, prose_complete) ==
    /\ Autonomous(r)
    /\ Ready(r, "working")
    /\ run[r].outcomes = <<>>
    /\ \/ /\ Complete(r, prose_complete)
          /\ Conclude(r, run[r].attempt + 1, "completed")
       \/ /\ ~Complete(r, prose_complete)
          /\ run[r].attempt + 1 < RetryBudget
          /\ Saves(r, [run[r] EXCEPT !.at = "between", !.attempt = @ + 1,
                                     !.data.attempts = run[r].attempt + 1])
          /\ UNCHANGED <<list, file, live, calls, crashes, contested, kept>>
       \/ /\ ~Complete(r, prose_complete)
          /\ run[r].attempt + 1 = RetryBudget
          /\ Conclude(r, RetryBudget,
                 IF prose_complete THEN "completed_unverified" ELSE "failed")

-----------------------------------------------------------------------------
(* Closing *)

\* finalize, up to its save
Finalize(r) ==
    /\ Ready(r, "closing")
    /\ Saves(r, [run[r] EXCEPT
                    !.at = "finalized",
                    !.data = [Verified(@) EXCEPT !.status = run[r].verdict]])
    /\ UNCHANGED <<list, file, live, calls, crashes, contested, kept>>

Unregister(r) ==
    /\ Ready(r, "finalized")
    /\ live' = [live EXCEPT ![run[r].path] = NoRun]
    /\ Step(r, Closed)
    /\ UNCHANGED <<list, file, tmp, calls, crashes, contested, kept>>

-----------------------------------------------------------------------------
(* Around the runs *)

\* Files stay.  An event whose save was under way may be lost, no other.
Crash ==
    /\ crashes < MaxCrashes
    /\ crashes' = crashes + 1
    /\ list' = EmptyList
    /\ live' = [p \in Paths |-> NoRun]
    /\ run' = [r \in Runs |->
          IF Open(r) THEN Closed ELSE run[r]]
    /\ kept' = [p \in Paths |->
          IF \E r \in Runs : run[r].path = p /\ run[r].save # "none"
          THEN Events(file[p]) ELSE kept[p]]
    /\ UNCHANGED <<file, tmp, calls, contested>>

-----------------------------------------------------------------------------
SaveStep(r) == Truncate(r) \/ Fill(r) \/ Rename(r)

RecordStep(r) == RecordPlanCall(r) \/ RecordEvent(r)

AttemptStep(r) ==
    \/ BeginAttempt(r) \/ WallClockCap(r) \/ CancelledBetween(r)
    \/ \E prose_complete \in BOOLEAN : AttemptAnswered(r, prose_complete)

RunStep(r) ==
    \/ SaveStep(r) \/ OpenLedger(r) \/ Register(r) \/ RecordRouting(r)
    \/ ExecuteTool(r) \/ ExecutePlanCall(r) \/ RecordStep(r)
    \/ LoopCancelled(r) \/ LoopFailed(r) \/ TurnAnswered(r) \/ AttemptStep(r)
    \/ Finalize(r) \/ Unregister(r)

Next == Crash \/ \E r \in Runs : RunStep(r)

Spec == Init /\ [][Next]_vars

-----------------------------------------------------------------------------
(* Type invariant *)

Outcome ==
    [call: ToolCalls \cup UNION {PlanCalls[p] : p \in Paths}, success: BOOLEAN]

RunType ==
    [at: {"none", "opening", "routing", "between", "working", "recording",
          "mirrored", "closing", "finalized", "closed", "abandoned"},
     path: Paths \cup {NoPath}, save: {"none", "due", "open", "written"},
     writes: {"none", "tmp", "file", "gone"}, data: RunLedgerData,
     outcomes: Seq(Outcome), attempt: 0..(RetryBudget - 1),
     verdict: {"running", "completed", "completed_unverified", "failed",
               "cancelled"}]

Content == RunLedgerData \cup {NoFile, Torn}

\* Events end at the limit, evidence is of events, and the numbers of steps grow.
Orderly(data) ==
    /\ Len(data.events) <= MaxEvents
    /\ \A n \in DOMAIN data.plan : data.plan[n].evidence \subseteq DOMAIN data.events
    /\ \A m, n \in DOMAIN data.plan : m < n => data.plan[m].id < data.plan[n].id

\* Every ledger, in memory or in a file, is one and orderly.
TypeOK ==
    /\ list \in TaskList
    /\ file \in [Paths -> Content] /\ tmp \in [Paths -> Content]
    /\ live \in [Paths -> Runs \cup {NoRun}]
    /\ run \in [Runs -> RunType]
    /\ calls \in Nat /\ crashes \in Nat
    /\ contested \subseteq Paths
    /\ kept \in [Paths -> Seq(ToolEvent)]
    /\ \A p \in Paths : /\ file[p] \in RunLedgerData => Orderly(file[p])
                       /\ tmp[p] \in RunLedgerData => Orderly(tmp[p])
    /\ \A r \in Runs : Orderly(run[r].data)

-----------------------------------------------------------------------------
(* Safety *)

\* What is marked verified was earned: the step was in progress when a tool call
\* succeeded, since the plan was made, successful calls show all that it expects,
\* and it rests on earlier steps that are verified too, so never in a circle,
\* whatever an update has changed since.
Honest(data) ==
    \A n \in DOMAIN data.plan :
        LET step == data.plan[n]
        IN step.verified =>
              /\ step.status = "completed"
              /\ step.id \in data.proved
              /\ \A pattern \in step.expected_evidence :
                    \E e \in step.evidence :
                        data.events[e].success /\ pattern \in data.events[e].shows
              /\ \A d \in step.depends_on :
                    \E m \in 1..(n - 1) : data.plan[m].id = d /\ data.plan[m].verified

\* Every step is resolved, and none completed on the model's word alone.
Done(data) ==
    \A n \in DOMAIN data.plan :
        /\ data.plan[n].status \in Resolved
        /\ data.plan[n].status = "completed" => data.plan[n].verified

\* No ledger, in memory or in a file, marks a step verified that was not earned,
\* and an autonomous run is completed only when its plan is done (verify_steps,
\* finalize).
NothingIsDoneUnproved ==
    /\ \A p \in Paths : file[p] \in RunLedgerData => Honest(file[p])
    /\ \A r \in Runs : Honest(run[r].data)
    /\ \A p \in OwnPaths :
          file[p] \in RunLedgerData /\ file[p].status = "completed" => Done(file[p])

\* "Every mutation persists atomically": between two operations the file is
\* what the run has in memory, and whatever opened, crashed and closed before,
\* it holds every event that was recorded; and so does what the inspector shows,
\* the registered data before the file's (load_snapshot), abandoned runs
\* included.  Two openings of one file at a time are the exception: each saves
\* all of its own data, and the first to close ends the other's registration.
Inspected(p) == IF live[p] # NoRun THEN run[live[p]].data ELSE file[p]

FileKeepsTheRecord ==
    \A p \in Paths \ contested :
        (\A r \in Runs : run[r].path = p => run[r].save = "none") =>
            /\ Events(file[p]) = kept[p]
            /\ Events(Inspected(p)) = kept[p]
            /\ \A r \in Runs :
                  run[r].path = p /\ Open(r) => file[p] = run[r].data

\* The list the model sees and updates is the plan the verifier checks, number
\* by number, as the tool reads its steps, from when a run replaced the list until
\* another file's run changes it, unless the ledger could not follow (owner names
\* the causes).  In a step the verifier may also find what the tool has dropped: a
\* dependency on 0, which nothing meets, a pattern of space, or the space around
\* one.  Nothing else sets the two apart.
TasksOf(plan) == [n \in DOMAIN plan |-> Task(plan[n].id, plan[n])]

PlanMirrorsList ==
    \A r \in Runs :
        /\ Ready(r, "working") /\ run[r].outcomes = <<>>
        /\ list.owner = run[r].path /\ run[r].path \notin contested
        => list.tasks = TasksOf(run[r].data.plan)

-----------------------------------------------------------------------------
(* What earlier turns may have left *)

\* The numbers of the list are those of its places.
Counted(tasks, next_id) ==
    /\ next_id = Len(tasks) + 1
    /\ \A n \in DOMAIN tasks : tasks[n].id = n

\* Successful evidence proves the step it is for.
Grounded(data) ==
    \A n \in DOMAIN data.plan :
        Successful(data.plan[n], data.events) # {} => data.plan[n].id \in data.proved

\* The plan that a run would go on with.
PlanIn(content) == IF content \in {NoFile, Torn} THEN <<>> ELSE content.plan

\* They kept to the same code: their ledgers are in order, honest and explain
\* their list; a run that is to come has left nothing.
ASSUME EarlierAssumption ==
    \A left \in Earlier :
        /\ left.list \in TaskList /\ left.file \in [Paths -> Content]
        /\ \A p \in OwnPaths : left.file[p] = NoFile
        /\ \A p \in Paths : left.file[p] \in RunLedgerData =>
              /\ Orderly(left.file[p])
              /\ Grounded(left.file[p]) /\ Honest(left.file[p])
        /\ Counted(left.list.tasks, left.list.next_id)
        /\ \A p \in Paths : left.list.owner = p =>
              left.list.tasks = TasksOf(PlanIn(left.file[p]))

=============================================================================
