--------------------------- MODULE FederationTasks ---------------------------
(***************************************************************************)
(* A federated task on the worker node: its event log, its broadcast       *)
(* channel and its cancellation (FederationTaskManager in                  *)
(* src/src/federation/remote_subagent.rs), the task that fills them and    *)
(* the SSE streams that read them (src/src/gateway/api.rs).                *)
(*                                                                         *)
(* Tasks have separate ids and share only the manager's lock, so one task  *)
(* is modelled.  An event is its type and its number: the n-th event of    *)
(* the task.                                                               *)
(***************************************************************************)
EXTENDS Naturals, Sequences

CONSTANTS
    Readers,        \* GET /stream requests
    HistoryLimit,   \* TASK_EVENT_HISTORY_LIMIT
    Capacity,       \* of the broadcast channel
    MaxEvents       \* a bound for TLC on the status events of the task

ASSUME TasksAssumption ==
    {HistoryLimit, Capacity, MaxEvents} \subseteq Nat \ {0}

VARIABLES
    events,     \* the log kept for late readers
    published,  \* every event so far; the channel keeps the last Capacity
    handle,     \* the running field: "unset", "held" or "taken"
    work,       \* the tokio task
    aborted,    \* whether the task was asked to abort
    readers     \* the SSE streams

task == <<handle, work, aborted>>
vars == <<events, published, task, readers>>

Event == [n: Nat \ {0}, type: {"status", "done", "error"}]

\* federation_event_is_terminal
IsTerminal(event) == event.type \in {"done", "error"}

\* A stream: what is left of the history it replays, the number of the next
\* event its receiver reads, whether a terminal event has passed, what the
\* client got, and whether the receiver ever fell behind the channel.
NoStream ==
    [state |-> "none", history |-> <<>>, next |-> 1, done |-> FALSE,
     got |-> <<>>, lagged |-> FALSE]

-----------------------------------------------------------------------------
Init ==
    /\ events = <<>>
    /\ published = <<>>
    /\ handle = "unset"
    /\ work = "none"
    /\ aborted = FALSE
    /\ readers = [r \in Readers |-> NoStream]

-----------------------------------------------------------------------------
(* The log *)

NewEvent(type) == [n |-> Len(published) + 1, type |-> type]

Trimmed(log) ==
    IF Len(log) > HistoryLimit
    THEN SubSeq(log, Len(log) - HistoryLimit + 1, Len(log)) ELSE log

\* FederationTaskManager::publish
Publish(type) ==
    /\ events' = Trimmed(Append(events, NewEvent(type)))
    /\ published' = Append(published, NewEvent(type))

-----------------------------------------------------------------------------
(* The task *)

\* handle_federation_task_create, up to its tokio::spawn
Create ==
    /\ work = "none"
    /\ work' = "starting"
    /\ UNCHANGED <<events, published, handle, aborted, readers>>

\* The rest of it: set_running_handle, and only then the answer with the id.
\* The task may be over by now; its handle is held all the same.
SetRunningHandle ==
    /\ work # "none"
    /\ handle = "unset"
    /\ handle' = "held"
    /\ UNCHANGED <<events, published, work, aborted, readers>>

\* execute_federation_task reports that it started, and its progress.
Progress ==
    /\ work \in {"starting", "working"}
    /\ Len(published) < MaxEvents
    /\ work' = "working"
    /\ Publish("status")
    /\ UNCHANGED <<handle, aborted, readers>>

\* The tool loop returned, or noticed that it was cancelled.
Conclude(type) ==
    /\ work = "working"
    /\ work' = "ended"
    /\ Publish(type)
    /\ UNCHANGED <<handle, aborted, readers>>

\* An aborted task is dropped at its next await; until then it goes on.
TaskAborts ==
    /\ aborted
    /\ work \in {"starting", "working"}
    /\ work' = "ended"
    /\ UNCHANGED <<events, published, handle, aborted, readers>>

\* FederationTaskManager::cancel: it asks for the handle, not whether the task
\* is over, and leaves the log untrimmed.
Cancel ==
    /\ handle = "held"
    /\ handle' = "taken"
    /\ aborted' = TRUE
    /\ events' = Append(events, NewEvent("error"))
    /\ published' = Append(published, NewEvent("error"))
    /\ UNCHANGED <<work, readers>>

-----------------------------------------------------------------------------
(* Streams *)

\* A bug: the receiver is subscribed before the log is read.
SubscribeFirst(r) ==
    /\ handle # "unset"
    /\ readers[r].state = "none"
    /\ readers' = [readers EXCEPT
          ![r].state = "open", ![r].history = events,
          ![r].next = IF published = <<>> THEN 1 ELSE Len(published)]
    /\ UNCHANGED <<events, published, task>>

\* FederationTaskManager::stream: log and receiver under one lock
Subscribe(r) ==
    /\ handle # "unset"
    /\ readers[r].state = "none"
    /\ readers' = [readers EXCEPT
          ![r].state = "open", ![r].history = events,
          ![r].next = Len(published) + 1]
    /\ UNCHANGED <<events, published, task>>

\* A bug: a terminal event in the log does not end the stream.
ReplayForever(r) ==
    /\ readers[r].state = "open"
    /\ readers[r].history # <<>>
    /\ readers' = [readers EXCEPT
          ![r].got = Append(@, Head(readers[r].history)),
          ![r].history = Tail(@)]
    /\ UNCHANGED <<events, published, task>>

\* The unfold passes on the log first, terminal event or not.
Replay(r) ==
    /\ readers[r].state = "open"
    /\ readers[r].history # <<>>
    /\ readers' = [readers EXCEPT
          ![r].got = Append(@, Head(readers[r].history)),
          ![r].done = @ \/ IsTerminal(Head(readers[r].history)),
          ![r].history = Tail(@)]
    /\ UNCHANGED <<events, published, task>>

\* The oldest event the channel still has for a receiver.
Oldest(next) ==
    IF Len(published) - next >= Capacity
    THEN Len(published) - Capacity + 1 ELSE next

\* A bug: a receiver that lags gives the stream up.
ReceiveUnlessLagged(r) ==
    /\ readers[r].state = "open"
    /\ readers[r].history = <<>> /\ ~readers[r].done
    /\ readers[r].next <= Len(published)
    /\ IF Oldest(readers[r].next) > readers[r].next
       THEN readers' = [readers EXCEPT ![r].state = "ended"]
       ELSE readers' = [readers EXCEPT
                ![r].got = Append(@, published[readers[r].next]),
                ![r].next = @ + 1,
                ![r].done = IsTerminal(published[readers[r].next])]
    /\ UNCHANGED <<events, published, task>>

\* Then it reads the channel; a lagging receiver goes on with the oldest event
\* that is left.
Receive(r) ==
    /\ readers[r].state = "open"
    /\ readers[r].history = <<>> /\ ~readers[r].done
    /\ readers[r].next <= Len(published)
    /\ LET n == Oldest(readers[r].next)
       IN readers' = [readers EXCEPT
              ![r].got = Append(@, published[n]),
              ![r].next = n + 1,
              ![r].done = IsTerminal(published[n]),
              ![r].lagged = @ \/ n > readers[r].next]
    /\ UNCHANGED <<events, published, task>>

EndStream(r) ==
    /\ readers[r].state = "open"
    /\ readers[r].history = <<>> /\ readers[r].done
    /\ readers' = [readers EXCEPT ![r].state = "ended"]
    /\ UNCHANGED <<events, published, task>>

\* The client goes away, for one after its own timeout.
Disconnect(r) ==
    /\ readers[r].state = "open"
    /\ readers' = [readers EXCEPT ![r].state = "gone"]
    /\ UNCHANGED <<events, published, task>>

-----------------------------------------------------------------------------
WorkStep ==
    Progress \/ (\E type \in {"done", "error"} : Conclude(type)) \/ TaskAborts

StreamStep(r) == Replay(r) \/ Receive(r) \/ EndStream(r)

Next ==
    \/ Create \/ SetRunningHandle \/ WorkStep \/ Cancel
    \/ \E r \in Readers : Subscribe(r) \/ StreamStep(r) \/ Disconnect(r)

Spec == Init /\ [][Next]_vars

\* The runtime polls every stream, and drops what was aborted.
Fairness == WF_vars(TaskAborts) /\ \A r \in Readers : WF_vars(StreamStep(r))

LiveSpec == Spec /\ Fairness

-----------------------------------------------------------------------------
(* Type invariant *)

TypeOK ==
    /\ events \in Seq(Event)
    /\ Len(events) <= HistoryLimit + 1   \* publish trims, cancel does not
    /\ published \in Seq(Event)
    /\ handle \in {"unset", "held", "taken"}
    /\ work \in {"none", "starting", "working", "ended"}
    /\ aborted \in BOOLEAN
    /\ readers \in [Readers ->
          [state: {"none", "open", "ended", "gone"}, history: Seq(Event),
           next: Nat \ {0}, done: BOOLEAN, got: Seq(Event), lagged: BOOLEAN]]
    /\ aborted <=> handle = "taken"

-----------------------------------------------------------------------------
(* Safety *)

Consecutive(s) == \A i \in 1..(Len(s) - 1) : s[i + 1].n = s[i].n + 1

\* The switch from the log to the channel neither repeats nor skips an event:
\* what a stream has passed on and has yet to replay is one uninterrupted
\* piece of the task's events, up to where its receiver reads on.  Only a
\* receiver that lags skips some, and never back.
StreamsFollowTheTask ==
    \A r \in Readers :
        LET s    == readers[r]
            seen == s.got \o s.history
        IN /\ \A i \in DOMAIN seen : seen[i] = published[seen[i].n]
           /\ \A i \in 1..(Len(seen) - 1) : seen[i].n < seen[i + 1].n
           /\ seen # <<>> => s.next = seen[Len(seen)].n + 1
           /\ ~s.lagged => Consecutive(seen)

\* A stream that ended by itself has passed on a terminal event: a client that
\* reads to the end never takes a lost tail for an empty answer
\* (consume_remote_task reports success when it saw no error).
EndedStreamsSawTheEnd ==
    \A r \in Readers : readers[r].state = "ended" =>
        \E i \in DOMAIN readers[r].got : IsTerminal(readers[r].got[i])

-----------------------------------------------------------------------------
(* Liveness *)

\* Once the task is over every stream ends, whenever it was opened: replayed
\* and received terminal events both count.
StreamsEnd ==
    \A r \in Readers :
        (readers[r].state = "open" /\ (work = "ended" \/ aborted))
            ~> readers[r].state # "open"

=============================================================================
