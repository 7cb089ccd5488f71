-------------------------- MODULE RemoteDelegation --------------------------
(***************************************************************************)
(* Delegating a subtask to a worker node from a chat turn that the user    *)
(* may stop: execute_delegate and its cancellation forwarder               *)
(* (src/src/federation/remote_subagent.rs), and the tool loop that drops   *)
(* a stopped tool call (src/src/agent/loop_/execution.rs).                 *)
(*                                                                         *)
(* A call is one delegation of the turn; calls of a turn run in parallel   *)
(* and share the turn's cancellation token.  Between two awaits a call is  *)
(* atomic.  Dropping a future is the one thing that can happen at any of   *)
(* its awaits, and it takes the sender of the completion signal with it.   *)
(* Definitions every module has carry RD here: the module is extended      *)
(* together with the worker node's.                                        *)
(***************************************************************************)
EXTENDS FiniteSets

CONSTANT Calls

VARIABLES
    stopped,    \* the turn's cancellation token
    caller,     \* where the execute_delegate future of the call is
    signal,     \* the oneshot channel between the call and its forwarder
    forwarder,  \* the task that cancels on behalf of a dropped call
    worker,     \* the task on the worker node
    cancels,    \* calls with a cancel request on its way to the worker node
    \* History, read by properties only:
    asked,      \* calls for which some cancel request was sent
    mishap,     \* calls that met a fault the code can only report or ignore
    at_stop     \* pending calls with a running task when Stop was pressed

turn == <<stopped, caller, signal, forwarder>>
rdvars == <<turn, worker, cancels, asked, mishap, at_stop>>

\* Waiting at an await: for the worker's acceptance, for its event stream, or
\* for the answer to a cancel request.
Pending(c) == caller[c] \in {"starting", "consuming", "cancelling"}

Send(c) == cancels' = cancels \cup {c} /\ asked' = asked \cup {c}

-----------------------------------------------------------------------------
RDInit ==
    /\ stopped = FALSE
    /\ caller = [c \in Calls |-> "starting"]
    /\ signal = [c \in Calls |-> "none"]
    /\ forwarder = [c \in Calls |-> "none"]
    /\ worker = [c \in Calls |-> "none"]
    /\ cancels = {}
    /\ asked = {}
    /\ mishap = {}
    /\ at_stop = {}

-----------------------------------------------------------------------------
(* The turn *)

\* The user presses Stop.
Stop ==
    /\ ~stopped
    /\ stopped' = TRUE
    /\ at_stop' = {c \in Calls : Pending(c) /\ worker[c] = "running"}
    /\ UNCHANGED <<caller, signal, forwarder, worker, cancels, asked, mishap>>

\* execute_one_tool observes the token, or the whole turn goes away: the
\* future is dropped, and with it the sending half of the signal.
DropCall(c) ==
    /\ Pending(c)
    /\ caller' = [caller EXCEPT ![c] = "dropped"]
    /\ signal' = [signal EXCEPT ![c] = IF @ = "open" THEN "dropped" ELSE @]
    /\ mishap' = IF signal[c] = "none" THEN mishap \cup {c} ELSE mishap
    /\ UNCHANGED <<stopped, forwarder, worker, cancels, asked, at_stop>>

-----------------------------------------------------------------------------
(* execute_delegate *)

\* A bug: the call cancels for itself and keeps no forwarder.
StartAnsweredAlone(c) ==
    /\ caller[c] = "starting"
    /\ worker[c] # "none"
    /\ caller' = [caller EXCEPT ![c] = IF stopped THEN "cancelling"
                                       ELSE "consuming"]
    /\ signal' = [signal EXCEPT ![c] = IF stopped THEN @ ELSE "open"]
    /\ UNCHANGED <<stopped, forwarder, worker, cancels, asked, mishap, at_stop>>

\* The acceptance arrives.  If the turn was stopped by then the task is
\* cancelled at once, else the forwarder is spawned and the stream consumed.
StartAnswered(c) ==
    /\ caller[c] = "starting"
    /\ worker[c] # "none"
    /\ IF stopped
       THEN /\ caller' = [caller EXCEPT ![c] = "cancelling"]
            /\ UNCHANGED <<signal, forwarder>>
       ELSE /\ caller' = [caller EXCEPT ![c] = "consuming"]
            /\ signal' = [signal EXCEPT ![c] = "open"]
            /\ forwarder' = [forwarder EXCEPT ![c] = "waiting"]
    /\ UNCHANGED <<stopped, worker, cancels, asked, mishap, at_stop>>

\* The start request is rejected, lost or answered after the client timeout.
StartFails(c) ==
    /\ caller[c] = "starting"
    /\ caller' = [caller EXCEPT ![c] = "failed"]
    /\ mishap' = mishap \cup {c}
    /\ UNCHANGED <<stopped, signal, forwarder, worker, cancels, asked, at_stop>>

\* A bug: the signal is not sent on a normal return, and so dropped.
StreamEndsSilently(c) ==
    /\ caller[c] = "consuming"
    /\ worker[c] \in {"ended", "cancelled"}
    /\ caller' = [caller EXCEPT ![c] = "returned"]
    /\ signal' = [signal EXCEPT ![c] = "dropped"]
    /\ UNCHANGED <<stopped, forwarder, worker, cancels, asked, mishap, at_stop>>

\* consume_remote_task saw the worker's last event.
StreamEnds(c) ==
    /\ caller[c] = "consuming"
    /\ worker[c] \in {"ended", "cancelled"}
    /\ caller' = [caller EXCEPT ![c] = "returned"]
    /\ signal' = [signal EXCEPT ![c] = "sent"]
    /\ UNCHANGED <<stopped, forwarder, worker, cancels, asked, mishap, at_stop>>

\* consume_remote_task fails, by the client timeout that also bounds the
\* stream or by a broken connection: completion is signalled all the same.
StreamBreaks(c) ==
    /\ caller[c] = "consuming"
    /\ caller' = [caller EXCEPT ![c] = "returned"]
    /\ signal' = [signal EXCEPT ![c] = "sent"]
    /\ mishap' = mishap \cup {c}
    /\ UNCHANGED <<stopped, forwarder, worker, cancels, asked, at_stop>>

\* The token's branch of the call's own select.
ObserveStop(c) ==
    /\ caller[c] = "consuming"
    /\ stopped
    /\ caller' = [caller EXCEPT ![c] = "cancelling"]
    /\ UNCHANGED <<stopped, signal, forwarder, worker, cancels, asked, mishap,
                   at_stop>>

\* The call's own cancel_remote_task goes out; it then returns an error, and
\* its half of the signal is dropped unsent.
CancelAndReturn(c) ==
    /\ caller[c] = "cancelling"
    /\ caller' = [caller EXCEPT ![c] = "returned"]
    /\ signal' = [signal EXCEPT ![c] = IF @ = "open" THEN "dropped" ELSE @]
    /\ Send(c)
    /\ UNCHANGED <<stopped, forwarder, worker, mishap, at_stop>>

-----------------------------------------------------------------------------
(* The forwarder *)

\* A bug: the forwarder watches the signal and not the token.
ForwardCancelOnDrop(c) ==
    /\ forwarder[c] = "waiting"
    /\ signal[c] = "dropped"
    /\ forwarder' = [forwarder EXCEPT ![c] = "ended"]
    /\ Send(c)
    /\ UNCHANGED <<stopped, caller, signal, worker, mishap, at_stop>>

\* A select over the token and the signal takes either branch when both are
\* ready: a stop after completion may still be forwarded.
ForwardCancel(c) ==
    /\ forwarder[c] = "waiting"
    /\ stopped \/ signal[c] = "dropped"
    /\ forwarder' = [forwarder EXCEPT ![c] = "ended"]
    /\ Send(c)
    /\ UNCHANGED <<stopped, caller, signal, worker, mishap, at_stop>>

StandDown(c) ==
    /\ forwarder[c] = "waiting"
    /\ signal[c] = "sent"
    /\ forwarder' = [forwarder EXCEPT ![c] = "ended"]
    /\ UNCHANGED <<stopped, caller, signal, worker, cancels, asked, mishap,
                   at_stop>>

-----------------------------------------------------------------------------
(* The worker node and the network *)

\* The start request arrives, perhaps after its sender is gone.
WorkerAccepts(c) ==
    /\ worker[c] = "none"
    /\ caller[c] \in {"starting", "failed", "dropped"}
    /\ worker' = [worker EXCEPT ![c] = "running"]
    /\ UNCHANGED <<turn, cancels, asked, mishap, at_stop>>

WorkerEnds(c) ==
    /\ worker[c] = "running"
    /\ worker' = [worker EXCEPT ![c] = "ended"]
    /\ UNCHANGED <<turn, cancels, asked, mishap, at_stop>>

\* FederationTaskManager::cancel takes the handle of a task that is over, too.
DeliverCancel(c) ==
    /\ c \in cancels
    /\ cancels' = cancels \ {c}
    /\ worker' = [worker EXCEPT ![c] = IF @ = "none" THEN @ ELSE "cancelled"]
    /\ UNCHANGED <<turn, asked, mishap, at_stop>>

\* cancel_remote_task ignores the outcome of its request.
LoseCancel(c) ==
    /\ c \in cancels
    /\ cancels' = cancels \ {c}
    /\ mishap' = mishap \cup {c}
    /\ UNCHANGED <<turn, worker, asked, at_stop>>

-----------------------------------------------------------------------------
CallStep(c) ==
    \/ DropCall(c) \/ StartAnswered(c) \/ StartFails(c) \/ StreamEnds(c)
    \/ StreamBreaks(c) \/ ObserveStop(c) \/ CancelAndReturn(c)

Forward(c) == ForwardCancel(c) \/ StandDown(c)

WorkerStep(c) ==
    WorkerAccepts(c) \/ WorkerEnds(c) \/ DeliverCancel(c) \/ LoseCancel(c)

RDNext == Stop \/ \E c \in Calls : CallStep(c) \/ Forward(c) \/ WorkerStep(c)

RDSpec == RDInit /\ [][RDNext]_rdvars

\* The runtime runs the forwarder's task, and a request in flight arrives or
\* is lost.
RDFairness ==
    \A c \in Calls :
        WF_rdvars(Forward(c)) /\ WF_rdvars(DeliverCancel(c) \/ LoseCancel(c))

RDLiveSpec == RDSpec /\ RDFairness

-----------------------------------------------------------------------------
(* Type invariant *)

RDTypeOK ==
    /\ stopped \in BOOLEAN
    /\ caller \in [Calls -> {"starting", "consuming", "cancelling", "returned",
                             "failed", "dropped"}]
    /\ signal \in [Calls -> {"none", "open", "sent", "dropped"}]
    /\ forwarder \in [Calls -> {"none", "waiting", "ended"}]
    /\ worker \in [Calls -> {"none", "running", "ended", "cancelled"}]
    /\ cancels \subseteq asked
    /\ asked \subseteq Calls
    /\ {mishap, at_stop} \subseteq SUBSET Calls
    /\ \A c \in Calls : signal[c] = "none" <=> forwarder[c] = "none"

-----------------------------------------------------------------------------
(* Safety *)

\* Nothing of this node is left that could still cancel the task of a call.
Settled(c) ==
    /\ caller[c] \in {"returned", "failed", "dropped"}
    /\ forwarder[c] \in {"none", "ended"}
    /\ c \notin cancels

\* A task is left running on the worker node only after a fault: the start or
\* the stream failed, the cancel request was lost, or the call was dropped
\* before its forwarder existed.  No order of stop, drop and completion alone
\* strands a task.
StrandedByFaultOnly ==
    \A c \in Calls : Settled(c) /\ worker[c] = "running" => c \in mishap

\* Nobody cancels the task of a call that was neither stopped nor dropped: a
\* normal return stands the forwarder down (finished_tx.send).
NoStrayCancel ==
    \A c \in asked : stopped \/ caller[c] = "dropped"

-----------------------------------------------------------------------------
(* Liveness *)

\* Once the stream of a call is being consumed a stop reaches the worker node
\* or the call has completed: the forwarder survives the dropped future.
StopIsForwarded ==
    \A c \in Calls :
        (stopped /\ forwarder[c] = "waiting")
            ~> (c \in asked \/ signal[c] = "sent")

-----------------------------------------------------------------------------
(* What the documentation says *)

\* "Accepted federation tasks receive a remote cancel request": so does each
\* task that was running for a pending call when the turn was stopped.
AcceptedTasksAreCancelled ==
    \A c \in at_stop : Settled(c) /\ worker[c] = "running" => c \in asked
=============================================================================
