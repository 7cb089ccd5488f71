---------------------------- MODULE DelegatedTask ----------------------------
(***************************************************************************)
(* A delegation from end to end: the calls of a turn (RemoteDelegation)    *)
(* and, for one of them, the task as the worker node keeps it              *)
(* (FederationTasks), joined by what crosses the network: the start        *)
(* request and its answer, the event stream, and cancel requests           *)
(* (execute_delegate and consume_remote_task in                            *)
(* src/src/federation/remote_subagent.rs, the handlers of                  *)
(* /federation/tasks in src/src/gateway/api.rs).                           *)
(*                                                                         *)
(* Of the other calls only the tokens matter, so their tasks stay as       *)
(* RemoteDelegation has them.                                              *)
(***************************************************************************)
EXTENDS FederationTasks, RemoteDelegation

CONSTANTS
    theCall,    \* the call whose task is modelled in full
    own         \* its GET /stream request

ASSUME DelegatedAssumption == theCall \in Calls /\ own \in Readers

VARIABLES
    result,     \* what the call gave the tool loop: "none" (also for an
                \* error), "answer" or "failure"
    conclusion  \* history: what the tool loop on the worker node came to

dtvars == <<vars, rdvars, result, conclusion>>

-----------------------------------------------------------------------------
(* What crosses the network *)

\* The task as its call can know it.
TaskState ==
    IF work = "none" THEN "none"
    ELSE IF aborted THEN "cancelled"
    ELSE IF work = "ended" THEN "ended" ELSE "running"

\* What becomes of the task becomes so for the call.
WorkerFollows == worker' = [worker EXCEPT ![theCall] = TaskState']

\* A bug: the last event alone is the answer.
ResultOfLast(got) ==
    IF got[Len(got)].type = "error" THEN "failure" ELSE "answer"

\* consume_remote_task once its stream is over: a failure anywhere in it takes
\* precedence, and no final event at all is an empty answer.
ResultOf(got) ==
    IF \E n \in DOMAIN got : got[n].type = "error" THEN "failure" ELSE "answer"

-----------------------------------------------------------------------------
DTInit == Init /\ RDInit /\ result = "none" /\ conclusion = "none"

-----------------------------------------------------------------------------
(* The worker node *)

\* handle_federation_task_create gets the start request, perhaps after its
\* sender is gone.
AcceptTask ==
    /\ caller[theCall] \in {"starting", "failed", "dropped"}
    /\ Create
    /\ WorkerFollows
    /\ UNCHANGED <<turn, cancels, asked, mishap, at_stop, result, conclusion>>

TaskWorks ==
    /\ SetRunningHandle \/ Progress \/ TaskAborts
    /\ WorkerFollows
    /\ UNCHANGED <<turn, cancels, asked, mishap, at_stop, result, conclusion>>

TaskConcludes(type) ==
    /\ Conclude(type)
    /\ conclusion' = type
    /\ WorkerFollows
    /\ UNCHANGED <<turn, cancels, asked, mishap, at_stop, result>>

\* handle_federation_task_cancel; without a handle to take it is a 404, whose
\* text says "Unknown or completed".
TakeCancel ==
    /\ theCall \in cancels
    /\ cancels' = cancels \ {theCall}
    /\ IF handle = "held" THEN Cancel ELSE UNCHANGED vars
    /\ WorkerFollows
    /\ UNCHANGED <<turn, asked, mishap, at_stop, result, conclusion>>

\* The stream request was sent when the call began to consume.
OpenStream(r) ==
    /\ r = own => signal[theCall] # "none"
    /\ Subscribe(r)
    /\ UNCHANGED <<rdvars, result, conclusion>>

ServeStream(r) ==
    /\ StreamStep(r) \/ Disconnect(r)
    /\ UNCHANGED <<rdvars, result, conclusion>>

-----------------------------------------------------------------------------
(* The call *)

\* A bug: the task is announced before its handle is set.
AnswerArrivesEarly ==
    StartAnswered(theCall) /\ UNCHANGED <<vars, result, conclusion>>

\* The answer to the start request is given once the handle is set.
AnswerArrives ==
    /\ handle # "unset"
    /\ StartAnswered(theCall)
    /\ UNCHANGED <<vars, result, conclusion>>

\* A bug: a connection that is gone is taken for the end of the stream.
ReturnsWhenCut ==
    /\ caller[theCall] = "consuming"
    /\ readers[own].state \in {"ended", "gone"}
    /\ caller' = [caller EXCEPT ![theCall] = "returned"]
    /\ signal' = [signal EXCEPT ![theCall] = "sent"]
    /\ result' = ResultOf(readers[own].got)
    /\ UNCHANGED <<vars, stopped, forwarder, worker, cancels, asked, mishap,
                   at_stop, conclusion>>

\* The stream has ended: the call makes its result of what it was sent.
Returns ==
    /\ caller[theCall] = "consuming"
    /\ readers[own].state = "ended"
    /\ caller' = [caller EXCEPT ![theCall] = "returned"]
    /\ signal' = [signal EXCEPT ![theCall] = "sent"]
    /\ result' = ResultOf(readers[own].got)
    /\ UNCHANGED <<vars, stopped, forwarder, worker, cancels, asked, mishap,
                   at_stop, conclusion>>

\* Everything else the call, its forwarder and the network do by themselves.
CallGoesOn ==
    /\ \/ DropCall(theCall) \/ StartFails(theCall) \/ StreamBreaks(theCall)
       \/ ObserveStop(theCall) \/ CancelAndReturn(theCall)
    /\ UNCHANGED <<vars, result, conclusion>>

ForwarderStep == Forward(theCall) /\ UNCHANGED <<vars, result, conclusion>>

CancelIsLost == LoseCancel(theCall) /\ UNCHANGED <<vars, result, conclusion>>

-----------------------------------------------------------------------------
(* The turn and its other calls *)

StopTurn == Stop /\ UNCHANGED <<vars, result, conclusion>>

OtherCall(c) ==
    /\ CallStep(c) \/ Forward(c) \/ WorkerStep(c)
    /\ UNCHANGED <<vars, result, conclusion>>

-----------------------------------------------------------------------------
DTNext ==
    \/ AcceptTask \/ TaskWorks \/ TakeCancel
    \/ \E type \in {"done", "error"} : TaskConcludes(type)
    \/ \E r \in Readers : OpenStream(r) \/ ServeStream(r)
    \/ AnswerArrives \/ Returns \/ CallGoesOn \/ ForwarderStep \/ CancelIsLost
    \/ StopTurn
    \/ \E c \in Calls \ {theCall} : OtherCall(c)

DTSpec == DTInit /\ [][DTNext]_dtvars

\* As in RemoteDelegation, with the task's own cancel handler.
DTFairness ==
    /\ WF_dtvars(ForwarderStep) /\ WF_dtvars(TakeCancel \/ CancelIsLost)
    /\ \A c \in Calls \ {theCall} :
          /\ WF_dtvars(Forward(c) /\ UNCHANGED <<vars, result, conclusion>>)
          /\ WF_dtvars((DeliverCancel(c) \/ LoseCancel(c))
                           /\ UNCHANGED <<vars, result, conclusion>>)

DTLiveSpec == DTSpec /\ DTFairness

-----------------------------------------------------------------------------
(* What the two ends promise each other *)

\* The node is to the calls what they take it for, and the calls are to the
\* node what it expects: RemoteDelegation, with the real task for a worker.
ImplementsDelegation == RDSpec

\* An answer is the one the worker came to, and a failure its own or the
\* user's doing: no order of conclusion, cancel, late subscription and lag
\* makes an answer of a task that has none, or a failure of one nobody
\* stopped.
ResultIsTheTasks ==
    /\ result = "answer" => conclusion = "done"
    /\ result = "failure" => conclusion = "error" \/ stopped

\* Nothing works for a call that is over with nobody left to cancel it, but
\* after a fault: a cancel that was delivered has found a handle to abort.
NoWorkIsOrphaned ==
    Settled(theCall) /\ work \in {"starting", "working"} /\ ~aborted
        => theCall \in mishap
=============================================================================
