--------------------------- MODULE ChannelDispatch ---------------------------
(***************************************************************************)
(* How inbound chat messages become workers (src/src/channels/mod.rs):     *)
(* run_message_dispatch_loop takes a permit for each message, and in an    *)
(* interrupting chat a worker registers itself, cancels the worker it      *)
(* replaces and waits for that worker's InFlightTaskCompletion before it   *)
(* processes its own message.                                              *)
(*                                                                         *)
(* The flag and the notification of a completion are two steps of the      *)
(* finishing worker, the look at the flag and the subscription two steps   *)
(* of the waiting one.  What processing a message does is left to the      *)
(* modules that extend this one; here it just returns some time.           *)
(***************************************************************************)
EXTENDS Naturals, Sequences, FiniteSets

CONSTANTS
    Chats,         \* interruption scopes: channel, reply target and sender
    Interrupting,  \* the Telegram chats, if interrupt_on_new_message is set
    Permits,       \* how many permits the semaphore may have
    MaxMessages    \* a bound for TLC on the messages that arrive

ASSUME DispatchAssumption ==
    /\ Chats # {}
    /\ Interrupting \subseteq Chats
    /\ Permits \subseteq Nat \ {0}
    /\ MaxMessages \in Nat

\* Messages are numbered as they arrive.
Messages == 1..MaxMessages
None == 0

VARIABLES
    permits,    \* max_in_flight_messages: set at start by the number of channels
    chat,       \* the chat each message came from
    inbox,      \* messages received from the channels and not yet dispatched
    worker,     \* how far the worker of each message is
    in_flight,  \* in_flight_by_sender: the worker registered for each chat
    previous,   \* the worker each worker found registered
    cancelled,  \* messages whose cancellation token is cancelled
    done,       \* messages whose completion has its flag set
    \* History, read by properties and proofs only:
    earlier     \* the workers of its chat that registered before each worker

dispatch ==
    <<permits, chat, inbox, worker, in_flight, previous, cancelled, done, earlier>>

\* Stages of a worker that waits for the one it replaced.
Waiting == {"cancelling", "checking", "subscribing", "listening"}
\* Stages between the registration and its removal.
Active == Waiting \cup {"ready", "processing", "leaving"}
Stages == {"away", "queued", "spawned", "finishing", "notifying", "ended"} \cup Active

Interrupts(m) == chat[m] \in Interrupting
Registered == {m \in Messages : worker[m] \notin {"away", "queued", "spawned"}}
Busy == {m \in Messages : worker[m] \notin {"away", "queued", "ended"}}
Goto(m, stage) == worker' = [worker EXCEPT ![m] = stage]

-----------------------------------------------------------------------------
\* A channel sends the next message to the dispatch loop.
Arrive(m, c) ==
    /\ worker[m] = "away"
    /\ \A k \in 1..(m - 1) : worker[k] # "away"
    /\ Goto(m, "queued")
    /\ chat' = [chat EXCEPT ![m] = c]
    /\ inbox' = Append(inbox, m)
    /\ UNCHANGED <<in_flight, previous, cancelled, done, earlier, permits>>

\* run_message_dispatch_loop: the oldest message gets the next free permit.
Dispatch ==
    /\ inbox # <<>>
    /\ Cardinality(Busy) < permits
    /\ Goto(Head(inbox), "spawned")
    /\ inbox' = Tail(inbox)
    /\ UNCHANGED <<chat, in_flight, previous, cancelled, done, earlier, permits>>

\* A bug: the entry is read when it is already the worker's own.
RegisterFirst(m) ==
    /\ worker[m] = "spawned"
    /\ IF Interrupts(m)
       THEN LET c == chat[m]
            IN /\ in_flight' = [in_flight EXCEPT ![c] = m]
               /\ previous' = [previous EXCEPT ![m] = m]
               /\ earlier' = [earlier EXCEPT ![m] = {k \in Registered : chat[k] = c}]
               /\ Goto(m, "cancelling")
       ELSE Goto(m, "ready") /\ UNCHANGED <<in_flight, previous, earlier>>
    /\ UNCHANGED <<chat, inbox, cancelled, done, permits>>

\* The worker starts; in an interrupting chat it replaces the entry.
Register(m) ==
    /\ worker[m] = "spawned"
    /\ IF Interrupts(m)
       THEN LET c == chat[m]
            IN /\ in_flight' = [in_flight EXCEPT ![c] = m]
               /\ previous' = [previous EXCEPT ![m] = in_flight[c]]
               /\ earlier' = [earlier EXCEPT ![m] = {k \in Registered : chat[k] = c}]
               /\ Goto(m, IF in_flight[c] = None THEN "ready" ELSE "cancelling")
       ELSE Goto(m, "ready") /\ UNCHANGED <<in_flight, previous, earlier>>
    /\ UNCHANGED <<chat, inbox, cancelled, done, permits>>

CancelPrevious(m) ==
    /\ worker[m] = "cancelling"
    /\ cancelled' = cancelled \cup {previous[m]}
    /\ Goto(m, "checking")
    /\ UNCHANGED <<chat, inbox, in_flight, previous, done, earlier, permits>>

\* A bug: the previous worker is not waited for once it is cancelled.
CheckCancelled(m) ==
    /\ worker[m] = "checking"
    /\ Goto(m, IF previous[m] \in cancelled THEN "ready" ELSE "subscribing")
    /\ UNCHANGED <<chat, inbox, in_flight, previous, cancelled, done, earlier, permits>>

\* InFlightTaskCompletion::wait reads the flag ...
CheckDone(m) ==
    /\ worker[m] = "checking"
    /\ Goto(m, IF previous[m] \in done THEN "ready" ELSE "subscribing")
    /\ UNCHANGED <<chat, inbox, in_flight, previous, cancelled, done, earlier, permits>>

\* ... and, if it was not set, creates the Notified future.
Subscribe(m) ==
    /\ worker[m] = "subscribing"
    /\ Goto(m, "listening")
    /\ UNCHANGED <<chat, inbox, in_flight, previous, cancelled, done, earlier, permits>>

\* process_channel_message begins, or returns at once.
Enter(m) ==
    /\ worker[m] = "ready"
    /\ Goto(m, IF m \in cancelled THEN "leaving" ELSE "processing")
    /\ UNCHANGED <<chat, inbox, in_flight, previous, cancelled, done, earlier, permits>>

\* process_channel_message returns.
Return(m) ==
    /\ worker[m] = "processing"
    /\ Goto(m, "leaving")
    /\ UNCHANGED <<chat, inbox, in_flight, previous, cancelled, done, earlier, permits>>

\* The worker removes its entry unless a newer one has replaced it.
RemoveEntry(m) ==
    /\ worker[m] = "leaving"
    /\ Goto(m, "finishing")
    /\ in_flight' = [c \in Chats |-> IF in_flight[c] = m THEN None ELSE in_flight[c]]
    /\ UNCHANGED <<chat, inbox, previous, cancelled, done, earlier, permits>>

\* mark_done stores the flag ...
MarkDone(m) ==
    /\ worker[m] = "finishing"
    /\ done' = done \cup {m}
    /\ Goto(m, "notifying")
    /\ UNCHANGED <<chat, inbox, in_flight, previous, cancelled, earlier, permits>>

\* ... and wakes who is subscribed by then; the permit is dropped.
Notify(m) ==
    /\ worker[m] = "notifying"
    /\ worker' = [k \in Messages |->
           IF k = m THEN "ended"
           ELSE IF worker[k] = "listening" /\ previous[k] = m THEN "ready"
           ELSE worker[k]]
    /\ UNCHANGED <<chat, inbox, in_flight, previous, cancelled, done, earlier, permits>>

-----------------------------------------------------------------------------
DispatchInit ==
    /\ permits \in Permits
    /\ chat = [m \in Messages |-> CHOOSE c \in Chats : TRUE]   \* until it arrives
    /\ inbox = <<>>
    /\ worker = [m \in Messages |-> "away"]
    /\ in_flight = [c \in Chats |-> None]
    /\ previous = [m \in Messages |-> None]
    /\ cancelled = {}
    /\ done = {}
    /\ earlier = [m \in Messages |-> {}]

\* What the worker of a message does outside process_channel_message.
WorkerStep(m) ==
    \/ Register(m)
    \/ CancelPrevious(m)
    \/ CheckDone(m)
    \/ Subscribe(m)
    \/ Enter(m)
    \/ RemoveEntry(m)
    \/ MarkDone(m)
    \/ Notify(m)

DispatchStep ==
    \/ Dispatch
    \/ \E m \in Messages, c \in Chats : Arrive(m, c)
    \/ \E m \in Messages : WorkerStep(m)

DispatchNext == DispatchStep \/ \E m \in Messages : Return(m)

DispatchSpec == DispatchInit /\ [][DispatchNext]_dispatch

-----------------------------------------------------------------------------
DispatchTypeOK ==
    /\ permits \in Permits
    /\ chat \in [Messages -> Chats]
    /\ inbox \in Seq(Messages)
    /\ worker \in [Messages -> Stages]
    /\ in_flight \in [Chats -> Messages \cup {None}]
    /\ previous \in [Messages -> Messages \cup {None}]
    /\ cancelled \subseteq Messages
    /\ done \subseteq Messages
    /\ earlier \in [Messages -> SUBSET Messages]

\* In an interrupting chat two messages are never processed at once, however
\* their workers interleave: the newer one waits for the completion of the one
\* it replaced, which may itself be waiting (run_message_dispatch_loop).
OneTurnPerChat ==
    \A m, n \in Messages :
        /\ worker[m] = "processing" /\ worker[n] = "processing"
        /\ Interrupts(m) /\ chat[m] = chat[n]
        => m = n

\* The dispatch is what ChatTurns says: the waiting of the workers amounts to one
\* turn at a time in an interrupting chat, a worker's cancellation to that of an
\* earlier message of the same chat.
TurnOf(stage) ==
    CASE stage = "away" -> "away"
      [] stage = "processing" -> "processing"
      [] stage \in {"leaving", "finishing", "notifying", "ended"} -> "ended"
      [] OTHER -> "waiting"
Promised == INSTANCE ChatTurns WITH
    state <- [m \in Messages |-> TurnOf(worker[m])],
    cancelled <- {m \in cancelled : TurnOf(worker[m]) # "ended"}
ImplementsTurns == Promised!TurnsSpec

\* A worker that subscribed after the notification waits for ever: between the
\* look at the flag and the subscription the other one set it and notified.
MissedWakeUp(m) ==
    worker[m] = "listening" /\ worker[previous[m]] = "ended"

\* Every message that reaches the loop is dealt with, unless a worker missed
\* its wake-up: interruption, a full semaphore and superseded workers alone
\* leave nobody waiting (run_message_dispatch_loop, InFlightTaskCompletion).
MessagesEnd ==
    \A m \in Messages :
        worker[m] = "queued" ~>
            worker[m] = "ended" \/ \E k \in Messages : MissedWakeUp(k)
=============================================================================
