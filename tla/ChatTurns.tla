------------------------------ MODULE ChatTurns ------------------------------
(***************************************************************************)
(* What the dispatch of chat messages promises to whoever processes them:  *)
(* messages are processed in parallel, but in an interrupting chat one at  *)
(* a time, and one that waits there may have an earlier one cancelled.     *)
(* ChannelDispatch implements it.                                          *)
(***************************************************************************)
EXTENDS Naturals

CONSTANTS
    Chats,         \* interruption scopes: channel, reply target and sender
    Interrupting,  \* the Telegram chats, if interrupt_on_new_message is set
    MaxMessages    \* a bound for TLC on the messages that arrive

ASSUME ChatAssumption == Chats # {} /\ Interrupting \subseteq Chats /\ MaxMessages \in Nat

\* Messages are numbered as they arrive.
Messages == 1..MaxMessages

VARIABLES
    chat,      \* the chat each message came from
    state,     \* "away", "waiting", "processing" or "ended"
    cancelled  \* unended messages whose cancellation token is cancelled

turns == <<chat, state, cancelled>>

Becomes(m, s) == state' = [state EXCEPT ![m] = s]

Arrive(m, c) ==
    /\ state[m] = "away"
    /\ \A k \in 1..(m - 1) : state[k] # "away"
    /\ chat' = [chat EXCEPT ![m] = c]
    /\ Becomes(m, "waiting")
    /\ UNCHANGED cancelled

Cancel(m, k) ==
    /\ state[m] = "waiting" /\ state[k] \in {"waiting", "processing"}
    /\ chat[m] \in Interrupting /\ chat[k] = chat[m] /\ k # m
    /\ cancelled' = cancelled \cup {k}
    /\ UNCHANGED <<chat, state>>

\* A bug: nobody waits for the turn before.
BeginTogether(m) ==
    /\ state[m] = "waiting" /\ m \notin cancelled
    /\ Becomes(m, "processing")
    /\ UNCHANGED <<chat, cancelled>>

Begin(m) ==
    /\ state[m] = "waiting" /\ m \notin cancelled
    /\ chat[m] \in Interrupting =>
           \A k \in Messages : chat[k] = chat[m] => state[k] # "processing"
    /\ Becomes(m, "processing")
    /\ UNCHANGED <<chat, cancelled>>

Skip(m) ==
    /\ state[m] = "waiting" /\ m \in cancelled
    /\ Becomes(m, "ended")
    /\ cancelled' = cancelled \ {m}
    /\ UNCHANGED chat

End(m) ==
    /\ state[m] = "processing"
    /\ Becomes(m, "ended")
    /\ cancelled' = cancelled \ {m}
    /\ UNCHANGED chat

TurnsInit ==
    /\ chat = [m \in Messages |-> CHOOSE c \in Chats : TRUE]   \* until it arrives
    /\ state = [m \in Messages |-> "away"]
    /\ cancelled = {}

\* What happens to messages that are not being processed.
Coming ==
    \/ \E m \in Messages, c \in Chats : Arrive(m, c)
    \/ \E m, k \in Messages : Cancel(m, k)
    \/ \E m \in Messages : Begin(m) \/ Skip(m)

TurnsNext == Coming \/ \E m \in Messages : End(m)

TurnsSpec == TurnsInit /\ [][TurnsNext]_turns
=============================================================================
