--------------------------- MODULE ChannelHistory ----------------------------
(***************************************************************************)
(* What processing a chat message does to the conversation's history       *)
(* (process_channel_message in src/src/channels/mod.rs): the question is   *)
(* appended before the model is called, what the model is shown is read    *)
(* back from the history afterwards, and the turn ends in one of many      *)
(* ways.  Workers come from ChannelDispatch, so turns of one conversation  *)
(* may run in parallel.                                                    *)
(*                                                                         *)
(* A turn of the history is a role and the messages whose question or      *)
(* answer it holds; texts are told apart by their message.                 *)
(***************************************************************************)
EXTENDS ChannelDispatch, SequencesExt

CONSTANTS
    Conversations,  \* history keys: channel, thread and sender
    ConversationOf, \* the conversation of each chat: several may share one
    MaxHistory,     \* MAX_CHANNEL_HISTORY
    KeepTurns       \* CHANNEL_HISTORY_COMPACT_KEEP_MESSAGES

ASSUME HistoryAssumption ==
    /\ ConversationOf \in [Chats -> Conversations]
    /\ {MaxHistory, KeepTurns} \subseteq Nat \ {0}


VARIABLES
    turn,      \* how far process_channel_message is
    history,   \* conversation_histories
    prompt     \* what the model was shown of the history

vars == <<dispatch, turn, history, prompt>>

\* How a turn ends: before its question was recorded, with an answer, with the
\* question taken back, or with the question left open.
Ends == {"returned", "answered", "rolled_back", "open"}

Conversation(m) == ConversationOf[chat[m]]
User(m) == [role |-> "user", of |-> <<m>>]
Assistant(m) == [role |-> "assistant", of |-> <<m>>]

\* append_sender_turn trims from the old end.
Trimmed(turns) ==
    IF Len(turns) > MaxHistory
    THEN SubSeq(turns, Len(turns) - MaxHistory + 1, Len(turns)) ELSE turns

AppendTurn(c, t) == history' = [history EXCEPT ![c] = Trimmed(Append(@, t))]

\* normalize_cached_channel_turns: a turn of the role that is not expected is
\* merged into the last one, and dropped if there is none.
Expected(kept) == IF kept = <<>> \/ Last(kept).role = "assistant" THEN "user" ELSE "assistant"

Extended(kept, t) ==
    IF t.role = Expected(kept) THEN Append(kept, t)
    ELSE IF kept = <<>> THEN kept
    ELSE Front(kept) \o <<[Last(kept) EXCEPT !.of = @ \o t.of]>>

Normalized(turns) ==
    LET kept[n \in 0..Len(turns)] ==
            IF n = 0 THEN <<>> ELSE Extended(kept[n - 1], turns[n])
    IN kept[Len(turns)]

\* compact_sender_history
Compacted(turns) ==
    Normalized(SubSeq(turns, IF Len(turns) > KeepTurns THEN Len(turns) - KeepTurns + 1
                             ELSE 1, Len(turns)))

-----------------------------------------------------------------------------
InTurn(m, stage) == worker[m] = "processing" /\ turn[m] = stage
Step(m, stage) == turn' = [turn EXCEPT ![m] = stage]

\* A hook, a guard, a missing provider or a command that leaves the history
\* alone ends the message before its question is recorded.
EndEarly(m) ==
    /\ InTurn(m, "none")
    /\ Step(m, "returned")
    /\ Return(m)
    /\ UNCHANGED <<history, prompt>>

\* The message is /new or a switch of model or provider:
\* clear_sender_history.
ClearHistory(m) ==
    /\ InTurn(m, "none")
    /\ history' = [history EXCEPT ![Conversation(m)] = <<>>]
    /\ Step(m, "returned")
    /\ Return(m)
    /\ UNCHANGED <<prompt>>

AppendQuestion(m) ==
    /\ InTurn(m, "none")
    /\ AppendTurn(Conversation(m), User(m))
    /\ Step(m, "asked")
    /\ UNCHANGED <<dispatch, prompt>>

\* The history is read back in a lock hold of its own.
ReadPrompt(m) ==
    /\ InTurn(m, "asked")
    /\ prompt' = [prompt EXCEPT ![m] = Normalized(history[Conversation(m)])]
    /\ Step(m, "working")
    /\ UNCHANGED <<dispatch, history>>

EndTurn(m, end) ==
    /\ InTurn(m, "working")
    /\ Step(m, end)
    /\ prompt' = [prompt EXCEPT ![m] = <<>>]
    /\ Return(m)

\* The token wins the select, or the tool loop noticed it.
Cancelled(m) ==
    /\ m \in cancelled
    /\ EndTurn(m, "open")
    /\ UNCHANGED history

\* A hook or the no-op sentinel suppresses the response.
Suppressed(m) == EndTurn(m, "open") /\ UNCHANGED history

\* A response, a pause at the iteration limit, a failure or a timeout: each
\* appends an assistant turn, the last three a fixed text.
Answered(m) ==
    /\ EndTurn(m, "answered")
    /\ AppendTurn(Conversation(m), Assistant(m))

\* The context window overflowed: the history is compacted, the question asked
\* for again.  A history that is gone or compacts to nothing is left empty.
Overflowed(m) ==
    /\ EndTurn(m, "open")
    /\ history' = [history EXCEPT ![Conversation(m)] = Compacted(@)]

\* Bugs: any last question is taken back, and a failure that cannot take its
\* question back leaves it open.
RolledBackAny(m) ==
    LET turns == history[Conversation(m)]
    IN IF turns # <<>> /\ Last(turns).role = "user"
       THEN EndTurn(m, "rolled_back")
            /\ history' = [history EXCEPT ![Conversation(m)] = Front(@)]
       ELSE Answered(m)
RolledBackOnly(m) ==
    /\ EndTurn(m, "rolled_back")
    /\ history' = [history EXCEPT ![Conversation(m)] =
           IF @ # <<>> /\ Last(@) = User(m) THEN Front(@) ELSE @]

\* The model lacks vision: rollback_orphan_user_turn takes the question back if
\* it is still the last turn, else the turn is closed like any failure.
RolledBack(m) ==
    LET turns == history[Conversation(m)]
    IN IF turns # <<>> /\ Last(turns) = User(m)
       THEN EndTurn(m, "rolled_back")
            /\ history' = [history EXCEPT ![Conversation(m)] = Front(@)]
       ELSE Answered(m)

-----------------------------------------------------------------------------
Init ==
    /\ DispatchInit
    /\ turn = [m \in Messages |-> "none"]
    /\ history = [c \in Conversations |-> <<>>]
    /\ prompt = [m \in Messages |-> <<>>]

TurnStep(m) ==
    \/ EndEarly(m)
    \/ ClearHistory(m)
    \/ AppendQuestion(m)
    \/ ReadPrompt(m)
    \/ Cancelled(m)
    \/ Suppressed(m)
    \/ Answered(m)
    \/ Overflowed(m)
    \/ RolledBack(m)

Next ==
    \/ DispatchStep /\ UNCHANGED <<turn, history, prompt>>
    \/ \E m \in Messages : TurnStep(m)

\* The runtime runs the loop and the workers; a turn ends by the timeout on its
\* tool loop at the latest.  Nobody has to send a message.
Fairness ==
    /\ WF_vars(Dispatch /\ UNCHANGED <<turn, history, prompt>>)
    /\ \A m \in Messages :
           /\ WF_vars(WorkerStep(m) /\ UNCHANGED <<turn, history, prompt>>)
           /\ WF_vars(TurnStep(m))

Spec == Init /\ [][Next]_vars /\ Fairness

-----------------------------------------------------------------------------
Turns == [role: {"user", "assistant"}, of: Seq(Messages)]

TypeOK ==
    /\ DispatchTypeOK
    /\ turn \in [Messages -> {"none", "asked", "working"} \cup Ends]
    /\ history \in [Conversations -> Seq(Turns)]
    /\ \A c \in Conversations : Len(history[c]) <= MaxHistory
    /\ prompt \in [Messages -> Seq(Turns)]

\* The turn in which a message's question or answer is, counted from 1.
At(turns, role, m) ==
    {i \in DOMAIN turns : turns[i].role = role /\ m \in Range(turns[i].of)}

\* In an interrupting chat, as long as no other chat of the conversation has
\* begun a turn, the model is asked the message's own question: it is the end
\* of the last turn, although it is appended and read back in two lock holds.
OwnQuestionIsLast ==
    \A m \in Messages :
        /\ InTurn(m, "working")
        /\ Interrupts(m)
        /\ \A k \in Messages :
               Conversation(k) = Conversation(m) /\ chat[k] # chat[m] => turn[k] = "none"
        => LET shown == Last(prompt[m])
           IN shown.role = "user" /\ Last(shown.of) = m

\* A question without an answer in the history belongs to a turn that is still
\* running or was interrupted, suppressed or overflowed: all others close it, so
\* that "subsequent messages don't inherit this failed request as unfinished
\* context", whatever parallel turns do to the history meanwhile.
OpenQuestionsExplained ==
    \A m \in Messages :
        LET turns == history[Conversation(m)]
        IN /\ At(turns, "user", m) # {}
           /\ turn[m] \in Ends \ {"open"}
           => \E i \in At(turns, "user", m), j \in At(turns, "assistant", m) : i < j

\* A question leaves the history by its own rollback, or with everything older
\* than it: one turn's failure never takes the question of another
\* (rollback_orphan_user_turn, append_sender_turn, compact_sender_history).
QuestionsLeaveInOrder ==
    [][\A c \in Conversations, m \in Messages :
          /\ At(history[c], "user", m) # {}
          /\ At(history'[c], "user", m) = {}
          => \/ turn'[m] = "rolled_back"
             \/ \A k \in Messages :
                    (\E i \in At(history[c], "user", k), j \in At(history[c], "user", m) : i < j)
                        => At(history'[c], "user", k) = {}]_vars
=============================================================================
