------------------------- MODULE ChannelHistoryProofs -------------------------
(***************************************************************************)
(* Proofs about ChannelDispatch and ChannelHistory, for every set of       *)
(* chats, any number of messages and permits and any length of history: in *)
(* an interrupting chat one message at a time is processed, the dispatch   *)
(* implements ChatTurns, and the histories of the conversations keep what  *)
(* the turns put there.                                                    *)
(*                                                                         *)
(* The argument for the dispatch is by the order in which the workers of a *)
(* chat registered.  A worker that is past its waiting knows that all      *)
(* workers of its chat registered before it are through: the one it        *)
(* replaced was past its waiting itself when it finished, and whoever else *)
(* is still active had registered before that one.                         *)
(*                                                                         *)
(* The argument for the histories is by places.  Trimming and compacting   *)
(* leave out turns at the beginning of a history and merge neighbours of   *)
(* one role (Shrinks), so a question that stays keeps its place before its *)
(* answer; a rollback takes the last turn only.                            *)
(***************************************************************************)
EXTENDS ChannelHistory, SequenceTheorems, WellFoundedInduction, TLAPS

\* What the dispatch loop has received and not dispatched is queued, once.
InboxInv ==
    /\ inbox \in Seq(Messages)
    /\ \A i \in DOMAIN inbox : worker[inbox[i]] = "queued"
    /\ \A i, j \in DOMAIN inbox : inbox[i] = inbox[j] => i = j

\* The registered workers of an interrupting chat are in a line.
LineInv ==
    /\ \A n \in Messages : \A m \in earlier[n] :
           m \in Registered /\ n \in Registered /\ chat[m] = chat[n] /\ m # n
    /\ \A m, n \in Registered :
           Interrupts(m) /\ chat[m] = chat[n] /\ m # n => m \in earlier[n] \/ n \in earlier[m]

\* The entry of an interrupting chat is its last active worker, and there is one
\* as long as any worker is active.
EntryInv ==
    \A c \in Interrupting :
        /\ in_flight[c] # None =>
               worker[in_flight[c]] \in Active /\ chat[in_flight[c]] = c
        /\ \A m \in Messages :
               worker[m] \in Active /\ chat[m] = c
               => in_flight[c] # None /\ (m = in_flight[c] \/ m \in earlier[in_flight[c]])

\* A waiting worker waits for the last active one registered before it.
WaitInv ==
    \A n \in Messages : worker[n] \in Waiting =>
        /\ Interrupts(n)
        /\ previous[n] \in earlier[n]
        /\ \A m \in earlier[n] :
               worker[m] \in Active => m = previous[n] \/ m \in earlier[previous[n]]

\* Whoever is past the waiting finds nobody active before it.
TurnInv ==
    \A n \in Messages : \A m \in earlier[n] :
        worker[m] \in Active => worker[n] \in Waiting

DoneInv == \A m \in done : m \in Messages /\ worker[m] \in {"notifying", "ended"}

DispatchInv ==
    /\ DispatchTypeOK
    /\ InboxInv
    /\ LineInv
    /\ EntryInv
    /\ WaitInv
    /\ TurnInv
    /\ DoneInv

-----------------------------------------------------------------------------
LEMMA NoneIsNoMessage == None \notin Messages
BY DispatchAssumption DEF None, Messages

LEMMA InitInv == DispatchInit => DispatchInv
<1> SUFFICES ASSUME DispatchInit PROVE DispatchInv
  OBVIOUS
<1>1. DispatchTypeOK
  <2>1. chat \in [Messages -> Chats]
    BY DispatchAssumption DEF DispatchInit
  <2> QED BY <2>1 DEF DispatchInit, DispatchTypeOK, Stages
<1>2. InboxInv
  BY DEF DispatchInit, InboxInv
<1>3. Registered = {} /\ \A m \in Messages : worker[m] \notin Active /\ earlier[m] = {}
  BY DEF DispatchInit, Registered, Active, Waiting
<1>4. LineInv /\ EntryInv /\ WaitInv /\ TurnInv
  BY <1>3, DispatchAssumption DEF DispatchInit, LineInv, EntryInv, WaitInv, TurnInv, Active
<1> QED BY <1>1, <1>2, <1>4 DEF DispatchInit, DispatchInv, DoneInv

-----------------------------------------------------------------------------
(* Moves of one registered worker *)

\* A worker that is active before the move iff it is after it, and that stops
\* waiting only if nobody registered before it is active.
LEMMA MoveKeepsLine ==
    ASSUME DispatchInv, NEW m \in Messages, NEW t \in Stages,
           worker' = [worker EXCEPT ![m] = t],
           UNCHANGED <<chat, in_flight, previous, earlier>>,
           m \in Registered, t \notin {"away", "queued", "spawned"},
           t \in Active <=> worker[m] \in Active,
           t \in Waiting => worker[m] \in Waiting,
           worker[m] \in Waiting /\ t \notin Waiting
               => \A k \in earlier[m] : worker[k] \notin Active
    PROVE  (LineInv /\ EntryInv /\ WaitInv /\ TurnInv)'
<1> USE DEF Interrupts
<1>1. /\ worker \in [Messages -> Stages]
      /\ earlier \in [Messages -> SUBSET Messages]
      /\ previous \in [Messages -> Messages \cup {None}]
      /\ in_flight \in [Chats -> Messages \cup {None}]
      /\ Interrupting \subseteq Chats
  BY DispatchAssumption DEF DispatchInv, DispatchTypeOK
<1>2. \A k \in Messages : worker'[k] = IF k = m THEN t ELSE worker[k]
  BY <1>1
<1>3. Registered' = Registered
  BY <1>2 DEF Registered
<1>4. \A k \in Messages : worker'[k] \in Active <=> worker[k] \in Active
  BY <1>2
<1>5. \A k \in Messages : worker'[k] \in Waiting => worker[k] \in Waiting
  BY <1>2
<1>6. LineInv'
  BY <1>3 DEF DispatchInv, LineInv
<1>7. EntryInv'
  BY <1>1, <1>4 DEF DispatchInv, EntryInv
<1>8. WaitInv'
  BY <1>1, <1>4, <1>5 DEF DispatchInv, WaitInv
<1>9. TurnInv'
  BY <1>1, <1>2, <1>4 DEF DispatchInv, TurnInv
<1> QED BY <1>6, <1>7, <1>8, <1>9

\* Who stops waiting finds the worker it replaced done, and so nobody active.
LEMMA NobodyBefore ==
    ASSUME DispatchInv, NEW n \in Messages, worker[n] \in Waiting,
           previous[n] \in Messages, worker[previous[n]] \in {"notifying", "ended"}
    PROVE  \A k \in earlier[n] : worker[k] \notin Active
<1> DEFINE p == previous[n]
<1>1. worker[p] \notin Active /\ worker[p] \notin Waiting
  BY DEF Active, Waiting
<1>2. \A k \in earlier[p] : worker[k] \notin Active
  BY <1>1 DEF DispatchInv, TurnInv
<1> QED BY <1>1, <1>2 DEF DispatchInv, WaitInv

\* The inbox does not see registered workers move.
LEMMA MoveKeepsInbox ==
    ASSUME DispatchInv, UNCHANGED inbox,
           \A k \in Messages : worker[k] = "queued" => worker'[k] = "queued"
    PROVE  InboxInv'
<1>1. inbox \in Seq(Messages)
  BY DEF DispatchInv, InboxInv
<1>2. \A i \in DOMAIN inbox : inbox[i] \in Messages
  BY <1>1
<1> QED BY <1>2 DEF DispatchInv, InboxInv

-----------------------------------------------------------------------------
LEMMA NextType == DispatchInv /\ DispatchNext => DispatchTypeOK'
<1> SUFFICES ASSUME DispatchTypeOK, WaitInv, DispatchNext PROVE DispatchTypeOK'
  BY DEF DispatchInv
<1> USE DEF DispatchTypeOK, Goto, None
<1> Stages = {"away", "queued", "spawned", "finishing", "notifying", "ended", "cancelling",
              "checking", "subscribing", "listening", "ready", "processing", "leaving"}
  BY DEF Stages, Active, Waiting
<1>1. CASE Dispatch
  <2>1. Head(inbox) \in Messages /\ Tail(inbox) \in Seq(Messages)
    BY <1>1 DEF Dispatch
  <2> QED BY <1>1, <2>1 DEF Dispatch
<1>2. ASSUME NEW m \in Messages, NEW c \in Chats, Arrive(m, c) PROVE DispatchTypeOK'
  BY <1>2 DEF Arrive
<1>3. ASSUME NEW m \in Messages, Register(m) PROVE DispatchTypeOK'
  <2>1. {k \in Registered : chat[k] = chat[m]} \in SUBSET Messages
    BY DEF Registered
  <2>2. chat[m] \in Chats
    OBVIOUS
  <2>3. worker' \in [Messages -> Stages]
    BY <1>3 DEF Register
  <2>4. earlier' \in [Messages -> SUBSET Messages]
    BY <1>3, <2>1 DEF Register
  <2> QED BY <1>3, <2>2, <2>3, <2>4 DEF Register
<1>4. ASSUME NEW m \in Messages, CancelPrevious(m) PROVE DispatchTypeOK'
  <2>1. previous[m] \in Messages
    BY <1>4 DEF CancelPrevious, WaitInv, Waiting
  <2> QED BY <1>4, <2>1 DEF CancelPrevious
<1>5. ASSUME NEW m \in Messages, CheckDone(m) PROVE DispatchTypeOK'
  BY <1>5 DEF CheckDone
<1>6. ASSUME NEW m \in Messages, Subscribe(m) \/ Enter(m) \/ Return(m) PROVE DispatchTypeOK'
  BY <1>6 DEF Subscribe, Enter, Return
<1>7. ASSUME NEW m \in Messages, RemoveEntry(m) PROVE DispatchTypeOK'
  BY <1>7 DEF RemoveEntry
<1>8. ASSUME NEW m \in Messages, MarkDone(m) PROVE DispatchTypeOK'
  BY <1>8 DEF MarkDone
<1>9. ASSUME NEW m \in Messages, Notify(m) PROVE DispatchTypeOK'
  BY <1>9 DEF Notify
<1> QED BY <1>1, <1>2, <1>3, <1>4, <1>5, <1>6, <1>7, <1>8, <1>9
        DEF DispatchNext, DispatchStep, WorkerStep

-----------------------------------------------------------------------------
(* Each step of the dispatch *)

LEMMA ArriveKeeps ==
    ASSUME DispatchInv, NEW m \in Messages, NEW c \in Chats, Arrive(m, c)
    PROVE  (InboxInv /\ LineInv /\ EntryInv /\ WaitInv /\ TurnInv /\ DoneInv)'
<1> USE DEF DispatchInv, DispatchTypeOK, Interrupts
<1>1. /\ worker[m] = "away"
      /\ worker' = [worker EXCEPT ![m] = "queued"]
      /\ chat' = [chat EXCEPT ![m] = c]
      /\ inbox' = Append(inbox, m)
      /\ UNCHANGED <<in_flight, previous, cancelled, done, earlier>>
  BY DEF Arrive, Goto
<1>2. \A k \in Messages \ {m} : worker'[k] = worker[k] /\ chat'[k] = chat[k]
  BY <1>1
<1>3. worker'[m] = "queued"
  BY <1>1
<1>4. Registered' = Registered /\ m \notin Registered
  BY <1>1, <1>2, <1>3 DEF Registered
<1>5. "away" \notin Active /\ "queued" \notin Active
  BY DEF Active, Waiting
<1>6. InboxInv'
  <2>1. inbox' \in Seq(Messages) /\ DOMAIN inbox' = 1..(Len(inbox) + 1)
    BY <1>1 DEF InboxInv
  <2>2. \A i \in DOMAIN inbox : inbox'[i] = inbox[i] /\ inbox[i] \in Messages /\ inbox[i] # m
    BY <1>1 DEF InboxInv
  <2>3. inbox'[Len(inbox) + 1] = m /\ DOMAIN inbox = 1..Len(inbox) /\ Len(inbox) \in Nat
    BY <1>1 DEF InboxInv
  <2>4. \A i \in DOMAIN inbox' : i \in DOMAIN inbox \/ i = Len(inbox) + 1
    BY <2>1, <2>3
  <2>5. \A i \in DOMAIN inbox' : worker'[inbox'[i]] = "queued"
    BY <1>2, <1>3, <2>2, <2>3, <2>4 DEF InboxInv
  <2>6. \A i, j \in DOMAIN inbox' : inbox'[i] = inbox'[j] => i = j
    BY <2>2, <2>3, <2>4 DEF InboxInv
  <2> QED BY <2>1, <2>5, <2>6 DEF InboxInv
<1>7. LineInv'
  <2>1. \A k \in Registered : chat'[k] = chat[k] /\ k \in Messages
    BY <1>2, <1>4 DEF Registered
  <2> QED BY <1>1, <1>4, <2>1 DEF LineInv
<1>8. \A k \in Messages : /\ worker'[k] \in Active <=> worker[k] \in Active
                          /\ worker[k] \in Active => chat'[k] = chat[k] /\ worker'[k] = worker[k]
  BY <1>1, <1>2, <1>3, <1>5
<1>9. EntryInv'
  BY <1>1, <1>8, DispatchAssumption DEF EntryInv
<1>10. WaitInv' /\ TurnInv'
  <2>1. Waiting \subseteq Active
    BY DEF Active
  <2>2. \A k \in Messages : worker'[k] \in Waiting <=> worker[k] \in Waiting
    BY <1>1, <1>2, <1>3, <1>5, <2>1
  <2> QED BY <1>1, <1>8, <2>1, <2>2 DEF WaitInv, TurnInv
<1>11. DoneInv'
  BY <1>1, <1>2 DEF DoneInv
<1> QED BY <1>6, <1>7, <1>9, <1>10, <1>11

LEMMA DispatchKeeps ==
    ASSUME DispatchInv, Dispatch
    PROVE  (InboxInv /\ LineInv /\ EntryInv /\ WaitInv /\ TurnInv /\ DoneInv)'
<1> USE DEF DispatchInv, DispatchTypeOK, Interrupts
<1> DEFINE m == Head(inbox)
<1>1. /\ inbox # <<>> /\ inbox \in Seq(Messages)
      /\ m \in Messages /\ worker[m] = "queued" /\ m = inbox[1]
  BY DEF Dispatch, InboxInv
<1>2. /\ worker' = [worker EXCEPT ![m] = "spawned"]
      /\ inbox' = Tail(inbox)
      /\ UNCHANGED <<chat, in_flight, previous, cancelled, done, earlier>>
  BY DEF Dispatch, Goto
<1> HIDE DEF m
<1>3. \A k \in Messages : worker'[k] = IF k = m THEN "spawned" ELSE worker[k]
  BY <1>1, <1>2
<1>4. Registered' = Registered
  BY <1>1, <1>3 DEF Registered
<1>5. \A k \in Messages : /\ worker'[k] \in Active <=> worker[k] \in Active
                          /\ worker'[k] \in Waiting <=> worker[k] \in Waiting
  BY <1>1, <1>3 DEF Active, Waiting
<1>6. InboxInv'
  <2>1. /\ inbox' \in Seq(Messages) /\ Len(inbox') = Len(inbox) - 1 /\ Len(inbox) \in Nat \ {0}
        /\ \A i \in 1..Len(inbox') : inbox'[i] = inbox[i + 1]
    BY <1>1, <1>2
  <2>2. DOMAIN inbox' = 1..Len(inbox') /\ DOMAIN inbox = 1..Len(inbox) /\ Len(inbox') \in Nat
    BY <1>1, <2>1
  <2>3. \A i \in DOMAIN inbox' : i + 1 \in DOMAIN inbox /\ i + 1 # 1 /\ inbox'[i] \in Messages
    BY <1>1, <2>1, <2>2
  <2>4. \A i \in DOMAIN inbox' : inbox'[i] # m /\ worker[inbox'[i]] = "queued"
    BY <1>1, <2>1, <2>2, <2>3, SMTT(40) DEF InboxInv
  <2>5. \A i, j \in DOMAIN inbox' : inbox'[i] = inbox'[j] => i = j
    BY <2>1, <2>2, <2>3 DEF InboxInv
  <2> QED BY <1>3, <2>1, <2>3, <2>4, <2>5 DEF InboxInv
<1>7. LineInv'
  BY <1>2, <1>4 DEF LineInv
<1>8. EntryInv'
  BY <1>2, <1>5, DispatchAssumption DEF EntryInv
<1>9. WaitInv' /\ TurnInv'
  BY <1>2, <1>5 DEF WaitInv, TurnInv
<1>10. DoneInv'
  BY <1>1, <1>2, <1>3 DEF DoneInv
<1> QED BY <1>6, <1>7, <1>8, <1>9, <1>10

LEMMA RegisterKeeps ==
    ASSUME DispatchInv, NEW m \in Messages, Register(m)
    PROVE  (InboxInv /\ LineInv /\ EntryInv /\ WaitInv /\ TurnInv /\ DoneInv)'
<1> USE DEF DispatchInv, DispatchTypeOK, Interrupts
<1>1. worker[m] = "spawned" /\ UNCHANGED <<chat, inbox, cancelled, done>>
  BY DEF Register
<1>2. PICK t \in {"ready", "cancelling"} : worker' = [worker EXCEPT ![m] = t]
  BY DEF Register, Goto
<1>3. /\ \A k \in Messages : worker'[k] = IF k = m THEN t ELSE worker[k]
      /\ t \in Active /\ worker[m] \notin Active /\ worker[m] \notin Waiting
  BY <1>1, <1>2 DEF Active, Waiting
<1>4. Registered' = Registered \cup {m} /\ m \notin Registered
  BY <1>1, <1>2, <1>3 DEF Registered
<1>5. \A k \in Messages : worker[k] \in Active => k \in Registered
  BY DEF Registered, Active, Waiting
<1>6. \A n \in Messages : m \notin earlier[n]
  BY <1>4 DEF LineInv
<1>7. earlier[m] = {}
  BY <1>4 DEF LineInv
<1>8. InboxInv'
  BY <1>1, <1>3, MoveKeepsInbox
<1>9. DoneInv'
  BY <1>1, <1>3 DEF DoneInv
<1>10. CASE chat[m] \in Interrupting
  <2> DEFINE c == chat[m]
             p == in_flight[c]
  <2>1. /\ in_flight' = [in_flight EXCEPT ![c] = m]
        /\ previous' = [previous EXCEPT ![m] = p]
        /\ earlier' = [earlier EXCEPT ![m] = {k \in Registered : chat[k] = c}]
        /\ t = IF p = None THEN "ready" ELSE "cancelling"
    BY <1>2, <1>10 DEF Register, Goto
  <2>2. c \in Chats /\ c \in Interrupting /\ in_flight'[c] = m
    BY <1>10, <2>1
  <2>3. /\ \A n \in Messages \ {m} : earlier'[n] = earlier[n] /\ previous'[n] = previous[n]
        /\ earlier'[m] = {k \in Registered : chat[k] = c}
        /\ previous'[m] = p
    BY <2>1
  <2>4. LineInv'
    BY <1>1, <1>4, <2>3 DEF LineInv, Registered
  <2>5. EntryInv'
    <3>1. \A k \in Messages : worker'[k] \in Active /\ chat[k] = c => k = m \/ k \in earlier'[m]
      BY <1>3, <1>5, <2>3
    <3>2. m # None
      BY NoneIsNoMessage
    <3>3. \A d \in Interrupting \ {c} : /\ in_flight'[d] = in_flight[d]
                                        /\ in_flight[d] # None => in_flight[d] # m
      BY <1>3, <2>1, DispatchAssumption DEF EntryInv
    <3>4. \A d \in Interrupting \ {c} : in_flight[d] # None => in_flight[d] \in Messages
      BY DispatchAssumption
    <3> DEFINE Holds(d) ==
            /\ in_flight'[d] # None =>
                   worker'[in_flight'[d]] \in Active /\ chat[in_flight'[d]] = d
            /\ \A k \in Messages :
                   worker'[k] \in Active /\ chat[k] = d
                   => in_flight'[d] # None
                      /\ (k = in_flight'[d] \/ k \in earlier'[in_flight'[d]])
    <3>5. Holds(c)
      BY <1>3, <2>2, <3>1, <3>2
    <3>6. ASSUME NEW d \in Interrupting \ {c} PROVE Holds(d)
      <4>1. in_flight'[d] # None => earlier'[in_flight[d]] = earlier[in_flight[d]]
        BY <2>3, <3>3, <3>4
      <4> QED BY <1>3, <3>3, <3>4, <4>1 DEF EntryInv
    <3> QED BY <1>1, <3>5, <3>6 DEF EntryInv
  <2>6. WaitInv'
    <3>1. ASSUME t = "cancelling"
          PROVE  /\ p \in earlier'[m] /\ p # m
                 /\ \A k \in earlier'[m] : worker'[k] \in Active => k = p \/ k \in earlier'[p]
      <4>1. p # None /\ worker[p] \in Active /\ chat[p] = c /\ p \in Messages
        BY <2>1, <2>2, <3>1 DEF EntryInv
      <4>2. p \in Registered /\ p # m
        BY <1>3, <1>5, <4>1
      <4>3. \A k \in earlier'[m] : k # m /\ chat[k] = c /\ k \in Messages
        BY <1>4, <2>3 DEF Registered
      <4> QED BY <1>3, <2>2, <2>3, <4>1, <4>2, <4>3 DEF EntryInv
    <3>2. t \in Waiting => t = "cancelling"
      BY DEF Waiting
    <3>3. ASSUME NEW n \in Messages, n # m, worker'[n] \in Waiting
          PROVE  /\ Interrupts(n)' /\ previous'[n] \in earlier'[n]
                 /\ \A k \in earlier'[n] :
                        worker'[k] \in Active => k = previous'[n] \/ k \in earlier'[previous'[n]]
      <4>1. worker[n] \in Waiting /\ previous'[n] = previous[n] /\ earlier'[n] = earlier[n]
        BY <1>3, <2>3, <3>3
      <4>2. previous[n] \in earlier[n] /\ previous[n] # m /\ previous[n] \in Messages
        BY <1>6, <4>1 DEF WaitInv
      <4>3. earlier'[previous[n]] = earlier[previous[n]]
        BY <2>3, <4>2
      <4> QED BY <1>1, <1>3, <1>6, <4>1, <4>2, <4>3 DEF WaitInv
    <3> QED BY <1>1, <1>3, <2>2, <2>3, <3>1, <3>2, <3>3 DEF WaitInv
  <2>7. TurnInv'
    <3>1. ASSUME NEW k \in earlier'[m], worker'[k] \in Active PROVE t = "cancelling"
      <4>1. k # m /\ worker[k] \in Active /\ chat[k] = c /\ k \in Messages
        BY <1>3, <1>4, <2>3, <3>1 DEF Registered
      <4> QED BY <2>1, <2>2, <4>1 DEF EntryInv
    <3>2. "cancelling" \in Waiting
      BY DEF Waiting
    <3> QED BY <1>3, <1>6, <2>3, <3>1, <3>2 DEF TurnInv
  <2> QED BY <1>8, <1>9, <2>4, <2>5, <2>6, <2>7
<1>11. CASE chat[m] \notin Interrupting
  <2>1. UNCHANGED <<in_flight, previous, earlier>> /\ t = "ready" /\ t \notin Waiting
    BY <1>2, <1>11 DEF Register, Goto, Waiting
  <2>2. LineInv'
    BY <1>1, <1>4, <1>11, <2>1 DEF LineInv, Registered
  <2>3. EntryInv'
    <3>1. ASSUME NEW d \in Interrupting
          PROVE  in_flight[d] # None => in_flight[d] \in Messages /\ in_flight[d] # m
      BY <1>3, DispatchAssumption DEF EntryInv
    <3> QED BY <1>1, <1>3, <1>11, <2>1, <3>1 DEF EntryInv
  <2>4. WaitInv'
    BY <1>1, <1>3, <1>6, <2>1 DEF WaitInv
  <2>5. TurnInv'
    BY <1>3, <1>6, <1>7, <2>1 DEF TurnInv
  <2> QED BY <1>8, <1>9, <2>2, <2>3, <2>4, <2>5
<1> QED BY <1>10, <1>11

LEMMA RemoveEntryKeeps ==
    ASSUME DispatchInv, NEW m \in Messages, RemoveEntry(m)
    PROVE  (InboxInv /\ LineInv /\ EntryInv /\ WaitInv /\ TurnInv /\ DoneInv)'
<1> USE DEF DispatchInv, DispatchTypeOK, Interrupts
<1>1. /\ worker[m] = "leaving" /\ worker' = [worker EXCEPT ![m] = "finishing"]
      /\ in_flight' = [c \in Chats |-> IF in_flight[c] = m THEN None ELSE in_flight[c]]
      /\ UNCHANGED <<chat, inbox, previous, cancelled, done, earlier>>
  BY DEF RemoveEntry, Goto
<1>2. \A k \in Messages : worker'[k] = IF k = m THEN "finishing" ELSE worker[k]
  BY <1>1
<1>3. "finishing" \notin Active /\ "leaving" \notin Waiting /\ "leaving" \in Active /\ "finishing" \notin Waiting
  BY DEF Active, Waiting
<1>4. \A k \in Messages : /\ worker'[k] \in Active <=> worker[k] \in Active /\ k # m
                          /\ worker'[k] \in Waiting <=> worker[k] \in Waiting
  BY <1>1, <1>2, <1>3
<1>5. Registered' = Registered
  BY <1>1, <1>2 DEF Registered
<1>6. \A k \in earlier[m] : worker[k] \notin Active
  BY <1>1, <1>3 DEF TurnInv
<1>7. InboxInv'
  BY <1>1, <1>2, MoveKeepsInbox
<1>8. LineInv'
  BY <1>1, <1>5 DEF LineInv
<1>9. EntryInv'
  <2>1. ASSUME NEW c \in Interrupting
        PROVE  /\ in_flight'[c] # None =>
                      worker'[in_flight'[c]] \in Active /\ chat[in_flight'[c]] = c
               /\ \A k \in Messages :
                      worker'[k] \in Active /\ chat[k] = c
                      => in_flight'[c] # None
                         /\ (k = in_flight'[c] \/ k \in earlier[in_flight'[c]])
    <3>1. c \in Chats /\ in_flight[c] \in Messages \cup {None}
      BY DispatchAssumption
    <3>2. CASE in_flight[c] = m
      BY <1>1, <1>4, <1>6, <3>1, <3>2 DEF EntryInv
    <3>3. CASE in_flight[c] # m
      BY <1>1, <1>4, <3>1, <3>3 DEF EntryInv
    <3> QED BY <3>2, <3>3
  <2> QED BY <1>1, <2>1 DEF EntryInv
<1>10. WaitInv' /\ TurnInv'
  BY <1>1, <1>4 DEF WaitInv, TurnInv
<1>11. DoneInv'
  BY <1>1, <1>2 DEF DoneInv
<1> QED BY <1>7, <1>8, <1>9, <1>10, <1>11

LEMMA NotifyKeeps ==
    ASSUME DispatchInv, NEW m \in Messages, Notify(m)
    PROVE  (InboxInv /\ LineInv /\ EntryInv /\ WaitInv /\ TurnInv /\ DoneInv)'
<1> USE DEF DispatchInv, DispatchTypeOK, Interrupts
<1> DEFINE Woken == {k \in Messages : worker[k] = "listening" /\ previous[k] = m}
<1>1. /\ worker[m] = "notifying"
      /\ UNCHANGED <<chat, inbox, in_flight, previous, cancelled, done, earlier>>
  BY DEF Notify
<1>2. \A k \in Messages : worker'[k] = IF k = m THEN "ended"
                                       ELSE IF k \in Woken THEN "ready" ELSE worker[k]
  BY DEF Notify
<1>3. \A k \in Messages : /\ worker'[k] \in Active <=> worker[k] \in Active
                          /\ worker'[k] \in Waiting <=> worker[k] \in Waiting /\ k \notin Woken
  BY <1>1, <1>2 DEF Active, Waiting
<1>4. Registered' = Registered
  BY <1>1, <1>2 DEF Registered
<1>5. \A n \in Woken : \A k \in earlier[n] : worker[k] \notin Active
  BY <1>1, NobodyBefore DEF Waiting
<1> HIDE DEF Woken
<1>6. InboxInv'
  <2>1. \A k \in Woken : worker[k] = "listening"
    BY DEF Woken
  <2> QED BY <1>1, <1>2, <2>1, MoveKeepsInbox
<1>7. LineInv' /\ EntryInv'
  <2>1. LineInv'
    BY <1>1, <1>4 DEF LineInv
  <2>2. EntryInv'
    BY <1>1, <1>3, DispatchAssumption DEF EntryInv
  <2> QED BY <2>1, <2>2
<1>8. WaitInv' /\ TurnInv'
  BY <1>1, <1>3, <1>5 DEF WaitInv, TurnInv
<1>9. DoneInv'
  <2>1. \A k \in done : k \notin Woken
    BY DEF DoneInv, Woken
  <2> QED BY <1>1, <1>2, <2>1 DEF DoneInv
<1> QED BY <1>6, <1>7, <1>8, <1>9

\* The other steps of a worker change its stage only, and what it is said to
\* have cancelled or done.
LEMMA MoveKeeps ==
    ASSUME DispatchInv, NEW m \in Messages,
           \/ CancelPrevious(m) \/ CheckDone(m) \/ Subscribe(m)
           \/ Enter(m) \/ Return(m) \/ MarkDone(m)
    PROVE  (InboxInv /\ LineInv /\ EntryInv /\ WaitInv /\ TurnInv /\ DoneInv)'
<1> USE DEF DispatchInv, DispatchTypeOK
<1>1. PICK t \in Stages :
          /\ worker' = [worker EXCEPT ![m] = t]
          /\ UNCHANGED <<chat, inbox, in_flight, previous, earlier>>
          /\ m \in Registered /\ t \notin {"away", "queued", "spawned"}
          /\ t \in Active <=> worker[m] \in Active
          /\ t \in Waiting => worker[m] \in Waiting
          /\ worker[m] \in Waiting /\ t \notin Waiting
                 => worker[m] = "checking" /\ previous[m] \in done
          /\ worker[m] \notin {"notifying", "ended"}
          /\ done' = IF t = "notifying" THEN done \cup {m} ELSE done
  <2> USE DEF Goto, Registered, Active, Waiting, Stages
  <2>1. CASE CancelPrevious(m)
    <3> WITNESS "checking" \in Stages
    <3> QED BY <2>1 DEF CancelPrevious
  <2>2. CASE CheckDone(m) /\ previous[m] \in done
    <3> WITNESS "ready" \in Stages
    <3> QED BY <2>2 DEF CheckDone
  <2>3. CASE CheckDone(m) /\ previous[m] \notin done
    <3> WITNESS "subscribing" \in Stages
    <3> QED BY <2>3 DEF CheckDone
  <2>4. CASE Subscribe(m)
    <3> WITNESS "listening" \in Stages
    <3> QED BY <2>4 DEF Subscribe
  <2>5. CASE Enter(m) /\ m \in cancelled
    <3> WITNESS "leaving" \in Stages
    <3> QED BY <2>5 DEF Enter
  <2>6. CASE Enter(m) /\ m \notin cancelled
    <3> WITNESS "processing" \in Stages
    <3> QED BY <2>6 DEF Enter
  <2>7. CASE Return(m)
    <3> WITNESS "leaving" \in Stages
    <3> QED BY <2>7 DEF Return
  <2>8. CASE MarkDone(m)
    <3> WITNESS "notifying" \in Stages
    <3> QED BY <2>8 DEF MarkDone
  <2> QED BY <2>1, <2>2, <2>3, <2>4, <2>5, <2>6, <2>7, <2>8
<1>2. \A k \in Messages : worker'[k] = IF k = m THEN t ELSE worker[k]
  BY <1>1
<1>3. worker[m] \in Waiting /\ t \notin Waiting => \A k \in earlier[m] : worker[k] \notin Active
  <2>1. \A k \in done : k \in Messages /\ worker[k] \in {"notifying", "ended"}
    BY DEF DoneInv
  <2> QED BY <1>1, <2>1, NobodyBefore
<1>4. (LineInv /\ EntryInv /\ WaitInv /\ TurnInv)'
  BY <1>1, <1>3, MoveKeepsLine
<1>5. InboxInv'
  BY <1>1, <1>2, MoveKeepsInbox DEF Registered
<1>6. DoneInv'
  BY <1>1, <1>2 DEF DoneInv
<1> QED BY <1>4, <1>5, <1>6

LEMMA NextInv == DispatchInv /\ [DispatchNext]_dispatch => DispatchInv'
<1> SUFFICES ASSUME DispatchInv, [DispatchNext]_dispatch PROVE DispatchInv'
  OBVIOUS
<1>1. CASE DispatchNext
  <2>1. DispatchTypeOK'
    BY <1>1, NextType
  <2>2. (InboxInv /\ LineInv /\ EntryInv /\ WaitInv /\ TurnInv /\ DoneInv)'
    BY <1>1, ArriveKeeps, DispatchKeeps, RegisterKeeps, RemoveEntryKeeps, NotifyKeeps, MoveKeeps
       DEF DispatchNext, DispatchStep, WorkerStep
  <2> QED BY <2>1, <2>2 DEF DispatchInv
<1>2. CASE UNCHANGED dispatch
  BY <1>2 DEF dispatch, DispatchInv, DispatchTypeOK, InboxInv, LineInv, EntryInv, WaitInv,
              TurnInv, DoneInv, Registered, Interrupts
<1> QED BY <1>1, <1>2

-----------------------------------------------------------------------------
(* What the invariant says about the processing of messages *)

\* Of two active workers of an interrupting chat one still waits.
LEMMA OneWaits ==
    ASSUME DispatchInv, NEW m \in Messages, NEW n \in Messages,
           Interrupts(m), chat[m] = chat[n], m # n,
           worker[m] \in Active, worker[n] \in Active
    PROVE  worker[m] \in Waiting \/ worker[n] \in Waiting
<1>1. m \in Registered /\ n \in Registered
  BY DEF Registered, Active, Waiting
<1>2. m \in earlier[n] \/ n \in earlier[m]
  BY <1>1 DEF DispatchInv, LineInv
<1> QED BY <1>2 DEF DispatchInv, TurnInv

LEMMA InvOneTurn == DispatchInv => OneTurnPerChat
BY OneWaits DEF OneTurnPerChat, Active, Waiting

\* For every number of messages and permits, two messages of an interrupting
\* chat are never processed at once: interruption serialises the turns of a
\* chat whatever the order in which workers register, finish and notify
\* (run_message_dispatch_loop).
THEOREM OneTurnAtATime == DispatchSpec => []OneTurnPerChat
<1>1. DispatchInit => DispatchInv
  BY InitInv
<1>2. DispatchInv /\ [DispatchNext]_dispatch => DispatchInv'
  BY NextInv
<1>3. DispatchInv => OneTurnPerChat
  BY InvOneTurn
<1> QED BY <1>1, <1>2, <1>3, PTL DEF DispatchSpec

-----------------------------------------------------------------------------
(* ChatTurns *)

state == [m \in Messages |-> TurnOf(worker[m])]
unended == {m \in cancelled : TurnOf(worker[m]) # "ended"}

LEMMA PromisedMessages == Promised!Messages = Messages
BY DEF Promised!Messages, Messages

LEMMA InitTurns == DispatchInit => Promised!TurnsInit
BY PromisedMessages DEF DispatchInit, Promised!TurnsInit, TurnOf

\* A step that moves each worker within waiting or within ended is none of
\* ChatTurns.
LEMMA TurnsStutter ==
    ASSUME UNCHANGED <<chat, cancelled>>, DispatchTypeOK,
           \A m \in Messages : TurnOf(worker'[m]) = TurnOf(worker[m])
    PROVE  UNCHANGED Promised!turns
BY DEF Promised!turns, DispatchTypeOK

LEMMA NextTurns == DispatchInv /\ [DispatchNext]_dispatch => [Promised!TurnsNext]_(Promised!turns)
<1> SUFFICES ASSUME DispatchInv, [DispatchNext]_dispatch
             PROVE  Promised!TurnsNext \/ UNCHANGED Promised!turns
  OBVIOUS
<1> USE PromisedMessages
<1>1. DispatchTypeOK
  BY DEF DispatchInv
<1>2. ASSUME NEW m \in Messages, NEW c \in Chats, Arrive(m, c) PROVE Promised!Arrive(m, c)
  <2>1. \A k \in Messages : worker'[k] = IF k = m THEN "queued" ELSE worker[k]
    BY <1>1, <1>2 DEF Arrive, Goto, DispatchTypeOK
  <2>2. state' = [state EXCEPT ![m] = "waiting"]
    BY <2>1 DEF TurnOf, state
  <2>3. unended' = unended
    BY <1>1, <1>2, <2>1 DEF TurnOf, Arrive, unended, DispatchTypeOK
  <2>4. state[m] = "away" /\ \A k \in 1..(m - 1) : state[k] # "away"
    <3>1. \A k \in 1..(m - 1) : k \in Messages
      BY DispatchAssumption DEF Messages
    <3>2. \A k \in 1..(m - 1) : worker[k] # "away"
      BY <1>2 DEF Arrive
    <3>3. \A k \in Messages : worker[k] # "away" => TurnOf(worker[k]) # "away"
      BY DEF TurnOf
    <3>4. TurnOf(worker[m]) = "away"
      BY <1>2 DEF TurnOf, Arrive
    <3> QED BY <3>1, <3>2, <3>3, <3>4 DEF state
  <2> QED BY <1>2, <2>2, <2>3, <2>4
          DEF Arrive, state, unended, Promised!Arrive, Promised!Becomes
<1>3. CASE Dispatch
  <2>1. Head(inbox) \in Messages /\ worker[Head(inbox)] = "queued"
    BY <1>3 DEF DispatchInv, InboxInv, Dispatch
  <2>2. \A k \in Messages : worker'[k] = IF k = Head(inbox) THEN "spawned" ELSE worker[k]
    BY <1>1, <1>3, <2>1 DEF Dispatch, Goto, DispatchTypeOK
  <2> QED BY <1>1, <1>3, <2>1, <2>2, TurnsStutter DEF TurnOf, Dispatch
<1>4. ASSUME NEW m \in Messages, Register(m) PROVE UNCHANGED Promised!turns
  <2>1. worker[m] = "spawned" /\ UNCHANGED <<chat, cancelled>>
    BY <1>4 DEF Register
  <2>2. \A k \in Messages : \/ worker'[k] = worker[k]
                            \/ k = m /\ worker'[k] \in {"ready", "cancelling"}
    BY <1>1, <1>4 DEF Register, Goto, DispatchTypeOK
  <2> QED BY <1>1, <2>1, <2>2, TurnsStutter DEF TurnOf
<1>5. ASSUME NEW m \in Messages, CancelPrevious(m)
      PROVE  Promised!TurnsNext \/ UNCHANGED Promised!turns
  <2> DEFINE p == previous[m]
  <2>1. p \in earlier[m] /\ Interrupts(m)
    BY <1>5 DEF DispatchInv, WaitInv, CancelPrevious, Waiting
  <2>2. p \in Messages /\ p # m /\ chat[p] = chat[m] /\ worker[p] \notin {"away", "queued", "spawned"}
    <3>1. p \in Messages /\ p \in Registered /\ m \in Registered /\ chat[p] = chat[m]
      BY <1>1, <2>1 DEF DispatchInv, LineInv, DispatchTypeOK
    <3>2. m \notin earlier[m]
      BY DEF DispatchInv, LineInv
    <3> QED BY <2>1, <3>1, <3>2 DEF Registered
  <2>3. \A k \in Messages : worker'[k] = IF k = m THEN "checking" ELSE worker[k]
    BY <1>1, <1>5 DEF CancelPrevious, Goto, DispatchTypeOK
  <2>4. \A k \in Messages : TurnOf(worker'[k]) = TurnOf(worker[k])
    BY <1>5, <2>3 DEF TurnOf, CancelPrevious
  <2>5. state' = state /\ chat' = chat /\ cancelled' = cancelled \cup {p}
    BY <1>5, <2>4 DEF state, CancelPrevious
  <2>6. CASE TurnOf(worker[p]) = "ended"
    <3>1. unended' = unended
      BY <1>1, <2>2, <2>4, <2>5, <2>6 DEF unended, DispatchTypeOK
    <3> QED BY <2>5, <3>1 DEF state, unended, Promised!turns
  <2>7. CASE TurnOf(worker[p]) # "ended"
    <3>1. unended' = unended \cup {p}
      BY <1>1, <2>2, <2>4, <2>5, <2>7 DEF unended, DispatchTypeOK
    <3>2. state[m] = "waiting" /\ state[p] \in {"waiting", "processing"}
      BY <1>5, <2>2, <2>7 DEF state, TurnOf, CancelPrevious
    <3>3. Promised!Cancel(m, p)
      BY <2>1, <2>2, <2>5, <3>1, <3>2 DEF state, unended, Interrupts, Promised!Cancel
    <3> QED BY <2>2, <3>3 DEF Promised!TurnsNext, Promised!Coming
  <2> QED BY <2>6, <2>7
<1>6. ASSUME NEW m \in Messages, CheckDone(m) \/ Subscribe(m) PROVE UNCHANGED Promised!turns
  <2>1. /\ worker[m] \in {"checking", "subscribing"}
        /\ UNCHANGED <<chat, cancelled>>
        /\ \A k \in Messages : \/ worker'[k] = worker[k]
                               \/ k = m /\ worker'[k] \in {"ready", "subscribing", "listening"}
    BY <1>1, <1>6 DEF CheckDone, Subscribe, Goto, DispatchTypeOK
  <2> QED BY <1>1, <2>1, TurnsStutter DEF TurnOf
<1>7. ASSUME NEW m \in Messages, Enter(m) PROVE Promised!Begin(m) \/ Promised!Skip(m)
  <2>1. worker[m] = "ready" /\ state[m] = "waiting" /\ UNCHANGED <<chat, cancelled>>
    BY <1>7 DEF Enter, state, TurnOf
  <2>2. CASE m \in cancelled
    <3>1. \A k \in Messages : worker'[k] = IF k = m THEN "leaving" ELSE worker[k]
      BY <1>1, <1>7, <2>2 DEF Enter, Goto, DispatchTypeOK
    <3>2. state' = [state EXCEPT ![m] = "ended"]
      BY <3>1 DEF state, TurnOf
    <3>3. unended' = unended \ {m} /\ m \in unended
      BY <1>1, <2>1, <2>2, <3>1 DEF unended, TurnOf, DispatchTypeOK
    <3> QED BY <2>1, <3>2, <3>3 DEF state, unended, Promised!Skip, Promised!Becomes
  <2>3. CASE m \notin cancelled
    <3>1. \A k \in Messages : worker'[k] = IF k = m THEN "processing" ELSE worker[k]
      BY <1>1, <1>7, <2>3 DEF Enter, Goto, DispatchTypeOK
    <3>2. state' = [state EXCEPT ![m] = "processing"]
      BY <3>1 DEF state, TurnOf
    <3>3. unended' = unended /\ m \notin unended
      BY <1>1, <2>1, <2>3, <3>1 DEF unended, TurnOf, DispatchTypeOK
    <3>4. ASSUME chat[m] \in Interrupting, NEW k \in Messages, chat[k] = chat[m],
                 state[k] = "processing"
          PROVE  FALSE
      <4>1. worker[k] = "processing"
        BY <3>4 DEF state, TurnOf
      <4> QED BY <2>1, <3>4, <4>1, OneWaits DEF Interrupts, Active, Waiting
    <3> QED BY <2>1, <3>2, <3>3, <3>4 DEF state, unended, Promised!Begin, Promised!Becomes
  <2> QED BY <2>2, <2>3
<1>8. ASSUME NEW m \in Messages, Return(m) PROVE Promised!End(m)
  <2>1. worker[m] = "processing" /\ state[m] = "processing" /\ UNCHANGED <<chat, cancelled>>
    BY <1>8 DEF Return, state, TurnOf
  <2>2. \A k \in Messages : worker'[k] = IF k = m THEN "leaving" ELSE worker[k]
    BY <1>1, <1>8 DEF Return, Goto, DispatchTypeOK
  <2>3. state' = [state EXCEPT ![m] = "ended"]
    BY <2>2 DEF state, TurnOf
  <2>4. unended' = unended \ {m}
    BY <1>1, <2>1, <2>2 DEF unended, TurnOf, DispatchTypeOK
  <2> QED BY <2>1, <2>3, <2>4 DEF state, unended, Promised!End, Promised!Becomes
<1>9. ASSUME NEW m \in Messages, RemoveEntry(m) \/ MarkDone(m) PROVE UNCHANGED Promised!turns
  <2>1. /\ worker[m] \in {"leaving", "finishing"}
        /\ UNCHANGED <<chat, cancelled>>
        /\ \A k \in Messages : \/ worker'[k] = worker[k]
                               \/ k = m /\ worker'[k] \in {"finishing", "notifying"}
    BY <1>1, <1>9 DEF RemoveEntry, MarkDone, Goto, DispatchTypeOK
  <2> QED BY <1>1, <2>1, TurnsStutter DEF TurnOf
<1>10. ASSUME NEW m \in Messages, Notify(m) PROVE UNCHANGED Promised!turns
  <2>1. /\ worker[m] = "notifying"
        /\ UNCHANGED <<chat, cancelled>>
        /\ \A k \in Messages : \/ worker'[k] = worker[k]
                               \/ k = m /\ worker'[k] = "ended"
                               \/ worker[k] = "listening" /\ worker'[k] = "ready"
    BY <1>10 DEF Notify
  <2> QED BY <1>1, <2>1, TurnsStutter DEF TurnOf
<1>11. CASE UNCHANGED dispatch
  BY <1>11 DEF dispatch, Promised!turns
<1> QED
  BY <1>2, <1>3, <1>4, <1>5, <1>6, <1>7, <1>8, <1>9, <1>10, <1>11
  DEF DispatchNext, DispatchStep, WorkerStep, Promised!TurnsNext, Promised!Coming

\* The dispatch implements ChatTurns for every number of messages and permits:
\* a turn begins only when no other is processed in its interrupting chat, and
\* who is cancelled is an earlier message of the same chat
\* (run_message_dispatch_loop, InFlightTaskCompletion).
THEOREM TurnsImplemented == DispatchSpec => ImplementsTurns
<1>1. DispatchInit => DispatchInv
  BY InitInv
<1>2. DispatchInv /\ [DispatchNext]_dispatch => DispatchInv'
  BY NextInv
<1>3. DispatchInit => Promised!TurnsInit
  BY InitTurns
<1>4. DispatchInv /\ [DispatchNext]_dispatch => [Promised!TurnsNext]_(Promised!turns)
  BY NextTurns
<1> QED BY <1>1, <1>2, <1>3, <1>4, PTL DEF DispatchSpec, ImplementsTurns, Promised!TurnsSpec

-----------------------------------------------------------------------------
(* Trimming and normalising *)

\* Induction up to a position, over a set.
LEMMA PositionInduction ==
    ASSUME NEW n \in Nat, NEW S, 0 \in S,
           \A i \in Nat : i \in S /\ i < n => i + 1 \in S
    PROVE  n \in S
<1> DEFINE T == {i \in Nat : i <= n /\ i \notin S}
           R == OpToRel(<, Nat)
<1> SUFFICES ASSUME n \notin S PROVE FALSE
  OBVIOUS
<1>1. T # {} /\ T \subseteq Nat
  OBVIOUS
<1>2. IsWellFoundedOn(R, Nat)
  BY NatLessThanWellFounded
<1>3. \A x, y \in Nat : x < y => <<x, y>> \in R
  BY DEF OpToRel
<1> HIDE DEF R
<1>4. PICK x \in T : \A y \in T : ~(<<y, x>> \in R)
  <2> HIDE DEF T
  <2> QED BY <1>1, <1>2, WFMin
<1>5. x \in Nat /\ x # 0 /\ x <= n /\ x \notin S
  OBVIOUS
<1>6. x - 1 \in Nat /\ x - 1 < x /\ (x - 1) + 1 = x /\ x - 1 < n
  BY <1>5
<1>7. x - 1 \in T
  BY <1>5, <1>6
<1> QED BY <1>3, <1>4, <1>5, <1>6, <1>7

\* The recursive function of Normalized exists and has its defining equations.
LEMMA NormalizedIterates ==
    ASSUME NEW s \in Seq(Turns)
    PROVE  \E kept :
              /\ kept[0] = <<>>
              /\ \A i \in 1..Len(s) : kept[i] = Extended(kept[i - 1], s[i])
              /\ Normalized(s) = kept[Len(s)]
<1> PICK n : n = Len(s)
  OBVIOUS
<1>0. n \in Nat
  OBVIOUS
<1> DEFINE Body(f, m) == [i \in 0..m |-> IF i = 0 THEN <<>> ELSE Extended(f[i - 1], s[i])]
           Exists(m) == \E f : f = Body(f, m)
           S == {m \in Nat : Exists(m)}
<1>1. 0 \in S
  <2> DEFINE f == [i \in 0..0 |-> <<>>]
  <2>1. f = Body(f, 0)
    OBVIOUS
  <2> QED BY <2>1
<1>2. ASSUME NEW m \in Nat, m \in S, m < n PROVE m + 1 \in S
  <2>1. PICK f : f = Body(f, m)
    BY <1>2
  <2> DEFINE h == [i \in 0..(m + 1) |-> IF i = m + 1 THEN Extended(f[m], s[m + 1]) ELSE f[i]]
  <2>2. ASSUME NEW i \in 0..(m + 1) PROVE h[i] = Body(h, m + 1)[i]
    <3>1. CASE i = m + 1
      <4>1. h[i] = Extended(f[m], s[m + 1]) /\ h[m] = f[m] /\ i # 0 /\ i - 1 = m
        BY <3>1
      <4>2. Body(h, m + 1)[i] = Extended(h[i - 1], s[i])
        BY <4>1
      <4> QED BY <3>1, <4>1, <4>2
    <3>2. CASE i = 0
      BY <2>1, <3>2
    <3>3. CASE i # 0 /\ i # m + 1
      <4>1. i \in 0..m /\ i - 1 \in 0..m /\ i - 1 # m + 1
        BY <3>3
      <4>2. f[i] = Extended(f[i - 1], s[i])
        BY <2>1, <3>3, <4>1
      <4>3. h[i] = f[i] /\ h[i - 1] = f[i - 1]
        BY <4>1, <3>3
      <4>4. Body(h, m + 1)[i] = Extended(h[i - 1], s[i])
        BY <3>3
      <4> QED BY <4>2, <4>3, <4>4
    <3> QED BY <3>1, <3>2, <3>3
  <2>3. h = Body(h, m + 1)
    <3> DEFINE b == Body(h, m + 1)
    <3>1. b = [i \in 0..(m + 1) |-> b[i]]
      OBVIOUS
    <3> HIDE DEF b
    <3>2. h = [i \in 0..(m + 1) |-> h[i]]
      OBVIOUS
    <3> HIDE DEF h
    <3> QED BY <2>2, <3>1, <3>2 DEF b
  <2> HIDE DEF h
  <2> QED BY <2>3
<1> HIDE DEF S
<1>3. Exists(n)
  <2>1. n \in S
    BY <1>0, <1>1, <1>2, PositionInduction
  <2> QED BY <2>1 DEF S
<1> HIDE DEF Body
<1> DEFINE kept == CHOOSE f : f = Body(f, n)
<1>4. kept = Body(kept, n)
  BY <1>3
<1>5. Normalized(s) = kept[n]
  BY DEF Normalized, Body
<1> HIDE DEF kept
<1>6. /\ kept[0] = <<>>
      /\ \A i \in 1..n : kept[i] = Extended(kept[i - 1], s[i])
  BY <1>0, <1>4 DEF Body
<1> QED BY <1>5, <1>6

\* What the first n turns of s became in t: place gives the new place of each,
\* 0 if it is gone.  Turns keep their order and their roles, and a turn that is
\* still there keeps its messages.
Places(s, n, t, place) ==
    /\ place \in [1..n -> 0..Len(t)]
    /\ \A p \in 1..n :
           place[p] # 0 => /\ t[place[p]].role = s[p].role
                           /\ Range(s[p].of) \subseteq Range(t[place[p]].of)
    /\ \A i \in 1..Len(t) : \A m \in Range(t[i].of) :
           \E p \in 1..n : place[p] = i /\ m \in Range(s[p].of)
    /\ \A p, q \in 1..n : p < q => place[p] <= place[q]

Shrinks(s, t) == \E place : Places(s, Len(s), t, place)

\* A turn of the role that is expected is appended, one of the other role is
\* merged into the last turn, which has the same role.
LEMMA ExtendedTurns ==
    ASSUME NEW kept \in Seq(Turns), NEW t \in Turns
    PROVE  LET L == Len(kept)
               next == Extended(kept, t)
           IN /\ next \in Seq(Turns)
              /\ \A i \in 1..L : i # L => next[i] = kept[i]
              /\ \/ Len(next) = L + 1 /\ next[L + 1] = t /\ \A i \in 1..L : next[i] = kept[i]
                 \/ L = 0 /\ Len(next) = 0 /\ t.role = "assistant"
                 \/ /\ L # 0 /\ Len(next) = L
                    /\ next[L].role = t.role /\ kept[L].role = t.role
                    /\ Range(next[L].of) = Range(kept[L].of) \cup Range(t.of)
                    /\ t.of # <<>> => Last(next[L].of) = Last(t.of)
<1> DEFINE L == Len(kept)
           next == Extended(kept, t)
<1>0. L \in Nat /\ (L = 0 <=> kept = <<>>)
  OBVIOUS
<1>1. CASE t.role = Expected(kept)
  <2>1. next = Append(kept, t)
    BY <1>1 DEF Extended
  <2> QED
    BY <2>1
<1>2. CASE t.role # Expected(kept) /\ kept = <<>>
  BY <1>2 DEF Extended, Expected, Turns
<1>3. CASE t.role # Expected(kept) /\ kept # <<>>
  <2>1. next = Front(kept) \o <<[Last(kept) EXCEPT !.of = @ \o t.of]>>
    BY <1>3 DEF Extended
  <2>2. Last(kept) = kept[L] /\ L \in 1..L /\ kept[L] \in Turns
    BY <1>0, <1>3, ElementOfSeq DEF Last
  <2> DEFINE of == kept[L].of \o t.of
             merged == [kept[L] EXCEPT !.of = of]
  <2>3. kept[L].of \in Seq(Messages) /\ t.of \in Seq(Messages)
    BY <2>2 DEF Turns
  <2>4. /\ of \in Seq(Messages) /\ Len(of) = Len(kept[L].of) + Len(t.of)
        /\ \A i \in 1..Len(of) : of[i] = IF i <= Len(kept[L].of) THEN kept[L].of[i]
                                         ELSE t.of[i - Len(kept[L].of)]
    BY <2>3, ConcatProperties, ZenonT(40)
  <2>5. Range(of) = Range(kept[L].of) \cup Range(t.of)
    BY <2>3, <2>4, RangeConcatenation
  <2>6. t.of # <<>> => Last(of) = Last(t.of)
    <3> DEFINE a == kept[L].of
               b == t.of
    <3>1. Len(b) \in Nat /\ Len(a) \in Nat /\ (b # <<>> => Len(b) # 0)
      BY <2>3
    <3>2. Len(of) = Len(a) + Len(b)
          /\ \A i \in 1..Len(of) : of[i] = IF i <= Len(a) THEN a[i] ELSE b[i - Len(a)]
      BY <2>4
    <3> HIDE DEF a, b, of
    <3>3. b # <<>> => of[Len(of)] = b[Len(b)]
      BY <3>1, <3>2
    <3> QED
      BY <3>3 DEF Last, b
  <2>7. merged \in Turns /\ merged.of = of /\ merged.role = kept[L].role
    BY <2>2, <2>4 DEF Turns
  <2>8. kept[L].role = t.role
    BY <1>3, <2>2 DEF Expected, Turns
  <2> HIDE DEF of, merged
  <2>9. /\ Front(kept) \in Seq(Turns) /\ Len(Front(kept)) = L - 1
        /\ \A i \in 1..(L - 1) : Front(kept)[i] = kept[i]
    <3>1. Front(kept) = SubSeq(kept, 1, L - 1)
      BY DEF Front
    <3>2. /\ SubSeq(kept, 1, L - 1) \in Seq(Turns) /\ Len(SubSeq(kept, 1, L - 1)) = L - 1
          /\ \A i \in 1..(L - 1) : SubSeq(kept, 1, L - 1)[i] = kept[i]
      <4>1. L \in Nat /\ L = Len(kept) /\ L >= 1
        BY <1>0, <2>2
      <4> HIDE DEF L
      <4> QED
        BY <4>1
    <3> QED
      BY <3>1, <3>2
  <2>10. next = Append(Front(kept), merged)
    BY <2>1, <2>2, <2>9 DEF merged, of
  <2> HIDE DEF next
  <2>11. next \in Seq(Turns) /\ Len(next) = L /\ next[L] = merged
         /\ \A i \in 1..(L - 1) : next[i] = kept[i]
    BY <1>0, <2>7, <2>9, <2>10
  <2>12. \A i \in 1..L : i # L => i \in 1..(L - 1)
    BY <1>0
  <2>13. next[L].of = of /\ next[L].role = t.role
    BY <2>7, <2>8, <2>11
  <2> QED
    BY <1>0, <2>2, <2>5, <2>6, <2>8, <2>11, <2>12, <2>13 DEF next
<1> QED
  BY <1>1, <1>2, <1>3

\* One more turn.
LEMMA ExtendedPlaces ==
    ASSUME NEW s \in Seq(Turns), NEW n \in Nat, n + 1 <= Len(s), NEW kept \in Seq(Turns),
           NEW place, Places(s, n, kept, place)
    PROVE  LET next == Extended(kept, s[n + 1])
           IN \E p : Places(s, n + 1, next, p)
<1> DEFINE next == Extended(kept, s[n + 1])
           L == Len(kept)
           t == s[n + 1]
<1>0. t \in Turns /\ L \in Nat
  BY ElementOfSeq
<1>1. PICK next1 : next1 = next
  OBVIOUS
<1>2. /\ next1 \in Seq(Turns)
      /\ \A i \in 1..L : i # L => next1[i] = kept[i]
      /\ \/ Len(next1) = L + 1 /\ next1[L + 1] = t /\ \A i \in 1..L : next1[i] = kept[i]
         \/ L = 0 /\ Len(next1) = 0
         \/ /\ L # 0 /\ Len(next1) = L
            /\ next1[L].role = t.role /\ kept[L].role = t.role
            /\ Range(next1[L].of) = Range(kept[L].of) \cup Range(t.of)
  BY <1>0, <1>1, ExtendedTurns, ZenonT(40)
<1>3. PICK M : M = Len(next1)
  OBVIOUS
<1> DEFINE p == [i \in 1..(n + 1) |-> IF i = n + 1 THEN M ELSE place[i]]
<1> SUFFICES Places(s, n + 1, next1, p)
  BY <1>1
<1>4. /\ place \in [1..n -> 0..L]
      /\ \A i \in 1..n :
             place[i] # 0 => /\ kept[place[i]].role = s[i].role
                             /\ Range(s[i].of) \subseteq Range(kept[place[i]].of)
      /\ \A i \in 1..L : \A m \in Range(kept[i].of) :
             \E q \in 1..n : place[q] = i /\ m \in Range(s[q].of)
      /\ \A i, k \in 1..n : i < k => place[i] <= place[k]
  BY DEF Places
<1>5. M \in Nat /\ L <= M /\ L \in Nat
  BY <1>0, <1>2, <1>3
<1>6. \A i \in 1..(n + 1) : i = n + 1 \/ (i # n + 1 /\ i \in 1..n)
  OBVIOUS
<1>7. p \in [1..(n + 1) -> 0..M]
  <2> SUFFICES ASSUME NEW i \in 1..(n + 1) PROVE (IF i = n + 1 THEN M ELSE place[i]) \in 0..M
    OBVIOUS
  <2> HIDE DEF L
  <2>1. CASE i \in 1..n
    BY <1>4, <1>5, <2>1
  <2>2. CASE i = n + 1
    BY <1>5, <2>2
  <2> QED
    BY <1>6, <2>1, <2>2
<1>8. p[n + 1] = M /\ \A i \in 1..n : p[i] = place[i]
  OBVIOUS
<1> HIDE DEF p, t, L, next
<1>9. ASSUME NEW i \in 1..L
      PROVE  next1[i].role = kept[i].role /\ Range(kept[i].of) \subseteq Range(next1[i].of)
  <2>1. CASE i # L
    BY <1>2, <1>9, <2>1
  <2>2. CASE i = L
    <3>1. L # 0
      BY <1>5, <2>2
    <3>2. CASE next1[L] = kept[L]
      BY <2>2, <3>2
    <3>3. CASE next1[L].role = kept[L].role /\ Range(next1[L].of) = Range(kept[L].of) \cup Range(t.of)
      BY <2>2, <3>3
    <3> QED
      BY <1>2, <2>2, <3>1, <3>2, <3>3
  <2> QED
    BY <2>1, <2>2
<1>10. ASSUME NEW i \in 1..(n + 1), p[i] # 0
       PROVE  /\ next1[p[i]].role = s[i].role
              /\ Range(s[i].of) \subseteq Range(next1[p[i]].of)
  <2>1. CASE i = n + 1
    BY <1>2, <1>3, <1>5, <1>8, <1>10, <2>1 DEF t
  <2>2. CASE i \in 1..n
    <3>1. place[i] \in 1..L
      BY <1>4, <1>5, <1>8, <1>10, <2>2
    <3>2. kept[place[i]].role = s[i].role /\ Range(s[i].of) \subseteq Range(kept[place[i]].of)
      BY <1>4, <1>8, <1>10, <2>2
    <3> QED
      BY <1>8, <1>9, <2>2, <3>1, <3>2
  <2> QED
    BY <1>6, <2>1, <2>2
<1>11. ASSUME NEW i \in 1..M, NEW m \in Range(next1[i].of)
       PROVE  \E q \in 1..(n + 1) : p[q] = i /\ m \in Range(s[q].of)
  <2>1. \/ i \in 1..L /\ m \in Range(kept[i].of)
        \/ i = M /\ m \in Range(t.of)
    BY <1>2, <1>3, <1>5, <1>11
  <2>2. CASE i \in 1..L /\ m \in Range(kept[i].of)
    <3>1. PICK q \in 1..n : place[q] = i /\ m \in Range(s[q].of)
      BY <1>4, <2>2
    <3> QED
      BY <1>8, <3>1
  <2>3. CASE i = M /\ m \in Range(t.of)
    BY <1>8, <2>3 DEF t
  <2> QED
    BY <2>1, <2>2, <2>3
<1>12. ASSUME NEW i \in 1..(n + 1), NEW k \in 1..(n + 1), i < k
       PROVE  p[i] <= p[k]
  <2>1. i \in 1..n
    BY <1>12
  <2>2. CASE k = n + 1
    BY <1>4, <1>5, <1>8, <2>1, <2>2
  <2>3. CASE k \in 1..n
    BY <1>4, <1>8, <1>12, <2>1, <2>3
  <2> QED
    BY <1>6, <2>2, <2>3
<1> QED
  BY <1>3, <1>7, <1>10, <1>11, <1>12 DEF Places

\* Normalising merges neighbours of one role and drops answers without a
\* question at the old end: no turn is lost or moved otherwise, and the last
\* question stays the last.
LEMMA NormalizedShrinks ==
    ASSUME NEW s \in Seq(Turns)
    PROVE  /\ Normalized(s) \in Seq(Turns)
           /\ Len(Normalized(s)) <= Len(s)
           /\ Shrinks(s, Normalized(s))
           /\ s # <<>> /\ Last(s).role = "user" /\ Last(s).of # <<>>
              => /\ Last(Normalized(s)).role = "user"
                 /\ Last(Last(Normalized(s)).of) = Last(Last(s).of)
<1>1. PICK kept :
          /\ kept[0] = <<>>
          /\ \A i \in 1..Len(s) : kept[i] = Extended(kept[i - 1], s[i])
          /\ Normalized(s) = kept[Len(s)]
  BY NormalizedIterates
<1> DEFINE Good(i) == /\ kept[i] \in Seq(Turns)
                      /\ Len(kept[i]) <= i
                      /\ \E place : Places(s, i, kept[i], place)
           S == {i \in Nat : Good(i)}
<1>2. Len(s) \in Nat
  OBVIOUS
<1>3. 0 \in S
  <2>1. [p \in 1..0 |-> 0] \in [1..0 -> 0..Len(kept[0])] /\ Len(kept[0]) = 0
    BY <1>1
  <2>2. Places(s, 0, kept[0], [p \in 1..0 |-> 0])
    BY <2>1 DEF Places
  <2>3. \E place : Places(s, 0, kept[0], place)
    BY <2>2
  <2>4. kept[0] \in Seq(Turns) /\ Len(kept[0]) <= 0
    BY <1>1
  <2> QED
    BY <2>3, <2>4
<1>4. ASSUME NEW i \in Nat, i \in S, i < Len(s)
      PROVE  i + 1 \in S
  <2>1. kept[i] \in Seq(Turns) /\ Len(kept[i]) <= i /\ \E place : Places(s, i, kept[i], place)
    BY <1>4
  <2>2. i + 1 \in 1..Len(s) /\ (i + 1) - 1 = i /\ i + 1 <= Len(s)
    BY <1>2, <1>4
  <2>3. kept[i + 1] = Extended(kept[i], s[i + 1]) /\ s[i + 1] \in Turns
    BY <1>1, <2>2, ElementOfSeq
  <2>4. kept[i + 1] \in Seq(Turns) /\ Len(kept[i + 1]) <= Len(kept[i]) + 1
    <3>1. PICK k : k = kept[i]
      OBVIOUS
    <3>2. PICK next : next = Extended(k, s[i + 1])
      OBVIOUS
    <3>3. k \in Seq(Turns) /\ s[i + 1] \in Turns
      BY <2>1, <2>3, <3>1
    <3>4. /\ next \in Seq(Turns)
          /\ Len(next) = Len(k) + 1 \/ Len(next) = Len(k)
      BY <3>2, <3>3, ExtendedTurns
    <3> QED
      BY <2>3, <3>1, <3>2, <3>3, <3>4
  <2>5. Len(kept[i + 1]) <= i + 1
    BY <2>1, <2>4
  <2>6. \E place : Places(s, i + 1, kept[i + 1], place)
    BY <2>1, <2>2, <2>3, ExtendedPlaces
  <2> QED
    BY <2>4, <2>5, <2>6
<1> HIDE DEF S
<1>5. Len(s) \in S
  BY <1>2, <1>3, <1>4, PositionInduction
<1>6. ASSUME s # <<>>, Last(s).role = "user", Last(s).of # <<>>
      PROVE  /\ Last(Normalized(s)).role = "user"
             /\ Last(Last(Normalized(s)).of) = Last(Last(s).of)
  <2>1. PICK n \in Nat : n + 1 = Len(s)
    <3>1. Len(s) - 1 \in Nat /\ (Len(s) - 1) + 1 = Len(s)
      BY <1>2, <1>6
    <3> QED
      BY <3>1
  <2>2. n \in S
    <3> DEFINE U == {i \in Nat : i <= n => i \in S}
    <3>1. 0 \in U /\ \A i \in Nat : i \in U /\ i < n => i + 1 \in U
      BY <1>3, <1>4, <2>1
    <3> HIDE DEF U
    <3>2. n \in U
      BY <3>1, PositionInduction
    <3> QED
      BY <3>2 DEF U
  <2>3. PICK k, t : k = kept[n] /\ t = s[n + 1]
    OBVIOUS
  <2>4. k \in Seq(Turns) /\ t \in Turns /\ t = Last(s)
    BY <1>2, <2>1, <2>2, <2>3, ElementOfSeq DEF S, Last
  <2>5. Normalized(s) = Extended(k, t)
    <3>1. n + 1 \in 1..Len(s) /\ (n + 1) - 1 = n
      BY <2>1
    <3> QED
      BY <1>1, <2>1, <2>3, <3>1
  <2>6. PICK next : next = Extended(k, t)
    OBVIOUS
  <2>7. \/ Len(next) = Len(k) + 1 /\ next[Len(k) + 1] = t
        \/ /\ Len(next) = Len(k) /\ next[Len(k)].role = t.role
           /\ Last(next[Len(k)].of) = Last(t.of)
    BY <1>6, <2>4, <2>6, ExtendedTurns
  <2> QED
    BY <1>6, <2>4, <2>5, <2>6, <2>7, SMTT(40) DEF Last
<1> QED
  BY <1>1, <1>5, <1>6 DEF S, Shrinks

\* Trimming keeps the newest turns.
LEMMA CutShrinks ==
    ASSUME NEW s \in Seq(Turns), NEW n \in Nat, n >= 1
    PROVE  LET t == IF Len(s) > n THEN SubSeq(s, Len(s) - n + 1, Len(s)) ELSE s
           IN /\ t \in Seq(Turns) /\ Len(t) <= n /\ Len(t) <= Len(s)
              /\ s # <<>> => t # <<>> /\ Last(t) = Last(s)
              /\ Shrinks(s, t)
<1>0. Len(s) \in Nat /\ DOMAIN s = 1..Len(s)
  OBVIOUS
<1>1. PICK L : L = Len(s)
  OBVIOUS
<1>2. CASE L <= n
  <2> DEFINE p == [i \in 1..L |-> i]
  <2>1. p \in [1..L -> 0..L] /\ \A i \in 1..L : p[i] = i
    BY <1>0, <1>1
  <2> HIDE DEF p
  <2>2. Places(s, L, s, p)
    BY <1>0, <1>1, <2>1 DEF Places
  <2>3. Shrinks(s, s)
    BY <1>1, <2>2 DEF Shrinks
  <2> QED
    BY <1>0, <1>1, <1>2, <2>3
<1>3. CASE L > n
  <2> DEFINE k == L - n
  <2>1. PICK t : t = SubSeq(s, L - n + 1, L)
    OBVIOUS
  <2>2. L \in Nat /\ k \in Nat /\ k + n = L /\ L - n + 1 = k + 1 /\ k >= 1
    BY <1>0, <1>1, <1>3
  <2>3. /\ t \in Seq(Turns) /\ Len(t) = n
        /\ \A i \in 1..n : t[i] = s[k + i]
    <3>1. k + 1 \in 1..(Len(s) + 1) /\ L \in ((k + 1) - 1)..Len(s)
      BY <1>1, <2>2
    <3>2. /\ t \in Seq(Turns)
          /\ Len(t) = L - (k + 1) + 1
          /\ \A i \in 1..(L - (k + 1) + 1) : t[i] = s[(k + 1) + i - 1]
      BY <2>1, <2>2, <3>1, SubSeqProperties
    <3>3. L - (k + 1) + 1 = n /\ \A i \in 1..n : (k + 1) + i - 1 = k + i
      BY <2>2
    <3> QED
      BY <3>2, <3>3
  <2> DEFINE p == [i \in 1..L |-> IF i <= k THEN 0 ELSE i - k]
  <2>4. p \in [1..L -> 0..n] /\ \A i \in 1..L : p[i] = IF i <= k THEN 0 ELSE i - k
    BY <2>2
  <2> HIDE DEF p, k
  <2>5. \A i \in 1..n : k + i \in 1..L /\ p[k + i] = i
    BY <2>2, <2>4
  <2>6. ASSUME NEW i \in 1..L, p[i] # 0
        PROVE  p[i] \in 1..n /\ t[p[i]] = s[i]
    <3>1. p[i] = i - k /\ i - k \in 1..n /\ k + (i - k) = i
      BY <2>2, <2>4, <2>6
    <3> QED
      BY <2>3, <3>1
  <2>7. \A i, j \in 1..L : i < j => p[i] <= p[j]
    BY <2>2, <2>4, SMTT(40)
  <2>8. Places(s, L, t, p)
    BY <2>3, <2>4, <2>5, <2>6, <2>7 DEF Places
  <2>9. Last(t) = Last(s) /\ t # <<>>
    <3>1. n \in 1..n /\ t[n] = s[L]
      BY <2>2, <2>3
    <3> QED
      BY <1>1, <2>3, <3>1 DEF Last
  <2> QED
    BY <1>0, <1>1, <1>3, <2>1, <2>3, <2>8, <2>9 DEF Shrinks
<1> QED
  BY <1>0, <1>1, <1>2, <1>3

LEMMA ShrinksTwice ==
    ASSUME NEW s \in Seq(Turns), NEW t \in Seq(Turns), NEW u \in Seq(Turns),
           Shrinks(s, t), Shrinks(t, u)
    PROVE  Shrinks(s, u)
<1>1. PICK p : Places(s, Len(s), t, p)
  BY DEF Shrinks
<1>2. PICK q : Places(t, Len(t), u, q)
  BY DEF Shrinks
<1>3. PICK a, b, c : a = Len(s) /\ b = Len(t) /\ c = Len(u)
  OBVIOUS
<1>4. a \in Nat /\ b \in Nat /\ c \in Nat
  BY <1>3
<1> DEFINE r == [i \in 1..a |-> IF p[i] = 0 THEN 0 ELSE q[p[i]]]
<1>5. p \in [1..a -> 0..b] /\ q \in [1..b -> 0..c]
  BY <1>1, <1>2, <1>3 DEF Places
<1>6. \A i \in 1..a : p[i] # 0 => p[i] \in 1..b
  BY <1>4, <1>5
<1>7. r \in [1..a -> 0..c] /\ \A i \in 1..a : r[i] = IF p[i] = 0 THEN 0 ELSE q[p[i]]
  BY <1>4, <1>5, <1>6
<1> HIDE DEF r
<1>8. ASSUME NEW i \in 1..a, r[i] # 0
      PROVE  u[r[i]].role = s[i].role /\ Range(s[i].of) \subseteq Range(u[r[i]].of)
  <2>1. p[i] # 0 /\ p[i] \in 1..b /\ r[i] = q[p[i]]
    BY <1>6, <1>7, <1>8
  <2>2. t[p[i]].role = s[i].role /\ Range(s[i].of) \subseteq Range(t[p[i]].of)
    BY <1>1, <1>3, <2>1 DEF Places
  <2>3. u[q[p[i]]].role = t[p[i]].role /\ Range(t[p[i]].of) \subseteq Range(u[q[p[i]]].of)
    BY <1>2, <1>3, <1>8, <2>1 DEF Places
  <2> QED
    BY <2>1, <2>2, <2>3
<1>9. ASSUME NEW i \in 1..c, NEW m \in Range(u[i].of)
      PROVE  \E k \in 1..a : r[k] = i /\ m \in Range(s[k].of)
  <2>1. PICK j \in 1..b : q[j] = i /\ m \in Range(t[j].of)
    BY <1>2, <1>3, ZenonT(40) DEF Places
  <2>2. PICK k \in 1..a : p[k] = j /\ m \in Range(s[k].of)
    BY <1>1, <1>3, <2>1 DEF Places
  <2>3. p[k] # 0
    BY <1>4, <2>1, <2>2
  <2> QED
    BY <1>7, <2>1, <2>2, <2>3
<1>10. ASSUME NEW i \in 1..a, NEW k \in 1..a, i < k
       PROVE  r[i] <= r[k]
  <2>1. p[i] <= p[k] /\ p[i] \in 0..b /\ p[k] \in 0..b
    BY <1>1, <1>3, <1>5, <1>10 DEF Places
  <2>2. CASE p[i] = 0
    BY <1>4, <1>7, <2>2
  <2>3. CASE p[i] # 0
    <3>1. p[i] \in 1..b /\ p[k] \in 1..b /\ (p[i] < p[k] \/ p[i] = p[k])
      BY <1>4, <2>1, <2>3
    <3>2. q[p[i]] <= q[p[k]]
      BY <1>2, <1>3, <1>4, <1>5, <3>1 DEF Places
    <3>3. r[i] = q[p[i]] /\ r[k] = q[p[k]]
      BY <1>4, <1>7, <3>1, SMTT(40)
    <3> QED
      BY <3>2, <3>3
  <2> QED
    BY <2>2, <2>3
<1>11. Places(s, a, u, r)
  BY <1>3, <1>7, <1>8, <1>9, <1>10 DEF Places
<1> QED
  BY <1>3, <1>11 DEF Shrinks

LEMMA TrimmedShrinks ==
    ASSUME NEW s \in Seq(Turns), s # <<>>
    PROVE  /\ Trimmed(s) \in Seq(Turns) /\ Len(Trimmed(s)) <= MaxHistory
           /\ Trimmed(s) # <<>> /\ Last(Trimmed(s)) = Last(s)
           /\ Shrinks(s, Trimmed(s))
<1>1. MaxHistory \in Nat /\ MaxHistory >= 1 /\ Len(s) \in Nat
  BY HistoryAssumption DEF HistoryAssumption
<1>2. CASE Len(s) > MaxHistory
  <2>1. Trimmed(s) = SubSeq(s, Len(s) - MaxHistory + 1, Len(s))
    BY <1>2 DEF Trimmed
  <2> QED
    BY <1>1, <1>2, <2>1, CutShrinks
<1>3. CASE ~(Len(s) > MaxHistory)
  <2>1. Trimmed(s) = s /\ SubSeq(s, 1, Len(s)) = s
    BY <1>3 DEF Trimmed
  <2> QED
    BY <1>1, <1>3, <2>1, CutShrinks
<1> QED
  BY <1>2, <1>3

LEMMA CompactedShrinks ==
    ASSUME NEW s \in Seq(Turns), Len(s) <= MaxHistory
    PROVE  /\ Compacted(s) \in Seq(Turns) /\ Len(Compacted(s)) <= MaxHistory
           /\ Shrinks(s, Compacted(s))
<1>1. PICK t : t = IF Len(s) > KeepTurns THEN SubSeq(s, Len(s) - KeepTurns + 1, Len(s)) ELSE s
  OBVIOUS
<1>2. KeepTurns \in Nat /\ KeepTurns >= 1 /\ MaxHistory \in Nat /\ Len(s) \in Nat
  BY HistoryAssumption DEF HistoryAssumption
<1>3. t \in Seq(Turns) /\ Len(t) <= Len(s) /\ Shrinks(s, t)
  BY <1>1, <1>2, CutShrinks
<1>4. t = SubSeq(s, IF Len(s) > KeepTurns THEN Len(s) - KeepTurns + 1 ELSE 1, Len(s))
  <2>1. SubSeq(s, 1, Len(s)) = s
    OBVIOUS
  <2> QED
    BY <1>1, <2>1
<1>5. Compacted(s) = Normalized(t)
  BY <1>4 DEF Compacted
<1>6. /\ Normalized(t) \in Seq(Turns) /\ Len(Normalized(t)) <= Len(t)
      /\ Shrinks(t, Normalized(t))
  BY <1>3, NormalizedShrinks
<1>7. Len(Normalized(t)) \in Nat /\ Len(t) \in Nat
  BY <1>3, <1>6
<1>8. Shrinks(s, Normalized(t))
  BY <1>3, <1>6, ShrinksTwice
<1> QED
  BY <1>2, <1>3, <1>5, <1>6, <1>7, <1>8

\* The question of m is in one turn at most.
Once(s, m) == \A i, j \in At(s, "user", m) : i = j

\* The question of m is answered, if it is there.
Closed(s, m) ==
    At(s, "user", m) # {}
    => \E i \in At(s, "user", m), j \in At(s, "assistant", m) : i < j

\* Nothing comes into a history that is trimmed or compacted, a question stays
\* answered as long as it is there, and leaves with all that are older.
LEMMA ShrinkKeeps ==
    ASSUME NEW s \in Seq(Turns), NEW t \in Seq(Turns), Shrinks(s, t),
           NEW m \in Messages
    PROVE  /\ \A role : At(t, role, m) # {} => At(s, role, m) # {}
           /\ Once(s, m) => Once(t, m)
           /\ Once(s, m) /\ Closed(s, m) => Closed(t, m)
           /\ \A k : /\ At(s, "user", m) # {} /\ At(t, "user", m) = {} /\ Once(s, k)
                     /\ \E i \in At(s, "user", k), j \in At(s, "user", m) : i < j
                     => At(t, "user", k) = {}
<1>1. PICK p : Places(s, Len(s), t, p)
  BY DEF Shrinks
<1>2. DOMAIN s = 1..Len(s) /\ DOMAIN t = 1..Len(t) /\ Len(s) \in Nat /\ Len(t) \in Nat
  OBVIOUS
<1>3. \A i \in 1..Len(s) : p[i] \in 0..Len(t) /\ p[i] \in Nat
  BY <1>1, <1>2 DEF Places
\* Where a turn of t came from, and where one of s is now.
<1>4. ASSUME NEW role, NEW k, NEW i \in At(t, role, k)
      PROVE  i \in Nat /\ \E j \in At(s, role, k) : p[j] = i
  <2>1. i \in 1..Len(t) /\ t[i].role = role /\ k \in Range(t[i].of)
    BY <1>2 DEF At
  <2>2. PICK j \in 1..Len(s) : p[j] = i /\ k \in Range(s[j].of)
    BY <1>1, <2>1, ZenonT(40) DEF Places
  <2>3. p[j] # 0 /\ i \in Nat
    BY <1>2, <2>1, <2>2
  <2>4. s[j].role = role
    BY <1>1, <2>1, <2>2, <2>3 DEF Places
  <2> QED
    BY <1>2, <2>2, <2>3, <2>4 DEF At
<1>5. ASSUME NEW role, NEW k, NEW j \in At(s, role, k)
      PROVE  j \in Nat /\ p[j] \in Nat /\ (p[j] # 0 => p[j] \in At(t, role, k))
  <2>1. j \in 1..Len(s) /\ s[j].role = role /\ k \in Range(s[j].of)
    BY <1>2 DEF At
  <2>2. p[j] \in 0..Len(t) /\ j \in Nat
    BY <1>2, <1>3, <2>1
  <2>3. ASSUME p[j] # 0
        PROVE  p[j] \in 1..Len(t) /\ t[p[j]].role = role /\ k \in Range(t[p[j]].of)
    <3>1. p[j] \in 1..Len(t)
      BY <1>2, <2>2, <2>3
    <3>2. t[p[j]].role = s[j].role /\ Range(s[j].of) \subseteq Range(t[p[j]].of)
      BY <1>1, <2>1, <2>3 DEF Places
    <3> QED
      BY <2>1, <3>1, <3>2
  <2> QED
    BY <1>2, <1>3, <2>1, <2>2, <2>3 DEF At
<1>6. ASSUME NEW i \in DOMAIN s, NEW j \in DOMAIN s, i < j
      PROVE  p[i] <= p[j]
  BY <1>1, <1>2, <1>6 DEF Places
<1>7. \A role : At(t, role, m) # {} => At(s, role, m) # {}
  BY <1>4
<1>8. Once(s, m) => Once(t, m)
  BY <1>4 DEF Once
<1>9. ASSUME Once(s, m), Closed(s, m), At(t, "user", m) # {}
      PROVE  \E i \in At(t, "user", m), j \in At(t, "assistant", m) : i < j
  <2>1. PICK i \in At(t, "user", m) : TRUE
    BY <1>9
  <2>2. PICK u \in At(s, "user", m) : p[u] = i /\ i \in Nat
    BY <1>4
  <2>3. PICK v \in At(s, "user", m), a \in At(s, "assistant", m) : v < a
    BY <1>9, <2>2 DEF Closed
  <2>4. v = u
    BY <1>9 DEF Once
  <2>5. u \in DOMAIN s /\ a \in DOMAIN s
    BY DEF At
  <2>6. p[u] <= p[a] /\ p[u] # 0
    <3>1. i # 0
      BY <1>2, <2>1 DEF At
    <3> QED
      BY <1>6, <2>2, <2>3, <2>4, <2>5, <3>1
  <2>7. p[a] \in Nat /\ p[u] \in Nat
    BY <1>5
  <2>8. p[a] \in At(t, "assistant", m)
    BY <1>5, <2>6, <2>7
  <2>9. p[a] # p[u]
    BY <2>2, <2>8 DEF At
  <2> QED
    BY <2>2, <2>6, <2>7, <2>8, <2>9
<1>10. ASSUME NEW k, At(t, "user", m) = {}, Once(s, k),
              NEW i \in At(s, "user", k), NEW j \in At(s, "user", m), i < j
       PROVE  At(t, "user", k) = {}
  <2>1. p[j] = 0
    BY <1>5, <1>10
  <2>2. i \in DOMAIN s /\ j \in DOMAIN s
    BY DEF At
  <2>3. p[i] = 0
    BY <1>5, <1>6, <1>10, <2>1, <2>2
  <2>4. ASSUME NEW l \in At(t, "user", k)
        PROVE  FALSE
    <3>1. PICK h \in At(s, "user", k) : p[h] = l
      BY <1>4
    <3>2. h = i
      BY <1>10 DEF Once
    <3>3. l # 0
      BY <1>2 DEF At
    <3> QED
      BY <2>3, <3>1, <3>2, <3>3
  <2> QED
    BY <2>4
<1> QED
  BY <1>7, <1>8, <1>9, <1>10 DEF Closed

-----------------------------------------------------------------------------
(* Histories *)

\* A turn runs inside its worker, and nobody has begun a turn who is away.
TurnsInWorkers ==
    \A m \in Messages :
        /\ turn[m] \in {"asked", "working"} => worker[m] = "processing"
        /\ turn[m] # "none" => worker[m] # "away"

\* What the history of a conversation holds of a message: nothing before its
\* question, nor after it was taken back, an answer only if it was answered.
Placed(c, m) ==
    /\ \A role :
           At(history[c], role, m) # {}
           => /\ Conversation(m) = c
              /\ turn[m] \in {"asked", "working", "answered", "open"}
              /\ role = "assistant" => turn[m] = "answered"
    /\ Once(history[c], m)
    /\ turn[m] = "answered" => Closed(history[c], m)

AllPlaced == \A c \in Conversations, m \in Messages : Placed(c, m)

\* No other chat has begun a turn in the conversation of m.
Alone(m) ==
    \A k \in Messages : Conversation(k) = Conversation(m) /\ chat[k] # chat[m] => turn[k] = "none"

\* What m asked is still the last turn when it is read back.
AskedIsLast ==
    \A m \in Messages :
        InTurn(m, "asked") /\ Interrupts(m) /\ Alone(m)
        => history[Conversation(m)] # <<>> /\ Last(history[Conversation(m)]) = User(m)

HistoryInv ==
    /\ TypeOK
    /\ DispatchInv
    /\ TurnsInWorkers
    /\ AllPlaced
    /\ AskedIsLast
    /\ OwnQuestionIsLast

-----------------------------------------------------------------------------
\* Processing a message is one of the things that may happen in ChannelDispatch.
LEMMA NextDispatches == [Next]_vars => [DispatchNext]_dispatch
<1>1. ASSUME NEW m \in Messages, TurnStep(m)
      PROVE  Return(m) \/ UNCHANGED dispatch
  BY <1>1 DEF TurnStep, EndEarly, ClearHistory, AppendQuestion, ReadPrompt, Cancelled, Suppressed,
     Answered, Overflowed, RolledBack, EndTurn
<1> QED
  BY <1>1 DEF Next, DispatchNext, vars

LEMMA HistoryInit == Init => HistoryInv
<1> SUFFICES ASSUME Init PROVE HistoryInv
  OBVIOUS
<1>1. DispatchInv
  BY InitInv DEF Init
<1>2. \A c \in Conversations : history[c] = <<>>
  BY DEF Init
<1>3. TypeOK
  <2>1. MaxHistory \in Nat
    BY HistoryAssumption DEF HistoryAssumption
  <2>2. history \in [Conversations -> Seq(Turns)] /\ prompt \in [Messages -> Seq(Turns)]
    BY DEF Init
  <2>3. \A c \in Conversations : Len(history[c]) <= MaxHistory
    BY <1>2, <2>1
  <2> QED
    BY <1>1, <2>2, <2>3 DEF Init, TypeOK, DispatchInv
<1>4. \A role, m : At(<<>>, role, m) = {}
  BY DEF At
<1>5. \A m \in Messages : turn[m] = "none"
  BY DEF Init
<1>6. AllPlaced
  BY <1>2, <1>4, <1>5 DEF AllPlaced, Placed, Once, Closed
<1>7. TurnsInWorkers /\ AskedIsLast /\ OwnQuestionIsLast
  BY <1>5 DEF TurnsInWorkers, AskedIsLast, OwnQuestionIsLast, InTurn
<1> QED
  BY <1>1, <1>3, <1>6, <1>7 DEF HistoryInv

\* The step of a turn in the terms of its conversation.
LEMMA TurnStepHistory ==
    ASSUME TypeOK, NEW m \in Messages, TurnStep(m)
    PROVE  \E x, new :
              /\ worker[m] = "processing" /\ chat' = chat
              /\ turn' = [turn EXCEPT ![m] = x]
              /\ history' = [history EXCEPT ![Conversation(m)] = new]
              /\ \/ /\ new = history[Conversation(m)]
                    /\ \/ turn[m] = "none" /\ x = "returned"
                       \/ turn[m] = "asked" /\ x = "working"
                       \/ turn[m] = "working" /\ x = "open"
                 \/ turn[m] = "none" /\ x = "returned" /\ new = <<>>
                 \/ /\ turn[m] = "none" /\ x = "asked"
                    /\ new = Trimmed(Append(history[Conversation(m)], User(m)))
                 \/ /\ turn[m] = "working" /\ x = "answered"
                    /\ new = Trimmed(Append(history[Conversation(m)], Assistant(m)))
                 \/ /\ turn[m] = "working" /\ x = "open"
                    /\ new = Compacted(history[Conversation(m)])
                 \/ /\ turn[m] = "working" /\ x = "rolled_back"
                    /\ history[Conversation(m)] # <<>>
                    /\ Last(history[Conversation(m)]) = User(m)
                    /\ new = Front(history[Conversation(m)])
<1>1. history = [history EXCEPT ![Conversation(m)] = history[Conversation(m)]]
  BY DEF TypeOK
<1>2. worker[m] = "processing" /\ chat' = chat
  BY DEF TurnStep, EndEarly, ClearHistory, AppendQuestion, ReadPrompt, Cancelled, Suppressed,
     Answered, Overflowed, RolledBack, EndTurn, InTurn, Return, dispatch
<1>3. CASE EndEarly(m)
  BY <1>1, <1>2, <1>3 DEF EndEarly, InTurn, Step
<1>4. CASE ClearHistory(m)
  BY <1>2, <1>4 DEF ClearHistory, InTurn, Step
<1>5. CASE AppendQuestion(m)
  BY <1>2, <1>5 DEF AppendQuestion, AppendTurn, InTurn, Step
<1>6. CASE ReadPrompt(m)
  BY <1>1, <1>2, <1>6 DEF ReadPrompt, InTurn, Step
<1>7. CASE Cancelled(m) \/ Suppressed(m)
  BY <1>1, <1>2, <1>7 DEF Cancelled, Suppressed, EndTurn, InTurn, Step
<1>8. CASE Answered(m)
  BY <1>2, <1>8 DEF Answered, EndTurn, AppendTurn, InTurn, Step
<1>9. CASE Overflowed(m)
  BY <1>2, <1>9 DEF Overflowed, EndTurn, InTurn, Step
<1>10. CASE RolledBack(m)
  <2>1. CASE Answered(m)
    BY <1>8, <2>1
  <2>2. CASE ~Answered(m)
    BY <1>2, <1>10, <2>2 DEF RolledBack, EndTurn, InTurn, Step
  <2> QED
    BY <2>1, <2>2
<1> QED
  BY <1>3, <1>4, <1>5, <1>6, <1>7, <1>8, <1>9, <1>10 DEF TurnStep

\* Every step of a turn moves it to a new stage and touches one history.
LEMMA TurnMoves ==
    ASSUME TypeOK, NEW m \in Messages, TurnStep(m)
    PROVE  \E x, new :
              /\ worker[m] = "processing" /\ chat' = chat
              /\ turn' = [turn EXCEPT ![m] = x]
              /\ history' = [history EXCEPT ![Conversation(m)] = new]
              /\ x # turn[m] /\ x # "none"
<1>1. PICK x, new :
          /\ worker[m] = "processing" /\ chat' = chat
          /\ turn' = [turn EXCEPT ![m] = x]
          /\ history' = [history EXCEPT ![Conversation(m)] = new]
          /\ \/ /\ new = history[Conversation(m)]
                /\ \/ turn[m] = "none" /\ x = "returned"
                   \/ turn[m] = "asked" /\ x = "working"
                   \/ turn[m] = "working" /\ x = "open"
             \/ turn[m] = "none" /\ x = "returned" /\ new = <<>>
             \/ /\ turn[m] = "none" /\ x = "asked"
                /\ new = Trimmed(Append(history[Conversation(m)], User(m)))
             \/ /\ turn[m] = "working" /\ x = "answered"
                /\ new = Trimmed(Append(history[Conversation(m)], Assistant(m)))
             \/ /\ turn[m] = "working" /\ x = "open"
                /\ new = Compacted(history[Conversation(m)])
             \/ /\ turn[m] = "working" /\ x = "rolled_back"
                /\ history[Conversation(m)] # <<>>
                /\ Last(history[Conversation(m)]) = User(m)
                /\ new = Front(history[Conversation(m)])
  BY TurnStepHistory
<1> QED
  BY <1>1

LEMMA TurnTypes ==
    ASSUME DispatchTypeOK, NEW m \in Messages
    PROVE  Conversation(m) \in Conversations /\ User(m) \in Turns /\ Assistant(m) \in Turns
<1>1. chat[m] \in Chats
  BY DEF DispatchTypeOK
<1>2. <<m>> \in Seq(Messages)
  OBVIOUS
<1> QED
  BY <1>1, <1>2, HistoryAssumption DEF HistoryAssumption, Conversation, User, Assistant, Turns

LEMMA FrontOf ==
    ASSUME NEW s \in Seq(Turns), s # <<>>
    PROVE  /\ Front(s) \in Seq(Turns) /\ Len(Front(s)) = Len(s) - 1
           /\ \A i \in 1..(Len(s) - 1) : Front(s)[i] = s[i]
<1>1. PICK L : L = Len(s) /\ L \in Nat /\ L >= 1
  OBVIOUS
<1>2. Front(s) = SubSeq(s, 1, L - 1)
  BY <1>1 DEF Front
<1>3. /\ SubSeq(s, 1, L - 1) \in Seq(Turns) /\ Len(SubSeq(s, 1, L - 1)) = L - 1
      /\ \A i \in 1..(L - 1) : SubSeq(s, 1, L - 1)[i] = s[i]
  BY <1>1
<1> QED
  BY <1>1, <1>2, <1>3

LEMMA TypesKept ==
    ASSUME TypeOK, DispatchInv, [Next]_vars
    PROVE  TypeOK' /\ DispatchInv'
<1>1. DispatchInv' /\ DispatchTypeOK'
  BY NextDispatches, NextInv DEF DispatchInv
<1>2. CASE UNCHANGED <<turn, history, prompt>>
  BY <1>1, <1>2 DEF TypeOK
<1>3. ASSUME NEW m \in Messages, TurnStep(m)
      PROVE  TypeOK'
  <2>1. PICK c : c = Conversation(m) /\ c \in Conversations
    BY TurnTypes DEF TypeOK
  <2>2. PICK old : old = history[c] /\ old \in Seq(Turns) /\ Len(old) <= MaxHistory
    BY <2>1 DEF TypeOK
  <2>3. MaxHistory \in Nat /\ Len(old) \in Nat /\ User(m) \in Turns /\ Assistant(m) \in Turns
    BY <2>2, HistoryAssumption, TurnTypes DEF HistoryAssumption, TypeOK
  <2>4. \A t \in Turns : /\ Append(old, t) \in Seq(Turns) /\ Append(old, t) # <<>>
    BY <2>2
  <2>5. \A t \in Turns : /\ Trimmed(Append(old, t)) \in Seq(Turns)
                         /\ Len(Trimmed(Append(old, t))) <= MaxHistory
    BY <2>4, TrimmedShrinks
  <2>6. Compacted(old) \in Seq(Turns) /\ Len(Compacted(old)) <= MaxHistory
    BY <2>2, CompactedShrinks
  <2>7. old # <<>> => Front(old) \in Seq(Turns) /\ Len(Front(old)) <= MaxHistory
    BY <2>2, <2>3, FrontOf
  <2>8. PICK x, new :
            /\ turn' = [turn EXCEPT ![m] = x] /\ history' = [history EXCEPT ![c] = new]
            /\ x \in {"asked", "working"} \cup Ends
            /\ new \in Seq(Turns) /\ Len(new) <= MaxHistory
    <3>1. PICK x, new :
              /\ turn' = [turn EXCEPT ![m] = x] /\ history' = [history EXCEPT ![c] = new]
              /\ x \in {"asked", "working"} \cup Ends
              /\ \/ new = old \/ new = <<>>
                 \/ new = Trimmed(Append(old, User(m)))
                 \/ new = Trimmed(Append(old, Assistant(m)))
                 \/ new = Compacted(old)
                 \/ old # <<>> /\ new = Front(old)
      <4>1. PICK x, new :
                /\ turn' = [turn EXCEPT ![m] = x]
                /\ history' = [history EXCEPT ![Conversation(m)] = new]
                /\ x \in {"returned", "asked", "working", "answered", "open", "rolled_back"}
                /\ \/ new = history[Conversation(m)]
                   \/ new = <<>>
                   \/ new = Trimmed(Append(history[Conversation(m)], User(m)))
                   \/ new = Trimmed(Append(history[Conversation(m)], Assistant(m)))
                   \/ new = Compacted(history[Conversation(m)])
                   \/ history[Conversation(m)] # <<>> /\ new = Front(history[Conversation(m)])
        BY <1>3, TurnStepHistory
      <4>2. x \in {"asked", "working"} \cup Ends
        BY <4>1 DEF Ends
      <4> QED
        BY <2>1, <2>2, <4>1, <4>2
    <3>2. new \in Seq(Turns) /\ Len(new) <= MaxHistory
      <4>1. <<>> \in Seq(Turns) /\ Len(<<>>) = 0
        OBVIOUS
      <4>2. CASE new = <<>>
        BY <2>3, <4>1, <4>2
      <4> QED
        BY <2>2, <2>3, <2>5, <2>6, <2>7, <3>1, <4>2
    <3> QED
      BY <3>1, <3>2
  <2>9. turn' \in [Messages -> {"none", "asked", "working"} \cup Ends]
    BY <2>8 DEF TypeOK
  <2>10. /\ history' \in [Conversations -> Seq(Turns)]
         /\ \A d \in Conversations : Len(history'[d]) <= MaxHistory
    BY <2>8 DEF TypeOK
  <2>11. prompt' \in [Messages -> Seq(Turns)]
    <3>1. Normalized(old) \in Seq(Turns) /\ <<>> \in Seq(Turns)
      BY <2>2, NormalizedShrinks
    <3>2. \/ prompt' = prompt
          \/ prompt' = [prompt EXCEPT ![m] = <<>>]
          \/ prompt' = [prompt EXCEPT ![m] = Normalized(old)]
      BY <1>3, <2>1, <2>2 DEF TurnStep, EndEarly, ClearHistory, AppendQuestion, ReadPrompt, Cancelled,
         Suppressed, Answered, Overflowed, RolledBack, EndTurn
    <3> QED
      BY <3>1, <3>2 DEF TypeOK
  <2> QED
    BY <1>1, <2>9, <2>10, <2>11 DEF TypeOK
<1> QED
  BY <1>1, <1>2, <1>3 DEF Next, vars

-----------------------------------------------------------------------------
LEMMA WorkersKept ==
    ASSUME TypeOK, DispatchInv, TurnsInWorkers, [Next]_vars
    PROVE  /\ TurnsInWorkers'
           /\ \A m \in Messages : turn[m] # "none" => chat'[m] = chat[m]
           /\ \A m \in Messages : turn'[m] = "none" => turn[m] = "none"
<1>0. DispatchTypeOK
  BY DEF TypeOK
<1>1. ASSUME DispatchStep, UNCHANGED turn
      PROVE  /\ TurnsInWorkers'
             /\ \A m \in Messages : turn[m] # "none" => chat'[m] = chat[m]
  <2>1. \A m \in Messages : worker[m] # "away" => worker'[m] # "away" /\ chat'[m] = chat[m]
    <3>1. ASSUME NEW k \in Messages, NEW c \in Chats, Arrive(k, c)
          PROVE  \A m \in Messages : worker[m] # "away" => worker'[m] # "away" /\ chat'[m] = chat[m]
      BY <1>0, <3>1 DEF Arrive, Goto, DispatchTypeOK
    <3>2. CASE Dispatch
      BY <1>0, <3>2 DEF Dispatch, Goto, DispatchTypeOK
    <3>3. ASSUME NEW k \in Messages, WorkerStep(k)
          PROVE  \A m \in Messages : worker[m] # "away" => worker'[m] # "away" /\ chat'[m] = chat[m]
      BY <1>0, <3>3 DEF WorkerStep, Register, CancelPrevious, CheckDone, Subscribe, Enter,
         RemoveEntry, MarkDone, Notify, Goto, DispatchTypeOK
    <3> QED
      BY <1>1, <3>1, <3>2, <3>3 DEF DispatchStep
  <2>2. \A m \in Messages : worker[m] = "processing" => worker'[m] = "processing"
    <3>1. ASSUME NEW k \in Messages, NEW c \in Chats, Arrive(k, c)
          PROVE  \A m \in Messages : worker[m] = "processing" => worker'[m] = "processing"
      BY <1>0, <3>1 DEF Arrive, Goto, DispatchTypeOK
    <3>2. CASE Dispatch
      <4>1. inbox # <<>> /\ inbox \in Seq(Messages)
        BY <3>2 DEF Dispatch, DispatchInv, InboxInv
      <4>2. Head(inbox) = inbox[1] /\ 1 \in DOMAIN inbox
        BY <4>1
      <4>3. worker[Head(inbox)] = "queued"
        BY <4>2 DEF DispatchInv, InboxInv
      <4> QED
        BY <1>0, <3>2, <4>3 DEF Dispatch, Goto, DispatchTypeOK
    <3>3. ASSUME NEW k \in Messages, WorkerStep(k)
          PROVE  \A m \in Messages : worker[m] = "processing" => worker'[m] = "processing"
      BY <1>0, <3>3 DEF WorkerStep, Register, CancelPrevious, CheckDone, Subscribe, Enter,
         RemoveEntry, MarkDone, Notify, Goto, DispatchTypeOK
    <3> QED
      BY <1>1, <3>1, <3>2, <3>3 DEF DispatchStep
  <2> QED
    BY <1>1, <2>1, <2>2 DEF TurnsInWorkers
<1>2. ASSUME NEW m \in Messages, TurnStep(m)
      PROVE  /\ TurnsInWorkers'
             /\ chat' = chat
             /\ \A k \in Messages : turn'[k] = "none" => turn[k] = "none"
  <2>1. PICK x : /\ turn' = [turn EXCEPT ![m] = x]
                 /\ x \in {"returned", "asked", "working", "answered", "open", "rolled_back"}
                 /\ worker[m] = "processing" /\ chat' = chat
    BY <1>2, TurnStepHistory
  <2>2. \/ UNCHANGED worker
        \/ worker' = [worker EXCEPT ![m] = "leaving"] /\ x \notin {"asked", "working"}
    <3>1. CASE AppendQuestion(m) \/ ReadPrompt(m)
      BY <3>1 DEF AppendQuestion, ReadPrompt, dispatch
    <3>2. CASE EndEarly(m) \/ ClearHistory(m)
      <4>1. worker' = [worker EXCEPT ![m] = "leaving"] /\ turn'[m] = "returned"
        BY <3>2 DEF EndEarly, ClearHistory, Return, Goto, Step, TypeOK
      <4> QED
        BY <2>1, <4>1 DEF TypeOK
    <3>3. ASSUME NEW end \in Ends, EndTurn(m, end)
          PROVE  worker' = [worker EXCEPT ![m] = "leaving"] /\ x \notin {"asked", "working"}
      <4>1. worker' = [worker EXCEPT ![m] = "leaving"] /\ turn'[m] = end
        BY <3>3 DEF EndTurn, Return, Goto, Step, TypeOK
      <4> QED
        BY <2>1, <4>1 DEF TypeOK, Ends
    <3> QED
      BY <1>2, <3>1, <3>2, <3>3
         DEF TurnStep, Cancelled, Suppressed, Answered, Overflowed, RolledBack, Ends
  <2> QED
    BY <1>0, <2>1, <2>2 DEF TurnsInWorkers, TypeOK, DispatchTypeOK
<1>3. CASE UNCHANGED vars
  BY <1>3 DEF vars, dispatch, TurnsInWorkers
<1> QED
  BY <1>1, <1>2, <1>3 DEF Next, vars, dispatch

-----------------------------------------------------------------------------
\* Where the messages of a history are after one turn is appended or the last
\* one is taken away.
LEMMA AppendedAt ==
    ASSUME NEW s \in Seq(Turns), NEW t \in Turns, NEW role, NEW m
    PROVE  At(Append(s, t), role, m) =
               At(s, role, m) \cup (IF t.role = role /\ m \in Range(t.of) THEN {Len(s) + 1} ELSE {})
<1>1. PICK u : u = Append(s, t)
  OBVIOUS
<1>2. /\ Len(s) \in Nat /\ DOMAIN s = 1..Len(s) /\ DOMAIN u = 1..(Len(s) + 1)
      /\ u[Len(s) + 1] = t /\ \A i \in 1..Len(s) : u[i] = s[i]
  BY <1>1
<1>3. \A i : i \in 1..(Len(s) + 1) <=> i \in 1..Len(s) \/ i = Len(s) + 1
  BY <1>2
<1>4. \A i \in 1..Len(s) : i # Len(s) + 1
  BY <1>2
<1> QED
  BY <1>1, <1>2, <1>3, <1>4 DEF At

LEMMA FrontAt ==
    ASSUME NEW s \in Seq(Turns), s # <<>>, NEW role, NEW m
    PROVE  At(Front(s), role, m) = At(s, role, m) \ {Len(s)}
<1>1. /\ Len(s) \in Nat /\ Len(s) >= 1 /\ DOMAIN s = 1..Len(s)
      /\ DOMAIN Front(s) = 1..(Len(s) - 1)
      /\ \A i \in 1..(Len(s) - 1) : Front(s)[i] = s[i]
  BY FrontOf
<1>2. \A i : i \in 1..(Len(s) - 1) <=> i \in 1..Len(s) /\ i # Len(s)
  BY <1>1
<1> QED
  BY <1>1, <1>2 DEF At

\* The turn of m at the end of a history.
LEMMA LastAt ==
    ASSUME NEW s \in Seq(Turns), s # <<>>, NEW m \in Messages, Last(s) = User(m)
    PROVE  /\ Len(s) \in At(s, "user", m)
           /\ \A role, k : Len(s) \in At(s, role, k) => role = "user" /\ k = m
<1>1. Len(s) \in DOMAIN s /\ s[Len(s)] = User(m)
  BY DEF Last
<1>2. User(m).role = "user" /\ Range(User(m).of) = {m}
  <2>1. User(m).of = <<m>> /\ User(m).role = "user"
    BY DEF User
  <2>2. DOMAIN <<m>> = {1} /\ <<m>>[1] = m
    OBVIOUS
  <2> QED
    BY <2>1, <2>2 DEF Range
<1> QED
  BY <1>1, <1>2 DEF At

LEMMA TurnsOf ==
    ASSUME NEW m \in Messages
    PROVE  /\ User(m).role = "user" /\ Range(User(m).of) = {m}
           /\ Assistant(m).role = "assistant" /\ Range(Assistant(m).of) = {m}
<1>1. DOMAIN <<m>> = {1} /\ <<m>>[1] = m
  OBVIOUS
<1>2. Range(<<m>>) = {m}
  BY <1>1 DEF Range
<1> QED
  BY <1>2 DEF User, Assistant

\* Only the conversation of the message has anything to do with a turn.
LEMMA OthersPlaced ==
    ASSUME TypeOK, AllPlaced, NEW m \in Messages, NEW x, chat' = chat,
           turn' = [turn EXCEPT ![m] = x], NEW d \in Conversations, history'[d] = history[d],
           NEW k \in Messages, k # m \/ d # Conversation(m)
    PROVE  Placed(d, k)'
<1>1. Placed(d, k)
  BY DEF AllPlaced
<1>2. Conversation(k)' = Conversation(k)
  BY DEF Conversation
<1>3. CASE k # m
  <2>1. turn'[k] = turn[k]
    BY <1>3 DEF TypeOK
  <2> QED
    BY <1>1, <1>2, <2>1 DEF Placed
<1>4. CASE k = m /\ d # Conversation(m)
  <2>1. \A role : At(history[d], role, k) = {}
    BY <1>1, <1>4 DEF Placed
  <2> QED
    BY <2>1 DEF Placed, Once, Closed
<1> QED
  BY <1>3, <1>4

\* What holds of the messages of a history holds of them when it shrinks.
LEMMA ShrunkPlaced ==
    ASSUME NEW s \in Seq(Turns), NEW t \in Seq(Turns), Shrinks(s, t), NEW c, NEW k \in Messages,
           history'[c] = t,
           \A role :
               At(s, role, k) # {}
               => /\ Conversation(k)' = c
                  /\ turn'[k] \in {"asked", "working", "answered", "open"}
                  /\ role = "assistant" => turn'[k] = "answered",
           Once(s, k), turn'[k] = "answered" => Closed(s, k)
    PROVE  Placed(c, k)'
<1>1. /\ \A role : At(t, role, k) # {} => At(s, role, k) # {}
      /\ Once(t, k)
      /\ Closed(s, k) => Closed(t, k)
  BY ShrinkKeeps
<1> QED
  BY <1>1 DEF Placed

\* The step of m in the conversation of m.
LEMMA TurnPlaced ==
    ASSUME TypeOK, TypeOK', AllPlaced, NEW m \in Messages, TurnStep(m)
    PROVE  /\ AllPlaced'
           /\ \A c \in Conversations, n \in Messages :
                  /\ At(history[c], "user", n) # {}
                  /\ At(history'[c], "user", n) = {}
                  => \/ turn'[n] = "rolled_back"
                     \/ \A k \in Messages :
                            (\E i \in At(history[c], "user", k), j \in At(history[c], "user", n) : i < j)
                                => At(history'[c], "user", k) = {}
<1> DEFINE Leaves(c, n) ==
        /\ At(history[c], "user", n) # {}
        /\ At(history'[c], "user", n) = {}
        => \/ turn'[n] = "rolled_back"
           \/ \A k \in Messages :
                  (\E i \in At(history[c], "user", k), j \in At(history[c], "user", n) : i < j)
                      => At(history'[c], "user", k) = {}
<1>1. PICK c, old : /\ c = Conversation(m) /\ c \in Conversations
                    /\ old = history[c] /\ old \in Seq(Turns) /\ Len(old) <= MaxHistory
  BY TurnTypes DEF TypeOK
<1>2. PICK x, new :
          /\ chat' = chat
          /\ turn' = [turn EXCEPT ![m] = x]
          /\ history' = [history EXCEPT ![c] = new]
          /\ \/ /\ new = old
                /\ \/ turn[m] = "none" /\ x = "returned"
                   \/ turn[m] = "asked" /\ x = "working"
                   \/ turn[m] = "working" /\ x = "open"
             \/ turn[m] = "none" /\ x = "returned" /\ new = <<>>
             \/ turn[m] = "none" /\ x = "asked" /\ new = Trimmed(Append(old, User(m)))
             \/ turn[m] = "working" /\ x = "answered" /\ new = Trimmed(Append(old, Assistant(m)))
             \/ turn[m] = "working" /\ x = "open" /\ new = Compacted(old)
             \/ /\ turn[m] = "working" /\ x = "rolled_back"
                /\ old # <<>> /\ Last(old) = User(m) /\ new = Front(old)
  BY <1>1, TurnStepHistory, ZenonT(40)
<1>3. /\ history'[c] = new /\ new \in Seq(Turns)
      /\ \A d \in Conversations : d # c => history'[d] = history[d]
      /\ turn'[m] = x /\ \A k \in Messages : k # m => turn'[k] = turn[k]
      /\ \A k \in Messages : Conversation(k)' = Conversation(k)
  BY <1>1, <1>2 DEF TypeOK, Conversation
<1>4. \A d \in Conversations : d # c => \A k \in Messages : Placed(d, k)'
  BY <1>1, <1>2, <1>3, OthersPlaced
<1>5. \A d \in Conversations : d # c => \A n \in Messages : Leaves(d, n)
  BY <1>3
<1>6. SUFFICES \A k \in Messages : Placed(c, k)' /\ Leaves(c, k)
  BY <1>1, <1>4, <1>5 DEF AllPlaced
<1>7. \A k \in Messages :
          /\ \A role :
                 At(old, role, k) # {}
                 => /\ Conversation(k) = c
                    /\ turn[k] \in {"asked", "working", "answered", "open"}
                    /\ role = "assistant" => turn[k] = "answered"
          /\ Once(old, k)
          /\ turn[k] = "answered" => Closed(old, k)
  BY <1>1 DEF AllPlaced, Placed
<1> HIDE DEF Leaves
\* A history that shrinks from s, which holds no less of the others than old.
<1>7a. User(m) \in Turns /\ Assistant(m) \in Turns
  BY TurnTypes DEF TypeOK
<1>8. ASSUME NEW s \in Seq(Turns), Shrinks(s, new),
             \A k \in Messages : k # m => \A role : At(s, role, k) = At(old, role, k),
             \A role : At(s, role, m) # {} => x \in {"asked", "working", "answered", "open"}
                                              /\ (role = "assistant" => x = "answered"),
             Once(s, m), x = "answered" => Closed(s, m),
             At(old, "user", m) \subseteq At(s, "user", m)
      PROVE  \A k \in Messages : Placed(c, k)' /\ Leaves(c, k)
  <2>1. \A k \in Messages :
            /\ \A role :
                   At(s, role, k) # {}
                   => /\ Conversation(k)' = c
                      /\ turn'[k] \in {"asked", "working", "answered", "open"}
                      /\ role = "assistant" => turn'[k] = "answered"
            /\ Once(s, k)
            /\ turn'[k] = "answered" => Closed(s, k)
    <3>1. ASSUME NEW k \in Messages, k # m
          PROVE  /\ \A role :
                        At(s, role, k) # {}
                        => /\ Conversation(k)' = c
                           /\ turn'[k] \in {"asked", "working", "answered", "open"}
                           /\ role = "assistant" => turn'[k] = "answered"
                 /\ Once(s, k)
                 /\ turn'[k] = "answered" => Closed(s, k)
      <4>1. \A role : At(s, role, k) = At(old, role, k)
        BY <1>8, <3>1
      <4>2. Once(s, k) /\ (Closed(old, k) => Closed(s, k))
        BY <1>7, <4>1 DEF Once, Closed
      <4> QED
        BY <1>3, <1>7, <3>1, <4>1, <4>2
    <3> QED
      BY <1>1, <1>3, <1>8, <3>1
  <2>2. ASSUME NEW k \in Messages
        PROVE  Placed(c, k)'
    BY <1>3, <1>8, <2>1, ShrunkPlaced
  <2>3. ASSUME NEW n \in Messages, At(old, "user", n) # {}, At(new, "user", n) = {},
               NEW k \in Messages,
               NEW i \in At(old, "user", k), NEW j \in At(old, "user", n), i < j
        PROVE  At(new, "user", k) = {}
    <3>1. At(s, "user", n) # {} /\ i \in At(s, "user", k) /\ j \in At(s, "user", n)
      BY <1>8, <2>3
    <3> QED
      BY <1>3, <1>8, <2>1, <2>3, <3>1, ShrinkKeeps
  <2> QED
    BY <1>1, <1>3, <2>2, <2>3 DEF Leaves
<1>9. \A role : At(old, role, m) # {} => turn[m] \in {"asked", "working", "answered", "open"}
  BY <1>7
<1>10. ASSUME new = old, \/ turn[m] = "none" /\ x = "returned"
                         \/ turn[m] = "asked" /\ x = "working"
                         \/ turn[m] = "working" /\ x = "open"
       PROVE  \A k \in Messages : Placed(c, k)' /\ Leaves(c, k)
  <2>1. ASSUME NEW k \in Messages
        PROVE  Placed(c, k)'
    BY <1>1, <1>3, <1>7, <1>10, <2>1 DEF Placed
  <2> QED
    BY <1>1, <1>3, <1>10, <2>1 DEF Leaves
<1>11. CASE new = <<>>
  <2>1. \A role, k : At(new, role, k) = {}
    BY <1>11 DEF At
  <2> QED
    BY <1>3, <2>1 DEF Placed, Once, Closed, Leaves
<1>12. CASE turn[m] = "none" /\ x = "asked" /\ new = Trimmed(Append(old, User(m)))
  <2>0. \A t \in Turns : Append(old, t) \in Seq(Turns) /\ Append(old, t) # <<>>
    BY <1>1
  <2>1. PICK s : s = Append(old, User(m)) /\ s \in Seq(Turns) /\ s # <<>>
    BY <1>7a, <2>0
  <2>2. Shrinks(s, new)
    BY <1>12, <2>1, TrimmedShrinks
  <2>3. ASSUME NEW role, NEW k
        PROVE  At(s, role, k) = At(old, role, k)
                   \cup (IF role = "user" /\ k = m THEN {Len(old) + 1} ELSE {})
    <3>1. PICK t : t = User(m) /\ t \in Turns /\ t.role = "user" /\ Range(t.of) = {m}
      BY <1>7a, TurnsOf
    <3>2. At(Append(old, t), role, k) = At(old, role, k)
              \cup (IF t.role = role /\ k \in Range(t.of) THEN {Len(old) + 1} ELSE {})
      BY <1>1, <3>1, AppendedAt
    <3>3. s = Append(old, t)
      BY <2>1, <3>1
    <3> QED
      BY <3>1, <3>2, <3>3
  <2>4. \A role : At(old, role, m) = {}
    BY <1>9, <1>12
  <2>5. Once(s, m) /\ \A role : At(s, role, m) # {} => role = "user"
    BY <2>3, <2>4 DEF Once
  <2>6. ASSUME NEW k \in Messages, k # m, NEW role
        PROVE  At(s, role, k) = At(old, role, k)
    <3>1. At(s, role, k) = At(old, role, k) \cup {}
      BY <2>3, <2>6
    <3> QED
      BY <3>1
  <2>7. At(old, "user", m) \subseteq At(s, "user", m)
    BY <2>3
  <2> QED
    BY <1>8, <1>12, <2>1, <2>2, <2>5, <2>6, <2>7
<1>13. CASE turn[m] = "working" /\ x = "answered" /\ new = Trimmed(Append(old, Assistant(m)))
  <2>0. \A t \in Turns : Append(old, t) \in Seq(Turns) /\ Append(old, t) # <<>>
    BY <1>1
  <2>1. PICK s : s = Append(old, Assistant(m)) /\ s \in Seq(Turns) /\ s # <<>>
    BY <1>7a, <2>0
  <2>2. Shrinks(s, new)
    BY <1>13, <2>1, TrimmedShrinks
  <2>3. ASSUME NEW role, NEW k
        PROVE  At(s, role, k) = At(old, role, k)
                   \cup (IF role = "assistant" /\ k = m THEN {Len(old) + 1} ELSE {})
    <3>1. PICK t : t = Assistant(m) /\ t \in Turns /\ t.role = "assistant" /\ Range(t.of) = {m}
      BY <1>7a, TurnsOf
    <3>2. At(Append(old, t), role, k) = At(old, role, k)
              \cup (IF t.role = role /\ k \in Range(t.of) THEN {Len(old) + 1} ELSE {})
      BY <1>1, <3>1, AppendedAt
    <3>3. s = Append(old, t)
      BY <2>1, <3>1
    <3> QED
      BY <3>1, <3>2, <3>3
  <2>4. At(s, "user", m) = At(old, "user", m) /\ Len(old) + 1 \in At(s, "assistant", m)
    BY <2>3, ZenonT(40)
  <2>5. Once(s, m)
    BY <1>7, <2>4 DEF Once
  <2>6. \A i \in At(s, "user", m) : i < Len(old) + 1
    BY <1>1, <2>4 DEF At
  <2>7. Closed(s, m)
    BY <2>4, <2>6 DEF Closed
  <2>8. ASSUME NEW k \in Messages, k # m, NEW role
        PROVE  At(s, role, k) = At(old, role, k)
    <3>1. At(s, role, k) = At(old, role, k) \cup {}
      BY <2>3, <2>8
    <3> QED
      BY <3>1
  <2>9. At(old, "user", m) \subseteq At(s, "user", m)
    BY <2>4
  <2> QED
    BY <1>8, <1>13, <2>1, <2>2, <2>5, <2>7, <2>8, <2>9
<1>14. CASE turn[m] = "working" /\ x = "open" /\ new = Compacted(old)
  <2>1. Shrinks(old, new)
    BY <1>1, <1>14, CompactedShrinks
  <2>2. \A role : At(old, role, m) # {} => role # "assistant"
    BY <1>7, <1>14
  <2> QED
    BY <1>1, <1>7, <1>8, <1>14, <2>1, <2>2
<1>15. CASE /\ turn[m] = "working" /\ x = "rolled_back"
            /\ old # <<>> /\ Last(old) = User(m) /\ new = Front(old)
  <2>1. /\ Len(old) \in At(old, "user", m)
        /\ \A role, k : Len(old) \in At(old, role, k) => role = "user" /\ k = m
    BY <1>1, <1>15, LastAt
  <2>2. \A role, k : At(new, role, k) = At(old, role, k) \ {Len(old)}
    BY <1>1, <1>15, FrontAt
  <2>3. ASSUME NEW role, NEW k, k # m
        PROVE  At(new, role, k) = At(old, role, k)
    <3>1. Len(old) \notin At(old, role, k)
      BY <2>1, <2>3
    <3> QED
      BY <2>2, <3>1
  <2>4. ASSUME NEW role
        PROVE  At(new, role, m) = {}
    <3>1. At(old, "assistant", m) = {}
      BY <1>7, <1>15
    <3>2. CASE role = "user"
      <4>1. \A i \in At(old, "user", m) : i = Len(old)
        BY <1>7, <2>1 DEF Once
      <4> QED
        BY <2>2, <3>2, <4>1
    <3>3. CASE role = "assistant"
      BY <2>2, <3>1, <3>3
    <3>4. CASE role \notin {"user", "assistant"}
      <4>1. \A i \in DOMAIN old : old[i].role \in {"user", "assistant"}
        <5>1. \A i \in DOMAIN old : old[i] \in Turns
          BY <1>1, ElementOfSeq
        <5> QED
          BY <5>1 DEF Turns
      <4> QED
        BY <2>2, <3>4, <4>1 DEF At
    <3> QED
      BY <3>2, <3>3, <3>4
  <2>5. ASSUME NEW k \in Messages
        PROVE  Placed(c, k)'
    <3>1. CASE k = m
      BY <1>3, <1>15, <2>4, <3>1 DEF Placed, Once, Closed
    <3>2. CASE k # m
      <4>1. \A role : At(new, role, k) = At(old, role, k)
        BY <2>3, <3>2
      <4>2. Once(new, k) /\ (Closed(old, k) => Closed(new, k))
        BY <1>7, <4>1 DEF Once, Closed
      <4> QED
        BY <1>3, <1>7, <3>2, <4>1, <4>2 DEF Placed
    <3> QED
      BY <3>1, <3>2
  <2> QED
    BY <1>1, <1>3, <1>15, <2>3, <2>5 DEF Leaves
<1> QED
  BY <1>2, <1>10, <1>11, <1>12, <1>13, <1>14, <1>15

LEMMA PlacedKept ==
    ASSUME TypeOK, TypeOK', DispatchInv, TurnsInWorkers, AllPlaced, [Next]_vars
    PROVE  AllPlaced'
<1>1. CASE UNCHANGED <<turn, history>>
  <2> SUFFICES ASSUME NEW c \in Conversations, NEW m \in Messages PROVE Placed(c, m)'
    BY DEF AllPlaced
  <2>1. Placed(c, m)
    BY DEF AllPlaced
  <2>2. turn[m] # "none" => Conversation(m)' = Conversation(m)
    BY WorkersKept DEF Conversation
  <2> QED
    BY <1>1, <2>1, <2>2 DEF Placed, Once, Closed
<1>2. ASSUME NEW m \in Messages, TurnStep(m)
      PROVE  AllPlaced'
  BY <1>2, TurnPlaced
<1> QED
  BY <1>1, <1>2 DEF Next, vars

\* Nobody else touches the history of m while m is at it.
LEMMA Undisturbed ==
    ASSUME TypeOK, DispatchInv, TurnsInWorkers, [Next]_vars,
           NEW m \in Messages, turn[m] \in {"asked", "working"}, Interrupts(m)', Alone(m)',
           turn'[m] = turn[m]
    PROVE  /\ Interrupts(m) /\ Alone(m) /\ worker[m] = "processing"
           /\ Conversation(m)' = Conversation(m)
           /\ history'[Conversation(m)] = history[Conversation(m)] /\ prompt'[m] = prompt[m]
<1>0. worker[m] = "processing" /\ chat'[m] = chat[m] /\ Conversation(m)' = Conversation(m)
  BY WorkersKept DEF TurnsInWorkers, Conversation
<1>1. ASSUME NEW k \in Messages, Conversation(k) = Conversation(m), chat[k] # chat[m]
      PROVE  turn[k] = "none"
  <2> SUFFICES ASSUME turn[k] # "none" PROVE FALSE
    OBVIOUS
  <2>1. chat'[k] = chat[k] /\ turn'[k] # "none"
    BY WorkersKept
  <2> QED
    BY <1>0, <1>1, <2>1 DEF Alone, Conversation
<1>2. ASSUME NEW k \in Messages, TurnStep(k)
      PROVE  history'[Conversation(m)] = history[Conversation(m)] /\ prompt'[m] = prompt[m]
  <2>1. PICK x, new :
            /\ worker[k] = "processing" /\ chat' = chat
            /\ turn' = [turn EXCEPT ![k] = x]
            /\ history' = [history EXCEPT ![Conversation(k)] = new]
            /\ x # turn[k] /\ x # "none"
    BY <1>2, TurnMoves
  <2>2. k # m
    BY <2>1 DEF TypeOK
  <2>3. prompt'[m] = prompt[m]
    BY <1>2, <2>2 DEF TypeOK, TurnStep, EndEarly, ClearHistory, AppendQuestion, ReadPrompt,
       Cancelled, Suppressed, Answered, Overflowed, RolledBack, EndTurn
  <2>4. chat[k] # chat[m]
    <3>1. chat[k] = chat[m] => k = m
      BY <1>0, <2>1, InvOneTurn DEF OneTurnPerChat, Interrupts
    <3> QED
      BY <2>2, <3>1
  <2>5. Conversation(k) # Conversation(m)
    <3> SUFFICES ASSUME Conversation(k) = Conversation(m) PROVE FALSE
      OBVIOUS
    <3>1. turn'[k] = x
      BY <2>1 DEF TypeOK
    <3>2. Conversation(k)' = Conversation(m)' /\ chat'[k] # chat'[m]
      BY <2>1, <2>4 DEF Conversation
    <3> QED
      BY <2>1, <3>1, <3>2 DEF Alone
  <2> QED
    BY <2>1, <2>3, <2>5 DEF TypeOK
<1>3. history'[Conversation(m)] = history[Conversation(m)] /\ prompt'[m] = prompt[m]
  BY <1>2 DEF Next, vars
<1> QED
  BY <1>0, <1>1, <1>3 DEF Alone, Interrupts

\* Who gets to the next stage of its turn.
LEMMA StageOf ==
    ASSUME TypeOK, [Next]_vars, NEW m \in Messages, turn'[m] # turn[m]
    PROVE  /\ TurnStep(m)
           /\ turn'[m] = "asked" => AppendQuestion(m)
           /\ turn'[m] = "working" => ReadPrompt(m)
<1>1. PICK k \in Messages : TurnStep(k)
  BY DEF Next, vars
<1>2. \E x : turn' = [turn EXCEPT ![k] = x]
  BY <1>1, TurnStepHistory
<1>3. k = m
  BY <1>2 DEF TypeOK
<1> QED
  BY <1>1, <1>3 DEF TypeOK, TurnStep, EndEarly, ClearHistory, Cancelled, Suppressed, Answered,
     Overflowed, RolledBack, EndTurn, Step, Ends, AppendQuestion, ReadPrompt

LEMMA AskedKept ==
    ASSUME TypeOK, TypeOK', DispatchInv, TurnsInWorkers, TurnsInWorkers', AskedIsLast, [Next]_vars
    PROVE  AskedIsLast'
<1> SUFFICES ASSUME NEW m \in Messages, InTurn(m, "asked")', Interrupts(m)', Alone(m)'
             PROVE  /\ history'[Conversation(m)'] # <<>>
                    /\ Last(history'[Conversation(m)']) = User(m)
  BY DEF AskedIsLast, User
<1>1. CASE turn'[m] = turn[m]
  <2>1. turn[m] = "asked"
    BY <1>1 DEF InTurn
  <2> QED
    BY <1>1, <2>1, Undisturbed DEF AskedIsLast, InTurn
<1>2. CASE turn'[m] # turn[m]
  <2>1. AppendQuestion(m)
    BY <1>2, StageOf DEF InTurn
  <2>2. PICK c, old : /\ c = Conversation(m) /\ c \in Conversations
                      /\ old = history[c] /\ old \in Seq(Turns)
    BY TurnTypes DEF TypeOK
  <2>3. Conversation(m)' = c /\ history'[c] = Trimmed(Append(old, User(m)))
    BY <2>1, <2>2 DEF AppendQuestion, AppendTurn, Conversation, dispatch, TypeOK
  <2>4. PICK t \in Turns : t = User(m)
    BY TurnTypes DEF TypeOK
  <2>5. Append(old, t) \in Seq(Turns) /\ Append(old, t) # <<>> /\ Last(Append(old, t)) = t
    BY <2>2 DEF Last
  <2> QED
    BY <2>3, <2>4, <2>5, TrimmedShrinks
<1> QED
  BY <1>1, <1>2

LEMMA OwnKept ==
    ASSUME TypeOK, TypeOK', DispatchInv, TurnsInWorkers, TurnsInWorkers', AskedIsLast,
           OwnQuestionIsLast, [Next]_vars
    PROVE  OwnQuestionIsLast'
<1> SUFFICES ASSUME NEW m \in Messages, InTurn(m, "working")', Interrupts(m)', Alone(m)'
             PROVE  /\ Last(prompt'[m]).role = "user"
                    /\ Last(Last(prompt'[m]).of) = m
  BY DEF OwnQuestionIsLast, Alone
<1>1. CASE turn'[m] = turn[m]
  <2>1. turn[m] = "working"
    BY <1>1 DEF InTurn
  <2>2. Interrupts(m) /\ Alone(m) /\ worker[m] = "processing" /\ prompt'[m] = prompt[m]
    BY <1>1, <2>1, Undisturbed
  <2> QED
    BY <2>1, <2>2 DEF OwnQuestionIsLast, InTurn, Alone
<1>2. CASE turn'[m] # turn[m]
  <2>1. ReadPrompt(m)
    BY <1>2, StageOf DEF InTurn
  <2>2. PICK c, old : /\ c = Conversation(m) /\ c \in Conversations
                      /\ old = history[c] /\ old \in Seq(Turns)
    BY TurnTypes DEF TypeOK
  <2>3. /\ prompt'[m] = Normalized(old) /\ InTurn(m, "asked")
        /\ chat' = chat /\ \A k \in Messages : k # m => turn'[k] = turn[k]
    BY <2>1, <2>2 DEF ReadPrompt, dispatch, Step, TypeOK
  <2>4. Interrupts(m) /\ Alone(m)
    BY <2>3 DEF Interrupts, Alone, Conversation
  <2>5. old # <<>> /\ Last(old) = User(m)
    BY <2>2, <2>3, <2>4 DEF AskedIsLast
  <2>6. User(m).role = "user" /\ User(m).of # <<>> /\ Last(User(m).of) = m
    BY DEF User, Last
  <2> QED
    BY <2>2, <2>3, <2>5, <2>6, NormalizedShrinks
<1> QED
  BY <1>1, <1>2

LEMMA HistoryInvariant == Spec => []HistoryInv
<1>1. HistoryInv /\ [Next]_vars => HistoryInv'
  BY TypesKept, WorkersKept, PlacedKept, AskedKept, OwnKept DEF HistoryInv
<1> QED
  BY <1>1, HistoryInit, PTL DEF Spec

-----------------------------------------------------------------------------
\* Histories hold turns of known messages, never more than MAX_CHANNEL_HISTORY of
\* them, however questions and answers of parallel turns are appended, trimmed,
\* compacted and taken back (append_sender_turn, compact_sender_history).
THEOREM TypeCorrect == Spec => []TypeOK
<1>1. HistoryInv => TypeOK
  BY DEF HistoryInv
<1> QED
  BY <1>1, HistoryInvariant, PTL

\* The model is asked the message's own question in an interrupting chat: nobody
\* who could append a turn between the question and the prompt is processed.
THEOREM OwnQuestionsAreAsked == Spec => []OwnQuestionIsLast
<1>1. HistoryInv => OwnQuestionIsLast
  BY DEF HistoryInv
<1> QED
  BY <1>1, HistoryInvariant, PTL

\* However long histories grow and whatever parallel turns do to them, a turn
\* that is over leaves no open question behind unless it was interrupted,
\* suppressed or overflowed.
THEOREM ClosedTurnsStayClosed == Spec => []OpenQuestionsExplained
<1>1. HistoryInv => OpenQuestionsExplained
  <2> SUFFICES ASSUME HistoryInv, NEW m \in Messages, At(history[Conversation(m)], "user", m) # {},
                      turn[m] \in Ends \ {"open"}
               PROVE  \E i \in At(history[Conversation(m)], "user", m),
                         j \in At(history[Conversation(m)], "assistant", m) : i < j
    BY DEF OpenQuestionsExplained
  <2>1. Conversation(m) \in Conversations
    BY TurnTypes DEF HistoryInv, TypeOK
  <2>2. Placed(Conversation(m), m)
    BY <2>1 DEF HistoryInv, AllPlaced
  <2>3. turn[m] = "answered"
    BY <2>2 DEF Placed, Ends
  <2> QED
    BY <2>2, <2>3 DEF Placed, Closed
<1> QED
  BY <1>1, HistoryInvariant, PTL

\* A question leaves a history with all that are older, or by its own rollback:
\* no failure takes the question of another turn.
THEOREM QuestionsLeaveOldestFirst == Spec => QuestionsLeaveInOrder
<1> DEFINE InOrder ==
        \A c \in Conversations, m \in Messages :
            /\ At(history[c], "user", m) # {}
            /\ At(history'[c], "user", m) = {}
            => \/ turn'[m] = "rolled_back"
               \/ \A k \in Messages :
                      (\E i \in At(history[c], "user", k), j \in At(history[c], "user", m) : i < j)
                          => At(history'[c], "user", k) = {}
<1>1. HistoryInv /\ HistoryInv' /\ [Next]_vars => [InOrder]_vars
  <2> SUFFICES ASSUME HistoryInv, HistoryInv', Next PROVE InOrder
    OBVIOUS
  <2>1. CASE history' = history
    BY <2>1
  <2>2. ASSUME NEW m \in Messages, TurnStep(m)
        PROVE  InOrder
    BY <2>2, TurnPlaced DEF HistoryInv
  <2> QED
    BY <2>1, <2>2 DEF Next
<1> QED
  BY <1>1, HistoryInvariant, PTL DEF Spec, QuestionsLeaveInOrder

\* With the turns of process_channel_message in its workers the dispatch is still
\* what ChannelDispatch and so ChatTurns say.
THEOREM HistoriesKeepTurns == Spec => ImplementsTurns
<1>1. Init => DispatchInit
  BY DEF Init
<1>2. Spec => DispatchSpec
  BY <1>1, NextDispatches, PTL DEF Spec, DispatchSpec
<1> QED
  BY <1>2, TurnsImplemented
=============================================================================
