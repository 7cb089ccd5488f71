-------------------------- MODULE FederationProofs --------------------------
(***************************************************************************)
(* Theorems about the two ends of a remote delegation: FederationTasks,    *)
(* for any number of streams, any log and any channel, RemoteDelegation,   *)
(* for any set of parallel calls, and DelegatedTask, which joins them.     *)
(*                                                                         *)
(* TasksInv places what a stream has passed on, and has yet to, in the     *)
(* task's events; DelegationInv says when a call's completion signal       *)
(* exists and what is known once a part of the machinery is through.       *)
(* DelegatedInv joins both and says that the call knows the task as it is. *)
(***************************************************************************)
EXTENDS DelegatedTask, SequenceTheorems, TLAPS

\* What TypeOK says of a reader.
Stream ==
    [state: {"none", "open", "ended", "gone"}, history: Seq(Event),
     next: Nat \ {0}, done: BOOLEAN, got: Seq(Event), lagged: BOOLEAN]

\* An event carries its place.
Numbered == \A i \in 1..Len(published) : published[i].n = i

\* The log is the newest part of what was published; only a cancel leaves it
\* one event too long.
LogIsTheTail ==
    /\ Len(events) <= Len(published)
    /\ \A i \in 1..Len(events) :
          events[i] = published[Len(published) - Len(events) + i]
    /\ handle # "taken" => Len(events) <= HistoryLimit

\* What a stream has passed on and has yet to replay.
Seen(s) == s.got \o s.history

\* A piece of all the task's events, up to where the receiver reads on.
Follows(all, seen, next, lagged) ==
    /\ next <= Len(all) + 1
    /\ \A i \in 1..Len(seen) :
          seen[i].n \in 1..Len(all) /\ seen[i] = all[seen[i].n]
    /\ \A i \in 1..(Len(seen) - 1) : seen[i].n < seen[i + 1].n
    /\ seen # <<>> => next = seen[Len(seen)].n + 1
    /\ ~lagged => Consecutive(seen)

\* What the stream knows of the task's end.
KnowsTheEnd(s) ==
    /\ s.done => \E i \in 1..Len(s.got) : IsTerminal(s.got[i])
    /\ s.state = "ended" => s.done
    /\ s.state = "none" => s.got = <<>> /\ s.history = <<>> /\ ~s.done /\ ~s.lagged

StreamInv(all, s) ==
    /\ Follows(all, Seen(s), s.next, s.lagged)
    /\ KnowsTheEnd(s)

TasksInv ==
    /\ TypeOK
    /\ Numbered
    /\ LogIsTheTail
    /\ \A r \in Readers : StreamInv(published, readers[r])

-----------------------------------------------------------------------------
(* Sequences *)

\* Passing on the head of what is left changes nothing in the whole.
LEMMA PassedOn ==
  ASSUME NEW S, NEW got \in Seq(S), NEW left \in Seq(S), left # <<>>
  PROVE  Append(got, Head(left)) \o Tail(left) = got \o left
<1>1. /\ Append(got, Head(left)) \in Seq(S)
      /\ Len(Append(got, Head(left))) = Len(got) + 1
      /\ Tail(left) \in Seq(S)
      /\ Len(Tail(left)) = Len(left) - 1
  OBVIOUS
<1>2. /\ Append(got, Head(left)) \o Tail(left) \in Seq(S)
      /\ got \o left \in Seq(S)
      /\ Len(Append(got, Head(left)) \o Tail(left)) = Len(got \o left)
  BY <1>1
<1>3. ASSUME NEW i \in 1..Len(got \o left)
      PROVE  (Append(got, Head(left)) \o Tail(left))[i] = (got \o left)[i]
  BY <1>1
<1> QED BY <1>2, <1>3, SeqEqual

\* The newest events of a log are in it, and as many as it may hold.
IsTrimmed(new, all) ==
    /\ new \in Seq(Event)
    /\ Len(new) \in 1..Len(all)
    /\ Len(new) <= HistoryLimit
    /\ \A i \in 1..Len(new) : new[i] = all[Len(all) - Len(new) + i]

LEMMA TrimmedLog ==
  ASSUME TasksAssumption, NEW all \in Seq(Event), Len(all) >= 1
  PROVE  IsTrimmed(Trimmed(all), all)
<1>1. HistoryLimit \in Nat /\ HistoryLimit >= 1
  BY DEF TasksAssumption
<1>2. CASE Len(all) <= HistoryLimit
  <2>1. Trimmed(all) = all
    BY <1>1, <1>2 DEF Trimmed
  <2> QED BY <1>1, <1>2, <2>1 DEF IsTrimmed
<1>3. CASE Len(all) > HistoryLimit
  <2> DEFINE first == Len(all) - HistoryLimit + 1
             newest == SubSeq(all, first, Len(all))
  <2>1. Trimmed(all) = newest
    BY <1>3 DEF Trimmed
  <2>2. first \in 1..Len(all) /\ Len(all) - first + 1 = HistoryLimit
    BY <1>1, <1>3
  <2> HIDE DEF first
  <2>3. /\ newest \in Seq(Event)
        /\ Len(newest) = HistoryLimit
        /\ \A i \in 1..HistoryLimit : newest[i] = all[first + i - 1]
    BY <1>1, <2>2
  <2> HIDE DEF newest
  <2>4. \A i \in 1..HistoryLimit : first + i - 1 = Len(all) - HistoryLimit + i
    BY <1>1 DEF first
  <2> QED BY <1>1, <1>3, <2>1, <2>3, <2>4 DEF IsTrimmed
<1> QED BY <1>1, <1>2, <1>3

-----------------------------------------------------------------------------
(* Events *)

LEMMA TasksInit == ASSUME TasksAssumption, Init PROVE TasksInv
<1>1. HistoryLimit \in Nat /\ HistoryLimit >= 1
  BY DEF TasksAssumption
<1>2. TypeOK
  <2>1. NoStream \in
           [state: {"none", "open", "ended", "gone"}, history: Seq(Event),
            next: Nat \ {0}, done: BOOLEAN, got: Seq(Event), lagged: BOOLEAN]
    BY EmptySeq DEF NoStream
  <2>2. <<>> \in Seq(Event) /\ Len(<<>>) = 0
    BY EmptySeq
  <2>3. readers \in [Readers ->
           [state: {"none", "open", "ended", "gone"}, history: Seq(Event),
            next: Nat \ {0}, done: BOOLEAN, got: Seq(Event), lagged: BOOLEAN]]
    BY <2>1 DEF Init
  <2>4. aborted = FALSE /\ handle = "unset" /\ work = "none"
    BY DEF Init
  <2>5. /\ events \in Seq(Event) /\ published \in Seq(Event)
        /\ Len(events) <= HistoryLimit + 1
    BY <1>1, <2>2 DEF Init
  <2> QED BY <2>3, <2>4, <2>5 DEF TypeOK
<1>3. Numbered /\ LogIsTheTail
  BY <1>1 DEF Init, Numbered, LogIsTheTail
<1>4. ASSUME NEW r \in Readers PROVE StreamInv(published, readers[r])
  <2>1. readers[r] = NoStream /\ published = <<>>
    BY DEF Init
  <2>2. Seen(readers[r]) = <<>> /\ Len(Seen(readers[r])) = 0
    BY <2>1 DEF Seen, NoStream
  <2> QED BY <2>1, <2>2 DEF StreamInv, Follows, Consecutive, KnowsTheEnd, NoStream
<1> QED BY <1>2, <1>3, <1>4 DEF TasksInv

\* One more event, of the next number.
LEMMA NextEvent ==
  ASSUME TypeOK, NEW type \in {"status", "done", "error"}
  PROVE  /\ NewEvent(type) \in Event
         /\ NewEvent(type).n = Len(published) + 1
         /\ Append(published, NewEvent(type)) \in Seq(Event)
         /\ Append(events, NewEvent(type)) \in Seq(Event)
<1>1. published \in Seq(Event) /\ events \in Seq(Event)
  BY DEF TypeOK
<1>2. Len(published) + 1 \in Nat \ {0}
  BY <1>1
<1>3. NewEvent(type) \in Event
  BY <1>2 DEF NewEvent, Event
<1> QED BY <1>1, <1>3 DEF NewEvent

LEMMA PublishedNumbered ==
  ASSUME TypeOK, Numbered, NEW type \in {"status", "done", "error"},
         published' = Append(published, NewEvent(type))
  PROVE  Numbered'
<1>1. published \in Seq(Event)
  BY DEF TypeOK
<1>2. NewEvent(type) \in Event /\ NewEvent(type).n = Len(published) + 1
  BY NextEvent
<1> HIDE DEF NewEvent
<1>3. Len(published') = Len(published) + 1
  BY <1>1, <1>2
<1>4. \A i \in 1..Len(published) : published'[i] = published[i]
  BY <1>1, <1>2
<1>5. published'[Len(published) + 1] = NewEvent(type)
  BY <1>1, <1>2
<1> QED BY <1>1, <1>2, <1>3, <1>4, <1>5 DEF Numbered

\* A longer log and a longer history of events end with the same ones.
LEMMA AppendedTail ==
  ASSUME TypeOK, LogIsTheTail, NEW e \in Event
  PROVE  \A i \in 1..(Len(events) + 1) :
            Append(events, e)[i]
                = Append(published, e)[Len(published) - Len(events) + i]
<1>1. /\ published \in Seq(Event) /\ events \in Seq(Event)
      /\ Len(events) \in Nat /\ Len(published) \in Nat
      /\ Len(events) <= Len(published)
  BY DEF TypeOK, LogIsTheTail
<1>2. ASSUME NEW i \in 1..(Len(events) + 1), i # Len(events) + 1
      PROVE  Append(events, e)[i]
                 = Append(published, e)[Len(published) - Len(events) + i]
  <2>1. /\ i \in 1..Len(events)
        /\ Len(published) - Len(events) + i \in 1..Len(published)
    BY <1>1, <1>2
  <2>2. /\ Append(events, e)[i] = events[i]
        /\ Append(published, e)[Len(published) - Len(events) + i]
               = published[Len(published) - Len(events) + i]
    BY <1>1, <2>1, AppendProperties
  <2> QED BY <2>1, <2>2 DEF LogIsTheTail
<1>3. Append(events, e)[Len(events) + 1]
          = Append(published, e)[Len(published) - Len(events) + (Len(events) + 1)]
  <2>1. Len(published) - Len(events) + (Len(events) + 1) = Len(published) + 1
    BY <1>1
  <2> QED BY <1>1, <2>1, AppendProperties
<1>4. ASSUME NEW i \in 1..(Len(events) + 1)
      PROVE  Append(events, e)[i]
                 = Append(published, e)[Len(published) - Len(events) + i]
  <2>1. CASE i = Len(events) + 1
    BY <1>3, <2>1
  <2>2. CASE i # Len(events) + 1
    BY <1>2, <2>2
  <2> QED BY <2>1, <2>2
<1> QED BY <1>4

\* publish
LEMMA PublishLog ==
  ASSUME TasksAssumption, TypeOK, LogIsTheTail, handle' = handle,
         NEW type \in {"status", "done", "error"}, Publish(type)
  PROVE  /\ LogIsTheTail'
         /\ events' \in Seq(Event) /\ Len(events') <= HistoryLimit + 1
<1> DEFINE e == NewEvent(type)
           all == Append(events, e)
<1>1. /\ published \in Seq(Event) /\ events \in Seq(Event)
      /\ Len(events) \in Nat /\ Len(published) \in Nat
      /\ Len(events) <= Len(published)
      /\ HistoryLimit \in Nat
  BY DEF TypeOK, LogIsTheTail, TasksAssumption
<1>2. e \in Event
  BY NextEvent
<1>3. events' = Trimmed(all) /\ published' = Append(published, e)
  BY DEF Publish
<1>4. \A i \in 1..(Len(events) + 1) :
          all[i] = published'[Len(published) - Len(events) + i]
  BY <1>2, <1>3, AppendedTail
<1> HIDE DEF e
<1>5. /\ all \in Seq(Event) /\ Len(all) = Len(events) + 1
      /\ Len(published') = Len(published) + 1
  BY <1>1, <1>2, <1>3
<1> HIDE DEF all
<1>6. IsTrimmed(events', all)
  BY <1>1, <1>3, <1>5, TrimmedLog
<1>7. /\ events' \in Seq(Event)
      /\ Len(events') \in 1..(Len(events) + 1)
      /\ Len(events') <= HistoryLimit
      /\ \A i \in 1..Len(events') :
            events'[i] = all[Len(events) + 1 - Len(events') + i]
  BY <1>5, <1>6 DEF IsTrimmed
<1>8. ASSUME NEW i \in 1..Len(events')
      PROVE  events'[i] = published'[Len(published') - Len(events') + i]
  <2> DEFINE j == Len(events) + 1 - Len(events') + i
  <2>1. j \in 1..(Len(events) + 1)
    BY <1>1, <1>7
  <2>2. Len(published) - Len(events) + j = Len(published') - Len(events') + i
    BY <1>1, <1>5, <1>7
  <2>3. events'[i] = all[j]
    BY <1>7
  <2> HIDE DEF j
  <2> QED BY <1>4, <2>1, <2>2, <2>3
<1>9. Len(events') <= Len(published')
  BY <1>1, <1>5, <1>7
<1>10. /\ Len(events') <= HistoryLimit
       /\ Len(events') <= HistoryLimit + 1
  BY <1>1, <1>7
<1>11. LogIsTheTail'
  BY <1>8, <1>9, <1>10 DEF LogIsTheTail
<1> QED BY <1>7, <1>10, <1>11

\* cancel
LEMMA CancelLog ==
  ASSUME TasksAssumption, TypeOK, LogIsTheTail, Cancel
  PROVE  /\ LogIsTheTail'
         /\ events' \in Seq(Event) /\ Len(events') <= HistoryLimit + 1
<1> DEFINE e == NewEvent("error")
<1>1. /\ published \in Seq(Event) /\ events \in Seq(Event)
      /\ Len(events) \in Nat /\ Len(published) \in Nat
      /\ Len(events) <= Len(published)
      /\ HistoryLimit \in Nat
  BY DEF TypeOK, LogIsTheTail, TasksAssumption
<1>2. e \in Event
  BY NextEvent
<1>3. /\ events' = Append(events, e) /\ published' = Append(published, e)
      /\ handle' = "taken"
      /\ Len(events) <= HistoryLimit
  BY DEF Cancel, LogIsTheTail
<1>4. \A i \in 1..(Len(events) + 1) :
          events'[i] = published'[Len(published) - Len(events) + i]
  BY <1>2, <1>3, AppendedTail
<1> HIDE DEF e
<1>5. /\ events' \in Seq(Event) /\ Len(events') = Len(events) + 1
      /\ Len(published') = Len(published) + 1
  BY <1>1, <1>2, <1>3
<1>6. Len(published') - Len(events') = Len(published) - Len(events)
  BY <1>1, <1>5
<1>7. /\ Len(events') <= Len(published')
      /\ Len(events') <= HistoryLimit + 1
  BY <1>1, <1>3, <1>5
<1>8. \A i \in 1..Len(events') :
          events'[i] = published'[Len(published') - Len(events') + i]
  BY <1>4, <1>5, <1>6
<1>9. LogIsTheTail'
  BY <1>3, <1>7, <1>8 DEF LogIsTheTail
<1> QED BY <1>5, <1>7, <1>9

-----------------------------------------------------------------------------
(* The log and the task *)

LEMMA LogStep ==
  ASSUME TasksAssumption, TasksInv, [Next]_vars
  PROVE  /\ Numbered' /\ LogIsTheTail'
         /\ events' \in Seq(Event) /\ Len(events') <= HistoryLimit + 1
         /\ published' \in Seq(Event)
<1> USE DEF TasksInv
<1>1. /\ published \in Seq(Event) /\ events \in Seq(Event)
      /\ Len(events) <= HistoryLimit + 1
  BY DEF TypeOK
<1>2. ASSUME NEW type \in {"status", "done", "error"},
             Publish(type), handle' = handle
      PROVE  /\ Numbered' /\ LogIsTheTail'
             /\ events' \in Seq(Event) /\ Len(events') <= HistoryLimit + 1
             /\ published' \in Seq(Event)
  <2>1. published' = Append(published, NewEvent(type))
    BY <1>2 DEF Publish
  <2> QED BY <1>2, <2>1, NextEvent, PublishedNumbered, PublishLog
<1>3. CASE Progress
  BY <1>2, <1>3 DEF Progress
<1>4. ASSUME NEW type \in {"done", "error"}, Conclude(type)
      PROVE  /\ Numbered' /\ LogIsTheTail'
             /\ events' \in Seq(Event) /\ Len(events') <= HistoryLimit + 1
             /\ published' \in Seq(Event)
  BY <1>2, <1>4 DEF Conclude
<1>5. CASE Cancel
  <2>1. published' = Append(published, NewEvent("error"))
    BY <1>5 DEF Cancel
  <2> QED BY <1>5, <2>1, NextEvent, PublishedNumbered, CancelLog
<1>6. CASE UNCHANGED <<events, published>> /\ (handle' = "taken" <=> handle = "taken")
  BY <1>1, <1>6 DEF Numbered, LogIsTheTail
<1>7. CASE Create \/ TaskAborts \/ SetRunningHandle \/ UNCHANGED vars
  BY <1>6, <1>7 DEF Create, TaskAborts, SetRunningHandle, vars, task
<1>8. ASSUME NEW r \in Readers, Subscribe(r) \/ StreamStep(r) \/ Disconnect(r)
      PROVE  UNCHANGED <<events, published>> /\ handle' = handle
  BY <1>8 DEF Subscribe, StreamStep, Replay, Receive, EndStream, Disconnect, task
<1> QED BY <1>3, <1>4, <1>5, <1>6, <1>7, <1>8 DEF Next, WorkStep

-----------------------------------------------------------------------------
(* The streams *)

\* What the types say of one stream.
LEMMA StreamTypes ==
  ASSUME TypeOK, NEW r \in Readers
  PROVE  LET s == readers[r]
         IN /\ s.got \in Seq(Event) /\ s.history \in Seq(Event)
            /\ Seen(s) \in Seq(Event)
            /\ s.next \in Nat \ {0}
            /\ s.done \in BOOLEAN /\ s.lagged \in BOOLEAN
            /\ s = [state |-> s.state, history |-> s.history, next |-> s.next,
                    done |-> s.done, got |-> s.got, lagged |-> s.lagged]
<1>1. readers[r] \in Stream
  BY DEF TypeOK, Stream
<1> QED BY <1>1 DEF Seen, Stream

\* An event that is published leaves the streams what they are.
LEMMA StreamsUnmoved ==
  ASSUME TypeOK, NEW r \in Readers, StreamInv(published, readers[r]),
         published' = published
             \/ \E e \in Event : published' = Append(published, e)
  PROVE  StreamInv(published', readers[r])
<1> DEFINE s == readers[r]
           seen == Seen(s)
<1>1. published \in Seq(Event) /\ seen \in Seq(Event) /\ s.next \in Nat
  BY StreamTypes DEF TypeOK
<1>2. /\ Len(published') \in Nat /\ Len(published') >= Len(published)
      /\ \A i \in 1..Len(published) : published'[i] = published[i]
  BY <1>1
<1>3. Follows(published, seen, s.next, s.lagged)
  BY DEF StreamInv
<1> HIDE DEF seen
<1>4. /\ s.next <= Len(published') + 1
      /\ \A i \in 1..Len(seen) :
            seen[i].n \in 1..Len(published') /\ seen[i] = published'[seen[i].n]
  <2> HIDE DEF s
  <2> QED BY <1>1, <1>2, <1>3 DEF Follows
<1>5. Follows(published', seen, s.next, s.lagged)
  BY <1>3, <1>4 DEF Follows
<1> QED BY <1>5 DEF StreamInv, seen

LEMMA SubscribeFollows ==
  ASSUME TasksInv, NEW r \in Readers, Subscribe(r)
  PROVE  StreamInv(published, readers'[r])
<1> DEFINE s == readers[r]
           t == readers'[r]
<1>1. /\ published \in Seq(Event) /\ events \in Seq(Event)
      /\ Len(events) <= Len(published)
      /\ \A i \in 1..Len(events) :
            events[i] = published[Len(published) - Len(events) + i]
      /\ \A i \in 1..Len(published) : published[i].n = i
  BY DEF TasksInv, TypeOK, LogIsTheTail, Numbered
<1>2. s.got = <<>> /\ ~s.done /\ ~s.lagged /\ s.state = "none"
  BY DEF TasksInv, StreamInv, KnowsTheEnd, Subscribe
<1>3. /\ t.state = "open" /\ t.history = events /\ t.next = Len(published) + 1
      /\ t.got = s.got /\ t.done = s.done /\ t.lagged = s.lagged
  BY StreamTypes DEF Subscribe, TasksInv, TypeOK
<1>4. Seen(t) = events
  BY <1>1, <1>2, <1>3 DEF Seen
<1>5. \A i \in 1..Len(events) :
          /\ events[i].n = Len(published) - Len(events) + i
          /\ events[i].n \in 1..Len(published)
  <2>1. Len(events) \in Nat /\ Len(published) \in Nat
    BY <1>1
  <2>2. ASSUME NEW i \in 1..Len(events)
        PROVE  /\ events[i].n = Len(published) - Len(events) + i
               /\ events[i].n \in 1..Len(published)
    <3>1. Len(published) - Len(events) + i \in 1..Len(published)
      BY <1>1, <2>1
    <3>2. events[i].n = published[Len(published) - Len(events) + i].n
      BY <1>1
    <3>3. published[Len(published) - Len(events) + i].n = Len(published) - Len(events) + i
      BY <1>1, <3>1
    <3> QED BY <3>1, <3>2, <3>3
  <2> QED BY <2>2
<1>6. /\ \A i \in 1..(Len(events) - 1) : events[i + 1].n = events[i].n + 1
      /\ \A i \in 1..(Len(events) - 1) : events[i].n < events[i + 1].n
      /\ events # <<>> => Len(published) + 1 = events[Len(events)].n + 1
  <2>1. Len(events) \in Nat /\ Len(published) \in Nat
    BY <1>1
  <2>2. ASSUME NEW i \in 1..(Len(events) - 1)
        PROVE  events[i + 1].n = events[i].n + 1 /\ events[i].n < events[i + 1].n
    <3>1. i \in 1..Len(events) /\ i + 1 \in 1..Len(events)
      BY <2>1
    <3>2. /\ events[i].n = Len(published) - Len(events) + i
          /\ events[i + 1].n = Len(published) - Len(events) + (i + 1)
      BY <1>5, <3>1
    <3> QED BY <2>1, <3>2
  <2>3. ASSUME events # <<>> PROVE Len(published) + 1 = events[Len(events)].n + 1
    <3>1. Len(events) \in 1..Len(events)
      BY <1>1, <2>3, EmptySeq
    <3>2. events[Len(events)].n = Len(published) - Len(events) + Len(events)
      BY <1>5, <3>1
    <3> QED BY <2>1, <3>2
  <2> QED BY <2>2, <2>3
<1>7. Follows(published, events, Len(published) + 1, FALSE)
  BY <1>1, <1>5, <1>6 DEF Follows, Consecutive
<1> QED BY <1>2, <1>3, <1>4, <1>7 DEF StreamInv, KnowsTheEnd, Follows

LEMMA ReplayFollows ==
  ASSUME TasksInv, NEW r \in Readers, Replay(r)
  PROVE  StreamInv(published, readers'[r])
<1> DEFINE s == readers[r]
           t == readers'[r]
<1>1. /\ s.got \in Seq(Event) /\ s.history \in Seq(Event) /\ s.history # <<>>
      /\ s.state = "open"
  BY StreamTypes DEF TasksInv, Replay
<1>2. /\ t.got = Append(s.got, Head(s.history)) /\ t.history = Tail(s.history)
      /\ t.done = (s.done \/ IsTerminal(Head(s.history)))
      /\ t.next = s.next /\ t.lagged = s.lagged /\ t.state = "open"
  BY <1>1, StreamTypes DEF Replay, TasksInv, TypeOK
<1>3. StreamInv(published, s)
  BY DEF TasksInv
<1> HIDE DEF s, t
<1>4. Seen(t) = Seen(s)
  BY <1>1, <1>2, PassedOn DEF Seen
<1>5. /\ Len(t.got) = Len(s.got) + 1 /\ Len(s.got) \in Nat
      /\ t.got[Len(s.got) + 1] = Head(s.history)
      /\ \A i \in 1..Len(s.got) : t.got[i] = s.got[i]
  BY <1>1, <1>2
<1>6. ASSUME t.done PROVE \E i \in 1..Len(t.got) : IsTerminal(t.got[i])
  <2>1. CASE IsTerminal(Head(s.history))
    BY <1>5, <2>1
  <2>2. CASE s.done
    <3>1. PICK i \in 1..Len(s.got) : IsTerminal(s.got[i])
      BY <1>3, <2>2 DEF StreamInv, KnowsTheEnd
    <3>2. i \in 1..Len(t.got) /\ t.got[i] = s.got[i]
      BY <1>5
    <3> QED BY <3>1, <3>2
  <2> QED BY <1>2, <1>6, <2>1, <2>2
<1>7. Follows(published, Seen(t), t.next, t.lagged)
  BY <1>2, <1>3, <1>4 DEF StreamInv
<1> QED BY <1>2, <1>6, <1>7 DEF StreamInv, KnowsTheEnd, t

LEMMA ReceiveFollows ==
  ASSUME TasksAssumption, TasksInv, NEW r \in Readers, Receive(r)
  PROVE  /\ StreamInv(published, readers'[r])
         /\ Oldest(readers[r].next) \in 1..Len(published)
<1> DEFINE s == readers[r]
           t == readers'[r]
           n == Oldest(s.next)
           seen == Seen(s)
<1>1. /\ published \in Seq(Event) /\ s.got \in Seq(Event) /\ s.history = <<>>
      /\ s.next \in Nat \ {0} /\ s.next <= Len(published) /\ s.lagged \in BOOLEAN
      /\ Capacity \in Nat /\ Capacity >= 1
      /\ \A i \in 1..Len(published) : published[i].n = i
  BY StreamTypes DEF TasksInv, TypeOK, Receive, Numbered, TasksAssumption
<1>2. n \in s.next..Len(published)
  BY <1>1 DEF Oldest
<1>3. /\ t.got = Append(s.got, published[n]) /\ t.history = s.history
      /\ t.next = n + 1 /\ t.done = IsTerminal(published[n])
      /\ t.lagged = (s.lagged \/ n > s.next) /\ t.state = "open"
  <2>1. DOMAIN readers = Readers /\ s \in Stream
    BY DEF TasksInv, TypeOK, Stream
  <2>2. s.state = "open"
    BY DEF Receive
  <2>3. t = [s EXCEPT !.got = Append(@, published[n]), !.next = n + 1,
                      !.done = IsTerminal(published[n]),
                      !.lagged = @ \/ n > s.next]
    BY <2>1 DEF Receive
  <2> HIDE DEF s, t, n
  <2> QED BY <2>1, <2>2, <2>3 DEF Stream
<1>4. Follows(published, seen, s.next, s.lagged)
  BY DEF TasksInv, StreamInv
<1>5. seen = s.got /\ Seen(t) = t.got
  BY <1>1, <1>3 DEF Seen
<1> HIDE DEF s, t, n, seen
<1>6. n \in 1..Len(published) /\ published[n] \in Event /\ published[n].n = n
  BY <1>1, <1>2
<1>7. /\ t.got \in Seq(Event) /\ Len(t.got) = Len(seen) + 1 /\ Len(seen) \in Nat
      /\ t.got[Len(seen) + 1] = published[n]
      /\ \A i \in 1..Len(seen) : t.got[i] = seen[i]
      /\ t.got # <<>>
  <2>1. seen \in Seq(Event) /\ t.got = Append(seen, published[n])
    BY <1>1, <1>3, <1>5
  <2> QED BY <1>6, <2>1, AppendProperties
<1>8. \A i \in 1..Len(t.got) :
          t.got[i].n \in 1..Len(published) /\ t.got[i] = published[t.got[i].n]
  <2> SUFFICES ASSUME NEW i \in 1..Len(t.got)
               PROVE  t.got[i].n \in 1..Len(published)
                          /\ t.got[i] = published[t.got[i].n]
    OBVIOUS
  <2>1. CASE i = Len(seen) + 1
    BY <1>6, <1>7, <2>1
  <2>2. CASE i \in 1..Len(seen)
    BY <1>4, <1>7, <2>2 DEF Follows
  <2> QED BY <1>7, <2>1, <2>2
<1>9. ASSUME NEW i \in 1..(Len(t.got) - 1)
      PROVE  /\ t.got[i].n < t.got[i + 1].n
             /\ ~t.lagged => t.got[i + 1].n = t.got[i].n + 1
  <2>1. CASE i = Len(seen)
    <3>1. seen # <<>> /\ t.got[i] = seen[Len(seen)] /\ t.got[i + 1] = published[n]
      BY <1>7, <2>1, EmptySeq
    <3>2. s.next = seen[Len(seen)].n + 1 /\ seen[Len(seen)].n \in Nat
      BY <1>4, <1>7, <2>1, <3>1 DEF Follows
    <3>3. t.got[i].n = s.next - 1 /\ t.got[i + 1].n = n
      BY <1>1, <1>6, <3>1, <3>2
    <3>4. n \in Nat /\ s.next \in Nat /\ s.next <= n
      BY <1>1, <1>2
    <3>5. ~t.lagged => ~(n > s.next)
      BY <1>3
    <3> QED BY <3>3, <3>4, <3>5
  <2>2. CASE i # Len(seen)
    <3>1. i \in 1..(Len(seen) - 1) /\ i \in 1..Len(seen) /\ i + 1 \in 1..Len(seen)
      BY <1>7, <2>2
    <3>2. t.got[i] = seen[i] /\ t.got[i + 1] = seen[i + 1]
      BY <1>7, <3>1
    <3> QED BY <1>3, <1>4, <3>1, <3>2 DEF Follows, Consecutive
  <2> QED BY <2>1, <2>2
<1>10. t.next = t.got[Len(t.got)].n + 1 /\ t.next <= Len(published) + 1
  BY <1>1, <1>3, <1>6, <1>7
<1>11. Follows(published, t.got, t.next, t.lagged)
  BY <1>8, <1>9, <1>10 DEF Follows, Consecutive
<1>12. ASSUME t.done PROVE \E i \in 1..Len(t.got) : IsTerminal(t.got[i])
  <2>1. Len(seen) + 1 \in 1..Len(t.got)
    BY <1>7
  <2>2. IsTerminal(t.got[Len(seen) + 1])
    BY <1>3, <1>7, <1>12
  <2> QED BY <2>1, <2>2
<1> QED BY <1>3, <1>5, <1>6, <1>11, <1>12 DEF StreamInv, KnowsTheEnd, t, n, s

LEMMA EndFollows ==
  ASSUME TasksInv, NEW r \in Readers, EndStream(r) \/ Disconnect(r)
  PROVE  StreamInv(published, readers'[r])
<1> DEFINE s == readers[r]
           t == readers'[r]
<1>1. /\ t.got = s.got /\ t.history = s.history /\ t.next = s.next
      /\ t.done = s.done /\ t.lagged = s.lagged
      /\ t.state \in {"gone", "ended"} /\ (t.state = "ended" => s.done)
  BY StreamTypes DEF EndStream, Disconnect, TasksInv, TypeOK
<1>2. StreamInv(published, s)
  BY DEF TasksInv
<1> HIDE DEF s, t
<1>3. StreamInv(published, t)
  BY <1>1, <1>2 DEF StreamInv, KnowsTheEnd, Seen
<1> QED BY <1>3 DEF t

\* Every step keeps every stream a piece of the task's events.
LEMMA StreamsStep ==
  ASSUME TasksAssumption, TasksInv, [Next]_vars, NEW r \in Readers
  PROVE  StreamInv(published', readers'[r])
<1>1. TypeOK /\ StreamInv(published, readers[r])
  BY DEF TasksInv
<1>2. ASSUME readers'[r] = readers[r],
             published' = published
                 \/ \E e \in Event : published' = Append(published, e)
      PROVE  StreamInv(published', readers'[r])
  BY <1>1, <1>2, StreamsUnmoved
<1>3. CASE Create \/ SetRunningHandle \/ TaskAborts \/ UNCHANGED vars
  BY <1>2, <1>3 DEF Create, SetRunningHandle, TaskAborts, vars
<1>4. CASE Progress \/ (\E type \in {"done", "error"} : Conclude(type)) \/ Cancel
  <2>1. readers' = readers
    BY <1>4 DEF Progress, Conclude, Cancel
  <2>2. PICK type \in {"status", "done", "error"} :
             published' = Append(published, NewEvent(type))
    BY <1>4 DEF Progress, Conclude, Cancel, Publish
  <2>3. NewEvent(type) \in Event
    BY <1>1, NextEvent
  <2> QED BY <1>2, <2>1, <2>2, <2>3
<1>5. ASSUME NEW q \in Readers, Subscribe(q) \/ StreamStep(q) \/ Disconnect(q)
      PROVE  StreamInv(published', readers'[r])
  <2>1. published' = published
    BY <1>5 DEF Subscribe, StreamStep, Replay, Receive, EndStream, Disconnect
  <2>2. CASE q = r
    BY <1>5, <2>1, <2>2, SubscribeFollows, ReplayFollows, ReceiveFollows, EndFollows
       DEF StreamStep
  <2>3. CASE q # r
    <3>1. readers'[r] = readers[r]
      BY <1>1, <1>5, <2>3
         DEF Subscribe, StreamStep, Replay, Receive, EndStream, Disconnect, TypeOK
    <3> QED BY <1>2, <2>1, <3>1
  <2> QED BY <2>2, <2>3
<1> QED BY <1>3, <1>4, <1>5 DEF Next, WorkStep

-----------------------------------------------------------------------------
(* Types *)

\* One stream becomes another.
LEMMA StreamReplaced ==
  ASSUME readers \in [Readers -> Stream], NEW r \in Readers, NEW s \in Stream,
         readers' = [readers EXCEPT ![r] = s]
  PROVE  readers' \in [Readers -> Stream]
OBVIOUS

LEMMA StreamsTyped ==
  ASSUME TasksAssumption, TasksInv, [Next]_vars
  PROVE  readers' \in [Readers -> Stream]
<1>1. /\ readers \in [Readers -> Stream]
      /\ published \in Seq(Event) /\ events \in Seq(Event)
  BY DEF TasksInv, TypeOK, Stream
<1>2. ASSUME NEW r \in Readers, Subscribe(r) PROVE readers' \in [Readers -> Stream]
  <2>1. Len(published) + 1 \in Nat \ {0}
    BY <1>1
  <2>2. [readers[r] EXCEPT
            !.state = "open", !.history = events, !.next = Len(published) + 1] \in Stream
    BY <1>1, <2>1 DEF Stream
  <2> QED BY <1>1, <1>2, <2>2, StreamReplaced DEF Subscribe
<1>3. ASSUME NEW r \in Readers, Replay(r) PROVE readers' \in [Readers -> Stream]
  <2>1. /\ readers[r].history \in Seq(Event) /\ readers[r].history # <<>>
        /\ readers[r].got \in Seq(Event) /\ readers[r].done \in BOOLEAN
    BY <1>1, <1>3 DEF Stream, Replay
  <2>2. /\ Tail(readers[r].history) \in Seq(Event)
        /\ Append(readers[r].got, Head(readers[r].history)) \in Seq(Event)
        /\ (readers[r].done \/ IsTerminal(Head(readers[r].history))) \in BOOLEAN
    BY <2>1
  <2>3. [readers[r] EXCEPT
            !.got = Append(@, Head(readers[r].history)),
            !.done = @ \/ IsTerminal(Head(readers[r].history)),
            !.history = Tail(@)] \in Stream
    BY <1>1, <2>2 DEF Stream
  <2> QED BY <1>1, <1>3, <2>3, StreamReplaced DEF Replay
<1>4. ASSUME NEW r \in Readers, Receive(r) PROVE readers' \in [Readers -> Stream]
  <2> DEFINE n == Oldest(readers[r].next)
  <2>1. n \in 1..Len(published)
    BY <1>4, ReceiveFollows
  <2>2. readers[r].got \in Seq(Event) /\ readers[r].lagged \in BOOLEAN
    BY <1>1 DEF Stream
  <2>3. readers' = [readers EXCEPT
            ![r].got = Append(@, published[n]), ![r].next = n + 1,
            ![r].done = IsTerminal(published[n]),
            ![r].lagged = @ \/ n > readers[r].next]
    BY <1>4 DEF Receive
  <2> HIDE DEF n
  <2>4. /\ published[n] \in Event /\ n + 1 \in Nat \ {0}
        /\ Append(readers[r].got, published[n]) \in Seq(Event)
        /\ IsTerminal(published[n]) \in BOOLEAN
    BY <1>1, <2>1, <2>2 DEF IsTerminal
  <2>5. [readers[r] EXCEPT
            !.got = Append(@, published[n]), !.next = n + 1,
            !.done = IsTerminal(published[n]),
            !.lagged = @ \/ n > readers[r].next] \in Stream
    BY <1>1, <2>2, <2>4 DEF Stream
  <2> QED BY <1>1, <2>3, <2>5, StreamReplaced
<1>5. ASSUME NEW r \in Readers, EndStream(r) \/ Disconnect(r)
      PROVE  readers' \in [Readers -> Stream]
  <2>1. readers[r] \in Stream
    BY <1>1
  <2>2. ASSUME NEW state \in {"ended", "gone"},
               readers' = [readers EXCEPT ![r].state = state]
        PROVE  readers' \in [Readers -> Stream]
    <3>1. [readers[r] EXCEPT !.state = state] \in Stream
      BY <2>1 DEF Stream
    <3> QED BY <1>1, <2>2, <3>1, StreamReplaced
  <2> QED BY <1>5, <2>2 DEF EndStream, Disconnect
<1>6. CASE readers' = readers
  BY <1>1, <1>6
<1>7. CASE Create \/ SetRunningHandle \/ WorkStep \/ Cancel \/ UNCHANGED vars
  BY <1>6, <1>7
     DEF Create, SetRunningHandle, WorkStep, Progress, Conclude, TaskAborts, Cancel, vars
<1> QED BY <1>2, <1>3, <1>4, <1>5, <1>7 DEF Next, StreamStep

LEMMA TasksStep ==
  ASSUME TasksAssumption, TasksInv, [Next]_vars
  PROVE  TasksInv'
<1>1. /\ Numbered' /\ LogIsTheTail'
      /\ events' \in Seq(Event) /\ Len(events') <= HistoryLimit + 1
      /\ published' \in Seq(Event)
  BY LogStep
<1>2. readers' \in [Readers -> Stream]
  BY StreamsTyped
<1>3. /\ handle' \in {"unset", "held", "taken"}
      /\ work' \in {"none", "starting", "working", "ended"}
      /\ aborted' \in BOOLEAN
      /\ aborted' <=> handle' = "taken"
  <2>1. /\ handle \in {"unset", "held", "taken"}
        /\ work \in {"none", "starting", "working", "ended"}
        /\ aborted \in BOOLEAN
        /\ aborted <=> handle = "taken"
    BY DEF TasksInv, TypeOK
  <2>2. CASE Create \/ SetRunningHandle
    BY <2>1, <2>2 DEF Create, SetRunningHandle
  <2>6. CASE Cancel
    <3>1. handle' = "taken" /\ UNCHANGED work
      BY <2>6 DEF Cancel
    <3>2. aborted' = TRUE
      BY <2>6, Zenon DEF Cancel
    <3>3. aborted' \in BOOLEAN /\ (aborted' <=> handle' = "taken")
      BY <3>1, <3>2, Zenon
    <3>4. /\ handle' \in {"unset", "held", "taken"}
          /\ work' \in {"none", "starting", "working", "ended"}
      BY <2>1, <3>1
    <3> QED BY <3>3, <3>4, Zenon
  <2>3. CASE WorkStep
    BY <2>1, <2>3 DEF WorkStep, Progress, Conclude, TaskAborts
  <2>4. CASE UNCHANGED task
    BY <2>1, <2>4 DEF task
  <2>5. ASSUME NEW r \in Readers, Subscribe(r) \/ StreamStep(r) \/ Disconnect(r)
        PROVE  UNCHANGED task
    BY <2>5 DEF Subscribe, StreamStep, Replay, Receive, EndStream, Disconnect
  <2> QED BY <2>2, <2>6, <2>3, <2>4, <2>5 DEF Next, vars
<1>4. TypeOK'
  BY <1>1, <1>2, <1>3 DEF TypeOK, Stream
<1> QED BY <1>1, <1>4, StreamsStep DEF TasksInv

-----------------------------------------------------------------------------
(* Results *)

LEMMA TasksInvHolds == Spec => []TasksInv
<1>1. Init => TasksInv
  BY TasksInit, TasksAssumption
<1>2. TasksInv /\ [Next]_vars => TasksInv'
  BY TasksStep, TasksAssumption
<1> QED BY <1>1, <1>2, PTL DEF Spec

\* The log is never more than one event too long, and the task was asked to
\* abort exactly if its handle was taken (publish, cancel, stream).
THEOREM TypeCorrect == Spec => []TypeOK
<1>1. TasksInv => TypeOK
  BY DEF TasksInv
<1> QED BY <1>1, TasksInvHolds, PTL

\* Whatever the sizes of log and channel, a stream passes on one uninterrupted
\* piece of the task's events unless its receiver lags, and never goes back
\* (FederationTaskManager::stream and the unfold of the stream handler).
THEOREM StreamsFollow == Spec => []StreamsFollowTheTask
<1>1. ASSUME TasksInv, NEW r \in Readers
      PROVE  LET s    == readers[r]
                 seen == s.got \o s.history
             IN /\ \A i \in DOMAIN seen : seen[i] = published[seen[i].n]
                /\ \A i \in 1..(Len(seen) - 1) : seen[i].n < seen[i + 1].n
                /\ seen # <<>> => s.next = seen[Len(seen)].n + 1
                /\ ~s.lagged => Consecutive(seen)
  <2>1. StreamInv(published, readers[r]) /\ Seen(readers[r]) \in Seq(Event)
    BY <1>1, StreamTypes DEF TasksInv
  <2>2. DOMAIN Seen(readers[r]) = 1..Len(Seen(readers[r]))
    BY <2>1
  <2> QED BY <2>1, <2>2 DEF StreamInv, Follows, Seen
<1>2. TasksInv => StreamsFollowTheTask
  BY <1>1 DEF StreamsFollowTheTask
<1> QED BY <1>2, TasksInvHolds, PTL

\* A stream that ended by itself passed on a terminal event (the unfold of the
\* stream handler ends only behind one).
THEOREM StreamsSawTheEnd == Spec => []EndedStreamsSawTheEnd
<1>1. TasksInv => EndedStreamsSawTheEnd
  <2> SUFFICES ASSUME TasksInv, NEW r \in Readers, readers[r].state = "ended"
               PROVE  \E i \in DOMAIN readers[r].got : IsTerminal(readers[r].got[i])
    BY DEF EndedStreamsSawTheEnd
  <2>1. \E i \in 1..Len(readers[r].got) : IsTerminal(readers[r].got[i])
    BY DEF TasksInv, StreamInv, KnowsTheEnd
  <2>2. DOMAIN readers[r].got = 1..Len(readers[r].got)
    BY StreamTypes DEF TasksInv
  <2> QED BY <2>1, <2>2
<1> QED BY <1>1, TasksInvHolds, PTL

-----------------------------------------------------------------------------
(* The other end: the calls that delegate *)

\* The completion signal exists with the forwarder, and its sender lives as
\* long as the future of the call.
SignalFollowsCall(c) ==
    /\ caller[c] \in {"starting", "failed"} => signal[c] = "none"
    /\ caller[c] = "consuming" <=> signal[c] = "open" /\ caller[c] # "cancelling"
    /\ caller[c] = "returned" => signal[c] \in {"sent", "dropped"} \/ c \in asked
    /\ signal[c] = "dropped" => stopped \/ caller[c] = "dropped"
    /\ signal[c] = "sent" => caller[c] = "returned"
    /\ caller[c] = "cancelling" => stopped

\* What is known once a part of the machinery is through.
PartsDone(c) ==
    /\ forwarder[c] = "ended" => c \in asked \/ signal[c] = "sent"
    /\ caller[c] = "failed" => c \in mishap
    /\ caller[c] = "dropped" /\ signal[c] = "none" => c \in mishap
    /\ signal[c] = "sent" => c \in mishap \/ worker[c] \in {"ended", "cancelled"}
    /\ c \in asked \ cancels =>
           c \in mishap \/ worker[c] \in {"ended", "cancelled"}

\* Only a task that was accepted is consumed or cancelled.
AcceptedFirst(c) ==
    /\ worker[c] = "none" => caller[c] \in {"starting", "failed", "dropped"}
                                 /\ c \notin asked /\ signal[c] = "none"
    /\ caller[c] = "starting" => c \notin asked

DelegationInv ==
    /\ RDTypeOK
    /\ NoStrayCancel
    /\ \A c \in Calls : /\ SignalFollowsCall(c)
                        /\ PartsDone(c)
                        /\ AcceptedFirst(c)

LEMMA DelegationInit == RDInit => DelegationInv
BY DEF RDInit, DelegationInv, RDTypeOK, NoStrayCancel,
       SignalFollowsCall, PartsDone, AcceptedFirst

LEMMA DelegationStep == DelegationInv /\ [RDNext]_rdvars => DelegationInv'
<1> SUFFICES ASSUME DelegationInv, [RDNext]_rdvars
             PROVE  DelegationInv'
  OBVIOUS
<1> USE DEF DelegationInv, RDTypeOK, NoStrayCancel,
        SignalFollowsCall, PartsDone, AcceptedFirst,
        turn, Send, Pending
<1>1. CASE Stop
  BY <1>1 DEF Stop
<1>2. ASSUME NEW c \in Calls, DropCall(c) PROVE DelegationInv'
  BY <1>2 DEF DropCall
<1>3. ASSUME NEW c \in Calls, StartAnswered(c) PROVE DelegationInv'
  BY <1>3 DEF StartAnswered
<1>4. ASSUME NEW c \in Calls, StartFails(c) PROVE DelegationInv'
  BY <1>4 DEF StartFails
<1>5. ASSUME NEW c \in Calls, StreamEnds(c) PROVE DelegationInv'
  BY <1>5 DEF StreamEnds
<1>6. ASSUME NEW c \in Calls, StreamBreaks(c) PROVE DelegationInv'
  BY <1>6 DEF StreamBreaks
<1>7. ASSUME NEW c \in Calls, ObserveStop(c) PROVE DelegationInv'
  BY <1>7 DEF ObserveStop
<1>8. ASSUME NEW c \in Calls, CancelAndReturn(c) PROVE DelegationInv'
  BY <1>8 DEF CancelAndReturn
<1>9. ASSUME NEW c \in Calls, ForwardCancel(c) PROVE DelegationInv'
  BY <1>9 DEF ForwardCancel
<1>10. ASSUME NEW c \in Calls, StandDown(c) PROVE DelegationInv'
  BY <1>10 DEF StandDown
<1>11. ASSUME NEW c \in Calls, WorkerAccepts(c) PROVE DelegationInv'
  BY <1>11 DEF WorkerAccepts
<1>12. ASSUME NEW c \in Calls, WorkerEnds(c) PROVE DelegationInv'
  BY <1>12 DEF WorkerEnds
<1>13. ASSUME NEW c \in Calls, DeliverCancel(c) PROVE DelegationInv'
  BY <1>13 DEF DeliverCancel
<1>14. ASSUME NEW c \in Calls, LoseCancel(c) PROVE DelegationInv'
  BY <1>14 DEF LoseCancel
<1>15. CASE UNCHANGED rdvars
  BY <1>15 DEF rdvars
<1> HIDE DEF DelegationInv
<1> QED
  BY <1>1, <1>2, <1>3, <1>4, <1>5, <1>6, <1>7, <1>8, <1>9, <1>10, <1>11,
     <1>12, <1>13, <1>14, <1>15
  DEF RDNext, CallStep, Forward, WorkerStep

LEMMA DelegationInvariant == RDSpec => []DelegationInv
BY DelegationInit, DelegationStep, PTL DEF RDSpec

\* However many calls run in parallel, the state of each stays of its type.
THEOREM DelegationTypeCorrect == RDSpec => []RDTypeOK
<1>1. DelegationInv => RDTypeOK
  BY DEF DelegationInv
<1> QED
  BY <1>1, DelegationInvariant, PTL

\* A call that returned normally is never cancelled on the worker node, unless
\* the turn was stopped (the completion signal of execute_delegate).
THEOREM NoStrayCancels == RDSpec => []NoStrayCancel
<1>1. DelegationInv => NoStrayCancel
  BY DEF DelegationInv
<1> QED
  BY <1>1, DelegationInvariant, PTL

\* In no order of stop, drop and completion is a worker's task left running
\* with nobody to cancel it, unless one of the named faults happened to it.
THEOREM StrandedOnlyByFault == RDSpec => []StrandedByFaultOnly
<1>1. DelegationInv => StrandedByFaultOnly
  <2> SUFFICES ASSUME DelegationInv, NEW c \in Calls, Settled(c),
                      worker[c] = "running"
               PROVE  c \in mishap
    BY DEF StrandedByFaultOnly
  <2>1. CASE signal[c] = "sent" \/ c \in asked
    BY <2>1 DEF DelegationInv, PartsDone, Settled
  <2>2. CASE signal[c] # "sent" /\ c \notin asked
    <3>1. forwarder[c] = "none" /\ signal[c] = "none"
      BY <2>2 DEF DelegationInv, PartsDone, Settled, RDTypeOK
    <3> QED
      BY <2>2, <3>1 DEF DelegationInv, PartsDone, SignalFollowsCall, Settled
  <2> QED
    BY <2>1, <2>2
<1> QED
  BY <1>1, DelegationInvariant, PTL
-----------------------------------------------------------------------------
(* Both ends of one delegation *)

\* The calls see the task as it is.
SeenAsItIs ==
    /\ worker[theCall] = TaskState
    /\ work = "none" => handle = "unset"

\* Nobody but the call asks for a cancel, and it knows the task only once its
\* handle is set.
KnownWithHandle ==
    /\ \/ caller[theCall] \in {"consuming", "cancelling", "returned"}
       \/ signal[theCall] # "none" \/ theCall \in asked
       => handle # "unset"
    /\ aborted => theCall \in asked

\* Where the final events come from.
Concluded ==
    /\ conclusion # "none" => work = "ended"
    /\ \A n \in DOMAIN published :
          /\ published[n].type = "done" => conclusion = "done"
          /\ published[n].type = "error" => conclusion = "error" \/ aborted

DelegatedInv ==
    /\ TasksInv
    /\ DelegationInv
    /\ SeenAsItIs /\ KnownWithHandle /\ Concluded
    /\ ResultIsTheTasks

LEMMA DelegatedInit == DTInit => DelegatedInv
<1> SUFFICES ASSUME DTInit PROVE DelegatedInv
  OBVIOUS
<1>1. TasksInv /\ DelegationInv
  BY TasksInit, TasksAssumption, DelegationInit DEF DTInit
<1>2. SeenAsItIs /\ KnownWithHandle
  BY DelegatedAssumption DEF DTInit, Init, RDInit, SeenAsItIs, KnownWithHandle, TaskState
<1>3. Concluded /\ ResultIsTheTasks
  BY DEF DTInit, Init, Concluded, ResultIsTheTasks
<1> QED BY <1>1, <1>2, <1>3 DEF DelegatedInv

\* A final event is in the task only if the task is over.
LEMMA FinalEventsEndTasks ==
  ASSUME DelegatedInv, NEW n \in DOMAIN published, IsTerminal(published[n])
  PROVE  worker[theCall] \in {"ended", "cancelled"}
<1>1. conclusion # "none" \/ aborted
  BY DEF DelegatedInv, Concluded, IsTerminal
<1>2. aborted \in BOOLEAN /\ (aborted => handle = "taken")
  BY DEF DelegatedInv, TasksInv, TypeOK
<1>3. work # "none"
  BY <1>1, <1>2 DEF DelegatedInv, Concluded, SeenAsItIs
<1> QED BY <1>1, <1>3 DEF DelegatedInv, Concluded, SeenAsItIs, TaskState

LEMMA FrontOfConcat ==
  ASSUME NEW S, NEW a \in Seq(S), NEW b \in Seq(S), NEW i \in 1..Len(a)
  PROVE  i \in 1..Len(a \o b) /\ (a \o b)[i] = a[i]
<1>1. Len(a) \in Nat /\ Len(b) \in Nat
  OBVIOUS
<1>2. i \in 1..(Len(a) + Len(b)) /\ i <= Len(a)
  BY <1>1
<1> QED BY <1>2, ConcatProperties

\* What a stream has passed on is in the task.
LEMMA PassedOnIsPublished ==
  ASSUME TasksInv, NEW r \in Readers, NEW n \in DOMAIN readers[r].got
  PROVE  /\ readers[r].got[n].n \in DOMAIN published
         /\ readers[r].got[n] = published[readers[r].got[n].n]
<1> DEFINE s == readers[r]
<1>1. /\ s.got \in Seq(Event) /\ s.history \in Seq(Event) /\ published \in Seq(Event)
      /\ Follows(published, Seen(s), s.next, s.lagged)
  BY DEF TasksInv, TypeOK, StreamInv
<1> HIDE DEF s
<1>2. n \in 1..Len(s.got)
  BY <1>1 DEF s
<1>3. n \in 1..Len(Seen(s)) /\ Seen(s)[n] = s.got[n]
  BY <1>1, <1>2, FrontOfConcat, Zenon DEF Seen
<1>4. Seen(s)[n].n \in 1..Len(published) /\ Seen(s)[n] = published[Seen(s)[n].n]
  BY <1>1, <1>3 DEF Follows
<1> QED BY <1>1, <1>3, <1>4 DEF s

\* The stream of a call that was not stopped or dropped ends as the task did.
LEMMA StreamTellsTheEnd ==
  ASSUME DelegatedInv, caller[theCall] = "consuming", readers[own].state = "ended"
  PROVE  /\ worker[theCall] \in {"ended", "cancelled"}
         /\ ResultOf(readers[own].got) \in {"answer", "failure"}
         /\ ResultOf(readers[own].got) = "answer" => conclusion = "done"
         /\ ResultOf(readers[own].got) = "failure" => conclusion = "error" \/ stopped
<1> DEFINE got == readers[own].got
<1>1. own \in Readers /\ theCall \in Calls
  BY DelegatedAssumption
<1>2. got \in Seq(Event)
  BY <1>1 DEF DelegatedInv, TasksInv, TypeOK
<1>3. PICK i \in 1..Len(got) : IsTerminal(got[i])
  BY <1>1 DEF DelegatedInv, TasksInv, StreamInv, KnowsTheEnd
<1>4. \A n \in DOMAIN got :
          got[n].n \in DOMAIN published /\ got[n] = published[got[n].n]
  BY <1>1, PassedOnIsPublished DEF DelegatedInv
<1>5. i \in DOMAIN got
  BY <1>2, <1>3
<1>6. aborted => stopped
  BY <1>1 DEF DelegatedInv, KnownWithHandle, DelegationInv, NoStrayCancel
<1> HIDE DEF got
<1>7. worker[theCall] \in {"ended", "cancelled"}
  BY <1>3, <1>4, <1>5, FinalEventsEndTasks
<1>8. \A n \in DOMAIN got :
          /\ got[n].type = "done" => conclusion = "done"
          /\ got[n].type = "error" => conclusion = "error" \/ stopped
  BY <1>4, <1>6 DEF DelegatedInv, Concluded
<1>9. CASE \E n \in DOMAIN got : got[n].type = "error"
  <2>1. ResultOf(got) = "failure"
    BY <1>9 DEF ResultOf
  <2> QED BY <1>7, <1>8, <1>9, <2>1 DEF got
<1>10. CASE ~\E n \in DOMAIN got : got[n].type = "error"
  <2>1. ResultOf(got) = "answer"
    BY <1>10 DEF ResultOf
  <2>2. got[i].type = "done"
    BY <1>3, <1>5, <1>10 DEF IsTerminal
  <2> QED BY <1>5, <1>7, <1>8, <2>1, <2>2 DEF got
<1> QED BY <1>9, <1>10

\* The calls' part of a step that leaves every call alone.
LEMMA CallsUnmoved ==
  ASSUME DelegationInv, UNCHANGED <<turn, cancels, asked, mishap, at_stop>>,
         worker' = worker
  PROVE  UNCHANGED rdvars
BY DEF rdvars, turn

\* A task that changes only within its state, as its call sees it.
LEMMA SameState ==
  ASSUME DelegationInv, SeenAsItIs, WorkerFollows, TaskState' = TaskState
  PROVE  worker' = worker
<1>1. worker \in [Calls -> {"none", "running", "ended", "cancelled"}]
  BY DEF DelegationInv, RDTypeOK
<1> QED BY <1>1 DEF SeenAsItIs, WorkerFollows

\* Every step of both is one of the node's or leaves the node alone.
LEMMA NodeStep == [DTNext]_dtvars => [Next]_vars
<1> SUFFICES ASSUME [DTNext]_dtvars PROVE [Next]_vars
  OBVIOUS
<1>1. CASE AcceptTask \/ TaskWorks \/ \E type \in {"done", "error"} : TaskConcludes(type)
  BY <1>1 DEF AcceptTask, TaskWorks, TaskConcludes, Next, WorkStep
<1>2. CASE TakeCancel
  BY <1>2 DEF TakeCancel, Next
<1>3. CASE \E r \in Readers : OpenStream(r) \/ ServeStream(r)
  BY <1>3 DEF OpenStream, ServeStream, Next
<1>4. CASE AnswerArrives \/ Returns \/ CallGoesOn \/ ForwarderStep \/ CancelIsLost
           \/ StopTurn \/ \E c \in Calls \ {theCall} : OtherCall(c)
  BY <1>4 DEF AnswerArrives, Returns, CallGoesOn, ForwarderStep, CancelIsLost,
              StopTurn, OtherCall
<1>5. CASE UNCHANGED dtvars
  BY <1>5 DEF dtvars
<1> QED BY <1>1, <1>2, <1>3, <1>4, <1>5 DEF DTNext

\* Every step of both is one of the calls' or leaves the calls alone: what the
\* node does to the task is what RemoteDelegation lets a worker do.
LEMMA DelegationOrStutter ==
  ASSUME DelegatedInv, [DTNext]_dtvars
  PROVE  [RDNext]_rdvars
<1>1. theCall \in Calls /\ own \in Readers
  BY DelegatedAssumption
<1>2. /\ work \in {"none", "starting", "working", "ended"} /\ aborted \in BOOLEAN
      /\ aborted <=> handle = "taken"
      /\ handle \in {"unset", "held", "taken"}
  BY DEF DelegatedInv, TasksInv, TypeOK
<1>3. /\ worker \in [Calls -> {"none", "running", "ended", "cancelled"}]
      /\ cancels \subseteq asked
  BY DEF DelegatedInv, DelegationInv, RDTypeOK
<1>4. SeenAsItIs /\ KnownWithHandle /\ DelegationInv
  BY DEF DelegatedInv
<1>5. ASSUME WorkerStep(theCall) PROVE RDNext
  BY <1>1, <1>5 DEF RDNext
<1>6. CASE AcceptTask
  <2>1. worker[theCall] = "none" /\ TaskState' = "running"
    BY <1>2, <1>4, <1>6 DEF SeenAsItIs, AcceptTask, Create, TaskState
  <2>2. WorkerAccepts(theCall)
    BY <1>3, <1>6, <2>1 DEF AcceptTask, WorkerFollows, WorkerAccepts
  <2> QED BY <1>5, <2>2 DEF WorkerStep
<1>7. CASE TaskWorks
  <2>1. TaskState' = TaskState
    BY <1>2, <1>7 DEF TaskWorks, SetRunningHandle, Progress, TaskAborts, TaskState
  <2> QED BY <1>4, <1>7, <2>1, SameState, CallsUnmoved DEF TaskWorks
<1>8. ASSUME NEW type \in {"done", "error"}, TaskConcludes(type)
      PROVE  [RDNext]_rdvars
  <2>1. work = "working" /\ work' = "ended" /\ aborted' = aborted
    BY <1>8 DEF TaskConcludes, Conclude
  <2>2. CASE aborted
    <3>1. TaskState' = TaskState
      BY <2>1, <2>2 DEF TaskState
    <3> QED BY <1>4, <1>8, <3>1, SameState, CallsUnmoved DEF TaskConcludes
  <2>3. CASE ~aborted
    <3>1. worker[theCall] = "running" /\ TaskState' = "ended"
      BY <1>4, <2>1, <2>3 DEF SeenAsItIs, TaskState
    <3>2. WorkerEnds(theCall)
      BY <1>8, <3>1 DEF TaskConcludes, WorkerFollows, WorkerEnds
    <3> QED BY <1>5, <3>2 DEF WorkerStep
  <2> QED BY <2>2, <2>3
<1>9. CASE TakeCancel
  <2>1. theCall \in cancels /\ theCall \in asked /\ handle # "unset"
    BY <1>3, <1>4, <1>9 DEF TakeCancel, KnownWithHandle
  <2>2. work # "none" /\ worker[theCall] # "none"
    BY <1>2, <1>4, <2>1 DEF SeenAsItIs, TaskState
  <2>3. aborted' = TRUE /\ work' = work
    BY <1>2, <1>9, <2>1 DEF TakeCancel, Cancel, vars, task
  <2>4. TaskState' = "cancelled"
    BY <2>2, <2>3 DEF TaskState
  <2>5. DeliverCancel(theCall)
    BY <1>9, <2>1, <2>2, <2>4 DEF TakeCancel, WorkerFollows, DeliverCancel
  <2> QED BY <1>5, <2>5 DEF WorkerStep
<1>10. CASE \E r \in Readers : OpenStream(r) \/ ServeStream(r)
  BY <1>10 DEF OpenStream, ServeStream
<1>11. CASE Returns
  <2>1. worker[theCall] \in {"ended", "cancelled"}
    BY <1>11, StreamTellsTheEnd DEF Returns
  <2>2. StreamEnds(theCall)
    BY <1>11, <2>1 DEF Returns, StreamEnds
  <2> QED BY <1>1, <2>2 DEF RDNext, CallStep
<1>12. CASE AnswerArrives \/ CallGoesOn \/ ForwarderStep
  BY <1>1, <1>12 DEF AnswerArrives, CallGoesOn, ForwarderStep, RDNext, CallStep
<1>13. CASE CancelIsLost
  BY <1>5, <1>13 DEF CancelIsLost, WorkerStep
<1>14. CASE StopTurn \/ \E c \in Calls \ {theCall} : OtherCall(c)
  BY <1>14 DEF StopTurn, OtherCall, RDNext
<1>15. CASE UNCHANGED dtvars
  BY <1>15 DEF dtvars
<1> QED BY <1>6, <1>7, <1>8, <1>9, <1>10, <1>11, <1>12, <1>13, <1>14, <1>15 DEF DTNext

\* Handles stay set and requests stay asked.
LEMMA KnownStays ==
  ASSUME DelegatedInv, DelegationInv', TasksInv', [DTNext]_dtvars
  PROVE  KnownWithHandle'
<1>1. theCall \in Calls
  BY DelegatedAssumption
<1>2. /\ handle \in {"unset", "held", "taken"} /\ aborted \in BOOLEAN
      /\ aborted <=> handle = "taken"
  BY DEF DelegatedInv, TasksInv, TypeOK
<1>3. /\ caller \in [Calls -> {"starting", "consuming", "cancelling", "returned",
                               "failed", "dropped"}]
      /\ signal \in [Calls -> {"none", "open", "sent", "dropped"}]
      /\ forwarder \in [Calls -> {"none", "waiting", "ended"}]
      /\ cancels \subseteq asked
      /\ \A c \in Calls : signal[c] = "none" <=> forwarder[c] = "none"
  BY DEF DelegatedInv, DelegationInv, RDTypeOK
<1>4. KnownWithHandle
  BY DEF DelegatedInv
<1>5. CASE UNCHANGED <<turn, asked, handle, aborted>>
  BY <1>4, <1>5 DEF KnownWithHandle, turn
<1>6. CASE AcceptTask \/ (\E type \in {"done", "error"} : TaskConcludes(type))
           \/ (\E r \in Readers : OpenStream(r) \/ ServeStream(r))
           \/ UNCHANGED dtvars
  <2>1. UNCHANGED <<turn, asked, handle, aborted>>
    BY <1>6 DEF AcceptTask, TaskConcludes, Create, Conclude, OpenStream, ServeStream,
                Subscribe, StreamStep, Replay, Receive, EndStream, Disconnect, task,
                rdvars, dtvars, vars
  <2> QED BY <1>5, <2>1
<1>7. CASE TaskWorks
  <2>1. UNCHANGED <<turn, asked, aborted>> /\ (handle' = handle \/ handle' = "held")
    BY <1>7 DEF TaskWorks, SetRunningHandle, Progress, TaskAborts
  <2> QED BY <1>4, <2>1 DEF KnownWithHandle, turn
<1>8. CASE TakeCancel
  <2>1. theCall \in asked
    BY <1>3, <1>8 DEF TakeCancel
  <2>2. UNCHANGED <<turn, asked>> /\ (handle' = handle \/ handle' = "taken")
    BY <1>8 DEF TakeCancel, Cancel, vars, task
  <2> QED BY <1>4, <2>1, <2>2 DEF KnownWithHandle, turn
<1>9. CASE AnswerArrives
  BY <1>4, <1>9 DEF AnswerArrives, StartAnswered, KnownWithHandle, vars, task
<1>10. CASE Returns
  BY <1>1, <1>3, <1>4, <1>10 DEF Returns, KnownWithHandle, vars, task
<1>11. CASE CallGoesOn
  BY <1>1, <1>3, <1>4, <1>11
     DEF CallGoesOn, DropCall, StartFails, StreamBreaks, ObserveStop, CancelAndReturn,
         Pending, Send, KnownWithHandle, vars, task
<1>12. CASE ForwarderStep \/ CancelIsLost \/ StopTurn
  BY <1>1, <1>3, <1>4, <1>12
     DEF ForwarderStep, Forward, ForwardCancel, StandDown, CancelIsLost, LoseCancel,
         StopTurn, Stop, Send, KnownWithHandle, turn, vars, task
<1>13. ASSUME NEW c \in Calls \ {theCall}, OtherCall(c) PROVE KnownWithHandle'
  <2>1. /\ caller'[theCall] = caller[theCall] /\ signal'[theCall] = signal[theCall]
        /\ theCall \in asked' <=> theCall \in asked
    BY <1>1, <1>3, <1>13
       DEF OtherCall, CallStep, Forward, WorkerStep, DropCall, StartAnswered, StartFails,
           StreamEnds, StreamBreaks, ObserveStop, CancelAndReturn, ForwardCancel,
           StandDown, WorkerAccepts, WorkerEnds, DeliverCancel, LoseCancel, Send, turn
  <2> QED BY <1>4, <1>13, <2>1 DEF OtherCall, KnownWithHandle, vars, task
<1> QED BY <1>6, <1>7, <1>8, <1>9, <1>10, <1>11, <1>12, <1>13 DEF DTNext

\* The task's state is what its call sees, after each step.
LEMMA SeenStays ==
  ASSUME DelegatedInv, [DTNext]_dtvars
  PROVE  SeenAsItIs'
<1>1. theCall \in Calls
  BY DelegatedAssumption
<1>2. worker \in [Calls -> {"none", "running", "ended", "cancelled"}]
  BY DEF DelegatedInv, DelegationInv, RDTypeOK
<1>3. SeenAsItIs
  BY DEF DelegatedInv
<1>4. ASSUME WorkerFollows PROVE worker'[theCall] = TaskState'
  BY <1>1, <1>2, <1>4 DEF WorkerFollows
<1>5. CASE AcceptTask \/ TaskWorks \/ TakeCancel
           \/ \E type \in {"done", "error"} : TaskConcludes(type)
  <2>1. WorkerFollows
    BY <1>5 DEF AcceptTask, TaskWorks, TakeCancel, TaskConcludes
  <2>2. work' = "none" => handle' = "unset"
    BY <1>3, <1>5
       DEF AcceptTask, TaskWorks, TakeCancel, TaskConcludes, Create, SetRunningHandle,
           Progress, TaskAborts, Cancel, Conclude, SeenAsItIs, vars, task
  <2> QED BY <1>4, <2>1, <2>2 DEF SeenAsItIs
<1>6. ASSUME UNCHANGED <<work, handle, aborted>>, worker'[theCall] = worker[theCall]
      PROVE  SeenAsItIs'
  BY <1>3, <1>6 DEF SeenAsItIs, TaskState
<1>7. CASE \E r \in Readers : OpenStream(r) \/ ServeStream(r)
  BY <1>6, <1>7 DEF OpenStream, ServeStream, Subscribe, StreamStep, Replay, Receive,
                    EndStream, Disconnect, task, rdvars
<1>8. CASE AnswerArrives \/ Returns \/ CallGoesOn \/ ForwarderStep \/ CancelIsLost
           \/ StopTurn
  BY <1>6, <1>8
     DEF AnswerArrives, Returns, CallGoesOn, ForwarderStep, CancelIsLost, StopTurn,
         StartAnswered, DropCall, StartFails, StreamBreaks, ObserveStop, CancelAndReturn,
         Forward, ForwardCancel, StandDown, LoseCancel, Stop, vars, task, turn
<1>9. ASSUME NEW c \in Calls \ {theCall}, OtherCall(c) PROVE SeenAsItIs'
  <2>1. worker'[theCall] = worker[theCall]
    BY <1>1, <1>2, <1>9
       DEF OtherCall, CallStep, Forward, WorkerStep, DropCall, StartAnswered, StartFails,
           StreamEnds, StreamBreaks, ObserveStop, CancelAndReturn, ForwardCancel,
           StandDown, WorkerAccepts, WorkerEnds, DeliverCancel, LoseCancel
  <2> QED BY <1>6, <1>9, <2>1 DEF OtherCall, vars, task
<1>10. CASE UNCHANGED dtvars
  BY <1>6, <1>10 DEF dtvars, vars, rdvars, task
<1> QED BY <1>5, <1>7, <1>8, <1>9, <1>10 DEF DTNext

\* Where events come from, step by step: a done event from the conclusion, an
\* error from it or from a cancel.
LEMMA ConcludedStays ==
  ASSUME DelegatedInv, TasksInv', [DTNext]_dtvars
  PROVE  Concluded'
<1>1. Concluded /\ published \in Seq(Event) /\ aborted \in BOOLEAN
      /\ work \in {"none", "starting", "working", "ended"}
  BY DEF DelegatedInv, TasksInv, TypeOK
<1>2. ASSUME UNCHANGED <<published, conclusion, aborted>>, work = "ended" => work' = "ended"
      PROVE  Concluded'
  BY <1>1, <1>2 DEF Concluded
<1>3. ASSUME NEW type \in {"status", "done", "error"},
             published' = Append(published, NewEvent(type)),
             conclusion # "none" => conclusion' = conclusion,
             conclusion' # "none" => work' = "ended",
             aborted => aborted',
             type = "done" => conclusion' = "done",
             type = "error" => conclusion' = "error" \/ aborted'
      PROVE  Concluded'
  <2>1. NewEvent(type).type = type /\ NewEvent(type) \in Event
    BY <1>1 DEF NewEvent, Event
  <2>2. /\ DOMAIN published' = 1..(Len(published) + 1) /\ Len(published) \in Nat
        /\ DOMAIN published = 1..Len(published)
        /\ \A n \in 1..(Len(published) + 1) :
              published'[n] = IF n = Len(published) + 1 THEN NewEvent(type) ELSE published[n]
    <3> HIDE DEF NewEvent
    <3> QED BY <1>1, <1>3, <2>1
  <2>3. ASSUME NEW n \in DOMAIN published'
        PROVE  /\ published'[n].type = "done" => conclusion' = "done"
               /\ published'[n].type = "error" => conclusion' = "error" \/ aborted'
    <3>1. CASE n = Len(published) + 1
      BY <1>3, <2>1, <2>2, <3>1
    <3>2. CASE n # Len(published) + 1
      <4>1. n \in DOMAIN published /\ published'[n] = published[n]
        BY <2>2, <3>2
      <4> QED BY <1>1, <1>3, <4>1 DEF Concluded
    <3> QED BY <3>1, <3>2
  <2> QED BY <1>3, <2>3 DEF Concluded
<1>4. CASE AcceptTask
  BY <1>2, <1>4 DEF AcceptTask, Create
<1>5. CASE TaskWorks
  <2>1. CASE SetRunningHandle \/ TaskAborts
    BY <1>2, <1>5, <2>1 DEF TaskWorks, SetRunningHandle, TaskAborts
  <2>2. CASE Progress
    <3>1. conclusion = "none"
      BY <1>1, <2>2 DEF Progress, Concluded
    <3>2. /\ published' = Append(published, NewEvent("status"))
          /\ conclusion' = conclusion /\ aborted' = aborted
      BY <1>5, <2>2 DEF TaskWorks, Progress, Publish
    <3> QED BY <1>3, <3>1, <3>2
  <2> QED BY <1>5, <2>1, <2>2 DEF TaskWorks
<1>6. ASSUME NEW type \in {"done", "error"}, TaskConcludes(type)
      PROVE  Concluded'
  <2>1. conclusion = "none"
    BY <1>1, <1>6 DEF TaskConcludes, Conclude, Concluded
  <2>2. /\ published' = Append(published, NewEvent(type))
        /\ conclusion' = type /\ aborted' = aborted /\ work' = "ended"
    BY <1>6 DEF TaskConcludes, Conclude, Publish
  <2> QED BY <1>3, <2>1, <2>2
<1>7. CASE TakeCancel
  <2>1. CASE handle = "held"
    <3>1. /\ published' = Append(published, NewEvent("error"))
          /\ conclusion' = conclusion /\ aborted' = TRUE /\ work' = work
      BY <1>7, <2>1 DEF TakeCancel, Cancel
    <3>2. conclusion' # "none" => work' = "ended"
      BY <1>1, <3>1 DEF Concluded
    <3> QED BY <1>3, <3>1, <3>2
  <2>2. CASE handle # "held"
    BY <1>2, <1>7, <2>2 DEF TakeCancel, vars, task
  <2> QED BY <2>1, <2>2
<1>8. CASE \E r \in Readers : OpenStream(r) \/ ServeStream(r)
  BY <1>2, <1>8 DEF OpenStream, ServeStream, Subscribe, StreamStep, Replay, Receive,
                    EndStream, Disconnect, task
<1>9. CASE AnswerArrives \/ Returns \/ CallGoesOn \/ ForwarderStep \/ CancelIsLost
           \/ StopTurn \/ \E c \in Calls \ {theCall} : OtherCall(c)
  BY <1>2, <1>9 DEF AnswerArrives, Returns, CallGoesOn, ForwarderStep, CancelIsLost,
                    StopTurn, OtherCall, vars, task
<1>10. CASE UNCHANGED dtvars
  BY <1>2, <1>10 DEF dtvars, vars, task
<1> QED BY <1>4, <1>5, <1>6, <1>7, <1>8, <1>9, <1>10 DEF DTNext

\* A result stays true: conclusions and stops are for good.
LEMMA ResultStays ==
  ASSUME DelegatedInv, [DTNext]_dtvars
  PROVE  ResultIsTheTasks'
<1>1. ResultIsTheTasks /\ Concluded /\ DelegationInv
  BY DEF DelegatedInv
<1>2. conclusion # "none" => conclusion' = conclusion
  BY <1>1 DEF DTNext, AcceptTask, TaskWorks, TaskConcludes, TakeCancel, OpenStream,
              ServeStream, AnswerArrives, Returns, CallGoesOn, ForwarderStep,
              CancelIsLost, StopTurn, OtherCall, dtvars, Conclude, Concluded
<1>3. stopped => stopped'
  <2>1. [RDNext]_rdvars
    BY DelegationOrStutter
  <2> QED BY <2>1 DEF RDNext, CallStep, Forward, WorkerStep, Stop, DropCall, StartAnswered,
                StartFails, StreamEnds, StreamBreaks, ObserveStop, CancelAndReturn,
                ForwardCancel, StandDown, WorkerAccepts, WorkerEnds, DeliverCancel,
                LoseCancel, turn, rdvars
<1>4. CASE Returns
  <2>1. /\ result' = ResultOf(readers[own].got)
        /\ conclusion' = conclusion /\ stopped' = stopped
        /\ caller[theCall] = "consuming" /\ readers[own].state = "ended"
    BY <1>4 DEF Returns
  <2> QED BY <2>1, StreamTellsTheEnd DEF ResultIsTheTasks
<1>5. CASE ~Returns
  <2>1. result' = result
    BY <1>5 DEF DTNext, AcceptTask, TaskWorks, TaskConcludes, TakeCancel, OpenStream,
                ServeStream, AnswerArrives, CallGoesOn, ForwarderStep, CancelIsLost,
                StopTurn, OtherCall, dtvars
  <2> QED BY <1>1, <1>2, <1>3, <2>1 DEF ResultIsTheTasks
<1> QED BY <1>4, <1>5

LEMMA DelegatedStep == DelegatedInv /\ [DTNext]_dtvars => DelegatedInv'
<1> SUFFICES ASSUME DelegatedInv, [DTNext]_dtvars PROVE DelegatedInv'
  OBVIOUS
<1>1. TasksInv'
  BY NodeStep, TasksStep, TasksAssumption DEF DelegatedInv
<1>2. DelegationInv'
  BY DelegationOrStutter, DelegationStep DEF DelegatedInv
<1> QED BY <1>1, <1>2, SeenStays, KnownStays, ConcludedStays, ResultStays DEF DelegatedInv

LEMMA DelegatedInvHolds == DTSpec => []DelegatedInv
BY DelegatedInit, DelegatedStep, PTL DEF DTSpec

\* What the worker node really does with a task is what the calls' side takes
\* a worker for, so all that is shown of delegations holds of real tasks
\* (execute_delegate against FederationTaskManager).
THEOREM DelegationIsImplemented == DTSpec => ImplementsDelegation
<1>1. DTInit => RDInit
  BY DEF DTInit
<1>2. DelegatedInv /\ [DTNext]_dtvars => [RDNext]_rdvars
  BY DelegationOrStutter
<1> QED BY <1>1, <1>2, DelegatedInvHolds, PTL DEF DTSpec, RDSpec, ImplementsDelegation

\* The task a call delegates behaves as a task of the worker node's manager
\* (FederationTaskManager and the handlers that use it).
THEOREM TaskIsOneOfTheNode == DTSpec => Spec
<1>1. DTInit => Init
  BY DEF DTInit
<1> QED BY <1>1, NodeStep, PTL DEF DTSpec, Spec

\* Whatever the order of conclusion, cancel, late subscription and lag, an
\* answer is the worker's own, and a failure its own or the user's doing
\* (consume_remote_task).
THEOREM ResultsAreTheTasks == DTSpec => []ResultIsTheTasks
<1>1. DelegatedInv => ResultIsTheTasks
  BY DEF DelegatedInv
<1> QED BY <1>1, DelegatedInvHolds, PTL

\* No order of stop, drop and completion leaves a task working on the worker
\* node for a call that is over: a cancel finds a handle to abort
\* (set_running_handle comes before the answer to the start request).
THEOREM WorkIsNotOrphaned == DTSpec => []NoWorkIsOrphaned
<1>1. DelegatedInv /\ StrandedByFaultOnly => NoWorkIsOrphaned
  <2> SUFFICES ASSUME DelegatedInv, StrandedByFaultOnly, Settled(theCall),
                      work \in {"starting", "working"}, ~aborted
               PROVE  theCall \in mishap
    BY DEF NoWorkIsOrphaned
  <2>1. worker[theCall] = "running"
    BY DEF DelegatedInv, SeenAsItIs, TaskState
  <2> QED BY <2>1, DelegatedAssumption DEF StrandedByFaultOnly
<1> QED BY <1>1, DelegatedInvHolds, DelegationIsImplemented, StrandedOnlyByFault, PTL
        DEF ImplementsDelegation

=============================================================================
