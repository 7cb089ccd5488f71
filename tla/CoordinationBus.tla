--------------------------- MODULE CoordinationBus ---------------------------
(***************************************************************************)
(* The in-memory coordination bus (src/src/coordination/mod.rs).           *)
(*                                                                         *)
(* Every public method takes the one mutex around BusState, so an action   *)
(* is a whole method call: `publish` with every effect of its outcome      *)
(* (validation failure, duplicate id, context conflict, unknown target,    *)
(* delivery), `register_agent`, `unregister_agent`, `drain_for_agent`.     *)
(* Agents call in any order and from any thread.                           *)
(*                                                                         *)
(* Text is abstracted to what the bus distinguishes: a blank string, an    *)
(* absent one, or one of a few values; `well_formed` stands for "every     *)
(* required text field is non-blank".  Payload contents other than the     *)
(* context key and expected version never influence the bus.               *)
(***************************************************************************)
EXTENDS Naturals, Sequences, FiniteSets, SequencesExt

CONSTANTS
    Agents,          \* names an envelope can address or an agent can register
    Ids,             \* message ids
    Correlations,    \* non-blank correlation ids
    PlainKeys,       \* context keys outside the delegate/ namespace
    DelegateKeys,    \* context keys that start with "delegate/"
    KeyCorrelation,  \* correlation named by a delegate key, None if malformed
    Envelopes,       \* the envelopes callers submit
    InboxLimit, DeadLetterLimit, ContextLimit, SeenLimit,  \* as configured
    None, Blank      \* an absent string, a whitespace-only string

Keys == PlainKeys \cup DelegateKeys
Payloads == {"DelegateTask", "ContextPatch", "TaskResult", "Ack", "Control"}

EnvelopeType ==
    [id: Ids, to: Agents \cup {None, Blank}, scope: {"Direct", "Broadcast"},
     corr: Correlations \cup {None, Blank}, well_formed: BOOLEAN,
     payload: Payloads, key: Keys \cup {None}, expected: Nat]

\* Only a context patch carries a key; the distinguished strings are no names.
ASSUME BusAssumption ==
    /\ {InboxLimit, DeadLetterLimit, ContextLimit, SeenLimit} \subseteq Nat
    /\ {None, Blank} \cap (Agents \cup Correlations \cup Keys) = {}
    /\ None # Blank
    /\ PlainKeys \cap DelegateKeys = {}
    /\ KeyCorrelation \in [DelegateKeys -> Correlations \cup {None}]
    /\ Envelopes \subseteq EnvelopeType
    /\ \A e \in Envelopes : e.payload = "ContextPatch" <=> e.key # None
    /\ IsFiniteSet(Agents)

\* BusState::with_limits turns a configured zero into one.
AtLeastOne(n) == IF n = 0 THEN 1 ELSE n
max_inbox_messages_per_agent == AtLeastOne(InboxLimit)
max_dead_letters == AtLeastOne(DeadLetterLimit)
max_context_entries == AtLeastOne(ContextLimit)
max_seen_message_ids == AtLeastOne(SeenLimit)

VARIABLES
    next_sequence,
    inboxes,             \* registered agent -> queue of [sequence, envelope]
    correlation_counts,  \* inbox_correlation_counts; 0 is an absent entry
    seen,                \* seen_message_ids, seen_message_order, evictions
    dead,                \* dead_letters and their index, with two counters
    ctx,                 \* the shared context and its five indexes
    stats,               \* the remaining counters of InMemoryMessageBusStats
    \* History, read by properties only:
    last_received,       \* highest sequence each agent name ever drained
    consumed,            \* inbox entries drained or discarded by unregister
    accepted_at          \* ordinal of the last acceptance of each id, 0 if none

mail == <<next_sequence, inboxes, correlation_counts>>
history == <<last_received, consumed, accepted_at>>
vars == <<mail, seen, dead, ctx, stats, history>>

-----------------------------------------------------------------------------
(* Envelopes *)

\* normalized_non_empty(correlation_id): a blank correlation counts as absent.
Corr(e) == IF e.corr \in Correlations THEN e.corr ELSE None

\* CoordinationEnvelope::validate
Valid(e) ==
    /\ e.well_formed
    /\ e.scope = "Direct" => e.to \notin {None, Blank}
    /\ e.scope = "Broadcast" => e.to = None
    /\ e.corr # Blank
    /\ e.payload = "DelegateTask" => e.scope = "Direct"
    /\ e.payload = "TaskResult" => e.corr # None

-----------------------------------------------------------------------------
(* Dead letters *)

\* push_dead_letter_locked: at the cap the oldest letter goes, and the front
\* of the index of its correlation with it.
Bury(d, e, reason) ==
    LET full   == Len(d.letters) >= max_dead_letters
        oldest == Corr(Head(d.letters).envelope)
        kept   == IF full THEN Tail(d.letters) ELSE d.letters
        index  == IF full /\ oldest # None /\ d.by_correlation[oldest] # <<>>
                  THEN [d.by_correlation EXCEPT ![oldest] = Tail(@)]
                  ELSE d.by_correlation
        letter == [envelope |-> e, reason |-> reason]
    IN [letters        |-> Append(kept, letter),
        by_correlation |-> IF Corr(e) = None THEN index
                           ELSE [index EXCEPT ![Corr(e)] = Append(@, letter)],
        total          |-> d.total + 1,
        evictions      |-> IF full THEN d.evictions + 1 ELSE d.evictions]

\* One letter per dropped envelope, in the order of the sequence.
BuryAll(d, dropped) ==
    LET after[i \in 0..Len(dropped)] ==
            IF i = 0 THEN d ELSE Bury(after[i - 1], dropped[i], "overflow")
    IN after[Len(dropped)]

-----------------------------------------------------------------------------
(* Shared context *)

Version(c, k) == IF k \in DOMAIN c.entries THEN c.entries[k].version ELSE 0

\* The checks of apply_context_patch_locked, before it changes anything.
PatchApplies(c, e) ==
    /\ e.key \in DelegateKeys => /\ KeyCorrelation[e.key] # None
                                 /\ KeyCorrelation[e.key] = Corr(e)
    /\ Version(c, e.key) = e.expected

\* remove_key_from_context_correlation_order, and the second half of
\* remove_key_from_delegate_context_order
Unindex(index, corr, k) ==
    IF corr = None THEN index
    ELSE [index EXCEPT ![corr] = RemoveFirst(@, k)]

Index(index, corr, k) ==
    IF corr = None THEN index ELSE [index EXCEPT ![corr] = Append(@, k)]

\* The least recently written key leaves the context and every index.
EvictOldest(c) ==
    LET k    == Head(c.order)
        corr == c.correlation_of[k]
        del  == k \in DelegateKeys
    IN [entries        |-> Restrict(c.entries, DOMAIN c.entries \ {k}),
        order          |-> Tail(c.order),
        correlation_of |-> [c.correlation_of EXCEPT ![k] = None],
        by_correlation |-> Unindex(c.by_correlation, corr, k),
        delegates      |-> IF del THEN RemoveFirst(c.delegates, k)
                           ELSE c.delegates,
        delegates_by_correlation |->
            IF del THEN Unindex(c.delegates_by_correlation, corr, k)
            ELSE c.delegates_by_correlation,
        evictions      |-> c.evictions + 1]

\* The key moves to the back of each order it belongs in, one version on.
WriteEntry(c, e) ==
    LET k    == e.key
        old  == c.correlation_of[k]
        del  == k \in DelegateKeys
        entry == [version |-> Version(c, k) + 1, last_message_id |-> e.id]
    IN [entries        |-> [x \in DOMAIN c.entries \cup {k} |->
                               IF x = k THEN entry ELSE c.entries[x]],
        order          |-> Append(IF k \in DOMAIN c.entries
                                  THEN RemoveFirst(c.order, k)
                                  ELSE c.order, k),
        correlation_of |-> [c.correlation_of EXCEPT ![k] = Corr(e)],
        by_correlation |-> Index(Unindex(c.by_correlation, old, k), Corr(e), k),
        delegates      |-> IF del THEN Append(RemoveFirst(c.delegates, k), k)
                           ELSE c.delegates,
        delegates_by_correlation |->
            IF del
            THEN Index(Unindex(c.delegates_by_correlation, old, k), Corr(e), k)
            ELSE c.delegates_by_correlation,
        evictions      |-> c.evictions]

\* A bug: an eviction for a key already present.
NeedsEvictionAlways(c, k) ==
    /\ Cardinality(DOMAIN c.entries) >= max_context_entries
    /\ c.order # <<>>

NeedsEviction(c, k) ==
    /\ k \notin DOMAIN c.entries
    /\ Cardinality(DOMAIN c.entries) >= max_context_entries
    /\ c.order # <<>>

\* apply_context_patch_locked once its checks have passed
ApplyPatch(c, e) ==
    WriteEntry(IF NeedsEviction(c, e.key) THEN EvictOldest(c) ELSE c, e)
-----------------------------------------------------------------------------
(* Inboxes *)

Occupied(a) == Len(inboxes[a]) >= max_inbox_messages_per_agent

\* increment_correlation_count and decrement_correlation_count
Increment(counts, e) ==
    IF Corr(e) = None THEN counts ELSE [counts EXCEPT ![Corr(e)] = @ + 1]
Decrement(counts, e) ==
    IF Corr(e) = None THEN counts
    ELSE [counts EXCEPT ![Corr(e)] = IF @ <= 1 THEN 0 ELSE @ - 1]

\* Two bugs of the overflow: the newest entry makes room instead of the oldest
\* (pop_back for pop_front), and the counter of the dropped entry keeps
\* counting it.
PushInboxPopsNewest(a, entry) ==
    Append(IF Occupied(a) THEN Front(inboxes[a]) ELSE inboxes[a], entry)
PushCountsOnly(a, entry) == Increment(correlation_counts[a], entry.envelope)

\* push_inbox_entry_locked: a full inbox drops its oldest entry first.
PushInbox(a, entry) ==
    Append(IF Occupied(a) THEN Tail(inboxes[a]) ELSE inboxes[a], entry)
PushCounts(a, entry) ==
    Increment(IF Occupied(a)
              THEN Decrement(correlation_counts[a], Head(inboxes[a]).envelope)
              ELSE correlation_counts[a],
              entry.envelope)

\* Counts after the first n entries of the inbox of a have been popped.
DrainCounts(a, n) ==
    LET left[i \in 0..n] ==
            IF i = 0 THEN correlation_counts[a]
            ELSE Decrement(left[i - 1], inboxes[a][i].envelope)
    IN left[n]

-----------------------------------------------------------------------------
(* Initial state: InMemoryMessageBus::with_limits *)

NoDeadLetters ==
    [letters |-> <<>>, by_correlation |-> [c \in Correlations |-> <<>>],
     total |-> 0, evictions |-> 0]
EmptyContext ==
    [entries |-> <<>>, order |-> <<>>,
     correlation_of |-> [k \in Keys |-> None],
     by_correlation |-> [c \in Correlations |-> <<>>],
     delegates |-> <<>>,
     delegates_by_correlation |-> [c \in Correlations |-> <<>>],
     evictions |-> 0]

Init ==
    /\ next_sequence = 0
    /\ inboxes = <<>>
    /\ correlation_counts = <<>>
    /\ seen = [ids |-> {}, order |-> <<>>, evictions |-> 0]
    /\ dead = NoDeadLetters
    /\ ctx = EmptyContext
    /\ stats = [publish_attempts_total |-> 0, deliveries_total |-> 0,
                inbox_overflow_evictions_total |-> 0]
    /\ last_received = [a \in Agents |-> 0]
    /\ consumed = 0
    /\ accepted_at = [i \in Ids |-> 0]

-----------------------------------------------------------------------------
(* Actions *)

\* register_agent: registering again keeps the inbox that is there.
RegisterAgent(a) ==
    LET names == DOMAIN inboxes \cup {a}
    IN /\ inboxes' = [x \in names |->
                         IF x \in DOMAIN inboxes THEN inboxes[x] ELSE <<>>]
       /\ correlation_counts' =
              [x \in names |-> IF x \in DOMAIN inboxes
                               THEN correlation_counts[x]
                               ELSE [c \in Correlations |-> 0]]
       /\ UNCHANGED <<next_sequence, seen, dead, ctx, stats, history>>

\* unregister_agent: pending messages vanish without a dead letter.
UnregisterAgent(a) ==
    /\ a \in DOMAIN inboxes
    /\ inboxes' = Restrict(inboxes, DOMAIN inboxes \ {a})
    /\ correlation_counts' = Restrict(correlation_counts,
                                      DOMAIN correlation_counts \ {a})
    /\ consumed' = consumed + Len(inboxes[a])
    /\ UNCHANGED <<next_sequence, seen, dead, ctx, stats,
                   last_received, accepted_at>>

\* drain_for_agent: max = 0 drains everything.
DrainForAgent(a, max) ==
    /\ a \in DOMAIN inboxes
    /\ LET pending == Len(inboxes[a])
           n == IF max = 0 \/ max > pending THEN pending ELSE max
       IN /\ inboxes' = [inboxes EXCEPT ![a] = SubSeq(@, n + 1, pending)]
          /\ correlation_counts' =
                 [correlation_counts EXCEPT ![a] = DrainCounts(a, n)]
          /\ last_received' = IF n = 0 THEN last_received
                              ELSE [last_received EXCEPT
                                       ![a] = inboxes[a][n].sequence]
          /\ consumed' = consumed + n
    /\ UNCHANGED <<next_sequence, seen, dead, ctx, stats, accepted_at>>

\* publish, outcome 1: validate() fails; the attempt is not even counted.
PublishInvalid(e) ==
    /\ ~Valid(e)
    /\ dead' = Bury(dead, e, "invalid")
    /\ UNCHANGED <<mail, seen, ctx, stats, history>>

\* publish, outcome 2: the id is still in the dedupe window.
PublishDuplicate(e) ==
    /\ Valid(e)
    /\ e.id \in seen.ids
    /\ dead' = Bury(dead, e, "duplicate")
    /\ stats' = [stats EXCEPT !.publish_attempts_total = @ + 1]
    /\ UNCHANGED <<mail, seen, ctx, history>>

\* A bug: the window forgets its oldest id one acceptance early.
RememberLess(s, id) ==
    LET full == /\ Cardinality(s.ids) + 1 >= max_seen_message_ids
                /\ s.order # <<>>
    IN [ids       |-> (IF full THEN s.ids \ {Head(s.order)} ELSE s.ids)
                          \cup {id},
        order     |-> Append(IF full THEN Tail(s.order) ELSE s.order, id),
        evictions |-> IF full THEN s.evictions + 1 ELSE s.evictions]

\* The dedupe window after it takes id: the oldest id leaves a full window.
Remember(s, id) ==
    LET full == Cardinality(s.ids) >= max_seen_message_ids /\ s.order # <<>>
        kept == IF full THEN s.ids \ {Head(s.order)} ELSE s.ids
    IN [ids       |-> kept \cup {id},
        order     |-> Append(IF full THEN Tail(s.order) ELSE s.order, id),
        evictions |-> IF full THEN s.evictions + 1 ELSE s.evictions]

\* What every publish of a new id does, whatever follows.
Accept(e) ==
    /\ Valid(e)
    /\ e.id \notin seen.ids
    /\ seen' = Remember(seen, e.id)
    /\ accepted_at' = [accepted_at EXCEPT
                          ![e.id] = seen.evictions + Len(seen.order) + 1]
    /\ UNCHANGED <<last_received, consumed>>

\* publish, outcome 3: the context patch is refused; its id stays consumed.
PublishConflict(e) ==
    /\ Accept(e)
    /\ e.payload = "ContextPatch"
    /\ ~PatchApplies(ctx, e)
    /\ dead' = Bury(dead, e, "conflict")
    /\ stats' = [stats EXCEPT !.publish_attempts_total = @ + 1]
    /\ UNCHANGED <<mail, ctx>>

\* A patch is written, and a sequence number taken, before routing.
Sequenced(e) ==
    /\ Accept(e)
    /\ e.payload = "ContextPatch" => PatchApplies(ctx, e)
    /\ ctx' = IF e.payload = "ContextPatch" THEN ApplyPatch(ctx, e) ELSE ctx
    /\ next_sequence' = next_sequence + 1

\* publish, outcome 4: no such inbox; the patch is already written.
PublishUnknownTarget(e) ==
    /\ Sequenced(e)
    /\ e.scope = "Direct"
    /\ e.to \notin DOMAIN inboxes
    /\ dead' = Bury(dead, e, "unknown target")
    /\ stats' = [stats EXCEPT !.publish_attempts_total = @ + 1]
    /\ UNCHANGED <<inboxes, correlation_counts>>

\* A bug: a delivery that overflows its inbox is not counted.
TallyKept(delivered, overflowed) ==
    [publish_attempts_total |-> stats.publish_attempts_total + 1,
     deliveries_total |-> stats.deliveries_total + delivered - overflowed,
     inbox_overflow_evictions_total |->
         stats.inbox_overflow_evictions_total + overflowed]

Tally(delivered, overflowed) ==
    [publish_attempts_total |-> stats.publish_attempts_total + 1,
     deliveries_total |-> stats.deliveries_total + delivered,
     inbox_overflow_evictions_total |->
         stats.inbox_overflow_evictions_total + overflowed]

\* Each target gets the entry; the entries full inboxes dropped are buried
\* one by one, in the order the hash map lists the agents.
Deliver(e, targets) ==
    LET entry == [sequence |-> next_sequence + 1, envelope |-> e]
        full  == {a \in targets : Occupied(a)}
    IN /\ inboxes' = [a \in DOMAIN inboxes |->
                         IF a \in targets THEN PushInbox(a, entry)
                         ELSE inboxes[a]]
       /\ correlation_counts' =
              [a \in DOMAIN inboxes |->
                  IF a \in targets THEN PushCounts(a, entry)
                  ELSE correlation_counts[a]]
       /\ \E order \in SetToSeqs(full) :
              dead' = BuryAll(dead, [i \in 1..Len(order) |->
                                        Head(inboxes[order[i]]).envelope])
       /\ stats' = Tally(Cardinality(targets), Cardinality(full))

\* publish, outcome 5: one inbox.
PublishDirect(e) ==
    /\ e.scope = "Direct"
    /\ e.to \in DOMAIN inboxes
    /\ Sequenced(e)
    /\ Deliver(e, {e.to})

\* publish, outcome 6: every inbox there is, possibly none.
PublishBroadcast(e) ==
    /\ e.scope = "Broadcast"
    /\ Sequenced(e)
    /\ Deliver(e, DOMAIN inboxes)

Publish(e) ==
    \/ PublishInvalid(e)
    \/ PublishDuplicate(e)
    \/ PublishConflict(e)
    \/ PublishUnknownTarget(e)
    \/ PublishDirect(e)
    \/ PublishBroadcast(e)

Next ==
    \/ \E a \in Agents : RegisterAgent(a) \/ UnregisterAgent(a)
    \/ \E a \in Agents, max \in 0..max_inbox_messages_per_agent :
           DrainForAgent(a, max)
    \/ \E e \in Envelopes : Publish(e)

Spec == Init /\ [][Next]_vars

-----------------------------------------------------------------------------
(* Queries: each holds the lock once and changes nothing *)

AtMost(max, available) == IF max = 0 \/ max > available THEN available ELSE max
Beyond(n, offset) == IF n > offset THEN n - offset ELSE 0

\* A page of s, oldest first, of the entries after offset (max = 0: all).
Page(s, offset, max) ==
    SubSeq(s, offset + 1, offset + AtMost(max, Beyond(Len(s), offset)))

\* The same, newest first.
RecentPage(s, offset, max) == Page(Reverse(s), offset, max)

\* The elements of s that are in S, in the order of s.
Matching(s, S) ==
    LET kept[i \in 0..Len(s)] ==
            IF i = 0 THEN <<>>
            ELSE IF s[i] \in S THEN Append(kept[i - 1], s[i]) ELSE kept[i - 1]
    IN kept[Len(s)]

InCorrelation(s, c) == Matching(s, {m \in ToSet(s) : Corr(m.envelope) = c})

\* pending_for_agent_correlation
PendingCorrelation(a, c) == correlation_counts[a][c]

\* peek_for_agent_correlation_with_offset: the length comes from the counters,
\* the entries from a scan.
PeekCorrelation(a, c, offset, max) ==
    LET matches == InCorrelation(inboxes[a], c)
        take == AtMost(max, Beyond(PendingCorrelation(a, c), offset))
        last == offset + take
    IN SubSeq(matches, offset + 1,
              IF last > Len(matches) THEN Len(matches) ELSE last)

\* The context query families: keys of the index that still have an entry.
PresentKeys(s) == Matching(s, DOMAIN ctx.entries)
ContextRecent(offset, max) ==
    PresentKeys(RecentPage(ctx.order, offset, max))
ContextRecentForCorrelation(c, offset, max) ==
    PresentKeys(RecentPage(ctx.by_correlation[c], offset, max))
DelegateContextRecent(offset, max) ==
    PresentKeys(RecentPage(ctx.delegates, offset, max))
DelegateContextRecentForCorrelation(c, offset, max) ==
    PresentKeys(RecentPage(ctx.delegates_by_correlation[c], offset, max))
DeadLettersRecentForCorrelation(c, offset, max) ==
    RecentPage(dead.by_correlation[c], offset, max)

-----------------------------------------------------------------------------
(* Type invariant *)

Reasons == {"invalid", "duplicate", "conflict", "unknown target", "overflow"}
DeadLetterType == [envelope: EnvelopeType, reason: Reasons]
DeadType ==
    [letters: Seq(DeadLetterType),
     by_correlation: [Correlations -> Seq(DeadLetterType)],
     total: Nat, evictions: Nat]

EntryType == [sequence: Nat, envelope: EnvelopeType]
CountsType == [Correlations -> Nat]
SeenType == [ids: SUBSET Ids, order: Seq(Ids), evictions: Nat]
StatsType ==
    [publish_attempts_total: Nat, deliveries_total: Nat,
     inbox_overflow_evictions_total: Nat]

ContextEntryType == [version: Nat, last_message_id: Ids]
IndexType == [Correlations -> Seq(Keys)]
\* The keys of entries vary, so they are typed apart from the other fields.
ContextFields(c) ==
    [order |-> c.order, correlation_of |-> c.correlation_of,
     by_correlation |-> c.by_correlation, delegates |-> c.delegates,
     delegates_by_correlation |-> c.delegates_by_correlation,
     evictions |-> c.evictions]
ContextTyped(c) ==
    /\ DOMAIN c.entries \subseteq Keys
    /\ c.entries \in [DOMAIN c.entries -> ContextEntryType]
    /\ ContextFields(c) \in
           [order: Seq(Keys), correlation_of: [Keys -> Correlations \cup {None}],
            by_correlation: IndexType, delegates: Seq(Keys),
            delegates_by_correlation: IndexType, evictions: Nat]

TypeOK ==
    /\ next_sequence \in Nat
    /\ DOMAIN inboxes \subseteq Agents
    /\ inboxes \in [DOMAIN inboxes -> Seq(EntryType)]
    /\ correlation_counts \in [DOMAIN inboxes -> CountsType]
    /\ seen \in SeenType
    /\ dead \in DeadType
    /\ ContextTyped(ctx)
    /\ stats \in StatsType
    /\ last_received \in [Agents -> Nat]
    /\ consumed \in Nat
    /\ accepted_at \in [Ids -> Nat]

-----------------------------------------------------------------------------
(* Safety *)

\* Sequence numbers increase along s, after low and up to high.
Ordered(s, low, high) ==
    \A i \in 1..Len(s) :
        /\ low < s[i].sequence
        /\ s[i].sequence <= high
        /\ \A j \in 1..(i - 1) : s[j].sequence < s[i].sequence

\* Per-agent ordered delivery: what an inbox holds is in sequence order and
\* newer than anything the agent of that name ever received, even when it
\* unregistered and registered again in between (push_inbox_entry_locked,
\* drain_for_agent).
OrderedDelivery ==
    \A a \in DOMAIN inboxes :
        Ordered(inboxes[a], last_received[a], next_sequence)

\* Nothing delivered is unaccounted for: each delivery counted is pending, was
\* consumed, or was dropped by an overflow that was counted.
DeliveriesAccounted ==
    stats.deliveries_total =
        SumFunction([a \in DOMAIN inboxes |-> Len(inboxes[a])])
            + consumed + stats.inbox_overflow_evictions_total

\* Idempotency guard: between two acceptances of one id there are at least
\* max_seen_message_ids acceptances of other ids (publish).
NoReacceptanceInWindow ==
    [][\A i \in Ids :
          accepted_at[i] # 0 /\ accepted_at'[i] # accepted_at[i]
              => accepted_at'[i] - accepted_at[i] >= max_seen_message_ids + 1
      ]_vars

\* What a scan of the inboxes, the context and the dead letters would answer to
\* the queries about c, a page of at most max entries after the first offset.
ScanAnswers(c, offset, max) ==
    LET Scan(S) == Matching(ctx.order, S)
        Size(s) == AtMost(max, Beyond(Len(s), offset))
        Oldest(s) == [i \in 1..Size(s) |-> s[offset + i]]
        Newest(s) == [i \in 1..Size(s) |-> s[Len(s) - offset - i + 1]]
    IN /\ \A a \in DOMAIN inboxes :
              /\ PendingCorrelation(a, c) = Len(InCorrelation(inboxes[a], c))
              /\ PeekCorrelation(a, c, offset, max)
                     = Oldest(InCorrelation(inboxes[a], c))
       /\ ContextRecent(offset, max) = Newest(ctx.order)
       /\ ContextRecentForCorrelation(c, offset, max)
              = Newest(Scan({k \in Keys : ctx.correlation_of[k] = c}))
       /\ DelegateContextRecent(offset, max) = Newest(Scan(DelegateKeys))
       /\ DelegateContextRecentForCorrelation(c, offset, max)
              = Newest(Scan({k \in DelegateKeys : KeyCorrelation[k] = c}))
       /\ DeadLettersRecentForCorrelation(c, offset, max)
              = Newest(InCorrelation(dead.letters, c))

\* Paged queries answer from the counters and indexes what that scan would.
QueriesMatchFullScan ==
    \A offset, max \in 0..2, c \in Correlations : ScanAnswers(c, offset, max)

-----------------------------------------------------------------------------
(* Refinement *)

\* Delivery implements OrderedMailboxes: an entry is its sequence number.
Numbers(s) == [i \in 1..Len(s) |-> s[i].sequence]
Mailboxes ==
    INSTANCE OrderedMailboxes WITH
        Capacity <- max_inbox_messages_per_agent,
        clock <- next_sequence,
        boxes <- [a \in DOMAIN inboxes |-> Numbers(inboxes[a])],
        taken <- last_received
ImplementsMailboxes == Mailboxes!Spec

\* The shared context implements VersionedStore: an entry is its version.
Store ==
    INSTANCE VersionedStore WITH
        Capacity <- max_context_entries,
        store <- [k \in DOMAIN ctx.entries |-> ctx.entries[k].version]
ImplementsStore == Store!Spec
=============================================================================
