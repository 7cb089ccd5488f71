------------------------- MODULE MCCoordinationBus -------------------------
(* Small instances of CoordinationBus for TLC: the envelopes submitted and  *)
(* the bound on publishes.                                                   *)
EXTENDS CoordinationBus

CONSTANTS a1, a2, c1, c2, p1, d1, d2, d3,
          MaxPublishes   \* bound: publishes per behaviour, invalid ones included

Bounded == stats.publish_attempts_total + dead.total < MaxPublishes

MCNext ==
    \/ \E a \in Agents : RegisterAgent(a) \/ UnregisterAgent(a)
    \/ \E a \in Agents, max \in 0..max_inbox_messages_per_agent :
           DrainForAgent(a, max)
    \/ Bounded /\ \E e \in Envelopes : Publish(e)

MCSpec == Init /\ [][MCNext]_vars

Message(id, to, corr) ==
    [id |-> id, to |-> to, corr |-> corr, well_formed |-> TRUE,
     scope |-> IF to = None THEN "Broadcast" ELSE "Direct",
     payload |-> "Ack", key |-> None, expected |-> 0]
Patch(id, to, corr, key, expected) ==
    [Message(id, to, corr) EXCEPT
        !.payload = "ContextPatch", !.key = key, !.expected = expected]

\* Delivery: directed and broadcast messages, one correlation, one blank.
DeliveryEnvelopes ==
    UNION {{Message(i, a1, c1), Message(i, a2, None), Message(i, None, c1),
            Message(i, a1, Blank)} : i \in Ids}

\* Context: patches of plain and delegate keys under right, wrong and
\* missing correlations, to one agent that may not be registered.
ContextEnvelopes ==
    UNION {UNION {{Patch(i, a1, c1, p1, v), Patch(i, a1, None, p1, v),
                   Patch(i, a1, c1, d1, v), Patch(i, a1, c2, d2, v)}
                      : v \in 0..1} : i \in Ids}
        \cup {Patch(i, a1, c2, d1, 0) : i \in Ids}
        \cup {Patch(i, None, c1, d3, 0) : i \in Ids}

MCKeyCorrelation ==
    [k \in DelegateKeys |-> CASE k = d1 -> c1 [] k = d2 -> c2 [] OTHER -> None]

Symmetry == Permutations(Ids)
=============================================================================
