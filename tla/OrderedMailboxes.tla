-------------------------- MODULE OrderedMailboxes --------------------------
(***************************************************************************)
(* What the coordination bus promises its agents about delivery: every     *)
(* message gets the next number of one clock; each open mailbox is a FIFO  *)
(* that keeps the newest Capacity numbers sent to it, so an agent takes    *)
(* messages in increasing order and loses only the oldest ones.            *)
(***************************************************************************)
EXTENDS Naturals, Sequences

CONSTANTS Agents, Capacity   \* Capacity is at least one

VARIABLES clock,   \* number of the last message
          boxes,   \* open mailbox -> numbers of its pending messages
          taken    \* highest number each agent has taken

vars == <<clock, boxes, taken>>

Init ==
    /\ clock = 0
    /\ boxes = <<>>
    /\ taken = [a \in Agents |-> 0]

Newest(s) ==
    IF Len(s) > Capacity THEN SubSeq(s, Len(s) - Capacity + 1, Len(s)) ELSE s

Open(a) ==
    /\ boxes' = [x \in DOMAIN boxes \cup {a} |->
                    IF x \in DOMAIN boxes THEN boxes[x] ELSE <<>>]
    /\ UNCHANGED <<clock, taken>>

Close(a) ==
    /\ boxes' = [x \in DOMAIN boxes \ {a} |-> boxes[x]]
    /\ UNCHANGED <<clock, taken>>

\* The clock ticks even when no mailbox is open or addressed.
Send(targets) ==
    /\ clock' = clock + 1
    /\ boxes' = [a \in DOMAIN boxes |->
                    IF a \in targets THEN Newest(Append(boxes[a], clock'))
                    ELSE boxes[a]]
    /\ UNCHANGED taken

Take(a, n) ==
    /\ n \in 1..Len(boxes[a])
    /\ boxes' = [boxes EXCEPT ![a] = SubSeq(@, n + 1, Len(@))]
    /\ taken' = [taken EXCEPT ![a] = boxes[a][n]]
    /\ UNCHANGED clock

Next ==
    \/ \E a \in Agents : Open(a) \/ Close(a)
    \/ \E targets \in SUBSET DOMAIN boxes : Send(targets)
    \/ \E a \in DOMAIN boxes : \E n \in 1..Len(boxes[a]) : Take(a, n)

Spec == Init /\ [][Next]_vars
=============================================================================
