----------------------------- MODULE MCRunLedger -----------------------------
(* Small instances of RunLedger for TLC. *)
EXTENDS RunLedger

CONSTANTS r1, r2, session, own, first, second, shell, padded, space

EntryOf(title, status, depends_on, expected) ==
    [title |-> title, status |-> status, tools |-> {},
     depends_on |-> depends_on, expected_evidence |-> expected]

Create(named, entries) == [action |-> "create", named |-> named, entries |-> entries]
UpdateOf(id, change) ==
    [action |-> "update", named |-> TRUE, id |-> id, change |-> change]

\* A plan of a step under way and one that rests on it.
TwoSteps ==
    <<EntryOf(first, "in_progress", {}, {}), EntryOf(second, "completed", {1}, {})>>

\* The same pattern without the space around it, and one of space alone.
MCTrim ==
    [pattern \in {shell, padded, space} |->
        CASE pattern = padded -> shell
          [] pattern = space -> Blank
          [] OTHER -> pattern]

\* An autonomous run makes its plan, by name or not, with an entry that is
\* dropped or without, with a dependency on 0 and a pattern of space; a chat turn
\* also turns done steps around: redone with more to show, in a circle.
MCPlanCalls ==
    [p \in Paths |->
        IF p \in OwnPaths
        THEN {Create(TRUE, TwoSteps), Create(FALSE, TwoSteps),
              Create(TRUE, <<EntryOf(NoTitle, "pending", {}, {}),
                             EntryOf(second, "skipped", {}, {})>>),
              [action |-> "add", named |-> TRUE,
               entry |-> EntryOf(second, "pending", {0, 1}, {space})],
              Create(TRUE, <<EntryOf(first, "in_progress", {0}, {padded})>>),
              Create(TRUE, <<EntryOf(NoTitle, "pending", {}, {})>>),
              [action |-> "delete", named |-> TRUE]}
        ELSE {UpdateOf(1, [status |-> "completed"]),
              UpdateOf(1, [depends_on |-> {2}]),
              UpdateOf(1, [status |-> "completed", expected_evidence |-> {shell, padded}])}]

Shell(success, shows) == [tool |-> shell, success |-> success, shows |-> shows]
MCToolCalls == {Shell(TRUE, {}), Shell(FALSE, {shell})}

\* An earlier turn of the session has made a plan, or has finished it.
Made == Mirrored(FreshData, Create(TRUE, TwoSteps))

Did(data, call) ==
    WithEvent(IF IsPlanCall(call) THEN Mirrored(data, call) ELSE data,
              [call |-> call, success |-> TRUE])

Finished ==
    Did(Did(Did(Did(Did(Made,
        Shell(TRUE, {})), UpdateOf(1, [status |-> "completed"])),
        UpdateOf(2, [status |-> "in_progress"])), Shell(TRUE, {})),
        UpdateOf(2, [status |-> "completed"]))

LeftBy(data) ==
    [list |-> [tasks |-> TasksOf(data.plan),
               next_id |-> 3, owner |-> session],
     file |-> [p \in Paths |->
         IF p \in OwnPaths THEN NoFile ELSE [data EXCEPT !.status = "completed"]]]

MCEarlier == {LeftBy(Made), LeftBy(Finished)}

Symmetry == Permutations(Runs)
=============================================================================
