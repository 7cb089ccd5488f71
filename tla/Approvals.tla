------------------------------ MODULE Approvals ------------------------------
(***************************************************************************)
(* How a tool call of a channel turn is approved: the approval hook of the *)
(* tool loop and its wait (src/src/agent/loop_.rs), the pending requests   *)
(* and their resolutions (src/src/approval/mod.rs), and the commands of    *)
(* the chat that answer them (src/src/channels/mod.rs).  The messages come *)
(* from ChatTurns: in an interrupting chat the very answer cancels the     *)
(* turn that waits for it.                                                 *)
(*                                                                         *)
(* Pending requests, resolutions, tokens and lists have a lock each; a     *)
(* step is what is done under one of them.  A turn makes one tool call.    *)
(***************************************************************************)
EXTENDS ApprovalPolicy, Sequences, FiniteSets

AllTools == "all"      \* APPROVAL_ALL_TOOLS_ONCE_TOKEN

ASSUME ToolAssumption == AllTools \notin Tools

VARIABLES
    asked,     \* what each request is for: tool and chat, by id
    pending,   \* pending_non_cli_requests
    resolved,  \* resolved_non_cli_requests: "none", "yes" or "no" by id
    tokens,    \* non_cli_allow_all_once_remaining
    work,      \* what the processing of each message is doing
    \* History, read by properties only:
    decided,   \* the answers given: message, request and answer
    ran        \* the calls that ran because of a request: message, request and tool

requests == <<asked, pending, resolved, tokens>>
vars == <<turns, policyvars, requests, work, decided, ran>>

\* A message creates at most one request.
Ids == Messages
NoWork == [at |-> "new", tool |-> "none", id |-> 0]
Waits == {"waiting", "peeking", "rejecting", "discarding"}

Doing(m, at) == state[m] = "processing" /\ work[m].at = at
Goto(m, at) == work' = [work EXCEPT ![m].at = at]
\* Processing m is over; how it ended is kept if it is a call that had to ask.
Ended(at) == [NoWork EXCEPT !.at = at]
Finish(m, at) == work' = [work EXCEPT ![m] = Ended(at)] /\ End(m)
Mine(m, id) == asked[id].chat = chat[m]

-----------------------------------------------------------------------------
(* A message, once it is processed, first applies the file if it changed. *)

Reload(m) ==
    /\ Doing(m, "new") /\ ReloadDue
    /\ LoadPolicy(m)
    /\ Goto(m, "reloading")
    /\ UNCHANGED <<turns, requests, decided, ran>>

Ready(m) == \/ Doing(m, "new") /\ ~ReloadDue
            \/ Doing(m, "reloading") /\ update[m] = NoUpdate

-----------------------------------------------------------------------------
(* A turn and its tool call *)

\* run_tool_call_loop takes a token at its start: all its calls run.
Bypass(m) ==
    /\ Ready(m) /\ tokens > 0
    /\ tokens' = tokens - 1
    /\ Finish(m, "done")
    /\ UNCHANGED <<policyvars, asked, pending, resolved, decided, ran>>

\* needs_approval looks at always_ask and then, in another lock, at
\* auto_approve.
CallTool(m, t) ==
    /\ Ready(m) /\ tokens = 0
    /\ work' = [work EXCEPT ![m] = [at |-> IF t \in policy.always THEN "asking" ELSE "checking",
                                    tool |-> t, id |-> 0]]
    /\ UNCHANGED <<turns, policyvars, requests, decided, ran>>

CheckAuto(m) ==
    /\ Doing(m, "checking")
    /\ IF work[m].tool \in policy.auto
       THEN Finish(m, "done")
       ELSE Goto(m, "asking") /\ UNCHANGED turns
    /\ UNCHANGED <<policyvars, requests, decided, ran>>

\* create_non_cli_pending_request: a pending request for the same tool from the
\* same chat is shared.
Create(m, t, id) ==
    LET r == [tool |-> t, chat |-> chat[m]]
        same == {k \in pending : asked[k] = r}
    IN /\ id \in IF same = {} THEN {Len(asked) + 1} ELSE same
       /\ asked' = IF same = {} THEN Append(asked, r) ELSE asked
       /\ pending' = pending \cup {id}

Ask(m) ==
    /\ Doing(m, "asking")
    /\ \E id \in Ids :
           /\ Create(m, work[m].tool, id)
           /\ work' = [work EXCEPT ![m].at = "waiting", ![m].id = id]
    /\ UNCHANGED <<turns, policyvars, resolved, tokens, decided, ran>>

\* Bugs: a resolution is read and not taken; a request that is gone is waited for.
LookNotTaking(m) ==
    LET id == work[m].id
    IN /\ Doing(m, "waiting")
       /\ IF resolved[id] = "none"
          THEN Goto(m, "peeking") /\ UNCHANGED <<turns, ran>>
          ELSE /\ Finish(m, IF resolved[id] = "yes" THEN "allowed" ELSE "done")
               /\ ran' = IF resolved[id] = "yes" THEN ran \cup {<<m, id, work[m].tool>>} ELSE ran
       /\ UNCHANGED <<policyvars, requests, decided>>
PeekPatient(m) ==
    /\ Doing(m, "peeking")
    /\ IF m \in cancelled THEN Finish(m, "done")
       ELSE Goto(m, "waiting") /\ UNCHANGED turns
    /\ UNCHANGED <<policyvars, requests, decided, ran>>

\* await_non_cli_approval_decision takes the resolution if there is one ...
Look(m) ==
    LET id == work[m].id
    IN /\ Doing(m, "waiting")
       /\ resolved' = [resolved EXCEPT ![id] = "none"]
       /\ IF resolved[id] = "none"
          THEN Goto(m, "peeking") /\ UNCHANGED <<turns, ran>>
          ELSE /\ Finish(m, IF resolved[id] = "yes" THEN "allowed" ELSE "done")
               /\ ran' = IF resolved[id] = "yes" THEN ran \cup {<<m, id, work[m].tool>>} ELSE ran
       /\ UNCHANGED <<policyvars, asked, pending, tokens, decided>>

\* ... denies the call if the request is gone or the turn cancelled, and else
\* sleeps and looks again ...
Peek(m) ==
    /\ Doing(m, "peeking")
    /\ IF work[m].id \notin pending THEN Finish(m, "unanswered")
       ELSE IF m \in cancelled THEN Finish(m, "done")
       ELSE Goto(m, "waiting") /\ UNCHANGED turns
    /\ UNCHANGED <<policyvars, requests, decided, ran>>

\* ... until its time is up: it rejects the request and drops the resolution.
GiveUp(m) ==
    /\ Doing(m, "peeking")
    /\ work[m].id \in pending /\ m \notin cancelled
    /\ Goto(m, "rejecting")
    /\ UNCHANGED <<turns, policyvars, requests, decided, ran>>

RejectOwn(m) ==
    /\ Doing(m, "rejecting")
    /\ pending' = pending \ {work[m].id}
    /\ Goto(m, "discarding")
    /\ UNCHANGED <<turns, policyvars, asked, resolved, tokens, decided, ran>>

Discard(m) ==
    /\ Doing(m, "discarding")
    /\ resolved' = [resolved EXCEPT ![work[m].id] = "none"]
    /\ Finish(m, "done")
    /\ UNCHANGED <<policyvars, asked, pending, tokens, decided, ran>>

\* The turn is dropped where it sleeps, because it is cancelled or its own time
\* is up: the request stays pending.
Drop(m) ==
    /\ Doing(m, "waiting")
    /\ Finish(m, "done")
    /\ UNCHANGED <<policyvars, requests, decided, ran>>

-----------------------------------------------------------------------------
(* Commands *)

\* A command that changes nothing, or any other message without a tool call.
Pass(m) ==
    /\ Ready(m)
    /\ Finish(m, "done")
    /\ UNCHANGED <<policyvars, requests, decided, ran>>

\* /approve-request and /approve-all-once
RequestApproval(m, t) ==
    /\ Ready(m)
    /\ t = AllTools \/ t \in policy.always \/ t \notin policy.auto
    /\ \E id \in Ids : Create(m, t, id)
    /\ Finish(m, "done")
    /\ UNCHANGED <<policyvars, resolved, tokens, decided, ran>>

\* /approve-allow, /approve-confirm and /approve-deny take the pending request
\* of their own chat ...
Answer(m, id, command) ==
    /\ Ready(m)
    /\ id \in pending /\ Mine(m, id)
    /\ pending' = pending \ {id}
    /\ work' = [work EXCEPT ![m] = [at |-> command, tool |-> asked[id].tool, id |-> id]]
    /\ decided' = decided \cup {<<m, id, IF command = "deny" THEN "no" ELSE "yes">>}
    /\ UNCHANGED <<turns, policyvars, asked, resolved, tokens, ran>>

\* ... and record the resolution; a confirmation goes on to a grant.
Record(m) ==
    /\ state[m] = "processing" /\ work[m].at \in {"allow", "confirm", "deny"}
    /\ resolved' = [resolved EXCEPT ![work[m].id] = IF work[m].at = "deny" THEN "no" ELSE "yes"]
    /\ IF work[m].at = "confirm"
       THEN Goto(m, "granting") /\ UNCHANGED turns
       ELSE Finish(m, "done")
    /\ UNCHANGED <<policyvars, asked, pending, tokens, decided, ran>>

GrantToken(m) ==
    /\ Doing(m, "granting") /\ work[m].tool = AllTools
    /\ tokens' = tokens + 1
    /\ Finish(m, "done")
    /\ UNCHANGED <<policyvars, asked, pending, resolved, decided, ran>>

GrantTool(m) ==
    /\ Doing(m, "granting") /\ work[m].tool # AllTools
    /\ GrantAuto(m, work[m].tool)
    /\ Goto(m, "updating")
    /\ UNCHANGED <<turns, requests, decided, ran>>

\* clear_non_cli_pending_requests_for_tool, under both locks.
Clear(t) ==
    LET gone == {id \in pending : asked[id].tool = t}
    IN /\ pending' = pending \ gone
       /\ resolved' = [id \in Ids |-> IF id \in gone THEN "none" ELSE resolved[id]]
       /\ UNCHANGED <<asked, tokens>>

\* /approve
Approve(m, t) ==
    /\ Ready(m)
    /\ Clear(t)
    /\ work' = [work EXCEPT ![m] = [at |-> "granting", tool |-> t, id |-> 0]]
    /\ UNCHANGED <<turns, policyvars, decided, ran>>

\* /unapprove
Unapprove(m, t) ==
    /\ Ready(m)
    /\ Revoke(m, t)
    /\ work' = [work EXCEPT ![m] = [at |-> "updating", tool |-> t, id |-> 0]]
    /\ UNCHANGED <<turns, requests, decided, ran>>

ClearRevoked(m) ==
    /\ Doing(m, "updating") /\ update[m].at = "revoke"
    /\ Clear(work[m].tool)
    /\ Continue(m, "remove")
    /\ UNCHANGED <<turns, policy, file, version, applied, revoked, collided, work, decided, ran>>

\* A request expires after 30 minutes; whoever takes the lock next prunes it.
Expire(id) ==
    /\ id \in pending
    /\ pending' = pending \ {id}
    /\ UNCHANGED <<turns, policyvars, asked, resolved, tokens, work, decided, ran>>

-----------------------------------------------------------------------------
Init ==
    /\ TurnsInit
    /\ PolicyInit
    /\ asked = <<>>
    /\ pending = {}
    /\ resolved = [id \in Ids |-> "none"]
    /\ tokens = 0
    /\ work = [m \in Messages |-> NoWork]
    /\ decided = {}
    /\ ran = {}

\* What a message does of itself once it has begun to do something.
Proceed(m) ==
    \/ CheckAuto(m)
    \/ Ask(m)
    \/ Look(m)
    \/ Peek(m)
    \/ RejectOwn(m)
    \/ Discard(m)
    \/ Record(m)
    \/ GrantToken(m)
    \/ GrantTool(m)
    \/ ClearRevoked(m)

\* A command is over with its update.
Policing(m) ==
    /\ UpdateStep(m)
    /\ IF Doing(m, "updating") /\ update'[m] = NoUpdate
       THEN Finish(m, "done") ELSE UNCHANGED <<turns, work>>
    /\ UNCHANGED <<requests, decided, ran>>

Commands == {"allow", "confirm", "deny"}

Choose(m) ==
    \/ Bypass(m)
    \/ \E t \in Tools : CallTool(m, t) \/ Approve(m, t) \/ Unapprove(m, t)
    \/ \E t \in Tools \cup {AllTools} : RequestApproval(m, t)
    \/ \E id \in pending, command \in Commands : Answer(m, id, command)
    \/ Pass(m)

Next ==
    \/ Coming /\ UNCHANGED <<policyvars, requests, work, decided, ran>>
    \/ \E m \in Messages :
           \/ Reload(m)
           \/ Choose(m)
           \/ Proceed(m)
           \/ Policing(m)
           \/ GiveUp(m)
           \/ Drop(m)
    \/ \E id \in pending : Expire(id)

\* The worker of a message runs on, and the time of a waiting call runs out
\* although each look at it may come too early.
Fairness ==
    \A m \in Messages :
        /\ WF_vars(Reload(m) \/ Choose(m) \/ Proceed(m) \/ Policing(m))
        /\ SF_vars(GiveUp(m))

Spec == Init /\ [][Next]_vars /\ Fairness

-----------------------------------------------------------------------------
Working == {"new", "reloading", "checking", "asking", "granting", "updating"}
           \cup Waits \cup Commands
Ends == {"allowed", "unanswered", "done"}

TypeOK ==
    /\ PolicyTypeOK
    /\ asked \in Seq([tool: Tools \cup {AllTools}, chat: Chats])
    /\ pending \subseteq DOMAIN asked
    /\ resolved \in [Ids -> {"none", "yes", "no"}]
    /\ tokens \in Nat
    /\ work \in [Messages -> [at: Working \cup Ends, tool: Tools \cup {AllTools, "none"},
                              id: Ids \cup {0}]]

\* A call that had to ask runs only on a yes that one message of its own chat
\* gave to the request for its tool; each request is answered once, and each yes
\* lets one call run, however the two lock holds of an answer, the looks of the
\* waiting calls and expiry interleave.  No yes is left for a later call: a
\* resolution nobody took belongs to a request that is gone
\* (await_non_cli_approval_decision, confirm_non_cli_pending_request,
\* take_non_cli_pending_resolution, create_non_cli_pending_request).
OneCallPerAnswer ==
    /\ \A d, e \in decided : d[2] = e[2] => d = e
    /\ \A r, s \in ran : r[2] = s[2] => r = s
    /\ \A r \in ran : \E d \in decided :
           d[2] = r[2] /\ d[3] = "yes" /\ chat[d[1]] = chat[r[1]]
    /\ \A r \in ran : asked[r[2]] = [tool |-> r[3], chat |-> chat[r[1]]]
    /\ \A id \in Ids : resolved[id] # "none" => id \notin pending

\* Whoever answers a request in an interrupting chat has cancelled the turn that
\* waits for it: there no call ever runs on an answer.
InterruptingChatsNeverAllow ==
    \A r \in ran : chat[r[1]] \notin Interrupting

\* Every message that is processed ends, as they are finitely many: a call that
\* waits does so until its time is up at the latest, and the steps of an update
\* wait for nobody.
TurnsEnd == []<>(\A m \in Messages : state[m] # "processing")

\* "Approved pending request for this invocation" says the answer: a call is not
\* denied for want of an answer when its request has been allowed and it is the
\* only one that waits for it (src/src/channels/mod.rs).
AllowedCallsRun ==
    [][\A m \in Messages :
          /\ work'[m].at = "unanswered" /\ work[m].at # "unanswered"
          /\ \A k \in Messages \ {m} : work[k].at \in Waits \cup {"allowed"} => work[k].id # work[m].id
          => ~\E d \in decided : d[2] = work[m].id /\ d[3] = "yes"]_vars
=============================================================================
