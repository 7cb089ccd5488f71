--------------------------- MODULE ApprovalsProofs ---------------------------
(***************************************************************************)
(* Proofs about Approvals, for any number of messages, chats and tools:    *)
(* a call that had to ask runs on one answer of its own chat, no answer    *)
(* serves two calls, an interrupting chat never allows one, and            *)
(* revocations hold.                                                       *)
(*                                                                         *)
(* Every step is one of ChatTurns or leaves the turns alone, and one of    *)
(* ApprovalPolicy or leaves the lists alone: these two parts have          *)
(* invariants of their own, the requests one that uses the first.          *)
(***************************************************************************)
EXTENDS Approvals, TLAPS

\* In an interrupting chat one message at a time is processed.
TurnsInv ==
    /\ chat \in [Messages -> Chats]
    /\ state \in [Messages -> {"away", "waiting", "processing", "ended"}]
    /\ cancelled \subseteq Messages
    /\ \A m, k \in Messages :
           /\ state[m] = "processing" /\ state[k] = "processing"
           /\ chat[m] \in Interrupting /\ chat[m] = chat[k]
           => m = k

-----------------------------------------------------------------------------
\* Unless two updates overlapped there is at most one: what it read is still
\* what the file says, and what it granted or revoked is still so.
LoneUpdate(m) ==
    LET u == update[m]
    IN /\ \A k \in Updating : k = m
       /\ u.at \in {"loaded", "stamped", "replaced", "persisting", "removing"} => u.copy = file
       /\ u.at \in {"granted", "persist", "persisting"} => u.tool \notin revoked
       /\ u.at \in {"revoke", "remove", "removing"} => u.tool \notin policy.auto

\* A grant and a revocation are of a tool.
ToolInv ==
    \A m \in Messages :
        update[m].at \in {"granted", "persist", "persisting", "revoke", "remove", "removing"}
            => update[m].tool \in Tools

PolicyInv ==
    /\ PolicyTypeOK
    /\ ToolInv
    /\ collided \/ \A m \in Updating : LoneUpdate(m)
    /\ RevocationsHold

-----------------------------------------------------------------------------
\* Who has begun to do something has arrived.
ArrivedInv ==
    /\ \A m \in Messages : work[m].at # "new" => state[m] # "away"
    /\ \A d \in decided : state[d[1]] # "away"
    /\ \A r \in ran : state[r[1]] # "away"

Work == [at: Working \cup Ends, tool: Tools \cup {AllTools, "none"}, id: Ids \cup {0}]
Fits(w) ==
    /\ w \in Work
    /\ w.at \in {"checking", "asking"} \cup Waits => w.tool \in Tools
    /\ w.at \in Commands \cup {"granting"} => w.tool \in Tools \cup {AllTools}
WorkFits == work \in [Messages -> Work] /\ \A m \in Messages : Fits(work[m])

RequestsTypeOK ==
    /\ asked \in Seq([tool: Tools \cup {AllTools}, chat: Chats])
    /\ pending \subseteq DOMAIN asked /\ DOMAIN asked \subseteq Ids
    /\ resolved \in [Ids -> {"none", "yes", "no"}]
    /\ tokens \in Nat
    /\ WorkFits
    /\ decided \subseteq Messages \X Ids \X {"yes", "no"}
    /\ ran \subseteq Messages \X Ids \X Tools

Answering(m, id) == work[m].at \in Commands /\ work[m].id = id
Decided(id) == \E d \in decided : d[2] = id
Allowed(id) == \E d \in decided : d[2] = id /\ d[3] = "yes" /\ chat[d[1]] = asked[id].chat

\* An answer is in one place: with who gives it, in the resolution, or with the
\* call that ran.  A request that is pending has none.
AnswerInv ==
    /\ \A d \in decided : d[2] \in DOMAIN asked
    /\ \A d, e \in decided : d[2] = e[2] => d = e
    /\ \A id \in pending : ~Decided(id)
    /\ \A m \in Messages : work[m].at \in Commands =>
           \E d \in decided : /\ d[1] = m /\ d[2] = work[m].id
                              /\ d[3] = IF work[m].at = "deny" THEN "no" ELSE "yes"
                              /\ chat[m] = asked[work[m].id].chat
    /\ \A id \in Ids : resolved[id] # "none" =>
           /\ Decided(id)
           /\ \A m \in Messages : ~Answering(m, id)
           /\ resolved[id] = "yes" => Allowed(id)
    /\ \A r \in ran :
           /\ Allowed(r[2]) /\ resolved[r[2]] = "none"
           /\ \A m \in Messages : ~Answering(m, r[2])
    /\ \A r, s \in ran : r[2] = s[2] => r = s

\* A call waits for a request for its tool from its own chat; in an
\* interrupting chat nobody has answered it.
WaitsInv ==
    /\ \A m \in Messages : work[m].at \in Waits =>
           /\ state[m] = "processing"
           /\ work[m].id \in DOMAIN asked
           /\ asked[work[m].id] = [tool |-> work[m].tool, chat |-> chat[m]]
           /\ chat[m] \in Interrupting => ~Decided(work[m].id)
    /\ \A r \in ran :
           /\ r[2] \in DOMAIN asked
           /\ asked[r[2]] = [tool |-> r[3], chat |-> chat[r[1]]]
           /\ chat[r[1]] \notin Interrupting

RequestInv ==
    /\ RequestsTypeOK
    /\ ArrivedInv
    /\ AnswerInv
    /\ WaitsInv

IInv == TurnsInv /\ PolicyInv /\ RequestInv

-----------------------------------------------------------------------------
(* The turns *)

LEMMA InitTurnsInv == Chats # {} /\ TurnsInit => TurnsInv
BY DEF TurnsInit, TurnsInv

LEMMA NextTurnsInv == TurnsInv /\ [TurnsNext]_turns => TurnsInv'
<1> SUFFICES ASSUME TurnsInv, [TurnsNext]_turns PROVE TurnsInv'
  OBVIOUS
<1> USE DEF TurnsInv, Becomes
<1>1. ASSUME NEW m \in Messages, NEW c \in Chats, Arrive(m, c) PROVE TurnsInv'
  BY <1>1 DEF Arrive
<1>2. ASSUME NEW m \in Messages, NEW k \in Messages, Cancel(m, k) PROVE TurnsInv'
  BY <1>2 DEF Cancel
<1>3. ASSUME NEW m \in Messages, Begin(m) PROVE TurnsInv'
  BY <1>3 DEF Begin
<1>4. ASSUME NEW m \in Messages, Skip(m) \/ End(m) PROVE TurnsInv'
  BY <1>4 DEF Skip, End
<1>5. CASE UNCHANGED turns
  BY <1>5 DEF turns
<1> QED BY <1>1, <1>2, <1>3, <1>4, <1>5 DEF TurnsNext, Coming

\* What a message does is a step of its own turn, or none.
LEMMA TurnOfNext ==
    ASSUME Next
    PROVE  Coming \/ UNCHANGED turns \/ \E m \in Messages : End(m)
<1> USE DEF Finish
<1>1. ASSUME NEW m \in Messages, Choose(m) PROVE UNCHANGED turns \/ End(m)
  BY <1>1 DEF Choose, Bypass, CallTool, Approve, Unapprove, RequestApproval, Answer, Pass
<1>2. ASSUME NEW m \in Messages, Proceed(m) PROVE UNCHANGED turns \/ End(m)
  BY <1>2 DEF Proceed, CheckAuto, Ask, Look, Peek, RejectOwn, Discard, Record, GrantToken,
              GrantTool, ClearRevoked
<1>3. ASSUME NEW m \in Messages, Policing(m) PROVE UNCHANGED turns \/ End(m)
  BY <1>3 DEF Policing
<1>4. ASSUME NEW m \in Messages, Reload(m) \/ GiveUp(m) \/ Drop(m) PROVE UNCHANGED turns \/ End(m)
  BY <1>4 DEF Reload, GiveUp, Drop
<1>5. ASSUME NEW id \in pending, Expire(id) PROVE UNCHANGED turns
  BY <1>5 DEF Expire
<1> QED BY <1>1, <1>2, <1>3, <1>4, <1>5 DEF Next

-----------------------------------------------------------------------------
(* The lists *)

\* ClearRevoked goes on with the update and leaves the lists alone.
GoOn(m) ==
    /\ update[m].at = "revoke"
    /\ Continue(m, "remove")
    /\ UNCHANGED <<policy, file, version, applied, revoked, collided>>

PolicyStep(m) ==
    \/ LoadPolicy(m)
    \/ \E t \in Tools : GrantAuto(m, t) \/ Revoke(m, t)
    \/ GoOn(m)
    \/ UpdateStep(m)

LEMMA PolicyOfNext ==
    ASSUME RequestsTypeOK, Next
    PROVE  UNCHANGED policyvars \/ \E m \in Messages : PolicyStep(m)
<1>1. ASSUME NEW m \in Messages, Choose(m) PROVE UNCHANGED policyvars \/ PolicyStep(m)
  BY <1>1 DEF Choose, Bypass, CallTool, Approve, Unapprove, RequestApproval, Answer, Pass, PolicyStep
<1>2. ASSUME NEW m \in Messages, GrantTool(m), work[m].tool \in Tools
      PROVE  UNCHANGED policyvars \/ PolicyStep(m)
  BY <1>2 DEF GrantTool, PolicyStep
<1>3. ASSUME NEW m \in Messages, Proceed(m), ~GrantTool(m)
      PROVE  UNCHANGED policyvars \/ PolicyStep(m)
  BY <1>3 DEF Proceed, CheckAuto, Ask, Look, Peek, RejectOwn, Discard, Record, GrantToken,
              ClearRevoked, PolicyStep, GoOn
<1>4. ASSUME NEW m \in Messages, Policing(m) \/ Reload(m) \/ GiveUp(m) \/ Drop(m)
      PROVE  UNCHANGED policyvars \/ PolicyStep(m)
  BY <1>4 DEF Policing, Reload, GiveUp, Drop, PolicyStep
<1>5. ASSUME NEW id \in pending, Expire(id) PROVE UNCHANGED policyvars
  BY <1>5 DEF Expire
<1>6. ASSUME NEW m \in Messages, GrantTool(m) PROVE work[m].tool \in Tools
  BY <1>6 DEF GrantTool, Doing, RequestsTypeOK, WorkFits, Fits
<1> QED BY <1>1, <1>2, <1>3, <1>4, <1>5, <1>6 DEF Next

LEMMA InitPolicyInv == PolicyInit => PolicyInv
<1> SUFFICES ASSUME PolicyInit PROVE PolicyInv
  OBVIOUS
<1>1. file \in Policy /\ policy = file
  BY PolicyAssumption DEF PolicyInit
<1>2. NoUpdate \in [at: UpdateStages, tool: Tools \cup {"none"}, copy: Policy, base: Nat]
  BY DEF NoUpdate, UpdateStages, Policy
<1>3. PolicyTypeOK
  BY <1>1, <1>2 DEF PolicyInit, PolicyTypeOK
<1>4. Updating = {}
  BY DEF PolicyInit, Updating, NoUpdate
<1>5. ToolInv
  BY DEF PolicyInit, ToolInv, NoUpdate
<1> QED BY <1>3, <1>4, <1>5 DEF PolicyInit, PolicyInv, RevocationsHold

Update == [at: UpdateStages, tool: Tools \cup {"none"}, copy: Policy, base: Nat]

LEMMA NextToolInv ==
    ASSUME PolicyInv, NEW m \in Messages, PolicyStep(m)
    PROVE  ToolInv'
<1>1. update \in [Messages -> Update] /\ ToolInv
  BY DEF PolicyInv, PolicyTypeOK, Update
<1>2. \A u \in Update : update' = [update EXCEPT ![m] = u]
          => \A k \in Messages : update'[k] = IF k = m THEN u ELSE update[k]
  BY <1>1
<1> USE DEF ToolInv, Continue, Over, BeginUpdate, NoUpdate, Update
<1>3. CASE LoadPolicy(m)
  BY <1>1, <1>3 DEF LoadPolicy
<1>4. ASSUME NEW t \in Tools, GrantAuto(m, t) \/ Revoke(m, t) PROVE ToolInv'
  <2>1. PICK u : u.tool = t /\ update' = [update EXCEPT ![m] = u]
    BY <1>4 DEF GrantAuto, Revoke
  <2>2. update'[m].tool = t /\ \A k \in Messages \ {m} : update'[k] = update[k]
    BY <1>1, <2>1
  <2> QED BY <1>1, <2>2
<1>5. CASE GoOn(m) \/ StoreStamp(m) \/ ReplaceAuto(m) \/ GrantAlways(m)
  BY <1>1, <1>5 DEF GoOn, StoreStamp, ReplaceAuto, GrantAlways
<1>6. CASE ReadFile(m)
  BY <1>1, <1>6 DEF ReadFile
<1>7. CASE ReplaceAlways(m) \/ SaveFile(m) \/ SaveFails(m)
  BY <1>1, <1>7 DEF ReplaceAlways, SaveFile, SaveFails
<1> QED BY <1>3, <1>4, <1>5, <1>6, <1>7 DEF PolicyStep, UpdateStep

\* The properties of one update, with the others told apart by their stage.
LEMMA NextPolicyInv ==
    ASSUME PolicyInv, NEW m \in Messages, PolicyStep(m)
    PROVE  PolicyInv'
<1> USE NextToolInv DEF PolicyInv, PolicyTypeOK, Policy, UpdateStages
<1>1. NoUpdate \in Update
  BY DEF NoUpdate, Update
<1>2. update \in [Messages -> Update]
  BY DEF Update
<1> USE DEF RevocationsHold, LoneUpdate, Updating, Continue, Over, BeginUpdate
<1>0. ASSUME NEW u \in Update, BeginUpdate(m, u), ~collided'
      PROVE  Updating' \subseteq {m} /\ update'[m] = u
  BY <1>0, <1>2
<1>3. CASE LoadPolicy(m)
  BY <1>2, <1>3 DEF LoadPolicy, Update
<1>4. ASSUME NEW t \in Tools, GrantAuto(m, t) PROVE PolicyInv'
  <2> DEFINE u == [NoUpdate EXCEPT !.at = "granted", !.tool = t]
  <2>1. u \in Update /\ u.at = "granted" /\ u.tool = t
    BY <1>1 DEF Update
  <2>2. PolicyTypeOK'
    BY <1>2, <1>4, <2>1 DEF GrantAuto, Update
  <2>3. RevocationsHold'
    BY <1>4 DEF GrantAuto
  <2>4. ASSUME ~collided', NEW k \in Updating' PROVE LoneUpdate(k)'
    <3>1. Updating' \subseteq {m} /\ update'[m] = u /\ t \notin revoked'
      BY <1>0, <1>4, <2>1, <2>4 DEF GrantAuto
    <3> HIDE DEF u, PolicyInv, PolicyTypeOK, Updating, BeginUpdate
    <3> QED BY <2>1, <2>4, <3>1
  <2> QED BY <1>4, <2>2, <2>3, <2>4
<1>5. ASSUME NEW t \in Tools, Revoke(m, t) PROVE PolicyInv'
  <2> DEFINE u == [NoUpdate EXCEPT !.at = "revoke", !.tool = t]
  <2>1. u \in Update /\ u.at = "revoke" /\ u.tool = t
    BY <1>1 DEF Update
  <2>2. PolicyTypeOK'
    BY <1>2, <1>5, <2>1 DEF Revoke, Update
  <2>3. RevocationsHold'
    BY <1>5 DEF Revoke
  <2>4. ASSUME ~collided', NEW k \in Updating' PROVE LoneUpdate(k)'
    <3>1. Updating' \subseteq {m} /\ update'[m] = u /\ t \notin policy'.auto
      BY <1>0, <1>5, <2>1, <2>4 DEF Revoke
    <3> HIDE DEF u, PolicyInv, PolicyTypeOK, Updating, BeginUpdate
    <3> QED BY <2>1, <2>4, <3>1
  <2> QED BY <1>5, <2>2, <2>3, <2>4
<1>6. CASE GoOn(m)
  BY <1>2, <1>6 DEF GoOn, Update
<1>7. CASE StoreStamp(m)
  <2>1. update' = [update EXCEPT ![m].at = "stamped"] /\ update[m] \in Update
    BY <1>2, <1>7 DEF StoreStamp
  <2>2. PolicyTypeOK'
    BY <1>2, <1>7, <2>1 DEF StoreStamp, Update
  <2> QED BY <1>2, <1>7, <2>1, <2>2 DEF StoreStamp, Update
<1>8. CASE ReplaceAuto(m)
  <2>1. update' = [update EXCEPT ![m].at = "replaced"] /\ update[m] \in Update
    BY <1>2, <1>8 DEF ReplaceAuto
  <2>2. policy' = [policy EXCEPT !.auto = update[m].copy.auto] /\ policy' \in Policy
    BY <1>8, <2>1 DEF ReplaceAuto, Update
  <2>3. PolicyTypeOK'
    BY <1>2, <1>8, <2>1, <2>2 DEF ReplaceAuto, Update
  <2>4. policy'.auto = update[m].copy.auto
    BY <2>2
  <2>5. RevocationsHold'
    <3>1. collided \/ update[m].copy = file
      BY <1>8, <1>2 DEF ReplaceAuto
    <3> QED BY <1>8, <2>4, <3>1 DEF ReplaceAuto
  <2>6. collided' \/ \A k \in Updating' : LoneUpdate(k)'
    <3> SUFFICES ASSUME ~collided PROVE \A k \in Updating' : LoneUpdate(k)'
      BY <1>8 DEF ReplaceAuto
    <3>1. /\ update'[m].at = "replaced" /\ update'[m].copy = update[m].copy
          /\ \A k \in Messages \ {m} : update'[k] = update[k]
      BY <1>2, <2>1 DEF Update
    <3>2. Updating = {m} /\ update[m].copy = file
      BY <1>8 DEF ReplaceAuto
    <3>3. Updating' = {m}
      BY <3>1, <3>2
    <3> QED BY <1>8, <3>1, <3>2, <3>3 DEF ReplaceAuto
  <2> QED BY <2>3, <2>5, <2>6
<1>9. ASSUME update[m] # NoUpdate, Over(m), UNCHANGED collided, update[m].at # "no"
      PROVE  /\ update' \in [Messages -> Update]
             /\ collided' \/ Updating' = {}
  BY <1>1, <1>2, <1>9 DEF NoUpdate
<1>10. CASE GrantAlways(m)
  BY <1>2, <1>10 DEF GrantAlways, Update
<1>11. CASE ReadFile(m)
  BY <1>2, <1>11 DEF ReadFile, Update
<1>12. CASE ReplaceAlways(m)
  <2>1. update' \in [Messages -> Update] /\ (collided' \/ Updating' = {})
    BY <1>9, <1>12 DEF ReplaceAlways, NoUpdate
  <2>2. policy' \in Policy
    BY <1>2, <1>12 DEF ReplaceAlways, Update
  <2> QED BY <1>12, <2>1, <2>2 DEF ReplaceAlways, Update
<1>13. CASE SaveFails(m)
  <2>1. update' \in [Messages -> Update] /\ (collided' \/ Updating' = {})
    BY <1>9, <1>13 DEF SaveFails, NoUpdate
  <2> QED BY <1>13, <2>1 DEF SaveFails, Update
<1>14. CASE SaveFile(m)
  <2> DEFINE u == update[m]
  <2>1. update' \in [Messages -> Update] /\ (collided' \/ Updating' = {})
    BY <1>9, <1>14 DEF SaveFile, NoUpdate
  <2>2. u \in Update /\ u.at \in {"persisting", "removing"}
    BY <1>2, <1>14 DEF SaveFile
  <2>3. file' = Edited(u) \/ (file' = file /\ Edited(u) = u.copy)
    BY <1>14 DEF SaveFile
  <2>4. PolicyTypeOK'
    <3>1. u.tool \in Tools
      BY <2>2 DEF ToolInv
    <3>2. revoked' = IF u.at = "removing" THEN revoked \cup {u.tool} ELSE revoked
      BY <1>14 DEF SaveFile
    <3>3. file' \in Policy
      <4>1. u.copy \in Policy
        BY <2>2 DEF Update
      <4>2. Edited(u) \in Policy
        BY <3>1, <4>1 DEF Edited
      <4> QED BY <2>3, <4>2
    <3>4. version' \in Nat
      BY <1>14 DEF SaveFile
    <3> QED BY <1>14, <2>1, <2>2, <2>3, <3>1, <3>2, <3>3, <3>4 DEF SaveFile, Update
  <2>5. RevocationsHold'
    <3>1. CASE collided
      BY <1>14, <3>1 DEF SaveFile
    <3>2. CASE ~collided
      <4>1. u.copy = file /\ (u.at = "persisting" => u.tool \notin revoked)
            /\ (u.at = "removing" => u.tool \notin policy.auto)
        BY <2>2, <3>2
      <4>2. file'.auto = IF u.at = "persisting" THEN file.auto \cup {u.tool}
                         ELSE file.auto \ {u.tool}
        <5>1. Edited(u).auto = IF u.at = "persisting" THEN u.copy.auto \cup {u.tool}
                               ELSE u.copy.auto \ {u.tool}
          BY <2>2 DEF Edited, Update
        <5>2. file'.auto = Edited(u).auto
          BY <2>3, <4>1
        <5> QED BY <4>1, <5>1, <5>2
      <4>3. policy' = policy /\ revoked' = IF u.at = "removing" THEN revoked \cup {u.tool} ELSE revoked
        BY <1>14 DEF SaveFile
      <4> QED BY <2>2, <3>2, <4>1, <4>2, <4>3
    <3> QED BY <3>1, <3>2
  <2> QED BY <2>1, <2>4, <2>5
<1> QED BY <1>3, <1>4, <1>5, <1>6, <1>7, <1>8, <1>10, <1>11, <1>12, <1>13, <1>14
        DEF PolicyStep, UpdateStep

-----------------------------------------------------------------------------
(* The requests *)

RequestRecord == [tool: Tools \cup {AllTools}, chat: Chats]

\* A request is appended to the others or is one of them.
LEMMA CreateFacts ==
    ASSUME RequestsTypeOK, TurnsInv, NEW m \in Messages, NEW t \in Tools \cup {AllTools},
           NEW id \in Ids, Create(m, t, id)
    PROVE  /\ asked' \in Seq(RequestRecord)
           /\ DOMAIN asked \subseteq DOMAIN asked' /\ DOMAIN asked' \subseteq Ids
           /\ id \in DOMAIN asked'
           /\ pending' = pending \cup {id}
           /\ \A k \in DOMAIN asked : asked'[k] = asked[k]
           /\ asked'[id] = [tool |-> t, chat |-> chat[m]]
           /\ id \in pending \/ id \notin DOMAIN asked
<1> DEFINE r == [tool |-> t, chat |-> chat[m]]
           same == {k \in pending : asked[k] = r}
<1>1. r \in RequestRecord /\ asked \in Seq(RequestRecord)
  BY DEF RequestRecord, RequestsTypeOK, TurnsInv
<1>2. /\ id \in IF same = {} THEN {Len(asked) + 1} ELSE same
      /\ asked' = IF same = {} THEN Append(asked, r) ELSE asked
      /\ pending' = pending \cup {id}
  BY DEF Create
<1>3. pending \subseteq DOMAIN asked /\ DOMAIN asked \subseteq Ids
  BY DEF RequestsTypeOK
<1> HIDE DEF r
<1>4. CASE same = {}
  <2>1. asked' = Append(asked, r) /\ id = Len(asked) + 1
    BY <1>2, <1>4
  <2> QED BY <1>1, <1>2, <1>3, <2>1 DEF r
<1>5. CASE same # {}
  <2>1. asked' = asked /\ id \in pending /\ asked[id] = r
    BY <1>2, <1>5
  <2> QED BY <1>1, <1>2, <1>3, <2>1 DEF r
<1> QED BY <1>4, <1>5

\* Whoever has come keeps its chat; it is processed until it ends.
LEMMA TurnFrame ==
    ASSUME TurnsInv, Next, NEW k \in Messages, state[k] # "away"
    PROVE  /\ chat'[k] = chat[k] /\ state'[k] # "away"
           /\ Coming /\ state[k] = "processing" => state'[k] = "processing"
           /\ \A m \in Messages \ {k} :
                  End(m) /\ state[k] = "processing" => state'[k] = "processing"
<1> USE DEF TurnsInv, Becomes
<1>1. Coming => /\ chat'[k] = chat[k] /\ state'[k] # "away"
                /\ state[k] = "processing" => state'[k] = "processing"
  BY DEF Coming, Arrive, Cancel, Begin, Skip
<1>2. ASSUME NEW m \in Messages, End(m)
      PROVE  /\ chat'[k] = chat[k] /\ state'[k] # "away"
             /\ m # k /\ state[k] = "processing" => state'[k] = "processing"
  BY <1>2 DEF End
<1> QED BY <1>1, <1>2, TurnOfNext DEF turns

LEMMA OneFits ==
    ASSUME WorkFits, NEW m \in Messages, NEW w, Fits(w), work' = [work EXCEPT ![m] = w]
    PROVE  WorkFits'
<1>1. work' \in [Messages -> Work]
  BY DEF WorkFits, Fits
<1>2. \A k \in Messages : Fits(work'[k])
  BY DEF WorkFits
<1> QED BY <1>1, <1>2 DEF WorkFits, Fits, Work

LEMMA FinishFits ==
    ASSUME WorkFits, NEW m \in Messages, NEW at \in Ends, Finish(m, at)
    PROVE  WorkFits'
<1>1. Fits(Ended(at))
  BY DEF Fits, Ended, NoWork, Work, Ends, Waits, Commands
<1> QED BY <1>1, OneFits DEF Finish

LEMMA GotoFits ==
    ASSUME WorkFits, NEW m \in Messages, NEW at \in Working, Goto(m, at),
           at \in {"checking", "asking"} \cup Waits => work[m].tool \in Tools,
           at \in Commands \cup {"granting"} => work[m].tool \in Tools \cup {AllTools}
    PROVE  WorkFits'
<1> DEFINE w == [work[m] EXCEPT !.at = at]
<1>1. work[m] \in Work /\ w.at = at /\ w.tool = work[m].tool /\ w \in Work
  BY DEF WorkFits, Work
<1>2. work' = [work EXCEPT ![m] = w]
  BY DEF Goto
<1>3. Fits(w)
  BY <1>1 DEF Fits
<1> HIDE DEF w
<1> QED BY <1>2, <1>3, OneFits

LEMMA RecordFits ==
    ASSUME WorkFits, NEW m \in Messages, NEW at \in Working, NEW t \in Tools \cup {AllTools},
           at \in {"checking", "asking"} \cup Waits => t \in Tools,
           NEW id \in Ids \cup {0},
           work' = [work EXCEPT ![m] = [at |-> at, tool |-> t, id |-> id]]
    PROVE  WorkFits'
<1>1. Fits([at |-> at, tool |-> t, id |-> id])
  BY DEF Fits, Work
<1> QED BY <1>1, OneFits

LEMMA NextRequestsTypeOK ==
    ASSUME RequestsTypeOK, WaitsInv, TurnsInv, Next
    PROVE  RequestsTypeOK'
<1>1. WorkFits /\ \A m \in Messages : Fits(work[m])
  BY DEF RequestsTypeOK, WorkFits
<1>2. ASSUME UNCHANGED requests, UNCHANGED <<decided, ran>>, WorkFits' PROVE RequestsTypeOK'
  BY <1>2 DEF RequestsTypeOK, requests
<1> USE DEF Working, Ends, Waits, Commands
<1>3. CASE UNCHANGED <<requests, work, decided, ran>>
  <2>1. WorkFits'
    BY <1>1, <1>3 DEF WorkFits, Fits, Work
  <2> QED BY <1>2, <1>3, <2>1
<1>4. ASSUME NEW m \in Messages, NEW t \in Tools \cup {AllTools}, RequestApproval(m, t)
      PROVE  RequestsTypeOK'
  <2>1. PICK id \in Ids : Create(m, t, id)
    BY <1>4 DEF RequestApproval
  <2>2. /\ asked' \in Seq(RequestRecord) /\ DOMAIN asked' \subseteq Ids
        /\ pending' \subseteq DOMAIN asked'
    BY <2>1, CreateFacts DEF RequestsTypeOK
  <2>3. WorkFits'
    BY <1>1, <1>4, FinishFits DEF RequestApproval
  <2> QED BY <1>4, <2>2, <2>3 DEF RequestApproval, RequestRecord, RequestsTypeOK
<1>5. ASSUME NEW m \in Messages, Ask(m) PROVE RequestsTypeOK'
  <2>1. PICK id \in Ids : /\ Create(m, work[m].tool, id)
                          /\ work' = [work EXCEPT ![m].at = "waiting", ![m].id = id]
    BY <1>5 DEF Ask
  <2>2. work[m].tool \in Tools /\ work[m] \in Work
    BY <1>1, <1>5 DEF Ask, Doing, Fits
  <2>3. /\ asked' \in Seq(RequestRecord) /\ DOMAIN asked' \subseteq Ids
        /\ pending' \subseteq DOMAIN asked'
    BY <2>1, <2>2, CreateFacts DEF RequestsTypeOK
  <2>4. WorkFits'
    <3> DEFINE w == [work[m] EXCEPT !.at = "waiting", !.id = id]
    <3>1. w \in Work /\ w.at = "waiting" /\ w.tool = work[m].tool
      BY <2>2 DEF Work
    <3>2. work' = [work EXCEPT ![m] = w]
      BY <2>1
    <3>3. Fits(w)
      BY <2>2, <3>1 DEF Fits
    <3> HIDE DEF w
    <3> QED BY <1>1, <3>2, <3>3, OneFits
  <2> QED BY <1>5, <2>3, <2>4 DEF Ask, RequestRecord, RequestsTypeOK
<1>6. ASSUME NEW m \in Messages, NEW id \in pending, NEW c \in Commands, Answer(m, id, c)
      PROVE  RequestsTypeOK'
  <2> DEFINE R == [tool: Tools \cup {AllTools}, chat: Chats]
  <2>0. id \in DOMAIN asked /\ asked \in Seq(R) /\ id \in Ids
    BY DEF RequestsTypeOK
  <2>1. id \in Ids /\ asked[id].tool \in Tools \cup {AllTools}
    <3>1. asked[id] \in R
      <4> HIDE DEF R
      <4> QED BY <2>0
    <3> QED BY <2>0, <3>1
  <2>2. WorkFits'
    BY <1>1, <1>6, <2>1, RecordFits DEF Answer
  <2> QED BY <1>6, <2>1, <2>2 DEF Answer, RequestsTypeOK
<1>7. ASSUME NEW m \in Messages, NEW t \in Tools, Approve(m, t) PROVE RequestsTypeOK'
  <2>1. WorkFits'
    BY <1>1, <1>7, RecordFits DEF Approve
  <2> QED BY <1>7, <2>1 DEF Approve, Clear, RequestsTypeOK
<1>8. ASSUME NEW m \in Messages, NEW t \in Tools, CallTool(m, t) \/ Unapprove(m, t)
      PROVE  RequestsTypeOK'
  <2>1. WorkFits'
    BY <1>1, <1>8, RecordFits DEF CallTool, Unapprove
  <2> QED BY <1>2, <1>8, <2>1 DEF CallTool, Unapprove
<1>9. ASSUME NEW m \in Messages, Bypass(m) \/ Pass(m) \/ Drop(m) PROVE RequestsTypeOK'
  <2>1. WorkFits'
    BY <1>1, <1>9, FinishFits DEF Bypass, Pass, Drop
  <2> QED BY <1>9, <2>1 DEF Bypass, Pass, Drop, requests, RequestsTypeOK
<1>10. ASSUME NEW m \in Messages, Reload(m) \/ GiveUp(m) PROVE RequestsTypeOK'
  <2>1. WorkFits'
    BY <1>1, <1>10, GotoFits DEF Reload, GiveUp, Doing, Fits
  <2> QED BY <1>2, <1>10, <2>1 DEF Reload, GiveUp
<1>11. ASSUME NEW m \in Messages, Policing(m) PROVE RequestsTypeOK'
  <2>1. CASE work' = work
    BY <1>3, <1>11, <2>1 DEF Policing
  <2>2. CASE work' # work
    <3>1. WorkFits'
      BY <1>1, <1>11, <2>2, FinishFits DEF Policing
    <3> QED BY <1>2, <1>11, <3>1 DEF Policing
  <2> QED BY <2>1, <2>2
<1>12. ASSUME NEW m \in Messages, CheckAuto(m) \/ Peek(m) PROVE RequestsTypeOK'
  <2>1. WorkFits'
    BY <1>1, <1>12, FinishFits, GotoFits DEF CheckAuto, Peek, Doing, Fits
  <2> QED BY <1>2, <1>12, <2>1 DEF CheckAuto, Peek
<1>13. ASSUME NEW m \in Messages, Look(m) PROVE RequestsTypeOK'
  <2>1. WorkFits'
    BY <1>1, <1>13, FinishFits, GotoFits DEF Look, Doing, Fits
  <2>2. work[m].tool \in Tools
    BY <1>1, <1>13 DEF Look, Doing, Fits
  <2>3. work[m].id \in Ids
    BY <1>13 DEF Look, Doing, WaitsInv, RequestsTypeOK
  <2> QED BY <1>13, <2>1, <2>2, <2>3 DEF Look, RequestsTypeOK
<1>14. ASSUME NEW m \in Messages, RejectOwn(m) \/ Discard(m) PROVE RequestsTypeOK'
  <2>1. WorkFits'
    BY <1>1, <1>14, FinishFits, GotoFits DEF RejectOwn, Discard, Doing, Fits
  <2> QED BY <1>14, <2>1 DEF RejectOwn, Discard, RequestsTypeOK
<1>15. ASSUME NEW m \in Messages, Record(m) PROVE RequestsTypeOK'
  <2>1. WorkFits'
    BY <1>1, <1>15, FinishFits, GotoFits DEF Record, Fits
  <2> QED BY <1>15, <2>1 DEF Record, RequestsTypeOK
<1>16. ASSUME NEW m \in Messages, GrantToken(m) \/ GrantTool(m) PROVE RequestsTypeOK'
  <2>1. WorkFits'
    BY <1>1, <1>16, FinishFits, GotoFits DEF GrantToken, GrantTool
  <2> QED BY <1>16, <2>1 DEF GrantToken, GrantTool, requests, RequestsTypeOK
<1>17. ASSUME NEW m \in Messages, ClearRevoked(m) PROVE RequestsTypeOK'
  <2>1. WorkFits'
    BY <1>1, <1>17 DEF ClearRevoked, WorkFits, Fits, Work
  <2> QED BY <1>17, <2>1 DEF ClearRevoked, Clear, RequestsTypeOK
<1>18. ASSUME NEW id \in pending, Expire(id) PROVE RequestsTypeOK'
  <2>1. WorkFits'
    BY <1>1, <1>18 DEF Expire, WorkFits, Fits, Work
  <2> QED BY <1>18, <2>1 DEF Expire, RequestsTypeOK
<1> QED
  BY <1>3, <1>4, <1>5, <1>6, <1>7, <1>8, <1>9, <1>10, <1>11, <1>12, <1>13, <1>14, <1>15,
     <1>16, <1>17, <1>18
  DEF Next, Choose, Proceed

-----------------------------------------------------------------------------
(* Most steps answer nothing: requests may go and resolutions may be taken,  *)
(* calls that wait go on waiting or stop.                                    *)

Quiet ==
    /\ asked' = asked /\ pending' \subseteq pending
    /\ \A id \in Ids : resolved'[id] \in {resolved[id], "none"}
    /\ decided' = decided /\ ran' = ran
    /\ \A k \in Messages :
           /\ work'[k].at # "new" => work[k].at # "new" \/ state[k] # "away"
           /\ work'[k].at \in Commands => work'[k] = work[k]
           /\ work'[k].at \in Waits =>
                  /\ work[k].at \in Waits
                  /\ work'[k].id = work[k].id /\ work'[k].tool = work[k].tool
                  /\ state'[k] = "processing"

LEMMA QuietKeeps ==
    ASSUME RequestInv, TurnsInv, Next, Quiet
    PROVE  ArrivedInv' /\ AnswerInv' /\ WaitsInv'
<1> USE DEF RequestInv
<1>1. \A k \in Messages : state[k] # "away" => chat'[k] = chat[k] /\ state'[k] # "away"
  BY TurnFrame
<1>2. /\ \A d \in decided : d[1] \in Messages /\ chat'[d[1]] = chat[d[1]] /\ state'[d[1]] # "away"
      /\ \A r \in ran : r[1] \in Messages /\ chat'[r[1]] = chat[r[1]] /\ state'[r[1]] # "away"
  BY <1>1 DEF ArrivedInv, RequestsTypeOK
<1>3. ArrivedInv'
  BY <1>1, <1>2 DEF ArrivedInv, Quiet
<1>4. \A id \in Ids : Decided(id)' <=> Decided(id)
  BY DEF Quiet, Decided
<1>5. \A id : Allowed(id)' <=> Allowed(id)
  BY <1>2 DEF Quiet, Allowed
<1>6. \A m \in Messages, id \in Ids : Answering(m, id)' => Answering(m, id)
  BY DEF Quiet, Answering
<1>7. AnswerInv'
  <2>1. \A m \in Messages : work'[m].at \in Commands =>
            /\ work'[m] = work[m] /\ work[m].at \in Commands /\ chat'[m] = chat[m]
    BY <1>1 DEF Quiet, ArrivedInv, Commands
  <2>2. \A m \in Messages : work'[m].at \in Commands =>
           \E d \in decided' : /\ d[1] = m /\ d[2] = work'[m].id
                               /\ d[3] = IF work'[m].at = "deny" THEN "no" ELSE "yes"
                               /\ chat'[m] = asked'[work'[m].id].chat
    BY <2>1 DEF AnswerInv, Quiet
  <2>3. \A id \in Ids : resolved'[id] # "none" =>
           /\ Decided(id)'
           /\ \A m \in Messages : ~Answering(m, id)'
           /\ resolved'[id] = "yes" => Allowed(id)'
    BY <1>4, <1>5, <1>6 DEF AnswerInv, Quiet
  <2>4. \A r \in ran' :
           /\ Allowed(r[2])' /\ resolved'[r[2]] = "none"
           /\ \A m \in Messages : ~Answering(m, r[2])'
    BY <1>5, <1>6 DEF AnswerInv, Quiet, RequestsTypeOK
  <2>5. \A id \in pending' : ~Decided(id)'
    BY <1>4 DEF AnswerInv, Quiet, RequestsTypeOK
  <2> QED BY <2>2, <2>3, <2>4, <2>5 DEF AnswerInv, Quiet
<1>8. WaitsInv'
  <2>1. ASSUME NEW m \in Messages, work'[m].at \in Waits
        PROVE  /\ state'[m] = "processing"
               /\ work'[m].id \in DOMAIN asked'
               /\ asked'[work'[m].id] = [tool |-> work'[m].tool, chat |-> chat'[m]]
               /\ chat'[m] \in Interrupting => ~Decided(work[m].id)'
    <3>1. /\ work[m].at \in Waits /\ state'[m] = "processing"
          /\ work'[m].id = work[m].id /\ work'[m].tool = work[m].tool
      BY <2>1 DEF Quiet
    <3>2. state[m] = "processing" /\ chat'[m] = chat[m] /\ work[m].id \in Ids
      BY <1>1, <3>1 DEF WaitsInv, RequestsTypeOK
    <3> QED BY <1>4, <3>1, <3>2 DEF WaitsInv, Quiet
  <2>2. \A r \in ran' :
           /\ r[2] \in DOMAIN asked'
           /\ asked'[r[2]] = [tool |-> r[3], chat |-> chat'[r[1]]]
           /\ chat'[r[1]] \notin Interrupting
    BY <1>2 DEF WaitsInv, Quiet
  <2> QED BY <2>1, <2>2 DEF WaitsInv
<1> QED BY <1>3, <1>7, <1>8

\* A call of Look that does not run.
Denied(m) == Look(m) /\ resolved[work[m].id] # "yes"

QuietStep ==
    \/ Coming /\ UNCHANGED <<requests, work, decided, ran>>
    \/ \E m \in Messages :
           \/ Reload(m) \/ Bypass(m) \/ Pass(m)
           \/ \E t \in Tools : CallTool(m, t) \/ Approve(m, t) \/ Unapprove(m, t)
           \/ CheckAuto(m) \/ Denied(m) \/ Peek(m) \/ RejectOwn(m) \/ Discard(m)
           \/ GrantToken(m) \/ GrantTool(m) \/ ClearRevoked(m)
           \/ Policing(m) \/ GiveUp(m) \/ Drop(m)
    \/ \E id \in pending : Expire(id)

\* A quiet step in which m does something else than before, and one in which
\* its call goes on waiting.
LEMMA QuietChange ==
    ASSUME RequestInv, TurnsInv, Next, NEW m \in Messages, NEW w,
           work' = [work EXCEPT ![m] = w], w.at \notin Commands \cup Waits,
           state[m] = "processing", UNCHANGED turns \/ End(m),
           asked' = asked, pending' \subseteq pending, decided' = decided, ran' = ran,
           \A id \in Ids : resolved'[id] \in {resolved[id], "none"}
    PROVE  Quiet
<1>1. work \in [Messages -> Work]
  BY DEF RequestInv, RequestsTypeOK, WorkFits
<1>2. work'[m] = w /\ \A k \in Messages \ {m} : work'[k] = work[k]
  BY <1>1
<1>3. \A k \in Messages \ {m} : work[k].at \in Waits => state'[k] = "processing"
  BY TurnFrame DEF RequestInv, WaitsInv, turns
<1> QED BY <1>2, <1>3 DEF Quiet

LEMMA QuietWait ==
    ASSUME RequestInv, TurnsInv, Next, NEW m \in Messages, NEW at \in Waits, Goto(m, at),
           work[m].at \in Waits, UNCHANGED turns,
           asked' = asked, pending' \subseteq pending, decided' = decided, ran' = ran,
           \A id \in Ids : resolved'[id] \in {resolved[id], "none"}
    PROVE  Quiet
<1>1. work \in [Messages -> Work]
  BY DEF RequestInv, RequestsTypeOK, WorkFits
<1>2. /\ \A k \in Messages \ {m} : work'[k] = work[k]
      /\ work'[m].at = at /\ work'[m].id = work[m].id /\ work'[m].tool = work[m].tool
  BY <1>1 DEF Goto, Work
<1>3. \A k \in Messages : work[k].at \in Waits => state'[k] = "processing"
  BY DEF RequestInv, WaitsInv, turns
<1>4. work[m].at # "new" /\ at \notin Commands
  BY DEF Waits, Commands
<1> QED BY <1>2, <1>3, <1>4 DEF Quiet

LEMMA QuietSame ==
    ASSUME RequestInv, TurnsInv, Next, work' = work, UNCHANGED turns \/ Coming,
           asked' = asked, pending' \subseteq pending, decided' = decided, ran' = ran,
           \A id \in Ids : resolved'[id] \in {resolved[id], "none"}
    PROVE  Quiet
<1>1. \A k \in Messages : work[k].at \in Waits => state'[k] = "processing"
  BY TurnFrame DEF RequestInv, WaitsInv, turns
<1> QED BY <1>1 DEF Quiet

LEMMA QuietOfStep ==
    ASSUME RequestInv, TurnsInv, Next, QuietStep
    PROVE  Quiet
<1>1. /\ work \in [Messages -> Work] /\ resolved \in [Ids -> {"none", "yes", "no"}]
      /\ \A m \in Messages : work[m].at \in Waits => work[m].id \in Ids
  BY DEF RequestInv, RequestsTypeOK, WorkFits, WaitsInv
<1>2. \A m \in Messages, at \in Ends : Ended(at).at \notin Commands \cup Waits
  BY DEF Ended, NoWork, Ends, Commands, Waits
<1>3. ASSUME NEW m \in Messages, NEW at \in Ends, Finish(m, at),
             asked' = asked, pending' \subseteq pending, decided' = decided, ran' = ran,
             \A id \in Ids : resolved'[id] \in {resolved[id], "none"}
      PROVE  Quiet
  BY <1>2, <1>3, QuietChange DEF Finish, End
<1>4. ASSUME NEW m \in Messages, NEW at \in Working \ (Commands \cup Waits), Goto(m, at),
             state[m] = "processing", UNCHANGED <<turns, requests, decided, ran>>
      PROVE  Quiet
  <2> DEFINE w == [work[m] EXCEPT !.at = at]
  <2>1. w.at \notin Commands \cup Waits
    BY <1>1 DEF Work
  <2>2. work' = [work EXCEPT ![m] = w]
    BY <1>4 DEF Goto
  <2> HIDE DEF w
  <2> QED BY <1>4, <2>1, <2>2, QuietChange DEF requests
<1> USE DEF Ends, Working, Commands, Waits, requests, Doing, Ready
<1>5. CASE Coming /\ UNCHANGED <<requests, work, decided, ran>>
  BY <1>5, QuietSame
<1>6. ASSUME NEW m \in Messages, Bypass(m) \/ Pass(m) \/ GrantToken(m) \/ Drop(m)
      PROVE  Quiet
  BY <1>3, <1>6 DEF Bypass, Pass, GrantToken, Drop
<1>7. ASSUME NEW m \in Messages, Reload(m) \/ GrantTool(m) PROVE Quiet
  BY <1>4, <1>7 DEF Reload, GrantTool
<1>8. ASSUME NEW m \in Messages, NEW t \in Tools, CallTool(m, t) \/ Unapprove(m, t)
      PROVE  Quiet
  <2> DEFINE C(at) == [at |-> at, tool |-> t, id |-> 0]
  <2>1. PICK at \in {"asking", "checking", "updating"} : work' = [work EXCEPT ![m] = C(at)]
    <3>1. CASE CallTool(m, t)
      <4>1. work' = [work EXCEPT ![m] = C(IF t \in policy.always THEN "asking" ELSE "checking")]
        BY <3>1 DEF CallTool
      <4> QED BY <4>1
    <3>2. CASE Unapprove(m, t)
      BY <3>2 DEF Unapprove
    <3> QED BY <1>8, <3>1, <3>2
  <2>2. PICK w : w.at \notin Commands \cup Waits /\ work' = [work EXCEPT ![m] = w]
    BY <2>1
  <2> QED BY <1>8, <2>2, QuietChange DEF CallTool, Unapprove
<1>9. ASSUME NEW m \in Messages, NEW t \in Tools, Approve(m, t) PROVE Quiet
  <2>1. PICK w : w.at = "granting" /\ work' = [work EXCEPT ![m] = w]
    BY <1>9 DEF Approve
  <2> QED BY <1>1, <1>9, <2>1, QuietChange DEF Approve, Clear
<1>10. ASSUME NEW m \in Messages, CheckAuto(m) PROVE Quiet
  BY <1>3, <1>4, <1>10 DEF CheckAuto
<1>11. ASSUME NEW m \in Messages, Denied(m) PROVE Quiet
  <2>1. asked' = asked /\ pending' = pending /\ decided' = decided /\ ran' = ran
        /\ \A id \in Ids : resolved'[id] \in {resolved[id], "none"}
    BY <1>1, <1>11 DEF Denied, Look
  <2>2. Finish(m, "done") \/ (Goto(m, "peeking") /\ UNCHANGED turns /\ work[m].at = "waiting")
    BY <1>11 DEF Denied, Look
  <2> QED BY <1>3, <2>1, <2>2, QuietWait
<1>12. ASSUME NEW m \in Messages, Peek(m) PROVE Quiet
  <2>1. \/ Finish(m, "unanswered") \/ Finish(m, "done")
        \/ Goto(m, "waiting") /\ UNCHANGED turns /\ work[m].at = "peeking"
    BY <1>12 DEF Peek
  <2> QED BY <1>3, <1>12, <2>1, QuietWait DEF Peek
<1>13. ASSUME NEW m \in Messages, RejectOwn(m) \/ GiveUp(m) PROVE Quiet
  BY <1>13, QuietWait DEF RejectOwn, GiveUp
<1>14. ASSUME NEW m \in Messages, Discard(m) PROVE Quiet
  BY <1>1, <1>3, <1>14 DEF Discard
<1>15. ASSUME NEW m \in Messages, ClearRevoked(m) PROVE Quiet
  BY <1>1, <1>15, QuietSame DEF ClearRevoked, Clear
<1>16. ASSUME NEW m \in Messages, Policing(m) PROVE Quiet
  BY <1>3, <1>16, QuietSame DEF Policing
<1>17. ASSUME NEW id \in pending, Expire(id) PROVE Quiet
  BY <1>17, QuietSame DEF Expire
<1> QED
  BY <1>5, <1>6, <1>7, <1>8, <1>9, <1>10, <1>11, <1>12, <1>13, <1>14, <1>15, <1>16, <1>17
  DEF QuietStep

-----------------------------------------------------------------------------
(* The steps that ask, answer and run *)

LEMMA NewRequestKeeps ==
    ASSUME RequestInv, TurnsInv, Next, NEW m \in Messages, NEW t \in Tools \cup {AllTools},
           NEW id \in Ids, Create(m, t, id), state[m] = "processing",
           UNCHANGED turns \/ End(m), UNCHANGED <<resolved, decided, ran>>,
           \A k \in Messages \ {m} : work'[k] = work[k],
           work'[m].at \notin Commands,
           work'[m].at \in Waits =>
               work'[m].id = id /\ work'[m].tool = t /\ UNCHANGED turns
    PROVE  ArrivedInv' /\ AnswerInv' /\ WaitsInv'
<1> USE DEF RequestInv
<1>1. /\ \A k \in DOMAIN asked : k \in DOMAIN asked' /\ asked'[k] = asked[k]
      /\ id \in DOMAIN asked' /\ asked'[id] = [tool |-> t, chat |-> chat[m]]
      /\ pending' = pending \cup {id}
      /\ ~Decided(id)
  BY CreateFacts DEF AnswerInv, Decided
<1>2. \A k \in Messages : state[k] # "away" => chat'[k] = chat[k] /\ state'[k] # "away"
  BY TurnFrame
<1>3. /\ \A d \in decided : /\ d[1] \in Messages /\ chat'[d[1]] = chat[d[1]]
                            /\ state'[d[1]] # "away" /\ d[2] \in DOMAIN asked
      /\ \A r \in ran : r[1] \in Messages /\ chat'[r[1]] = chat[r[1]] /\ state'[r[1]] # "away"
  BY <1>2 DEF ArrivedInv, AnswerInv, RequestsTypeOK
<1>4. ArrivedInv'
  BY <1>2, <1>3 DEF ArrivedInv
<1>5. \A k : Decided(k)' <=> Decided(k)
  BY DEF Decided
<1>6. \A k : Allowed(k) => Allowed(k)'
  BY <1>1, <1>3 DEF Allowed
<1>7. \A k \in Messages : \A i : Answering(k, i)' => Answering(k, i)
  BY DEF Answering
<1>8. AnswerInv'
  <2>1. \A k \in Messages : work'[k].at \in Commands =>
           \E d \in decided' : /\ d[1] = k /\ d[2] = work'[k].id
                               /\ d[3] = IF work'[k].at = "deny" THEN "no" ELSE "yes"
                               /\ chat'[k] = asked'[work'[k].id].chat
    <3> SUFFICES ASSUME NEW k \in Messages, work'[k].at \in Commands
                 PROVE  \E d \in decided : /\ d[1] = k /\ d[2] = work[k].id
                                           /\ d[3] = IF work[k].at = "deny" THEN "no" ELSE "yes"
                                           /\ chat'[k] = asked'[work[k].id].chat
      OBVIOUS
    <3>1. PICK d \in decided : /\ d[1] = k /\ d[2] = work[k].id
                               /\ d[3] = IF work[k].at = "deny" THEN "no" ELSE "yes"
                               /\ chat[k] = asked[work[k].id].chat
      BY DEF AnswerInv
    <3> QED BY <1>1, <1>3, <3>1
  <2>2. \A i \in pending' : ~Decided(i)'
    BY <1>1, <1>5 DEF AnswerInv
  <2>3. \A i \in Ids : resolved'[i] # "none" =>
           /\ Decided(i)'
           /\ \A k \in Messages : ~Answering(k, i)'
           /\ resolved'[i] = "yes" => Allowed(i)'
    BY <1>5, <1>6, <1>7 DEF AnswerInv
  <2>4. \A r \in ran' :
           /\ Allowed(r[2])' /\ resolved'[r[2]] = "none"
           /\ \A k \in Messages : ~Answering(k, r[2])'
    BY <1>6, <1>7 DEF AnswerInv
  <2>5. \A d \in decided' : d[2] \in DOMAIN asked'
    BY <1>1, <1>3
  <2> QED BY <2>1, <2>2, <2>3, <2>4, <2>5 DEF AnswerInv
<1>9. WaitsInv'
  <2>1. ASSUME NEW k \in Messages, work'[k].at \in Waits
        PROVE  /\ state'[k] = "processing"
               /\ work'[k].id \in DOMAIN asked'
               /\ asked'[work'[k].id] = [tool |-> work'[k].tool, chat |-> chat'[k]]
               /\ chat'[k] \in Interrupting => ~Decided(work'[k].id)
    <3>1. CASE k = m
      BY <1>1, <2>1, <3>1 DEF turns
    <3>2. CASE k # m
      <4>1. work'[k] = work[k] /\ state[k] = "processing"
        BY <2>1, <3>2 DEF WaitsInv
      <4>2. chat'[k] = chat[k] /\ state'[k] = "processing"
        BY <3>2, <4>1, TurnFrame DEF turns
      <4> QED BY <1>1, <2>1, <4>1, <4>2 DEF WaitsInv
    <3> QED BY <3>1, <3>2
  <2>2. \A r \in ran' :
           /\ r[2] \in DOMAIN asked'
           /\ asked'[r[2]] = [tool |-> r[3], chat |-> chat'[r[1]]]
           /\ chat'[r[1]] \notin Interrupting
    BY <1>1, <1>3 DEF WaitsInv
  <2>3. \A k \in Messages : work'[k].at \in Waits /\ chat'[k] \in Interrupting =>
            ~ \E d \in decided' : d[2] = work'[k].id
    BY <2>1 DEF Decided
  <2> QED BY <2>1, <2>2, <2>3 DEF WaitsInv, Decided
<1> QED BY <1>4, <1>8, <1>9

LEMMA AnswerKeeps ==
    ASSUME RequestInv, TurnsInv, Next, NEW m \in Messages, NEW id \in pending,
           NEW c \in Commands, Answer(m, id, c)
    PROVE  ArrivedInv' /\ AnswerInv' /\ WaitsInv'
<1> USE DEF RequestInv
<1> DEFINE new == <<m, id, IF c = "deny" THEN "no" ELSE "yes">>
<1>1. /\ state[m] = "processing" /\ work[m].at \in {"new", "reloading"}
      /\ id \in DOMAIN asked /\ id \in Ids /\ asked[id].chat = chat[m]
      /\ UNCHANGED <<turns, asked, resolved, ran>> /\ pending' = pending \ {id}
      /\ decided' = decided \cup {new}
  BY DEF Answer, Ready, Doing, Mine, RequestsTypeOK
<1>2. /\ \A k \in Messages \ {m} : work'[k] = work[k]
      /\ work'[m].at = c /\ work'[m].id = id
  BY DEF Answer, RequestsTypeOK, WorkFits
<1>3. ~Decided(id)
  BY DEF AnswerInv
<1> HIDE DEF new
<1>4. new[1] = m /\ new[2] = id /\ new[3] = IF c = "deny" THEN "no" ELSE "yes"
  BY DEF new
<1>5. ArrivedInv'
  BY <1>1, <1>2, <1>4 DEF ArrivedInv, turns
<1>6. /\ \A k : Decided(k)' <=> Decided(k) \/ k = id
      /\ \A k : Allowed(k) => Allowed(k)'
  BY <1>1, <1>4 DEF Decided, Allowed, turns
<1>7. AnswerInv'
  <2>1. \A d \in decided' : d[2] \in DOMAIN asked'
    BY <1>1, <1>4 DEF AnswerInv
  <2>2. \A d, e \in decided' : d[2] = e[2] => d = e
    BY <1>1, <1>3, <1>4 DEF AnswerInv, Decided
  <2>3. \A k \in pending' : ~Decided(k)'
    BY <1>1, <1>6 DEF AnswerInv
  <2>4. \A k \in Messages : work'[k].at \in Commands =>
           \E d \in decided' : /\ d[1] = k /\ d[2] = work'[k].id
                               /\ d[3] = IF work'[k].at = "deny" THEN "no" ELSE "yes"
                               /\ chat'[k] = asked'[work'[k].id].chat
    <3> SUFFICES ASSUME NEW k \in Messages, work'[k].at \in Commands
                 PROVE  \E d \in decided' : /\ d[1] = k /\ d[2] = work'[k].id
                                            /\ d[3] = IF work'[k].at = "deny" THEN "no" ELSE "yes"
                                            /\ chat'[k] = asked'[work'[k].id].chat
      OBVIOUS
    <3>1. CASE k = m
      <4>1. new \in decided' /\ chat'[k] = asked'[id].chat
        BY <1>1, <3>1 DEF turns
      <4> QED BY <1>2, <1>4, <3>1, <4>1
    <3>2. CASE k # m
      <4>1. work'[k] = work[k] /\ work[k].at \in Commands
        BY <1>2, <3>2
      <4>2. PICK d \in decided : /\ d[1] = k /\ d[2] = work[k].id
                                 /\ d[3] = IF work[k].at = "deny" THEN "no" ELSE "yes"
                                 /\ chat[k] = asked[work[k].id].chat
        BY <4>1 DEF AnswerInv
      <4> QED BY <1>1, <4>1, <4>2 DEF turns
    <3> QED BY <3>1, <3>2
  <2>5. \A i \in Ids : resolved[i] # "none" =>
           i # id /\ Decided(i) /\ \A k \in Messages : ~Answering(k, i)
    BY <1>3 DEF AnswerInv
  <2>6. \A i \in Ids : resolved'[i] # "none" =>
           /\ Decided(i)'
           /\ \A k \in Messages : ~Answering(k, i)'
           /\ resolved'[i] = "yes" => Allowed(i)'
    BY <1>1, <1>2, <1>6, <2>5 DEF AnswerInv, Answering
  <2>7. \A r \in ran : r[2] # id
    BY <1>3 DEF AnswerInv, Allowed, Decided
  <2>8. \A r \in ran' :
           /\ Allowed(r[2])' /\ resolved'[r[2]] = "none"
           /\ \A k \in Messages : ~Answering(k, r[2])'
    BY <1>1, <1>2, <1>6, <2>7 DEF AnswerInv, Answering
  <2>9. \A r, s \in ran' : r[2] = s[2] => r = s
    BY <1>1 DEF AnswerInv
  <2> QED BY <2>1, <2>2, <2>3, <2>4, <2>6, <2>8, <2>9 DEF AnswerInv
<1>8. WaitsInv'
  <2>1. ASSUME NEW k \in Messages, work'[k].at \in Waits
        PROVE  /\ state'[k] = "processing"
               /\ work'[k].id \in DOMAIN asked'
               /\ asked'[work'[k].id] = [tool |-> work'[k].tool, chat |-> chat'[k]]
               /\ chat'[k] \in Interrupting => ~Decided(work[k].id) /\ work[k].id # id
    <3>1. k # m
      BY <1>2, <2>1 DEF Commands, Waits
    <3>2. work'[k] = work[k] /\ work[k].at \in Waits
      BY <1>2, <2>1, <3>1
    <3>3. /\ state[k] = "processing" /\ work[k].id \in DOMAIN asked
          /\ asked[work[k].id] = [tool |-> work[k].tool, chat |-> chat[k]]
          /\ chat[k] \in Interrupting => ~Decided(work[k].id)
      BY <3>2 DEF WaitsInv
    <3>4. chat[k] \in Interrupting => chat[k] # chat[m]
      BY <1>1, <3>1, <3>3 DEF TurnsInv
    <3>5. chat[k] \in Interrupting => work[k].id # id
      BY <1>1, <3>3, <3>4
    <3> QED BY <1>1, <3>2, <3>3, <3>5 DEF turns
  <2>2. \A k \in Messages : work'[k].at \in Waits => work'[k] = work[k]
    BY <1>2 DEF Commands, Waits
  <2>3. \A k \in Messages : work'[k].at \in Waits /\ chat'[k] \in Interrupting =>
            ~ \E d \in decided' : d[2] = work'[k].id
    <3> SUFFICES ASSUME NEW k \in Messages, work'[k].at \in Waits, chat'[k] \in Interrupting,
                        NEW d \in decided', d[2] = work'[k].id
                 PROVE  FALSE
      OBVIOUS
    <3>1. work'[k] = work[k] /\ ~Decided(work[k].id) /\ work[k].id # id
      BY <2>1, <2>2
    <3> QED BY <1>1, <1>4, <3>1 DEF Decided
  <2> QED BY <1>1, <2>1, <2>3 DEF WaitsInv, Decided, turns
<1> QED BY <1>5, <1>7, <1>8

LEMMA RecordKeeps ==
    ASSUME RequestInv, TurnsInv, Next, NEW m \in Messages, Record(m)
    PROVE  ArrivedInv' /\ AnswerInv' /\ WaitsInv'
<1> USE DEF RequestInv
<1> DEFINE id == work[m].id
<1>1. /\ work[m].at \in Commands /\ state[m] = "processing"
      /\ UNCHANGED <<asked, pending, decided, ran>>
      /\ UNCHANGED turns \/ End(m)
      /\ resolved' = [resolved EXCEPT ![id] = IF work[m].at = "deny" THEN "no" ELSE "yes"]
  BY DEF Record, Commands, Finish
<1>2. /\ \A k \in Messages \ {m} : work'[k] = work[k]
      /\ work'[m].at \notin Commands \cup Waits
  BY DEF Record, Finish, Goto, Ended, NoWork, RequestsTypeOK, WorkFits, Work, Commands, Waits
<1>3. PICK d \in decided : /\ d[1] = m /\ d[2] = id
                           /\ d[3] = IF work[m].at = "deny" THEN "no" ELSE "yes"
                           /\ chat[m] = asked[id].chat
  BY <1>1 DEF AnswerInv
<1>4. id \in Ids /\ Answering(m, id)
  BY <1>1, <1>3 DEF Answering, RequestsTypeOK
<1>5. \A k \in Messages : Answering(k, id) => k = m
  BY <1>3 DEF AnswerInv, Answering
<1>6. /\ resolved'[id] = IF work[m].at = "deny" THEN "no" ELSE "yes"
      /\ \A k \in Ids \ {id} : resolved'[k] = resolved[k]
  BY <1>1, <1>4 DEF RequestsTypeOK
<1> HIDE DEF id
<1>7. \A k \in Messages : state[k] # "away" => chat'[k] = chat[k] /\ state'[k] # "away"
  BY TurnFrame
<1>8. /\ \A e \in decided : e[1] \in Messages /\ chat'[e[1]] = chat[e[1]] /\ state'[e[1]] # "away"
      /\ \A r \in ran : /\ r[1] \in Messages /\ chat'[r[1]] = chat[r[1]]
                        /\ state'[r[1]] # "away" /\ r[2] \in Ids
  BY <1>7 DEF ArrivedInv, RequestsTypeOK
<1>9. ArrivedInv'
  BY <1>1, <1>2, <1>7, <1>8 DEF ArrivedInv
<1>10. \A k : Allowed(k)' <=> Allowed(k)
  BY <1>1, <1>8 DEF Allowed
<1>11. \A k : Decided(k)' <=> Decided(k)
  BY <1>1 DEF Decided
<1>12. \A k \in Messages : \A i : Answering(k, i)' <=> k # m /\ Answering(k, i)
  BY <1>2 DEF Answering
<1>13. AnswerInv'
  <2>1. \A k \in Messages : work'[k].at \in Commands =>
           \E e \in decided' : /\ e[1] = k /\ e[2] = work'[k].id
                               /\ e[3] = IF work'[k].at = "deny" THEN "no" ELSE "yes"
                               /\ chat'[k] = asked'[work'[k].id].chat
    <3> SUFFICES ASSUME NEW k \in Messages, work'[k].at \in Commands
                 PROVE  \E e \in decided : /\ e[1] = k /\ e[2] = work[k].id
                                           /\ e[3] = IF work[k].at = "deny" THEN "no" ELSE "yes"
                                           /\ chat'[k] = asked[work[k].id].chat
      BY <1>1, <1>2
    <3>1. work[k].at \in Commands
      BY <1>2
    <3> QED BY <1>8, <3>1 DEF AnswerInv
  <2>2. \A i \in Ids : resolved'[i] # "none" =>
           /\ Decided(i)'
           /\ \A k \in Messages : ~Answering(k, i)'
           /\ resolved'[i] = "yes" => Allowed(i)'
    <3>1. Decided(id) /\ (resolved'[id] = "yes" => Allowed(id))
      BY <1>3, <1>6 DEF Decided, Allowed
    <3> QED BY <1>5, <1>6, <1>10, <1>11, <1>12, <3>1 DEF AnswerInv
  <2>3. \A r \in ran' :
           /\ Allowed(r[2])' /\ resolved'[r[2]] = "none"
           /\ \A k \in Messages : ~Answering(k, r[2])'
    <3>1. \A r \in ran : r[2] # id
      BY <1>4 DEF AnswerInv
    <3> QED BY <1>1, <1>6, <1>8, <1>10, <1>12, <3>1 DEF AnswerInv
  <2>4. \A i \in pending' : ~Decided(i)'
    BY <1>1, <1>11 DEF AnswerInv
  <2> QED BY <1>1, <2>1, <2>2, <2>3, <2>4 DEF AnswerInv
<1>14. WaitsInv'
  <2>1. ASSUME NEW k \in Messages, work'[k].at \in Waits
        PROVE  /\ work'[k] = work[k] /\ work[k].at \in Waits
               /\ state'[k] = "processing" /\ chat'[k] = chat[k]
    <3>1. k # m /\ work'[k] = work[k] /\ state[k] = "processing"
      BY <1>2, <2>1 DEF WaitsInv
    <3> QED BY <1>1, <1>7, <2>1, <3>1, TurnFrame DEF turns
  <2> QED BY <1>1, <1>8, <1>11, <2>1 DEF WaitsInv, Decided
<1> QED BY <1>9, <1>13, <1>14

LEMMA RunKeeps ==
    ASSUME RequestInv, TurnsInv, Next, NEW m \in Messages, Look(m),
           resolved[work[m].id] = "yes"
    PROVE  ArrivedInv' /\ AnswerInv' /\ WaitsInv'
<1> USE DEF RequestInv
<1> DEFINE id == work[m].id
           new == <<m, id, work[m].tool>>
<1>1. /\ work[m].at \in Waits /\ state[m] = "processing"
      /\ UNCHANGED <<asked, pending, decided>>
      /\ resolved' = [resolved EXCEPT ![id] = "none"]
      /\ Finish(m, "allowed") /\ ran' = ran \cup {new}
  BY DEF Look, Doing, Waits
<1>2. /\ \A k \in Messages \ {m} : work'[k] = work[k]
      /\ work'[m].at \notin Commands \cup Waits
  BY <1>1 DEF Finish, Ended, NoWork, RequestsTypeOK, WorkFits, Commands, Waits
<1>3. /\ id \in DOMAIN asked /\ id \in Ids
      /\ asked[id] = [tool |-> work[m].tool, chat |-> chat[m]]
      /\ chat[m] \in Interrupting => ~Decided(id)
  BY <1>1 DEF WaitsInv, RequestsTypeOK
<1>4. Decided(id) /\ Allowed(id) /\ \A k \in Messages : ~Answering(k, id)
  BY <1>3 DEF AnswerInv
<1>5. resolved'[id] = "none" /\ \A k \in Ids \ {id} : resolved'[k] = resolved[k]
  BY <1>1, <1>3 DEF RequestsTypeOK
<1>6. new[1] = m /\ new[2] = id /\ new[3] = work[m].tool
  OBVIOUS
<1> HIDE DEF id, new
<1>7. \A k \in Messages : state[k] # "away" => chat'[k] = chat[k] /\ state'[k] # "away"
  BY TurnFrame
<1>8. /\ \A e \in decided : e[1] \in Messages /\ chat'[e[1]] = chat[e[1]] /\ state'[e[1]] # "away"
      /\ \A r \in ran : /\ r[1] \in Messages /\ chat'[r[1]] = chat[r[1]]
                        /\ state'[r[1]] # "away" /\ r[2] \in Ids
      /\ chat'[m] = chat[m] /\ state'[m] # "away"
  BY <1>1, <1>7 DEF ArrivedInv, RequestsTypeOK
<1>9. ArrivedInv'
  BY <1>1, <1>2, <1>6, <1>7, <1>8 DEF ArrivedInv
<1>10. /\ \A k : Allowed(k)' <=> Allowed(k)
       /\ \A k : Decided(k)' <=> Decided(k)
       /\ \A k \in Messages : \A i : Answering(k, i)' => Answering(k, i)
  BY <1>1, <1>2, <1>8 DEF Allowed, Decided, Answering
<1>11. AnswerInv'
  <2>1. \A k \in Messages : work'[k].at \in Commands =>
           \E e \in decided' : /\ e[1] = k /\ e[2] = work'[k].id
                               /\ e[3] = IF work'[k].at = "deny" THEN "no" ELSE "yes"
                               /\ chat'[k] = asked'[work'[k].id].chat
    <3> SUFFICES ASSUME NEW k \in Messages, work'[k].at \in Commands
                 PROVE  \E e \in decided : /\ e[1] = k /\ e[2] = work[k].id
                                           /\ e[3] = IF work[k].at = "deny" THEN "no" ELSE "yes"
                                           /\ chat'[k] = asked[work[k].id].chat
      BY <1>1, <1>2
    <3>1. work[k].at \in Commands
      BY <1>2
    <3> QED BY <1>8, <3>1 DEF AnswerInv
  <2>2. \A i \in Ids : resolved'[i] # "none" =>
           /\ Decided(i)'
           /\ \A k \in Messages : ~Answering(k, i)'
           /\ resolved'[i] = "yes" => Allowed(i)'
    BY <1>5, <1>10 DEF AnswerInv
  <2>3. \A r \in ran' :
           /\ Allowed(r[2])' /\ resolved'[r[2]] = "none"
           /\ \A k \in Messages : ~Answering(k, r[2])'
    BY <1>1, <1>4, <1>5, <1>6, <1>8, <1>10 DEF AnswerInv
  <2>4. \A r \in ran : r[2] # id
    BY DEF AnswerInv, id
  <2>5. \A r, s \in ran' : r[2] = s[2] => r = s
    BY <1>1, <1>6, <2>4 DEF AnswerInv
  <2>6. \A i \in pending' : ~Decided(i)'
    BY <1>1, <1>10 DEF AnswerInv
  <2> QED BY <1>1, <2>1, <2>2, <2>3, <2>5, <2>6 DEF AnswerInv
<1>12. WaitsInv'
  <2>1. ASSUME NEW k \in Messages, work'[k].at \in Waits
        PROVE  /\ work'[k] = work[k] /\ work[k].at \in Waits
               /\ state'[k] = "processing" /\ chat'[k] = chat[k]
    <3>1. k # m /\ work'[k] = work[k] /\ state[k] = "processing"
      BY <1>2, <2>1 DEF WaitsInv
    <3> QED BY <1>1, <1>7, <2>1, <3>1, TurnFrame DEF Finish
  <2>2. \A r \in ran' :
           /\ r[2] \in DOMAIN asked'
           /\ asked'[r[2]] = [tool |-> r[3], chat |-> chat'[r[1]]]
           /\ chat'[r[1]] \notin Interrupting
    BY <1>1, <1>3, <1>4, <1>6, <1>8 DEF WaitsInv
  <2> QED BY <1>1, <1>10, <2>1, <2>2 DEF WaitsInv, Decided
<1> QED BY <1>9, <1>11, <1>12

-----------------------------------------------------------------------------
LEMMA NextRequestInv ==
    ASSUME RequestInv, TurnsInv, Next
    PROVE  RequestInv'
<1>1. RequestsTypeOK'
  BY NextRequestsTypeOK DEF RequestInv
<1>2. ArrivedInv' /\ AnswerInv' /\ WaitsInv'
  <2>1. CASE QuietStep
    BY <2>1, QuietOfStep, QuietKeeps
  <2>2. ASSUME NEW m \in Messages, Ask(m)
        PROVE  ArrivedInv' /\ AnswerInv' /\ WaitsInv'
    <3>1. PICK id \in Ids : /\ Create(m, work[m].tool, id)
                            /\ work' = [work EXCEPT ![m].at = "waiting", ![m].id = id]
      BY <2>2 DEF Ask
    <3>2. work[m].tool \in Tools /\ work \in [Messages -> Work]
      BY <2>2 DEF Ask, Doing, RequestInv, RequestsTypeOK, WorkFits, Fits
    <3>3. /\ \A k \in Messages \ {m} : work'[k] = work[k]
          /\ work'[m].at = "waiting" /\ work'[m].id = id /\ work'[m].tool = work[m].tool
      BY <3>1, <3>2 DEF Work
    <3>4. state[m] = "processing" /\ UNCHANGED <<turns, resolved, decided, ran>>
      BY <2>2 DEF Ask, Doing
    <3>5. "waiting" \notin Commands
      BY DEF Commands
    <3> QED BY <3>1, <3>2, <3>3, <3>4, <3>5, NewRequestKeeps
  <2>3. ASSUME NEW m \in Messages, NEW t \in Tools \cup {AllTools}, RequestApproval(m, t)
        PROVE  ArrivedInv' /\ AnswerInv' /\ WaitsInv'
    <3>1. PICK id \in Ids : Create(m, t, id)
      BY <2>3 DEF RequestApproval
    <3>2. /\ \A k \in Messages \ {m} : work'[k] = work[k]
          /\ work'[m].at \notin Commands \cup Waits
      BY <2>3 DEF RequestApproval, Finish, Ended, NoWork, RequestInv, RequestsTypeOK, WorkFits,
                  Commands, Waits
    <3>3. state[m] = "processing" /\ End(m) /\ UNCHANGED <<resolved, decided, ran>>
      BY <2>3 DEF RequestApproval, Ready, Doing, Finish
    <3> QED BY <3>1, <3>2, <3>3, NewRequestKeeps
  <2>4. ASSUME NEW m \in Messages, Look(m)
        PROVE  ArrivedInv' /\ AnswerInv' /\ WaitsInv'
    BY <2>1, <2>4, RunKeeps DEF QuietStep, Denied
  <2> QED BY <2>1, <2>2, <2>3, <2>4, AnswerKeeps, RecordKeeps
          DEF Next, Choose, Proceed, QuietStep
<1> QED BY <1>1, <1>2 DEF RequestInv

LEMMA InitIInv == Init => IInv
<1> SUFFICES ASSUME Init PROVE IInv
  OBVIOUS
<1>1. TurnsInv /\ PolicyInv
  BY InitTurnsInv, InitPolicyInv, ChatAssumption DEF Init
<1>2. WorkFits
  BY DEF Init, WorkFits, Fits, Work, NoWork, Working, Waits, Commands
<1>3. RequestsTypeOK
  BY <1>2 DEF Init, RequestsTypeOK
<1>4. ArrivedInv /\ AnswerInv /\ WaitsInv
  BY DEF Init, NoWork, ArrivedInv, AnswerInv, WaitsInv, Commands, Waits
<1> QED BY <1>1, <1>3, <1>4 DEF IInv, RequestInv

LEMMA NextIInv == IInv /\ [Next]_vars => IInv'
<1> SUFFICES ASSUME IInv, [Next]_vars PROVE IInv'
  OBVIOUS
<1>1. CASE Next
  <2>1. TurnsInv'
    BY <1>1, NextTurnsInv, TurnOfNext DEF IInv, TurnsNext
  <2>2. PolicyInv'
    <3>1. CASE UNCHANGED policyvars
      BY <3>1 DEF IInv, PolicyInv, PolicyTypeOK, ToolInv, LoneUpdate, Updating, RevocationsHold,
                  policyvars
    <3>2. CASE \E m \in Messages : PolicyStep(m)
      BY <3>2, NextPolicyInv DEF IInv
    <3> QED BY <1>1, <3>1, <3>2, PolicyOfNext DEF IInv, RequestInv
  <2>3. RequestInv'
    BY <1>1, NextRequestInv DEF IInv
  <2> QED BY <2>1, <2>2, <2>3 DEF IInv
<1>2. CASE UNCHANGED vars
  <2>1. TurnsInv' /\ PolicyInv'
    <3>1. TurnsInv'
      BY <1>2 DEF vars, turns, IInv, TurnsInv
    <3>2. PolicyTypeOK' /\ ToolInv' /\ RevocationsHold'
      BY <1>2 DEF vars, policyvars, IInv, PolicyInv, PolicyTypeOK, ToolInv, RevocationsHold
    <3>3. collided' \/ \A m \in Updating' : LoneUpdate(m)'
      BY <1>2 DEF vars, policyvars, IInv, PolicyInv, LoneUpdate, Updating
    <3> QED BY <3>1, <3>2, <3>3 DEF PolicyInv
  <2>2. RequestInv'
    BY <1>2 DEF vars, turns, requests, IInv, RequestInv, RequestsTypeOK, WorkFits, Fits, Work,
                ArrivedInv, AnswerInv, WaitsInv, Decided, Allowed, Answering
  <2> QED BY <2>1, <2>2 DEF IInv
<1> QED BY <1>1, <1>2

LEMMA Invariance == Spec => []IInv
BY InitIInv, NextIInv, PTL DEF Spec

\* Every variable keeps its type (Approvals, ApprovalPolicy).
THEOREM TypeCorrect == Spec => []TypeOK
<1>1. IInv => TypeOK
  BY DEF IInv, PolicyInv, RequestInv, RequestsTypeOK, WorkFits, Work, TypeOK
<1> QED BY <1>1, Invariance, PTL

\* Once a revocation is over its tool runs unasked again only after a grant,
\* unless two updates of the lists overlapped (apply_persistent_runtime_revoke,
\* remove_non_cli_approval_from_config, maybe_apply_runtime_config_update).
THEOREM RevocationsAreKept == Spec => []RevocationsHold
<1>1. IInv => RevocationsHold
  BY DEF IInv, PolicyInv
<1> QED BY <1>1, Invariance, PTL

\* A call that had to ask runs on one yes of its own chat to the request for its
\* tool, and no answer serves two calls (await_non_cli_approval_decision,
\* confirm_non_cli_pending_request, take_non_cli_pending_resolution).
THEOREM AnswersServeOneCall == Spec => []OneCallPerAnswer
<1>1. IInv => OneCallPerAnswer
  <2> SUFFICES ASSUME IInv PROVE OneCallPerAnswer
    OBVIOUS
  <2> USE DEF IInv, RequestInv
  <2>1. \A r \in ran : \E d \in decided :
           d[2] = r[2] /\ d[3] = "yes" /\ chat[d[1]] = chat[r[1]]
    <3>1. ASSUME NEW r \in ran PROVE asked[r[2]].chat = chat[r[1]]
      <4>1. asked[r[2]] = [tool |-> r[3], chat |-> chat[r[1]]]
        BY DEF WaitsInv
      <4> QED BY <4>1
    <3>2. \A r \in ran : Allowed(r[2])
      BY DEF AnswerInv
    <3> QED BY <3>1, <3>2 DEF Allowed
  <2>2. \A id \in Ids : resolved[id] # "none" => id \notin pending
    BY DEF AnswerInv
  <2> QED BY <2>1, <2>2 DEF OneCallPerAnswer, AnswerInv, WaitsInv
<1> QED BY <1>1, Invariance, PTL

\* In a chat whose messages interrupt each other no call runs on an answer: who
\* answers has cancelled who waits (InFlightSenderTaskState,
\* await_non_cli_approval_decision).
THEOREM InterruptingNeverAllows == Spec => []InterruptingChatsNeverAllow
<1>1. IInv => InterruptingChatsNeverAllow
  BY DEF IInv, RequestInv, WaitsInv, InterruptingChatsNeverAllow
<1> QED BY <1>1, Invariance, PTL
=============================================================================
