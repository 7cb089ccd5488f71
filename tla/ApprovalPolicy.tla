---------------------------- MODULE ApprovalPolicy ----------------------------
(***************************************************************************)
(* Which tools of a channel turn run unasked: the runtime lists of         *)
(* ApprovalManager (src/src/approval/mod.rs), the lists in the             *)
(* configuration file, the commands that change both and the reload every  *)
(* message does first if the file is not the one last applied              *)
(* (src/src/channels/mod.rs).                                              *)
(*                                                                         *)
(* Each list has a lock of its own, and the file is read and written with  *)
(* awaits in between: all these are steps that workers interleave.         *)
(***************************************************************************)
EXTENDS ChatTurns

CONSTANTS
    Tools,
    Policies   \* what the configuration file may say at the start

Policy == [auto: SUBSET Tools, always: SUBSET Tools]

ASSUME PolicyAssumption == Policies \subseteq Policy

VARIABLES
    policy,    \* auto_approve and always_ask of the manager
    file,      \* the same lists in the configuration file
    version,   \* what the file's stamp stands for
    applied,   \* last_applied_stamp
    update,    \* message -> the policy update its worker is in the middle of
    \* History, read by properties only:
    revoked,   \* tools whose /unapprove is over, with no grant since
    collided   \* two updates overlapped: a read was used after the other wrote

policyvars == <<policy, file, version, applied, update, revoked, collided>>

NoUpdate == [at |-> "no", tool |-> "none", copy |-> [auto |-> {}, always |-> {}], base |-> 0]
Updating == {m \in Messages : update[m].at # "no"}

BeginUpdate(m, u) ==
    /\ update' = [update EXCEPT ![m] = u]
    /\ collided' = (collided \/ Updating # {})
Continue(m, stage) == update' = [update EXCEPT ![m].at = stage]
Over(m) == update' = [update EXCEPT ![m] = NoUpdate]

-----------------------------------------------------------------------------
(* maybe_apply_runtime_config_update *)

ReloadDue == version # applied

\* The stamp is taken and the file is read; warming up the provider may take
\* long.
LoadPolicy(m) ==
    /\ BeginUpdate(m, [at |-> "loaded", tool |-> "none", copy |-> file, base |-> version])
    /\ UNCHANGED <<policy, file, version, applied, revoked>>

StoreStamp(m) ==
    /\ update[m].at = "loaded"
    /\ applied' = update[m].base
    /\ Continue(m, "stamped")
    /\ UNCHANGED <<policy, file, version, revoked, collided>>

\* replace_runtime_non_cli_policy
ReplaceAuto(m) ==
    /\ update[m].at = "stamped"
    /\ policy' = [policy EXCEPT !.auto = update[m].copy.auto]
    /\ Continue(m, "replaced")
    /\ UNCHANGED <<file, version, applied, revoked, collided>>
ReplaceAlways(m) ==
    /\ update[m].at = "replaced"
    /\ policy' = [policy EXCEPT !.always = update[m].copy.always]
    /\ Over(m)
    /\ UNCHANGED <<file, version, applied, revoked, collided>>

-----------------------------------------------------------------------------
(* Grants and revocations *)

\* apply_persistent_runtime_grant inserts into one list ...
GrantAuto(m, t) ==
    /\ BeginUpdate(m, [NoUpdate EXCEPT !.at = "granted", !.tool = t])
    /\ policy' = [policy EXCEPT !.auto = @ \cup {t}]
    /\ revoked' = revoked \ {t}
    /\ UNCHANGED <<file, version, applied>>

\* ... and removes from the other.
GrantAlways(m) ==
    /\ update[m].at = "granted"
    /\ policy' = [policy EXCEPT !.always = @ \ {update[m].tool}]
    /\ Continue(m, "persist")
    /\ UNCHANGED <<file, version, applied, revoked, collided>>

\* apply_persistent_runtime_revoke
Revoke(m, t) ==
    /\ BeginUpdate(m, [NoUpdate EXCEPT !.at = "revoke", !.tool = t])
    /\ policy' = [policy EXCEPT !.auto = @ \ {t}]
    /\ UNCHANGED <<file, version, applied, revoked>>

\* persist_non_cli_approval_to_config and remove_non_cli_approval_from_config
\* read the file, change a copy of it and, if that changed anything, save it.
ReadFile(m) ==
    /\ update[m].at \in {"persist", "remove"}
    /\ update' = [update EXCEPT ![m].copy = file, ![m].base = version,
                      ![m].at = IF @ = "persist" THEN "persisting" ELSE "removing"]
    /\ UNCHANGED <<policy, file, version, applied, revoked, collided>>

Edited(u) ==
    IF u.at = "persisting"
    THEN [auto |-> u.copy.auto \cup {u.tool}, always |-> u.copy.always \ {u.tool}]
    ELSE [u.copy EXCEPT !.auto = @ \ {u.tool}]

\* A bug: only a grant is written.
SaveFileGrants(m) ==
    LET u == update[m]
    IN /\ u.at \in {"persisting", "removing"}
       /\ IF Edited(u) = u.copy \/ u.at = "removing"
          THEN UNCHANGED <<file, version>>
          ELSE file' = Edited(u) /\ version' = version + 1
       /\ Over(m)
       /\ revoked' = IF u.at = "removing" THEN revoked \cup {u.tool} ELSE revoked
       /\ UNCHANGED <<policy, applied, collided>>

SaveFile(m) ==
    LET u == update[m]
    IN /\ u.at \in {"persisting", "removing"}
       /\ IF Edited(u) = u.copy
          THEN UNCHANGED <<file, version>>
          ELSE file' = Edited(u) /\ version' = version + 1
       /\ Over(m)
       /\ revoked' = IF u.at = "removing" THEN revoked \cup {u.tool} ELSE revoked
       /\ UNCHANGED <<policy, applied, collided>>

\* Reading or saving may fail: the change stays in the runtime lists only.
SaveFails(m) ==
    /\ update[m].at \in {"persisting", "removing"}
    /\ Over(m)
    /\ UNCHANGED <<policy, file, version, applied, revoked, collided>>

-----------------------------------------------------------------------------
PolicyInit ==
    /\ file \in Policies
    /\ policy = file
    /\ version = 0
    /\ applied = 0
    /\ update = [m \in Messages |-> NoUpdate]
    /\ revoked = {}
    /\ collided = FALSE

\* The steps of an update once it began, whoever began it.
UpdateStep(m) ==
    \/ StoreStamp(m)
    \/ ReplaceAuto(m)
    \/ ReplaceAlways(m)
    \/ GrantAlways(m)
    \/ ReadFile(m)
    \/ SaveFile(m)
    \/ SaveFails(m)

UpdateStages == {"no", "loaded", "stamped", "replaced", "granted", "persist",
                 "persisting", "revoke", "remove", "removing"}

PolicyTypeOK ==
    /\ policy \in Policy
    /\ file \in Policy
    /\ version \in Nat
    /\ applied \in Nat
    /\ update \in [Messages -> [at: UpdateStages, tool: Tools \cup {"none"},
                                copy: Policy, base: Nat]]
    /\ revoked \subseteq Tools
    /\ collided \in BOOLEAN

\* Once /unapprove is over the tool runs unasked again only after a grant, a
\* reload before the next message included: unless two updates overlapped, when
\* a list that was read before the revocation is written or applied after it
\* (the file and the runtime lists are updated without a common lock).
RevocationsHold ==
    \A t \in revoked : collided \/ (t \notin policy.auto /\ t \notin file.auto)
=============================================================================
