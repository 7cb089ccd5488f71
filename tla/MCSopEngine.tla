---------------------------- MODULE MCSopEngine ----------------------------
(* Small instances of SopEngine for TLC. *)
EXTENDS SopEngine, TLC

CONSTANTS deploy, notify

\* Two steps, the second confirmed, of high priority.
Deploy ==
    [confirm |-> <<FALSE, TRUE>>, mode |-> "PriorityBased", high |-> TRUE,
     cooldown |-> FALSE, max_concurrent |-> 2]

\* One supervised step.
Notify ==
    [confirm |-> <<FALSE>>, mode |-> "Supervised", high |-> FALSE,
     cooldown |-> FALSE, max_concurrent |-> 1]

FixedCatalog == {deploy :> Deploy @@ notify :> Notify}

\* Later versions: step 2 of deploy is gone, and deploy is gone.
ChangingCatalogs ==
    FixedCatalog \cup
    {deploy :> [Deploy EXCEPT !.confirm = <<TRUE>>, !.mode = "StepByStep"]
         @@ notify :> Notify,
     notify :> Notify}

\* One automatic step each, and a cooldown; a later version allows deploy one run
\* at a time and notify as many as there is room for, without a cooldown.
Brief(cooldown, max_concurrent) ==
    [confirm |-> <<FALSE>>, mode |-> "Auto", high |-> FALSE,
     cooldown |-> cooldown, max_concurrent |-> max_concurrent]

CoolingCatalogs ==
    {deploy :> Brief(TRUE, 2) @@ notify :> Brief(TRUE, 1),
     deploy :> Brief(TRUE, 1) @@ notify :> Brief(FALSE, 2)}

MCTriggered == {<<deploy>>, <<notify>>, <<deploy, notify>>}
=============================================================================
