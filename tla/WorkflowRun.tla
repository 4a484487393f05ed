----------------------------- MODULE WorkflowRun -----------------------------
(***************************************************************************)
(* What a run of a workflow promises, whatever the engine does about       *)
(* levels, tasks, channels and events: a step begins once, after all the   *)
(* steps it depends on are over, nothing begins or is recorded while the   *)
(* run waits for a decision or after its end, and no step is at work then. *)
(***************************************************************************)
CONSTANT Steps  \* the steps of the definition

VARIABLES
    dependsOn,  \* per step: the steps it waits for
    status,     \* "running", "paused" or "ended"
    step        \* per step: "waiting", "working", a result, or "lost"

vars == <<dependsOn, status, step>>

Results == {"success", "failed", "skipped"}

Over(s) == step[s] \in Results \cup {"lost"}

Init ==
    /\ dependsOn \in [Steps -> SUBSET Steps]
    /\ status = "running"
    /\ step = [s \in Steps |-> "waiting"]

\* A step is ready when what it depends on is over, failed or not (condition.rs:13).
Ready(s) == step[s] = "waiting" /\ \A d \in dependsOn[s] : Over(d)

\* Some of the steps that are ready begin; a condition may skip one.
Begin ==
    /\ status = "running"
    /\ \E ready \in SUBSET {s \in Steps : Ready(s)} :
          /\ ready # {}
          /\ \E first \in [ready -> {"working", "skipped"}] :
                step' = [s \in Steps |-> IF s \in ready THEN first[s] ELSE step[s]]
    /\ UNCHANGED status

\* The result of a step is recorded, or the step is given up without one.
Settle(s) ==
    /\ status = "running" /\ step[s] = "working"
    /\ \E result \in {"success", "failed", "lost"} : step' = [step EXCEPT ![s] = result]
    /\ UNCHANGED status

Pause == status = "running" /\ status' = "paused" /\ UNCHANGED step

\* The run goes on; the step it waited for keeps its failure.
Resume ==
    /\ status = "paused" /\ status' = "running"
    /\ \E s \in Steps : step[s] = "working" /\ step' = [step EXCEPT ![s] = "failed"]

\* Whatever is at work is given up.
End ==
    /\ status # "ended" /\ status' = "ended"
    /\ step' = [s \in Steps |-> IF step[s] = "working" THEN "lost" ELSE step[s]]

Next ==
    /\ Begin \/ (\E s \in Steps : Settle(s)) \/ Pause \/ Resume \/ End
    /\ UNCHANGED dependsOn

Spec == Init /\ [][Next]_vars
=============================================================================
