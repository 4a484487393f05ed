----------------------------- MODULE MCWorkflow -----------------------------
(* Workflow for TLC: the definitions that are tried.                       *)
EXTENDS Workflow

Always(policy) == [s \in Steps |-> policy]

Tried(deps, policy, conditional, timeout, inputs) ==
    [dependsOn |-> deps, onFailure |-> policy, conditional |-> conditional,
     timeout |-> timeout, inputs |-> inputs]

\* Every graph of three steps, with no policy of interest; one with a dependency
\* that is unknown, and inputs that are invalid.
Graphs ==
    {Tried(deps, Always("continue"), {}, FALSE, TRUE) : deps \in [1 .. 3 -> SUBSET (1 .. 3)]}
    \cup {Tried(<<{}, {Missing}, {1}>>, Always("continue"), {}, FALSE, TRUE),
          Tried(<<{}, {}, {}>>, Always("continue"), {}, FALSE, FALSE)}

\* Two steps side by side and one that waits for both; a chain; with pauses,
\* aborts, a condition and a deadline.
Policies ==
    {Tried(<<{}, {}, {1, 2}>>, policy, {}, FALSE, TRUE) :
        policy \in [1 .. 3 -> {"pause", "abort"}]}
    \cup {Tried(<<{}, {1}, {1, 2}>>, <<"pause", "pause", "abort">>, {2}, TRUE, TRUE),
          Tried(<<{}, {}, {2}>>, <<"pause", "continue", "abort">>, {1, 3}, TRUE, TRUE)}

MCDefinitions == Graphs \cup Policies
=============================================================================
