---------------------------- MODULE MCOrchestrator ----------------------------
(***************************************************************************)
(* A run of several steps, of any mode, and a short one share the broker.   *)
(***************************************************************************)
EXTENDS Orchestrator

CONSTANTS long, short

MCRuns == {long, short}

Flow(m, n) == [mode |-> m, size |-> n]

MCWorkflows ==
    [r \in MCRuns |->
        IF r = long THEN {Flow("review", 2), Flow("parallel", 3)}
        ELSE {Flow("ordered", 1)}]
=============================================================================
