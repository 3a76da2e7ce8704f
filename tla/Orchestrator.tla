----------------------------- MODULE Orchestrator -----------------------------
(***************************************************************************)
(* Runs of workflows and the events they publish.  A run goes through its  *)
(* steps in the order of its mode, every event of it is handed to the      *)
(* broker before the run goes on, and the run ends in success or failure,  *)
(* unless the turn that asked for it is cancelled, which drops its future. *)
(***************************************************************************)
EXTENDS EventBroker

CONSTANTS
    Chunk,      \* steps a parallel run has under way at a time, at most 4
    MaxRounds,  \* termination.max_rounds
    Workflows   \* the modes and numbers of steps a run may have

\* "ordered" stands for sequential, graph, manager_worker and selector_group.
AllModes == {"ordered", "review", "parallel"}

ASSUME SomeSteps ==
    /\ Chunk \in Nat \ {0} /\ MaxRounds \in Nat \ {0}
    /\ Workflows \in [Runs -> SUBSET [mode : AllModes, size : Nat \ {0}]]

VARIABLES
    at,         \* where a run is
    mode,       \* its mode
    size,       \* how many steps it has, numbered in the order of ready_step_order
    reviewer,   \* the step of the reviewer in a review loop
    step,       \* the step it is at
    round,      \* the round of its review loop
    result,     \* what came of each step, the latest time it was done
    outcome,    \* the status it is about to report
    emitted     \* how many events it has published

runVars == <<at, mode, size, reviewer, step, round, result, outcome, emitted>>
vars == <<brokerVars, runVars>>

Steps(r) == 1 .. size[r]

Blank(n) == [i \in 1 .. n |-> "none"]

Places == {"new", "begin", "work", "report", "finish", "done", "failed", "dropped"}

\* What a step can bring back; a keyword of termination counts in a review only.
Outputs == {"plain", "approved", "rejected", "error"}

Init ==
    /\ BrokerInit
    /\ at = [r \in Runs |-> "new"]
    /\ mode = [r \in Runs |-> "ordered"]
    /\ size = [r \in Runs |-> 0]
    /\ reviewer = [r \in Runs |-> 0]
    /\ step = [r \in Runs |-> 1]
    /\ round = [r \in Runs |-> 1]
    /\ result = [r \in Runs |-> Blank(0)]
    /\ outcome = [r \in Runs |-> "none"]
    /\ emitted = [r \in Runs |-> 0]

-----------------------------------------------------------------------------

Emit(r, kind) ==
    /\ emitted' = [emitted EXCEPT ![r] = @ + 1]
    /\ Publish([run |-> r, kind |-> kind, n |-> emitted[r] + 1])

GoTo(r, place) == at' = [at EXCEPT ![r] = place]

Quiet == UNCHANGED <<brokerVars, emitted>>

\* A specification that validation or the order of its steps refuses publishes
\* nothing and is not a run here.
Start(r, w, v) ==
    /\ at[r] = "new"
    /\ v \in IF w.mode = "review" THEN 1 .. w.size ELSE {0}
    /\ mode' = [mode EXCEPT ![r] = w.mode]
    /\ size' = [size EXCEPT ![r] = w.size]
    /\ reviewer' = [reviewer EXCEPT ![r] = v]
    /\ result' = [result EXCEPT ![r] = Blank(w.size)]
    /\ GoTo(r, "begin")
    /\ Emit(r, "start")
    /\ UNCHANGED <<step, round, outcome>>

\* A review loop whose reviewer has no step, or whose steps wait for one
\* another: its start is published, the error is returned, no end follows.
StartInVain(r, w) ==
    /\ at[r] = "new" /\ w.mode = "review"
    /\ GoTo(r, "failed")
    /\ Emit(r, "start")
    /\ UNCHANGED <<mode, size, reviewer, step, round, result, outcome>>

-----------------------------------------------------------------------------
(* One step after the other: run_step, and the review loop around it.      *)

BeginStep(r) ==
    /\ at[r] = "begin" /\ mode[r] # "parallel"
    /\ GoTo(r, "work")
    /\ Emit(r, "step")
    /\ UNCHANGED <<mode, size, reviewer, step, round, result, outcome>>

NextRound(r) ==
    /\ step' = [step EXCEPT ![r] = 1]
    /\ round' = [round EXCEPT ![r] = @ + 1]
    /\ GoTo(r, "begin")
    /\ UNCHANGED outcome

NextStep(r) ==
    /\ step' = [step EXCEPT ![r] = @ + 1]
    /\ GoTo(r, "begin")
    /\ UNCHANGED <<round, outcome>>

End(r, status) ==
    /\ outcome' = [outcome EXCEPT ![r] = status]
    /\ GoTo(r, "finish")
    /\ UNCHANGED <<step, round>>

Proceed(r) == IF step[r] < size[r] THEN NextStep(r) ELSE End(r, "success")

\* Mutant: a review that neither approves nor rejects lets the run go on.
GoOnUnlessRejected(r, output) ==
    \/ output = "error" /\ End(r, "failed")
    \/ output # "error" /\ step[r] # reviewer[r] /\ Proceed(r)
    \/ output = "rejected" /\ step[r] = reviewer[r] /\ End(r, "failed")
    \/ output \in {"approved", "plain"} /\ step[r] = reviewer[r] /\ Proceed(r)

\* Where the output of a step leads: an error ends the run, the reviewer's
\* output decides on the round, any other leads to the next step.
GoOn(r, output) ==
    \/ output = "error" /\ End(r, "failed")
    \/ output # "error" /\ step[r] # reviewer[r] /\ Proceed(r)
    \/ output = "rejected" /\ step[r] = reviewer[r] /\ End(r, "failed")
    \/ output = "approved" /\ step[r] = reviewer[r] /\ Proceed(r)
    \/ output = "plain" /\ step[r] = reviewer[r]
       /\ IF round[r] < MaxRounds THEN NextRound(r) ELSE End(r, "failed")

EndStep(r, output) ==
    /\ at[r] = "work" /\ mode[r] # "parallel"
    /\ output \in {"plain", "error"} \/ step[r] = reviewer[r]
    /\ result' = [result EXCEPT ![r] = [@ EXCEPT ![step[r]] = output]]
    /\ GoOn(r, output)
    /\ Emit(r, "step")
    /\ UNCHANGED <<mode, size, reviewer>>

-----------------------------------------------------------------------------
(* Parallel runs: chunk after chunk, whatever came of the chunk before,    *)
(* and the ends of all steps in their order when all are done.             *)

LastOfChunk(r, i) == i % Chunk = 0 \/ i = size[r]

Launch(r) ==
    /\ at[r] = "begin" /\ mode[r] = "parallel"
    /\ IF LastOfChunk(r, step[r])
       THEN GoTo(r, "work") /\ UNCHANGED step
       ELSE step' = [step EXCEPT ![r] = @ + 1] /\ UNCHANGED at
    /\ Emit(r, "step")
    /\ UNCHANGED <<mode, size, reviewer, round, result, outcome>>

UnderWay(r) == {i \in 1 .. step[r] : result[r][i] = "none"}

\* One of the steps under way comes back; join_all waits for the others.
EndPart(r, i, output) ==
    /\ at[r] = "work" /\ mode[r] = "parallel"
    /\ i \in UnderWay(r) /\ output \in {"plain", "error"}
    /\ result' = [result EXCEPT ![r] = [@ EXCEPT ![i] = output]]
    /\ IF UnderWay(r) # {i}
       THEN UNCHANGED <<at, step>>
       ELSE IF step[r] < size[r]
            THEN GoTo(r, "begin") /\ step' = [step EXCEPT ![r] = @ + 1]
            ELSE GoTo(r, "report") /\ step' = [step EXCEPT ![r] = 1]
    /\ Quiet /\ UNCHANGED <<mode, size, reviewer, round, outcome>>

AllOf(r) == IF \E i \in Steps(r) : result[r][i] = "error" THEN "failed" ELSE "success"

Report(r) ==
    /\ at[r] = "report"
    /\ Emit(r, "step")
    /\ IF step[r] < size[r]
       THEN step' = [step EXCEPT ![r] = @ + 1] /\ UNCHANGED <<at, outcome>>
       ELSE /\ GoTo(r, "finish")
            /\ outcome' = [outcome EXCEPT ![r] = AllOf(r)]
            /\ UNCHANGED step
    /\ UNCHANGED <<mode, size, reviewer, round, result>>

-----------------------------------------------------------------------------

\* What a run keeps is gone with it.
Leave(r, place) ==
    /\ GoTo(r, place)
    /\ mode' = [mode EXCEPT ![r] = "ordered"]
    /\ size' = [size EXCEPT ![r] = 0]
    /\ reviewer' = [reviewer EXCEPT ![r] = 0]
    /\ step' = [step EXCEPT ![r] = 1]
    /\ round' = [round EXCEPT ![r] = 1]
    /\ result' = [result EXCEPT ![r] = Blank(0)]
    /\ outcome' = [outcome EXCEPT ![r] = "none"]

\* finish_workflow.
Finish(r) == at[r] = "finish" /\ Leave(r, "done") /\ Emit(r, "end")

\* The turn is cancelled while a step is under way: nothing more is published.
Drop(r) == at[r] = "work" /\ Leave(r, "dropped") /\ Quiet

RunStep(r) ==
    \/ \E w \in Workflows[r] : \E v \in 0 .. w.size : Start(r, w, v)
    \/ \E w \in Workflows[r] : StartInVain(r, w)
    \/ BeginStep(r) \/ Launch(r) \/ Report(r) \/ Finish(r) \/ Drop(r)
    \/ \E output \in Outputs : EndStep(r, output)
    \/ \E i \in Steps(r), output \in Outputs : EndPart(r, i, output)

Next ==
    \/ \E r \in Runs : RunStep(r)
    \/ (BrokerStep \/ ClientStep) /\ UNCHANGED runVars

Spec == Init /\ [][Next]_vars

FairSpec == Spec /\ BrokerFairness

-----------------------------------------------------------------------------

\* Everything has the shape it should: the queue never grows past its capacity,
\* and no run is at a step or in a round that it does not have.
TypeOK ==
    /\ BrokerTypeOK
    /\ at \in [Runs -> Places]
    /\ mode \in [Runs -> AllModes]
    /\ size \in [Runs -> Nat]
    /\ reviewer \in [Runs -> Nat]
    /\ step \in [Runs -> Nat]
    /\ \A r \in Runs : size[r] > 0 => step[r] \in Steps(r) /\ reviewer[r] <= size[r]
    /\ round \in [Runs -> 1 .. MaxRounds]
    /\ DOMAIN result = Runs
    /\ \A r \in Runs : result[r] \in [Steps(r) -> Outputs \cup {"none"}]
    /\ outcome \in [Runs -> {"none", "success", "failed"}]
    /\ emitted \in [Runs -> Nat]

\* The end of a run is never given up on its way to a client that keeps up:
\* as long as the client is listed it has got the end, or was not looking at the
\* chat when it was sent, or the end is still on its way.
NoEndLost ==
    \A r \in Runs, c \in listed :
        at[r] = "done" =>
            \/ r \in seenEnd[c] \cup missed[c]
            \/ \E e \in Pending \cup {s.event : s \in {x \in sends : x.to = c}} :
                    e.run = r /\ e.kind = "end"

\* A client gets the events of a run in the order they were published in, gaps
\* apart, unless one of them found the broker full and went its own way.
InOrder ==
    [][ \A s \in sends \ sends' :
            s.event.run \notin strayed =>
                \A e \in Pending \cup {x.event : x \in {y \in sends : y.to = s.to}} :
                    e.run = s.event.run => e.n >= s.event.n ]_vars

\* A run reports success only when every step of it was done and none of them, the
\* latest time, brought back an error; a review loop, when the reviewer
\* approved of the round after which the other steps were done.
SuccessIsTrue ==
    \A r \in Runs : outcome[r] = "success" =>
        /\ \A i \in Steps(r) : result[r][i] \notin {"none", "error"}
        /\ mode[r] = "review" => result[r][reviewer[r]] = "approved"

\* The end of a run reaches every client that stays listed and looks at the
\* chat when it is sent.
EndArrives ==
    \A r \in Runs, c \in Clients :
        at[r] = "done" ~> (c \in listed => r \in seenEnd[c] \cup missed[c])
=============================================================================
