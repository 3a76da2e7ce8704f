----------------------------- MODULE SopEngine ------------------------------
(***************************************************************************)
(* The engine that runs SOP workflows (src/src/sop/engine.rs): one         *)
(* instance of a definition, its file, and the runs over it.               *)
(*                                                                         *)
(* A run is a call of run_sop_instance, from trigger_sop or resume_sop, in *)
(* any process.  It holds its own copy of the instance and saves it whole. *)
(* Each step is executed by an agent in a task of its own, which outlives  *)
(* the run if that is dropped.                                             *)
(***************************************************************************)
EXTENDS Naturals

CONSTANTS
    Steps,      \* the steps of the definition
    Deps,       \* depends_on, without the names that are no step
    Runs,       \* bound: so many runs at once, counting their agents
    Serial,     \* users start a run only while none is under way
    None

ASSUME DepsAssumption == Deps \in [Steps -> SUBSET Steps]
ASSUME SerialAssumption == Serial \in BOOLEAN

VARIABLES
    file,       \* the instance as last written whole, None before trigger_sop
    torn,       \* the file is no JSON: fs::write was cut short or collided
    run,        \* the runs
    task,       \* the agents a run has spawned, by step
    worked      \* history: the steps an agent has finished successfully

vars == <<file, torn, run, task, worked>>

Instance ==
    [status : {"Pending", "Running", "Completed", "Failed", "Paused"},
     steps : [Steps -> {"Pending", "Running", "Completed", "Failed"}]]

\* inst: the copy of the instance; todo: steps_to_spawn; failed: any_failed.
Run == [stage : {"reset", "load", "begin", "define", "loop"}, inst : Instance,
        todo : SUBSET Steps, failed : BOOLEAN]

\* A task that panicked has dropped its sender and will send nothing; the run's
\* own sender keeps the channel open.
Reports == {"none", "working", "ok", "err", "panicked"}

ASSUME NoneAssumption == None \notin Instance /\ None \notin Run

TypeOK ==
    /\ file \in Instance \cup {None}
    /\ torn \in BOOLEAN
    /\ run \in [Runs -> Run \cup {None}]
    /\ task \in [Runs -> [Steps -> Reports]]
    /\ worked \subseteq Steps

Created == [status |-> "Pending", steps |-> [s \in Steps |-> "Pending"]]

NoTask == [s \in Steps |-> "none"]

Init ==
    /\ file = None /\ torn = FALSE
    /\ run = [r \in Runs |-> None]
    /\ task = [r \in Runs |-> NoTask]
    /\ worked = {}

Alive(r) == run[r] # None
At(r, stage) == Alive(r) /\ run[r].stage = stage
Alone(r) == \A q \in Runs \ {r} : ~Alive(q)

\* A user may start run r now.
Startable(r) == ~Alive(r) /\ task[r] = NoTask /\ (Serial => Alone(r))

In(stage, inst) == [stage |-> stage, inst |-> inst, todo |-> {}, failed |-> FALSE]
Goto(r, next) == run' = [run EXCEPT ![r] = next]

\* save_instance: fs::write of the whole instance.  What two runs write at
\* once may be the text of neither.
Save(r, inst) ==
    /\ file' = inst
    /\ torn' \in IF Alone(r) THEN {FALSE} ELSE BOOLEAN

-----------------------------------------------------------------------------
(* Starting a run. *)

Trigger(r) ==
    /\ file = None /\ Startable(r)
    /\ Save(r, Created)
    /\ Goto(r, In("load", Created))
    /\ UNCHANGED <<task, worked>>

CanResume(inst) == inst.status \in {"Failed", "Paused", "Pending"}

\* Mutant: a run that seems interrupted can be resumed.
ResumedInterrupted(inst) ==
    IF inst.status = "Completed" THEN {}
    ELSE {[status |-> "Running",
           steps |-> [s \in Steps |-> IF inst.steps[s] \in {"Failed", "Running"}
                                      THEN "Pending" ELSE inst.steps[s]]]}

\* The instance as resume_sop leaves it, if it accepts it.
Resumed(inst) ==
    IF ~CanResume(inst) THEN {}
    ELSE {[status |-> "Running",
           steps |-> [s \in Steps |-> IF inst.steps[s] = "Failed" THEN "Pending"
                                      ELSE inst.steps[s]]]}

\* resume_sop loads and checks the instance ...
Resume(r) ==
    /\ file # None /\ ~torn /\ Startable(r)
    /\ \E inst \in Resumed(file) : Goto(r, In("reset", inst))
    /\ UNCHANGED <<file, torn, task, worked>>

\* ... and saves it.
Reset(r) ==
    /\ At(r, "reset")
    /\ Save(r, run[r].inst)
    /\ Goto(r, In("load", run[r].inst))
    /\ UNCHANGED <<task, worked>>

-----------------------------------------------------------------------------
(* run_sop_instance. *)

Load(r) ==
    /\ At(r, "load")
    /\ Goto(r, IF torn \/ file.status = "Completed" THEN None
               ELSE In("begin", [file EXCEPT !.status = "Running"]))
    /\ UNCHANGED <<file, torn, task, worked>>

Begin(r) ==
    /\ At(r, "begin")
    /\ Save(r, run[r].inst)
    /\ Goto(r, In("define", run[r].inst))
    /\ UNCHANGED <<task, worked>>

\* Mutant: any dependency is enough.
ReadyAny(inst) ==
    {s \in Steps : /\ inst.steps[s] = "Pending"
                   /\ Deps[s] # {} => \E d \in Deps[s] : inst.steps[d] = "Completed"}

\* Mutant: a dependency that has been started is enough.
ReadyOnceStarted(inst) ==
    {s \in Steps : /\ inst.steps[s] = "Pending"
                   /\ \A d \in Deps[s] : inst.steps[d] # "Pending"}

\* Mutant: a step is ready unless it runs.
ReadyAgain(inst) ==
    {s \in Steps : /\ inst.steps[s] # "Running"
                   /\ \A d \in Deps[s] : inst.steps[d] = "Completed"}

Ready(inst) ==
    {s \in Steps : /\ inst.steps[s] = "Pending"
                   /\ \A d \in Deps[s] : inst.steps[d] = "Completed"}

\* The top of the loop: the steps to spawn in this turn of it.
Iterate(inst, failed) ==
    [stage |-> "loop", inst |-> inst, failed |-> failed,
     todo |-> IF failed THEN {} ELSE Ready(inst)]

\* get_definition finds the definition, or it is gone.
Define(r) ==
    /\ At(r, "define")
    /\ Goto(r, Iterate(run[r].inst, FALSE)) \/ Goto(r, None)
    /\ UNCHANGED <<file, torn, task, worked>>

\* The steps to spawn are taken by index; here in any order.
Spawn(r, s) ==
    /\ At(r, "loop") /\ s \in run[r].todo
    /\ LET inst == [run[r].inst EXCEPT !.steps[s] = "Running"]
       IN  /\ Save(r, inst)
           /\ Goto(r, [run[r] EXCEPT !.inst = inst, !.todo = @ \ {s}])
    /\ task' = [task EXCEPT ![r][s] = "working"]
    /\ UNCHANGED worked

\* Mutant: the status of a failed step is not one the engine knows.
StatusOfError(outcome) == IF outcome = "ok" THEN "Completed" ELSE "Error"

StatusOf(outcome) == IF outcome = "ok" THEN "Completed" ELSE "Failed"

\* recv: the result of an agent is entered in the instance.
Record(r, s) ==
    /\ At(r, "loop") /\ run[r].todo = {} /\ task[r][s] \in {"ok", "err"}
    /\ LET inst == [run[r].inst EXCEPT !.steps[s] = StatusOf(task[r][s])]
       IN  /\ Save(r, inst)
           /\ Goto(r, Iterate(inst, run[r].failed \/ task[r][s] = "err"))
    /\ task' = [task EXCEPT ![r][s] = "none"]
    /\ UNCHANGED worked

\* Mutant: a failure ends the loop at once.
DrainedOnFailure(r) == run[r].failed \/ task[r] = NoTask

\* Mutant: a task that failed is not taken off the count of active tasks.
DrainedNever(r) == ~run[r].failed /\ task[r] = NoTask

\* active_tasks is zero.
Drained(r) == task[r] = NoTask

\* Mutant: the instance is completed unless a step failed.
FinalStatusLax(inst) ==
    IF \A s \in Steps : inst.steps[s] # "Failed" THEN "Completed" ELSE "Failed"

FinalStatus(inst) ==
    IF \A s \in Steps : inst.steps[s] = "Completed" THEN "Completed" ELSE "Failed"

Finish(r) ==
    /\ At(r, "loop") /\ run[r].todo = {} /\ Drained(r)
    /\ Save(r, [run[r].inst EXCEPT !.status = FinalStatus(run[r].inst)])
    /\ Goto(r, None)
    /\ UNCHANGED <<task, worked>>

-----------------------------------------------------------------------------
(* The agents, and what may befall a run. *)

\* An agent ends, or its task panics; nobody takes the result if its run is over.
AgentEnds(r, s, outcome) ==
    /\ task[r][s] = "working"
    /\ task' = [task EXCEPT ![r][s] = IF Alive(r) THEN outcome ELSE "none"]
    /\ worked' = IF outcome = "ok" THEN worked \cup {s} ELSE worked
    /\ UNCHANGED <<file, torn, run>>

Saves(r) == run[r].stage \in {"reset", "begin", "loop"}

\* A run stops anywhere: save_instance fails, load_instance meets what another
\* run is writing, or the turn that waits for the run is cancelled.  Its
\* agents work on.
Abort(r) ==
    /\ Alive(r) /\ Goto(r, None)
    /\ torn' \in IF Saves(r) THEN {torn, TRUE} ELSE {torn}
    /\ task' = [task EXCEPT ![r] =
                  [s \in Steps |-> IF @[s] = "working" THEN "working" ELSE "none"]]
    /\ UNCHANGED <<file, worked>>

\* The process of a run dies, with its agents.
Crash(r) ==
    /\ Goto(r, None)
    /\ torn' \in IF Alive(r) /\ Saves(r) THEN {torn, TRUE} ELSE {torn}
    /\ task' = [task EXCEPT ![r] = NoTask]
    /\ UNCHANGED <<file, worked>>

RunStep(r) ==
    \/ Reset(r) \/ Load(r) \/ Begin(r) \/ Define(r) \/ Finish(r)
    \/ \E s \in Steps : Spawn(r, s) \/ Record(r, s)

AgentStep(r, s) == \E outcome \in {"ok", "err", "panicked"} : AgentEnds(r, s, outcome)

Next ==
    \E r \in Runs :
        \/ Trigger(r) \/ Resume(r) \/ RunStep(r) \/ Abort(r) \/ Crash(r)
        \/ \E s \in Steps : AgentStep(r, s)

Spec == Init /\ [][Next]_vars

(* A run that can go on is scheduled.  Of its agents nothing is assumed:   *)
(* one may panic, or wait for an approval that no user gives.              *)
FairSpec == Spec /\ \A r \in Runs : WF_vars(RunStep(r))

-----------------------------------------------------------------------------
(* Whatever runs overlap: an instance that the file calls completed has    *)
(* all its steps completed, and an agent did finish each of them.          *)
CompletedIsDone ==
    file # None =>
        /\ \A s \in Steps : file.steps[s] = "Completed" => s \in worked
        /\ file.status = "Completed" =>
              \A s \in Steps : file.steps[s] = "Completed"

(* No agent works on a step before agents have finished all the steps it   *)
(* depends on, in this run or in one before it.                            *)
DepsFirst ==
    \A r \in Runs, s \in Steps : task[r][s] # "none" => Deps[s] \subseteq worked

(* If runs are started one after the other, no two agents ever work on the *)
(* same step: not even an agent that outlived its run and one of a later.  *)
StepExclusive ==
    \A s \in Steps : \A r, q \in Runs :
        task[r][s] = "working" /\ task[q][s] = "working" => r = q

(* Then an instance that ended as failed, and whose file can be read, can  *)
(* be resumed to some effect: no step is left as running, and unless its   *)
(* steps wait for each other in a cycle, there is a failed step that       *)
(* resume_sop will retry.                                                  *)
Acyclic ==
    \A S \in SUBSET Steps : S # {} => \E s \in S : Deps[s] \cap S = {}

FailedIsRetried ==
    file # None /\ ~torn /\ file.status = "Failed" /\ (\A r \in Runs : ~Alive(r)) =>
        /\ \A s \in Steps : file.steps[s] # "Running"
        /\ Acyclic => \E s \in Steps : file.steps[s] = "Failed"

(* Then what the file once called completed is not executed again ...      *)
NothingRedone ==
    [][\A r \in Runs, s \in Steps :
         file # None /\ file.steps[s] = "Completed" /\ task[r][s] = "none" =>
             task'[r][s] = "none"]_vars

(* ... and what can be read of the instance implements DagRun: no step is  *)
(* completed before those it depends on, and none that is completed is     *)
(* lost, unless a save of an instance that was not yet closed was cut      *)
(* short: then the file is no JSON, and all are lost for good.             *)
Readable == file # None /\ ~torn

DR == INSTANCE DagRun WITH
        done <- IF Readable THEN {s \in Steps : file.steps[s] = "Completed"} ELSE {},
        closed <- Readable /\ file.status = "Completed",
        lost <- torn

ImplementsDagRun == DR!Spec

(* Every run comes to its end, with success or failure, unless one of its  *)
(* agents never reports: whatever order the others fail and report in, the *)
(* count of active tasks reaches zero when the last has.                   *)
NeverReports(r, s) == task[r][s] \in {"working", "panicked"}

RunEnds ==
    \A r \in Runs : []<>(~Alive(r)) \/ \E s \in Steps : <>[]NeverReports(r, s)

(* resume_sop says "Only pending, failed, or paused SOP instances can be   *)
(* resumed": when it rewrites the instance, the instance is one of these.  *)
ResumeIsChecked == \A r \in Runs : At(r, "reset") => CanResume(file)
=============================================================================
