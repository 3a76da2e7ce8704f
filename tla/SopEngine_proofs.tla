-------------------------- MODULE SopEngine_proofs --------------------------
(***************************************************************************)
(* Proofs about SopEngine, for every set of steps, every dependency graph  *)
(* and any number of runs: what holds however runs overlap, and, if they   *)
(* are started one after the other, that no step is executed twice and     *)
(* that the file of an instance implements DagRun.                         *)
(***************************************************************************)
EXTENDS SopEngine, TLAPS

\* What an instance calls completed was worked.
Real(inst) == \A s \in Steps : inst.steps[s] = "Completed" => s \in worked

AllCompleted(inst) == \A s \in Steps : inst.steps[s] = "Completed"

FileOK(inst) == Real(inst) /\ (inst.status = "Completed" => AllCompleted(inst))

FileInv == file # None => FileOK(file)

RunOK(n) ==
    /\ Real(n.inst)
    /\ n.inst.status # "Completed"
    /\ n.failed => n.todo = {}
    /\ \A s \in n.todo : Deps[s] \subseteq worked

RunInv == \A r \in Runs : Alive(r) => file # None /\ RunOK(run[r])

TaskInv ==
    \A r \in Runs, s \in Steps :
        /\ task[r][s] # "none" => Deps[s] \subseteq worked
        /\ task[r][s] = "ok" => s \in worked

IInv == TypeOK /\ FileInv /\ RunInv /\ TaskInv

LEMMA InitIInv == Init => IInv
<1> SUFFICES ASSUME Init PROVE IInv
  OBVIOUS
<1>1. TypeOK
  BY DEF Init, TypeOK, NoTask, Reports
<1>2. FileInv /\ RunInv /\ TaskInv
  BY DEF Init, FileInv, RunInv, TaskInv, Alive, NoTask
<1> QED
  BY <1>1, <1>2 DEF IInv

-----------------------------------------------------------------------------
(* The operators on instances. *)

LEMMA CreatedType == Created \in Instance
BY DEF Created, Instance

LEMMA ResumedType ==
    ASSUME NEW i \in Instance, NEW j \in Resumed(i)
    PROVE  /\ j \in Instance /\ CanResume(i) /\ j.status = "Running"
           /\ \A s \in Steps : j.steps[s] = IF i.steps[s] = "Failed" THEN "Pending"
                                            ELSE i.steps[s]
BY DEF Resumed, Instance, CanResume

LEMMA ReadyFacts ==
    ASSUME NEW i
    PROVE  /\ Ready(i) \subseteq Steps
           /\ \A s \in Ready(i) : i.steps[s] = "Pending"
                                  /\ \A d \in Deps[s] : i.steps[d] = "Completed"
BY DEF Ready

LEMMA IterateType ==
    ASSUME NEW i \in Instance, NEW f \in BOOLEAN
    PROVE  /\ Iterate(i, f) \in Run
           /\ Iterate(i, f).stage = "loop" /\ Iterate(i, f).inst = i
           /\ Iterate(i, f).failed = f
           /\ Iterate(i, f).todo = IF f THEN {} ELSE Ready(i)
BY ReadyFacts DEF Iterate, Run

LEMMA InType ==
    ASSUME NEW i \in Instance, NEW st \in {"reset", "load", "begin", "define", "loop"}
    PROVE  /\ In(st, i) \in Run
           /\ In(st, i).stage = st /\ In(st, i).inst = i
           /\ In(st, i).failed = FALSE /\ In(st, i).todo = {}
BY DEF In, Run

LEMMA WithStatusType ==
    ASSUME NEW i \in Instance,
           NEW st \in {"Pending", "Running", "Completed", "Failed", "Paused"}
    PROVE  /\ [i EXCEPT !.status = st] \in Instance
           /\ [i EXCEPT !.status = st].status = st
           /\ [i EXCEPT !.status = st].steps = i.steps
BY DEF Instance

LEMMA WithStepType ==
    ASSUME NEW i \in Instance, NEW s \in Steps,
           NEW st \in {"Pending", "Running", "Completed", "Failed"}
    PROVE  /\ [i EXCEPT !.steps[s] = st] \in Instance
           /\ [i EXCEPT !.steps[s] = st].status = i.status
           /\ \A t \in Steps : [i EXCEPT !.steps[s] = st].steps[t] =
                                 IF t = s THEN st ELSE i.steps[t]
BY DEF Instance

-----------------------------------------------------------------------------
(* What holds however runs overlap. *)

\* A step of a run that saves instance i, if it saves one, and goes to n.
LEMMA RunStepKeeps ==
    ASSUME IInv, NEW r \in Runs, NEW n \in Run \cup {None},
           run' = [run EXCEPT ![r] = n], n # None => RunOK(n) /\ file' # None,
           file' \in Instance \cup {None}, file' # None => FileOK(file'),
           file # None => file' # None,
           torn' \in BOOLEAN, worked' = worked,
           task' \in [Runs -> [Steps -> Reports]],
           \A q \in Runs, s \in Steps :
              task'[q][s] = task[q][s] \/ task'[q][s] = "none"
              \/ (task'[q][s] = "working" /\ Deps[s] \subseteq worked)
    PROVE  IInv'
<1>1. TypeOK'
  BY DEF IInv, TypeOK
<1>2. FileInv'
  BY DEF FileInv, FileOK, Real, AllCompleted
<1>3. RunInv'
  <2> SUFFICES ASSUME NEW q \in Runs, run'[q] # None
               PROVE  file' # None /\ RunOK(run'[q])
    BY DEF RunInv, Alive, RunOK, Real
  <2>1. CASE q = r
    BY <2>1 DEF IInv, TypeOK
  <2>2. CASE q # r
    <3>1. run'[q] = run[q]
      BY <2>2 DEF IInv, TypeOK
    <3> QED
      BY <3>1 DEF IInv, RunInv, Alive
  <2> QED
    BY <2>1, <2>2
<1>4. TaskInv'
  <2> SUFFICES ASSUME NEW q \in Runs, NEW s \in Steps
               PROVE  /\ task'[q][s] # "none" => Deps[s] \subseteq worked
                      /\ task'[q][s] = "ok" => s \in worked
    BY DEF TaskInv
  <2> QED
    BY DEF IInv, TaskInv
<1> QED
  BY <1>1, <1>2, <1>3, <1>4 DEF IInv

\* The end of a run leaves its tasks working or takes them away.
LEMMA TasksCut ==
    ASSUME task \in [Runs -> [Steps -> Reports]],
           NEW r \in Runs,
           \/ task' = [task EXCEPT ![r] =
                         [s \in Steps |-> IF @[s] = "working" THEN "working" ELSE "none"]]
           \/ task' = [task EXCEPT ![r] = [s \in Steps |-> "none"]]
    PROVE  /\ \A q \in Runs, s \in Steps :
                 task'[q][s] = task[q][s] \/ task'[q][s] = "none"
           /\ task' \in [Runs -> [Steps -> Reports]]
<1>1. PICK f \in [Steps -> Reports] :
         /\ task' = [task EXCEPT ![r] = f]
         /\ \A s \in Steps : f[s] = task[r][s] \/ f[s] = "none"
  <2>1. CASE task' = [task EXCEPT ![r] = [s \in Steps |-> "none"]]
    BY <2>1 DEF Reports
  <2>2. CASE task' = [task EXCEPT ![r] =
                        [s \in Steps |-> IF @[s] = "working" THEN "working" ELSE "none"]]
    <3> DEFINE f == [s \in Steps |-> IF task[r][s] = "working" THEN "working" ELSE "none"]
    <3>1. task' = [task EXCEPT ![r] = f]
      BY <2>2
    <3> QED
      BY <3>1 DEF Reports
  <2> QED
    BY <2>1, <2>2
<1> QED
  BY <1>1

LEMMA AliveFacts ==
    ASSUME IInv, NEW r \in Runs, run[r] # None
    PROVE  /\ file # None /\ file \in Instance /\ FileOK(file)
           /\ run[r] \in Run /\ run[r].inst \in Instance /\ RunOK(run[r])
BY DEF IInv, TypeOK, FileInv, RunInv, Alive, Run

LEMMA NextIInv == IInv /\ [Next]_vars => IInv'
<1> SUFFICES ASSUME IInv, [Next]_vars PROVE IInv'
  OBVIOUS
<1> USE DEF Alive, At, Save, Goto
<1>0. /\ torn \in BOOLEAN /\ file \in Instance \cup {None}
      /\ task \in [Runs -> [Steps -> Reports]]
      /\ None \notin Instance /\ None \notin Run
  BY NoneAssumption DEF IInv, TypeOK
<1>1. ASSUME NEW r \in Runs, Trigger(r) PROVE IInv'
  <2>1. Created \in Instance /\ FileOK(Created) /\ Created.status # "Completed"
    BY CreatedType DEF Created, FileOK, Real
  <2>2. In("load", Created) \in Run /\ RunOK(In("load", Created))
    BY <2>1, InType DEF RunOK, FileOK
  <2> QED
    BY <1>0, <1>1, <2>1, <2>2, RunStepKeeps DEF Trigger
<1>2. ASSUME NEW r \in Runs, Resume(r) PROVE IInv'
  <2>1. PICK i \in Resumed(file) : run' = [run EXCEPT ![r] = In("reset", i)]
    BY <1>2 DEF Resume
  <2>2. file \in Instance /\ file # None /\ FileOK(file)
    BY <1>0, <1>2 DEF Resume, IInv, FileInv
  <2>3. i \in Instance /\ i.status # "Completed" /\ Real(i)
    BY <2>2, ResumedType DEF FileOK, Real
  <2>4. In("reset", i) \in Run /\ RunOK(In("reset", i))
    BY <2>3, InType DEF RunOK
  <2> QED
    BY <1>0, <1>2, <2>1, <2>2, <2>4, RunStepKeeps DEF Resume
<1>3. ASSUME NEW r \in Runs, NEW st \in {"load", "define"},
             file' = run[r].inst, run' = [run EXCEPT ![r] = In(st, run[r].inst)],
             run[r] # None, torn' \in BOOLEAN, UNCHANGED <<task, worked>>
      PROVE  IInv'
  <2>1. /\ run[r].inst \in Instance /\ RunOK(run[r]) /\ file # None
    BY <1>3, AliveFacts
  <2> DEFINE n == In(st, run[r].inst)
  <2>2. n \in Run /\ n.inst = run[r].inst /\ n.failed = FALSE /\ n.todo = {}
    <3>1. st \in {"reset", "load", "begin", "define", "loop"}
      OBVIOUS
    <3> QED
      BY <2>1, <3>1 DEF In, Run
  <2>3. run' = [run EXCEPT ![r] = n]
    BY <1>3
  <2> HIDE DEF n
  <2>4. RunOK(n) /\ FileOK(run[r].inst)
    BY <2>1, <2>2 DEF RunOK, FileOK
  <2> QED
    BY <1>0, <1>3, <2>1, <2>2, <2>3, <2>4, RunStepKeeps
<1>4. ASSUME NEW r \in Runs, Load(r) PROVE IInv'
  <2>1. file \in Instance /\ file # None /\ FileOK(file)
    BY <1>4, AliveFacts DEF Load
  <2> DEFINE i == [file EXCEPT !.status = "Running"]
  <2>2. i \in Instance /\ i.status = "Running" /\ i.steps = file.steps
    BY <2>1, WithStatusType
  <2> HIDE DEF i
  <2> DEFINE n == In("begin", i)
  <2>3. n \in Run /\ n.inst = i /\ n.failed = FALSE /\ n.todo = {}
    BY <2>2, InType
  <2>4. run' = [run EXCEPT ![r] = None] \/ run' = [run EXCEPT ![r] = n]
    BY <1>4 DEF Load, i
  <2> HIDE DEF n
  <2>5. RunOK(n)
    BY <2>1, <2>2, <2>3 DEF RunOK, FileOK, Real
  <2> QED
    BY <1>0, <1>4, <2>1, <2>3, <2>4, <2>5, RunStepKeeps DEF Load
<1>6. ASSUME NEW r \in Runs, Define(r) PROVE IInv'
  <2>1. run[r].inst \in Instance /\ RunOK(run[r]) /\ FileOK(file) /\ file # None
    BY <1>6, AliveFacts DEF Define
  <2> DEFINE n == Iterate(run[r].inst, FALSE)
  <2>2. n \in Run /\ n.inst = run[r].inst /\ n.failed = FALSE /\ n.todo = Ready(n.inst)
    BY <2>1, IterateType
  <2>3. run' = [run EXCEPT ![r] = None] \/ run' = [run EXCEPT ![r] = n]
    BY <1>6 DEF Define
  <2> HIDE DEF n
  <2>4. RunOK(n)
    BY <2>1, <2>2, ReadyFacts, DepsAssumption DEF RunOK, Real
  <2> QED
    BY <1>0, <1>6, <2>1, <2>2, <2>3, <2>4, RunStepKeeps DEF Define
<1>7. ASSUME NEW r \in Runs, NEW s \in Steps, Spawn(r, s) PROVE IInv'
  <2> DEFINE i == [run[r].inst EXCEPT !.steps[s] = "Running"]
             n == [run[r] EXCEPT !.inst = i, !.todo = @ \ {s}]
  <2>0. /\ run[r] \in Run /\ run[r].inst \in Instance /\ RunOK(run[r]) /\ file # None
    BY <1>7, AliveFacts DEF Spawn
  <2>1. /\ i \in Instance /\ i.status = run[r].inst.status
        /\ \A t \in Steps : i.steps[t] = IF t = s THEN "Running" ELSE run[r].inst.steps[t]
    BY <2>0, WithStepType
  <2>2. file' = i /\ torn' \in BOOLEAN /\ run' = [run EXCEPT ![r] = n]
        /\ task' = [task EXCEPT ![r][s] = "working"] /\ UNCHANGED worked
        /\ s \in run[r].todo
    BY <1>7 DEF Spawn
  <2> HIDE DEF i
  <2>3. n \in Run /\ n.inst = i /\ n.todo = run[r].todo \ {s} /\ n.failed = run[r].failed
    BY <2>0, <2>1 DEF Run
  <2> HIDE DEF n
  <2>4. FileOK(i) /\ RunOK(n) /\ Deps[s] \subseteq worked
    BY <2>0, <2>1, <2>2, <2>3 DEF FileOK, RunOK, Real
  <2>5. \A q \in Runs, t \in Steps :
           task'[q][t] = IF q = r /\ t = s THEN "working" ELSE task[q][t]
    BY <1>0, <2>2
  <2>6. task' \in [Runs -> [Steps -> Reports]]
    BY <1>0, <2>2 DEF Reports
  <2> QED
    BY <1>0, <2>0, <2>1, <2>2, <2>3, <2>4, <2>5, <2>6, RunStepKeeps
<1>8. ASSUME NEW r \in Runs, NEW s \in Steps, Record(r, s) PROVE IInv'
  <2> DEFINE i == [run[r].inst EXCEPT !.steps[s] = StatusOf(task[r][s])]
             f == run[r].failed \/ task[r][s] = "err"
             n == Iterate(i, f)
  <2>0. /\ run[r] \in Run /\ run[r].inst \in Instance /\ RunOK(run[r]) /\ file # None
        /\ f \in BOOLEAN
    BY <1>8, AliveFacts DEF Record, Run
  <2>1. /\ i \in Instance /\ i.status = run[r].inst.status
        /\ \A t \in Steps : i.steps[t] = IF t = s THEN StatusOf(task[r][s])
                                         ELSE run[r].inst.steps[t]
    <3>1. StatusOf(task[r][s]) \in {"Pending", "Running", "Completed", "Failed"}
      BY DEF StatusOf
    <3> QED
      BY <2>0, <3>1, WithStepType
  <2>2. StatusOf(task[r][s]) = "Completed" => s \in worked
    BY <1>8 DEF Record, StatusOf, IInv, TaskInv
  <2>3. file' = i /\ torn' \in BOOLEAN /\ run' = [run EXCEPT ![r] = n]
        /\ task' = [task EXCEPT ![r][s] = "none"] /\ UNCHANGED worked
    BY <1>8 DEF Record
  <2> HIDE DEF i, f
  <2>4. n \in Run /\ n.inst = i /\ n.todo = (IF f THEN {} ELSE Ready(i)) /\ n.failed = f
    BY <2>0, <2>1, IterateType
  <2> HIDE DEF n
  <2>5. Real(i)
    BY <2>0, <2>1, <2>2 DEF RunOK, Real
  <2>6. FileOK(i) /\ RunOK(n)
    BY <2>0, <2>1, <2>4, <2>5, ReadyFacts, DepsAssumption DEF FileOK, RunOK, Real
  <2>7. \A q \in Runs, t \in Steps :
           task'[q][t] = IF q = r /\ t = s THEN "none" ELSE task[q][t]
    BY <1>0, <2>3
  <2>8. task' \in [Runs -> [Steps -> Reports]]
    BY <1>0, <2>3 DEF Reports
  <2> QED
    BY <1>0, <2>0, <2>1, <2>3, <2>4, <2>6, <2>7, <2>8, RunStepKeeps
<1>9. ASSUME NEW r \in Runs, Finish(r) PROVE IInv'
  <2> DEFINE i == [run[r].inst EXCEPT !.status = FinalStatus(run[r].inst)]
  <2>0. run[r].inst \in Instance /\ RunOK(run[r]) /\ file # None
    BY <1>9, AliveFacts DEF Finish
  <2>1. /\ i \in Instance /\ i.steps = run[r].inst.steps
        /\ i.status = FinalStatus(run[r].inst)
    <3>1. FinalStatus(run[r].inst)
            \in {"Pending", "Running", "Completed", "Failed", "Paused"}
      BY DEF FinalStatus
    <3> QED
      BY <2>0, <3>1, WithStatusType
  <2>2. file' = i /\ torn' \in BOOLEAN /\ run' = [run EXCEPT ![r] = None]
        /\ UNCHANGED <<task, worked>>
    BY <1>9 DEF Finish
  <2> HIDE DEF i
  <2>3. FileOK(i)
    BY <2>0, <2>1 DEF FinalStatus, FileOK, RunOK, Real, AllCompleted
  <2> QED
    BY <1>0, <2>1, <2>2, <2>3, RunStepKeeps
<1>10. ASSUME NEW r \in Runs, NEW s \in Steps, AgentStep(r, s) PROVE IInv'
  <2>1. PICK outcome \in {"ok", "err", "panicked"} : AgentEnds(r, s, outcome)
    BY <1>10 DEF AgentStep
  <2>2. worked \subseteq worked' /\ UNCHANGED <<file, torn, run>>
        /\ worked' \subseteq Steps
    BY <2>1 DEF AgentEnds, IInv, TypeOK
  <2>3. \A q \in Runs, t \in Steps :
           task'[q][t] = IF q = r /\ t = s
                         THEN (IF Alive(r) THEN outcome ELSE "none") ELSE task[q][t]
    BY <1>0, <2>1 DEF AgentEnds
  <2>4. task' \in [Runs -> [Steps -> Reports]]
    BY <1>0, <2>1 DEF AgentEnds, Reports
  <2>5. TypeOK'
    BY <2>2, <2>4 DEF IInv, TypeOK
  <2>6. FileInv' /\ RunInv'
    BY <2>2 DEF IInv, FileInv, RunInv, FileOK, RunOK, Real, AllCompleted
  <2>7. TaskInv'
    BY <2>1, <2>2, <2>3 DEF IInv, TaskInv, AgentEnds
  <2> QED
    BY <2>5, <2>6, <2>7 DEF IInv
<1>11. ASSUME NEW r \in Runs, Abort(r) \/ Crash(r) PROVE IInv'
  <2>1. /\ run' = [run EXCEPT ![r] = None] /\ torn' \in BOOLEAN
        /\ UNCHANGED <<file, worked>>
    BY <1>0, <1>11 DEF Abort, Crash
  <2>2. /\ \A q \in Runs, s \in Steps :
              task'[q][s] = task[q][s] \/ task'[q][s] = "none"
        /\ task' \in [Runs -> [Steps -> Reports]]
    BY <1>0, <1>11, TasksCut DEF Abort, Crash, NoTask
  <2> QED
    BY <1>0, <2>1, <2>2, RunStepKeeps DEF IInv, FileInv
<1>12. ASSUME UNCHANGED vars PROVE IInv'
  BY <1>12 DEF vars, IInv, TypeOK, FileInv, RunInv, TaskInv, FileOK, RunOK, Real,
               AllCompleted
<1> QED
  <2>1. ASSUME NEW r \in Runs, Reset(r) \/ Begin(r) PROVE IInv'
    <3>1. torn' \in BOOLEAN /\ file' = run[r].inst /\ run[r] # None
          /\ UNCHANGED <<task, worked>>
      BY <2>1 DEF Reset, Begin
    <3>2. run' = [run EXCEPT ![r] = In("load", run[r].inst)]
          \/ run' = [run EXCEPT ![r] = In("define", run[r].inst)]
      BY <2>1 DEF Reset, Begin
    <3> QED
      BY <1>3, <3>1, <3>2
  <2> QED
    BY <1>1, <1>2, <2>1, <1>4, <1>6, <1>7, <1>8, <1>9, <1>10, <1>11, <1>12
       DEF Next, RunStep

\* The types hold, and with them what the other theorems rest on.
THEOREM Invariance == Spec => []IInv
BY InitIInv, NextIInv, PTL DEF Spec

THEOREM TypeCorrect == Spec => []TypeOK
<1>1. IInv => TypeOK
  BY DEF IInv
<1> QED
  BY <1>1, Invariance, PTL

\* What the file calls completed is done, however runs overlap.
THEOREM CompletedSteps == Spec => []CompletedIsDone
<1>1. IInv => CompletedIsDone
  BY DEF IInv, FileInv, FileOK, CompletedIsDone, Real, AllCompleted
<1> QED
  BY <1>1, Invariance, PTL

\* No agent works before the steps its own depends on, however runs overlap.
THEOREM DependenciesFirst == Spec => []DepsFirst
<1>1. IInv => DepsFirst
  BY DEF IInv, TaskInv, DepsFirst
<1> QED
  BY <1>1, Invariance, PTL

-----------------------------------------------------------------------------
(* What a run does goes forward, however runs overlap.                     *)

Stages == <<"reset", "load", "begin", "define", "loop">>

\* The states a step goes through in one run.
StepMoves == {<<"Pending", "Running">>, <<"Running", "Completed">>, <<"Running", "Failed">>}

\* While it lives a run goes from each of its stages to the next, and in its loop
\* one step at a time is started or ended, a step only that waits or that runs in
\* this copy of the instance.  So it starts no step twice and its loop comes round
\* at most twice for each step: what makes every run end.
RunsGoForward ==
    [][\A r \in Runs :
         Alive(r) /\ run'[r] # run[r] /\ run'[r] # None =>
            \/ \E i \in 1 .. 4 : run[r].stage = Stages[i] /\ run'[r].stage = Stages[i + 1]
            \/ /\ run[r].stage = "loop" /\ run'[r].stage = "loop"
               /\ \E s \in Steps :
                     /\ <<run[r].inst.steps[s], run'[r].inst.steps[s]>> \in StepMoves
                     /\ \A t \in Steps \ {s} :
                           run'[r].inst.steps[t] = run[r].inst.steps[t]]_vars

\* A run has agents only in its loop, for steps that run in its copy, and what is
\* still to be started waits there.
AgentsRun(n, t) ==
    n # None => /\ n.todo # {} => n.stage = "loop"
                /\ \A s \in n.todo : n.inst.steps[s] = "Pending"
                /\ \A s \in Steps : t[s] # "none" =>
                      n.stage = "loop" /\ n.inst.steps[s] = "Running"

AgentInv == \A r \in Runs : AgentsRun(run[r], task[r])

\* A step of r that goes to n with the agents t.
LEMMA AgentStepOf ==
    ASSUME IInv, AgentInv, NEW r \in Runs, NEW n, run' = [run EXCEPT ![r] = n],
           NEW t, task' = [task EXCEPT ![r] = t], AgentsRun(n, t)
    PROVE  AgentInv'
<1> SUFFICES ASSUME NEW q \in Runs PROVE AgentsRun(run'[q], task'[q])
  BY DEF AgentInv, AgentsRun
<1>1. CASE q = r
  <2>1. run'[q] = n /\ task'[q] = t
    BY <1>1 DEF IInv, TypeOK
  <2> QED
    BY <2>1
<1>2. CASE q # r
  <2>1. run'[q] = run[q] /\ task'[q] = task[q]
    BY <1>2 DEF IInv, TypeOK
  <2> QED
    BY <2>1 DEF AgentInv
<1> QED
  BY <1>1, <1>2

LEMMA NextAgentInv == IInv /\ AgentInv /\ [Next]_vars => AgentInv'
<1> SUFFICES ASSUME IInv, AgentInv, [Next]_vars PROVE AgentInv'
  OBVIOUS
<1> USE DEF Alive, At, Goto
<1>0. /\ task \in [Runs -> [Steps -> Reports]]
      /\ \A r \in Runs : task[r] \in [Steps -> Reports]
                         /\ task = [task EXCEPT ![r] = task[r]]
  BY DEF IInv, TypeOK
\* A run without agents goes to a stage before the loop, or ends.
<1>1. ASSUME NEW r \in Runs, NEW st, NEW i,
             run' = [run EXCEPT ![r] = In(st, i)] \/ run' = [run EXCEPT ![r] = None],
             task' = task, \A s \in Steps : task[r][s] = "none"
      PROVE  AgentInv'
  <2>1. AgentsRun(In(st, i), task[r]) /\ AgentsRun(None, task[r])
    BY <1>1 DEF In, AgentsRun
  <2>2. task' = [task EXCEPT ![r] = task[r]]
    BY <1>0, <1>1
  <2> QED
    BY <1>1, <2>1, <2>2, AgentStepOf
<1>2. ASSUME NEW r \in Runs, Trigger(r) \/ Resume(r) PROVE AgentInv'
  <2>1. \A s \in Steps : task[r][s] = "none"
    BY <1>2 DEF Trigger, Resume, Startable, NoTask
  <2> QED
    BY <1>1, <1>2, <2>1 DEF Trigger, Resume
<1>3. ASSUME NEW r \in Runs, run[r] # None, run[r].stage # "loop"
      PROVE  \A s \in Steps : task[r][s] = "none"
  BY <1>3 DEF AgentInv, AgentsRun
<1>4. ASSUME NEW r \in Runs, Reset(r) \/ Load(r) \/ Begin(r) PROVE AgentInv'
  <2>1. task' = task /\ run[r] # None /\ run[r].stage # "loop"
    BY <1>4 DEF Reset, Load, Begin
  <2>2. \E st, i : run' = [run EXCEPT ![r] = In(st, i)] \/ run' = [run EXCEPT ![r] = None]
    BY <1>4 DEF Reset, Load, Begin
  <2> QED
    BY <1>1, <1>3, <2>1, <2>2
<1>5. ASSUME NEW r \in Runs, Define(r) PROVE AgentInv'
  <2>1. \A s \in Steps : task[r][s] = "none"
    BY <1>3, <1>5 DEF Define
  <2>2. run[r].inst \in Instance
    BY <1>5, AliveFacts DEF Define
  <2> DEFINE n == Iterate(run[r].inst, FALSE)
  <2>3. n.stage = "loop" /\ n.inst = run[r].inst /\ n.todo = Ready(n.inst)
    BY <2>2, IterateType
  <2>4. run' = [run EXCEPT ![r] = None] \/ run' = [run EXCEPT ![r] = n]
    BY <1>5 DEF Define
  <2> HIDE DEF n
  <2>5. task' = [task EXCEPT ![r] = task[r]]
    BY <1>0, <1>5 DEF Define
  <2>6. \A s \in n.todo : n.inst.steps[s] = "Pending"
    BY <2>3, ReadyFacts
  <2>7. AgentsRun(n, task[r]) /\ AgentsRun(None, task[r])
    BY <2>1, <2>3, <2>6 DEF AgentsRun
  <2> QED
    BY <2>4, <2>5, <2>7, AgentStepOf
<1>6. ASSUME NEW r \in Runs, NEW s \in Steps, Spawn(r, s) PROVE AgentInv'
  <2> DEFINE i == [run[r].inst EXCEPT !.steps[s] = "Running"]
             n == [run[r] EXCEPT !.inst = i, !.todo = @ \ {s}]
             t == [task[r] EXCEPT ![s] = "working"]
  <2>1. run[r] \in Run /\ run[r].inst \in Instance
    BY <1>6, AliveFacts DEF Spawn
  <2>2. \A q \in Steps : i.steps[q] = IF q = s THEN "Running" ELSE run[r].inst.steps[q]
    BY <2>1, WithStepType
  <2>3. run' = [run EXCEPT ![r] = n] /\ s \in run[r].todo /\ run[r].stage = "loop"
    BY <1>6 DEF Spawn
  <2>4. task' = [task EXCEPT ![r] = t]
    BY <1>0, <1>6 DEF Spawn
  <2>5. \A q \in Steps : t[q] = IF q = s THEN "working" ELSE task[r][q]
    BY <1>0
  <2> HIDE DEF i, t
  <2>6. n.stage = run[r].stage /\ n.inst = i /\ n.todo = run[r].todo \ {s}
    BY <2>1 DEF Run
  <2>7. AgentsRun(run[r], task[r]) /\ run[r] # None
    BY <1>6 DEF AgentInv, Spawn
  <2>8. run[r].todo \subseteq Steps
    BY <2>1 DEF Run
  <2> HIDE DEF n
  <2>9. AgentsRun(n, t)
    BY <2>2, <2>3, <2>5, <2>6, <2>7, <2>8 DEF AgentsRun
  <2> QED
    BY <2>3, <2>4, <2>9, AgentStepOf
<1>7. ASSUME NEW r \in Runs, NEW s \in Steps, Record(r, s) PROVE AgentInv'
  <2> DEFINE i == [run[r].inst EXCEPT !.steps[s] = StatusOf(task[r][s])]
             f == run[r].failed \/ task[r][s] = "err"
             n == Iterate(i, f)
             t == [task[r] EXCEPT ![s] = "none"]
  <2>1. run[r].inst \in Instance
    BY <1>7, AliveFacts DEF Record
  <2>2. /\ i \in Instance
        /\ \A q \in Steps : i.steps[q] = IF q = s THEN StatusOf(task[r][s])
                                         ELSE run[r].inst.steps[q]
    <3>1. StatusOf(task[r][s]) \in {"Pending", "Running", "Completed", "Failed"}
      BY DEF StatusOf
    <3> QED
      BY <2>1, <3>1, WithStepType
  <2>3. run' = [run EXCEPT ![r] = n] /\ run[r] # None
    BY <1>7 DEF Record
  <2>4. task' = [task EXCEPT ![r] = t] /\ f \in BOOLEAN
    <3>1. f \in BOOLEAN
      BY <1>7, AliveFacts DEF Record, Run
    <3> QED
      BY <1>0, <1>7, <3>1 DEF Record
  <2>5. \A q \in Steps : t[q] = IF q = s THEN "none" ELSE task[r][q]
    BY <1>0
  <2> HIDE DEF i, t, f
  <2>6. n.stage = "loop" /\ n.inst = i /\ n.todo = IF f THEN {} ELSE Ready(i)
    BY <2>2, <2>4, IterateType
  <2> HIDE DEF n
  <2>7. \A q \in n.todo : n.inst.steps[q] = "Pending"
    BY <2>6, ReadyFacts
  <2>8. AgentsRun(run[r], task[r])
    BY DEF AgentInv
  <2>9. AgentsRun(n, t)
    BY <2>2, <2>3, <2>5, <2>6, <2>7, <2>8 DEF AgentsRun
  <2> QED
    BY <2>3, <2>4, <2>9, AgentStepOf
<1>8. ASSUME NEW r \in Runs, NEW s \in Steps, AgentStep(r, s) PROVE AgentInv'
  <2>1. PICK outcome \in {"ok", "err", "panicked"} : AgentEnds(r, s, outcome)
    BY <1>8 DEF AgentStep
  <2>2. /\ run' = run
        /\ \A q \in Runs, t \in Steps : task'[q][t] # "none" => task[q][t] # "none"
    BY <1>0, <2>1 DEF AgentEnds
  <2> QED
    BY <2>2 DEF AgentInv, AgentsRun
<1>9. ASSUME NEW r \in Runs, run' = [run EXCEPT ![r] = None],
             NEW t, task' = [task EXCEPT ![r] = t]
      PROVE  AgentInv'
  <2>1. AgentsRun(None, t)
    BY DEF AgentsRun
  <2> QED
    BY <1>9, <2>1, AgentStepOf
<1>10. CASE UNCHANGED vars
  BY <1>10 DEF vars, AgentInv, AgentsRun
<1>11. ASSUME NEW r \in Runs, Finish(r) \/ Abort(r) \/ Crash(r) PROVE AgentInv'
  <2>1. run' = [run EXCEPT ![r] = None]
    BY <1>11 DEF Finish, Abort, Crash
  <2>2. \E t : task' = [task EXCEPT ![r] = t]
    BY <1>0, <1>11 DEF Finish, Abort, Crash
  <2> QED
    BY <1>9, <2>1, <2>2
<1> QED
  BY <1>2, <1>4, <1>5, <1>6, <1>7, <1>8, <1>10, <1>11 DEF Next, RunStep

\* Every run goes forward through its stages and its steps, however many overlap,
\* fail and are resumed.
THEOREM RunsAdvance == Spec => RunsGoForward
<1>1. Init => AgentInv
  BY DEF Init, AgentInv, AgentsRun, Alive
<1>2. IInv /\ AgentInv /\ [Next]_vars =>
        [\A r \in Runs :
           Alive(r) /\ run'[r] # run[r] /\ run'[r] # None =>
              \/ \E i \in 1 .. 4 : run[r].stage = Stages[i] /\ run'[r].stage = Stages[i + 1]
              \/ /\ run[r].stage = "loop" /\ run'[r].stage = "loop"
                 /\ \E s \in Steps :
                       /\ <<run[r].inst.steps[s], run'[r].inst.steps[s]>> \in StepMoves
                       /\ \A t \in Steps \ {s} :
                             run'[r].inst.steps[t] = run[r].inst.steps[t]]_vars
  <2> SUFFICES ASSUME IInv, AgentInv, Next, NEW r \in Runs,
                      Alive(r), run'[r] # run[r], run'[r] # None
               PROVE  \/ \E i \in 1 .. 4 : /\ run[r].stage = Stages[i]
                                           /\ run'[r].stage = Stages[i + 1]
                      \/ /\ run[r].stage = "loop" /\ run'[r].stage = "loop"
                         /\ \E s \in Steps :
                               /\ <<run[r].inst.steps[s], run'[r].inst.steps[s]>> \in StepMoves
                               /\ \A t \in Steps \ {s} :
                                     run'[r].inst.steps[t] = run[r].inst.steps[t]
    OBVIOUS
  <2> USE DEF Alive, At, Goto
  <2>1. run \in [Runs -> Run \cup {None}] /\ run[r].inst \in Instance
    BY AliveFacts DEF IInv, TypeOK
  <2>2. ASSUME NEW q \in Runs, NEW n, run' = [run EXCEPT ![q] = n]
        PROVE  q = r /\ run'[r] = n
    BY <2>1, <2>2
  <2>3. ASSUME NEW q \in Runs, \/ Trigger(q) \/ Resume(q) \/ Finish(q) \/ Abort(q) \/ Crash(q)
                               \/ \E s \in Steps : AgentStep(q, s)
        PROVE  FALSE
    <3>1. ~ Trigger(q) /\ ~ Resume(q)
      BY <2>2 DEF Trigger, Resume, Startable
    <3>2. ~ Finish(q) /\ ~ Abort(q) /\ ~ Crash(q)
      BY <2>2 DEF Finish, Abort, Crash
    <3> QED
      BY <2>3, <3>1, <3>2 DEF AgentStep, AgentEnds
  <2>4. ASSUME NEW q \in Runs, Reset(q) \/ Load(q) \/ Begin(q) \/ Define(q)
        PROVE  \E i \in 1 .. 4 : run[r].stage = Stages[i] /\ run'[r].stage = Stages[i + 1]
    <3>1. CASE Reset(q)
      <4>1. run[r].stage = Stages[1] /\ run'[r].stage = Stages[2]
        BY <2>2, <3>1 DEF Reset, In, Stages
      <4> QED
        BY <4>1
    <3>2. CASE Load(q)
      <4>1. run[r].stage = Stages[2] /\ run'[r].stage = Stages[3]
        BY <2>2, <3>2 DEF Load, In, Stages
      <4> QED
        BY <4>1
    <3>3. CASE Begin(q)
      <4>1. run[r].stage = Stages[3] /\ run'[r].stage = Stages[4]
        BY <2>2, <3>3 DEF Begin, In, Stages
      <4> QED
        BY <4>1
    <3>4. CASE Define(q)
      <4>1. run[r].stage = Stages[4] /\ run'[r].stage = Stages[5]
        BY <2>2, <3>4 DEF Define, Iterate, Stages
      <4> QED
        BY <4>1
    <3> QED
      BY <2>4, <3>1, <3>2, <3>3, <3>4
  <2>5. ASSUME NEW q \in Runs, NEW s \in Steps, Spawn(q, s)
        PROVE  /\ run[r].stage = "loop" /\ run'[r].stage = "loop"
               /\ <<run[r].inst.steps[s], run'[r].inst.steps[s]>> \in StepMoves
               /\ \A t \in Steps \ {s} : run'[r].inst.steps[t] = run[r].inst.steps[t]
    <3> DEFINE i == [run[r].inst EXCEPT !.steps[s] = "Running"]
               n == [run[r] EXCEPT !.inst = i, !.todo = @ \ {s}]
    <3>1. q = r /\ run'[r] = n /\ s \in run[r].todo /\ run[r].stage = "loop"
      BY <2>2, <2>5 DEF Spawn
    <3>2. \A t \in Steps : i.steps[t] = IF t = s THEN "Running" ELSE run[r].inst.steps[t]
      BY <2>1, <3>1, WithStepType
    <3> HIDE DEF i
    <3>3. run'[r].stage = "loop" /\ run'[r].inst = i
      BY <2>1, <3>1 DEF Run
    <3>4. run[r].inst.steps[s] = "Pending"
      BY <3>1 DEF AgentInv, AgentsRun
    <3> QED
      BY <3>1, <3>2, <3>3, <3>4 DEF StepMoves
  <2>6. ASSUME NEW q \in Runs, NEW s \in Steps, Record(q, s)
        PROVE  /\ run[r].stage = "loop" /\ run'[r].stage = "loop"
               /\ <<run[r].inst.steps[s], run'[r].inst.steps[s]>> \in StepMoves
               /\ \A t \in Steps \ {s} : run'[r].inst.steps[t] = run[r].inst.steps[t]
    <3> DEFINE st == StatusOf(task[r][s])
               i == [run[r].inst EXCEPT !.steps[s] = st]
    <3>0. st \in {"Completed", "Failed"}
      BY DEF StatusOf
    <3>1. /\ q = r /\ run[r].stage = "loop" /\ task[r][s] # "none"
          /\ run'[r].stage = "loop" /\ run'[r].inst = i
      BY <2>2, <2>6 DEF Record, Iterate
    <3> HIDE DEF st
    <3>2. \A t \in Steps : i.steps[t] = IF t = s THEN st ELSE run[r].inst.steps[t]
      BY <2>1, <3>0, <3>1, WithStepType
    <3>3. run[r].inst.steps[s] = "Running"
      BY <3>1 DEF AgentInv, AgentsRun
    <3> HIDE DEF i
    <3> QED
      BY <3>0, <3>1, <3>2, <3>3 DEF StepMoves
  <2> QED
    BY <2>3, <2>4, <2>5, <2>6 DEF Next, RunStep
<1> QED
  BY <1>1, <1>2, NextAgentInv, Invariance, PTL DEF Spec, RunsGoForward

-----------------------------------------------------------------------------
(* Runs started one after the other.  At any time one run at most is under *)
(* way or has agents left; SoleOK says how it, the file and the agents go  *)
(* together.                                                               *)

Quiet(r) == run[r] = None /\ task[r] = NoTask

LoopOK(n) ==
    IF n.failed THEN \E s \in Steps : n.inst.steps[s] = "Failed"
                ELSE n.todo = Ready(n.inst)

\* The copy of the instance that run n holds, and the file f.
CopyOK(n, f) ==
    /\ n.stage = "reset" => n.inst \in Resumed(f)
    /\ n.stage = "begin" => n.inst = [f EXCEPT !.status = "Running"]
                            /\ f.status # "Completed"
    /\ n.stage \in {"define", "loop"} => n.inst = f /\ f.status = "Running"
    /\ n.stage = "loop" => LoopOK(n)

\* t: the agents of the run.
AgentsOK(n, f, t) ==
    \A s \in Steps : t[s] # "none" =>
        /\ f # None /\ f.status = "Running" /\ f.steps[s] = "Running"
        /\ \A d \in Deps[s] : f.steps[d] = "Completed"
        /\ n # None => n.stage = "loop"

\* A step that the file calls running has an agent, unless the run is lost.
RunningOK(n, f, t) ==
    f # None /\ (n # None \/ f.status # "Running") =>
        \A s \in Steps : f.steps[s] = "Running" =>
            n # None /\ n.stage = "loop" /\ t[s] # "none"

FailedOK(f) ==
    f # None /\ f.status = "Failed" /\ Acyclic =>
        \E s \in Steps : f.steps[s] = "Failed"

SoleOK(n, f, t) ==
    /\ n # None => CopyOK(n, f)
    /\ AgentsOK(n, f, t) /\ RunningOK(n, f, t) /\ FailedOK(f)

Sole(r) ==
    /\ \A q \in Runs \ {r} : Quiet(q)
    /\ SoleOK(run[r], file, task[r])

SerialInv == IF Runs = {} THEN file = None ELSE \E r \in Runs : Sole(r)

LEMMA InitSerialInv == Init => SerialInv
BY DEF Init, SerialInv, Sole, SoleOK, Quiet, CopyOK, AgentsOK, RunningOK, FailedOK,
       NoTask

\* A step of run r.
LEMMA SoleStep ==
    ASSUME IInv, NEW r \in Runs, \A q \in Runs \ {r} : Quiet(q),
           NEW n, run' = [run EXCEPT ![r] = n],
           NEW t, task' = [task EXCEPT ![r] = t],
           SoleOK(n, file', t)
    PROVE  Sole(r)'
<1>1. run'[r] = n /\ task'[r] = t
  BY DEF IInv, TypeOK
<1>2. \A q \in Runs \ {r} : run'[q] = run[q] /\ task'[q] = task[q]
  BY DEF IInv, TypeOK
<1>3. SoleOK(run[r], file, task[r])'
  BY <1>1 DEF SoleOK, CopyOK, LoopOK, AgentsOK, RunningOK, FailedOK
<1>4. \A q \in Runs \ {r} : Quiet(q)'
  BY <1>2 DEF Quiet
<1> QED
  BY <1>3, <1>4 DEF Sole

\* Where a run may start, run r may be the one.
LEMMA SoleStarts ==
    ASSUME Serial, IInv, SerialInv, NEW r \in Runs, Startable(r),
           file = None \/ CanResume(file)
    PROVE  Sole(r) /\ run[r] = None /\ task[r] = NoTask
<1> USE DEF Startable, Alone, Alive
<1>1. PICK q \in Runs : Sole(q)
  BY DEF SerialInv
<1>2. CASE q = r
  BY <1>1, <1>2
<1>3. CASE q # r
  <2>1. run[q] = None
    BY <1>3
  <2>2. task[q] = NoTask
    <3>1. \A s \in Steps : task[q][s] = "none"
      BY <1>1 DEF Sole, SoleOK, AgentsOK, CanResume
    <3>2. task[q] \in [Steps -> Reports]
      BY DEF IInv, TypeOK
    <3> QED
      BY <3>1, <3>2 DEF NoTask
  <2>3. Sole(r)
    BY <1>1, <2>1, <2>2 DEF Sole, Quiet
  <2> QED
    BY <2>3
<1> QED
  BY <1>2, <1>3

LEMMA NextSerialInv ==
    ASSUME Serial
    PROVE  IInv /\ SerialInv /\ [Next]_vars => SerialInv'
<1> SUFFICES ASSUME IInv, SerialInv, [Next]_vars, Runs # {} PROVE \E q \in Runs : Sole(q)'
  BY DEF SerialInv, Next, vars
<1> USE DEF Alive, At, Save, Goto
<1>0. /\ task \in [Runs -> [Steps -> Reports]]
      /\ None \notin Instance /\ None \notin Run /\ file \in Instance \cup {None}
      /\ \A r \in Runs : task[r] \in [Steps -> Reports]
                         /\ task = [task EXCEPT ![r] = task[r]]
  BY NoneAssumption DEF IInv, TypeOK
<1>1. ASSUME NEW r \in Runs, Trigger(r) PROVE Sole(r)'
  <2>1. Sole(r) /\ task[r] = NoTask
    BY <1>1, SoleStarts DEF Trigger
  <2>2. SoleOK(In("load", Created), Created, NoTask)
    BY DEF SoleOK, CopyOK, AgentsOK, RunningOK, FailedOK, In, Created, NoTask
  <2> QED
    BY <1>0, <1>1, <2>1, <2>2, SoleStep DEF Trigger, Sole
<1>2. ASSUME NEW r \in Runs, Resume(r) PROVE Sole(r)'
  <2>1. PICK i \in Resumed(file) : run' = [run EXCEPT ![r] = In("reset", i)]
    BY <1>2 DEF Resume
  <2>2. file \in Instance /\ file # None /\ CanResume(file)
    BY <1>0, <1>2, <2>1, ResumedType DEF Resume
  <2>3. Sole(r) /\ run[r] = None /\ task[r] = NoTask
    BY <1>2, <2>2, SoleStarts DEF Resume
  <2>4. SoleOK(In("reset", i), file, task[r])
    BY <2>1, <2>2, <2>3 DEF Sole, SoleOK, CopyOK, AgentsOK, RunningOK, FailedOK, In,
       CanResume, NoTask
  <2> QED
    BY <1>0, <1>2, <2>1, <2>3, <2>4, SoleStep DEF Resume, Sole
\* The run that steps is the sole one.
<1>3. ASSUME NEW r \in Runs, ~Quiet(r) PROVE Sole(r)
  BY <1>3 DEF SerialInv, Sole
<1>4. ASSUME NEW r \in Runs, Alive(r)
      PROVE  /\ Sole(r) /\ SoleOK(run[r], file, task[r])
             /\ \A q \in Runs \ {r} : Quiet(q)
             /\ run[r] \in Run /\ run[r].inst \in Instance /\ RunOK(run[r])
             /\ file # None /\ file \in Instance /\ CopyOK(run[r], file)
  BY <1>3, <1>4, AliveFacts DEF Quiet, Sole, SoleOK
<1>5. ASSUME NEW r \in Runs, Reset(r) PROVE Sole(r)'
  <2> DEFINE i == run[r].inst
  <2>1. /\ i \in Instance /\ i.status = "Running"
        /\ \A s \in Steps : i.steps[s] = IF file.steps[s] = "Failed" THEN "Pending"
                                         ELSE file.steps[s]
    BY <1>4, <1>5, ResumedType DEF Reset, CopyOK
  <2>2. \A s \in Steps : file.steps[s] # "Running" /\ task[r][s] = "none"
    BY <1>0, <1>4, <1>5 DEF Reset, SoleOK, RunningOK, AgentsOK
  <2> HIDE DEF i
  <2>3. SoleOK(In("load", i), i, task[r])
    BY <2>1, <2>2 DEF SoleOK, CopyOK, AgentsOK, RunningOK, FailedOK, In
  <2>4. run' = [run EXCEPT ![r] = In("load", i)] /\ file' = i /\ task' = task
    BY <1>5 DEF Reset, i
  <2> DEFINE n == In("load", i)
  <2>6. SoleOK(n, file', task[r]) /\ run' = [run EXCEPT ![r] = n]
    BY <2>3, <2>4
  <2> HIDE DEF n
  <2> QED
    BY <1>0, <1>4, <1>5, <2>3, <2>4, <2>6, SoleStep DEF Reset
<1>6. ASSUME NEW r \in Runs, Load(r) PROVE Sole(r)'
  <2> DEFINE i == [file EXCEPT !.status = "Running"]
  <2>1. \/ run' = [run EXCEPT ![r] = None]
        \/ run' = [run EXCEPT ![r] = In("begin", i)] /\ file.status # "Completed"
    BY <1>6 DEF Load
  <2>2. file' = file /\ task' = task
    BY <1>6 DEF Load
  <2>3. \A s \in Steps : file.steps[s] # "Running" /\ task[r][s] = "none"
    BY <1>0, <1>4, <1>6 DEF Load, SoleOK, RunningOK, AgentsOK
  <2>4. SoleOK(None, file, task[r])
    BY <1>4, <1>6, <2>3 DEF Load, SoleOK, RunningOK, AgentsOK
  <2>5. file.status # "Completed" => SoleOK(In("begin", i), file, task[r])
    BY <1>4, <1>6, <2>3 DEF Load, SoleOK, CopyOK, RunningOK, AgentsOK, In
  <2> DEFINE n == In("begin", i)
  <2>6. /\ file.status # "Completed" => SoleOK(n, file', task[r])
        /\ SoleOK(None, file', task[r])
    BY <2>2, <2>4, <2>5
  <2>7. \/ run' = [run EXCEPT ![r] = None]
        \/ run' = [run EXCEPT ![r] = n] /\ file.status # "Completed"
    BY <2>1
  <2> HIDE DEF n
  <2> QED
    BY <1>0, <1>4, <1>6, <2>2, <2>6, <2>7, SoleStep DEF Load
<1>7. ASSUME NEW r \in Runs, Begin(r) PROVE Sole(r)'
  <2> DEFINE i == run[r].inst
  <2>1. i = [file EXCEPT !.status = "Running"]
    BY <1>4, <1>7 DEF Begin, CopyOK
  <2>2. i \in Instance /\ i.status = "Running" /\ i.steps = file.steps
    BY <1>4, <1>7, <2>1 DEF Begin, Instance
  <2>3. \A s \in Steps : file.steps[s] # "Running" /\ task[r][s] = "none"
    BY <1>0, <1>4, <1>7 DEF Begin, SoleOK, RunningOK, AgentsOK
  <2> HIDE DEF i
  <2>4. SoleOK(In("define", i), i, task[r])
    BY <2>2, <2>3 DEF SoleOK, CopyOK, AgentsOK, RunningOK, FailedOK, In
  <2>5. run' = [run EXCEPT ![r] = In("define", i)] /\ file' = i /\ task' = task
    BY <1>7 DEF Begin, i
  <2> DEFINE n == In("define", i)
  <2>6. SoleOK(n, file', task[r]) /\ run' = [run EXCEPT ![r] = n]
    BY <2>4, <2>5
  <2> HIDE DEF n
  <2> QED
    BY <1>0, <1>4, <1>7, <2>4, <2>5, <2>6, SoleStep DEF Begin
<1>8. ASSUME NEW r \in Runs, Define(r) PROVE Sole(r)'
  <2> DEFINE n == Iterate(run[r].inst, FALSE)
  <2>1. run[r].inst = file /\ file.status = "Running"
    BY <1>4, <1>8 DEF Define, CopyOK
  <2>2. \A s \in Steps : file.steps[s] # "Running" /\ task[r][s] = "none"
    BY <1>0, <1>4, <1>8 DEF Define, SoleOK, RunningOK, AgentsOK
  <2>3. n.stage = "loop" /\ n.inst = file /\ n.failed = FALSE /\ n.todo = Ready(file)
    BY <1>4, <1>8, <2>1, IterateType DEF Define
  <2>4. run' = [run EXCEPT ![r] = None] \/ run' = [run EXCEPT ![r] = n]
    BY <1>8 DEF Define
  <2>5. file' = file /\ task' = task
    BY <1>8 DEF Define
  <2> HIDE DEF n
  <2>6. SoleOK(None, file, task[r])
    BY <1>4, <1>8, <2>1, <2>2 DEF Define, SoleOK, RunningOK, AgentsOK
  <2>7. SoleOK(n, file, task[r])
    BY <1>4, <1>8, <2>1, <2>2, <2>3
       DEF Define, SoleOK, CopyOK, LoopOK, RunningOK, AgentsOK
  <2> QED
    BY <1>0, <1>4, <1>8, <2>4, <2>5, <2>6, <2>7, SoleStep DEF Define
<1>9. ASSUME NEW r \in Runs, NEW s \in Steps, Spawn(r, s) PROVE Sole(r)'
  <2> DEFINE i == [run[r].inst EXCEPT !.steps[s] = "Running"]
             n == [run[r] EXCEPT !.inst = i, !.todo = @ \ {s}]
             t == [task[r] EXCEPT ![s] = "working"]
  <2>1. /\ run[r] \in Run /\ run[r].inst = file /\ file \in Instance
        /\ file.status = "Running" /\ LoopOK(run[r]) /\ RunOK(run[r])
        /\ s \in run[r].todo /\ run[r].stage = "loop"
        /\ AgentsOK(run[r], file, task[r]) /\ RunningOK(run[r], file, task[r])
    BY <1>4, <1>9 DEF Spawn, CopyOK, SoleOK
  <2>2. /\ i \in Instance /\ i.status = "Running"
        /\ \A q \in Steps : i.steps[q] = IF q = s THEN "Running" ELSE file.steps[q]
    <3>1. /\ i \in Instance /\ i.status = run[r].inst.status
          /\ \A q \in Steps : i.steps[q] = IF q = s THEN "Running"
                                           ELSE run[r].inst.steps[q]
      BY <1>4, <1>9, WithStepType DEF Spawn
    <3> QED
      BY <2>1, <3>1
  <2>3. file' = i /\ run' = [run EXCEPT ![r] = n] /\ task' = [task EXCEPT ![r] = t]
    BY <1>0, <1>9 DEF Spawn
  <2> HIDE DEF i
  <2>4. /\ n.stage = "loop" /\ n.inst = i /\ n.todo = run[r].todo \ {s}
        /\ n.failed = run[r].failed /\ n.failed \in BOOLEAN
    BY <2>1, <2>2 DEF Run
  <2>5. \A q \in Steps : t[q] = IF q = s THEN "working" ELSE task[r][q]
    BY <1>0
  <2> HIDE DEF n, t
  <2>6. /\ ~run[r].failed /\ run[r].todo = Ready(file)
        /\ file.steps[s] = "Pending" /\ \A d \in Deps[s] : file.steps[d] = "Completed"
    BY <2>1, ReadyFacts DEF LoopOK, RunOK
  <2>7. LoopOK(n)
    <3>1. Ready(i) = Ready(file) \ {s}
      BY <2>2, <2>6, DepsAssumption DEF Ready
    <3> QED
      BY <2>4, <2>6, <3>1 DEF LoopOK
  <2>8. AgentsOK(n, i, t)
    BY <1>0, <2>1, <2>2, <2>4, <2>5, <2>6, DepsAssumption DEF AgentsOK
  <2>9. SoleOK(n, i, t)
    BY <1>0, <2>1, <2>2, <2>4, <2>5, <2>7, <2>8
       DEF SoleOK, CopyOK, RunningOK, FailedOK
  <2> QED
    <3>1. SoleOK(n, file', t)
      BY <2>3, <2>9
    <3> QED
      BY <1>4, <1>9, <2>3, <3>1, SoleStep DEF Spawn
<1>10. ASSUME NEW r \in Runs, NEW s \in Steps, Record(r, s) PROVE Sole(r)'
  <2> DEFINE i == [run[r].inst EXCEPT !.steps[s] = StatusOf(task[r][s])]
             f == run[r].failed \/ task[r][s] = "err"
             n == Iterate(i, f)
             t == [task[r] EXCEPT ![s] = "none"]
  <2>1. /\ run[r] \in Run /\ run[r].inst = file /\ file \in Instance
        /\ file.status = "Running" /\ LoopOK(run[r])
        /\ task[r][s] \in {"ok", "err"} /\ run[r].stage = "loop" /\ f \in BOOLEAN
        /\ AgentsOK(run[r], file, task[r]) /\ RunningOK(run[r], file, task[r])
    BY <1>4, <1>10 DEF Record, CopyOK, SoleOK, Run
  <2>2. /\ i \in Instance /\ i.status = "Running"
        /\ \A q \in Steps : i.steps[q] = IF q = s THEN StatusOf(task[r][s])
                                         ELSE file.steps[q]
    <3>1. StatusOf(task[r][s]) \in {"Pending", "Running", "Completed", "Failed"}
      BY DEF StatusOf
    <3>2. /\ i \in Instance /\ i.status = run[r].inst.status
          /\ \A q \in Steps : i.steps[q] = IF q = s THEN StatusOf(task[r][s])
                                           ELSE run[r].inst.steps[q]
      <4>1. run[r].inst \in Instance
        BY <1>4, <1>10 DEF Record
      <4> DEFINE st == StatusOf(task[r][s])
      <4>2. st \in {"Pending", "Running", "Completed", "Failed"}
        BY <3>1
      <4>3. i = [run[r].inst EXCEPT !.steps[s] = st]
        OBVIOUS
      <4> HIDE DEF st, i
      <4>4. /\ i \in Instance /\ i.status = run[r].inst.status
            /\ \A q \in Steps : i.steps[q] = IF q = s THEN st ELSE run[r].inst.steps[q]
        BY <4>1, <4>2, <4>3 DEF Instance
      <4> QED
        BY <4>4 DEF st
    <3> QED
      BY <2>1, <3>2
  <2>3. file' = i /\ run' = [run EXCEPT ![r] = n] /\ task' = [task EXCEPT ![r] = t]
    BY <1>0, <1>10 DEF Record
  <2> HIDE DEF i
  <2>4. /\ n.stage = "loop" /\ n.inst = i /\ n.failed = f
        /\ n.todo = IF f THEN {} ELSE Ready(i)
    BY <2>1, <2>2, IterateType
  <2>5. \A q \in Steps : t[q] = IF q = s THEN "none" ELSE task[r][q]
    BY <1>0
  <2> HIDE DEF n, t
  <2>6. LoopOK(n)
    <3>1. CASE run[r].failed
      <4>1. PICK q \in Steps : file.steps[q] = "Failed"
        BY <2>1, <3>1 DEF LoopOK
      <4>2. i.steps[q] = "Failed"
        BY <2>1, <2>2, <4>1 DEF AgentsOK
      <4> QED
        BY <2>4, <3>1, <4>2 DEF LoopOK
    <3>2. CASE task[r][s] = "err"
      BY <2>2, <2>4, <3>2 DEF LoopOK, StatusOf
    <3>3. CASE ~f
      BY <2>4, <3>3 DEF LoopOK
    <3> QED
      BY <3>1, <3>2, <3>3
  <2>7. AgentsOK(n, i, t)
    BY <1>0, <2>1, <2>2, <2>4, <2>5, DepsAssumption DEF AgentsOK
  <2>8. SoleOK(n, i, t)
    BY <1>0, <2>1, <2>2, <2>4, <2>5, <2>6, <2>7
       DEF SoleOK, CopyOK, RunningOK, FailedOK, StatusOf
  <2> QED
    <3>1. SoleOK(n, file', t)
      BY <2>3, <2>8
    <3> QED
      BY <1>4, <1>10, <2>3, <3>1, SoleStep DEF Record
<1>11. ASSUME NEW r \in Runs, Finish(r) PROVE Sole(r)'
  <2> DEFINE i == [run[r].inst EXCEPT !.status = FinalStatus(run[r].inst)]
  <2>1. /\ run[r].inst = file /\ file \in Instance /\ task[r] = NoTask
        /\ LoopOK(run[r]) /\ run[r].todo = {} /\ RunningOK(run[r], file, task[r])
    BY <1>4, <1>11 DEF Finish, CopyOK, SoleOK, Drained
  <2>2. i \in Instance /\ i.steps = file.steps /\ i.status = FinalStatus(file)
    <3>1. FinalStatus(file) \in {"Pending", "Running", "Completed", "Failed", "Paused"}
      BY DEF FinalStatus
    <3>2. FinalStatus(run[r].inst) = FinalStatus(file)
      BY <2>1
    <3>3. /\ i \in Instance /\ i.steps = run[r].inst.steps
          /\ i.status = FinalStatus(run[r].inst)
      <4>1. run[r].inst \in Instance
        BY <1>4, <1>11 DEF Finish
      <4>2. FinalStatus(run[r].inst)
              \in {"Pending", "Running", "Completed", "Failed", "Paused"}
        BY DEF FinalStatus
      <4> QED
        BY <4>1, <4>2, WithStatusType
    <3> QED
      BY <2>1, <3>2, <3>3
  <2>3. file' = i /\ run' = [run EXCEPT ![r] = None] /\ task' = task
    BY <1>11 DEF Finish
  <2> HIDE DEF i
  <2>4. \A s \in Steps : file.steps[s] # "Running"
    BY <1>4, <1>11, <2>1 DEF Finish, RunningOK, NoTask
  <2>5. FailedOK(i)
    <3> SUFFICES ASSUME FinalStatus(file) = "Failed", Acyclic
                 PROVE  \E s \in Steps : file.steps[s] = "Failed"
      BY <2>2 DEF FailedOK
    <3> DEFINE Left == {s \in Steps : file.steps[s] # "Completed"}
    <3>1. PICK s \in Left : Deps[s] \cap Left = {}
      BY DEF FinalStatus, Acyclic
    <3>2. \A d \in Deps[s] : file.steps[d] = "Completed"
      BY <3>1, DepsAssumption
    <3>3. CASE run[r].failed
      BY <2>1, <3>3 DEF LoopOK
    <3>4. CASE ~run[r].failed
      <4>1. s \notin Ready(file)
        BY <2>1, <3>4 DEF LoopOK
      <4>2. file.steps[s] # "Pending"
        BY <3>1, <3>2, <4>1 DEF Ready
      <4> QED
        BY <2>1, <2>4, <3>1, <4>2 DEF Instance
    <3> QED
      BY <3>3, <3>4
  <2>6. SoleOK(None, i, task[r])
    BY <2>1, <2>2, <2>4, <2>5 DEF SoleOK, AgentsOK, RunningOK, NoTask
  <2> QED
    <3>1. SoleOK(None, file', task[r])
      BY <2>3, <2>6
    <3> QED
      BY <1>0, <1>4, <1>11, <2>3, <3>1, SoleStep DEF Finish
<1>12. ASSUME NEW r \in Runs, NEW s \in Steps, AgentStep(r, s) PROVE Sole(r)'
  <2>1. PICK outcome \in {"ok", "err", "panicked"} : AgentEnds(r, s, outcome)
    BY <1>12 DEF AgentStep
  <2>2. Sole(r)
    BY <1>0, <1>3, <2>1 DEF AgentEnds, Quiet, NoTask
  <2> DEFINE t == [task[r] EXCEPT ![s] = IF Alive(r) THEN outcome ELSE "none"]
  <2>3. /\ task' = [task EXCEPT ![r] = t] /\ UNCHANGED <<file, run>>
        /\ task[r][s] = "working"
    BY <1>0, <2>1 DEF AgentEnds
  <2>4. /\ \A q \in Steps : t[q] # "none" => task[r][q] # "none"
        /\ run[r] # None => \A q \in Steps : task[r][q] # "none" => t[q] # "none"
    BY <1>0, <2>3
  <2> HIDE DEF t
  <2>5. SoleOK(run[r], file, t)
    BY <2>2, <2>4 DEF Sole, SoleOK, AgentsOK, RunningOK
  <2>6. run' = [run EXCEPT ![r] = run[r]]
    BY <2>3 DEF IInv, TypeOK
  <2> QED
    BY <2>2, <2>3, <2>5, <2>6, SoleStep DEF Sole
<1>13. ASSUME NEW r \in Runs, Abort(r) PROVE Sole(r)'
  <2> DEFINE t == [s \in Steps |-> IF task[r][s] = "working" THEN "working" ELSE "none"]
  <2>1. task' = [task EXCEPT ![r] = t] /\ run' = [run EXCEPT ![r] = None] /\ file' = file
    BY <1>13 DEF Abort
  <2>2. \A s \in Steps : t[s] # "none" => task[r][s] # "none"
    OBVIOUS
  <2> HIDE DEF t
  <2>3. SoleOK(None, file, t)
    BY <1>4, <1>13, <2>2 DEF Abort, SoleOK, AgentsOK, RunningOK
  <2> QED
    <3>1. SoleOK(None, file', t)
      BY <2>1, <2>3
    <3> QED
      BY <1>4, <1>13, <2>1, <3>1, SoleStep DEF Abort
<1>14. ASSUME NEW r \in Runs, Sole(r), Crash(r) PROVE Sole(r)'
  <2>1. SoleOK(None, file, NoTask)
    BY <1>14 DEF Sole, SoleOK, AgentsOK, RunningOK, NoTask
  <2> QED
    BY <1>14, <2>1, SoleStep DEF Crash, Sole
<1>15. ASSUME NEW r \in Runs, Sole(r), UNCHANGED <<file, run, task>> PROVE Sole(r)'
  BY <1>15 DEF Sole, SoleOK, Quiet, CopyOK, LoopOK, AgentsOK, RunningOK, FailedOK
<1>16. ASSUME NEW r \in Runs, Crash(r) PROVE \E q \in Runs : Sole(q)'
  <2>1. CASE Sole(r)
    BY <1>14, <1>16, <2>1
  <2>2. CASE ~Sole(r)
    <3>1. PICK q \in Runs : Sole(q)
      BY DEF SerialInv
    <3>2. UNCHANGED <<file, run, task>>
      <4>1. run[r] = None /\ task[r] = NoTask
        BY <2>2, <3>1 DEF Sole, Quiet
      <4> QED
        BY <1>16, <4>1 DEF Crash, IInv, TypeOK
    <3> QED
      BY <1>15, <3>1, <3>2
  <2> QED
    BY <2>1, <2>2
<1>17. ASSUME UNCHANGED vars PROVE \E q \in Runs : Sole(q)'
  BY <1>15, <1>17 DEF vars, SerialInv
<1> QED
  BY <1>1, <1>2, <1>5, <1>6, <1>7, <1>8, <1>9, <1>10, <1>11, <1>12, <1>13, <1>16, <1>17
     DEF Next, RunStep

\* Runs started one after the other leave SerialInv invariant.
THEOREM SerialInvariance ==
    ASSUME Serial
    PROVE  Spec => [](IInv /\ SerialInv)
<1>1. IInv /\ SerialInv /\ [Next]_vars => SerialInv'
  BY NextSerialInv
<1> QED
  BY <1>1, InitSerialInv, InitIInv, NextIInv, PTL DEF Spec

\* No two agents work on the same step.
THEOREM StepsAreExclusive ==
    ASSUME Serial
    PROVE  Spec => []StepExclusive
<1>1. SerialInv => StepExclusive
  BY DEF SerialInv, StepExclusive, Sole, Quiet, NoTask
<1> QED
  BY <1>1, SerialInvariance, PTL

\* A failed instance can be resumed to some effect.
THEOREM FailuresAreRetried ==
    ASSUME Serial
    PROVE  Spec => []FailedIsRetried
<1>1. SerialInv => FailedIsRetried
  BY DEF SerialInv, FailedIsRetried, Sole, SoleOK, RunningOK, FailedOK, Alive, Quiet
<1> QED
  BY <1>1, SerialInvariance, PTL

-----------------------------------------------------------------------------
(* DagRun. *)

\* What a step of the engine does to the file.
LEMMA FileStep ==
    ASSUME IInv, SerialInv, [Next]_vars
    PROVE  \/ file' = file
           \/ file = None /\ file' = Created
           \/ /\ file # None /\ file' # None
              /\ file.status # "Completed" /\ file'.status # "Completed"
              /\ \A s \in Steps : file'.steps[s] = "Completed" <=> file.steps[s] = "Completed"
           \/ /\ file # None /\ file' # None
              /\ file.status # "Completed" /\ file'.status # "Completed"
              /\ \E s \in Steps :
                    /\ file.steps[s] # "Completed"
                    /\ \A d \in Deps[s] : file.steps[d] = "Completed"
                    /\ \A q \in Steps : file'.steps[q] = "Completed" <=>
                                          q = s \/ file.steps[q] = "Completed"
           \/ /\ file # None /\ file' # None
              /\ file.status # "Completed" /\ file'.steps = file.steps
              /\ file'.status = "Completed" => AllCompleted(file)
<1> USE DEF Alive, At, Save
<1>1. ASSUME NEW r \in Runs, Alive(r)
      PROVE  /\ SoleOK(run[r], file, task[r])
             /\ run[r] \in Run /\ run[r].inst \in Instance /\ RunOK(run[r])
             /\ file # None /\ file \in Instance /\ CopyOK(run[r], file)
  BY <1>1, AliveFacts DEF SerialInv, Sole, SoleOK, Quiet
<1>2. ASSUME NEW r \in Runs, Reset(r)
      PROVE  /\ file # None /\ file' # None
             /\ file.status # "Completed" /\ file'.status # "Completed"
             /\ \A s \in Steps : file'.steps[s] = "Completed" <=> file.steps[s] = "Completed"
  BY <1>1, <1>2, ResumedType, NoneAssumption DEF Reset, CopyOK, CanResume
<1>3. ASSUME NEW r \in Runs, Begin(r)
      PROVE  /\ file # None /\ file' # None
             /\ file.status # "Completed" /\ file'.status # "Completed"
             /\ \A s \in Steps : file'.steps[s] = "Completed" <=> file.steps[s] = "Completed"
  <2>1. /\ file' = [file EXCEPT !.status = "Running"] /\ file \in Instance
        /\ file.status # "Completed" /\ file # None
    BY <1>1, <1>3 DEF Begin, CopyOK
  <2>2. file' \in Instance /\ file'.status = "Running" /\ file'.steps = file.steps
    BY <2>1 DEF Instance
  <2> QED
    BY <2>1, <2>2, NoneAssumption
<1>4. ASSUME NEW r \in Runs, NEW s \in Steps, Spawn(r, s)
      PROVE  /\ file # None /\ file' # None
             /\ file.status # "Completed" /\ file'.status # "Completed"
             /\ \A q \in Steps : file'.steps[q] = "Completed" <=> file.steps[q] = "Completed"
  <2>1. /\ file' = [run[r].inst EXCEPT !.steps[s] = "Running"]
        /\ run[r].inst \in Instance /\ run[r].inst = file /\ file.status = "Running"
        /\ file # None /\ s \in run[r].todo /\ RunOK(run[r]) /\ LoopOK(run[r])
    BY <1>1, <1>4 DEF Spawn, CopyOK
  <2>2. /\ file' \in Instance /\ file'.status = run[r].inst.status
        /\ \A q \in Steps : file'.steps[q] = IF q = s THEN "Running"
                                             ELSE run[r].inst.steps[q]
    BY <2>1, WithStepType
  <2>3. file.steps[s] = "Pending"
    BY <2>1, ReadyFacts DEF LoopOK, RunOK
  <2> QED
    BY <2>1, <2>2, <2>3, NoneAssumption
<1>5. ASSUME NEW r \in Runs, NEW s \in Steps, Record(r, s)
      PROVE  /\ file # None /\ file' # None
             /\ file.status # "Completed" /\ file'.status # "Completed"
             /\ file.steps[s] # "Completed"
             /\ \A d \in Deps[s] : file.steps[d] = "Completed"
             /\ \A q \in Steps : file'.steps[q] = "Completed" <=>
                  (q = s /\ StatusOf(task[r][s]) = "Completed")
                  \/ file.steps[q] = "Completed"
  <2>1. /\ file' = [run[r].inst EXCEPT !.steps[s] = StatusOf(task[r][s])]
        /\ run[r].inst \in Instance /\ run[r].inst = file /\ file.status = "Running"
        /\ file # None /\ task[r][s] # "none" /\ AgentsOK(run[r], file, task[r])
    BY <1>1, <1>5 DEF Record, CopyOK, SoleOK
  <2>2. StatusOf(task[r][s]) \in {"Pending", "Running", "Completed", "Failed"}
    BY DEF StatusOf
  <2>3. /\ file' \in Instance /\ file'.status = run[r].inst.status
        /\ \A q \in Steps : file'.steps[q] = IF q = s THEN StatusOf(task[r][s])
                                             ELSE run[r].inst.steps[q]
    <3> DEFINE st == StatusOf(task[r][s])
    <3>1. st \in {"Pending", "Running", "Completed", "Failed"}
      BY <2>2
    <3>2. file' = [run[r].inst EXCEPT !.steps[s] = st]
      BY <2>1
    <3> HIDE DEF st
    <3>3. /\ file' \in Instance /\ file'.status = run[r].inst.status
          /\ \A q \in Steps : file'.steps[q] = IF q = s THEN st
                                               ELSE run[r].inst.steps[q]
      BY <2>1, <3>1, <3>2 DEF Instance
    <3> QED
      BY <3>3 DEF st
  <2>4. file.steps[s] = "Running" /\ \A d \in Deps[s] : file.steps[d] = "Completed"
    BY <2>1 DEF AgentsOK
  <2> QED
    BY <2>1, <2>3, <2>4, NoneAssumption
<1>6. ASSUME NEW r \in Runs, Finish(r)
      PROVE  /\ file # None /\ file' # None
             /\ file.status # "Completed" /\ file'.steps = file.steps
             /\ file'.status = "Completed" => AllCompleted(file)
  <2>1. /\ file' = [run[r].inst EXCEPT !.status = FinalStatus(run[r].inst)]
        /\ run[r].inst \in Instance /\ run[r].inst = file /\ file.status = "Running"
        /\ file # None
    BY <1>1, <1>6 DEF Finish, CopyOK
  <2>2. FinalStatus(run[r].inst)
          \in {"Pending", "Running", "Completed", "Failed", "Paused"}
    BY DEF FinalStatus
  <2>3. /\ file' \in Instance /\ file'.steps = run[r].inst.steps
        /\ file'.status = FinalStatus(run[r].inst)
    BY <2>1, <2>2, WithStatusType
  <2> QED
    BY <2>1, <2>3, NoneAssumption DEF FinalStatus, AllCompleted
<1>7. ASSUME NEW r \in Runs, Trigger(r) PROVE file = None /\ file' = Created
  BY <1>7 DEF Trigger
<1>8. ASSUME NEW r \in Runs,
             \/ Resume(r) \/ Load(r) \/ Define(r) \/ Abort(r) \/ Crash(r)
             \/ \E s \in Steps : AgentStep(r, s)
      PROVE  file' = file
  BY <1>8 DEF Resume, Load, Define, Abort, Crash, AgentStep, AgentEnds
<1>9. CASE UNCHANGED vars
  BY <1>9 DEF vars
<1>10. ASSUME NEW r \in Runs, NEW s \in Steps, Record(r, s)
       PROVE  \/ \A q \in Steps : file'.steps[q] = "Completed" <=>
                                    file.steps[q] = "Completed"
              \/ \A q \in Steps : file'.steps[q] = "Completed" <=>
                                    q = s \/ file.steps[q] = "Completed"
  BY <1>5, <1>10
<1> QED
  BY <1>2, <1>3, <1>4, <1>5, <1>6, <1>7, <1>8, <1>9, <1>10 DEF Next, RunStep

\* A torn file has no run: the run that tore it has ended, and none can be started.
TornInv == torn => file # None /\ \A r \in Runs : ~Alive(r)

LEMMA NextTornInv ==
    ASSUME Serial
    PROVE  IInv /\ SerialInv /\ TornInv /\ [Next]_vars => TornInv'
<1> SUFFICES ASSUME IInv, SerialInv, TornInv, [Next]_vars, torn'
             PROVE  file' # None /\ \A q \in Runs : run'[q] = None
  BY DEF TornInv, Alive
<1> USE DEF Alive, At, Goto
<1>1. ASSUME NEW r \in Runs, run[r] # None
      PROVE  ~torn /\ Alone(r) /\ file # None
  BY <1>1, AliveFacts DEF TornInv, Alone, SerialInv, Sole, Quiet
<1>2. ASSUME NEW r \in Runs, Trigger(r) PROVE FALSE
  BY <1>2 DEF Trigger, Startable, Save
<1>3. ASSUME NEW r \in Runs, Resume(r) PROVE FALSE
  BY <1>3 DEF Resume
<1>4. ASSUME NEW r \in Runs, RunStep(r) PROVE FALSE
  BY <1>1, <1>4 DEF RunStep, Reset, Load, Begin, Define, Finish, Spawn, Record, Save
<1>5. ASSUME NEW r \in Runs, Abort(r) \/ Crash(r)
      PROVE  file' # None /\ \A q \in Runs : run'[q] = None
  <2>1. run' = [run EXCEPT ![r] = None] /\ file' = file
    BY <1>5 DEF Abort, Crash
  <2>2. CASE torn
    BY <2>1, <2>2 DEF TornInv, IInv, TypeOK
  <2>3. CASE ~torn
    <3>1. run[r] # None
      BY <1>5, <2>3 DEF Abort, Crash
    <3>2. \A q \in Runs \ {r} : run[q] = None
      BY <1>1, <3>1 DEF Alone
    <3> QED
      BY <1>1, <2>1, <3>1, <3>2 DEF IInv, TypeOK
  <2> QED
    BY <2>2, <2>3
<1>6. ASSUME NEW r \in Runs, NEW s \in Steps, AgentStep(r, s)
      PROVE  torn /\ file' = file /\ run' = run
  BY <1>6 DEF AgentStep, AgentEnds
<1>7. CASE UNCHANGED vars
  BY <1>7 DEF vars, TornInv
<1> QED
  BY <1>2, <1>3, <1>4, <1>5, <1>6, <1>7 DEF Next, TornInv

\* When a step of a run tears the file the instance is not closed; no other step
\* mends or tears it.
LEMMA TearingStep ==
    ASSUME Serial, IInv, SerialInv, TornInv, [Next]_vars, torn' # torn
    PROVE  ~torn /\ torn' /\ file # None /\ file' = file /\ file.status # "Completed"
<1> USE DEF Alive, At, Goto
<1>0. torn \in BOOLEAN
  BY DEF IInv, TypeOK
<1>1. ASSUME NEW r \in Runs, run[r] # None
      PROVE  ~torn /\ Alone(r) /\ file # None /\ CopyOK(run[r], file)
  BY <1>1, AliveFacts DEF TornInv, Alone, SerialInv, Sole, SoleOK, Quiet
<1>2. ASSUME NEW r \in Runs, Trigger(r) PROVE FALSE
  BY <1>0, <1>2 DEF Trigger, Startable, Save, TornInv
<1>3. ASSUME NEW r \in Runs, RunStep(r) PROVE FALSE
  BY <1>0, <1>1, <1>3 DEF RunStep, Reset, Load, Begin, Define, Finish, Spawn, Record, Save
<1>4. ASSUME NEW r \in Runs, Abort(r) \/ Crash(r)
      PROVE  ~torn /\ torn' /\ file # None /\ file' = file /\ file.status # "Completed"
  <2>1. run[r] # None /\ Saves(r) /\ file' = file /\ (torn' = torn \/ torn' = TRUE)
    BY <1>4 DEF Abort, Crash
  <2>2. ~torn /\ file # None /\ CopyOK(run[r], file)
    BY <1>1, <2>1
  <2>3. file.status # "Completed"
    BY <2>1, <2>2 DEF Saves, CopyOK, Resumed, CanResume
  <2> QED
    BY <2>1, <2>2, <2>3
<1>5. ASSUME NEW r \in Runs, \/ Resume(r) \/ \E s \in Steps : AgentStep(r, s) PROVE FALSE
  BY <1>5 DEF Resume, AgentStep, AgentEnds
<1> QED
  BY <1>2, <1>3, <1>4, <1>5 DEF Next, vars

\* The file of an instance implements DagRun: steps are completed after those they
\* depend on, and are lost only all together, by a save that breaks off before the
\* instance is closed.
THEOREM Refinement ==
    ASSUME Serial
    PROVE  Spec => ImplementsDagRun
<1>1. Init => DR!Init /\ TornInv
  BY DEF Init, DR!Init, TornInv, Readable
<1>2. IInv /\ SerialInv /\ TornInv /\ [Next]_vars => [DR!Next]_(DR!vars)
  <2> SUFFICES ASSUME IInv, SerialInv, TornInv, [Next]_vars
               PROVE  DR!Next \/ UNCHANGED DR!vars
    OBVIOUS
  <2>1. CASE torn' # torn
    BY <2>1, TearingStep DEF DR!Next, DR!Lose, Readable
  <2>2. CASE file' = file /\ torn' = torn
    BY <2>2 DEF DR!vars, Readable
  <2>3. CASE torn = TRUE /\ torn' = TRUE
    BY <2>3 DEF DR!vars, Readable
  <2>4. CASE torn = FALSE /\ torn' = FALSE
    <3>1. CASE file' = file
      BY <2>2, <2>4, <3>1
    <3>2. CASE file = None /\ file' = Created
      BY <2>4, <3>2, CreatedType, NoneAssumption DEF DR!vars, Created, Readable
    <3>3. CASE /\ file # None /\ file' # None
               /\ file.status # "Completed" /\ file'.status # "Completed"
               /\ \A s \in Steps : file'.steps[s] = "Completed" <=> file.steps[s] = "Completed"
      BY <2>4, <3>3 DEF DR!vars, Readable
    <3>4. ASSUME NEW s \in Steps, file # None, file' # None,
                 file.status # "Completed", file'.status # "Completed",
                 file.steps[s] # "Completed",
                 \A d \in Deps[s] : file.steps[d] = "Completed",
                 \A q \in Steps : file'.steps[q] = "Completed" <=>
                                    q = s \/ file.steps[q] = "Completed"
          PROVE  DR!Complete(s)
      BY <2>4, <3>4, DepsAssumption DEF DR!Complete, Readable
    <3>5. CASE /\ file # None /\ file' # None
               /\ file.status # "Completed" /\ file'.steps = file.steps
               /\ file'.status = "Completed" => AllCompleted(file)
      BY <2>4, <3>5 DEF DR!Next, DR!Close, DR!vars, AllCompleted, Readable
    <3> QED
      BY <3>1, <3>2, <3>3, <3>4, <3>5, FileStep DEF DR!Next
  <2>5. torn \in BOOLEAN
    BY DEF IInv, TypeOK
  <2> QED
    BY <2>1, <2>3, <2>4, <2>5
<1> QED
  BY <1>1, <1>2, NextTornInv, SerialInvariance, PTL DEF Spec, ImplementsDagRun, DR!Spec

\* A step that the file calls completed is not executed again.
THEOREM NoStepRedone ==
    ASSUME Serial
    PROVE  Spec => NothingRedone
<1>1. IInv /\ SerialInv /\ [Next]_vars =>
        \A r \in Runs, s \in Steps :
          file # None /\ file.steps[s] = "Completed" /\ task[r][s] = "none" =>
             task'[r][s] = "none"
  <2> SUFFICES ASSUME IInv, SerialInv, [Next]_vars, NEW r \in Runs, NEW s \in Steps,
                      file.steps[s] = "Completed", task[r][s] = "none"
               PROVE  task'[r][s] = "none"
    OBVIOUS
  <2>1. task \in [Runs -> [Steps -> Reports]]
    BY DEF IInv, TypeOK
  <2>2. ASSUME NEW q \in Runs, NEW t \in Steps, Spawn(q, t) PROVE task'[r][s] = "none"
    <3>1. /\ run[q].inst = file /\ t \in run[q].todo /\ RunOK(run[q]) /\ LoopOK(run[q])
      BY <2>2, AliveFacts
         DEF Spawn, At, Alive, SerialInv, Sole, Quiet, SoleOK, CopyOK
    <3>2. t # s
      BY <3>1, ReadyFacts DEF LoopOK, RunOK
    <3> QED
      BY <2>1, <2>2, <3>2 DEF Spawn
  <2>3. ASSUME NEW q \in Runs, NEW t \in Steps, Record(q, t) \/ AgentStep(q, t)
        PROVE  task'[r][s] = "none"
    BY <2>1, <2>3 DEF Record, AgentStep, AgentEnds
  <2>4. ASSUME NEW q \in Runs, Abort(q) \/ Crash(q) PROVE task'[r][s] = "none"
    BY <2>1, <2>4, TasksCut DEF Abort, Crash, NoTask
  <2>5. CASE UNCHANGED task
    BY <2>5
  <2> QED
    BY <2>2, <2>3, <2>4, <2>5
       DEF Next, RunStep, vars, Trigger, Resume, Reset, Load, Begin, Define, Finish
<1> QED
  BY <1>1, SerialInvariance, PTL DEF Spec, NothingRedone

\* When runs are started one after the other, resume_sop rewrites only an instance that
\* is as it promises, pending, failed or paused, also after aborts and crashes: what
\* breaks the promise is another run between its check and its save.
THEOREM ResumesAreChecked ==
    ASSUME Serial
    PROVE  Spec => []ResumeIsChecked
<1>1. IInv /\ SerialInv => ResumeIsChecked
  <2> SUFFICES ASSUME IInv, SerialInv, NEW r \in Runs, At(r, "reset") PROVE CanResume(file)
    BY DEF ResumeIsChecked
  <2>1. Sole(r) /\ run[r] # None /\ run[r].stage = "reset"
    BY DEF At, Alive, SerialInv, Sole, Quiet
  <2>2. run[r].inst \in Resumed(file)
    BY <2>1 DEF Sole, SoleOK, CopyOK
  <2> QED
    BY <2>2 DEF Resumed
<1> QED
  BY <1>1, SerialInvariance, PTL
=============================================================================
