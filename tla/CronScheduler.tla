---------------------------- MODULE CronScheduler ----------------------------
(***************************************************************************)
(* The cron scheduler (src/src/cron/scheduler.rs) and the tools that edit  *)
(* its jobs (src/src/tools/cron.rs).                                       *)
(*                                                                         *)
(* Any number of OpenZ processes tick over one job file.  Each access to   *)
(* the file is one step here: CronStore says when that is so.  A run is    *)
(* the task that executes a job's prompt; it is known to the file only     *)
(* through the job's status and start time, the lease.  Times are ages and *)
(* countdowns in a unit in which the lease of an hour is Lease.            *)
(***************************************************************************)
EXTENDS Naturals

CONSTANTS
    Jobs,       \* job ids
    Procs,      \* processes with a scheduler
    Slots,      \* bound: at most so many runs of a job are followed
    Lease,      \* CRON_RUNNING_LEASE_SECS
    Delays,     \* time from a computation of next_run to that time
    MaxCount,   \* run_count and failure_count saturate, in the code at 2^64-1
    None

ASSUME SlotsAssumption == Slots # {}
ASSUME LeaseAssumption == Lease \in Nat
ASSUME DelaysAssumption == Delays \subseteq Nat
ASSUME CountAssumption == MaxCount \in Nat

VARIABLES
    job,        \* cron_jobs.json
    run         \* the tasks that execute jobs, in Slots for each job

vars == <<job, run>>

Min2(a, b) == IF a < b THEN a ELSE b
\* Mutant: the counters wrap around into the next width.
SuccUnbounded(n) == n + 1

\* saturating_add(1)
Succ(n) == Min2(n + 1, MaxCount)

\* age: since last_started_at, None if that is unset; due: until next_run.
\* History: current, the slot of the last run started; starts, how many were;
\* fired, how many of them by ticks while one-time and enabled; calm,
\* no edit and no finish of an outdated run has touched the job.
Job == [enabled : BOOLEAN, once : BOOLEAN,
        due : Nat \cup {None}, age : (0..Lease + 1) \cup {None},
        status : {"idle", "running", "failed", "disabled"},
        runs : 0..MaxCount, fails : 0..MaxCount,
        current : Slots \cup {None}, starts : 0..MaxCount, fired : 0..2, calm : BOOLEAN]

\* stage: in the agent, or about to update the job with the outcome.
\* History: clean, nothing but ticks and the run itself has touched the job.
Run == [proc : Procs, age : 0..Lease + 1,
        stage : {"agent", "success", "failure"}, clean : BOOLEAN]

\* None is no time, no slot, no job and no run.
ASSUME NoneAssumption ==
    None \notin Nat /\ None \notin Slots /\ None \notin Job /\ None \notin Run

TypeOK ==
    /\ job \in [Jobs -> Job \cup {None}]
    /\ run \in [Jobs -> [Slots -> Run \cup {None}]]

Init ==
    /\ job = [j \in Jobs |-> None]
    /\ run = [j \in Jobs |-> [s \in Slots |-> None]]

Exists(j) == job[j] # None
Active(j, s) == run[j][s] # None

\* The runs of j after a step that takes the lease from all but the one in s.
Disturb(j, keep) ==
    [s \in Slots |-> IF s = keep \/ ~Active(j, s) THEN run[j][s]
                     ELSE [run[j][s] EXCEPT !.clean = FALSE]]

-----------------------------------------------------------------------------
(* Starting a run. *)

Stale(rec) == rec.age = None \/ rec.age > Lease

\* Mutant: the lease ends one unit of time too early.
HoldsLeaseShort(rec) == rec.status = "running" /\ ~(rec.age = None \/ rec.age > 0)

\* Mutant: a running job is left alone for good.
HoldsLeaseForever(rec) == rec.status = "running"

HoldsLease(rec) == rec.status = "running" /\ ~Stale(rec)

\* Mutant: the expired run is not counted.
SweepUncounted(rec) ==
    IF rec.status = "running" /\ Stale(rec) THEN [rec EXCEPT !.status = "failed"] ELSE rec

\* mark_stale_running_failure, for a job whose lease has expired.
Sweep(rec) ==
    IF rec.status = "running" /\ Stale(rec)
    THEN [rec EXCEPT !.status = "failed", !.runs = Succ(@), !.fails = Succ(@)]
    ELSE rec

\* Mutant: the start time is that of the previous run.
MarkRunningOld(rec, s) ==
    [rec EXCEPT !.status = "running", !.current = s, !.starts = Succ(@)]

\* mark_job_running.
MarkRunning(rec, s) ==
    [rec EXCEPT !.status = "running", !.age = 0, !.current = s, !.starts = Succ(@)]

NewRun(p) == [proc |-> p, age |-> 0, stage |-> "agent", clean |-> TRUE]

\* A new run takes a free slot; if all are taken an old run is forgotten.
Free(j, s) == Active(j, s) => \A t \in Slots : Active(j, t)

-----------------------------------------------------------------------------
(* tick_scheduler, one pass over the job file. *)

\* Mutant: next_run is recomputed by every tick.
WithNextAlways(rec, d) == [rec EXCEPT !.due = d]

\* next_run, computed now if it is missing.
WithNext(rec, d) == IF rec.due = None THEN [rec EXCEPT !.due = d] ELSE rec

\* Mutant: a one-time job stays enabled.
RescheduleAlways(rec, d) == [rec EXCEPT !.due = d]

Reschedule(rec, d) ==
    IF rec.once THEN [rec EXCEPT !.enabled = FALSE, !.due = None]
                ELSE [rec EXCEPT !.due = d]

TickStarts(rec, d) ==
    /\ ~HoldsLease(rec)
    /\ rec.enabled
    /\ WithNext(rec, d).due = 0

TickJob(rec, d, s) ==
    IF HoldsLease(rec) THEN rec
    ELSE IF ~rec.enabled THEN Sweep(rec)
    ELSE IF TickStarts(rec, d)
         THEN [MarkRunning(Reschedule(WithNext(Sweep(rec), d), d), s)
                 EXCEPT !.fired = IF rec.once THEN Min2(@ + 1, 2) ELSE @]
    ELSE WithNext(Sweep(rec), d)

Tick(p) ==
    \E d \in [Jobs -> Delays], s \in [Jobs -> Slots] :
        /\ \A j \in Jobs : Free(j, s[j])
        /\ job' = [j \in Jobs |-> IF Exists(j) THEN TickJob(job[j], d[j], s[j]) ELSE None]
        /\ run' = [j \in Jobs |->
                     IF Exists(j) /\ TickStarts(job[j], d[j])
                     THEN [run[j] EXCEPT ![s[j]] = NewRun(p)] ELSE run[j]]

(* run_single_job_now up to run_job; it is refused while the lease holds.  *)
RunNow(p, j, s) ==
    /\ Exists(j)
    /\ ~HoldsLease(job[j])
    /\ Free(j, s)
    /\ job' = [job EXCEPT ![j] = MarkRunning(Sweep(job[j]), s)]
    /\ run' = [run EXCEPT ![j][s] = NewRun(p)]

-----------------------------------------------------------------------------
(* The end of a run: run_job and append_cron_run_record decide the         *)
(* outcome, and a later access to the job file enters it, if the job is    *)
(* still there.                                                            *)

RunEnds(j, s, outcome) ==
    /\ Active(j, s) /\ run[j][s].stage = "agent"
    /\ run' = [run EXCEPT ![j][s].stage = outcome]
    /\ UNCHANGED job

\* update_job_success, update_job_failure.
Finished(rec, outcome) ==
    IF outcome = "failure"
    THEN [rec EXCEPT !.status = "failed", !.runs = Succ(@), !.fails = Succ(@)]
    ELSE [rec EXCEPT !.status = IF rec.enabled THEN "idle" ELSE "disabled",
                     !.runs = Succ(@)]

Update(j, s) ==
    /\ Active(j, s) /\ run[j][s].stage # "agent"
    /\ run' = [run EXCEPT ![j] = [Disturb(j, s) EXCEPT ![s] = None]]
    /\ job' = IF ~Exists(j) THEN job
              ELSE [job EXCEPT ![j] =
                     [Finished(job[j], run[j][s].stage) EXCEPT
                        !.calm = job[j].calm /\ run[j][s].clean /\ job[j].current = s
                                 /\ job[j].status = "running"]]

\* The job file cannot be loaded or saved; the error is only logged.
UpdateFails(j, s) ==
    /\ Active(j, s) /\ run[j][s].stage # "agent"
    /\ run' = [run EXCEPT ![j][s] = None]
    /\ UNCHANGED job

-----------------------------------------------------------------------------
(* The tools schedule_job, remove_job, pause_job and resume_job. *)

NewJob(once) ==
    [enabled |-> TRUE, once |-> once, due |-> None, age |-> None, status |-> "idle",
     runs |-> 0, fails |-> 0, current |-> None, starts |-> 0, fired |-> 0, calm |-> TRUE]

ScheduleJob(j, once) ==
    /\ job' = [job EXCEPT ![j] =
                 IF ~Exists(j) THEN NewJob(once)
                 ELSE [job[j] EXCEPT !.once = once, !.due = None,
                          !.status = IF job[j].enabled THEN "idle" ELSE "disabled",
                          !.fired = IF job[j].enabled THEN 0 ELSE @,
                          !.calm = FALSE]]
    /\ run' = [run EXCEPT ![j] = Disturb(j, None)]

RemoveJob(j) ==
    /\ Exists(j)
    /\ job' = [job EXCEPT ![j] = None]
    /\ run' = [run EXCEPT ![j] = Disturb(j, None)]

SetEnabled(j, enabled) ==
    /\ Exists(j)
    /\ job' = [job EXCEPT ![j] =
                 [job[j] EXCEPT !.enabled = enabled, !.due = None,
                           !.status = IF enabled THEN "idle" ELSE "disabled",
                           !.fired = IF enabled THEN 0 ELSE @,
                           !.calm = FALSE]]
    /\ run' = [run EXCEPT ![j] = Disturb(j, None)]

-----------------------------------------------------------------------------
(* The environment: time passes, and a process dies with its runs. *)

Advance ==
    /\ job' = [j \in Jobs |->
                 IF ~Exists(j) THEN None
                 ELSE [job[j] EXCEPT
                         !.age = IF @ = None THEN None ELSE Min2(@ + 1, Lease + 1),
                         !.due = IF @ = None \/ @ = 0 THEN @ ELSE @ - 1]]
    /\ run' = [j \in Jobs |-> [s \in Slots |->
                 IF ~Active(j, s) THEN None
                 ELSE [run[j][s] EXCEPT !.age = Min2(@ + 1, Lease + 1)]]]

Crash(p) ==
    /\ run' = [j \in Jobs |-> [s \in Slots |->
                 IF Active(j, s) /\ run[j][s].proc = p THEN None ELSE run[j][s]]]
    /\ UNCHANGED job

Next ==
    \/ \E p \in Procs : Tick(p) \/ Crash(p)
    \/ \E j \in Jobs, s \in Slots :
        \/ \E p \in Procs : RunNow(p, j, s)
        \/ \E outcome \in {"success", "failure"} : RunEnds(j, s, outcome)
        \/ Update(j, s) \/ UpdateFails(j, s)
    \/ \E j \in Jobs, b \in BOOLEAN : ScheduleJob(j, b) \/ SetEnabled(j, b)
    \/ \E j \in Jobs : RemoveJob(j)
    \/ Advance

Spec == Init /\ [][Next]_vars

(* start_scheduler ticks every ten seconds in each process that lives, and *)
(* a process is restarted by whoever wants its jobs to run.  Nothing says  *)
(* that a run ever ends.                                                   *)
FairSpec == Spec /\ WF_vars(Advance) /\ WF_vars(\E p \in Procs : Tick(p))

-----------------------------------------------------------------------------
(* Two runs of a job are never under way at once within the lease, unless  *)
(* somebody edited the job or a run that had outlived its lease ended in   *)
(* between: neither a tick of another process nor run_job_now starts one.  *)
InLease(j, s) == Active(j, s) /\ run[j][s].clean /\ run[j][s].age <= Lease

SingleFlight ==
    \A j \in Jobs : \A s, t \in Slots : InLease(j, s) /\ InLease(j, t) => s = t

(* While such a run is under way the job file says so, with the time the   *)
(* run was started at.                                                     *)
LeaseIsOnFile ==
    \A j \in Jobs, s \in Slots :
        InLease(j, s) => /\ Exists(j)
                         /\ job[j].status = "running" /\ job[j].age = run[j][s].age

(* The runs that nobody interferes with implement JobLease, though all that *)
(* schedulers tell each other is a status and a start time on file: a lease *)
(* is granted only while no other run has it, and ends with its run, with   *)
(* an edit, or when it is Lease old.                                        *)
Held(j) == {[to |-> s, age |-> run[j][s].age] : s \in {t \in Slots : InLease(j, t)}}

Lessor == INSTANCE JobLease WITH Runs <- Slots, lease <- [j \in Jobs |-> Held(j)]

ImplementsJobLease == Lessor!Spec

(* Every run that was started is counted exactly once, as it ends or as    *)
(* its lease is swept: also when its process dies, or its update is lost.  *)
EveryRunIsCounted ==
    \A j \in Jobs :
        Exists(j) /\ job[j].calm /\ job[j].starts < MaxCount =>
            job[j].starts = job[j].runs + (IF job[j].status = "running" THEN 1 ELSE 0)

(* The scheduler fires a one-time job once after it was created, resumed,  *)
(* or changed while enabled, whatever becomes of that run.                 *)
OnceFiresOnce ==
    \A j \in Jobs : Exists(j) /\ job[j].once => job[j].fired <= 1

(* An expired lease does not stay: whoever held it, dead or alive.         *)
Expired(j) == Exists(j) /\ job[j].status = "running" /\ Stale(job[j])

LeaseExpires == \A j \in Jobs : Expired(j) ~> ~Expired(j)

(* A recurring job is started again and again, once users leave it alone   *)
(* and enabled: across crashes, lost updates, hung runs and manual runs.   *)
EditOf(j) == \E b \in BOOLEAN : SetEnabled(j, b) \/ ScheduleJob(j, b)

Recurs ==
    \A j \in Jobs :
        <>[][~EditOf(j)]_vars =>
            []<>(\/ ~Exists(j) \/ job[j].once \/ ~job[j].enabled
                 \/ job[j].status = "running" /\ job[j].age = 0)
=============================================================================
