------------------------------ MODULE CronStore ------------------------------
(***************************************************************************)
(* cron_jobs.json and the lock file that guards it (src/src/cron/mod.rs).  *)
(*                                                                         *)
(* Every OpenZ process (TUI, gateway, daemon, one-shot CLI) reads and      *)
(* rewrites the file inside a FileLock: a file created with create_new,    *)
(* removed by Drop, and removed by any waiter that finds it older than ten *)
(* seconds.  A save truncates the job file first and fills it afterwards.  *)
(* The content of the job file is the set of updates it includes, so a     *)
(* lost update is a missing element.                                       *)
(***************************************************************************)
EXTENDS Naturals

CONSTANTS
    Procs,      \* tasks that use the store, of one process or of several
    Updates,    \* the distinct closures handed to with_cron_jobs_mut
    Torn,       \* the content of a truncated file
    ReadOnly,   \* the request of load_jobs
    MaxCrashes  \* bound: how many deaths of a task a behaviour contains

ASSUME TornAssumption == \A S \in SUBSET Updates : S # Torn
ASSUME ReadOnlyAssumption == ReadOnly \notin Updates
ASSUME CrashAssumption == MaxCrashes \in Nat

VARIABLES
    lockFile,   \* "none", "fresh", or "stale": present for over ten seconds
    pc,         \* where each task is in load_jobs / with_cron_jobs_mut
    op,         \* the request the task serves
    view,       \* the jobs the task has loaded
    disk,       \* the content of cron_jobs.json
    \* History, no variables of the program:
    done,       \* updates whose with_cron_jobs_mut wrote its result
    owner,      \* the task that created the last lock file
    aged,       \* some lock file has been present for over ten seconds
    broken,     \* some save died or failed between truncation and content
    crashes     \* how many tasks have died

request == <<op, view>>
history == <<aged, broken, crashes>>
vars == <<lockFile, pc, request, disk, done, owner, history>>

\* The stages in which the task believes that it holds the lock.
Inside == {"load", "save", "write", "release"}

TypeOK ==
    /\ lockFile \in {"none", "fresh", "stale"}
    /\ pc \in [Procs -> {"idle", "acquire", "remove"} \cup Inside]
    /\ op \in [Procs -> Updates \cup {ReadOnly}]
    /\ view \in [Procs -> SUBSET Updates]
    /\ disk = Torn \/ disk \in SUBSET Updates
    /\ done \subseteq Updates
    /\ owner \in Procs
    /\ aged \in BOOLEAN /\ broken \in BOOLEAN
    /\ crashes \in 0..MaxCrashes

Init ==
    /\ lockFile = "none"
    /\ pc = [p \in Procs |-> "idle"]
    /\ op = [p \in Procs |-> ReadOnly]
    /\ view = [p \in Procs |-> {}]
    /\ disk = {} /\ done = {}
    /\ owner \in Procs
    /\ aged = FALSE /\ broken = FALSE /\ crashes = 0

Goto(p, stage) == pc' = [pc EXCEPT ![p] = stage]

-----------------------------------------------------------------------------
(* load_jobs, and with_cron_jobs_mut with the closure u. *)

\* Mutant: a reader does not bother with the lock.
LoadJobsUnlocked(p) ==
    /\ pc[p] = "idle" /\ Goto(p, "load")
    /\ op' = [op EXCEPT ![p] = ReadOnly]
    /\ UNCHANGED <<lockFile, view, disk, done, owner, history>>

LoadJobs(p) ==
    /\ pc[p] = "idle" /\ Goto(p, "acquire")
    /\ op' = [op EXCEPT ![p] = ReadOnly]
    /\ UNCHANGED <<lockFile, view, disk, done, owner, history>>

WithJobsMut(p, u) ==
    /\ pc[p] = "idle" /\ Goto(p, "acquire")
    /\ u \notin done /\ \A q \in Procs : op[q] # u
    /\ op' = [op EXCEPT ![p] = u]
    /\ UNCHANGED <<lockFile, view, disk, done, owner, history>>

(* FileLock::acquire.  A waiter that finds a young file sleeps and looks   *)
(* again; one that finds an old file removes it by name and looks again,   *)
(* and the file it removes need not be the one it found old.               *)

Acquire(p) ==
    /\ pc[p] = "acquire" /\ Goto(p, "load")
    /\ lockFile = "none"
    /\ lockFile' = "fresh" /\ owner' = p
    /\ UNCHANGED <<request, disk, done, history>>

\* Mutant: a waiter waits for the file to go, however old it is.
SeeStaleNever(p) == FALSE

SeeStale(p) ==
    /\ pc[p] = "acquire" /\ Goto(p, "remove")
    /\ lockFile = "stale"
    /\ UNCHANGED <<lockFile, request, disk, done, owner, history>>

RemoveStale(p) ==
    /\ pc[p] = "remove" /\ Goto(p, "acquire")
    /\ lockFile' = "none"
    /\ UNCHANGED <<request, disk, done, owner, history>>

(* load_jobs_raw: a file that does not parse ends the call with an error. *)

\* Mutant: the task goes on with the jobs it loaded in an earlier call.
LoadStaleView(p) ==
    /\ pc[p] = "load" /\ Goto(p, IF op[p] = ReadOnly THEN "release" ELSE "save")
    /\ disk # Torn
    /\ UNCHANGED <<lockFile, request, disk, done, owner, history>>

\* Mutant: load_jobs writes back what it has read.
LoadAndSave(p) ==
    /\ pc[p] = "load" /\ Goto(p, "save")
    /\ disk # Torn
    /\ view' = [view EXCEPT ![p] = disk]
    /\ UNCHANGED <<lockFile, op, disk, done, owner, history>>

Load(p) ==
    /\ pc[p] = "load"
    /\ Goto(p, IF disk = Torn \/ op[p] = ReadOnly THEN "release" ELSE "save")
    /\ view' = IF disk = Torn THEN view ELSE [view EXCEPT ![p] = disk]
    /\ UNCHANGED <<lockFile, op, disk, done, owner, history>>

(* save_jobs_raw: fs::write truncates, then fills.  Either can fail. *)

Truncate(p) ==
    /\ pc[p] = "save" /\ Goto(p, "write")
    /\ disk' = Torn
    /\ UNCHANGED <<lockFile, request, done, owner, history>>

\* Mutant: the save writes the new jobs without the ones that were there.
WriteOnlyNew(p) ==
    /\ pc[p] = "write" /\ Goto(p, "release")
    /\ disk' = {op[p]}
    /\ done' = done \cup {op[p]}
    /\ UNCHANGED <<lockFile, request, owner, history>>

Write(p) ==
    /\ pc[p] = "write" /\ Goto(p, "release")
    /\ disk' = view[p] \cup {op[p]}
    /\ done' = done \cup {op[p]}
    /\ UNCHANGED <<lockFile, request, owner, history>>

SaveFails(p) ==
    /\ pc[p] \in {"save", "write"} /\ Goto(p, "release")
    /\ broken' = (broken \/ pc[p] = "write")
    /\ UNCHANGED <<lockFile, request, disk, done, owner, aged, crashes>>

\* Drop for FileLock removes the path, whoever created the file there.
Release(p) ==
    /\ pc[p] = "release" /\ Goto(p, "idle")
    /\ lockFile' = "none"
    /\ UNCHANGED <<request, disk, done, owner, history>>

(* The environment: ten seconds pass for the present lock file, and a      *)
(* task dies without running Drop.                                         *)

Age ==
    /\ lockFile = "fresh" /\ lockFile' = "stale"
    /\ aged' = TRUE
    /\ UNCHANGED <<pc, request, disk, done, owner, broken, crashes>>

Crash(p) ==
    /\ pc[p] # "idle" /\ Goto(p, "idle")
    /\ crashes < MaxCrashes /\ crashes' = crashes + 1
    /\ broken' = (broken \/ pc[p] = "write")
    /\ UNCHANGED <<lockFile, request, disk, done, owner, aged>>

Step(p) ==
    \/ Acquire(p) \/ SeeStale(p) \/ RemoveStale(p)
    \/ Load(p) \/ Truncate(p) \/ Write(p) \/ SaveFails(p)
    \/ Release(p)

Next ==
    \/ \E p \in Procs : LoadJobs(p) \/ Step(p) \/ Crash(p)
    \/ \E p \in Procs, u \in Updates : WithJobsMut(p, u)
    \/ Age

Spec == Init /\ [][Next]_vars

(* A task that runs keeps running, and time passes.  Requests and crashes  *)
(* are owed to nobody.                                                     *)
FairSpec == Spec /\ WF_vars(Age) /\ \A p \in Procs : WF_vars(Step(p))

-----------------------------------------------------------------------------
(* Until a lock file has been present for ten seconds, at most one task is *)
(* between acquire_cron_lock and the Drop of its FileLock.  After that it  *)
(* is not so: a slow holder's Drop removes its successor's file, and of    *)
(* two waiters that both find an old file the second removes the first's   *)
(* new one.                                                                *)
MutualExclusion ==
    ~aged => \A p, q \in Procs : pc[p] \in Inside /\ pc[q] \in Inside => p = q

(* What the job file holds or, while a save is between truncation and      *)
(* content, what the saving task started from.                             *)
Content ==
    IF disk = Torn /\ \E p \in Procs : pc[p] = "write"
    THEN view[CHOOSE p \in Procs : pc[p] = "write"]
    ELSE disk

(* with_cron_jobs_mut is a transaction while the lock works and no save    *)
(* breaks off: no update that was written is missing from the job file     *)
(* later, whatever the other tasks do.                                     *)
NoLostUpdate == ~aged /\ ~broken => Content # Torn /\ done \subseteq Content

(* A task never loads a half-written job file while the lock works and no  *)
(* save breaks off.                                                        *)
NoTornLoad ==
    ~aged /\ ~broken => \A p \in Procs : pc[p] \in {"load", "save"} => disk # Torn

(* A lock whose holder died is recovered: whenever somebody waits, some    *)
(* task enters sooner or later, unless every waiter dies.                  *)
SomeoneWaits == \E p \in Procs : pc[p] \in {"acquire", "remove"}

LockIsRecovered ==
    SomeoneWaits ~> (~SomeoneWaits \/ \E p \in Procs : pc[p] \in Inside)

(* The store implements the abstract one, in which an update takes effect  *)
(* at once, on top of all the earlier ones, until a lock file has been     *)
(* present for ten seconds.                                                *)
Store == INSTANCE AtomicStore WITH contents <- Content, committed <- done, kept <- ~aged

ImplementsAtomicStore == Store!Spec
=============================================================================
