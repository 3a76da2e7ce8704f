# Formal models of openz-rs

OpenZ is an agent runtime in Rust: a loop that talks to a language model and
executes tools, with a terminal, a WebSocket gateway and messaging channels in
front of it, and a cron scheduler, SOP workflows and sessions on disk behind it.
Several OpenZ processes (terminal, gateway, daemon, one-shot commands) share one
home directory, and most of what can go wrong happens in the files they share.

This directory holds TLA+ modules of those parts, the TLC configurations that
check them on small instances, and proofs of their safety properties for every
value of the constants. `PROJECT.json` lists the components, the runs, the source
lines behind every definition, a mutant for every property, the hazards, the
findings and the theorems.

    tlc -workers 2 -config MCCronStore.cfg MCCronStore.tla     # one run
    tlapm CronStore_proofs.tla                                 # one proof

Contents

1. Inventory: the components, their state, what is hard, what makes them correct
2. Modules, and how they correspond to the code
3. Runs: what each checks, bounds and fairness
4. Proofs
5. Disagreements found
6. What is only model-checked, and what is not modelled
7. Plan


## 1. Inventory

Paths are below `src/src/`.

### Cron job store - `cron/mod.rs`

*State*: `cron_jobs.json`, the table of jobs; `cron_jobs.lock`, which exists
while somebody is inside; a log of run records.
*Operations*: `load_jobs`, `with_cron_jobs_mut` (load, change by a closure, save).
*Used by* the scheduler and the cron tools of every process.
*Hard*: the lock file has no owner. It is removed by name, by `Drop` and by any
waiter that finds it older than ten seconds, so that the lock of a dead process is
recovered - and that of a slow one is broken. `fs::write` truncates before it fills.
*Correct when*: updates are atomic and none is lost while holders take less than
ten seconds, nobody reads half a file, and a dead holder blocks nobody for good.

### Cron scheduler and job tools - `cron/scheduler.rs`, `tools/cron.rs`

*State*: per job, enabled, the schedule, `next_run`, the status, `last_started_at`,
two counters; the tasks that execute prompts, in memory only.
*Operations*: `tick_scheduler` every ten seconds in every process; `run_job_now`;
the end of a run (`update_job_success`, `update_job_failure`); `schedule_job`,
`remove_job`, `pause_job`, `resume_job`.
*Hard*: a run is known to other processes by a status and a time stamp alone, a
lease of an hour; a run can outlive its lease, die with its process, or fail to
record its end; users edit jobs that run; outcomes are entered by job id, whatever
run the job is in by then.
*Correct when*: within the lease no second run of a job starts, every run is
counted once, a one-time job fires once, and a recurring one for ever.

### SOP engine - `sop/engine.rs`, `sop/mod.rs`

*State*: definitions (a set of steps with dependencies) and instances, a file each;
a run has its own copy of its instance, a channel of results, a count of active
tasks; an agent per step, each in a task.
*Operations*: `trigger_sop`, `resume_sop`, `run_sop_instance`.
*Hard*: independent steps run in parallel and end in any order; one fails while
others work; a run is dropped with the turn that waits for it while its agents
work on; an agent may panic and report nothing; a save truncates the file before it
fills it; nothing keeps two runs from one instance.
*Correct when*: no step starts before its dependencies are done, what is completed
is not executed again and not lost unless a save breaks off, a failure stops what has
not started and can be resumed, and a run ends once its agents have reported.

### Agent turns on a session - `agent/agent_loop/*`, `session.rs`

*State*: the session file with its messages, their hash chain and metadata; the
lock file; the one temporary file all savers share; a mutex per session in each
process; the copy a turn has in memory.
*Operations*: a turn - Restore, Compact, Command, Build, Run, Save - with four
saves on its way; `save_session_overrides`, which a channel calls before the turn;
the curator, which a turn leaves behind.
*Hard*: turns of several processes compete for the file; two savers do not take
the file lock at all; a copy loaded before a lock is saved after it; saves fail and
are only logged; the hash chain is computed for a clone at save; the terminal
aborts a turn its user interrupts, whose locks are free while a write it has handed
to the thread pool goes on; a turn may wait for its user's approval without a time-out,
with both locks held.
*Correct when*: one turn at a time has the session, the file always parses and
never loses what a turn has recorded, the curator does not write about an older
session, every turn ends that need not wait for a user, and the chain tells tampering
from use.

### WebSocket gateway - `channels/websocket/*`, approvals in `agent/security.rs`

*State*: clients with their senders and chats, turns by request id with a
cancellation token each, pending approvals, sixteen permits for turns of a client,
the queue of the event broker (1024) and a channel per client (100).
*Operations*: connect, message, stop, answer to an approval, disconnect; publish;
the broker's loop.
*Hard*: the cleanup of a client races a turn that is just asking it for an approval;
an answer races the 120 s timeout; a stop races the next tool call; critical and
other events are dropped, evicted, replaced or sent out of order when the queue is
full; a slow client holds others up or is no longer served.
*Correct when*: a client that is gone leaves nothing registered, uncancelled or
waiting; a stop lets at most one more call begin; a call that asks begins only after an
accepted yes of its client, and such a yes is not lost; every turn ends; the end of a run reaches each client
that is served, in order.

### Workflow orchestrator - `orchestrator/*`

*State*: outputs and statuses of the steps of one run, its round, its events.
*Operations*: ordered (sequential, graph, manager-worker, selector), parallel (in
chunks) and review-loop runs.
*Hard*: the bracket of RunStarted and RunFinished on every error path, what came of
the steps of a chunk, the number of rounds, events of two runs in one queue.
*Correct when*: a run reports success only for steps that were all done, and after
an approval if it is a review; rounds are bounded; its end is not lost.

### Provider calls - `providers/*`

*State*: a circuit breaker per provider (closed, open, half-open, failures, opened
at); an attempt per call. *Operations*: check, success, failure, retry with backoff.
*Hard*: concurrent calls that outlive the state they were admitted in.
*Correct when*: an open breaker stops the calls under way at their next failure, and
a provider that is well again is used again.

### Cancellation and shutdown - `tools/subagent/cancellation_token.rs`, `shutdown.rs`

*State*: a flag and waiters per token; a counter of cancels of the terminal; a
shutdown flag; a registry of child processes. *Hard*: a cancel between the look at
the flag and the registration of the waiter; two cancels that send the same count;
a child registered after the shutdown has killed the registered ones.
*Correct when*: a turn that is cancelled hears of it before it begins a second call.

### Subagents and tools - `tools/subagent/*`, `agent/agent_loop/run/tool_pipeline.rs`, `tools/task_manager.rs`

*State*: nested turns in sessions of their own with timeout and cancel, a registry
of background tasks, a read-write gate over tools that change state. *Hard*: a tool
that calls a gated tool while it holds the gate; two callers that enter the
same process in the registry.

### The rest

Configuration and its watcher (`config/*`: a debounce of 150 ms that can skip the
last change), health records of subagents and models (load, change, save without a
lock; only statistics depend on them), repair of code (`core/heal.rs`: back up,
edit, test, roll back, in one task), vault and inventory, channels to Telegram,
Discord, WhatsApp and mail, terminal interface, logs, memory services on SQLite,
context compression, MCP clients, and a large body of independent tools
(documents, media, search, browsers). They are in PROJECT.json with the reason
for which they are not modelled: sequential, or external, or data only.

### How they interact

Channels, the gateway, the scheduler and the SOP engine all end in
`AgentLoop::run` on a session key: the scheduler's runs and the SOP engine's
agents are turns. CronScheduler and SopEngine therefore see an agent as a step that
ends with success or failure at some time, or dies, and SessionTurns says what it
does to its session meanwhile. The scheduler uses the job store for each of its
reads and writes: CronStore shows when such an access is one atomic step, which is
what CronScheduler takes it for.

GatewayTurns sees the same turn from the side of its client: as calls of the model
and of tools that can be cancelled and may have to be approved, with the session of
its chat as a lock. A run of a workflow is one of these tools: Orchestrator says what
it publishes and that it may be dropped with its turn, EventBroker how the events
reach the clients, and ProviderCalls what becomes of a call of the model. The broker
stops serving a client that is too slow; GatewayTurns has this as its action `Demote`.


## 2. Modules, and how they correspond to the code

| module | models | abstract specification | proofs |
| --- | --- | --- | --- |
| `CronStore` | file lock and job file | `AtomicStore` | `CronStore_proofs` |
| `CronScheduler` | ticks, runs and edits of jobs | `JobLease` | `CronScheduler_proofs` |
| `SopEngine` | runs over one SOP instance | `DagRun` | `SopEngine_proofs` |
| `SessionTurns` | turns, curators and interrupts on one session | `SessionStore` | `SessionTurns_proofs` |
| `GatewayTurns` | turns, stops, approvals and disconnects of WebSocket clients | - | `GatewayTurns_proofs` |
| `EventBroker` | the queue of orchestration events and their delivery | - | with Orchestrator |
| `Orchestrator` | runs of workflows, over EventBroker (EXTENDS) | - | `Orchestrator_proofs` |
| `ProviderCalls` | calls that share a circuit breaker | - | `ProviderCalls_proofs` |

`MC<module>` instantiates each for TLC. An operator under the comment "Mutant" is
no part of the model: it is what the definition below it would be with a plausible
bug, and every checked property is violated by one of them.

### CronStore

A task is in `idle`, `acquire`, `remove`, `load`, `save`, `write` or `release`.

| model | code |
| --- | --- |
| `lockFile` none / fresh / stale | the lock file: absent, young, older than 10 s (`Age`) |
| `disk` | the job file, as the set of updates it includes; `Torn` when truncated |
| `Acquire`, `SeeStale`, `RemoveStale` | the loop of `FileLock::acquire`: `create_new`; age; `remove_file`. Between the last two the file may have changed hands. |
| `Load`, `Truncate`, `Write`, `SaveFails` | `load_jobs_raw`, the two halves of `fs::write` |
| `Release` | `Drop`, which removes the path whoever created it |
| `Crash` | the process dies and `Drop` does not run |
| `done`, `owner`, `aged`, `broken`, `crashes` | history, read by no guard but the bound `MaxCrashes` |

An update is used once, so that a lost one is a missing element; a save is
a union because every closure of the callers changes entries and keeps the rest.

### CronScheduler

One step of the model is one access to the job file. `Tick` is one pass of
`tick_scheduler` over all jobs: sweep of expired leases, computation of a missing
`next_run`, start of what is due. `RunNow` is `run_single_job_now`; `RunEnds` the
end of the prompt; `Update` the later access that enters the outcome by job id, into
whatever record has that id; `UpdateFails` the logged error. Times are ages and
countdowns in a unit in which the lease is `Lease`; `Delays` stands for what
schedules compute; a cron expression is one of these delays. `job.current`,
`starts`, `fired`, `calm` and `run.clean` are history: they tell a run
which nobody disturbed from one whose job was edited or whose lease was swept.
`JobLease` is the lease as a promise: granted while it is free, to one run, and over
when that run ends, when the job is edited or when it is `Lease` old. It is mapped to the
runs (`Held`), the guards of the code read the file: that they agree is what is proved.

### SopEngine

One instance, and any number of runs over it in `Runs`. A run is in `reset`
(resume_sop between its check and its save), `load`, `begin`, `define` or `loop`.
`Spawn` takes one of `steps_to_spawn`, saves it as Running and starts its agent;
`Record` receives one result, saves it, and computes the steps that are ready now;
`Finish` is reached when no task is active. `Abort` is every `?` of the function and
the drop of its future; agents then work on and nobody takes their results. `Crash`
kills the agents too. An agent ends well or badly, or its task panics: then its sender
is dropped without a result, and the run, which has a sender of its own, does not hear
of it (`panicked`). A file is `torn`, and cannot be loaded, when a run stopped between
the truncation and the content of a save, or when two saves of overlapping runs
collided; `file` is then only what was last written whole. In `DagRun` such a file is
`lost`: nothing of it counts as done any more, which can happen at any time until the
instance is closed and not afterwards. With `Serial` a user starts a run only when no other run is
alive; agents that a dropped run left behind may still be at work.

### SessionTurns

A turn's phase `pc` is the point between two awaits it has reached:

| phase | code |
| --- | --- |
| `preload`, `override` | `save_session_overrides`: load and save, without a lock |
| `waiting`, `locking` | the mutex of the process, then `acquire_lock` and its retries |
| `load`, `restored` | Restore: load, append the message of the user, save |
| `compact`, `command`, `edited` | Compact; a slash command and its save |
| `run`, `partial`, `ran` | Run: the model and its tools, a save every fifth iteration, a save at its end |
| `asking` | a tool of Run waits for an approval of the user, in the terminal or by Telegram, without a time-out |
| `final` | Save, which decides whether the turn failed |
| `learn`, `relock`, `reload`, `review` | the curator of the turn |

Saving is four actions, because it is where turns meet: `SaveOpen` (the temporary
file is created or truncated), `SaveWrite`, `SaveFails` (at any of its parts),
`SaveRename`. An attempt at the file lock fails because it is taken or, with faults,
because the lock file cannot be opened; it is counted or ends the turn. All savers
share the name of the temporary file, so `open[t]` says where the file a saver has
open is linked now: under the temporary name, under the session's, or nowhere,
after somebody else's rename. `Migrate` signs a session without hashes in place.
`Crash` drops the locks (they are `flock`s of the system) and closes the files.
`Interrupt` is Esc or Ctrl-C in the terminal (channels/ratatui/mod.rs:767, 1283),
which aborts the task of the turn at whichever await it has reached: its locks are
free at once, but a load, write or rename it was waiting for is a closure of the
thread pool that runs to its end (phases `loading`, `writing`, `renaming`) with no
lock. A curator is a task of its own and is not aborted.
The hash chain is abstracted to what `verify_hash_chain` finds: valid, missing
hashes, or broken. What the model and the tools do in Run is abstracted to the
messages they add, and to the wait for an approval, which ends with `UserAnswers`; which command a message is, and whether the context is over
its limit, is open. `promised` and `wiped` are history.

`SessionStore` is what the locks and the saves promise between them: one turn is
inside, only it replaces the session, in one step and by a whole one, and what it was
told is saved stays until a turn removes it. The mapping takes the turns past the file
lock, and a curator past the mutex, for the one inside, the session file for the
session, and `promised \ wiped` for what was told; a save that fails, a temporary file
and a death are stutters or a turn that leaves.

### GatewayTurns

The socket task of a client handles one frame after the other (`socket` = open).
When the connection ends it goes through `unregister_ws_client` twice, once after
its loop and once from the guard it drops: the phases `turns`, `tokens` and `sender`,
`pass` 1 and 2, then `gone`. A turn is at one of these places:

| place | code |
| --- | --- |
| `spawned`, `waiting` | registered by the message; the permit; the wait for the session, without a time-out (`EnterFails`: it has the session, and then the file lock or the provider's is not to be had) |
| `iterate` | top of the loop of Run |
| `arm`, `busy` | a call between the look at the flag and the registration as a waiter; the call under way |
| `calls`, `guards` | the loop over the tool calls; the checks of one of them |
| `deliver`, `await` | an approval is registered; it has been sent to the client. After a yes the call begins, or is refused all the same: as superfluous research, an unknown tool, by the resource policy or the bound on processes (`Verdict`) |
| `failed`, `expired` | it could not be sent; 120 s are over and it is still registered |
| `unlock`, `ending`, `done` | `run` returns; the end is sent and the guards are dropped |

A step of the model is one critical section of a mutex or one await. `removed` holds
the turns that a socket task has taken out of the registry and not cancelled yet,
because these are two steps. `Stall` fills or empties the channel of a client,
`Demote` is the broker's giving up on one. `told` (which answer was reported as
accepted) and `late` (calls begun with the flag set) are history.

### EventBroker and Orchestrator

`Publish` is `enqueue_orchestration_event`, one disjunct per branch: `PushBack`,
`GiveUp` (a step, or a start whose run is already queued, is dropped), `EvictStep`,
`ReplaceOwn`, `EvictStart`, and `Overflow`, an event sent by a task of its own. `Pop`
is the broker's loop, which sends to all clients of the chat and waits for all sends;
`Deliver` and `TimeOut` are the two ends of a send, the latter delisting the client; a
send to a channel that is closed ends like one to a channel that stays full. `Fill` is a
place in the client's channel taken by somebody else: `publish_ws_event`, or the answers
of its socket task.
`seenEnd`, `missed` and `strayed` are history.

A run is at `begin`, `work`, `report` or `finish` of a mode. `ordered` stands for
the modes in which steps follow one another and a failure ends the run; a review loop
adds rounds, a parallel run launches `Chunk` steps at a time. `StartInVain` is a review
loop that publishes its start and returns an error without an end. `Drop` is the drop
of the future with its turn, `Leave` forgets what the run kept. The outputs of steps
are abstracted to what the code tells apart: an error, a keyword that approves, one
that rejects, and anything else.

### ProviderCalls

`Enter`, `Retry` and their refusals are the calls of `check` by `retry_with_backoff`;
`RecordSuccess` and `RecordFailure` the other two operations of the breaker. Each is
one step, and an attempt (`Attempt`, up to its outcome) lies between two of them.
`Rest` says that the reset timeout has passed since the last failure. A failure
beyond the threshold changes nothing but the time of it, so `failures` stops at
`Threshold`. `Drop` is the cancellation of a turn, or the timeout of the attempt around
it: the breaker is told nothing. `late` counts the attempts begun since the breaker
opened.


## 3. Runs

| run | instance | checks |
| --- | --- | --- |
| `cron_store` | 3 tasks, 2 updates, 1 death | types, `NoLostUpdate`, `NoTornLoad`, refinement of AtomicStore, `LockIsRecovered` |
| `cron_scheduler` | 2 processes, 1 job, 2 runs at once, lease of 1 unit, delays of 0 and 2 | types, `SingleFlight`, refinement of JobLease, `EveryRunIsCounted`, `OnceFiresOnce`, `LeaseExpires`, `Recurs` |
| `sop_serial` | 4 steps (two roots, a join, a successor), runs one after the other | types, `StepExclusive`, `FailedIsRetried`, `NothingRedone`, refinement of DagRun |
| `sop_race` | 3 steps, two runs that overlap | `CompletedIsDone`, `DepsFirst`, `RunEnds` |
| `session_procs` | 3 turns in 2 processes, faults | types, `OneTurnAtATime`, `TurnsAreKept`, refinement of SessionStore |
| `session_curator` | 2 turns of 1 process with curators, faults | `ReviewIsFresh`, `TurnEnds` |
| `session_live` | 2 turns in 2 processes, overrides, interrupts, curators, migration, faults | `TurnEnds` |
| `gateway_turns` | 2 clients, 2 turns in one chat, 1 permit, 1 iteration of 1 tool call | types, `GoneLeavesNothing`, `StopHolds`, `AnswerCounts`, `TurnEnds` |
| `orchestrator_events` | a review of 2 steps or a parallel run of 3, and a run of 1 step; queue and channel of 1, 1 client | types, `NoEndLost`, `SuccessIsTrue`, `InOrder`, `EndArrives` |
| `provider_calls` | 3 callers, threshold of 2, 2 retries | types, `StragglersStop`, `Recovery` |
| `sop_resume_twice`, `session_override` | small | each finds the violation of section 5 |

Why the bounds are enough to meet the interesting cases:

- *cron_store*: three tasks are a dead or slow holder and two waiters that both
  find its file old, the smallest case in which a waiter removes a new lock; two
  updates are one that is lost and one that loses it. The behaviours with
  an old lock file are explored: the properties say what holds before.
- *cron_scheduler*: two processes and two slots are a run and the one that
  replaces it after its lease; a third run forgets the oldest. With a lease of one
  unit, ages 0, 1 and 2 are within, at and beyond the limit. Jobs meet only in the
  atomic pass of a tick, so one is enough. The counters saturate at `MaxCount` = 2,
  in the code at 2^64-1; `EveryRunIsCounted` speaks of a count that is not
  saturated yet, and the proof covers every `MaxCount`.
- *sop_serial*, *sop_race*: two roots are the smallest parallelism, a join and a
  successor make a step wait for the last of several and become ready while another
  has failed. Resumes and crashes are not bounded: the state is finite.
- *session*: two turns in one process and one in another have both kinds of
  exclusion; two tries at the lock are one that waits and one that gives up. The
  code's five tries and kept tail (a fifth of the messages, at least five) change
  the number of steps and not their kind. `KeepRecent` differs between runs so that a compaction
  finds a user message to split at, or has to take the middle. In `session_procs`
  the two turns of one process are interchangeable (symmetry; safety only). In
  `session_live` one turn carries overrides and the other is interrupted, so that
  either is undisturbed and disturbed in some behaviour; the file starts without hashes.
  `TurnEnds` is checked twice: in `session_live` the turns compete for the file lock,
  and one may wait for its user for ever without holding up the other; in
  `session_curator` the turns and curators of one process compete for its mutex.
- *gateway_turns*: two clients in one chat compete for its session, so that a turn
  waits, is stopped and is left by its client in every place while the other has the
  session. One client may have both turns; with one permit the second is refused. One
  tool call per turn is enough for each race of a call with a cancellation; `late`
  saturates at 2, one above what `StopHolds` allows. Turn ids are given out once.
- *orchestrator_events*: with a queue of one every event but the first meets a full
  queue, and each branch of the eviction policy is taken; two runs are one whose end
  is queued and one whose end or start does not fit. Three steps in chunks of two are
  a full chunk and a partial one; two rounds are one that is repeated and the last.
- *provider_calls*: one call opens the breaker, a second is in its back-off, a third
  is asking or probing. A threshold of two tells the first failure from the last, two
  retries the first from the last.

Deadlock is checked in the cron, orchestrator and provider runs, where something can
always happen. SOP runs and turns come to an end, and nobody need ask for another:
their cfgs say so.

Fairness:

- *CronStore*: weak fairness of each task's steps while it is inside
  `with_cron_jobs_mut` (the runtime polls a task that is ready; a waiter sleeps
  50 ms) and of `Age` (time passes). None for requests and deaths.
- *CronScheduler*: of `Advance` (time) and of `Tick` by some process
  (`start_scheduler` loops every ten seconds in each). None for the end of a run:
  a prompt may hang, and the lease is there for that.
- *SopEngine*: of each run, whose task the runtime polls. None for agents: one may
  panic, or wait for its user; `RunEnds` excepts the runs such an agent works for.
- *SessionTurns*: of each turn: its loop is cut at `max_tool_iterations`, its calls by
  their timeouts, and its attempts at the file lock are counted. None for the answer
  of a user (agent/security.rs:877, 945-1006), for interrupts and for deaths.
- *GatewayTurns*: of each turn: calls have timeouts, and so have approvals. The wait for
  the session of the chat has none, and the model gives it no way out but the session
  itself. None for a client: it need not send, read, answer, stay, or see its cleanup
  through.
- *EventBroker*: of the tasks of the broker, whose sends end after 500 ms. A client
  need not read, and a run need not end.
- *ProviderCalls*: of each call, and of `Rest` (time passes). `Recovery` assumes
  that the provider stays well, that calls keep being asked for, and that from some
  time on none is dropped: a half-open breaker is closed only by a success recorded.

The liveness properties say what must happen in spite of deaths, hung runs and
failed writes: `LockIsRecovered` (whenever somebody waits, somebody enters, unless
all waiters die), `LeaseExpires` (an expired lease is swept), `Recurs` (a recurring
job is started again and again once users leave it alone), `RunEnds` (a run is over
unless one of its agents never reports), `TurnEnds` of a turn on its session (unless a
turn of the same process waits for its user for ever) and of a gateway turn (whose last
step waits for a client that does not read), `EndArrives` (the end of a run is delivered to each client that is
still served), `Recovery` (a breaker closes again).


## 4. Proofs

All theorems are proved for every value of the constants, from the assumptions
declared with them. These only say that the names that stand for "none" are not one
of the values they are told from, and that bounds are natural numbers.

**CronStore** (`Invariance`). The inductive invariant adds to the types: while no
lock file has been ten seconds old, the task that is inside created the file that is
there (`LockInv`), an update belongs to one task and is not written before its turn
(`OpInv`), and what is on disk, or what the one task that writes has loaded, is
exactly the set of finished updates (`DataInv`). Mutual exclusion alone is not
inductive: it does not say whose file the lock file is. From it follow
`Exclusion` (`MutualExclusion`, which no run names: what rests on it is checked),
`NoUpdateLost`, `NoTornFileLoaded`, and `Refinement`: each step taken
in time is a commit, a wreck or a stutter of `AtomicStore`. `StoreRestsClean` says what
may be left when nobody is inside; what it says of the torn file and of the content
holds also after a lock has grown old.

**CronScheduler** (`Invariance`). `Leased` says that an undisturbed run within
its lease is the current run of a job which the file calls running, and that file
and run agree on its age; `SingleFlight` follows because a job has one current run.
The proof is over one job: each operation on a record (sweep, mark, reschedule,
finish) keeps it sound, and every action applies them to each job (`OneJob`).
`LeaseKnown`, `AtMostOneRun`, `RunsAreCounted` and `OneTimeJobs` follow. For
`LeaseRefinement` each step is a step of `JobLease`: starts are grants because a file that
does not hold the lease has no run within it (`NobodyLeased`, `StartGrants`); ends, edits
and deaths take runs away, of which at most one had the lease (`FewerEnd`); time is time.

**SopEngine**. `Invariance` needs nothing of the users: whatever runs
overlap, every copy of the instance and the file claim only what some agent has
done, and agents work only on steps whose dependencies are done (`CompletedSteps`,
`DependenciesFirst`). `SerialInvariance` assumes `Serial`: then there
is one run that is not quiet, its copy is the file, a step the file calls running
has an agent of that run, and an acyclic instance that failed has a failed step.
`StepsAreExclusive`, `FailuresAreRetried`, `NoStepRedone`, `ResumesAreChecked` and
`Refinement` (of `DagRun`) rest on it; without `Serial` they are false: the run
`sop_resume_twice` violates the property of `ResumesAreChecked`. For `Refinement`,
`TornInv` adds that no run is left over a torn file, and `TearingStep` that only an
instance which is not completed is torn: a save that breaks off is the step `Lose` of
`DagRun`, and nothing happens to the instance after it.

**SessionTurns**. `Invariance` is unconditional: a turn past the file lock holds
it, and each one past the mutex holds that of its process. So `Exclusion` holds
with overrides, curators, interrupts, deaths and failed writes. `NoTurnLost`,
`NoTornSession` and `ReviewsAreFresh` assume `Alone`: no overrides, no interrupts, no
session without hashes to migrate, and curators in a single process only. Then whoever touches the files holds a lock that excludes
all others who do (`OneOwner`), a saver's temporary file is its own, and each copy
in memory includes what was promised and not wiped. For `ReviewsAreFresh`, `Newest`
adds that what a curator has read under the mutex stays the session of the file
until its own rename, because each other saver would need that mutex. Each assumption
is needed: `session_override` violates the property without the first, and TLC finds
`SessionParses` and `TurnsAreKept` violated as soon as one turn is interruptible.
`StoreRefinement` (of `SessionStore`) combines the two invariants step by step: there is
one owner before and after each step, and who is not the owner touches neither the file
nor what was promised (`StepHistory`, `StoreStep`; `StoreCrash` for deaths). Two theorems
need no assumption. `NoLockLeaks` is the converse of `LockInv`: who has a lock is at work
under it, so that no turn that failed, was dropped or died keeps one. `TurnsAdvance`
says that no step takes a turn back (`Age`, then the parts of a save, then the attempts
at the lock); its only loop, Run and the save of its round, is left after one round
because what the round added stays in the copy (`CalledInv`). The wait for a user is part
of that round, one phase before the save of it.

**GatewayTurns** (`Invariance`). `TurnInv` says which turns have a client and a chat
and what they have left to do; `ReachInv` that a turn is registered, or taken out to be
cancelled, or cancelled; `LateInv` that a call begun with the flag set is the one that
had looked at it before; `AskInv` how the registry of approvals, the channel of a
request and what its client was told agree; `CleanInv` what each cleanup leaves of
a client's turns; `ClientInv` where the two cleanups are. One cleanup is not
enough: an approval registered between the denial and the removal of the sender is
found by the second. `NothingIsLeft`, `StopIsHeard` and `OnlyAnswersCount` follow: a call
that asked begins only after an accepted yes and with the flag not set; that an accepted
yes is not taken back holds because its request has left the registry, where no cleanup
and no second answer can reach it. A
step of one turn disturbs nothing that is said of another (`OtherTurns`), so each
action is proved for its own turn only. A second invariant (`LeakInv`) says by phase
what belongs to a turn: its places in the registries, its permit, its waiter, its
approval and the session of its chat. `TurnsLeaveNothing`, `ChatsAreSerial` and, with
the cardinality of the permits a client has out, `PermitsBoundTurns` follow.
`TurnsAdvance` gives the lexicographic measure of a turn: iterations left, the half of
the iteration, calls left, the place in the call.

**Orchestrator** (`Invariance`). Of the broker, `PipeInv` says that an event on its way
is one its run has published (`Published`), that the queue has the events of each run in
their order (`Sorted`), that what the broker sends is older than what is queued
(`Behind`), and that events with a task of their own are of runs that overflowed
(`Apart`); `EventsInOrder` follows. `EndKept` says where the end of a finished run is,
which is `EndsAreKept`. Of a run, `FlowInv` says that the steps before the one it is at
have been done and that the reviewer has approved once the run is past it:
`SuccessIsEarned`. What is said of the broker is proved once for any publisher
(`PublishKeeps`) and once for its own steps (`BrokerKeeps`). `TheEndIsLast` needs
`EndInv`: an end has the last number of its run wherever it is, is in one place only,
and a run that has ended is silent. `RunsAdvance` is the measure of a run: round, step,
parts of a chunk that are under way.

**ProviderCalls** (`Invariance`). The breaker is closed as long as fewer than
`Threshold` failures are counted (`BreakerInv`); while it is open, a call that has
begun an attempt since is not ready for another (`LateInv`): `StragglersAreStopped`.

The runs show each property that they name on an instance; the theorems show it for
every value of the constants. Theorems whose property no passing run names (`StoreRestsClean`,
`NoLockLeaks`, `NoTornSession`, `RunsAdvance`, `TurnsAdvance`, `TurnsLeaveNothing`,
`ChatsAreSerial`, `PermitsBoundTurns`, `TheEndIsLast`, `ResumesAreChecked`) state it in
the proof module, next to the proof, or in the module; these say more about the states
in between, or for weaker assumptions, than the runs. `LeaseKnown` states the
invariant behind `LeaseRefinement`. `Exclusion` of CronStore proves `MutualExclusion`,
which is stated in the module and named by no run.

Not provable with this prover and left to TLC: all liveness properties (fairness and
ENABLED are out of its reach). The four theorems `RunsAdvance` and `TurnsAdvance`, of the runs of
an SOP and of a workflow and of turns on a session and in the gateway, are the safety
half of `RunEnds`, `EndArrives` and the two `TurnEnds`: no step goes back, so that each of the
actors makes finitely many. What remains to TLC is that an actor is never stuck.


## 5. Disagreements found

Runs that violate what the repository says of itself:

1. `sop_resume_twice`: `resume_sop` (sop/engine.rs:328) checks the status and saves
   without a lock, and a triggered instance stays Pending until its run has loaded
   it. A second resume that has passed the check overwrites a running instance; the
   message at line 334 says that only pending, failed or paused ones can be resumed.
2. `session_override`: `save_session_overrides` (agent_loop/mod.rs:175) loads and
   saves without either lock while another turn is at work, and a turn that is saved
   in between is lost; session.rs:257 says "Only one agent can use a session at a
   time."

Seen while modelling, without a run of their own.

Sessions:

- `/audit` verifies the session in memory, to which Restore has just added the
  message `/audit` without a hash: it fails on an intact session.
- docs/security.md:140 says a tampered file is preserved without re-signing; `load`
  does preserve it, and the save of Restore signs it.
- A turn that the user of the terminal interrupts leaves its write or rename to
  the thread pool (channels/ratatui/mod.rs:1283). The next turn uses the same temporary
  file: the session file may get what one of two writers has torn, or half of a file.
  autonomous_agent_ops/ARCHITECTURE_SPEC.md:89 promises atomic replacement.
- The migration of a session without hashes writes it in place (session.rs:405). A
  death in the middle leaves half a file, which `get_or_create` takes for a new
  session; ARCHITECTURE_SPEC.md:135 speaks of atomic appends, and :138 of an archive of
  broken files that the load of a turn does not make.
- The overrides of a message are saved before its turn has the lock. A turn at work
  saves its older copy over them (agent_loop/mod.rs:190).
- The curator checks and saves under the mutex of its process only
  (agent_loop/save.rs:787): with curators in two processes it loses a turn.
- `/new-session` resets the file without a lock: a turn at work undoes the reset. The
  names of the archives it leaves have a resolution of seconds (channels/mod.rs:151).
- The approval of a tool is awaited without a time-out in the terminal
  (agent/security.rs:944-1006) and by Telegram (security.rs:877), with the mutex and the
  file lock of the session held: other turns and curators of the process wait for the
  user as well, and those of other processes fail at the file lock. The approval of
  a WebSocket client has 120 s (security.rs:926).
- A clarifying question, and the notice of a cancelled request, are shown to the
  user and never reach the session file (agent_loop/run/mod.rs:826).

Gateway:

- An answer that arrives between the time-out of an approval and its removal from the
  registry is reported to the client as accepted, and the call is denied.
- A stop does not interrupt a turn that waits for an approval: it goes on waiting up to
  120 s. A stop without an id stops any one of the client's turns in the chat.
- A tool call that begins between the look at the flag and the registration as a waiter
  is not interrupted (cancellation_token.rs:55); `StopHolds` bounds this to one call.
- events.rs:273 says that lifecycle events are published "without dropping it when a
  client queue is full". After 500 ms without room the client is dropped instead, and
  nothing lists it again while its socket is open: its approvals are then denied.
- A client that looks at another chat when an end is sent never gets that end.
- A client that does not read holds up the end of its turns, with their permits and
  places in the registry, and its socket task, without a bound (socket.rs:63).
- A message that switches the model is answered and, for want of a return
  (socket.rs:415), goes on to run as a turn as well.

Workflows:

- A parallel run launches its later chunks after a failure in an earlier one.
- A review loop without a reviewer's step publishes a start, and no end
  (runtime.rs:403-421). Nor has a run that is dropped with its turn an end.
- The `max_retries` of a step is never used, and `orchestrate_workflow` answers with
  "status": "success" when the run has failed (tools/orchestrator.rs:430).

Providers:

- A network error has no status and is neither retried nor counted.
- circuit_breaker.rs:12 says that an open breaker short-circuits requests. There is no
  check after a back-off, so a call admitted before it opened makes one more attempt
  (`StragglersStop` bounds this to one), and a success of it closes the breaker at once.
  A half-open breaker admits every caller, not one probe.
- A request that is cancelled is recorded as a failure of the model, and its fallbacks
  are tried; each fallback gets a new breaker, which is closed.

Cron and SOP:

- `run_job_now` leaves a one-time job enabled, and the scheduler executes it again;
  tools/cron.rs:216 says of `run_once` that the job is disabled after its next
  execution.
- The cron lock excludes nobody once its file is ten seconds old: a waiter removes it
  while a slow holder is inside, the holder's `Drop` removes the successor's, and of two
  waiters that found it old the second removes the new file of the first
  (cron/mod.rs:192-200, 217).
- The file of an SOP instance is written in place (sop/mod.rs:218): a save that fails or
  dies between the truncation and the content leaves a file that cannot be loaded, and
  the steps that were completed are lost with it. `resume_sop` then fails for good.
- An agent of an SOP step that panics reports nothing, and its run waits for it for ever
  (engine.rs:141): the run holds a sender itself (:55), so that `recv` never returns
  None.
- An SOP run that ends by an error, a drop or a death leaves the instance Running,
  which `resume_sop` refuses for good. Nothing ever sets Paused, the status that
  tools/sop.rs:17 offers to resume besides pending and failed ones.
- `trigger_sop` does not reject a cycle of dependencies (docs/architecture.md:59):
  the steps outside it are executed and the instance then fails with no failed step.
  `validate_sop_definition` is called by tests only. This is why `FailedIsRetried`
  assumes an acyclic definition.


## 6. What is only model-checked, and what is not modelled

Only model-checked: the eight liveness properties (`LockIsRecovered`, `LeaseExpires`,
`Recurs`, `RunEnds`, the two `TurnEnds`, `EndArrives`, `Recovery`), the two violations
of section 5, and that the components behave at all (every action fires in a
passing run).

Left out of modelled components: the log of run records and the parsing of
schedules (data); prompts, templates and outputs of SOP steps, a definition edited
between creation and resume, the listing of instances, an instance whose very first save (by
`trigger_sop`) breaks off, so that there is nothing to lose; Build (changes nothing
shared), the curator's skills, workflows and traces (other files), archive and
delete of sessions, `start_new_channel_session` and `resume_channel_session` (their
unlocked load and save is that of `save_session_overrides`), a subagent's turn that
its timeout drops (as an interrupt, in a session of its own); frames that ask for
data or edit files; the rules by which a call needs an approval; the gate of the tools,
the prefetch of read-only calls, the repetition of a tool call after a transient error
(the same call, which looks at the flag again first), and a turn of the gateway that
panics; the chain of fallback providers; the counter of
terminal cancels, the shutdown flag and the registry of children.

The larger part of the repository is not listed line by line: independent tools
(documents, media, search, browsers), user interfaces, wire formats and prompts.
They have no state that two actors share or a step of which can be lost, so a model
of them would restate them. The models cover a small share of all lines for
that reason, and most of the lines where actors meet.

Hazards known and not listed for a property of their own, because they are
local, or only statistics depend on them: the lost updates of health records
(subagents/health.rs:73, model_registry.rs:112), two cancels that send the same
count (shutdown.rs:26), a child registered during the shutdown (shutdown.rs:99), a
process entered twice (tools/task_manager.rs:160), the handle of a newer curator that
is not waited for (agent_loop/save.rs:82), a rollback of a file that is not text
(core/heal.rs:107), the gate of the tools (tool_pipeline.rs:265).


## 7. Plan

Done: CronStore, CronScheduler, SopEngine, SessionTurns with interrupts, GatewayTurns,
EventBroker and Orchestrator, ProviderCalls, all with proofs of their safety
properties, refinements of four abstract
specifications among them. In this order next:

1. The channel commands that reset and resume a session without its locks, and the
   archive of a session, in SessionTurns.
2. GatewayTurns and EventBroker in one instance: `Demote` is then the broker's `TimeOut`,
   and the channel of a client has events and the frames of its turns.
3. ConfigWatcher: the debounce, and that the last change is loaded.
4. The registries of children and tasks at shutdown, and the gate of the tools.
