---------------------------- MODULE SessionTurns ----------------------------
(***************************************************************************)
(* The turns of the agent on one session: AgentLoop::run and the states    *)
(* Restore, Compact, Command, Run and Save of a turn (src/agent/           *)
(* agent_loop), over the file of the session (src/session.rs).             *)
(*                                                                         *)
(* A turn takes the mutex its process keeps for the session, then the file *)
(* lock every process competes for, loads the session, changes its copy    *)
(* and saves it several times.  Two kinds of step touch the file without   *)
(* the file lock: a turn that carries overrides saves them before it takes *)
(* any lock, and the curator, spawned when a turn ends, saves what it has  *)
(* learnt under the mutex of its process only.  The curator of turn t is   *)
(* the phase "review" of t.  The terminal drops a turn that its user       *)
(* interrupts, and what the turn had begun in the thread pool goes on.     *)
(***************************************************************************)
EXTENDS Naturals, Sequences, Functions

CONSTANTS
  Turns,        \* the turns, each asked for once
  Procs,        \* the processes that use the session
  ProcOf,       \* the process a turn runs in
  Overriding,   \* the turns that carry overrides (a model, for instance)
  Interruptible,\* the turns of a terminal, which its user may interrupt
  Curators,     \* whether turns spawn a curator
  Faults,       \* whether processes die and writes fail
  Chain0,       \* the hash chain of the file found at the start
  Past,         \* the author of the messages found at the start
  Nobody,       \* no turn
  MaxTries,     \* SESSION_LOCK_RETRY_ATTEMPTS
  KeepRecent    \* the messages a compaction keeps, at least

Chains == {"Valid", "Legacy", "Tampered"}  \* ChainIntegrity

ASSUME ProcsAssumption == ProcOf \in [Turns -> Procs]
ASSUME OverridingAssumption == Overriding \subseteq Turns
ASSUME InterruptibleAssumption == Interruptible \subseteq Turns \ Overriding
ASSUME FlagsAssumption == Curators \in BOOLEAN /\ Faults \in BOOLEAN
ASSUME NobodyAssumption == Nobody \notin Turns /\ Past \notin Turns /\ Past # Nobody
ASSUME Chain0Assumption == Chain0 \in Chains
ASSUME MaxTriesAssumption == MaxTries \in Nat \ {0} /\ KeepRecent \in Nat \ {0}

Authors == Turns \union {Past}
Messages == [of : Authors, role : {"user", "tools", "reply"}]

(***************************************************************************)
(* A session: its messages, the state of their hash chain, the turn whose  *)
(* message last set updated_at, the turn whose overrides and the turn      *)
(* whose memory its metadata hold.                                         *)
(***************************************************************************)
Session == [messages : Seq(Messages), chain : Chains,
            at : Authors \union {Nobody},
            model : Turns \union {Nobody}, memory : Turns \union {Nobody}]

NewSession == [messages |-> <<>>, chain |-> "Valid", at |-> Nobody,
               model |-> Nobody, memory |-> Nobody]

User(t) == [of |-> t, role |-> "user"]
Reply(t) == [of |-> t, role |-> "reply"]

PastSession == [NewSession EXCEPT !.messages = <<User(Past), Reply(Past)>>,
                                  !.chain = Chain0, !.at = Past]

\* What a directory entry leads to.  A truncated file is Empty, one that two
\* writers wrote over each other may be Torn; neither parses.
Absent == [file |-> "absent"]
Empty == [file |-> "empty"]
Torn == [file |-> "torn"]
File(s) == [file |-> "session", session |-> s]
Files == {Absent, Empty, Torn} \union [file : {"session"}, session : Session]

VARIABLES
  path,     \* <key>.json
  tmp,      \* <key>.json.tmp, the one temporary file of all savers
  open,     \* where the file a saver has open is linked: tmp, path or nowhere
  flock,    \* the holder of the lock of <key>.lock
  mutex,    \* for each process, the holder of its mutex for the session
  pc,       \* the phase of each turn
  step,     \* inside a save or a migration: what is done of it
  tries,    \* the attempts a turn has made at the file lock
  copy,     \* the session as the turn has it in memory
  promised, \* history: the messages of turns that ended well
  wiped     \* history: the messages /clear or a compaction removed

turnvars == <<pc, step, tries, copy>>
vars == <<path, tmp, open, flock, mutex, turnvars, promised, wiped>>

\* The phases between a successful Restore of the lock and the end of a turn.
Locked == {"load", "restored", "compact", "command", "edited",
           "run", "asking", "partial", "ran", "final"}

\* What is left of a dropped turn: a call of load, of write or of rename.
Leftovers == {"loading", "writing", "renaming"}

SavePhases == {"override", "restored", "edited", "partial", "ran", "final", "review",
               "writing", "renaming"}
LoadPhases == {"preload", "load", "loading", "reload"}
Over == {"ended", "alarmed", "failed", "dropped", "dead"}   \* alarmed: /audit failed
Phases == {"new", "waiting", "locking", "learn", "relock"} \union Over
            \union Locked \union SavePhases \union LoadPhases

Init ==
  /\ path \in {Absent, File(PastSession)}
  /\ tmp = Absent
  /\ open = [t \in Turns |-> "none"]
  /\ flock = Nobody
  /\ mutex = [p \in Procs |-> Nobody]
  /\ pc = [t \in Turns |-> "new"]
  /\ step = [t \in Turns |-> "start"]
  /\ tries = [t \in Turns |-> 0]
  /\ copy = [t \in Turns |-> NewSession]
  /\ promised = IF path = Absent THEN {} ELSE Range(PastSession.messages)
  /\ wiped = {}

------------------------------------------------------------------------------
(* Moving between phases. *)

Goto(t, phase) ==
  /\ pc' = [pc EXCEPT ![t] = phase]
  /\ step' = [step EXCEPT ![t] = "start"]

\* Mutant: a turn that returns keeps the mutex of its process.
ReleaseFile(t) ==
  /\ flock' = IF flock = t THEN Nobody ELSE flock
  /\ UNCHANGED mutex

\* A turn or a curator returns: its context drops the file lock, its task the
\* mutex.  What it had in memory is gone.
Release(t) ==
  /\ flock' = IF flock = t THEN Nobody ELSE flock
  /\ mutex' = [p \in Procs |-> IF mutex[p] = t THEN Nobody ELSE mutex[p]]

Finish(t, phase) ==
  /\ Goto(t, phase)
  /\ Release(t)
  /\ copy' = [copy EXCEPT ![t] = NewSession]

\* A dropped turn, which holds no lock any more, has nothing left in the pool.
Vanish(t) ==
  /\ Goto(t, "dropped")
  /\ copy' = [copy EXCEPT ![t] = NewSession]

KeepLocks == UNCHANGED <<flock, mutex>>
KeepFiles == UNCHANGED <<path, tmp, open>>
KeepHistory == UNCHANGED <<promised, wiped>>

------------------------------------------------------------------------------
(* SessionManager::load and save. *)

\* save signs the copy it writes, whatever chain the session came with.
Signed(s) == [s EXCEPT !.chain = "Valid"]

\* Mutant: writing the session file itself, without the temporary file.
SaveOpenInPlace(t) ==
  /\ pc[t] \in SavePhases /\ step[t] = "start"
  /\ path' = Empty
  /\ open' = [open EXCEPT ![t] = "path"]
  /\ step' = [step EXCEPT ![t] = "opened"]
  /\ UNCHANGED <<tmp, pc, tries, copy>> /\ KeepLocks /\ KeepHistory

\* tokio::fs::write creates or truncates the temporary file ...
SaveOpen(t) ==
  /\ pc[t] \in SavePhases /\ step[t] = "start"
  /\ tmp' = Empty
  /\ open' = [open EXCEPT ![t] = "tmp"]
  /\ step' = [step EXCEPT ![t] = "opened"]
  /\ UNCHANGED <<path, pc, tries, copy>> /\ KeepLocks /\ KeepHistory

\* What a file holds once s is written from its start: the tail of a longer
\* text written there since it was truncated stays.
Overwritten(old, s) == IF old = Empty THEN {File(s)} ELSE {File(s), Torn}

WriteTo(t, s) ==
  /\ tmp' \in IF open[t] = "tmp" THEN Overwritten(tmp, s) ELSE {tmp}
  /\ path' \in IF open[t] = "path" THEN Overwritten(path, s) ELSE {path}
  /\ open' = [open EXCEPT ![t] = "none"]

\* ... and writes it, wherever the file it opened is linked by now.
SaveWrite(t) ==
  /\ pc[t] \in SavePhases /\ step[t] = "opened"
  /\ WriteTo(t, Signed(copy[t]))
  /\ \/ pc[t] = "writing" /\ Vanish(t)
     \/ /\ pc[t] # "writing"
        /\ step' = [step EXCEPT ![t] = "written"]
        /\ UNCHANGED <<pc, copy>>
  /\ UNCHANGED tries /\ KeepLocks /\ KeepHistory

\* Restore, Run and the overrides only log a failed save and go on.
AfterSave == [override |-> "waiting", restored |-> "compact", partial |-> "run",
              ran |-> "final"]

\* What the user may count on after the turn: the message and what was added.
Kept(t) == {User(t)} \union {m \in Range(copy[t].messages) : m.of = t}

\* Save and the commands return it.
SaveReturns(t, ok) ==
  \/ /\ pc[t] \in DOMAIN AfterSave
     /\ Goto(t, AfterSave[pc[t]])
     /\ KeepLocks /\ UNCHANGED copy /\ KeepHistory
  \/ /\ pc[t] = "edited"
     /\ Finish(t, IF ok THEN "ended" ELSE "failed")
     /\ KeepHistory
  \/ /\ pc[t] = "final" /\ ~ok
     /\ Finish(t, "failed")
     /\ KeepHistory
  \/ /\ pc[t] = "final" /\ ok
     /\ \/ Curators /\ Goto(t, "learn") /\ Release(t) /\ UNCHANGED copy
        \/ Finish(t, "ended")     \* debounced: a curator ran recently
     /\ promised' = promised \union Kept(t)
     /\ UNCHANGED wiped
  \/ /\ pc[t] = "review"
     /\ Finish(t, "ended")
     /\ KeepHistory
  \/ /\ pc[t] \in {"writing", "renaming"}
     /\ Vanish(t)
     /\ KeepLocks /\ KeepHistory

\* The directory or the temporary file cannot be created, the write fails half
\* way, or the rename: the temporary file stays as it is.
SaveFails(t) ==
  /\ Faults
  /\ pc[t] \in SavePhases
  /\ \/ step[t] \in {"start", "written"} /\ KeepFiles
     \/ /\ step[t] = "opened"
        /\ tmp' = IF open[t] = "tmp" THEN Torn ELSE tmp
        /\ path' = IF open[t] = "path" THEN Torn ELSE path
        /\ open' = [open EXCEPT ![t] = "none"]
  /\ SaveReturns(t, FALSE)
  /\ UNCHANGED tries

Relinked(where) == IF where = "tmp" THEN "path" ELSE IF where = "path" THEN "gone" ELSE where

\* The rename moves whatever the temporary name leads to, and takes along the
\* files that other savers have open under it.
SaveRename(t) ==
  /\ pc[t] \in SavePhases /\ step[t] = "written"
  /\ IF tmp = Absent
     THEN UNCHANGED <<path, tmp, open>> /\ SaveReturns(t, FALSE)
     ELSE /\ path' = tmp
          /\ tmp' = Absent
          /\ open' = [u \in Turns |-> Relinked(open[u])]
          /\ SaveReturns(t, TRUE)
  /\ UNCHANGED tries

Save(t) == SaveOpen(t) \/ SaveWrite(t) \/ SaveFails(t) \/ SaveRename(t)

\* A message added in memory has no hash yet.
AddMessage(s, m, t) ==
  [s EXCEPT !.messages = Append(@, m), !.at = t,
            !.chain = IF @ = "Tampered" THEN @ ELSE "Legacy"]

\* What load returns: the session of the file, or what get_or_create makes up
\* when there is none or it does not parse.
Loaded(f) == IF f.file = "session" THEN f.session ELSE NewSession

\* Mutant: Restore starts every turn from a new session.
LoadForgets(t, s) ==
  /\ \/ /\ pc[t] = "preload"
        /\ copy' = [copy EXCEPT ![t] = [s EXCEPT !.model = t]]
        /\ Goto(t, "override")
     \/ /\ pc[t] = "load"
        /\ copy' = [copy EXCEPT ![t] = AddMessage(NewSession, User(t), t)]
        /\ Goto(t, "restored")
  /\ KeepLocks

\* What each caller of load does with the session it gets.
LoadReturns(t, s) ==
  /\ \/ /\ pc[t] = "preload"       \* save_session_overrides
        /\ copy' = [copy EXCEPT ![t] = [s EXCEPT !.model = t]]
        /\ Goto(t, "override")
     \/ /\ pc[t] = "load"          \* Restore
        /\ copy' = [copy EXCEPT ![t] = AddMessage(s, User(t), t)]
        /\ Goto(t, "restored")
     \/ /\ pc[t] = "loading"       \* nobody, any more
        /\ Vanish(t)
  /\ KeepLocks

Load(t) ==
  /\ pc[t] \in LoadPhases \ {"reload"} /\ step[t] = "start"
  /\ Loaded(path).chain # "Legacy"
  /\ LoadReturns(t, Loaded(path))
  /\ UNCHANGED tries /\ KeepFiles /\ KeepHistory

\* A session without hashes is signed and written back in place.
Migrate(t) ==
  /\ pc[t] \in LoadPhases \ {"reload"}
  /\ \/ /\ step[t] = "start"
        /\ Loaded(path).chain = "Legacy"
        /\ copy' = [copy EXCEPT ![t] = Signed(Loaded(path))]
        /\ step' = [step EXCEPT ![t] = "legacy"]
        /\ UNCHANGED pc /\ KeepLocks /\ KeepFiles
     \/ /\ step[t] = "legacy"
        /\ path' = Empty
        /\ open' = [open EXCEPT ![t] = "path"]
        /\ step' = [step EXCEPT ![t] = "opened"]
        /\ UNCHANGED <<tmp, pc, copy>> /\ KeepLocks
     \/ /\ step[t] = "opened"
        /\ WriteTo(t, copy[t])
        /\ LoadReturns(t, copy[t])
  /\ UNCHANGED tries /\ KeepHistory

------------------------------------------------------------------------------
(* The turn. *)

\* The channel that asks for the turn saves its overrides first.
Begin(t) ==
  /\ pc[t] = "new"
  /\ Goto(t, IF t \in Overriding THEN "preload" ELSE "waiting")
  /\ UNCHANGED <<tries, copy>> /\ KeepFiles /\ KeepLocks /\ KeepHistory

\* get_session_lock(key).lock().await
Enter(t) ==
  /\ pc[t] = "waiting" /\ mutex[ProcOf[t]] = Nobody
  /\ mutex' = [mutex EXCEPT ![ProcOf[t]] = t]
  /\ Goto(t, "locking")
  /\ UNCHANGED <<flock, tries, copy>> /\ KeepFiles /\ KeepHistory

\* Mutant: the turn goes on without the file lock after its last attempt.
TryLockAnyway(t) ==
  /\ pc[t] = "locking"
  /\ \/ /\ flock = Nobody
        /\ flock' = t
        /\ tries' = [tries EXCEPT ![t] = 0]
        /\ Goto(t, "load")
        /\ UNCHANGED <<mutex, copy>>
     \/ /\ flock # Nobody /\ tries[t] + 1 < MaxTries
        /\ tries' = [tries EXCEPT ![t] = @ + 1]
        /\ UNCHANGED <<pc, step, copy>> /\ KeepLocks
     \/ /\ flock # Nobody /\ tries[t] + 1 = MaxTries
        /\ tries' = [tries EXCEPT ![t] = 0]
        /\ Goto(t, "load") /\ KeepLocks /\ UNCHANGED copy
  /\ KeepFiles /\ KeepHistory

\* Mutant: the attempts are not bounded.
TryLockForever(t) ==
  /\ pc[t] = "locking"
  /\ IF flock = Nobody
     THEN flock' = t /\ Goto(t, "load") /\ UNCHANGED tries
     ELSE tries' = [tries EXCEPT ![t] = @ + 1] /\ UNCHANGED <<flock, pc, step>>
  /\ UNCHANGED <<mutex, copy>> /\ KeepFiles /\ KeepHistory

\* Mutant: the turn waits for the file lock until it gets it.
TryLockAwaits(t) ==
  /\ pc[t] = "locking" /\ flock = Nobody
  /\ flock' = t
  /\ Goto(t, "load")
  /\ UNCHANGED <<mutex, tries, copy>> /\ KeepFiles /\ KeepHistory

\* acquire_lock_blocking: an attempt either takes the lock or is counted, also
\* when the lock file cannot be opened, and the last one makes the turn fail;
\* so does a directory that cannot be created, or a stale lock not removed.
TryLock(t) ==
  /\ pc[t] = "locking"
  /\ \/ /\ flock = Nobody
        /\ flock' = t
        /\ tries' = [tries EXCEPT ![t] = 0]
        /\ Goto(t, "load")
        /\ UNCHANGED <<mutex, copy>>
     \/ /\ flock # Nobody \/ Faults
        /\ tries[t] + 1 < MaxTries
        /\ tries' = [tries EXCEPT ![t] = @ + 1]
        /\ UNCHANGED <<pc, step, copy>> /\ KeepLocks
     \/ /\ (flock # Nobody /\ tries[t] + 1 = MaxTries) \/ Faults
        /\ tries' = [tries EXCEPT ![t] = 0]
        /\ Finish(t, "failed")
  /\ KeepFiles /\ KeepHistory

\* resolve_compaction_split_index: the last user message that leaves enough
\* recent messages, else the middle.
IsSplitIndex(k, messages) ==
  LET users == {j \in 1 .. Len(messages) - KeepRecent : messages[j + 1].role = "user"}
  IN  \/ k \in users /\ \A j \in users : j <= k
      \/ users = {} /\ k = Len(messages) \div 2

\* The hashes of the kept messages continue a chain that is cut.
Compacted(s, k) ==
  [s EXCEPT !.messages = SubSeq(@, k + 1, Len(@)),
            !.chain = IF k = Len(s.messages) - 1 THEN "Legacy" ELSE "Tampered"]

\* Whether the context is over its limit depends on the model and its tokens.
Compact(t) ==
  /\ pc[t] = "compact"
  /\ \/ UNCHANGED <<copy, wiped>>
     \/ /\ Len(copy[t].messages) > KeepRecent
        /\ \E k \in 1 .. Len(copy[t].messages) - 1 :
             /\ IsSplitIndex(k, copy[t].messages)
             /\ copy' = [copy EXCEPT ![t] = Compacted(copy[t], k)]
             /\ wiped' = wiped \union {copy[t].messages[i] : i \in 1 .. k}
  /\ Goto(t, "command")
  /\ UNCHANGED <<tries, promised>> /\ KeepFiles /\ KeepLocks

\* The chain of no messages is valid.
Cleared(s) == [s EXCEPT !.messages = <<>>, !.chain = "Valid"]

Edited(t, s) ==
  /\ copy' = [copy EXCEPT ![t] = s]
  /\ Goto(t, "edited")
  /\ UNCHANGED promised /\ KeepLocks

Clear(t) ==
  /\ Edited(t, Cleared(copy[t]))
  /\ wiped' = wiped \union Range(copy[t].messages)

\* /memory add and /memory clear
Remember(t) ==
  /\ \E m \in {t, Nobody} : Edited(t, [copy[t] EXCEPT !.memory = m])
  /\ UNCHANGED wiped

\* verify_hash_chain of the session in memory
Audit(t) ==
  /\ Finish(t, IF copy[t].chain = "Valid" THEN "ended" ELSE "alarmed")
  /\ KeepHistory

\* A slash command edits the session, checks it or only reads it (/help,
\* /status, /history); anything else is run.
Command(t) ==
  /\ pc[t] = "command"
  /\ \/ Goto(t, "run") /\ UNCHANGED copy /\ KeepLocks /\ KeepHistory
     \/ Clear(t) \/ Remember(t) \/ Audit(t)
     \/ Finish(t, "ended") /\ KeepHistory
  /\ UNCHANGED tries /\ KeepFiles

Tools(t) == [of |-> t, role |-> "tools"]

\* A round of tools, allowed or denied.  Rounds are saved every fifth iteration:
\* one saved round stands for all.
CallTools(t) ==
  /\ copy' = [copy EXCEPT ![t].messages = Append(@, Tools(t))]
  /\ Goto(t, "partial") /\ KeepLocks

\* A tool of it may need an approval, for which a terminal or a Telegram chat
\* is asked; the turn waits for the answer with the locks it has.
Ask(t) == Goto(t, "asking") /\ UNCHANGED copy /\ KeepLocks

Round(t) ==
  /\ \A i \in DOMAIN copy[t].messages : copy[t].messages[i] # Tools(t)
  /\ CallTools(t) \/ Ask(t)

\* The loop ends, with an answer or without one (halted, cancelled, no content).
Answer(t) ==
  /\ \/ copy' = [copy EXCEPT ![t].messages = Append(@, Reply(t))]
     \/ UNCHANGED copy
  /\ Goto(t, "ran") /\ KeepLocks

\* A cancelled request, and a question that asks the user to be clearer, go
\* straight to Save: what the user is shown is not in the session.
Interrupted(t) == Goto(t, "final") /\ UNCHANGED copy /\ KeepLocks

Run(t) ==
  /\ pc[t] = "run"
  /\ Round(t) \/ Answer(t) \/ Interrupted(t) \/ Finish(t, "failed")
  /\ UNCHANGED tries /\ KeepFiles /\ KeepHistory

\* The user approves the tool or denies it, sometime: there is no time-out.
UserAnswers(t) ==
  /\ pc[t] = "asking"
  /\ CallTools(t)
  /\ UNCHANGED tries /\ KeepFiles /\ KeepHistory

------------------------------------------------------------------------------
(* The curator. *)

\* Its model has something to remember, or not.
Learn(t) ==
  /\ pc[t] = "learn"
  /\ \/ Goto(t, "relock") /\ KeepLocks /\ UNCHANGED copy
     \/ Finish(t, "ended")
  /\ UNCHANGED tries /\ KeepFiles /\ KeepHistory

Relock(t) ==
  /\ pc[t] = "relock" /\ mutex[ProcOf[t]] = Nobody
  /\ mutex' = [mutex EXCEPT ![ProcOf[t]] = t]
  /\ Goto(t, "reload")
  /\ UNCHANGED <<flock, tries, copy>> /\ KeepFiles /\ KeepHistory

\* Mutant: the curator does not look whether the session changed.
SessionNeverChanged(t, s) == FALSE

\* initial_updated_at and initial_msg_count are those of the turn's own copy.
SessionChanged(t, s) == s.at # copy[t].at \/ Len(s.messages) # Len(copy[t].messages)

\* The memory is written into the session as it is now, unless it is not the
\* session that was reviewed.
Reload(t) ==
  /\ pc[t] = "reload"
  /\ IF path.file # "session" \/ SessionChanged(t, Loaded(path))
     THEN Finish(t, "ended")
     ELSE /\ copy' = [copy EXCEPT ![t] = [Loaded(path) EXCEPT !.memory = t]]
          /\ Goto(t, "review") /\ KeepLocks
  /\ UNCHANGED tries /\ KeepFiles /\ KeepHistory

------------------------------------------------------------------------------
(* The user of a terminal interrupts a turn: the handle of its task is       *)
(* aborted, at any await, and its future dropped with the locks it has.  A   *)
(* lock that it was about to get is dropped as soon as it is there.          *)

\* The calls of load, write and rename are closures of the thread pool.
Closure(t) ==
  IF pc[t] = "load" THEN "loading" ELSE IF step[t] = "written" THEN "renaming" ELSE "writing"

Interrupt(t) ==
  /\ t \in Interruptible
  /\ pc[t] \in {"waiting", "locking"} \union Locked
  /\ \/ /\ pc[t] \in SavePhases \union {"load"}       \* the closure it waits for goes on
        /\ pc' = [pc EXCEPT ![t] = Closure(t)]
        /\ UNCHANGED <<step, copy>>
     \/ /\ step[t] \in {"start", "written"}         \* it has not handed one over
        /\ Vanish(t)
  /\ Release(t)
  /\ tries' = [tries EXCEPT ![t] = 0]
  /\ KeepFiles /\ KeepHistory

------------------------------------------------------------------------------
(* A process dies: the system drops its locks and closes its files. *)

Busy(t) == pc[t] \notin Over \union {"new"}

Crash(p) ==
  /\ Faults
  /\ \E t \in Turns : ProcOf[t] = p /\ Busy(t)
  /\ LET killed == {t \in Turns : ProcOf[t] = p /\ Busy(t)}
     IN  /\ pc' = [t \in Turns |-> IF t \in killed THEN "dead" ELSE pc[t]]
         /\ open' = [t \in Turns |-> IF t \in killed THEN "none" ELSE open[t]]
         /\ copy' = [t \in Turns |-> IF t \in killed THEN NewSession ELSE copy[t]]
         /\ step' = [t \in Turns |-> IF t \in killed THEN "start" ELSE step[t]]
         /\ tries' = [t \in Turns |-> IF t \in killed THEN 0 ELSE tries[t]]
         /\ flock' = IF flock \in killed THEN Nobody ELSE flock
  /\ mutex' = [mutex EXCEPT ![p] = Nobody]
  /\ UNCHANGED <<path, tmp>> /\ KeepHistory

Step(t) ==
  \/ Begin(t) \/ Enter(t) \/ TryLock(t) \/ Load(t) \/ Migrate(t)
  \/ Compact(t) \/ Command(t) \/ Run(t) \/ Save(t)
  \/ Learn(t) \/ Relock(t) \/ Reload(t)

Next == (\E t \in Turns : Step(t) \/ UserAnswers(t) \/ Interrupt(t)) \/ (\E p \in Procs : Crash(p))

Spec == Init /\ [][Next]_vars

\* Every task of a process runs until it waits: fairness of each turn.  Nothing
\* makes a user answer.
FairSpec == Spec /\ \A t \in Turns : WF_vars(Step(t))

------------------------------------------------------------------------------
(* Properties. *)

\* The shape of the state.
TypeOK ==
  /\ path \in Files /\ tmp \in Files
  /\ open \in [Turns -> {"none", "tmp", "path", "gone"}]
  /\ flock \in Turns \union {Nobody}
  /\ mutex \in [Procs -> Turns \union {Nobody}]
  /\ pc \in [Turns -> Phases]
  /\ step \in [Turns -> {"start", "legacy", "opened", "written"}]
  /\ tries \in [Turns -> 0 .. MaxTries]
  /\ copy \in [Turns -> Session]
  /\ promised \subseteq Messages /\ wiped \subseteq Messages

\* "Only one agent can use a session at a time": no two turns are past the file
\* lock, whatever their processes, and whichever of them are interrupted.
OneTurnAtATime == \A t, u \in Turns : pc[t] \in Locked /\ pc[u] \in Locked => t = u

\* The session on disk never loses a message of a turn that ended well, unless a
\* command cleared it or a compaction folded it into the summary.
TurnsAreKept == promised \ wiped \subseteq Range(Loaded(path).messages)

\* The same when every turn is over.
SettledTurnsAreKept == (\A t \in Turns : pc[t] \in Over) => TurnsAreKept

\* The session file is never half written: every load of it succeeds.
SessionParses == path.file \in {"absent", "session"}

\* The turn that has the session: past the file lock, or a curator past the mutex.
Inside == {t \in Turns : pc[t] \in Locked \union {"reload", "review"}}

Readable == {f \in Files : f.file \in {"absent", "session"}}

\* Turns implement SessionStore: whatever fails or dies, only the one turn that has
\* the session replaces the file, by a whole session that has every message which
\* was promised and not removed.
Store == INSTANCE SessionStore WITH
           Contents <- Readable, content <- path, said <- Range(Loaded(path).messages),
           inside <- Inside, kept <- promised \ wiped

ImplementsSessionStore == Store!Spec

\* What a curator saves is about the newest turn of the session.
ReviewIsFresh ==
  [][\A t \in Turns : pc[t] = "review" /\ path' # path /\ pc'[t] = "ended"
        => Loaded(path).at = t]_vars

\* A turn that was asked for is over in the end, whoever else uses the session,
\* whichever turns are interrupted and whichever processes die; unless a turn of
\* its own process, which may be itself, waits for its user for ever.  A user of
\* another process who never answers holds up nobody.
TurnEnds ==
  \A t \in Turns :
    \/ []<>(~Busy(t))
    \/ \E u \in Turns : ProcOf[u] = ProcOf[t] /\ <>[](pc[u] = "asking")
==============================================================================
