------------------------ MODULE SessionTurns_proofs ------------------------
(***************************************************************************)
(* Proofs about SessionTurns, for every set of turns and processes and     *)
(* every choice of overrides, interrupts, curators, faults and first file. *)
(***************************************************************************)
EXTENDS SessionTurns, TLAPS

\* The phases under the mutex of the process.
Entered == Locked \union {"locking", "reload", "review"}

\* A turn in a phase holds the locks of the phase, and without curators no turn
\* has the phases of one.
HoldsLocks(t) ==
  /\ pc[t] \in Locked => flock = t
  /\ pc[t] \in Entered => mutex[ProcOf[t]] = t
  /\ pc[t] \in {"learn", "relock", "reload", "review"} => Curators

LockInv == \A t \in Turns : HoldsLocks(t)

\* What a turn does in the state Run, and what its user does for it there.
Working(t) == Run(t) \/ UserAnswers(t)

\* What a turn does by itself or with its user's answer.
Acts(t) == Step(t) \/ UserAnswers(t)

\* A turn that moves to a phase that needs no more locks keeps the invariant.
LEMMA MoveKeepsLocks ==
  ASSUME TypeOK, LockInv, NEW t \in Turns, NEW q \in Phases,
         Goto(t, q), KeepLocks,
         q \in Locked => pc[t] \in Locked,
         q \in Entered => pc[t] \in Entered,
         q \in {"learn", "relock", "reload", "review"} =>
           pc[t] \in {"learn", "relock", "reload", "review"}
  PROVE  LockInv'
BY DEF TypeOK, LockInv, HoldsLocks, Goto, KeepLocks

\* So does one that gives its locks up.
LEMMA ReleaseKeepsLocks ==
  ASSUME TypeOK, LockInv, NEW t \in Turns, NEW q \in Phases,
         Goto(t, q), Release(t),
         q \notin Entered, q \in {"learn", "relock"} => Curators
  PROVE  LockInv'
<1> USE ProcsAssumption, NobodyAssumption
<1>1. Locked \subseteq Entered
  BY DEF Entered
<1> SUFFICES ASSUME NEW u \in Turns PROVE HoldsLocks(u)'
  BY DEF LockInv
<1>2. HoldsLocks(u)
  BY DEF LockInv
<1>3. CASE u = t
  BY <1>1, <1>2, <1>3 DEF TypeOK, HoldsLocks, Goto, Release, Entered
<1>4. CASE u # t
  <2>1. pc'[u] = pc[u]
    BY <1>4 DEF Goto, TypeOK
  <2>2. flock = u => flock' = u
    BY <1>4 DEF Release
  <2>3. mutex[ProcOf[u]] = u => mutex'[ProcOf[u]] = u
    BY <1>4 DEF Release, TypeOK
  <2> QED BY <1>2, <2>1, <2>2, <2>3 DEF HoldsLocks
<1> QED BY <1>3, <1>4

-----------------------------------------------------------------------------
(* Types. *)

LEMMA MessageTypes ==
  \A t \in Authors : /\ User(t) \in Messages /\ Reply(t) \in Messages
                     /\ Tools(t) \in Messages
BY DEF User, Reply, Tools, Messages

LEMMA NewSessionType == NewSession \in Session
BY DEF NewSession, Session, Chains, Messages

LEMMA SignedType == \A s \in Session : Signed(s) \in Session
BY DEF Signed, Session, Chains

\* One field at a time.
LEMMA FieldTypes ==
  \A s \in Session :
    /\ \A m \in Seq(Messages) : [s EXCEPT !.messages = m] \in Session
    /\ \A c \in Chains : [s EXCEPT !.chain = c] \in Session
    /\ \A a \in Authors \union {Nobody} : [s EXCEPT !.at = a] \in Session
    /\ \A o \in Turns \union {Nobody} : [s EXCEPT !.model = o] \in Session
    /\ \A o \in Turns \union {Nobody} : [s EXCEPT !.memory = o] \in Session
BY DEF Session

LEMMA AddMessageType ==
  \A s \in Session, m \in Messages, t \in Turns :
     /\ AddMessage(s, m, t) \in Session
     /\ AddMessage(s, m, t).messages = Append(s.messages, m)
<1> TAKE s \in Session, m \in Messages, t \in Turns
<1> DEFINE s1 == [s EXCEPT !.messages = Append(s.messages, m)]
           s2 == [s1 EXCEPT !.at = t]
           c == IF s.chain = "Tampered" THEN s.chain ELSE "Legacy"
<1>1. s1 \in Session /\ s1.messages = Append(s.messages, m)
  <2>1. Append(s.messages, m) \in Seq(Messages)
    BY DEF Session
  <2> QED BY <2>1, FieldTypes DEF Session
<1>2. s2 \in Session /\ s2.messages = s1.messages
  <2>1. t \in Authors \union {Nobody}
    BY DEF Authors
  <2> QED BY <1>1, <2>1, FieldTypes DEF Session
<1>3. c \in Chains
  BY DEF Session, Chains
<1> HIDE DEF c
<1>4. [s2 EXCEPT !.chain = c] \in Session /\ [s2 EXCEPT !.chain = c].messages = s2.messages
  BY <1>2, <1>3, FieldTypes DEF Session
<1>5. AddMessage(s, m, t) = [s2 EXCEPT !.chain = c]
  BY DEF AddMessage, c
<1> QED BY <1>1, <1>2, <1>4, <1>5

LEMMA CompactedType ==
  \A s \in Session : \A k \in 1 .. Len(s.messages) - 1 :
     /\ Compacted(s, k) \in Session
     /\ Compacted(s, k).messages = SubSeq(s.messages, k + 1, Len(s.messages))
<1> TAKE s \in Session
<1> TAKE k \in 1 .. Len(s.messages) - 1
<1> DEFINE kept == SubSeq(s.messages, k + 1, Len(s.messages))
           s1 == [s EXCEPT !.messages = kept]
           c == IF k = Len(s.messages) - 1 THEN "Legacy" ELSE "Tampered"
<1>1. kept \in Seq(Messages)
  <2>1. s.messages \in Seq(Messages)
    BY DEF Session
  <2> QED BY <2>1
<1> HIDE DEF kept
<1>2. s1 \in Session /\ s1.messages = kept
  BY <1>1, FieldTypes DEF Session
<1>3. c \in Chains
  BY DEF Chains
<1> HIDE DEF c
<1>4. [s1 EXCEPT !.chain = c] \in Session /\ [s1 EXCEPT !.chain = c].messages = s1.messages
  BY <1>2, <1>3, FieldTypes DEF Session
<1>5. Compacted(s, k) = [s1 EXCEPT !.chain = c]
  BY DEF Compacted, c, kept
<1> QED BY <1>2, <1>4, <1>5 DEF kept

LEMMA ClearedType ==
  \A s \in Session : Cleared(s) \in Session /\ Cleared(s).messages = <<>>
<1> TAKE s \in Session
<1> DEFINE s1 == [s EXCEPT !.messages = <<>>]
<1>1. <<>> \in Seq(Messages)
  OBVIOUS
<1>2. s1 \in Session /\ s1.messages = <<>>
  BY <1>1, FieldTypes DEF Session
<1>3. [s1 EXCEPT !.chain = "Valid"] \in Session /\ [s1 EXCEPT !.chain = "Valid"].messages = <<>>
  BY <1>2, FieldTypes DEF Session, Chains
<1>4. Cleared(s) = [s1 EXCEPT !.chain = "Valid"]
  BY DEF Cleared
<1> QED BY <1>3, <1>4

LEMMA PastType ==
  /\ PastSession \in Session /\ PastSession.chain = Chain0
  /\ Range(PastSession.messages) \subseteq Messages
<1> DEFINE past == <<User(Past), Reply(Past)>>
           s1 == [NewSession EXCEPT !.messages = past]
           s2 == [s1 EXCEPT !.chain = Chain0]
<1>1. past \in Seq(Messages)
  <2>1. User(Past) \in Messages /\ Reply(Past) \in Messages
    BY MessageTypes DEF Authors
  <2> QED BY <2>1
<1> HIDE DEF past
<1>2. s1 \in Session
  BY <1>1, NewSessionType, FieldTypes
<1>3. s2 \in Session /\ s2.chain = Chain0
  BY <1>2, Chain0Assumption, FieldTypes DEF Session
<1>4. Past \in Authors \union {Nobody}
  BY DEF Authors
<1>5. [s2 EXCEPT !.at = Past] \in Session /\ [s2 EXCEPT !.at = Past].chain = Chain0
  BY <1>3, <1>4, FieldTypes DEF Session
<1>6. PastSession = [s2 EXCEPT !.at = Past]
  BY Zenon DEF PastSession, past
<1>7. PastSession \in Session /\ PastSession.chain = Chain0
  BY <1>5, <1>6
<1> QED BY <1>7 DEF Range, Session

LEMMA FileTypes ==
  /\ Absent \in Files /\ Empty \in Files /\ Torn \in Files
  /\ \A s \in Session : File(s) \in Files /\ File(s).file = "session" /\ File(s).session = s
BY DEF Files, File, Absent, Empty, Torn

LEMMA LoadedType == \A f \in Files : Loaded(f) \in Session
BY NewSessionType DEF Loaded, Files, Absent, Empty, Torn

LEMMA OverwrittenType ==
  \A f \in Files, s \in Session : Overwritten(f, s) \subseteq Files
BY FileTypes DEF Overwritten

LEMMA RangeType == \A s \in Session : Range(s.messages) \subseteq Messages
BY DEF Range, Session

\* The whole invariant of the locks.
IInv == TypeOK /\ LockInv

LEMMA InitIInv == Init => IInv
<1> SUFFICES ASSUME Init PROVE IInv
  OBVIOUS
<1>1. TypeOK
  BY PastType, NewSessionType, FileTypes, MaxTriesAssumption
     DEF Init, TypeOK, Phases
<1>2. LockInv
  BY DEF Init, LockInv, HoldsLocks, Entered, Locked
<1> QED BY <1>1, <1>2 DEF IInv

-----------------------------------------------------------------------------
(* Every action keeps the types and the locks. *)

\* Moving along keeps the types of what a move changes.
LEMMA GotoType ==
  ASSUME TypeOK, NEW t \in Turns, NEW q \in Phases, Goto(t, q)
  PROVE  /\ pc' \in [Turns -> Phases]
         /\ step' \in [Turns -> {"start", "legacy", "opened", "written"}]
BY DEF TypeOK, Goto

LEMMA ReleaseType ==
  ASSUME TypeOK, NEW t \in Turns, Release(t)
  PROVE  /\ flock' \in Turns \union {Nobody}
         /\ mutex' \in [Procs -> Turns \union {Nobody}]
BY DEF TypeOK, Release

LEMMA FinishKeeps ==
  ASSUME IInv, NEW t \in Turns, NEW q \in Over, Finish(t, q)
  PROVE  /\ pc' \in [Turns -> Phases]
         /\ step' \in [Turns -> {"start", "legacy", "opened", "written"}]
         /\ flock' \in Turns \union {Nobody}
         /\ mutex' \in [Procs -> Turns \union {Nobody}]
         /\ copy' \in [Turns -> Session]
         /\ LockInv'
<1>1. q \in Phases /\ q \notin Entered /\ q \notin {"learn", "relock"}
  BY DEF Over, Phases, Entered, Locked
<1>2. TypeOK /\ LockInv /\ Goto(t, q) /\ Release(t)
  BY DEF IInv, Finish
<1>3. copy' \in [Turns -> Session]
  BY NewSessionType, <1>2 DEF Finish, TypeOK
<1> QED BY <1>1, <1>2, <1>3, GotoType, ReleaseType, ReleaseKeepsLocks

LEMMA BeginKeeps == \A t \in Turns : IInv /\ Begin(t) => IInv'
<1> SUFFICES ASSUME NEW t \in Turns, IInv, Begin(t) PROVE IInv'
  OBVIOUS
<1> DEFINE q == IF t \in Overriding THEN "preload" ELSE "waiting"
<1>1. q \in Phases /\ q \notin Entered /\ q \notin Locked
      /\ q \notin {"learn", "relock", "reload", "review"}
  BY DEF Phases, LoadPhases, Entered, Locked
<1>2. TypeOK /\ LockInv /\ Goto(t, q) /\ KeepLocks
  BY DEF IInv, Begin
<1> HIDE DEF q
<1>3. LockInv'
  BY <1>1, <1>2, MoveKeepsLocks
<1>4. TypeOK'
  BY <1>1, <1>2, GotoType DEF Begin, TypeOK, KeepFiles, KeepLocks, KeepHistory
<1> QED BY <1>3, <1>4 DEF IInv

LEMMA EnterKeeps == \A t \in Turns : IInv /\ Enter(t) => IInv'
<1> SUFFICES ASSUME NEW t \in Turns, IInv, Enter(t) PROVE IInv'
  OBVIOUS
<1> USE ProcsAssumption, NobodyAssumption
<1>1. "locking" \in Phases /\ "locking" \notin Locked
  BY DEF Phases, Locked
<1>2. TypeOK /\ LockInv /\ Goto(t, "locking")
  BY DEF IInv, Enter
<1>3. TypeOK'
  BY <1>1, <1>2, GotoType DEF Enter, TypeOK, KeepFiles, KeepHistory
<1>4. LockInv'
  BY <1>1, <1>2 DEF Enter, Goto, TypeOK, LockInv, HoldsLocks, KeepFiles
<1> QED BY <1>3, <1>4 DEF IInv

LEMMA RelockKeeps == \A t \in Turns : IInv /\ Relock(t) => IInv'
<1> SUFFICES ASSUME NEW t \in Turns, IInv, Relock(t) PROVE IInv'
  OBVIOUS
<1> USE ProcsAssumption, NobodyAssumption
<1>1. "reload" \in Phases /\ "reload" \notin Locked
  BY DEF Phases, LoadPhases, Locked
<1>2. TypeOK /\ LockInv /\ Goto(t, "reload")
  BY DEF IInv, Relock
<1>3. TypeOK'
  BY <1>1, <1>2, GotoType DEF Relock, TypeOK, KeepFiles, KeepHistory
<1>4. LockInv'
  BY <1>1, <1>2 DEF Relock, Goto, TypeOK, LockInv, HoldsLocks, KeepFiles
<1> QED BY <1>3, <1>4 DEF IInv

LEMMA TryLockKeeps == \A t \in Turns : IInv /\ TryLock(t) => IInv'
<1> SUFFICES ASSUME NEW t \in Turns, IInv, TryLock(t) PROVE IInv'
  OBVIOUS
<1> USE ProcsAssumption, NobodyAssumption, MaxTriesAssumption
<1>1. CASE /\ flock = Nobody /\ flock' = t
           /\ tries' = [tries EXCEPT ![t] = 0]
           /\ Goto(t, "load") /\ UNCHANGED <<mutex, copy>>
  <2>1. "load" \in Phases /\ "load" \in Entered /\ "locking" \in Entered
    BY DEF Phases, LoadPhases, Entered, Locked
  <2>2. TypeOK /\ LockInv /\ Goto(t, "load")
    BY <1>1 DEF IInv
  <2>3. TypeOK'
    BY <1>1, <2>1, <2>2, GotoType DEF TryLock, TypeOK, KeepFiles, KeepHistory
  <2>4. LockInv'
    BY <1>1, <2>1, <2>2 DEF TryLock, Goto, TypeOK, LockInv, HoldsLocks
  <2> QED BY <2>3, <2>4 DEF IInv
<1>2. CASE /\ tries[t] + 1 < MaxTries
           /\ tries' = [tries EXCEPT ![t] = @ + 1]
           /\ UNCHANGED <<pc, step, copy>> /\ KeepLocks
  BY <1>2 DEF TryLock, IInv, TypeOK, LockInv, HoldsLocks, KeepLocks, KeepFiles, KeepHistory
<1>3. CASE tries' = [tries EXCEPT ![t] = 0] /\ Finish(t, "failed")
  <2>1. "failed" \in Over
    BY DEF Over
  <2> QED BY <1>3, <2>1, FinishKeeps DEF TryLock, IInv, TypeOK, KeepFiles, KeepHistory
<1> QED BY <1>1, <1>2, <1>3 DEF TryLock

\* A dropped turn without a lock that is over.
LEMMA VanishKeeps ==
  ASSUME IInv, NEW t \in Turns, Vanish(t), KeepLocks
  PROVE  /\ pc' \in [Turns -> Phases]
         /\ step' \in [Turns -> {"start", "legacy", "opened", "written"}]
         /\ flock' = flock /\ mutex' = mutex
         /\ copy' \in [Turns -> Session]
         /\ LockInv'
<1>1. /\ "dropped" \in Phases /\ "dropped" \notin Entered /\ "dropped" \notin Locked
      /\ "dropped" \notin {"learn", "relock", "reload", "review"}
  BY DEF Phases, Over, Entered, Locked
<1>2. TypeOK /\ LockInv /\ Goto(t, "dropped")
  BY DEF IInv, Vanish
<1>3. LockInv'
  BY <1>1, <1>2, MoveKeepsLocks
<1>4. copy' \in [Turns -> Session]
  BY <1>2, NewSessionType DEF Vanish, TypeOK
<1> QED BY <1>1, <1>2, <1>3, <1>4, GotoType DEF KeepLocks

LEMMA LoadReturnsKeeps ==
  ASSUME IInv, NEW t \in Turns, NEW s \in Session, LoadReturns(t, s)
  PROVE  /\ pc' \in [Turns -> Phases]
         /\ step' \in [Turns -> {"start", "legacy", "opened", "written"}]
         /\ copy' \in [Turns -> Session]
         /\ flock' = flock /\ mutex' = mutex
         /\ LockInv'
<1>1. CASE /\ pc[t] = "preload" /\ Goto(t, "override") /\ KeepLocks
           /\ copy' = [copy EXCEPT ![t] = [s EXCEPT !.model = t]]
  <2>1. "override" \in Phases /\ "override" \notin Entered /\ "override" \notin Locked
    BY DEF Phases, SavePhases, Entered, Locked
  <2>2. LockInv'
    BY <1>1, <2>1, MoveKeepsLocks DEF IInv
  <2>3. copy' \in [Turns -> Session]
    BY <1>1, FieldTypes DEF IInv, TypeOK
  <2> QED BY <1>1, <2>1, <2>2, <2>3, GotoType DEF IInv, KeepLocks
<1>2. CASE /\ pc[t] = "load" /\ Goto(t, "restored") /\ KeepLocks
           /\ copy' = [copy EXCEPT ![t] = AddMessage(s, User(t), t)]
  <2>1. "restored" \in Phases /\ "load" \in Locked /\ "load" \in Entered
    BY DEF Phases, Entered, Locked
  <2>2. LockInv'
    BY <1>2, <2>1, MoveKeepsLocks DEF IInv
  <2>3. User(t) \in Messages
    BY MessageTypes DEF Authors
  <2>4. copy' \in [Turns -> Session]
    BY <1>2, <2>3, AddMessageType DEF IInv, TypeOK
  <2> QED BY <1>2, <2>1, <2>2, <2>4, GotoType DEF IInv, KeepLocks
<1>3. CASE Vanish(t) /\ KeepLocks
  BY <1>3, VanishKeeps
<1> QED BY <1>1, <1>2, <1>3 DEF LoadReturns

LEMMA LoadKeeps == \A t \in Turns : IInv /\ Load(t) => IInv'
<1> SUFFICES ASSUME NEW t \in Turns, IInv, Load(t) PROVE IInv'
  OBVIOUS
<1>1. Loaded(path) \in Session
  BY LoadedType DEF IInv, TypeOK
<1>2. LoadReturns(t, Loaded(path))
  BY DEF Load
<1> QED BY <1>1, <1>2, LoadReturnsKeeps DEF Load, IInv, TypeOK, KeepFiles, KeepHistory

LEMMA WriteToType ==
  ASSUME TypeOK, NEW t \in Turns, NEW s \in Session, WriteTo(t, s)
  PROVE  /\ path' \in Files /\ tmp' \in Files
         /\ open' \in [Turns -> {"none", "tmp", "path", "gone"}]
<1>1. Overwritten(tmp, s) \subseteq Files /\ Overwritten(path, s) \subseteq Files
  BY OverwrittenType DEF TypeOK
<1> QED BY <1>1 DEF WriteTo, TypeOK

LEMMA MigrateKeeps == \A t \in Turns : IInv /\ Migrate(t) => IInv'
<1> SUFFICES ASSUME NEW t \in Turns, IInv, Migrate(t) PROVE IInv'
  OBVIOUS
<1>1. CASE /\ copy' = [copy EXCEPT ![t] = Signed(Loaded(path))]
           /\ step' = [step EXCEPT ![t] = "legacy"]
           /\ UNCHANGED pc /\ KeepLocks /\ KeepFiles
  <2>1. Signed(Loaded(path)) \in Session
    BY LoadedType, SignedType DEF IInv, TypeOK
  <2> QED BY <1>1, <2>1
        DEF Migrate, IInv, TypeOK, LockInv, HoldsLocks, KeepLocks, KeepFiles, KeepHistory
<1>2. CASE /\ path' = Empty /\ open' = [open EXCEPT ![t] = "path"]
           /\ step' = [step EXCEPT ![t] = "opened"]
           /\ UNCHANGED <<tmp, pc, copy>> /\ KeepLocks
  BY <1>2, FileTypes
     DEF Migrate, IInv, TypeOK, LockInv, HoldsLocks, KeepLocks, KeepHistory
<1>3. CASE WriteTo(t, copy[t]) /\ LoadReturns(t, copy[t])
  <2>1. copy[t] \in Session
    BY DEF IInv, TypeOK
  <2>2. path' \in Files /\ tmp' \in Files
        /\ open' \in [Turns -> {"none", "tmp", "path", "gone"}]
    BY <1>3, <2>1, WriteToType DEF IInv
  <2> QED BY <1>3, <2>1, <2>2, LoadReturnsKeeps DEF Migrate, IInv, TypeOK, KeepHistory
<1> QED BY <1>1, <1>2, <1>3 DEF Migrate

LEMMA CompactKeeps == \A t \in Turns : IInv /\ Compact(t) => IInv'
<1> SUFFICES ASSUME NEW t \in Turns, IInv, Compact(t) PROVE IInv'
  OBVIOUS
<1>1. "command" \in Phases /\ "compact" \in Locked /\ "compact" \in Entered
  BY DEF Phases, Entered, Locked
<1>2. TypeOK /\ LockInv /\ Goto(t, "command") /\ KeepLocks
  BY DEF IInv, Compact
<1>3. pc[t] = "compact"
  BY DEF Compact
<1>4. LockInv'
  BY <1>1, <1>2, <1>3, MoveKeepsLocks
<1>5. copy' \in [Turns -> Session] /\ wiped' \subseteq Messages
  <2>1. CASE UNCHANGED <<copy, wiped>>
    BY <2>1, <1>2 DEF TypeOK
  <2>2. ASSUME NEW k \in 1 .. Len(copy[t].messages) - 1,
               copy' = [copy EXCEPT ![t] = Compacted(copy[t], k)],
               wiped' = wiped \union {copy[t].messages[i] : i \in 1 .. k}
        PROVE  copy' \in [Turns -> Session] /\ wiped' \subseteq Messages
    <3>1. copy[t] \in Session
      BY <1>2 DEF TypeOK
    <3>2. copy[t].messages \in Seq(Messages)
      BY <3>1 DEF Session
    <3>3. {copy[t].messages[i] : i \in 1 .. k} \subseteq Messages
      BY <3>2
    <3> QED BY <2>2, <3>1, <3>3, <1>2, CompactedType DEF TypeOK
  <2> QED BY <2>1, <2>2 DEF Compact
<1>6. TypeOK'
  BY <1>1, <1>2, <1>5, GotoType DEF Compact, TypeOK, KeepFiles, KeepLocks
<1> QED BY <1>4, <1>6 DEF IInv

LEMMA CommandKeeps == \A t \in Turns : IInv /\ Command(t) => IInv'
<1> SUFFICES ASSUME NEW t \in Turns, IInv, Command(t) PROVE IInv'
  OBVIOUS
<1>1. /\ "run" \in Phases /\ "edited" \in Phases
      /\ "command" \in Locked /\ "command" \in Entered
  BY DEF Phases, Entered, Locked
<1>2. TypeOK /\ LockInv /\ pc[t] = "command" /\ UNCHANGED <<tries, path, tmp, open>>
  BY DEF IInv, Command, KeepFiles
<1>3. copy[t] \in Session /\ Range(copy[t].messages) \subseteq Messages
  BY <1>2, RangeType DEF TypeOK
<1>4. ASSUME NEW q \in {"run", "edited"}, Goto(t, q), KeepLocks,
             copy' \in [Turns -> Session],
             wiped' \subseteq Messages, promised' = promised
      PROVE  IInv'
  <2>1. LockInv'
    BY <1>1, <1>2, <1>4, MoveKeepsLocks
  <2>2. TypeOK'
    BY <1>1, <1>2, <1>4, GotoType DEF TypeOK, KeepLocks
  <2> QED BY <2>1, <2>2 DEF IInv
<1>5. ASSUME NEW q \in {"ended", "alarmed"}, Finish(t, q), KeepHistory
      PROVE  IInv'
  <2>1. q \in Over
    BY DEF Over
  <2> QED BY <1>2, <1>5, <2>1, FinishKeeps DEF IInv, TypeOK, KeepHistory
<1>6. CASE Goto(t, "run") /\ UNCHANGED copy /\ KeepLocks /\ KeepHistory
  BY <1>2, <1>4, <1>6 DEF TypeOK, KeepHistory
<1>7. CASE Clear(t)
  <2>1. Cleared(copy[t]) \in Session
    BY <1>3, ClearedType
  <2>2. copy' \in [Turns -> Session]
    BY <1>2, <1>7, <2>1 DEF Clear, Edited, TypeOK
  <2> QED BY <1>2, <1>3, <1>4, <1>7, <2>2 DEF Clear, Edited, TypeOK
<1>8. CASE Remember(t)
  <2>1. PICK m \in {t, Nobody} : Edited(t, [copy[t] EXCEPT !.memory = m])
    BY <1>8 DEF Remember
  <2>2. [copy[t] EXCEPT !.memory = m] \in Session
    BY <1>3, FieldTypes
  <2>3. copy' \in [Turns -> Session]
    BY <1>2, <2>1, <2>2 DEF Edited, TypeOK
  <2> QED BY <1>2, <1>4, <1>8, <2>1, <2>3 DEF Remember, Edited, TypeOK
<1>9. CASE Audit(t)
  BY <1>5, <1>9 DEF Audit
<1> QED BY <1>5, <1>6, <1>7, <1>8, <1>9 DEF Command

LEMMA RunKeeps == \A t \in Turns : IInv /\ Working(t) => IInv'
<1> SUFFICES ASSUME NEW t \in Turns, IInv, Working(t) PROVE IInv'
  OBVIOUS
<1>1. /\ {"asking", "partial", "ran", "final"} \subseteq Phases
      /\ {"run", "asking"} \subseteq Locked /\ {"run", "asking"} \subseteq Entered
  BY DEF Phases, Entered, Locked
<1>2. TypeOK /\ LockInv /\ pc[t] \in {"run", "asking"}
      /\ UNCHANGED <<tries, path, tmp, open, promised, wiped>>
  BY DEF IInv, Working, Run, UserAnswers, Round, Ask, KeepFiles, KeepHistory
<1>3. ASSUME NEW q \in {"partial", "ran"}, NEW m \in Messages, Goto(t, q), KeepLocks,
             copy' = [copy EXCEPT ![t].messages = Append(@, m)]
      PROVE  IInv'
  <2>1. LockInv'
    BY <1>1, <1>2, <1>3, MoveKeepsLocks
  <2>2. copy[t] \in Session
    BY <1>2 DEF TypeOK
  <2>3. Append(copy[t].messages, m) \in Seq(Messages)
    BY <2>2 DEF Session
  <2>4. [copy[t] EXCEPT !.messages = Append(@, m)] \in Session
    BY <2>2, <2>3, FieldTypes
  <2>5. copy' \in [Turns -> Session]
    BY <1>2, <1>3, <2>4 DEF TypeOK
  <2>6. TypeOK'
    BY <1>1, <1>2, <1>3, <2>5, GotoType DEF TypeOK, KeepLocks
  <2> QED BY <2>1, <2>6 DEF IInv
<1>4. CASE Finish(t, "failed")
  <2>1. "failed" \in Over
    BY DEF Over
  <2> QED BY <1>2, <1>4, <2>1, FinishKeeps DEF IInv, TypeOK
<1>5. Reply(t) \in Messages /\ Tools(t) \in Messages
  BY MessageTypes DEF Authors
<1>6. ASSUME NEW q \in {"asking", "ran", "final"}, Goto(t, q), KeepLocks, UNCHANGED copy
      PROVE  IInv'
  <2>1. LockInv'
    BY <1>1, <1>2, <1>6, MoveKeepsLocks
  <2>2. TypeOK'
    BY <1>1, <1>2, <1>6, GotoType DEF TypeOK, KeepLocks
  <2> QED BY <2>1, <2>2 DEF IInv
<1> QED BY <1>3, <1>4, <1>5, <1>6 DEF Working, Run, UserAnswers, Round, Ask, CallTools,
           Answer, Interrupted

LEMMA LearnKeeps == \A t \in Turns : IInv /\ Learn(t) => IInv'
<1> SUFFICES ASSUME NEW t \in Turns, IInv, Learn(t) PROVE IInv'
  OBVIOUS
<1>1. "relock" \in Phases /\ "relock" \notin Entered /\ "relock" \notin Locked
      /\ "ended" \in Over
  BY DEF Phases, Entered, Locked, Over
<1>2. TypeOK /\ LockInv /\ pc[t] = "learn"
      /\ UNCHANGED <<tries, path, tmp, open, promised, wiped>>
  BY DEF IInv, Learn, KeepFiles, KeepHistory
<1>3. CASE Goto(t, "relock") /\ KeepLocks /\ UNCHANGED copy
  <2>1. LockInv'
    BY <1>1, <1>2, <1>3, MoveKeepsLocks
  <2>2. TypeOK'
    BY <1>1, <1>2, <1>3, GotoType DEF TypeOK, KeepLocks
  <2> QED BY <2>1, <2>2 DEF IInv
<1>4. CASE Finish(t, "ended")
  BY <1>1, <1>2, <1>4, FinishKeeps DEF IInv, TypeOK
<1> QED BY <1>3, <1>4 DEF Learn

LEMMA ReloadKeeps == \A t \in Turns : IInv /\ Reload(t) => IInv'
<1> SUFFICES ASSUME NEW t \in Turns, IInv, Reload(t) PROVE IInv'
  OBVIOUS
<1>1. "review" \in Phases /\ "reload" \in Entered /\ "review" \notin Locked
      /\ "ended" \in Over
  BY DEF Phases, SavePhases, Entered, Locked, Over
<1>2. TypeOK /\ LockInv /\ pc[t] = "reload"
      /\ UNCHANGED <<tries, path, tmp, open, promised, wiped>>
  BY DEF IInv, Reload, KeepFiles, KeepHistory
<1>3. CASE /\ copy' = [copy EXCEPT ![t] = [Loaded(path) EXCEPT !.memory = t]]
           /\ Goto(t, "review") /\ KeepLocks
  <2>1. LockInv'
    BY <1>1, <1>2, <1>3, MoveKeepsLocks
  <2>2. [Loaded(path) EXCEPT !.memory = t] \in Session
    BY <1>2, LoadedType, FieldTypes DEF TypeOK
  <2>3. TypeOK'
    BY <1>1, <1>2, <1>3, <2>2, GotoType DEF TypeOK, KeepLocks
  <2> QED BY <2>1, <2>3 DEF IInv
<1>4. CASE Finish(t, "ended")
  BY <1>1, <1>2, <1>4, FinishKeeps DEF IInv, TypeOK
<1> QED BY <1>3, <1>4 DEF Reload

LEMMA SaveReturnsKeeps ==
  ASSUME IInv, NEW t \in Turns, NEW ok \in BOOLEAN, SaveReturns(t, ok)
  PROVE  /\ pc' \in [Turns -> Phases]
         /\ step' \in [Turns -> {"start", "legacy", "opened", "written"}]
         /\ flock' \in Turns \union {Nobody}
         /\ mutex' \in [Procs -> Turns \union {Nobody}]
         /\ copy' \in [Turns -> Session]
         /\ promised' \subseteq Messages /\ wiped' = wiped
         /\ LockInv'
<1>1. TypeOK /\ LockInv
  BY DEF IInv
<1>2. CASE /\ pc[t] \in DOMAIN AfterSave /\ Goto(t, AfterSave[pc[t]])
           /\ KeepLocks /\ UNCHANGED copy /\ KeepHistory
  <2> DEFINE q == AfterSave[pc[t]]
  <2>1. /\ q \in Phases /\ q \notin {"learn", "relock", "reload", "review"}
        /\ q \in Locked => pc[t] \in Locked
        /\ q \in Entered => pc[t] \in Entered
    BY <1>2 DEF AfterSave, Phases, Locked, Entered
  <2> HIDE DEF q
  <2>2. Goto(t, q)
    BY <1>2 DEF q
  <2>3. LockInv'
    BY <1>1, <1>2, <2>1, <2>2, MoveKeepsLocks
  <2> QED BY <1>1, <1>2, <2>1, <2>2, <2>3, GotoType DEF TypeOK, KeepLocks, KeepHistory
<1>3. ASSUME NEW q \in {"ended", "failed"}, Finish(t, q)
      PROVE  /\ pc' \in [Turns -> Phases]
             /\ step' \in [Turns -> {"start", "legacy", "opened", "written"}]
             /\ flock' \in Turns \union {Nobody}
             /\ mutex' \in [Procs -> Turns \union {Nobody}]
             /\ copy' \in [Turns -> Session]
             /\ LockInv'
  <2>1. q \in Over
    BY DEF Over
  <2> QED BY <1>3, <2>1, FinishKeeps
<1>4. ASSUME KeepHistory PROVE promised' \subseteq Messages /\ wiped' = wiped
  BY <1>1, <1>4 DEF KeepHistory, TypeOK
<1>5. CASE Finish(t, IF ok THEN "ended" ELSE "failed") /\ KeepHistory
  BY <1>3, <1>4, <1>5
<1>6. CASE Finish(t, "failed") /\ KeepHistory
  BY <1>3, <1>4, <1>6
<1>7. CASE Finish(t, "ended") /\ KeepHistory
  BY <1>3, <1>4, <1>7
<1>8. CASE /\ \/ Curators /\ Goto(t, "learn") /\ Release(t) /\ UNCHANGED copy
              \/ Finish(t, "ended")
           /\ promised' = promised \union Kept(t) /\ UNCHANGED wiped
  <2>1. promised' \subseteq Messages
    <3>1. User(t) \in Messages
      BY MessageTypes DEF Authors
    <3>2. Range(copy[t].messages) \subseteq Messages
      BY <1>1, RangeType DEF TypeOK
    <3>3. Kept(t) \subseteq Messages
      BY <3>1, <3>2 DEF Kept
    <3> QED BY <1>1, <1>8, <3>3 DEF TypeOK
  <2>2. CASE Finish(t, "ended")
    BY <1>3, <1>8, <2>1, <2>2
  <2>3. CASE Curators /\ Goto(t, "learn") /\ Release(t) /\ UNCHANGED copy
    <3>1. "learn" \in Phases /\ "learn" \notin Entered
      BY DEF Phases, Entered, Locked
    <3>2. LockInv'
      BY <1>1, <2>3, <3>1, ReleaseKeepsLocks
    <3> QED BY <1>1, <1>8, <2>1, <2>3, <3>1, <3>2, GotoType, ReleaseType DEF TypeOK
  <2> QED BY <1>8, <2>2, <2>3
<1>9. CASE Vanish(t) /\ KeepLocks /\ KeepHistory
  BY <1>1, <1>4, <1>9, VanishKeeps DEF TypeOK
<1> QED BY <1>2, <1>5, <1>6, <1>7, <1>8, <1>9 DEF SaveReturns

LEMMA SaveKeeps == \A t \in Turns : IInv /\ Save(t) => IInv'
<1> SUFFICES ASSUME NEW t \in Turns, IInv, Save(t) PROVE IInv'
  OBVIOUS
<1>1. CASE SaveOpen(t)
  BY <1>1, FileTypes
     DEF SaveOpen, IInv, TypeOK, LockInv, HoldsLocks, KeepLocks, KeepHistory
<1>2. CASE SaveWrite(t)
  <2>1. Signed(copy[t]) \in Session
    BY SignedType DEF IInv, TypeOK
  <2>2. path' \in Files /\ tmp' \in Files
        /\ open' \in [Turns -> {"none", "tmp", "path", "gone"}]
    BY <1>2, <2>1, WriteToType DEF SaveWrite, IInv
  <2>3. CASE Vanish(t)
    BY <1>2, <2>2, <2>3, VanishKeeps DEF SaveWrite, IInv, TypeOK, KeepLocks, KeepHistory
  <2>4. CASE step' = [step EXCEPT ![t] = "written"] /\ UNCHANGED <<pc, copy>>
    BY <1>2, <2>2, <2>4
       DEF SaveWrite, IInv, TypeOK, LockInv, HoldsLocks, KeepLocks, KeepHistory
  <2> QED BY <1>2, <2>3, <2>4 DEF SaveWrite
<1>3. CASE SaveFails(t)
  <2>1. SaveReturns(t, FALSE) /\ UNCHANGED tries
    BY <1>3 DEF SaveFails
  <2>2. path' \in Files /\ tmp' \in Files
        /\ open' \in [Turns -> {"none", "tmp", "path", "gone"}]
    BY <1>3, FileTypes DEF SaveFails, KeepFiles, IInv, TypeOK
  <2> QED BY <2>1, <2>2, SaveReturnsKeeps DEF IInv, TypeOK
<1>4. CASE SaveRename(t)
  <2>1. PICK ok \in BOOLEAN : SaveReturns(t, ok)
    BY <1>4 DEF SaveRename
  <2>2. path' \in Files /\ tmp' \in Files
        /\ open' \in [Turns -> {"none", "tmp", "path", "gone"}] /\ tries' = tries
    <3>1. /\ tries' = tries
          /\ \/ path' = path /\ tmp' = tmp /\ open' = open
             \/ /\ path' = tmp /\ tmp' = Absent
                /\ open' = [u \in Turns |-> Relinked(open[u])]
      BY <1>4, Zenon DEF SaveRename
    <3>2. path \in Files /\ tmp \in Files
          /\ open \in [Turns -> {"none", "tmp", "path", "gone"}]
      BY DEF IInv, TypeOK
    <3> HIDE DEF IInv
    <3> QED BY <3>1, <3>2, FileTypes DEF Relinked
  <2> QED BY <2>1, <2>2, SaveReturnsKeeps DEF IInv, TypeOK
<1> QED BY <1>1, <1>2, <1>3, <1>4 DEF Save

LEMMA InterruptKeeps == \A t \in Turns : IInv /\ Interrupt(t) => IInv'
<1> SUFFICES ASSUME NEW t \in Turns, IInv, Interrupt(t) PROVE IInv'
  OBVIOUS
<1> USE ProcsAssumption, NobodyAssumption
<1>1. TypeOK /\ LockInv /\ Release(t)
  BY DEF IInv, Interrupt
<1>2. /\ pc' \in [Turns -> Phases] /\ copy' \in [Turns -> Session]
      /\ step' \in [Turns -> {"start", "legacy", "opened", "written"}]
      /\ pc'[t] \in Leftovers \union {"dropped"}
      /\ \A u \in Turns : u # t => pc'[u] = pc[u]
  <2>1. CASE pc' = [pc EXCEPT ![t] = Closure(t)] /\ UNCHANGED <<step, copy>>
    <3>1. Closure(t) \in Leftovers /\ Leftovers \subseteq Phases
      BY DEF Closure, Leftovers, Phases, SavePhases, LoadPhases
    <3> HIDE DEF Closure
    <3> QED BY <1>1, <2>1, <3>1 DEF TypeOK
  <2>2. CASE Vanish(t)
    <3>1. "dropped" \in Phases
      BY DEF Phases, Over
    <3> QED BY <1>1, <2>2, <3>1, GotoType, NewSessionType DEF Vanish, Goto, TypeOK
  <2> QED BY <2>1, <2>2 DEF Interrupt
<1>3. tries' \in [Turns -> 0 .. MaxTries]
  BY <1>1, MaxTriesAssumption DEF Interrupt, TypeOK
<1>4. TypeOK'
  BY <1>1, <1>2, <1>3, ReleaseType DEF Interrupt, TypeOK, KeepFiles, KeepHistory
<1>5. ASSUME NEW u \in Turns PROVE HoldsLocks(u)'
  <2>1. HoldsLocks(u)
    BY <1>1 DEF LockInv
  <2>2. CASE u = t
    <3>1. pc'[u] \notin Locked /\ pc'[u] \notin Entered
          /\ pc'[u] \notin {"learn", "relock", "reload", "review"}
      BY <1>2, <2>2 DEF Leftovers, Locked, Entered
    <3> QED BY <3>1 DEF HoldsLocks
  <2>3. CASE u # t
    <3>1. pc'[u] = pc[u]
      BY <1>2, <2>3
    <3>2. flock = u => flock' = u
      BY <1>1, <2>3 DEF Release
    <3>3. mutex[ProcOf[u]] = u => mutex'[ProcOf[u]] = u
      BY <1>1, <2>3 DEF Release, TypeOK
    <3> QED BY <2>1, <3>1, <3>2, <3>3 DEF HoldsLocks
  <2> QED BY <2>2, <2>3
<1> QED BY <1>4, <1>5 DEF IInv, LockInv

LEMMA CrashKeeps == \A p \in Procs : IInv /\ Crash(p) => IInv'
<1> SUFFICES ASSUME NEW p \in Procs, IInv, Crash(p) PROVE IInv'
  OBVIOUS
<1> USE ProcsAssumption, NobodyAssumption
<1> DEFINE killed == {t \in Turns : ProcOf[t] = p /\ Busy(t)}
<1>0. "dead" \in Phases /\ "dead" \notin Entered /\ "dead" \notin Locked
  BY DEF Phases, Over, Entered, Locked
<1>1. /\ pc' = [t \in Turns |-> IF t \in killed THEN "dead" ELSE pc[t]]
      /\ open' = [t \in Turns |-> IF t \in killed THEN "none" ELSE open[t]]
      /\ copy' = [t \in Turns |-> IF t \in killed THEN NewSession ELSE copy[t]]
      /\ step' = [t \in Turns |-> IF t \in killed THEN "start" ELSE step[t]]
      /\ tries' = [t \in Turns |-> IF t \in killed THEN 0 ELSE tries[t]]
      /\ flock' = IF flock \in killed THEN Nobody ELSE flock
      /\ mutex' = [mutex EXCEPT ![p] = Nobody]
      /\ UNCHANGED <<path, tmp, promised, wiped>>
  BY DEF Crash, KeepHistory
<1>2. \A t \in Turns : t \notin killed => ProcOf[t] # p \/ pc[t] \in Over \union {"new"}
  BY DEF Busy
<1> HIDE DEF killed
<1>3. TypeOK'
  BY <1>0, <1>1, NewSessionType, MaxTriesAssumption DEF IInv, TypeOK
<1>4. LockInv'
  <2> SUFFICES ASSUME NEW u \in Turns PROVE HoldsLocks(u)'
    BY DEF LockInv
  <2>1. HoldsLocks(u)
    BY DEF IInv, LockInv
  <2>2. CASE u \in killed
    BY <1>0, <1>1, <2>2 DEF HoldsLocks
  <2>3. CASE u \notin killed
    <3>1. pc'[u] = pc[u]
      BY <1>1, <2>3
    <3>2. pc[u] \in Entered \union Locked => ProcOf[u] # p
      BY <1>2, <2>3 DEF Entered, Locked, Over
    <3>3. flock = u => flock' = u
      BY <1>1, <2>3
    <3>4. ProcOf[u] # p => mutex'[ProcOf[u]] = mutex[ProcOf[u]]
      BY <1>1 DEF IInv, TypeOK
    <3> QED BY <2>1, <3>1, <3>2, <3>3, <3>4 DEF HoldsLocks
  <2> QED BY <2>2, <2>3
<1> QED BY <1>3, <1>4 DEF IInv

LEMMA StepKeeps == IInv /\ [Next]_vars => IInv'
<1> SUFFICES ASSUME IInv, [Next]_vars PROVE IInv'
  OBVIOUS
<1>1. CASE UNCHANGED vars
  BY <1>1 DEF vars, turnvars, IInv, TypeOK, LockInv, HoldsLocks
<1>2. ASSUME NEW t \in Turns, Acts(t) PROVE IInv'
  BY <1>2, BeginKeeps, EnterKeeps, TryLockKeeps, LoadKeeps, MigrateKeeps, CompactKeeps,
     CommandKeeps, RunKeeps, SaveKeeps, LearnKeeps, RelockKeeps, ReloadKeeps DEF Acts, Step, Working
<1>3. ASSUME NEW p \in Procs, Crash(p) PROVE IInv'
  BY <1>3, CrashKeeps
<1>4. ASSUME NEW t \in Turns, Interrupt(t) PROVE IInv'
  BY <1>4, InterruptKeeps
<1> QED BY <1>1, <1>2, <1>3, <1>4 DEF Next, Acts

\* The invariant holds in every behaviour.
THEOREM Invariance == Spec => []IInv
BY InitIInv, StepKeeps, PTL DEF Spec

\* The state has its shape: the phases, files and sessions of the program.
THEOREM TypeCorrect == Spec => []TypeOK
<1>1. IInv => TypeOK
  BY DEF IInv
<1> QED BY <1>1, Invariance, PTL

\* One turn at a time is past the file lock, whatever the processes do and
\* however they die: the exclusion SessionManager::acquire_lock is for.
THEOREM Exclusion == Spec => []OneTurnAtATime
<1>1. IInv => OneTurnAtATime
  BY DEF IInv, LockInv, HoldsLocks, OneTurnAtATime
<1> QED BY <1>1, Invariance, PTL

-----------------------------------------------------------------------------
(* No lock is left behind, and no holder waits for one.                      *)

\* A lock has an owner that is at work under it: whoever has the file lock is past
\* it, and whoever has the mutex of a process is a turn or curator of that process
\* past the mutex.  So no lock outlives its turn, however it ends (with an error, an
\* interrupt, a death), and no turn waits for a mutex while it has one.
LocksHaveOwners ==
  /\ \A t \in Turns : flock = t => pc[t] \in Locked
  /\ \A p \in Procs : \A t \in Turns : mutex[p] = t => ProcOf[t] = p /\ pc[t] \in Entered

\* What a turn does with its locks: it keeps them and goes on under them, takes one,
\* or gives both up.
LEMMA StepLocks ==
  ASSUME TypeOK, NEW t \in Turns, Acts(t)
  PROVE  \/ /\ flock' = flock /\ mutex' = mutex
            /\ pc[t] \in Locked => pc'[t] \in Locked
            /\ pc[t] \in Entered => pc'[t] \in Entered
         \/ /\ flock' = flock /\ mutex' = [mutex EXCEPT ![ProcOf[t]] = t]
            /\ pc[t] \notin Entered \union Locked /\ pc'[t] \in Entered
         \/ /\ flock' = t /\ mutex' = mutex /\ pc'[t] \in Locked /\ pc'[t] \in Entered
         \/ Release(t)
<1>1. Locked \subseteq Entered
  BY DEF Entered
<1>2. CASE Begin(t) \/ Learn(t)
  BY <1>2 DEF Begin, Learn, Finish, KeepLocks, Entered, Locked
<1>3. CASE Enter(t)
  BY <1>3 DEF Enter, Goto, TypeOK, Entered, Locked
<1>4. CASE Relock(t)
  BY <1>4 DEF Relock, Goto, TypeOK, Entered, Locked
<1>5. CASE TryLock(t)
  BY <1>5 DEF TryLock, Goto, Finish, KeepLocks, TypeOK, Entered, Locked
<1>6. ASSUME NEW s, LoadReturns(t, s)
      PROVE  /\ flock' = flock /\ mutex' = mutex
             /\ pc[t] \in Entered => pc'[t] \in Entered
             /\ pc[t] \in Locked => pc'[t] \in Locked
  BY <1>6 DEF LoadReturns, Goto, Vanish, KeepLocks, TypeOK, Entered, Locked
<1>7. CASE Load(t) \/ Migrate(t)
  <2>1. CASE \E s : LoadReturns(t, s)
    BY <1>6, <2>1
  <2>2. CASE UNCHANGED <<pc, flock, mutex>>
    BY <2>2
  <2> QED BY <1>7, <2>1, <2>2 DEF Load, Migrate, KeepLocks
<1>8. CASE Compact(t) \/ Working(t) \/ Reload(t)
  BY <1>8 DEF Compact, Working, Run, UserAnswers, Round, Ask, Reload, CallTools, Answer,
     Interrupted, Goto, Finish, KeepLocks,
     TypeOK, Entered, Locked
<1>9. CASE Command(t)
  BY <1>9 DEF Command, Clear, Remember, Audit, Edited, Goto, Finish, KeepLocks,
     TypeOK, Entered, Locked
<1>10. CASE Save(t)
  <2>1. CASE \E ok \in BOOLEAN : SaveReturns(t, ok)
    BY <2>1 DEF SaveReturns, AfterSave, Vanish, Goto, Finish, KeepLocks, TypeOK, Entered,
       Locked
  <2>2. CASE pc[t] = "writing" /\ Vanish(t) /\ KeepLocks
    BY <2>2 DEF Entered, Locked, KeepLocks
  <2>3. CASE UNCHANGED pc /\ KeepLocks
    BY <2>3 DEF KeepLocks
  <2> QED BY <1>10, <2>1, <2>2, <2>3 DEF Save, SaveOpen, SaveWrite, SaveFails, SaveRename
<1> QED BY <1>2, <1>3, <1>4, <1>5, <1>7, <1>8, <1>9, <1>10 DEF Acts, Step, Working

\* A step of one turn leaves the others where they are, with their copies.
LEMMA StepOthers ==
  ASSUME IInv, NEW t \in Turns, Acts(t), NEW u \in Turns, u # t
  PROVE  pc'[u] = pc[u] /\ copy'[u] = copy[u] /\ step'[u] = step[u] /\ tries'[u] = tries[u]
<1>1. CASE Begin(t) \/ Enter(t) \/ TryLock(t) \/ Relock(t)
  BY <1>1 DEF Begin, Enter, TryLock, Relock, Goto, Finish, IInv, TypeOK
<1>2. CASE Load(t) \/ Migrate(t)
  BY <1>2 DEF Load, Migrate, LoadReturns, Vanish, Goto, IInv, TypeOK
<1>3. CASE Compact(t)
  BY <1>3 DEF Compact, Goto, IInv, TypeOK
<1>4. CASE Command(t)
  BY <1>4 DEF Command, Clear, Remember, Audit, Edited, Goto, Finish, IInv, TypeOK
<1>5. CASE Working(t)
  BY <1>5 DEF Working, Run, UserAnswers, Round, Ask, CallTools, Answer, Interrupted,
     Goto, Finish, IInv, TypeOK
<1>6. CASE SaveOpen(t) \/ SaveWrite(t)
  BY <1>6 DEF SaveOpen, SaveWrite, Vanish, Goto, IInv, TypeOK
<1>7. CASE SaveFails(t) \/ SaveRename(t)
  <2>1. PICK ok \in BOOLEAN : SaveReturns(t, ok)
    BY <1>7 DEF SaveFails, SaveRename
  <2>2. tries' = tries
    BY <1>7 DEF SaveFails, SaveRename
  <2> QED BY <2>1, <2>2 DEF SaveReturns, Goto, Finish, Vanish, IInv, TypeOK
<1>8. CASE Learn(t) \/ Reload(t)
  BY <1>8 DEF Learn, Reload, Goto, Finish, IInv, TypeOK
<1> QED BY <1>1, <1>2, <1>3, <1>4, <1>5, <1>6, <1>7, <1>8 DEF Acts, Step, Working, Save

LEMMA OwnersKeep == IInv /\ LocksHaveOwners /\ [Next]_vars => LocksHaveOwners'
<1> SUFFICES ASSUME IInv, LocksHaveOwners, [Next]_vars PROVE LocksHaveOwners'
  OBVIOUS
<1> USE ProcsAssumption, NobodyAssumption
<1>1. TypeOK
  BY DEF IInv
<1>2. CASE UNCHANGED vars
  BY <1>2 DEF vars, turnvars, LocksHaveOwners
\* The locks of the others are theirs still.
<1>3. ASSUME NEW t \in Turns, \A u \in Turns \ {t} : pc'[u] = pc[u], Release(t)
      PROVE  LocksHaveOwners'
  BY <1>1, <1>3 DEF LocksHaveOwners, Release, TypeOK
<1>4. ASSUME NEW t \in Turns, Acts(t) PROVE LocksHaveOwners'
  <2>1. \A u \in Turns \ {t} : pc'[u] = pc[u]
    BY <1>4, StepOthers
  <2>2. CASE Release(t)
    BY <1>3, <2>1, <2>2
  <2>3. CASE ~Release(t)
    <3>1. \A p \in Procs : mutex'[p] # mutex[p] => mutex'[p] = t /\ p = ProcOf[t] /\ pc'[t] \in Entered
      BY <1>1, <1>4, <2>3, StepLocks DEF TypeOK
    <3>2. flock' # flock => flock' = t /\ pc'[t] \in Locked
      BY <1>1, <1>4, <2>3, StepLocks
    <3>3. /\ pc[t] \in Locked => pc'[t] \in Locked
          /\ pc[t] \in Entered => pc'[t] \in Entered
      BY <1>1, <1>4, <2>3, StepLocks
    <3> QED BY <2>1, <3>1, <3>2, <3>3 DEF LocksHaveOwners
  <2> QED BY <2>2, <2>3
<1>5. ASSUME NEW t \in Turns, Interrupt(t) PROVE LocksHaveOwners'
  <2>1. \A u \in Turns \ {t} : pc'[u] = pc[u]
    BY <1>1, <1>5 DEF Interrupt, Vanish, Goto, TypeOK
  <2>2. Release(t)
    BY <1>5 DEF Interrupt
  <2> QED BY <1>3, <2>1, <2>2
<1>6. ASSUME NEW p \in Procs, Crash(p) PROVE LocksHaveOwners'
  <2>1. ASSUME NEW t \in Turns, flock' = t PROVE pc'[t] \in Locked
    BY <1>6, <2>1 DEF Crash, LocksHaveOwners
  <2>2. ASSUME NEW q \in Procs, NEW t \in Turns, mutex'[q] = t
        PROVE  ProcOf[t] = q /\ pc'[t] \in Entered
    BY <1>1, <1>6, <2>2 DEF Crash, LocksHaveOwners, TypeOK
  <2> QED BY <2>1, <2>2 DEF LocksHaveOwners
<1> QED BY <1>2, <1>4, <1>5, <1>6 DEF Next, Acts

\* Whatever overrides, interrupts, deaths and failures there are, no lock is held by
\* a turn that is over, that has been dropped or that still waits for a mutex: what
\* keeps turns from waiting for each other for ever.
THEOREM NoLockLeaks == Spec => []LocksHaveOwners
<1>1. Init => LocksHaveOwners
  BY NobodyAssumption DEF Init, LocksHaveOwners
<1> QED BY <1>1, OwnersKeep, Invariance, PTL DEF Spec

-----------------------------------------------------------------------------
(* A turn goes forward, whatever the others do.                              *)

\* How far a turn is: the phases in their order, ...
Age(phase) ==
  CASE phase = "new" -> 0 [] phase = "preload" -> 1 [] phase = "override" -> 2
    [] phase = "waiting" -> 3 [] phase = "locking" -> 4 [] phase = "load" -> 5
    [] phase = "restored" -> 6 [] phase = "compact" -> 7 [] phase = "command" -> 8
    [] phase \in {"run", "asking", "partial"} -> 9 [] phase \in {"edited", "ran"} -> 10
    [] phase = "final" -> 11 [] phase = "learn" -> 12 [] phase = "relock" -> 13
    [] phase = "reload" -> 14 [] phase = "review" -> 15 [] phase \in Leftovers -> 16
    [] OTHER -> 17

\* ... and what is done of a migration or a save.
Part(done) == CASE done = "start" -> 0 [] done = "legacy" -> 1 [] done = "opened" -> 2 [] OTHER -> 3

\* The turn has its round of tools behind it.
Called(t) == \E i \in DOMAIN copy[t].messages : copy[t].messages[i] = Tools(t)

\* The turn goes on to a later phase; or further in its save or its attempts at the
\* lock; or into its round of tools, with an approval or without; or out of it.
Forward(t) ==
  \/ Age(pc[t]) < Age(pc'[t])
  \/ /\ pc'[t] = pc[t]
     /\ \/ Part(step[t]) < Part(step'[t])
        \/ step'[t] = step[t] /\ tries[t] < tries'[t]
  \/ pc[t] = "run" /\ pc'[t] \in {"asking", "partial"} /\ ~Called(t)
  \/ pc[t] = "asking" /\ pc'[t] = "partial"
  \/ pc[t] = "partial" /\ pc'[t] = "run" /\ Called(t)'

\* No step takes a turn, or a curator, back: whoever holds the locks, dies or fails to
\* write meanwhile, the turn makes finitely many steps.  With fairness of the steps and
\* the locks given back (LocksHaveOwners) this is why a turn ends, if no user keeps it,
\* or the one that has the mutex, waiting.
TurnsGoForward ==
  [][\A t \in Turns :
       <<pc[t], step[t], tries[t], copy[t]>>' # <<pc[t], step[t], tries[t], copy[t]>>
         => Forward(t)]_vars

\* A turn that saves its round of tools has it behind it.
CalledInv == \A t \in Turns : pc[t] = "partial" => Called(t)

\* The round is the last message of the copy once it is added; no round of the
\* turn was there when it was begun.
LEMMA CallsAreSeen ==
  ASSUME IInv, NEW t \in Turns, Working(t), pc'[t] \in {"asking", "partial"}
  PROVE  /\ pc[t] = "run" => ~Called(t)
         /\ pc'[t] = "partial" => Called(t)'
         /\ pc[t] \in {"run", "asking"} /\ (pc[t] = "asking" => pc'[t] = "partial")
<1> DEFINE m == Tools(t)
           seq == copy[t].messages
<1>1. /\ pc[t] \in {"run", "asking"} /\ (pc[t] = "asking" => pc'[t] = "partial")
      /\ pc'[t] = "partial" => CallTools(t)
      /\ pc[t] = "run" => Round(t)
  BY DEF Working, Run, UserAnswers, Round, Ask, CallTools, Answer, Interrupted, Goto,
     Finish,
     IInv, TypeOK
<1>2. seq \in Seq(Messages) /\ m \in Messages
  BY MessageTypes DEF IInv, TypeOK, Session, Authors
<1>3. CallTools(t) => copy'[t].messages = Append(seq, m)
  BY DEF CallTools, IInv, TypeOK, Session
<1>4. Round(t) => ~Called(t)
  BY DEF Round, Called
<1> HIDE DEF seq, m
<1>5. Len(seq) + 1 \in DOMAIN Append(seq, m) /\ Append(seq, m)[Len(seq) + 1] = m
  BY <1>2
<1>6. CallTools(t) => Called(t)'
  BY <1>3, <1>5 DEF Called, m
<1> QED BY <1>1, <1>4, <1>6

\* What a save leads to is later than it, or the end of the round.
LEMMA SaveForward ==
  ASSUME IInv, NEW t \in Turns, Save(t)
  PROVE  /\ pc'[t] # "partial" \/ (pc'[t] = pc[t] /\ copy'[t] = copy[t])
         /\ pc'[t] = "run" => copy'[t] = copy[t]
         /\ \/ pc'[t] = pc[t] /\ Part(step[t]) < Part(step'[t])
            \/ Age(pc[t]) < Age(pc'[t])
            \/ pc[t] = "partial" /\ pc'[t] = "run"
<1>1. CASE SaveOpen(t)
  BY <1>1 DEF SaveOpen, IInv, TypeOK, Part
<1>2. ASSUME Vanish(t), pc[t] \in Leftovers PROVE pc'[t] = "dropped" /\ Age(pc[t]) < Age(pc'[t])
  BY <1>2 DEF Vanish, Goto, Leftovers, Age, IInv, TypeOK
<1>3. CASE SaveWrite(t)
  <2>1. CASE pc[t] = "writing" /\ Vanish(t)
    BY <1>2, <2>1 DEF Leftovers
  <2>2. CASE step' = [step EXCEPT ![t] = "written"] /\ UNCHANGED <<pc, copy>>
    BY <1>3, <2>2 DEF SaveWrite, IInv, TypeOK, Part
  <2> QED BY <1>3, <2>1, <2>2 DEF SaveWrite
<1>4. ASSUME NEW ok \in BOOLEAN, SaveReturns(t, ok)
      PROVE  /\ pc'[t] # "partial" /\ (pc'[t] = "run" => copy' = copy)
             /\ Age(pc[t]) < Age(pc'[t]) \/ (pc[t] = "partial" /\ pc'[t] = "run")
  <2>1. CASE pc[t] \in DOMAIN AfterSave /\ Goto(t, AfterSave[pc[t]]) /\ UNCHANGED copy
    <3>1. pc'[t] = AfterSave[pc[t]]
      BY <2>1 DEF Goto, IInv, TypeOK
    <3>2. \/ pc[t] = "override" /\ pc'[t] = "waiting"
          \/ pc[t] = "restored" /\ pc'[t] = "compact"
          \/ pc[t] = "partial" /\ pc'[t] = "run"
          \/ pc[t] = "ran" /\ pc'[t] = "final"
      BY <2>1, <3>1 DEF AfterSave
    <3> QED BY <2>1, <3>2 DEF Age, Leftovers
  <2>2. CASE pc[t] \in {"edited", "final", "review"} /\ (\E q \in {"ended", "failed"} : Finish(t, q))
    <3>1. pc'[t] \in {"ended", "failed"}
      BY <2>2 DEF Finish, Goto, IInv, TypeOK
    <3>2. Age(pc[t]) < 17
      BY <2>2 DEF Age, Leftovers
    <3>3. Age(pc'[t]) = 17
      BY <3>1 DEF Age, Leftovers
    <3> QED BY <3>1, <3>2, <3>3
  <2>3. CASE pc[t] = "final" /\ Goto(t, "learn")
    <3>1. pc'[t] = "learn"
      BY <2>3 DEF Goto, IInv, TypeOK
    <3> QED BY <2>3, <3>1 DEF Age, Leftovers
  <2>4. CASE pc[t] \in {"writing", "renaming"} /\ Vanish(t)
    BY <1>2, <2>4 DEF Leftovers
  <2> QED BY <1>4, <2>1, <2>2, <2>3, <2>4 DEF SaveReturns
<1>5. CASE SaveFails(t) \/ SaveRename(t)
  <2>1. PICK ok \in BOOLEAN : SaveReturns(t, ok)
    BY <1>5 DEF SaveFails, SaveRename
  <2> QED BY <1>4, <2>1
<1> QED BY <1>1, <1>3, <1>5 DEF Save

\* So is what a load leads to.
LEMMA LoadForward ==
  ASSUME IInv, NEW t \in Turns, Load(t) \/ Migrate(t)
  PROVE  /\ pc'[t] \notin {"partial", "run"}
         /\ \/ pc'[t] = pc[t] /\ Part(step[t]) < Part(step'[t])
            \/ Age(pc[t]) < Age(pc'[t])
<1>1. pc[t] \in {"preload", "load", "loading"}
  BY DEF Load, Migrate, LoadPhases
<1>2. CASE \E s : LoadReturns(t, s)
  BY <1>1, <1>2 DEF LoadReturns, Vanish, Goto, Age, Leftovers, IInv, TypeOK
<1>3. CASE /\ UNCHANGED pc
           /\ \/ step[t] = "start" /\ step' = [step EXCEPT ![t] = "legacy"]
              \/ step[t] = "legacy" /\ step' = [step EXCEPT ![t] = "opened"]
  BY <1>1, <1>3 DEF Part, IInv, TypeOK
<1> QED BY <1>2, <1>3 DEF Load, Migrate

\* Each step of a turn takes it forward, and into a save of its round only once.
LEMMA StepForward ==
  ASSUME IInv, CalledInv, NEW t \in Turns, Acts(t)
  PROVE  Forward(t) /\ (pc'[t] = "partial" => Called(t)')
<1>1. CASE Begin(t) \/ Enter(t) \/ Learn(t) \/ Relock(t) \/ Reload(t) \/ Compact(t)
  <2>1. pc'[t] # "partial" /\ Age(pc[t]) < Age(pc'[t])
    BY <1>1 DEF Begin, Enter, Learn, Relock, Reload, Compact, Goto, Finish, Age, Leftovers,
       IInv, TypeOK
  <2> QED BY <2>1 DEF Forward
<1>2. CASE TryLock(t)
  <2>1. CASE pc'[t] \in {"load", "failed"}
    BY <1>2, <2>1 DEF TryLock, Forward, Age, Leftovers
  <2>2. CASE tries' = [tries EXCEPT ![t] = @ + 1] /\ UNCHANGED <<pc, step>>
    BY <1>2, <2>2 DEF TryLock, Forward, IInv, TypeOK
  <2> QED BY <1>2, <2>1, <2>2 DEF TryLock, Goto, Finish, IInv, TypeOK
<1>3. CASE Load(t) \/ Migrate(t)
  BY <1>3, LoadForward DEF Forward
<1>4. CASE Command(t)
  <2>1. pc[t] = "command" /\ pc'[t] \in {"run", "edited", "ended", "alarmed"}
    BY <1>4 DEF Command, Clear, Remember, Audit, Edited, Goto, Finish, IInv, TypeOK
  <2> QED BY <2>1 DEF Forward, Age, Leftovers
<1>5. CASE Working(t)
  <2>1. /\ pc[t] \in {"run", "asking"}
        /\ pc'[t] \in {"asking", "partial", "ran", "final", "failed"}
    BY <1>5 DEF Working, Run, UserAnswers, Round, Ask, CallTools, Answer, Interrupted,
       Goto, Finish,
       IInv, TypeOK
  <2>2. CASE pc'[t] \in {"asking", "partial"}
    BY <1>5, <2>1, <2>2, CallsAreSeen DEF Forward
  <2>3. CASE pc'[t] \in {"ran", "final", "failed"}
    BY <2>1, <2>3 DEF Forward, Age, Leftovers
  <2> QED BY <2>1, <2>2, <2>3
<1>6. CASE Save(t)
  BY <1>6, SaveForward DEF CalledInv, Called, Forward
<1> QED BY <1>1, <1>2, <1>3, <1>4, <1>5, <1>6 DEF Acts, Step, Working

\* An interrupt leaves a closure behind, or nothing.
LEMMA InterruptForward ==
  ASSUME IInv, NEW t \in Turns, Interrupt(t)
  PROVE  /\ Age(pc[t]) < Age(pc'[t]) /\ pc'[t] # "partial"
         /\ \A u \in Turns \ {t} : /\ pc'[u] = pc[u] /\ copy'[u] = copy[u]
                                   /\ step'[u] = step[u] /\ tries'[u] = tries[u]
<1>1. pc'[t] \in Leftovers \union {"dropped"}
  BY DEF Interrupt, Closure, Vanish, Goto, Leftovers, IInv, TypeOK
<1>2. pc[t] \in {"waiting", "locking"} \union Locked
  BY DEF Interrupt
<1>3. Age(pc[t]) < Age(pc'[t])
  BY <1>1, <1>2 DEF Age, Locked, Leftovers
<1> QED BY <1>1, <1>3 DEF Interrupt, Vanish, Goto, Leftovers, IInv, TypeOK

\* A death ends the turns it finds at work.
LEMMA CrashForward ==
  ASSUME IInv, NEW p \in Procs, Crash(p), NEW t \in Turns
  PROVE  \/ Age(pc[t]) < Age(pc'[t]) /\ pc'[t] # "partial"
         \/ /\ pc'[t] = pc[t] /\ copy'[t] = copy[t]
            /\ step'[t] = step[t] /\ tries'[t] = tries[t]
<1>1. CASE ProcOf[t] = p /\ Busy(t)
  <2>1. pc'[t] = "dead" /\ pc[t] \in Phases \ Over
    BY <1>1 DEF Crash, Busy, IInv, TypeOK
  <2>2. Age(pc[t]) < 17
    BY <2>1 DEF Age, Phases, Over, Locked, SavePhases, LoadPhases, Leftovers
  <2> QED BY <2>1, <2>2 DEF Age, Leftovers
<1>2. CASE ~(ProcOf[t] = p /\ Busy(t))
  BY <1>2 DEF Crash, IInv, TypeOK
<1> QED BY <1>1, <1>2

\* What a step does to any of the turns.
LEMMA NextForward ==
  ASSUME IInv, CalledInv, [Next]_vars, NEW t \in Turns
  PROVE  /\ pc'[t] = "partial" => Called(t)'
         /\ <<pc[t], step[t], tries[t], copy[t]>>' # <<pc[t], step[t], tries[t], copy[t]>>
              => Forward(t)
<1> DEFINE Same == /\ pc'[t] = pc[t] /\ copy'[t] = copy[t]
                   /\ step'[t] = step[t] /\ tries'[t] = tries[t]
           Aged == Age(pc[t]) < Age(pc'[t]) /\ pc'[t] # "partial"
           Moved == Forward(t) /\ (pc'[t] = "partial" => Called(t)')
<1>1. Same \/ Aged \/ Moved
  <2>1. CASE UNCHANGED vars
    BY <2>1 DEF vars, turnvars
  <2>2. ASSUME NEW u \in Turns, Acts(u) PROVE Same \/ Moved
    BY <2>2, StepForward, StepOthers
  <2>3. ASSUME NEW u \in Turns, Interrupt(u) PROVE Same \/ Aged
    BY <2>3, InterruptForward
  <2>4. ASSUME NEW p \in Procs, Crash(p) PROVE Same \/ Aged
    BY <2>4, CrashForward
  <2> QED BY <2>1, <2>2, <2>3, <2>4 DEF Next, Acts
<1>2. CASE Same
  BY <1>2 DEF CalledInv, Called
<1>3. CASE Aged
  BY <1>3 DEF Forward
<1>4. CASE Moved
  BY <1>4
<1> QED BY <1>1, <1>2, <1>3, <1>4

THEOREM TurnsAdvance == Spec => TurnsGoForward
<1>1. Init => CalledInv
  BY DEF Init, CalledInv
<1>2. IInv /\ CalledInv /\ [Next]_vars => CalledInv'
  BY NextForward DEF CalledInv
<1>3. IInv /\ CalledInv /\ [Next]_vars
        => \A t \in Turns :
             <<pc[t], step[t], tries[t], copy[t]>>' # <<pc[t], step[t], tries[t], copy[t]>>
               => Forward(t)
  BY NextForward
<1> QED BY <1>1, <1>2, <1>3, Invariance, PTL DEF Spec, TurnsGoForward

-----------------------------------------------------------------------------
(* What the locks protect.  Alone is what the program must be given for its  *)
(* locks to be enough: no overrides, no interrupts, no session to migrate,   *)
(* and curators in one process only.                                         *)

Alone ==
  /\ Overriding = {}
  /\ Interruptible = {}
  /\ Chain0 # "Legacy"
  /\ Curators => \A p, q \in Procs : p = q

\* The turn that may touch the files: only one, if Alone.
Owner(t) == pc[t] \in Locked \union {"reload", "review"}

Sound(t) ==
  /\ pc[t] \notin {"preload", "override", "loading", "writing", "renaming"}
  /\ pc[t] \in LoadPhases => step[t] = "start"
  /\ open[t] # "none" => pc[t] \in SavePhases /\ step[t] = "opened"
  /\ pc[t] \in SavePhases /\ step[t] = "opened" => open[t] = "tmp" /\ tmp = Empty
  /\ pc[t] \in SavePhases /\ step[t] = "written" => tmp = File(Signed(copy[t]))
  /\ pc[t] \in (Locked \ {"load"}) \union {"review"} =>
       promised \ wiped \subseteq Range(copy[t].messages)
  /\ pc[t] \in Locked \ {"load", "edited"} =>
       User(t) \in Range(copy[t].messages) \union wiped

FileInv ==
  /\ SessionParses
  /\ Loaded(path).chain # "Legacy"
  /\ TurnsAreKept
  /\ \A t \in Turns : Sound(t)

LEMMA OneOwner ==
  ASSUME Alone, IInv, NEW t \in Turns, NEW u \in Turns, Owner(t), Owner(u)
  PROVE  t = u
<1>1. HoldsLocks(t) /\ HoldsLocks(u)
  BY DEF IInv, LockInv
<1>2. CASE Curators
  <2>1. ProcOf[t] = ProcOf[u]
    BY <1>2, ProcsAssumption DEF Alone
  <2>2. mutex[ProcOf[t]] = t /\ mutex[ProcOf[u]] = u
    BY <1>1 DEF HoldsLocks, Owner, Entered
  <2> QED BY <2>1, <2>2
<1>3. CASE ~Curators
  BY <1>1, <1>3 DEF HoldsLocks, Owner
<1> QED BY <1>2, <1>3

\* The others, when the owner steps: they have no part in the files.
LEMMA OthersStayOut ==
  ASSUME FileInv, NEW u \in Turns, ~Owner(u), pc'[u] = pc[u], open'[u] = open[u]
  PROVE  Sound(u)'
<1>1. Sound(u)
  BY DEF FileInv
<1>2. pc[u] \notin SavePhases /\ pc[u] \notin LoadPhases /\ pc[u] \notin Locked
      /\ pc[u] # "review" /\ pc[u] \notin {"ran", "final"} /\ open[u] = "none"
  BY <1>1 DEF Sound, Owner, SavePhases, LoadPhases, Locked
<1> QED BY <1>1, <1>2 DEF Sound

\* Everyone else, when a step leaves the files and the history alone.
LEMMA OthersKeepOn ==
  ASSUME FileInv, NEW u \in Turns, pc'[u] = pc[u], step'[u] = step[u],
         open'[u] = open[u], copy'[u] = copy[u],
         tmp' = tmp, promised' = promised, wiped' = wiped
  PROVE  Sound(u)'
BY DEF FileInv, Sound

\* A turn that is past its last phase, or before its load, has nothing to keep.
LEMMA Idle ==
  ASSUME NEW t \in Turns, pc'[t] \in Over \union {"waiting", "locking", "learn", "relock"},
         open'[t] = "none"
  PROVE  Sound(t)'
BY DEF Over, Sound, SavePhases, LoadPhases, Locked

LEMMA OpenNone ==
  ASSUME FileInv, NEW t \in Turns, pc[t] \notin SavePhases \/ step[t] # "opened"
  PROVE  open[t] = "none"
BY DEF FileInv, Sound

\* The parts of FileInv about the file, when it stays and so does the history.
LEMMA FileStays ==
  ASSUME FileInv, path' = path, promised' = promised, wiped \subseteq wiped'
  PROVE  SessionParses' /\ (Loaded(path).chain # "Legacy")' /\ TurnsAreKept'
BY DEF FileInv, SessionParses, TurnsAreKept, Loaded

LEMMA RangeAppend ==
  \A s \in Session, m \in Messages :
    Range(Append(s.messages, m)) = Range(s.messages) \union {m}
<1> TAKE s \in Session, m \in Messages
<1>1. s.messages \in Seq(Messages)
  BY DEF Session
<1> DEFINE q == s.messages
<1> HIDE DEF q
<1>2. q \in Seq(Messages)
  BY <1>1 DEF q
<1>3. Append(q, m) \in Seq(Messages) /\ Len(Append(q, m)) = Len(q) + 1
      /\ Append(q, m)[Len(q) + 1] = m
      /\ \A i \in 1 .. Len(q) : Append(q, m)[i] = q[i]
  BY <1>2
<1>4. Range(Append(q, m)) \subseteq Range(q) \union {m}
  BY <1>2, <1>3 DEF Range
<1>5. Range(q) \union {m} \subseteq Range(Append(q, m))
  <2>1. DOMAIN q = 1 .. Len(q) /\ DOMAIN Append(q, m) = 1 .. Len(q) + 1 /\ Len(q) \in Nat
    BY <1>2, <1>3
  <2>2. m \in Range(Append(q, m))
    BY <1>3, <2>1 DEF Range
  <2>3. ASSUME NEW i \in DOMAIN q PROVE q[i] \in Range(Append(q, m))
    <3>1. i \in 1 .. Len(q) + 1 /\ Append(q, m)[i] = q[i]
      BY <1>3, <2>1
    <3> QED BY <2>1, <3>1 DEF Range
  <2> QED BY <2>2, <2>3 DEF Range
<1> QED BY <1>4, <1>5 DEF q

\* A compaction drops only what it records as wiped.
LEMMA RangeCompacted ==
  \A s \in Session : \A k \in 1 .. Len(s.messages) - 1 :
    Range(s.messages) \subseteq
      Range(Compacted(s, k).messages) \union {s.messages[i] : i \in 1 .. k}
<1> TAKE s \in Session
<1> TAKE k \in 1 .. Len(s.messages) - 1
<1> DEFINE q == s.messages
           kept == SubSeq(q, k + 1, Len(q))
<1>1. q \in Seq(Messages)
  BY DEF Session
<1>2. Compacted(s, k).messages = kept
  BY CompactedType
<1> HIDE DEF q
<1>3. k \in Nat /\ k < Len(q) /\ Len(q) \in Nat
  BY <1>1 DEF q
<1>4. kept \in Seq(Messages) /\ Len(kept) = Len(q) - k
      /\ \A i \in 1 .. Len(q) - k : kept[i] = q[k + i]
  BY <1>1, <1>3
<1> HIDE DEF kept
<1>5. ASSUME NEW i \in 1 .. Len(q), i > k PROVE q[i] \in Range(kept)
  <2>1. i - k \in 1 .. Len(q) - k /\ kept[i - k] = q[i]
    BY <1>3, <1>4, <1>5
  <2>2. DOMAIN kept = 1 .. Len(q) - k
    BY <1>4
  <2> QED BY <2>1, <2>2 DEF Range
<1>6. Range(q) \subseteq Range(kept) \union {q[i] : i \in 1 .. k}
  BY <1>1, <1>3, <1>5 DEF Range
<1> QED BY <1>2, <1>6 DEF q

-----------------------------------------------------------------------------
(* Every action keeps FileInv. *)

\* A step of t that leaves files and history alone, and what t must show.
LEMMA PlainStep ==
  ASSUME IInv, FileInv, NEW t \in Turns, NEW q \in Phases, Goto(t, q),
         KeepFiles, KeepHistory,
         \A u \in Turns \ {t} : copy'[u] = copy[u],
         Sound(t)'
  PROVE  FileInv'
<1>1. SessionParses' /\ (Loaded(path).chain # "Legacy")' /\ TurnsAreKept'
  BY FileStays DEF KeepFiles, KeepHistory
<1>2. ASSUME NEW u \in Turns, u # t PROVE Sound(u)'
  <2>1. pc'[u] = pc[u] /\ step'[u] = step[u]
    BY <1>2 DEF Goto, IInv, TypeOK
  <2> QED BY <1>2, <2>1, OthersKeepOn DEF KeepFiles, KeepHistory
<1> QED BY <1>1, <1>2 DEF FileInv

\* A step of t to an idle phase.
LEMMA IdleStep ==
  ASSUME IInv, FileInv, NEW t \in Turns,
         NEW q \in Over \union {"waiting", "locking", "learn", "relock"},
         Goto(t, q), KeepFiles, KeepHistory,
         \A u \in Turns \ {t} : copy'[u] = copy[u],
         pc[t] \notin SavePhases
  PROVE  FileInv'
<1>1. q \in Phases
  BY DEF Over, Phases
<1>2. open[t] = "none"
  BY OpenNone
<1>3. pc'[t] = q /\ open'[t] = "none"
  BY <1>2 DEF Goto, KeepFiles, IInv, TypeOK
<1>4. Sound(t)'
  BY <1>3, Idle
<1> QED BY <1>1, <1>4, PlainStep

LEMMA FinishStep ==
  ASSUME IInv, FileInv, NEW t \in Turns, NEW q \in Over,
         Finish(t, q), KeepFiles, KeepHistory, pc[t] \notin SavePhases
  PROVE  FileInv'
<1>1. Goto(t, q) /\ \A u \in Turns \ {t} : copy'[u] = copy[u]
  BY DEF Finish, IInv, TypeOK
<1> QED BY <1>1, IdleStep

LEMMA BeginFile == \A t \in Turns : Alone /\ IInv /\ FileInv /\ Begin(t) => FileInv'
<1> SUFFICES ASSUME NEW t \in Turns, Alone, IInv, FileInv, Begin(t) PROVE FileInv'
  OBVIOUS
<1>1. Goto(t, "waiting") /\ pc[t] = "new" /\ KeepFiles /\ KeepHistory /\ copy' = copy
  BY DEF Begin, Alone
<1>2. pc[t] \notin SavePhases
  BY <1>1 DEF SavePhases
<1> QED BY <1>1, <1>2, IdleStep

LEMMA EnterFile == \A t \in Turns : IInv /\ FileInv /\ Enter(t) => FileInv'
<1> SUFFICES ASSUME NEW t \in Turns, IInv, FileInv, Enter(t) PROVE FileInv'
  OBVIOUS
<1>1. Goto(t, "locking") /\ pc[t] = "waiting" /\ KeepFiles /\ KeepHistory /\ copy' = copy
  BY DEF Enter
<1>2. pc[t] \notin SavePhases
  BY <1>1 DEF SavePhases
<1> QED BY <1>1, <1>2, IdleStep

\* Before the load nothing is owed.
LEMMA BeforeLoad ==
  ASSUME IInv, FileInv, NEW t \in Turns, NEW q \in {"load", "reload"},
         Goto(t, q), KeepFiles, KeepHistory, copy' = copy, pc[t] \notin SavePhases
  PROVE  FileInv'
<1>1. q \in Phases
  BY DEF Phases, LoadPhases
<1>2. open'[t] = "none" /\ pc'[t] = q /\ step'[t] = "start"
  BY OpenNone DEF Goto, KeepFiles, IInv, TypeOK
<1>3. Sound(t)'
  BY <1>2 DEF Sound, SavePhases, Locked
<1> QED BY <1>1, <1>3, PlainStep

LEMMA RelockFile == \A t \in Turns : IInv /\ FileInv /\ Relock(t) => FileInv'
<1> SUFFICES ASSUME NEW t \in Turns, IInv, FileInv, Relock(t) PROVE FileInv'
  OBVIOUS
<1>1. Goto(t, "reload") /\ pc[t] = "relock" /\ KeepFiles /\ KeepHistory /\ copy' = copy
  BY DEF Relock
<1>2. pc[t] \notin SavePhases
  BY <1>1 DEF SavePhases
<1> QED BY <1>1, <1>2, BeforeLoad

LEMMA TryLockFile == \A t \in Turns : IInv /\ FileInv /\ TryLock(t) => FileInv'
<1> SUFFICES ASSUME NEW t \in Turns, IInv, FileInv, TryLock(t) PROVE FileInv'
  OBVIOUS
<1>1. pc[t] = "locking" /\ KeepFiles /\ KeepHistory
  BY DEF TryLock
<1>2. pc[t] \notin SavePhases
  BY <1>1 DEF SavePhases
<1>3. CASE Goto(t, "load") /\ copy' = copy
  BY <1>1, <1>2, <1>3, BeforeLoad
<1>4. CASE UNCHANGED <<pc, step, copy>>
  <2>1. \A u \in Turns : Sound(u)'
    BY <1>1, <1>4, OthersKeepOn DEF KeepFiles, KeepHistory
  <2> QED BY <1>1, <2>1, FileStays DEF FileInv, KeepFiles, KeepHistory
<1>5. CASE Finish(t, "failed")
  <2>1. "failed" \in Over
    BY DEF Over
  <2> QED BY <1>1, <1>2, <1>5, <2>1, FinishStep
<1> QED BY <1>3, <1>4, <1>5 DEF TryLock

LEMMA LoadFile == \A t \in Turns : IInv /\ FileInv /\ Load(t) => FileInv'
<1> SUFFICES ASSUME NEW t \in Turns, IInv, FileInv, Load(t) PROVE FileInv'
  OBVIOUS
<1> DEFINE s == Loaded(path)
<1>1. s \in Session
  BY LoadedType DEF IInv, TypeOK
<1>2. /\ pc[t] = "load" /\ Goto(t, "restored") /\ KeepFiles /\ KeepHistory
      /\ copy' = [copy EXCEPT ![t] = AddMessage(s, User(t), t)]
  BY DEF Load, LoadReturns, FileInv, Sound
<1>3. promised \ wiped \subseteq Range(s.messages)
  BY DEF FileInv, TurnsAreKept
<1> HIDE DEF s
<1>4. User(t) \in Messages
  BY MessageTypes DEF Authors
<1>5. /\ pc'[t] = "restored" /\ step'[t] = "start" /\ open'[t] = "none"
      /\ copy'[t] = AddMessage(s, User(t), t)
  <2>1. pc[t] \notin SavePhases
    BY <1>2 DEF SavePhases
  <2> QED BY <1>2, <2>1, OpenNone DEF Goto, KeepFiles, IInv, TypeOK
<1>6. Range(copy'[t].messages) = Range(s.messages) \union {User(t)}
  <2>1. copy'[t].messages = Append(s.messages, User(t))
    BY <1>1, <1>4, <1>5, AddMessageType
  <2> QED BY <1>1, <1>4, <2>1, RangeAppend
<1>7. Sound(t)'
  <2>1. /\ promised' \ wiped' \subseteq Range(copy'[t].messages)
        /\ User(t) \in Range(copy'[t].messages) \union wiped'
    BY <1>2, <1>3, <1>6 DEF KeepHistory
  <2> QED BY <1>5, <2>1 DEF Sound, LoadPhases
<1>8. "restored" \in Phases /\ \A u \in Turns \ {t} : copy'[u] = copy[u]
  BY <1>2 DEF Phases, Locked, IInv, TypeOK
<1> QED BY <1>2, <1>7, <1>8, PlainStep

\* Nothing is migrated.
LEMMA NoMigration == \A t \in Turns : FileInv => ~Migrate(t)
BY DEF FileInv, Sound, Migrate, LoadPhases

LEMMA CompactFile == \A t \in Turns : Alone /\ IInv /\ FileInv /\ Compact(t) => FileInv'
<1> SUFFICES ASSUME NEW t \in Turns, Alone, IInv, FileInv, Compact(t) PROVE FileInv'
  OBVIOUS
<1>1. pc[t] = "compact" /\ Goto(t, "command") /\ KeepFiles /\ promised' = promised
  BY DEF Compact
<1>2. copy[t] \in Session /\ Owner(t)
  BY <1>1 DEF IInv, TypeOK, Owner, Locked
<1>3. /\ promised \ wiped \subseteq Range(copy[t].messages)
      /\ User(t) \in Range(copy[t].messages) \union wiped
  BY <1>1 DEF FileInv, Sound, Locked
<1>4. /\ wiped \subseteq wiped'
      /\ Range(copy[t].messages) \subseteq Range(copy'[t].messages) \union wiped'
  <2>1. CASE UNCHANGED <<copy, wiped>>
    BY <2>1
  <2>2. ASSUME NEW k \in 1 .. Len(copy[t].messages) - 1,
               copy' = [copy EXCEPT ![t] = Compacted(copy[t], k)],
               wiped' = wiped \union {copy[t].messages[i] : i \in 1 .. k}
        PROVE  /\ wiped \subseteq wiped'
               /\ Range(copy[t].messages) \subseteq Range(copy'[t].messages) \union wiped'
    <3>1. copy'[t] = Compacted(copy[t], k)
      BY <2>2 DEF IInv, TypeOK
    <3> QED BY <1>2, <2>2, <3>1, RangeCompacted
  <2> QED BY <2>1, <2>2 DEF Compact
<1>5. pc'[t] = "command" /\ step'[t] = "start" /\ open'[t] = "none"
  <2>1. pc[t] \notin SavePhases
    BY <1>1 DEF SavePhases
  <2> QED BY <1>1, <2>1, OpenNone DEF Goto, KeepFiles, IInv, TypeOK
<1>6. Sound(t)'
  <2>1. promised' \ wiped' \subseteq Range(copy'[t].messages)
    BY <1>1, <1>3, <1>4
  <2>2. User(t) \in Range(copy'[t].messages) \union wiped'
    BY <1>3, <1>4
  <2> QED BY <1>5, <2>1, <2>2 DEF Sound, LoadPhases, SavePhases
<1>7. SessionParses' /\ (Loaded(path).chain # "Legacy")' /\ TurnsAreKept'
  BY <1>1, <1>4, FileStays DEF KeepFiles
<1>8. ASSUME NEW u \in Turns, u # t PROVE Sound(u)'
  <2>1. ~Owner(u)
    BY <1>2, <1>8, OneOwner
  <2>2. pc'[u] = pc[u] /\ open'[u] = open[u]
    BY <1>1, <1>8 DEF Goto, KeepFiles, IInv, TypeOK
  <2> QED BY <2>1, <2>2, OthersStayOut
<1> QED BY <1>6, <1>7, <1>8 DEF FileInv

\* The owner of the files changes its copy and moves to its next save.
LEMMA EditStep ==
  ASSUME Alone, IInv, FileInv, NEW t \in Turns, Owner(t), pc[t] \notin SavePhases,
         NEW q \in Phases, Goto(t, q), KeepFiles, promised' = promised, wiped \subseteq wiped',
         Sound(t)'
  PROVE  FileInv'
<1>1. SessionParses' /\ (Loaded(path).chain # "Legacy")' /\ TurnsAreKept'
  BY FileStays DEF KeepFiles
<1>2. ASSUME NEW u \in Turns, u # t PROVE Sound(u)'
  <2>1. ~Owner(u)
    BY <1>2, OneOwner
  <2>2. pc'[u] = pc[u] /\ open'[u] = open[u]
    BY <1>2 DEF Goto, KeepFiles, IInv, TypeOK
  <2> QED BY <2>1, <2>2, OthersStayOut
<1> QED BY <1>1, <1>2 DEF FileInv

LEMMA CommandFile == \A t \in Turns : Alone /\ IInv /\ FileInv /\ Command(t) => FileInv'
<1> SUFFICES ASSUME NEW t \in Turns, Alone, IInv, FileInv, Command(t) PROVE FileInv'
  OBVIOUS
<1>1. pc[t] = "command" /\ KeepFiles
  BY DEF Command
<1>2. /\ Owner(t) /\ pc[t] \notin SavePhases /\ copy[t] \in Session
      /\ "run" \in Phases /\ "edited" \in Phases
  BY <1>1 DEF IInv, TypeOK, Owner, Locked, SavePhases, Phases
<1>3. /\ promised \ wiped \subseteq Range(copy[t].messages)
      /\ User(t) \in Range(copy[t].messages) \union wiped
  BY <1>1 DEF FileInv, Sound, Locked
<1>4. open'[t] = "none"
  BY <1>1, <1>2, OpenNone DEF KeepFiles
<1>5. CASE Goto(t, "run") /\ UNCHANGED copy /\ KeepHistory
  <2>1. pc'[t] = "run" /\ step'[t] = "start"
    BY <1>5 DEF Goto, IInv, TypeOK
  <2>2. Sound(t)'
    BY <1>3, <1>4, <1>5, <2>1 DEF Sound, LoadPhases, SavePhases, KeepHistory
  <2> QED BY <1>1, <1>2, <1>5, <2>2, EditStep DEF KeepHistory
<1>6. CASE Clear(t)
  <2>1. pc'[t] = "edited" /\ step'[t] = "start"
    BY <1>6 DEF Clear, Edited, Goto, IInv, TypeOK
  <2>2. promised' \ wiped' = {} /\ wiped \subseteq wiped'
    BY <1>3, <1>6 DEF Clear, Edited
  <2>3. Sound(t)'
    BY <1>4, <2>1, <2>2 DEF Sound, LoadPhases, SavePhases
  <2> QED BY <1>1, <1>2, <1>6, <2>2, <2>3, EditStep DEF Clear, Edited
<1>7. CASE Remember(t)
  <2>1. PICK m \in {t, Nobody} : Edited(t, [copy[t] EXCEPT !.memory = m])
    BY <1>7 DEF Remember
  <2>2. pc'[t] = "edited" /\ step'[t] = "start"
    BY <2>1 DEF Edited, Goto, IInv, TypeOK
  <2>3. copy'[t].messages = copy[t].messages
    BY <1>2, <2>1 DEF Edited, IInv, TypeOK, Session
  <2>4. promised' = promised /\ wiped' = wiped
    BY <1>7, <2>1 DEF Edited, Remember
  <2>5. Sound(t)'
    BY <1>3, <1>4, <2>2, <2>3, <2>4 DEF Sound, LoadPhases, SavePhases
  <2> QED BY <1>1, <1>2, <2>1, <2>4, <2>5, EditStep DEF Edited
<1>8. ASSUME NEW q \in {"ended", "alarmed"}, Finish(t, q), KeepHistory
      PROVE  FileInv'
  <2>1. q \in Over
    BY DEF Over
  <2> QED BY <1>1, <1>2, <1>8, <2>1, FinishStep
<1>9. CASE Audit(t)
  BY <1>8, <1>9 DEF Audit
<1> QED BY <1>5, <1>6, <1>7, <1>8, <1>9 DEF Command

LEMMA RunFile == \A t \in Turns : Alone /\ IInv /\ FileInv /\ Working(t) => FileInv'
<1> SUFFICES ASSUME NEW t \in Turns, Alone, IInv, FileInv, Working(t) PROVE FileInv'
  OBVIOUS
<1>1. pc[t] \in {"run", "asking"} /\ KeepFiles /\ KeepHistory
  BY DEF Working, Run, UserAnswers, Round, Ask
<1>2. /\ Owner(t) /\ pc[t] \notin SavePhases /\ copy[t] \in Session
      /\ {"asking", "partial", "ran", "final"} \subseteq Phases
  BY <1>1 DEF IInv, TypeOK, Owner, Locked, SavePhases, Phases
<1>3. /\ promised \ wiped \subseteq Range(copy[t].messages)
      /\ User(t) \in Range(copy[t].messages) \union wiped
  BY <1>1 DEF FileInv, Sound, Locked
<1>4. open'[t] = "none"
  BY <1>1, <1>2, OpenNone DEF KeepFiles
<1>5. ASSUME NEW m \in Messages, copy' = [copy EXCEPT ![t].messages = Append(@, m)]
      PROVE  Range(copy'[t].messages) = Range(copy[t].messages) \union {m}
  <2>1. copy'[t].messages = Append(copy[t].messages, m)
    BY <1>2, <1>5 DEF IInv, TypeOK, Session
  <2> QED BY <1>2, <2>1, RangeAppend
<1>6. Reply(t) \in Messages /\ Tools(t) \in Messages
  BY MessageTypes DEF Authors
<1>7. CASE /\ copy' = [copy EXCEPT ![t].messages = Append(@, Tools(t))]
           /\ Goto(t, "partial")
  <2>1. pc'[t] = "partial" /\ step'[t] = "start"
    BY <1>7 DEF Goto, IInv, TypeOK
  <2>2. Range(copy[t].messages) \subseteq Range(copy'[t].messages)
    BY <1>5, <1>6, <1>7
  <2>3. Sound(t)'
    BY <1>1, <1>3, <1>4, <2>1, <2>2 DEF Sound, LoadPhases, KeepHistory
  <2> QED BY <1>1, <1>2, <1>7, <2>3, EditStep DEF KeepHistory
<1>8. CASE /\ copy' = [copy EXCEPT ![t].messages = Append(@, Reply(t))]
           /\ Goto(t, "ran")
  <2>1. pc'[t] = "ran" /\ step'[t] = "start"
    BY <1>8 DEF Goto, IInv, TypeOK
  <2>2. Range(copy'[t].messages) = Range(copy[t].messages) \union {Reply(t)}
    BY <1>5, <1>6, <1>8
  <2>3. Sound(t)'
    BY <1>1, <1>3, <1>4, <2>1, <2>2 DEF Sound, LoadPhases, KeepHistory
  <2> QED BY <1>1, <1>2, <1>8, <2>3, EditStep DEF KeepHistory
<1>9. CASE Finish(t, "failed")
  <2>1. "failed" \in Over
    BY DEF Over
  <2> QED BY <1>1, <1>2, <1>9, <2>1, FinishStep
<1>10. ASSUME NEW q \in {"asking", "ran", "final"}, Goto(t, q), UNCHANGED copy
       PROVE  FileInv'
  <2>1. pc'[t] = q /\ step'[t] = "start" /\ q \in Phases
    BY <1>2, <1>10 DEF Goto, IInv, TypeOK
  <2>2. Sound(t)'
    BY <1>1, <1>3, <1>4, <1>10, <2>1 DEF Sound, LoadPhases, KeepHistory
  <2> QED BY <1>1, <1>2, <1>10, <2>1, <2>2, EditStep DEF KeepHistory
<1> QED BY <1>7, <1>8, <1>9, <1>10 DEF Working, Run, UserAnswers, Round, Ask, CallTools,
           Answer, Interrupted

LEMMA LearnFile == \A t \in Turns : IInv /\ FileInv /\ Learn(t) => FileInv'
<1> SUFFICES ASSUME NEW t \in Turns, IInv, FileInv, Learn(t) PROVE FileInv'
  OBVIOUS
<1>1. pc[t] = "learn" /\ KeepFiles /\ KeepHistory
  BY DEF Learn
<1>2. pc[t] \notin SavePhases
  BY <1>1 DEF SavePhases
<1>3. CASE Goto(t, "relock") /\ UNCHANGED copy
  BY <1>1, <1>2, <1>3, IdleStep
<1>4. CASE Finish(t, "ended")
  <2>1. "ended" \in Over
    BY DEF Over
  <2> QED BY <1>1, <1>2, <1>4, <2>1, FinishStep
<1> QED BY <1>3, <1>4 DEF Learn

LEMMA ReloadFile == \A t \in Turns : Alone /\ IInv /\ FileInv /\ Reload(t) => FileInv'
<1> SUFFICES ASSUME NEW t \in Turns, Alone, IInv, FileInv, Reload(t) PROVE FileInv'
  OBVIOUS
<1>1. pc[t] = "reload" /\ KeepFiles /\ KeepHistory
  BY DEF Reload
<1>2. Owner(t) /\ pc[t] \notin SavePhases /\ "review" \in Phases /\ "ended" \in Over
  BY <1>1 DEF Owner, SavePhases, Phases, Over
<1>3. CASE Finish(t, "ended")
  BY <1>1, <1>2, <1>3, FinishStep
<1>4. CASE /\ copy' = [copy EXCEPT ![t] = [Loaded(path) EXCEPT !.memory = t]]
           /\ Goto(t, "review")
  <2> DEFINE s == Loaded(path)
  <2>1. s \in Session /\ promised \ wiped \subseteq Range(s.messages)
    BY LoadedType DEF IInv, TypeOK, FileInv, TurnsAreKept
  <2> HIDE DEF s
  <2>2. copy'[t] = [s EXCEPT !.memory = t]
    BY <1>4 DEF IInv, TypeOK, s
  <2>3. copy'[t].messages = s.messages
    BY <2>1, <2>2 DEF Session
  <2>4. pc'[t] = "review" /\ step'[t] = "start" /\ open'[t] = "none"
    BY <1>1, <1>2, <1>4, OpenNone DEF Goto, KeepFiles, IInv, TypeOK
  <2>5. Sound(t)'
    BY <1>1, <2>1, <2>3, <2>4 DEF Sound, LoadPhases, Locked, KeepHistory
  <2> QED BY <1>1, <1>2, <1>4, <2>5, EditStep DEF KeepHistory
<1> QED BY <1>3, <1>4 DEF Reload

LEMMA SaverOwns ==
  ASSUME FileInv, NEW t \in Turns, pc[t] \in SavePhases
  PROVE  Owner(t) /\ pc[t] \in (Locked \ {"load"}) \union {"review"}
<1>1. pc[t] # "override" /\ pc[t] \notin {"writing", "renaming"}
  BY DEF FileInv, Sound
<1> QED BY <1>1 DEF SavePhases, Owner, Locked

\* What the saver owes after the save.
LEMMA SavedSound ==
  ASSUME IInv, FileInv, NEW t \in Turns, NEW ok \in BOOLEAN,
         pc[t] \in SavePhases, SaveReturns(t, ok), open'[t] = "none"
  PROVE  Sound(t)'
<1>1. Sound(t) /\ pc[t] \in (Locked \ {"load"}) \union {"review"}
  BY SaverOwns DEF FileInv
<1>2. CASE /\ pc[t] \in DOMAIN AfterSave /\ Goto(t, AfterSave[pc[t]])
           /\ UNCHANGED copy /\ KeepHistory
  <2>1. /\ pc[t] \in {"restored", "partial", "ran"}
        /\ pc'[t] = AfterSave[pc[t]] /\ step'[t] = "start"
    BY <1>1, <1>2 DEF AfterSave, Goto, IInv, TypeOK, Locked
  <2>2. pc'[t] \in {"compact", "run", "final"}
    BY <2>1 DEF AfterSave
  <2>3. /\ promised' \ wiped' \subseteq Range(copy'[t].messages)
        /\ User(t) \in Range(copy'[t].messages) \union wiped'
    BY <1>1, <1>2, <2>1 DEF Sound, Locked, KeepHistory
  <2> QED BY <2>1, <2>2, <2>3 DEF Sound, LoadPhases
<1>3. ASSUME NEW q \in {"ended", "failed"}, Finish(t, q) PROVE Sound(t)'
  <2>1. pc'[t] \in Over
    BY <1>3 DEF Finish, Goto, Over, IInv, TypeOK
  <2> QED BY <2>1, Idle
<1>4. CASE Goto(t, "learn")
  <2>1. pc'[t] = "learn"
    BY <1>4 DEF Goto, IInv, TypeOK
  <2> QED BY <2>1, Idle
<1>5. pc[t] \notin {"writing", "renaming"}
  BY <1>1 DEF Locked
<1> QED BY <1>2, <1>3, <1>4, <1>5 DEF SaveReturns

LEMMA SavePc ==
  ASSUME IInv, NEW t \in Turns, NEW ok \in BOOLEAN, SaveReturns(t, ok),
         NEW u \in Turns, u # t
  PROVE  pc'[u] = pc[u]
BY DEF SaveReturns, Finish, Vanish, Goto, IInv, TypeOK

LEMMA SaveFile == \A t \in Turns : Alone /\ IInv /\ FileInv /\ Save(t) => FileInv'
<1> SUFFICES ASSUME NEW t \in Turns, Alone, IInv, FileInv, Save(t) PROVE FileInv'
  OBVIOUS
<1>1. pc[t] \in SavePhases
  BY DEF Save, SaveOpen, SaveWrite, SaveFails, SaveRename
<1>2. Owner(t) /\ Sound(t) /\ copy[t] \in Session
  BY <1>1, SaverOwns DEF FileInv, IInv, TypeOK
<1>3. \A u \in Turns : u # t => ~Owner(u) /\ open[u] = "none"
  <2> TAKE u \in Turns
  <2> HAVE u # t
  <2>1. ~Owner(u)
    BY <1>2, OneOwner
  <2>2. pc[u] \notin SavePhases
    BY <2>1, SaverOwns
  <2> QED BY <2>1, <2>2, OpenNone
<1>4. ASSUME NEW u \in Turns, u # t, pc'[u] = pc[u], open'[u] = "none"
      PROVE  Sound(u)'
  BY <1>3, <1>4, OthersStayOut
<1>5. CASE SaveOpen(t)
  <2>1. /\ pc' = pc /\ copy' = copy /\ path' = path /\ tmp' = Empty
        /\ open'[t] = "tmp" /\ step'[t] = "opened" /\ step[t] = "start"
        /\ \A u \in Turns \ {t} : open'[u] = open[u]
        /\ promised' = promised /\ wiped' = wiped
    BY <1>5 DEF SaveOpen, KeepHistory, IInv, TypeOK
  <2>2. Sound(t)'
    <3>1. pc[t] \notin LoadPhases
      BY <1>1 DEF SavePhases, LoadPhases
    <3> QED BY <1>1, <1>2, <2>1, <3>1 DEF Sound
  <2>3. \A u \in Turns : u # t => Sound(u)'
    BY <1>3, <1>4, <2>1
  <2> QED BY <2>1, <2>2, <2>3, FileStays DEF FileInv
<1>6. CASE SaveWrite(t)
  <2>1. open[t] = "tmp" /\ tmp = Empty /\ pc[t] # "writing"
    BY <1>1, <1>2, <1>6 DEF SaveWrite, Sound
  <2>2. /\ pc' = pc /\ copy' = copy /\ path' = path /\ tmp' = File(Signed(copy[t]))
        /\ open'[t] = "none" /\ step'[t] = "written"
        /\ \A u \in Turns \ {t} : open'[u] = open[u]
        /\ promised' = promised /\ wiped' = wiped
    BY <1>6, <2>1 DEF SaveWrite, WriteTo, Overwritten, KeepHistory, IInv, TypeOK
  <2>3. Sound(t)'
    <3>1. pc[t] \notin LoadPhases
      BY <1>1 DEF SavePhases, LoadPhases
    <3> QED BY <1>1, <1>2, <2>2, <3>1 DEF Sound
  <2>4. \A u \in Turns : u # t => Sound(u)'
    BY <1>3, <1>4, <2>2
  <2> QED BY <2>2, <2>3, <2>4, FileStays DEF FileInv
<1>7. CASE SaveFails(t)
  <2>1. SaveReturns(t, FALSE)
    BY <1>7 DEF SaveFails
  <2>2. /\ path' = path /\ open'[t] = "none"
        /\ \A u \in Turns \ {t} : open'[u] = open[u]
    <3>1. CASE step[t] \in {"start", "written"} /\ KeepFiles
      BY <3>1, <1>2, OpenNone DEF KeepFiles
    <3>2. CASE step[t] = "opened"
      <4>1. open[t] = "tmp"
        BY <1>1, <1>2, <3>2 DEF Sound
      <4> QED BY <1>7, <3>2, <4>1 DEF SaveFails, IInv, TypeOK
    <3> QED BY <1>7, <3>1, <3>2 DEF SaveFails
  <2>3. promised' = promised /\ wiped' = wiped
    BY <2>1 DEF SaveReturns, KeepHistory
  <2>4. Sound(t)'
    BY <1>1, <2>1, <2>2, SavedSound
  <2>5. \A u \in Turns : u # t => Sound(u)'
    BY <1>3, <1>4, <2>1, <2>2, SavePc
  <2> QED BY <2>2, <2>3, <2>4, <2>5, FileStays DEF FileInv
<1>8. CASE SaveRename(t)
  <2>1. tmp = File(Signed(copy[t])) /\ step[t] = "written"
    BY <1>1, <1>2, <1>8 DEF SaveRename, Sound
  <2>2. tmp # Absent
    BY <2>1 DEF File, Absent
  <2>3. /\ SaveReturns(t, TRUE) /\ path' = tmp
        /\ open' = [u \in Turns |-> Relinked(open[u])]
    BY <1>8, <2>2, Zenon DEF SaveRename
  <2>4. open[t] = "none" /\ \A u \in Turns : open'[u] = "none"
    BY <1>3, <2>1, <2>3, OpenNone DEF Relinked
  <2>5. /\ SessionParses' /\ Loaded(path').chain = "Valid"
        /\ Loaded(path').messages = copy[t].messages
    BY <1>2, <2>1, <2>3 DEF SessionParses, Loaded, File, Signed, Session
  <2>6. TurnsAreKept'
    <3>1. promised \ wiped \subseteq Range(copy[t].messages)
      BY <1>1, <1>2, SaverOwns DEF Sound
    <3>2. /\ wiped' = wiped
          /\ \/ promised' = promised
             \/ pc[t] = "final" /\ promised' = promised \union Kept(t)
      BY <2>3 DEF SaveReturns, KeepHistory
    <3>3. pc[t] = "final" => Kept(t) \subseteq Range(copy[t].messages) \union wiped
      BY <1>2 DEF Sound, Locked, Kept
    <3>4. promised' \ wiped' \subseteq Range(copy[t].messages)
      BY <3>1, <3>2, <3>3
    <3> QED BY <2>5, <3>4 DEF TurnsAreKept, Loaded
  <2>7. Sound(t)'
    BY <1>1, <2>3, <2>4, SavedSound
  <2>8. \A u \in Turns : u # t => Sound(u)'
    BY <1>3, <1>4, <2>3, <2>4, SavePc
  <2>9. (Loaded(path).chain # "Legacy")'
    BY <2>5 DEF Loaded
  <2> QED BY <2>5, <2>6, <2>7, <2>8, <2>9 DEF FileInv
<1> QED BY <1>5, <1>6, <1>7, <1>8 DEF Save

LEMMA CrashFile == \A p \in Procs : IInv /\ FileInv /\ Crash(p) => FileInv'
<1> SUFFICES ASSUME NEW p \in Procs, IInv, FileInv, Crash(p) PROVE FileInv'
  OBVIOUS
<1> DEFINE killed == {t \in Turns : ProcOf[t] = p /\ Busy(t)}
<1>1. /\ pc' = [t \in Turns |-> IF t \in killed THEN "dead" ELSE pc[t]]
      /\ open' = [t \in Turns |-> IF t \in killed THEN "none" ELSE open[t]]
      /\ copy' = [t \in Turns |-> IF t \in killed THEN NewSession ELSE copy[t]]
      /\ step' = [t \in Turns |-> IF t \in killed THEN "start" ELSE step[t]]
      /\ UNCHANGED <<path, tmp, promised, wiped>>
  BY DEF Crash, KeepHistory
<1> HIDE DEF killed
<1>2. ASSUME NEW u \in Turns PROVE Sound(u)'
  <2>1. CASE u \in killed
    <3>1. pc'[u] \in Over /\ open'[u] = "none"
      BY <1>1, <2>1 DEF Over
    <3> QED BY <3>1, Idle
  <2>2. CASE u \notin killed
    BY <1>1, <2>2, OthersKeepOn
  <2> QED BY <2>1, <2>2
<1> QED BY <1>1, <1>2, FileStays DEF FileInv

LEMMA InitFile == Alone /\ Init => FileInv
<1> SUFFICES ASSUME Alone, Init PROVE FileInv
  OBVIOUS
<1>1. \A t \in Turns : Sound(t)
  BY DEF Init, Sound, SavePhases, LoadPhases, Locked
<1>2. CASE path = Absent
  <2>1. Loaded(path) = NewSession /\ SessionParses
    BY <1>2 DEF Loaded, Absent, SessionParses
  <2>2. promised = {}
    BY <1>2 DEF Init
  <2> QED BY <1>1, <2>1, <2>2 DEF FileInv, TurnsAreKept, NewSession
<1>3. CASE path = File(PastSession)
  <2>1. Loaded(path) = PastSession /\ SessionParses
    BY <1>3 DEF Loaded, File, SessionParses
  <2>2. promised \subseteq Range(PastSession.messages)
    BY DEF Init
  <2> QED BY <1>1, <2>1, <2>2, PastType DEF FileInv, TurnsAreKept, Alone
<1> QED BY <1>2, <1>3 DEF Init

LEMMA StepFile == Alone /\ IInv /\ FileInv /\ [Next]_vars => FileInv'
<1> SUFFICES ASSUME Alone, IInv, FileInv, [Next]_vars PROVE FileInv'
  OBVIOUS
<1>1. CASE UNCHANGED vars
  BY <1>1, OthersKeepOn, FileStays DEF vars, turnvars, FileInv
<1>2. ASSUME NEW t \in Turns, Acts(t) PROVE FileInv'
  BY <1>2, BeginFile, EnterFile, TryLockFile, LoadFile, NoMigration, CompactFile,
     CommandFile, RunFile, SaveFile, LearnFile, RelockFile, ReloadFile DEF Acts, Step, Working
<1>3. ASSUME NEW p \in Procs, Crash(p) PROVE FileInv'
  BY <1>3, CrashFile
<1> QED BY <1>1, <1>2, <1>3 DEF Next, Acts, Interrupt, Alone

LEMMA FileInvariance ==
  ASSUME Alone
  PROVE  Spec => []FileInv
<1>1. FileInv /\ IInv /\ [Next]_vars => FileInv'
  BY StepFile
<1>2. Init => FileInv
  BY InitFile
<1> QED BY <1>1, <1>2, Invariance, PTL DEF Spec

\* Without overrides, interrupts and migrations, and with curators in one process
\* only, the session on disk never loses what a turn that ended well has saved in it,
\* whichever processes die and whichever writes fail.
THEOREM NoTurnLost ==
  ASSUME Alone
  PROVE  Spec => []TurnsAreKept
<1>1. FileInv => TurnsAreKept
  BY DEF FileInv
<1> QED BY <1>1, FileInvariance, PTL

\* Under the same conditions the session file is always absent or complete: the
\* temporary file and the rename of save do what they are for.
THEOREM NoTornSession ==
  ASSUME Alone
  PROVE  Spec => []SessionParses
<1>1. FileInv => SessionParses
  BY DEF FileInv
<1> QED BY <1>1, FileInvariance, PTL

-----------------------------------------------------------------------------
(* What a curator saves is about the newest turn.                          *)

\* The phases in which a turn's copy is the session as it left it.
Carrying == (Locked \ {"load"}) \union {"learn", "relock", "reload"}

\* The copy of a turn says that the turn was the last to add a message, and so
\* does the file as long as the turn's curator saves in it.
Newest(t) ==
  /\ pc[t] \in Carrying => copy[t].at = t
  /\ pc[t] = "review" => Loaded(path).at = t

FreshInv == \A t \in Turns : Newest(t)

\* Editing a session does not change who added the last message.
LEMMA EditsKeepAt ==
  \A s \in Session :
    /\ \A m \in Seq(Messages) : [s EXCEPT !.messages = m].at = s.at
    /\ \A c \in Chains : [s EXCEPT !.chain = c].at = s.at
    /\ \A o \in Turns \union {Nobody} : [s EXCEPT !.memory = o].at = s.at
BY DEF Session

LEMMA AddMessageAt ==
  \A s \in Session, m \in Messages, t \in Turns : AddMessage(s, m, t).at = t
<1> TAKE s \in Session, m \in Messages, t \in Turns
<1> DEFINE s1 == [s EXCEPT !.messages = Append(s.messages, m)]
           s2 == [s1 EXCEPT !.at = t]
           c == IF s.chain = "Tampered" THEN s.chain ELSE "Legacy"
<1>1. s1 \in Session
  <2>1. Append(s.messages, m) \in Seq(Messages)
    BY DEF Session
  <2> QED BY <2>1, FieldTypes
<1>2. s2 \in Session /\ s2.at = t
  <2>1. t \in Authors \union {Nobody}
    BY DEF Authors
  <2> QED BY <1>1, <2>1, FieldTypes DEF Session
<1>3. c \in Chains
  BY DEF Session, Chains
<1> HIDE DEF s2, c
<1>4. [s2 EXCEPT !.chain = c].at = t
  BY <1>2, <1>3, EditsKeepAt
<1>5. AddMessage(s, m, t) = [s2 EXCEPT !.chain = c]
  BY DEF AddMessage, c, s2
<1> QED BY <1>4, <1>5

LEMMA CompactedAt ==
  \A s \in Session : \A k \in 1 .. Len(s.messages) - 1 : Compacted(s, k).at = s.at
<1> TAKE s \in Session
<1> TAKE k \in 1 .. Len(s.messages) - 1
<1> DEFINE kept == SubSeq(s.messages, k + 1, Len(s.messages))
           s1 == [s EXCEPT !.messages = kept]
           c == IF k = Len(s.messages) - 1 THEN "Legacy" ELSE "Tampered"
<1>1. kept \in Seq(Messages)
  <2>1. s.messages \in Seq(Messages)
    BY DEF Session
  <2> QED BY <2>1
<1> HIDE DEF kept
<1>2. s1 \in Session /\ s1.at = s.at
  BY <1>1, FieldTypes, EditsKeepAt
<1>3. c \in Chains
  BY DEF Chains
<1> HIDE DEF s1, c
<1>4. [s1 EXCEPT !.chain = c].at = s.at
  BY <1>2, <1>3, EditsKeepAt
<1>5. Compacted(s, k) = [s1 EXCEPT !.chain = c]
  BY DEF Compacted, s1, c, kept
<1> QED BY <1>4, <1>5

LEMMA ClearedAt == \A s \in Session : Cleared(s).at = s.at
<1> TAKE s \in Session
<1> DEFINE s1 == [s EXCEPT !.messages = <<>>]
<1>1. <<>> \in Seq(Messages)
  OBVIOUS
<1>2. s1 \in Session /\ s1.at = s.at
  BY <1>1, FieldTypes, EditsKeepAt
<1>3. [s1 EXCEPT !.chain = "Valid"].at = s.at
  BY <1>2, EditsKeepAt DEF Chains
<1>4. Cleared(s) = [s1 EXCEPT !.chain = "Valid"]
  BY DEF Cleared
<1> QED BY <1>3, <1>4

\* Only a saver that owns the files changes the file of the session.
LEMMA StepPath ==
  ASSUME IInv, FileInv, NEW t \in Turns, Acts(t)
  PROVE  path' = path \/ (Owner(t) /\ pc[t] \in SavePhases)
<1>1. CASE Save(t)
  <2>1. pc[t] \in SavePhases
    BY <1>1 DEF Save, SaveOpen, SaveWrite, SaveFails, SaveRename
  <2> QED BY <2>1, SaverOwns
<1>2. ~Migrate(t)
  BY NoMigration
<1>3. CASE ~Save(t)
  BY <1>2, <1>3 DEF Acts, Step, Working, Begin, Enter, TryLock, Load, Compact, Command,
     Working, Run, UserAnswers, Round, Ask, Learn, Relock,
     Reload, KeepFiles
<1> QED BY <1>1, <1>3

LEMMA NothingToCarry ==
  ASSUME NEW t \in Turns, pc'[t] \in Over \union {"waiting", "locking", "load"}
  PROVE  Newest(t)'
BY DEF Over, Newest, Carrying, Locked

\* A turn that keeps its copy and has it already.
LEMMA StillNewest ==
  ASSUME FreshInv, NEW t \in Turns, pc[t] \in Carrying, pc'[t] # "review",
         copy'[t].at = copy[t].at
  PROVE  Newest(t)'
BY DEF FreshInv, Newest

LEMMA FinishPc ==
  ASSUME IInv, NEW t \in Turns, NEW q \in Over, Finish(t, q)
  PROVE  Newest(t)'
<1>1. pc'[t] = q
  BY DEF Finish, Goto, IInv, TypeOK
<1> QED BY <1>1, NothingToCarry

LEMMA LoadFresh ==
  ASSUME IInv, FileInv, NEW t \in Turns, Load(t)
  PROVE  Newest(t)'
<1>1. pc[t] = "load" /\ Loaded(path) \in Session /\ User(t) \in Messages
  BY LoadedType, MessageTypes DEF Load, LoadPhases, FileInv, Sound, IInv, TypeOK, Authors
<1>2. /\ copy'[t] = AddMessage(Loaded(path), User(t), t)
      /\ pc'[t] = "restored"
  BY <1>1 DEF Load, LoadReturns, Goto, IInv, TypeOK
<1>3. copy'[t].at = t
  BY <1>1, <1>2, AddMessageAt
<1> QED BY <1>2, <1>3 DEF Newest

LEMMA WorkFresh ==
  ASSUME IInv, FreshInv, NEW t \in Turns, Compact(t) \/ Command(t) \/ Working(t)
  PROVE  Newest(t)'
<1>1. pc[t] \in {"compact", "command", "run", "asking"} /\ copy[t] \in Session
  BY DEF Compact, Command, Working, Run, UserAnswers, Round, Ask, IInv, TypeOK
<1>2. pc[t] \in Carrying
  BY <1>1 DEF Carrying, Locked
<1>3. ASSUME NEW q \in Over, Finish(t, q) PROVE Newest(t)'
  BY <1>3, FinishPc
<1>4. ASSUME NEW q \in Phases \ {"review"}, Goto(t, q), copy'[t].at = copy[t].at
      PROVE  Newest(t)'
  <2>1. pc'[t] # "review"
    BY <1>4 DEF Goto, IInv, TypeOK
  <2> QED BY <1>2, <1>4, <2>1, StillNewest
<1>5. {"command", "run", "asking", "edited", "partial", "ran", "final"} \subseteq Phases \ {"review"}
  BY DEF Phases, Locked
<1>6. {"ended", "alarmed", "failed"} \subseteq Over
  BY DEF Over
<1>7. CASE Compact(t)
  <2>1. CASE UNCHANGED copy
    BY <1>4, <1>5, <1>7, <2>1 DEF Compact
  <2>2. ASSUME NEW k \in 1 .. Len(copy[t].messages) - 1,
               copy' = [copy EXCEPT ![t] = Compacted(copy[t], k)]
        PROVE  Newest(t)'
    <3>1. copy'[t] = Compacted(copy[t], k)
      BY <2>2 DEF IInv, TypeOK
    <3>2. copy'[t].at = copy[t].at
      BY <1>1, <3>1, CompactedAt
    <3> QED BY <1>4, <1>5, <1>7, <3>2 DEF Compact
  <2> QED BY <1>7, <2>1, <2>2 DEF Compact
<1>8. CASE Command(t)
  <2>1. CASE Goto(t, "run") /\ UNCHANGED copy
    BY <1>4, <1>5, <2>1
  <2>2. CASE Clear(t)
    <3>1. copy'[t] = Cleared(copy[t])
      BY <2>2 DEF Clear, Edited, IInv, TypeOK
    <3>2. copy'[t].at = copy[t].at
      BY <1>1, <3>1, ClearedAt
    <3> QED BY <1>4, <1>5, <2>2, <3>2 DEF Clear, Edited
  <2>3. CASE Remember(t)
    <3>1. PICK m \in {t, Nobody} : Edited(t, [copy[t] EXCEPT !.memory = m])
      BY <2>3 DEF Remember
    <3>2. copy'[t] = [copy[t] EXCEPT !.memory = m]
      BY <3>1 DEF Edited, IInv, TypeOK
    <3>3. copy'[t].at = copy[t].at
      BY <1>1, <3>2, EditsKeepAt
    <3> QED BY <1>4, <1>5, <3>1, <3>3 DEF Edited
  <2>4. CASE Audit(t) \/ Finish(t, "ended")
    BY <1>3, <1>6, <2>4 DEF Audit
  <2> QED BY <1>8, <2>1, <2>2, <2>3, <2>4 DEF Command
<1>9. CASE Working(t)
  <2>1. ASSUME NEW m \in Messages, copy' = [copy EXCEPT ![t].messages = Append(@, m)]
        PROVE  copy'[t].at = copy[t].at
    <3>1. copy'[t] = [copy[t] EXCEPT !.messages = Append(copy[t].messages, m)]
      BY <2>1 DEF IInv, TypeOK
    <3>2. Append(copy[t].messages, m) \in Seq(Messages)
      BY <1>1 DEF Session
    <3> QED BY <1>1, <3>1, <3>2, EditsKeepAt
  <2>2. Reply(t) \in Messages /\ Tools(t) \in Messages
    BY MessageTypes DEF Authors
  <2>3. CASE CallTools(t)
    BY <1>4, <1>5, <2>1, <2>2, <2>3 DEF CallTools
  <2>4. CASE Answer(t)
    BY <1>4, <1>5, <2>1, <2>2, <2>4 DEF Answer
  <2>5. CASE Interrupted(t)
    BY <1>4, <1>5, <2>5 DEF Interrupted
  <2>6. CASE Finish(t, "failed")
    BY <1>3, <1>6, <2>6
  <2>7. CASE Ask(t)
    BY <1>4, <1>5, <2>7 DEF Ask
  <2> QED BY <1>9, <2>3, <2>4, <2>5, <2>6, <2>7 DEF Working, Run, UserAnswers, Round
<1> QED BY <1>7, <1>8, <1>9

LEMMA SaveFresh ==
  ASSUME IInv, FileInv, FreshInv, NEW t \in Turns, Save(t)
  PROVE  Newest(t)'
<1>1. pc[t] \in (Locked \ {"load"}) \union {"review"}
  <2>1. pc[t] \in SavePhases
    BY DEF Save, SaveOpen, SaveWrite, SaveFails, SaveRename
  <2> QED BY <2>1, SaverOwns
<1>2. CASE SaveOpen(t) \/ SaveWrite(t)
  <2>1. path' = path /\ pc' = pc /\ copy' = copy
    <3>1. CASE SaveOpen(t)
      BY <3>1 DEF SaveOpen
    <3>2. CASE SaveWrite(t)
      <4>1. open[t] = "tmp" /\ pc[t] # "writing"
        BY <3>2 DEF SaveWrite, FileInv, Sound
      <4> QED BY <3>2, <4>1 DEF SaveWrite, WriteTo
    <3> QED BY <1>2, <3>1, <3>2
  <2> QED BY <2>1 DEF FreshInv, Newest
<1>3. CASE SaveFails(t) \/ SaveRename(t)
  <2>1. PICK ok \in BOOLEAN : SaveReturns(t, ok)
    BY <1>3 DEF SaveFails, SaveRename
  <2>2. ASSUME NEW q \in Over, Finish(t, q) PROVE Newest(t)'
    BY <2>2, FinishPc
  <2>3. "ended" \in Over /\ "failed" \in Over
    BY DEF Over
  <2>4. CASE pc[t] \in DOMAIN AfterSave /\ Goto(t, AfterSave[pc[t]]) /\ UNCHANGED copy
    <3>1. pc[t] \in Carrying /\ pc'[t] # "review"
      BY <1>1, <2>4 DEF AfterSave, Carrying, Goto, IInv, TypeOK
    <3> QED BY <2>4, <3>1, StillNewest
  <2>5. CASE pc[t] = "final" /\ Goto(t, "learn") /\ UNCHANGED copy
    <3>1. pc[t] \in Carrying /\ pc'[t] # "review"
      BY <1>1, <2>5 DEF Carrying, Goto, IInv, TypeOK
    <3> QED BY <2>5, <3>1, StillNewest
  <2>6. pc[t] \notin {"writing", "renaming"}
    BY <1>1 DEF Locked
  <2> QED BY <2>1, <2>2, <2>3, <2>4, <2>5, <2>6 DEF SaveReturns
<1> QED BY <1>2, <1>3 DEF Save

LEMMA CuratorFresh ==
  ASSUME IInv, FreshInv, NEW t \in Turns, Learn(t) \/ Relock(t) \/ Reload(t)
  PROVE  Newest(t)'
<1>1. pc[t] \in {"learn", "relock", "reload"} /\ path' = path
  BY DEF Learn, Relock, Reload, KeepFiles
<1>2. copy[t].at = t /\ pc[t] \in Carrying
  BY <1>1 DEF FreshInv, Newest, Carrying
<1>3. "ended" \in Over
  BY DEF Over
<1>4. CASE Finish(t, "ended")
  BY <1>3, <1>4, FinishPc
<1>5. ASSUME NEW q \in {"relock", "reload"}, Goto(t, q), UNCHANGED copy PROVE Newest(t)'
  <2>1. pc'[t] # "review"
    BY <1>5 DEF Goto, IInv, TypeOK
  <2> QED BY <1>2, <1>5, <2>1, StillNewest
<1>6. CASE ~SessionChanged(t, Loaded(path)) /\ Goto(t, "review")
  <2>1. pc'[t] = "review" /\ Loaded(path).at = t
    BY <1>2, <1>6 DEF SessionChanged, Goto, IInv, TypeOK
  <2>2. Loaded(path)' = Loaded(path)
    BY <1>1 DEF Loaded
  <2> QED BY <2>1, <2>2 DEF Newest, Carrying, Locked
<1> QED BY <1>4, <1>5, <1>6 DEF Learn, Relock, Reload

LEMMA StepFresh == Alone /\ IInv /\ FileInv /\ FreshInv /\ [Next]_vars => FreshInv'
<1> SUFFICES ASSUME Alone, IInv, FileInv, FreshInv, [Next]_vars PROVE FreshInv'
  OBVIOUS
<1>1. CASE UNCHANGED vars
  BY <1>1 DEF vars, turnvars, FreshInv, Newest, Loaded
<1>2. ASSUME NEW t \in Turns, Acts(t) PROVE FreshInv'
  <2>1. Newest(t)'
    <3>1. CASE Begin(t) \/ Enter(t) \/ TryLock(t)
      <4>1. pc'[t] \in Over \union {"waiting", "locking", "load"}
        BY <3>1 DEF Begin, Enter, TryLock, Finish, Goto, Over, Alone, IInv, TypeOK
      <4> QED BY <4>1, NothingToCarry
    <3>2. ~Migrate(t)
      BY NoMigration
    <3> QED BY <1>2, <3>1, <3>2, LoadFresh, WorkFresh, SaveFresh, CuratorFresh DEF Acts,
               Step, Working
  <2>2. ASSUME NEW u \in Turns, u # t PROVE Newest(u)'
    <3>1. pc'[u] = pc[u] /\ copy'[u] = copy[u]
      BY <1>2, <2>2, StepOthers
    <3>2. pc[u] = "review" => path' = path
      <4>1. pc[u] = "review" => ~Owner(t)
        BY <2>2, OneOwner DEF Owner
      <4> QED BY <1>2, <4>1, StepPath
    <3> QED BY <3>1, <3>2 DEF FreshInv, Newest, Loaded
  <2> QED BY <2>1, <2>2 DEF FreshInv
<1>3. ASSUME NEW p \in Procs, Crash(p) PROVE FreshInv'
  <2> SUFFICES ASSUME NEW u \in Turns PROVE Newest(u)'
    BY DEF FreshInv
  <2>1. path' = path
    BY <1>3 DEF Crash
  <2>2. \/ pc'[u] = "dead"
        \/ pc'[u] = pc[u] /\ copy'[u] = copy[u]
    BY <1>3 DEF Crash
  <2>3. CASE pc'[u] = "dead"
    BY <2>3, NothingToCarry DEF Over
  <2>4. CASE pc'[u] = pc[u] /\ copy'[u] = copy[u]
    BY <2>1, <2>4 DEF FreshInv, Newest, Loaded
  <2> QED BY <2>2, <2>3, <2>4
<1> QED BY <1>1, <1>2, <1>3 DEF Next, Acts, Interrupt, Alone

LEMMA FreshInvariance ==
  ASSUME Alone
  PROVE  Spec => []FreshInv
<1>1. Init => FreshInv
  BY DEF Init, FreshInv, Newest, Carrying, Locked
<1>2. IInv /\ FileInv /\ FreshInv /\ [Next]_vars => FreshInv'
  BY StepFresh
<1> QED BY <1>1, <1>2, Invariance, FileInvariance, PTL DEF Spec

\* Under the same conditions a curator writes only into a session to which no
\* turn has added since the one it reviewed: what it compares, the time and the
\* number of messages, and the mutex it holds meanwhile are enough.
THEOREM ReviewsAreFresh ==
  ASSUME Alone
  PROVE  Spec => ReviewIsFresh
<1>1. FreshInv /\ [Next]_vars =>
        [\A t \in Turns : pc[t] = "review" /\ path' # path /\ pc'[t] = "ended"
           => Loaded(path).at = t]_vars
  BY DEF FreshInv, Newest
<1> QED BY <1>1, FreshInvariance, PTL DEF Spec, ReviewIsFresh
-----------------------------------------------------------------------------
(* Turns implement SessionStore.                                           *)

\* A turn touches the history in two ways: with its last save it promises more,
\* and a command or a compaction wipes some, which leaves the file as it is.
LEMMA StepHistory ==
  ASSUME IInv, NEW t \in Turns, Acts(t)
  PROVE  \/ wiped' = wiped /\ promised' = promised
         \/ pc[t] = "final" /\ wiped' = wiped /\ promised \subseteq promised'
         \/ /\ pc[t] \in {"compact", "command"} /\ pc'[t] \in Locked
            /\ path' = path /\ promised' = promised /\ wiped \subseteq wiped'
<1>1. CASE Compact(t)
  <2>1. pc[t] = "compact" /\ pc'[t] = "command" /\ path' = path /\ promised' = promised
    BY <1>1 DEF Compact, Goto, KeepFiles, IInv, TypeOK
  <2>2. wiped \subseteq wiped'
    BY <1>1 DEF Compact
  <2> QED BY <2>1, <2>2 DEF Locked
<1>2. CASE Command(t)
  <2>1. pc[t] = "command" /\ path' = path
    BY <1>2 DEF Command, KeepFiles
  <2>2. CASE Clear(t)
    <3>1. pc'[t] = "edited" /\ promised' = promised /\ wiped \subseteq wiped'
      BY <2>2 DEF Clear, Edited, Goto, IInv, TypeOK
    <3> QED BY <2>1, <3>1 DEF Locked
  <2>3. CASE ~Clear(t)
    BY <1>2, <2>3 DEF Command, Remember, Audit, Edited, KeepHistory
  <2> QED BY <2>2, <2>3
<1>3. CASE Save(t)
  BY <1>3 DEF Save, SaveOpen, SaveWrite, SaveFails, SaveRename, SaveReturns, KeepHistory
<1>4. CASE Begin(t) \/ Enter(t) \/ TryLock(t) \/ Load(t) \/ Migrate(t) \/ Working(t)
           \/ Learn(t) \/ Relock(t) \/ Reload(t)
  BY <1>4 DEF Begin, Enter, TryLock, Load, Migrate, Working, Run, UserAnswers, Round,
     Ask, Learn, Relock, Reload, KeepHistory
<1> QED BY <1>1, <1>2, <1>3, <1>4 DEF Acts, Step, Working

\* OneOwner, after a step.
LEMMA OneOwnerNext ==
  ASSUME Alone, IInv', NEW t \in Turns, NEW u \in Turns, Owner(t)', Owner(u)'
  PROVE  t = u
<1>1. HoldsLocks(t)' /\ HoldsLocks(u)'
  BY DEF IInv, LockInv
<1>2. CASE Curators
  <2>1. ProcOf[t] = ProcOf[u]
    BY <1>2, ProcsAssumption DEF Alone
  <2>2. mutex'[ProcOf[t]] = t /\ mutex'[ProcOf[u]] = u
    BY <1>1 DEF HoldsLocks, Owner, Entered
  <2> QED BY <2>1, <2>2
<1>3. CASE ~Curators
  BY <1>1, <1>3 DEF HoldsLocks, Owner
<1> QED BY <1>2, <1>3

LEMMA InsideOwns == Inside = {t \in Turns : Owner(t)}
BY DEF Inside, Owner

LEMMA SameContent == path' = path => Range(Loaded(path).messages)' = Range(Loaded(path).messages)
BY DEF Loaded, Range

LEMMA StoreInit == Alone /\ Init => Store!Init
<1> SUFFICES ASSUME Alone, Init PROVE Store!Init
  OBVIOUS
<1>1. IInv /\ FileInv
  BY InitIInv, InitFile
<1>2. path \in Readable
  BY <1>1 DEF IInv, TypeOK, FileInv, SessionParses, Readable
<1>3. Inside = {}
  BY DEF Inside, Init, Locked
<1> QED BY <1>1, <1>2, <1>3 DEF Store!Init, FileInv, TurnsAreKept

LEMMA StoreStep ==
  ASSUME Alone, IInv, FileInv, IInv', FileInv', NEW t \in Turns, Acts(t)
  PROVE  [Store!Next]_(Store!svars)
<1>1. \A u \in Turns \ {t} : Owner(u)' <=> Owner(u)
  BY StepOthers DEF Owner
<1>2. Inside' = {u \in Turns : Owner(u)'} /\ Inside = {u \in Turns : Owner(u)}
  BY DEF Inside, Owner
<1>3. ~Owner(t) => UNCHANGED <<path, promised, wiped>>
  BY StepPath, StepHistory DEF Owner, Locked
<1>4. CASE ~Owner(t) /\ ~Owner(t)'
  <2>1. Inside' = Inside
    BY <1>1, <1>2, <1>4
  <2> QED BY <1>3, <1>4, <2>1, SameContent DEF Store!svars
<1>5. CASE ~Owner(t) /\ Owner(t)'
  <2>1. Inside' = {t}
    BY <1>2, <1>5, OneOwnerNext
  <2>2. Inside = {}
    BY <1>1, <1>2, <1>5, <2>1
  <2> QED BY <1>3, <1>5, <2>1, <2>2, SameContent DEF Store!Next, Store!Enter
<1>6. CASE Owner(t)
  <2>1. Inside = {t}
    BY <1>2, <1>6, OneOwner
  <2>2. Inside' \subseteq {t}
    BY <1>1, <1>2, <2>1
  <2>3. CASE wiped' = wiped /\ promised \subseteq promised'
    <3>1. path' \in Readable
      BY DEF IInv, TypeOK, FileInv, SessionParses, Readable
    <3>2. (promised \ wiped)' \subseteq Range(Loaded(path).messages)'
      BY DEF FileInv, TurnsAreKept
    <3> QED BY <2>1, <2>2, <2>3, <3>1, <3>2 DEF Store!Next, Store!Commit
  <2>4. CASE pc'[t] \in Locked /\ path' = path /\ promised' = promised /\ wiped \subseteq wiped'
    <3>1. Inside' = {t}
      BY <2>2, <2>4 DEF Inside
    <3> QED BY <2>1, <2>4, <3>1, SameContent DEF Store!Next, Store!Forget
  <2> QED BY <2>3, <2>4, StepHistory
<1> QED BY <1>4, <1>5, <1>6

\* The session survives a death as it is, without the turns that died.
LEMMA StoreCrash ==
  ASSUME Alone, IInv, NEW p \in Procs, Crash(p)
  PROVE  [Store!Next]_(Store!svars)
<1>1. UNCHANGED <<path, promised, wiped>>
  BY DEF Crash, KeepHistory
<1>2. Inside' \subseteq Inside
  <2>1. \A u \in Turns : pc'[u] = pc[u] \/ pc'[u] = "dead"
    BY DEF Crash
  <2> QED BY <2>1 DEF Inside, Locked
<1>3. \A t, u \in Inside : t = u
  BY OneOwner DEF Inside, Owner
<1>4. Inside' = Inside \/ Inside' = {}
  BY <1>2, <1>3
<1> QED BY <1>1, <1>4, SameContent DEF Store!Next, Store!Leave, Store!svars

\* Given Alone, the locks, the temporary file and the order of the steps of a turn
\* give the turns of all processes what SessionStore promises: one turn at a time has
\* the session, only it replaces the file, by a whole session with every message
\* that was promised and not removed, and a turn that dies leaves it as it is.
THEOREM StoreRefinement ==
  ASSUME Alone
  PROVE  Spec => ImplementsSessionStore
<1>1. Init => Store!Init
  BY StoreInit
<1>2. IInv /\ FileInv /\ IInv' /\ FileInv' /\ [Next]_vars => [Store!Next]_(Store!svars)
  <2> SUFFICES ASSUME IInv, FileInv, IInv', FileInv', [Next]_vars
               PROVE  [Store!Next]_(Store!svars)
    OBVIOUS
  <2>1. CASE UNCHANGED vars
    <3>1. Inside' = Inside
      BY <2>1 DEF vars, turnvars, Inside
    <3> QED BY <2>1, <3>1, SameContent DEF vars, Store!svars
  <2>2. ~ \E t \in Turns : Interrupt(t)
    BY DEF Interrupt, Alone
  <2> QED BY <2>1, <2>2, StoreStep, StoreCrash DEF Next, Acts
<1> QED BY <1>1, <1>2, Invariance, FileInvariance, PTL
     DEF Spec, ImplementsSessionStore, Store!Spec
=============================================================================
