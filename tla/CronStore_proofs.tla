-------------------------- MODULE CronStore_proofs --------------------------
(***************************************************************************)
(* Proofs about CronStore, for every set of tasks and of updates: the type *)
(* invariant, mutual exclusion, the absence of lost updates and of torn    *)
(* loads, and that the store implements AtomicStore.                       *)
(***************************************************************************)
EXTENDS CronStore, TLAPS

\* The task inside is the one whose file the lock file is.
LockInv ==
    ~aged =>
        /\ lockFile # "stale"
        /\ \A p \in Procs :
            /\ pc[p] # "remove"
            /\ pc[p] \in Inside => lockFile = "fresh" /\ owner = p

\* An update belongs to one task, and is not written before its turn.
OpInv ==
    /\ \A p, q \in Procs : op[p] = op[q] /\ op[p] # ReadOnly => p = q
    /\ \A p \in Procs :
        /\ pc[p] \in {"save", "write"} => op[p] # ReadOnly
        /\ pc[p] \in {"acquire", "remove", "load", "save", "write"} => op[p] \notin done

\* What the job file and the loaded jobs hold while the lock works.
DataInv ==
    ~aged =>
        /\ disk # Torn => disk = done
        /\ disk = Torn /\ ~broken => \E p \in Procs : pc[p] = "write"
        /\ \A p \in Procs :
            /\ pc[p] = "save" => view[p] = done /\ disk # Torn
            /\ pc[p] = "write" => view[p] = done /\ disk = Torn

IInv == TypeOK /\ LockInv /\ OpInv /\ DataInv

LEMMA InitIInv == Init => IInv
<1> SUFFICES ASSUME Init PROVE IInv
  OBVIOUS
<1> USE TornAssumption, CrashAssumption DEF Init, Inside
<1>1. TypeOK
  <2>1. crashes \in 0..MaxCrashes
    OBVIOUS
  <2> QED
    BY <2>1 DEF TypeOK
<1>2. LockInv
  BY DEF LockInv
<1>3. OpInv
  BY DEF OpInv
<1>4. DataInv
  BY DEF DataInv
<1> QED
  BY <1>1, <1>2, <1>3, <1>4 DEF IInv

LEMMA NextIInv == IInv /\ [Next]_vars => IInv'
<1> SUFFICES ASSUME IInv, [Next]_vars PROVE IInv'
  OBVIOUS
<1> USE TornAssumption, ReadOnlyAssumption, CrashAssumption
      DEF IInv, TypeOK, LockInv, OpInv, DataInv, Inside, Goto, request, history
<1>1. ASSUME NEW p \in Procs, LoadJobs(p) PROVE IInv'
  BY <1>1 DEF LoadJobs
<1>2. ASSUME NEW p \in Procs, NEW u \in Updates, WithJobsMut(p, u) PROVE IInv'
  BY <1>2 DEF WithJobsMut
<1>3. ASSUME NEW p \in Procs, Acquire(p) PROVE IInv'
  BY <1>3 DEF Acquire
<1>4. ASSUME NEW p \in Procs, SeeStale(p) PROVE IInv'
  BY <1>4 DEF SeeStale
<1>5. ASSUME NEW p \in Procs, RemoveStale(p) PROVE IInv'
  BY <1>5 DEF RemoveStale
<1>6. ASSUME NEW p \in Procs, Load(p) PROVE IInv'
  BY <1>6 DEF Load
<1>7. ASSUME NEW p \in Procs, Truncate(p) PROVE IInv'
  BY <1>7 DEF Truncate
<1>8. ASSUME NEW p \in Procs, Write(p) PROVE IInv'
  BY <1>8 DEF Write
<1>9. ASSUME NEW p \in Procs, SaveFails(p) PROVE IInv'
  BY <1>9 DEF SaveFails
<1>10. ASSUME NEW p \in Procs, Release(p) PROVE IInv'
  BY <1>10 DEF Release
<1>11. CASE Age
  BY <1>11 DEF Age
<1>12. ASSUME NEW p \in Procs, Crash(p) PROVE IInv'
  <2> USE <1>12 DEF Crash
  <2>1. TypeOK'
    <3>1. crashes' \in 0..MaxCrashes
      OBVIOUS
    <3>2. broken' \in BOOLEAN /\ aged' \in BOOLEAN
      OBVIOUS
    <3> QED
      BY <3>1, <3>2
  <2>2. LockInv'
    OBVIOUS
  <2>3. OpInv'
    OBVIOUS
  <2>4. DataInv'
    OBVIOUS
  <2> QED
    BY <2>1, <2>2, <2>3, <2>4
<1>13. CASE UNCHANGED vars
  BY <1>13 DEF vars
<1> QED
  BY <1>1, <1>2, <1>3, <1>4, <1>5, <1>6, <1>7, <1>8, <1>9, <1>10, <1>11,
     <1>12, <1>13 DEF Next, Step
-----------------------------------------------------------------------------
(* Every reachable state satisfies the inductive invariant. *)
THEOREM Invariance == Spec => []IInv
BY InitIInv, NextIInv, PTL DEF Spec

(* The variables keep their types: in particular only updates are ever     *)
(* written to the job file, and no load_jobs is.                           *)
THEOREM TypeCorrect == Spec => []TypeOK
<1>1. IInv => TypeOK
  BY DEF IInv
<1> QED
  BY <1>1, Invariance, PTL

(* Whatever the number of tasks, no two are between acquire_cron_lock and  *)
(* Drop as long as no lock file has been there for ten seconds.            *)
THEOREM Exclusion == Spec => []MutualExclusion
<1>1. IInv => MutualExclusion
  BY DEF IInv, LockInv, MutualExclusion
<1> QED
  BY <1>1, Invariance, PTL

\* Under the lock, Content is what has been written while a task is writing,
\* and what the file holds otherwise.
Writing == \E p \in Procs : pc[p] = "write"

ContentInv ==
    /\ Writing => Content = done
    /\ ~Writing => Content = disk

LEMMA ContentValue == IInv /\ ~aged => ContentInv
<1> SUFFICES ASSUME IInv, ~aged PROVE ContentInv
  OBVIOUS
<1>1. ASSUME Writing PROVE Content = done
  <2>1. disk = Torn
    BY <1>1 DEF IInv, DataInv, Writing
  <2>2. PICK p \in Procs : p = CHOOSE q \in Procs : pc[q] = "write"
    BY <1>1 DEF Writing
  <2>3. pc[p] = "write" /\ Content = view[p]
    BY <1>1, <2>1, <2>2 DEF Content, Writing
  <2> QED
    BY <2>3 DEF IInv, DataInv
<1>2. ~Writing => Content = disk
  BY DEF Content, Writing
<1> QED
  BY <1>1, <1>2 DEF ContentInv

LEMMA ContentValueNext == (IInv /\ ~aged)' => ContentInv'
BY ContentValue, PTL

(* No update that was written is ever missing from the job file, while the *)
(* lock works and no save breaks off.                                      *)
THEOREM NoUpdateLost == Spec => []NoLostUpdate
<1>1. IInv => NoLostUpdate
  <2> SUFFICES ASSUME IInv, ~aged, ~broken
               PROVE  Content # Torn /\ done \subseteq Content
    BY DEF NoLostUpdate
  <2>1. done # Torn
    BY TornAssumption DEF IInv, TypeOK
  <2>2. Content = done
    BY ContentValue DEF ContentInv, IInv, DataInv, Writing
  <2> QED
    BY <2>1, <2>2
<1> QED
  BY <1>1, Invariance, PTL

(* Nobody loads a half-written file under the same conditions. *)
THEOREM NoTornFileLoaded == Spec => []NoTornLoad
<1>1. IInv => NoTornLoad
  BY DEF IInv, TypeOK, LockInv, DataInv, NoTornLoad, Inside
<1> QED
  BY <1>1, Invariance, PTL

-----------------------------------------------------------------------------
(* Refinement: while no lock file is old, a step of a task either leaves   *)
(* the content of the store alone, commits the task's update, or wrecks it. *)

LEMMA InitRefines == Init => Store!Init
BY TornAssumption DEF Init, Store!Init, Content

\* No step makes an old lock file young again.
LEMMA AgedStays == [Next]_vars /\ aged => aged'
<1> SUFFICES ASSUME [Next]_vars, aged PROVE aged'
  OBVIOUS
<1>1. ASSUME NEW p \in Procs, LoadJobs(p) \/ Step(p) \/ Crash(p) PROVE aged' = aged
  BY <1>1, Zenon DEF Step, LoadJobs, Acquire, SeeStale, RemoveStale, Load, Truncate, Write,
                     SaveFails, Release, Crash, history
<1>2. ASSUME NEW p \in Procs, NEW u \in Updates, WithJobsMut(p, u) PROVE aged' = aged
  BY <1>2, Zenon DEF WithJobsMut, history
<1>3. CASE Age
  BY <1>3 DEF Age
<1>4. CASE UNCHANGED vars
  BY <1>4 DEF vars, history
<1> QED BY <1>1, <1>2, <1>3, <1>4, Zenon DEF Next

LEMMA TimelyStepRefines ==
  IInv /\ IInv' /\ ~aged /\ ~aged' /\ [Next]_vars => [Store!Next]_Store!avars
<1> SUFFICES ASSUME IInv, IInv', ~aged, ~aged', [Next]_vars
             PROVE  [Store!Next]_Store!avars
  OBVIOUS
<1>1. ~aged /\ ~aged'
  OBVIOUS
<1>2. (Writing => Content = done) /\ (~Writing => Content = disk)
  BY ContentValue DEF ContentInv
<1>3. (Writing' => Content' = done') /\ (~Writing' => Content' = disk')
  BY ContentValueNext DEF ContentInv
<1>4. \A p, q \in Procs : pc[p] \in Inside /\ pc[q] \in Inside => p = q
  BY DEF IInv, LockInv
<1> USE DEF IInv, TypeOK, DataInv, Writing, Goto, Inside, request, history
\* Steps that leave the job file, the updates and the writers alone.
<1>5. ASSUME disk' = disk, done' = done, Writing' <=> Writing
      PROVE  UNCHANGED Store!avars
  BY <1>2, <1>3, <1>5 DEF Store!avars
<1>6. ASSUME NEW p \in Procs,
             LoadJobs(p) \/ Acquire(p) \/ SeeStale(p) \/ RemoveStale(p) \/ Load(p) \/ Release(p)
      PROVE  UNCHANGED Store!avars
  <2>1. disk' = disk /\ done' = done
    BY <1>6 DEF LoadJobs, Acquire, SeeStale, RemoveStale, Load, Release
  <2>2. Writing' <=> Writing
    BY <1>6 DEF LoadJobs, Acquire, SeeStale, RemoveStale, Load, Release
  <2> QED
    BY <1>5, <2>1, <2>2
<1>7. ASSUME NEW p \in Procs, NEW u \in Updates, WithJobsMut(p, u)
      PROVE  UNCHANGED Store!avars
  BY <1>5, <1>7 DEF WithJobsMut
<1>8. ASSUME NEW p \in Procs, Truncate(p) PROVE UNCHANGED Store!avars
  <2>1. ~Writing /\ disk = done
    BY <1>4, <1>8 DEF Truncate
  <2>2. Writing' /\ done' = done
    BY <1>8 DEF Truncate
  <2> QED
    BY <1>2, <1>3, <2>1, <2>2 DEF Store!avars
<1>9. ASSUME NEW p \in Procs, Write(p) PROVE Store!Commit(op[p])
  <2>1. Writing /\ view[p] = done /\ op[p] \notin done
    BY <1>9 DEF Write, OpInv
  <2>2. ~Writing'
    BY <1>4, <1>9 DEF Write
  <2>3. disk' = done \cup {op[p]} /\ done' = done \cup {op[p]}
    BY <1>9, <2>1 DEF Write
  <2> QED
    BY <1>2, <1>3, <2>1, <2>2, <2>3, TornAssumption DEF Store!Commit
<1>10. ASSUME NEW p \in Procs, SaveFails(p) \/ Crash(p)
       PROVE  Store!Wreck \/ UNCHANGED Store!avars
  <2>1. disk' = disk /\ done' = done
    BY <1>10 DEF SaveFails, Crash
  <2>2. CASE pc[p] = "write"
    <3>1. ~Writing' /\ disk = Torn
      BY <1>4, <1>10, <2>2 DEF SaveFails, Crash
    <3> QED
      BY <1>3, <2>1, <3>1 DEF Store!Wreck
  <2>3. CASE pc[p] # "write"
    <3>1. Writing' <=> Writing
      BY <1>10, <2>3 DEF SaveFails, Crash
    <3> QED
      BY <1>5, <2>1, <3>1
  <2> QED
    BY <2>2, <2>3
<1>11. CASE Age
  BY <1>1, <1>11 DEF Age
<1>12. CASE UNCHANGED vars
  BY <1>5, <1>12 DEF vars
<1>13. ASSUME NEW p \in Procs, Write(p) PROVE Store!Next
  BY <1>9, <1>13 DEF Store!Next, Write, OpInv
<1> QED
  BY <1>6, <1>7, <1>8, <1>10, <1>11, <1>12, <1>13 DEF Next, Step, Store!Next

\* An abstract store whose promise is off can do anything.
LEMMA NextRefines == IInv /\ IInv' /\ [Next]_vars => [Store!Next]_Store!avars
<1>1. CASE aged'
  BY <1>1 DEF Store!Next
<1>2. CASE ~aged'
  BY <1>2, TimelyStepRefines, AgedStays
<1> QED BY <1>1, <1>2

(* The store is the abstract one, for any number of tasks and updates:     *)
(* until a lock file has been present for ten seconds every update is      *)
(* applied to the newest content in one step.                              *)
THEOREM Refinement == Spec => ImplementsAtomicStore
<1>1. Spec => []IInv
  BY Invariance
<1> QED
  BY <1>1, InitRefines, NextRefines, PTL DEF Spec, ImplementsAtomicStore, Store!Spec

-----------------------------------------------------------------------------
(* What a store at rest looks like.                                        *)

(* A lock file is left behind only by a task that died or was slow; a file *)
(* that does not parse, only by a save that broke off, however many tasks  *)
(* took an old lock for their own; and whatever the file holds has been    *)
(* written for a task that asked for it.                                   *)
RestsClean ==
    /\ ~aged /\ crashes = 0 /\ (\A p \in Procs : pc[p] \notin Inside) => lockFile = "none"
    /\ ~broken /\ (\A p \in Procs : pc[p] # "write") => disk # Torn
    /\ disk # Torn => disk \subseteq done

\* The task that made the lock file is inside, and no load has made anything up.
RestInv ==
    /\ ~aged /\ crashes = 0 /\ lockFile # "none" => pc[owner] \in Inside
    /\ ~broken /\ disk = Torn => \E p \in Procs : pc[p] = "write"
    /\ disk # Torn => disk \subseteq done
    /\ \A p \in Procs : view[p] \subseteq done

LEMMA NextRests == IInv /\ RestInv /\ [Next]_vars => RestInv'
<1> SUFFICES ASSUME IInv, RestInv, [Next]_vars PROVE RestInv'
  OBVIOUS
<1> USE TornAssumption, CrashAssumption
      DEF IInv, TypeOK, LockInv, RestInv, Inside, Goto, request, history
<1>1. ASSUME NEW p \in Procs,
             LoadJobs(p) \/ Acquire(p) \/ SeeStale(p) \/ RemoveStale(p) \/ Release(p)
      PROVE  RestInv'
  BY <1>1 DEF LoadJobs, Acquire, SeeStale, RemoveStale, Release
<1>2. ASSUME NEW p \in Procs, NEW u \in Updates, WithJobsMut(p, u) PROVE RestInv'
  BY <1>2 DEF WithJobsMut
<1>3. ASSUME NEW p \in Procs, Load(p) PROVE RestInv'
  BY <1>3 DEF Load
<1>4. ASSUME NEW p \in Procs, Truncate(p) PROVE RestInv'
  BY <1>4 DEF Truncate
<1>5. ASSUME NEW p \in Procs, Write(p) PROVE RestInv'
  <2>1. op[p] \in Updates
    BY <1>5 DEF Write, OpInv
  <2>2. disk' = view[p] \cup {op[p]} /\ done' = done \cup {op[p]} /\ view' = view
    BY <1>5 DEF Write
  <2>3. disk' # Torn
    <3>1. disk' \in SUBSET Updates
      BY <2>1, <2>2
    <3> QED
      BY <3>1
  <2> QED
    BY <1>5, <2>2, <2>3 DEF Write
<1>6. ASSUME NEW p \in Procs, SaveFails(p) \/ Crash(p) PROVE RestInv'
  <2>1. ~broken' => ~broken /\ pc[p] # "write"
    <3>1. broken' = (broken \/ pc[p] = "write")
      BY <1>6, Zenon DEF SaveFails, Crash
    <3> QED
      BY <3>1, Zenon
  <2>2. ~broken' /\ disk' = Torn => \E q \in Procs : pc'[q] = "write"
    <3>1. ASSUME ~broken', disk' = Torn PROVE \E q \in Procs : pc'[q] = "write"
      <4>1. disk' = disk /\ \A q \in Procs : q # p => pc'[q] = pc[q]
        BY <1>6 DEF SaveFails, Crash
      <4>2. \E q \in Procs : pc[q] = "write" /\ q # p
        BY <2>1, <3>1, <4>1
      <4> QED
        BY <4>1, <4>2
    <3> QED
      BY <3>1
  <2>3. UNCHANGED <<lockFile, view, disk, done, owner, aged>>
    BY <1>6 DEF SaveFails, Crash
  <2>4. ~aged' /\ crashes' = 0 /\ lockFile' # "none" => pc'[owner'] \in Inside
    <3>1. CASE SaveFails(p)
      BY <3>1 DEF SaveFails
    <3>2. CASE Crash(p)
      <4>1. crashes' # 0
        BY <3>2 DEF Crash
      <4> QED
        BY <4>1
    <3> QED
      BY <1>6, <3>1, <3>2
  <2> QED
    BY <2>2, <2>3, <2>4
<1>7. CASE Age
  BY <1>7 DEF Age
<1>8. CASE UNCHANGED vars
  BY <1>8 DEF vars
<1> QED
  BY <1>1, <1>2, <1>3, <1>4, <1>5, <1>6, <1>7, <1>8 DEF Next, Step

(* At rest the store has neither a lock nor a torn file, unless a task     *)
(* died, was slow, or a save of it broke off; and nothing in it is made up. *)
THEOREM StoreRestsClean == Spec => []RestsClean
<1>1. Init => RestInv
  BY TornAssumption DEF Init, RestInv
<1>2. IInv /\ RestInv => RestsClean
  BY DEF IInv, TypeOK, RestInv, RestsClean
<1> QED
  BY <1>1, <1>2, NextRests, Invariance, PTL DEF Spec
=============================================================================
