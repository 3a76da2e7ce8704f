------------------------ MODULE CronScheduler_proofs ------------------------
(***************************************************************************)
(* Proofs about CronScheduler, for every set of jobs, of processes and of  *)
(* run slots, every lease and every choice of delays.  The invariant is    *)
(* one formula about a job's record and its runs, Sound; each operation on *)
(* records is shown to keep it, and each action to apply such operations.  *)
(***************************************************************************)
EXTENDS CronScheduler, TLAPS

SlotRuns == [Slots -> Run \cup {None}]

\* The run within the lease is the current one, and the file knows its age.
Leased(rec, rs) ==
    \A s \in Slots :
        rs[s] # None /\ rs[s].clean /\ rs[s].age <= Lease =>
            /\ rec # None
            /\ rec.current = s
            /\ rec.status = "running"
            /\ rec.age = rs[s].age

\* Counters and one-time jobs.
Counted(rec) ==
    rec # None =>
        /\ rec.calm /\ rec.starts < MaxCount =>
               rec.starts = rec.runs + (IF rec.status = "running" THEN 1 ELSE 0)
        /\ rec.enabled => rec.fired = 0
        /\ rec.fired <= 1

Sound(rec, rs) ==
    /\ rec \in Job \cup {None}
    /\ rs \in SlotRuns
    /\ Leased(rec, rs)
    /\ Counted(rec)

IInv ==
    /\ TypeOK
    /\ \A j \in Jobs : Sound(job[j], run[j])

LEMMA NoneIsNoRecord == None \notin Job /\ None \notin Run /\ None \notin Nat /\ None \notin Slots
BY NoneAssumption

-----------------------------------------------------------------------------
(* Operations on the record of a job. *)

LEMMA SuccType == \A n \in 0..MaxCount : Succ(n) \in 0..MaxCount
                     /\ (Succ(n) < MaxCount => Succ(n) = n + 1)
                     /\ (n < MaxCount => Succ(n) = n + 1)
BY CountAssumption DEF Succ, Min2

LEMMA SweepSound ==
    ASSUME NEW rec \in Job, Counted(rec), ~HoldsLease(rec)
    PROVE  /\ Sweep(rec) \in Job
           /\ Sweep(rec).status # "running"
           /\ Counted(Sweep(rec))
           /\ Sweep(rec).enabled = rec.enabled /\ Sweep(rec).once = rec.once
           /\ Sweep(rec).due = rec.due
<1>1. CASE rec.status = "running"
  <2> DEFINE new == [rec EXCEPT !.status = "failed", !.runs = Succ(@), !.fails = Succ(@)]
  <2>1. Sweep(rec) = new
    BY <1>1 DEF Sweep, HoldsLease
  <2>2. rec.runs \in 0..MaxCount /\ rec.fails \in 0..MaxCount
    BY DEF Job
  <2>3. Succ(rec.runs) \in 0..MaxCount /\ Succ(rec.fails) \in 0..MaxCount
    BY <2>2, SuccType
  <2>4. new \in Job
    BY <2>3 DEF Job
  <2>5. new.runs = Succ(rec.runs) /\ new.status = "failed" /\ new.enabled = rec.enabled
        /\ new.once = rec.once /\ new.due = rec.due /\ new.fired = rec.fired
        /\ new.calm = rec.calm /\ new.starts = rec.starts
    BY DEF Job
  <2>6. Counted(new)
    <3>1. rec.starts \in 0..MaxCount
      BY DEF Job
    <3>2. ASSUME rec.calm, rec.starts < MaxCount PROVE rec.starts = Succ(rec.runs)
      <4>1. rec.starts = rec.runs + 1
        BY <1>1, <3>2, NoneIsNoRecord DEF Counted
      <4>2. rec.runs < MaxCount
        BY <2>2, <3>1, <3>2, <4>1, CountAssumption
      <4> QED
        BY <2>2, <4>1, <4>2, SuccType
    <3>3. Succ(rec.runs) \in Nat
      BY <2>3
    <3> QED
      BY <2>5, <3>2, <3>3, NoneIsNoRecord DEF Counted
  <2> QED
    BY <2>1, <2>4, <2>5, <2>6
<1>2. CASE rec.status # "running"
  BY <1>2 DEF Sweep
<1> QED
  BY <1>1, <1>2

LEMMA MarkRunningSound ==
    ASSUME NEW rec \in Job, Counted(rec), rec.status # "running", NEW s \in Slots
    PROVE  /\ MarkRunning(rec, s) \in Job
           /\ Counted(MarkRunning(rec, s))
           /\ MarkRunning(rec, s).current = s
           /\ MarkRunning(rec, s).status = "running"
           /\ MarkRunning(rec, s).age = 0
           /\ MarkRunning(rec, s).enabled = rec.enabled
           /\ MarkRunning(rec, s).once = rec.once
           /\ MarkRunning(rec, s).fired = rec.fired
<1> DEFINE new == MarkRunning(rec, s)
<1>1. rec.starts \in 0..MaxCount /\ rec.runs \in 0..MaxCount
  BY DEF Job
<1>2. Succ(rec.starts) \in 0..MaxCount
  BY <1>1, SuccType
<1>3. 0 \in (0..Lease + 1) \cup {None}
  BY LeaseAssumption
<1>4. new \in Job
  BY <1>2, <1>3 DEF MarkRunning, Job
<1>5. new.current = s /\ new.status = "running" /\ new.age = 0 /\ new.enabled = rec.enabled
      /\ new.once = rec.once /\ new.fired = rec.fired /\ new.calm = rec.calm
      /\ new.starts = Succ(rec.starts) /\ new.runs = rec.runs
  BY DEF MarkRunning, Job
<1>6. ASSUME rec.calm, Succ(rec.starts) < MaxCount
      PROVE  Succ(rec.starts) = rec.runs + 1
  <2>1. Succ(rec.starts) = rec.starts + 1
    BY <1>1, <1>6, SuccType
  <2>2. rec.starts < MaxCount
    BY <1>1, <1>6, <2>1, CountAssumption
  <2>3. rec.starts = rec.runs
    BY <1>1, <1>6, <2>2, NoneIsNoRecord DEF Counted
  <2> QED
    BY <2>1, <2>3
<1>7. Counted(new)
  BY <1>5, <1>6, NoneIsNoRecord DEF Counted
<1> QED
  BY <1>4, <1>5, <1>7

LEMMA RescheduleSound ==
    ASSUME NEW rec \in Job, Counted(rec), NEW d \in Delays
    PROVE  /\ Reschedule(rec, d) \in Job
           /\ Counted(Reschedule(rec, d))
           /\ Reschedule(rec, d).status = rec.status
           /\ Reschedule(rec, d).once = rec.once
           /\ Reschedule(rec, d).fired = rec.fired
           /\ rec.once => ~Reschedule(rec, d).enabled
BY DelaysAssumption, NoneIsNoRecord DEF Reschedule, Job, Counted

LEMMA WithNextSound ==
    ASSUME NEW rec \in Job, Counted(rec), NEW d \in Delays
    PROVE  /\ WithNext(rec, d) \in Job
           /\ Counted(WithNext(rec, d))
           /\ WithNext(rec, d).status = rec.status
           /\ WithNext(rec, d).age = rec.age
           /\ WithNext(rec, d).current = rec.current
           /\ WithNext(rec, d).enabled = rec.enabled
           /\ WithNext(rec, d).once = rec.once
           /\ WithNext(rec, d).fired = rec.fired
BY DelaysAssumption, NoneIsNoRecord DEF WithNext, Job, Counted

LEMMA FinishedSound ==
    ASSUME NEW rec \in Job, Counted(rec), NEW outcome, NEW c \in BOOLEAN,
           c => rec.calm /\ rec.status = "running"
    PROVE  LET new == [Finished(rec, outcome) EXCEPT !.calm = c]
           IN  new \in Job /\ Counted(new)
<1> DEFINE new == [Finished(rec, outcome) EXCEPT !.calm = c]
<1>1. rec.runs \in 0..MaxCount /\ rec.fails \in 0..MaxCount /\ rec.starts \in 0..MaxCount
  BY DEF Job
<1>2. Succ(rec.runs) \in 0..MaxCount /\ Succ(rec.fails) \in 0..MaxCount
  BY <1>1, SuccType
<1>3. new \in Job
  BY <1>2 DEF Finished, Job
<1>4. new.runs = Succ(rec.runs) /\ new.status # "running" /\ new.enabled = rec.enabled
      /\ new.fired = rec.fired /\ new.calm = c /\ new.starts = rec.starts
  BY DEF Finished, Job
<1>5. ASSUME c, rec.starts < MaxCount PROVE rec.starts = Succ(rec.runs)
  <2>1. rec.starts = rec.runs + 1
    BY <1>5, NoneIsNoRecord DEF Counted
  <2>2. rec.runs < MaxCount
    BY <1>1, <1>5, <2>1, CountAssumption
  <2> QED
    BY <1>1, <2>1, <2>2, SuccType
<1>6. Succ(rec.runs) \in Nat
  BY <1>2
<1>7. Counted(new)
  BY <1>4, <1>5, <1>6, NoneIsNoRecord DEF Counted
<1> QED
  BY <1>3, <1>7

-----------------------------------------------------------------------------
(* Starting a run while the lease is free. *)

\* Nobody is within the lease when the lease does not hold.
LEMMA NobodyLeased ==
    ASSUME NEW rec, NEW rs, Sound(rec, rs), rec # None, ~HoldsLease(rec)
    PROVE  \A s \in Slots : ~(rs[s] # None /\ rs[s].clean /\ rs[s].age <= Lease)
<1> SUFFICES ASSUME NEW s \in Slots, rs[s] # None, rs[s].clean, rs[s].age <= Lease
             PROVE  FALSE
  OBVIOUS
<1>1. rs[s] \in Run
  BY DEF Sound, SlotRuns
<1>2. rec.status = "running" /\ rec.age = rs[s].age
  BY DEF Sound, Leased
<1>3. rs[s].age \in Nat
  BY <1>1, LeaseAssumption DEF Run
<1> QED
  BY <1>2, <1>3, NoneIsNoRecord, LeaseAssumption DEF HoldsLease, Stale

LEMMA NewRunType == \A p \in Procs : NewRun(p) \in Run
BY LeaseAssumption DEF NewRun, Run

LEMMA StartSound ==
    ASSUME NEW rec \in Job, NEW rs, Sound(rec, rs), ~HoldsLease(rec),
           NEW new \in Job, Counted(new), NEW s \in Slots, NEW p \in Procs,
           new.current = s, new.status = "running", new.age = 0
    PROVE  Sound(new, [rs EXCEPT ![s] = NewRun(p)])
<1> DEFINE rs2 == [rs EXCEPT ![s] = NewRun(p)]
<1>1. rs \in SlotRuns /\ rec # None
  BY NoneIsNoRecord DEF Sound
<1>2. rs2 \in SlotRuns
  BY <1>1, NewRunType DEF SlotRuns
<1>3. ASSUME NEW t \in Slots, rs2[t] # None, rs2[t].clean, rs2[t].age <= Lease
      PROVE  t = s
  BY <1>1, <1>3, NobodyLeased DEF SlotRuns
<1>4. rs2[s].age = 0
  BY <1>1 DEF SlotRuns, NewRun
<1>5. Leased(new, rs2)
  BY <1>3, <1>4, NoneIsNoRecord DEF Leased
<1> QED
  BY <1>2, <1>5 DEF Sound

\* A record that keeps the lease keeps its runs sound.
LEMMA KeepSound ==
    ASSUME NEW rec \in Job, NEW rs, Sound(rec, rs), NEW new \in Job, Counted(new),
           \/ ~HoldsLease(rec)
           \/ new.current = rec.current /\ new.status = rec.status /\ new.age = rec.age
    PROVE  Sound(new, rs)
<1>1. rec # None /\ new # None
  BY NoneIsNoRecord
<1>2. Leased(new, rs)
  <2>1. CASE ~HoldsLease(rec)
    BY <1>1, <2>1, NobodyLeased DEF Leased
  <2>2. CASE new.current = rec.current /\ new.status = rec.status /\ new.age = rec.age
    BY <1>1, <2>2 DEF Leased, Sound
  <2> QED
    BY <2>1, <2>2
<1> QED
  BY <1>2 DEF Sound

LEMMA TickJobSound ==
    ASSUME NEW rec \in Job, NEW rs, Sound(rec, rs),
           NEW d \in Delays, NEW s \in Slots, NEW p \in Procs
    PROVE  Sound(TickJob(rec, d, s),
                 IF TickStarts(rec, d) THEN [rs EXCEPT ![s] = NewRun(p)] ELSE rs)
<1>0. Counted(rec)
  BY DEF Sound
<1>1. CASE HoldsLease(rec)
  BY <1>1 DEF TickJob, TickStarts
<1>2. CASE ~HoldsLease(rec) /\ ~rec.enabled
  <2>1. TickJob(rec, d, s) = Sweep(rec) /\ ~TickStarts(rec, d)
    BY <1>2 DEF TickJob, TickStarts
  <2>2. Sweep(rec) \in Job /\ Counted(Sweep(rec))
    BY <1>0, <1>2, SweepSound
  <2> QED
    BY <1>2, <2>1, <2>2, KeepSound
<1>3. CASE ~HoldsLease(rec) /\ rec.enabled
  <2> DEFINE w == WithNext(Sweep(rec), d)
  <2>1. /\ w \in Job /\ Counted(w)
        /\ w.status # "running" /\ w.enabled /\ w.once = rec.once
    BY <1>0, <1>3, SweepSound, WithNextSound
  <2>2. CASE ~TickStarts(rec, d)
    <3>1. TickJob(rec, d, s) = w
      BY <1>3, <2>2 DEF TickJob
    <3> QED
      BY <1>3, <2>1, <2>2, <3>1, KeepSound
  <2>3. CASE TickStarts(rec, d)
    <3> DEFINE r == Reschedule(w, d)
               m == MarkRunning(r, s)
               n == [m EXCEPT !.fired = IF rec.once THEN Min2(@ + 1, 2) ELSE @]
    <3>1. TickJob(rec, d, s) = n
      BY <1>3, <2>3 DEF TickJob
    <3>2. /\ r \in Job /\ Counted(r) /\ r.status # "running"
          /\ r.fired = w.fired /\ (w.once => ~r.enabled)
      BY <2>1, RescheduleSound
    <3>3. /\ m \in Job /\ Counted(m) /\ m.current = s /\ m.status = "running" /\ m.age = 0
          /\ m.fired = w.fired /\ (rec.once => ~m.enabled)
      BY <2>1, <3>2, MarkRunningSound
    <3>4. w.fired = 0
      BY <2>1, NoneIsNoRecord DEF Counted
    <3>5. n = [m EXCEPT !.fired = IF rec.once THEN 1 ELSE 0]
      BY <3>3, <3>4 DEF Min2, Job
    <3>6. n \in Job
      BY <3>3, <3>5 DEF Job
    <3>7. /\ n.current = s /\ n.status = "running" /\ n.age = 0
          /\ n.calm = m.calm /\ n.starts = m.starts /\ n.runs = m.runs
          /\ n.enabled = m.enabled /\ n.fired = (IF rec.once THEN 1 ELSE 0)
      BY <3>3, <3>5 DEF Job
    <3>8. Counted(n)
      BY <3>3, <3>7, NoneIsNoRecord DEF Counted
    <3> HIDE DEF n
    <3>9. Sound(n, [rs EXCEPT ![s] = NewRun(p)])
      BY <1>3, <3>6, <3>7, <3>8, StartSound
    <3> QED
      BY <2>3, <3>1, <3>9
  <2> QED
    BY <2>2, <2>3
<1> QED
  BY <1>1, <1>2, <1>3

-----------------------------------------------------------------------------
(* The actions. *)

LEMMA InitIInv == Init => IInv
<1> SUFFICES ASSUME Init PROVE IInv
  OBVIOUS
<1>1. TypeOK
  BY DEF Init, TypeOK
<1>2. ASSUME NEW j \in Jobs PROVE Sound(job[j], run[j])
  BY <1>2 DEF Init, Sound, SlotRuns, Leased, Counted
<1> QED
  BY <1>1, <1>2 DEF IInv

\* Sound for every job gives the types back.
LEMMA SoundTypes ==
    ASSUME NEW f, NEW g, f = [j \in Jobs |-> f[j]], g = [j \in Jobs |-> g[j]],
           \A j \in Jobs : Sound(f[j], g[j])
    PROVE  f \in [Jobs -> Job \cup {None}] /\ g \in [Jobs -> [Slots -> Run \cup {None}]]
BY DEF Sound, SlotRuns

\* A step that changes one job and its runs soundly keeps the invariant.
LEMMA OneJob ==
    ASSUME IInv, NEW j \in Jobs, NEW rec, NEW rs, Sound(rec, rs),
           job' = [job EXCEPT ![j] = rec], run' = [run EXCEPT ![j] = rs]
    PROVE  IInv'
<1>1. job' = [k \in Jobs |-> job'[k]] /\ run' = [k \in Jobs |-> run'[k]]
  BY DEF IInv, TypeOK
<1>2. \A k \in Jobs : Sound(job'[k], run'[k])
  BY DEF IInv, TypeOK
<1>3. TypeOK'
  <2> HIDE DEF IInv
  <2>1. /\ job' \in [Jobs -> Job \cup {None}]
        /\ run' \in [Jobs -> [Slots -> Run \cup {None}]]
    BY <1>1, <1>2 DEF Sound, SlotRuns
  <2> QED
    BY <2>1 DEF TypeOK
<1> QED
  BY <1>2, <1>3 DEF IInv

LEMMA TickIInv == ASSUME IInv, NEW p \in Procs, Tick(p) PROVE IInv'
<1>1. PICK d \in [Jobs -> Delays], s \in [Jobs -> Slots] :
        /\ job' = [j \in Jobs |-> IF Exists(j) THEN TickJob(job[j], d[j], s[j]) ELSE None]
        /\ run' = [j \in Jobs |->
                     IF Exists(j) /\ TickStarts(job[j], d[j])
                     THEN [run[j] EXCEPT ![s[j]] = NewRun(p)] ELSE run[j]]
  BY DEF Tick
<1>2. ASSUME NEW j \in Jobs PROVE Sound(job'[j], run'[j])
  <2>1. Sound(job[j], run[j]) /\ job[j] \in Job \cup {None}
    BY DEF IInv, TypeOK
  <2>2. CASE ~Exists(j)
    BY <1>1, <2>1, <2>2 DEF Exists
  <2>3. CASE Exists(j)
    <3>1. job[j] \in Job /\ d[j] \in Delays /\ s[j] \in Slots
      BY <2>1, <2>3 DEF Exists
    <3>2. job'[j] = TickJob(job[j], d[j], s[j])
      BY <1>1, <2>3
    <3>3. run'[j] = IF TickStarts(job[j], d[j])
                    THEN [run[j] EXCEPT ![s[j]] = NewRun(p)] ELSE run[j]
      BY <1>1, <2>3
    <3>4. Sound(TickJob(job[j], d[j], s[j]),
                IF TickStarts(job[j], d[j])
                THEN [run[j] EXCEPT ![s[j]] = NewRun(p)] ELSE run[j])
      BY <2>1, <3>1, TickJobSound
    <3> QED
      BY <3>2, <3>3, <3>4
  <2> QED
    BY <2>2, <2>3
<1>3. job' = [k \in Jobs |-> job'[k]] /\ run' = [k \in Jobs |-> run'[k]]
  BY <1>1
<1> QED
  BY <1>2, <1>3, SoundTypes DEF IInv, TypeOK

LEMMA RunNowIInv ==
    ASSUME IInv, NEW p \in Procs, NEW j \in Jobs, NEW s \in Slots, RunNow(p, j, s)
    PROVE  IInv'
<1> DEFINE m == MarkRunning(Sweep(job[j]), s)
           rs == [run[j] EXCEPT ![s] = NewRun(p)]
<1>1. job[j] \in Job /\ Sound(job[j], run[j]) /\ ~HoldsLease(job[j]) /\ Counted(job[j])
  BY DEF RunNow, Exists, IInv, TypeOK, Sound
<1>2. /\ Sweep(job[j]) \in Job /\ Counted(Sweep(job[j]))
      /\ Sweep(job[j]).status # "running"
  BY <1>1, SweepSound
<1>3. m \in Job /\ Counted(m) /\ m.current = s /\ m.status = "running" /\ m.age = 0
  BY <1>2, MarkRunningSound
<1>4. Sound(m, rs)
  BY <1>1, <1>3, StartSound
<1>5. job' = [job EXCEPT ![j] = m] /\ run' = [run EXCEPT ![j] = rs]
  BY DEF RunNow, IInv, TypeOK
<1> QED
  BY <1>4, <1>5, OneJob

LEMMA RunEndsIInv ==
    ASSUME IInv, NEW j \in Jobs, NEW s \in Slots, NEW outcome \in {"success", "failure"},
           RunEnds(j, s, outcome)
    PROVE  IInv'
<1> DEFINE rs == [run[j] EXCEPT ![s].stage = outcome]
<1>1. Sound(job[j], run[j]) /\ run[j] \in SlotRuns /\ run[j][s] \in Run
  BY DEF RunEnds, Active, IInv, TypeOK, Sound, SlotRuns
<1>2. rs \in SlotRuns /\ run[j][s] # None
  BY <1>1, NoneIsNoRecord DEF SlotRuns, Run
<1>3. \A t \in Slots : rs[t] # None =>
        run[j][t] # None /\ rs[t].clean = run[j][t].clean /\ rs[t].age = run[j][t].age
  BY <1>1, <1>2 DEF SlotRuns, Run
<1>4. Leased(job[j], rs)
  BY <1>1, <1>3 DEF Sound, Leased
<1>5. Sound(job[j], rs)
  BY <1>1, <1>2, <1>4 DEF Sound
<1>6. job' = [job EXCEPT ![j] = job[j]] /\ run' = [run EXCEPT ![j] = rs]
  BY DEF RunEnds, IInv, TypeOK
<1> HIDE DEF rs
<1> QED
  BY <1>5, <1>6, OneJob

\* Runs that are removed or disturbed ask nothing of the job.
LEMMA FewerSound ==
    ASSUME NEW rec, NEW rs, Sound(rec, rs), NEW rs2 \in SlotRuns,
           \A t \in Slots : rs2[t] # None /\ rs2[t].clean => rs2[t] = rs[t]
    PROVE  Sound(rec, rs2)
BY DEF Sound, Leased

\* Without a clean run any record will do.
LEMMA NoneCleanSound ==
    ASSUME NEW rec \in Job \cup {None}, Counted(rec), NEW rs \in SlotRuns,
           \A t \in Slots : rs[t] # None => ~rs[t].clean
    PROVE  Sound(rec, rs)
BY DEF Sound, Leased

LEMMA DisturbType ==
    ASSUME IInv, NEW j \in Jobs, NEW keep
    PROVE  /\ Disturb(j, keep) \in SlotRuns
           /\ \A t \in Slots : Disturb(j, keep)[t] # None /\ t # keep => ~Disturb(j, keep)[t].clean
           /\ keep \in Slots => Disturb(j, keep)[keep] = run[j][keep]
<1>1. run[j] \in SlotRuns
  BY DEF IInv, TypeOK, SlotRuns
<1>2. ASSUME NEW t \in Slots
      PROVE  /\ Disturb(j, keep)[t] \in Run \cup {None}
             /\ Disturb(j, keep)[t] # None /\ t # keep => ~Disturb(j, keep)[t].clean
  <2>1. CASE run[j][t] = None \/ t = keep
    BY <1>1, <2>1 DEF Disturb, Active, SlotRuns
  <2>2. CASE run[j][t] # None /\ t # keep
    BY <1>1, <2>2 DEF Disturb, Active, SlotRuns, Run
  <2> QED
    BY <2>1, <2>2
<1> QED
  BY <1>2 DEF Disturb, SlotRuns

LEMMA UpdateIInv ==
    ASSUME IInv, NEW j \in Jobs, NEW s \in Slots, Update(j, s) PROVE IInv'
<1> DEFINE rs == [Disturb(j, s) EXCEPT ![s] = None]
           c == job[j].calm /\ run[j][s].clean /\ job[j].current = s /\ job[j].status = "running"
           n == [Finished(job[j], run[j][s].stage) EXCEPT !.calm = c]
           new == IF Exists(j) THEN n ELSE None
<1>1. Sound(job[j], run[j]) /\ job[j] \in Job \cup {None} /\ Counted(job[j])
  BY DEF IInv, TypeOK, Sound
<1>2. rs \in SlotRuns /\ \A t \in Slots : rs[t] # None => ~rs[t].clean
  BY DisturbType DEF SlotRuns
<1>3. new \in Job \cup {None} /\ Counted(new)
  <2>1. CASE Exists(j)
    <3>1. job[j] \in Job
      BY <1>1, <2>1 DEF Exists
    <3>2. run[j][s] \in Run
      BY DEF Update, Active, IInv, TypeOK
    <3>3. c \in BOOLEAN /\ (c => job[j].calm /\ job[j].status = "running")
      OBVIOUS
    <3>4. n \in Job /\ Counted(n)
      BY <1>1, <3>1, <3>3, FinishedSound
    <3> QED
      BY <2>1, <3>4
  <2>2. CASE ~Exists(j)
    BY <2>2 DEF Counted
  <2> QED
    BY <2>1, <2>2
<1>4. Sound(new, rs)
  BY <1>2, <1>3, NoneCleanSound
<1>5. run' = [run EXCEPT ![j] = rs]
  BY DEF Update, IInv, TypeOK
<1>6. job' = [job EXCEPT ![j] = new]
  <2>1. CASE Exists(j)
    <3>1. job[j] \in Job
      BY <1>1, <2>1 DEF Exists
    <3>2. job' = [job EXCEPT ![j] = n]
      BY <2>1 DEF Update
    <3> QED
      BY <2>1, <3>2
  <2>2. CASE ~Exists(j)
    BY <2>2 DEF Update, IInv, TypeOK, Exists
  <2> QED
    BY <2>1, <2>2
<1> HIDE DEF rs, new
<1> QED
  BY <1>4, <1>5, <1>6, OneJob

LEMMA UpdateFailsIInv ==
    ASSUME IInv, NEW j \in Jobs, NEW s \in Slots, UpdateFails(j, s) PROVE IInv'
<1> DEFINE rs == [run[j] EXCEPT ![s] = None]
<1>1. Sound(job[j], run[j]) /\ run[j] \in SlotRuns
  BY DEF IInv, Sound
<1>2. rs \in SlotRuns /\ \A t \in Slots : rs[t] # None => rs[t] = run[j][t]
  BY <1>1 DEF SlotRuns
<1>3. job' = [job EXCEPT ![j] = job[j]] /\ run' = [run EXCEPT ![j] = rs]
  BY DEF UpdateFails, IInv, TypeOK
<1> HIDE DEF rs
<1>4. Sound(job[j], rs)
  BY <1>1, <1>2, FewerSound
<1> QED
  BY <1>3, <1>4, OneJob

\* The tools disturb every run of the job and put a sound record in place.
LEMMA EditIInv ==
    ASSUME IInv, NEW j \in Jobs, NEW rec \in Job \cup {None}, Counted(rec),
           job' = [job EXCEPT ![j] = rec], run' = [run EXCEPT ![j] = Disturb(j, None)]
    PROVE  IInv'
<1>1. /\ Disturb(j, None) \in SlotRuns
      /\ \A t \in Slots : Disturb(j, None)[t] # None => ~Disturb(j, None)[t].clean
  BY DisturbType, NoneIsNoRecord
<1>2. Sound(rec, Disturb(j, None))
  BY <1>1, NoneCleanSound
<1> QED
  BY <1>2, OneJob

LEMMA ToolsIInv ==
    ASSUME IInv, NEW j \in Jobs, NEW b \in BOOLEAN,
           ScheduleJob(j, b) \/ SetEnabled(j, b) \/ RemoveJob(j)
    PROVE  IInv'
<1>1. job[j] \in Job \cup {None} /\ Counted(job[j])
  BY DEF IInv, Sound
<1>2. CASE RemoveJob(j)
  <2>1. Counted(None)
    BY DEF Counted
  <2> QED
    BY <1>2, <2>1, EditIInv DEF RemoveJob
<1>3. CASE SetEnabled(j, b)
  <2> DEFINE n == [job[j] EXCEPT !.enabled = b, !.due = None,
                                 !.status = IF b THEN "idle" ELSE "disabled",
                                 !.fired = IF b THEN 0 ELSE @,
                                 !.calm = FALSE]
  <2>1. job[j] \in Job
    BY <1>1, <1>3 DEF SetEnabled, Exists
  <2>2. n \in Job
    <3>1. (IF b THEN "idle" ELSE "disabled") \in {"idle", "disabled"}
      OBVIOUS
    <3>2. (IF b THEN 0 ELSE job[j].fired) \in 0..2
      BY <2>1 DEF Job
    <3> QED
      BY <2>1, <3>1, <3>2 DEF Job
  <2>3. n.calm = FALSE /\ n.enabled = b /\ n.fired = (IF b THEN 0 ELSE job[j].fired)
    BY <2>1 DEF Job
  <2>4. Counted(n)
    BY <1>1, <2>1, <2>3, NoneIsNoRecord DEF Counted
  <2>5. job' = [job EXCEPT ![j] = n] /\ run' = [run EXCEPT ![j] = Disturb(j, None)]
    BY <1>3 DEF SetEnabled
  <2> HIDE DEF n
  <2> QED
    BY <2>2, <2>4, <2>5, EditIInv
<1>4. CASE ScheduleJob(j, b) /\ ~Exists(j)
  <2>1. NewJob(b) \in Job
    BY CountAssumption DEF NewJob, Job
  <2>2. Counted(NewJob(b))
    BY CountAssumption DEF NewJob, Counted
  <2>3. job' = [job EXCEPT ![j] = NewJob(b)] /\ run' = [run EXCEPT ![j] = Disturb(j, None)]
    BY <1>4 DEF ScheduleJob
  <2> QED
    BY <2>1, <2>2, <2>3, EditIInv
<1>5. CASE ScheduleJob(j, b) /\ Exists(j)
  <2> DEFINE n == [job[j] EXCEPT !.once = b, !.due = None,
                                 !.status = IF job[j].enabled THEN "idle" ELSE "disabled",
                                 !.fired = IF job[j].enabled THEN 0 ELSE @,
                                 !.calm = FALSE]
  <2>1. job[j] \in Job
    BY <1>1, <1>5 DEF Exists
  <2>2. n \in Job
    <3>1. (IF job[j].enabled THEN "idle" ELSE "disabled") \in {"idle", "disabled"}
      OBVIOUS
    <3>2. (IF job[j].enabled THEN 0 ELSE job[j].fired) \in 0..2
      BY <2>1 DEF Job
    <3> QED
      BY <2>1, <3>1, <3>2 DEF Job
  <2>3. /\ n.calm = FALSE /\ n.enabled = job[j].enabled
        /\ n.fired = (IF job[j].enabled THEN 0 ELSE job[j].fired)
    BY <2>1 DEF Job
  <2>4. Counted(n)
    BY <1>1, <2>1, <2>3, NoneIsNoRecord DEF Counted
  <2>5. job' = [job EXCEPT ![j] = n] /\ run' = [run EXCEPT ![j] = Disturb(j, None)]
    BY <1>5 DEF ScheduleJob
  <2> HIDE DEF n
  <2> QED
    BY <2>2, <2>4, <2>5, EditIInv
<1> QED
  BY <1>2, <1>3, <1>4, <1>5

\* Ages of the record and of its runs grow together.
LEMMA AdvanceIInv == ASSUME IInv, Advance PROVE IInv'
<1>1. ASSUME NEW j \in Jobs PROVE Sound(job'[j], run'[j])
  <2>0. Sound(job[j], run[j]) /\ job[j] \in Job \cup {None} /\ run[j] \in SlotRuns
    BY DEF IInv, Sound
  <2>1. \A n \in 0..Lease + 1 : Min2(n + 1, Lease + 1) \in 0..Lease + 1
    BY LeaseAssumption DEF Min2
  <2>2. \A s \in Slots :
          /\ run[j][s] = None => run'[j][s] = None
          /\ run[j][s] # None =>
               /\ run'[j][s] \in Run
               /\ run'[j][s].clean = run[j][s].clean
               /\ run'[j][s].age = Min2(run[j][s].age + 1, Lease + 1)
               /\ run[j][s].age \in 0..Lease + 1
    <3> SUFFICES ASSUME NEW s \in Slots, run[j][s] # None
                 PROVE  /\ run'[j][s] \in Run
                        /\ run'[j][s].clean = run[j][s].clean
                        /\ run'[j][s].age = Min2(run[j][s].age + 1, Lease + 1)
                        /\ run[j][s].age \in 0..Lease + 1
      BY DEF Advance, Active
    <3>1. run[j][s] \in Run
      BY <2>0 DEF SlotRuns
    <3>2. run'[j][s] = [run[j][s] EXCEPT !.age = Min2(run[j][s].age + 1, Lease + 1)]
      BY DEF Advance, Active
    <3>3. run[j][s].age \in 0..Lease + 1
      BY <3>1 DEF Run
    <3> QED
      BY <2>1, <3>1, <3>2, <3>3 DEF Run
  <2>3. run'[j] \in SlotRuns
    BY <2>2 DEF Advance, SlotRuns
  <2>4. CASE ~Exists(j)
    <3>1. job'[j] = None /\ job[j] = None
      BY <2>4 DEF Advance, Exists
    <3>2. \A s \in Slots : run[j][s] # None /\ run[j][s].clean => run[j][s].age = Lease + 1
      BY <2>0, <2>2, <3>1, LeaseAssumption DEF Sound, Leased
    <3>3. Leased(None, run'[j])
      BY <2>2, <3>2, LeaseAssumption DEF Leased, Min2
    <3>4. Counted(None)
      BY DEF Counted
    <3> QED
      BY <2>3, <3>1, <3>3, <3>4 DEF Sound
  <2>5. CASE Exists(j)
    <3> DEFINE a == IF job[j].age = None THEN None ELSE Min2(job[j].age + 1, Lease + 1)
               u == IF job[j].due = None \/ job[j].due = 0 THEN job[j].due ELSE job[j].due - 1
    <3>1. job[j] \in Job /\ job'[j] = [job[j] EXCEPT !.age = a, !.due = u]
      BY <2>0, <2>5 DEF Advance, Exists
    <3>2. a \in (0..Lease + 1) \cup {None}
      BY <2>1, <3>1 DEF Job
    <3>3. u \in Nat \cup {None}
      BY <3>1 DEF Job
    <3>4. job'[j] \in Job
      BY <3>1, <3>2, <3>3 DEF Job
    <3>5. /\ job'[j].age = a /\ job'[j].status = job[j].status /\ job'[j].current = job[j].current
          /\ job'[j].calm = job[j].calm /\ job'[j].starts = job[j].starts /\ job'[j].runs = job[j].runs
          /\ job'[j].enabled = job[j].enabled /\ job'[j].fired = job[j].fired
      BY <3>1 DEF Job
    <3>6. Counted(job'[j])
      BY <2>0, <3>1, <3>4, <3>5, NoneIsNoRecord DEF Sound, Counted
    <3>7. Leased(job'[j], run'[j])
      <4> SUFFICES ASSUME NEW s \in Slots, run'[j][s] # None, run'[j][s].clean,
                          run'[j][s].age <= Lease
                   PROVE  /\ job'[j].current = s /\ job'[j].status = "running"
                          /\ job'[j].age = run'[j][s].age
        BY <3>4, NoneIsNoRecord DEF Leased
      <4>1. /\ run[j][s] # None /\ run[j][s].clean /\ run[j][s].age \in 0..Lease + 1
            /\ run'[j][s].age = Min2(run[j][s].age + 1, Lease + 1)
        BY <2>2
      <4>2. run[j][s].age <= Lease
        BY <4>1, LeaseAssumption DEF Min2
      <4>3. job[j].current = s /\ job[j].status = "running" /\ job[j].age = run[j][s].age
        BY <2>0, <4>1, <4>2 DEF Sound, Leased
      <4>4. job[j].age # None
        BY <4>1, <4>3, NoneIsNoRecord
      <4> QED
        BY <3>5, <4>1, <4>3, <4>4
    <3> QED
      BY <2>3, <3>4, <3>6, <3>7 DEF Sound
  <2> QED
    BY <2>4, <2>5
<1>2. job' = [k \in Jobs |-> job'[k]] /\ run' = [k \in Jobs |-> run'[k]]
  BY DEF Advance
<1> QED
  BY <1>1, <1>2, SoundTypes DEF IInv, TypeOK

LEMMA CrashIInv == ASSUME IInv, NEW p \in Procs, Crash(p) PROVE IInv'
<1>1. ASSUME NEW j \in Jobs PROVE Sound(job'[j], run'[j])
  <2>1. Sound(job[j], run[j]) /\ run[j] \in SlotRuns /\ job'[j] = job[j]
    BY DEF IInv, Sound, Crash
  <2>2. run'[j] \in SlotRuns /\ \A t \in Slots : run'[j][t] # None => run'[j][t] = run[j][t]
    BY <2>1 DEF SlotRuns, Crash
  <2> QED
    BY <2>1, <2>2, FewerSound
<1>2. job' = [k \in Jobs |-> job'[k]] /\ run' = [k \in Jobs |-> run'[k]]
  BY DEF Crash, IInv, TypeOK
<1> QED
  BY <1>1, <1>2, SoundTypes DEF IInv, TypeOK

LEMMA NextIInv == IInv /\ [Next]_vars => IInv'
<1> SUFFICES ASSUME IInv, [Next]_vars PROVE IInv'
  OBVIOUS
<1>1. CASE UNCHANGED vars
  BY <1>1 DEF vars, IInv, TypeOK, Sound, Leased, Counted
<1>2. CASE Next
  BY <1>2, TickIInv, RunNowIInv, RunEndsIInv, UpdateIInv, UpdateFailsIInv, ToolsIInv,
     AdvanceIInv, CrashIInv DEF Next
<1> QED
  BY <1>1, <1>2

-----------------------------------------------------------------------------
(* The results. *)

\* Every reachable state satisfies the inductive invariant.
THEOREM Invariance == Spec => []IInv
BY InitIInv, NextIInv, PTL DEF Spec

(* The job table and the table of runs keep their types. *)
THEOREM TypeCorrect == Spec => []TypeOK
<1>1. IInv => TypeOK
  BY DEF IInv
<1> QED
  BY <1>1, Invariance, PTL

(* A run within its lease that nobody interfered with is the one the job   *)
(* file speaks of: so no tick and no manual run starts another.            *)
THEOREM LeaseKnown == Spec => []LeaseIsOnFile
<1>1. IInv => LeaseIsOnFile
  BY DEF IInv, Sound, Leased, LeaseIsOnFile, InLease, Active, Exists
<1> QED
  BY <1>1, Invariance, PTL

(* No two such runs of a job exist, however many processes tick.           *)
THEOREM AtMostOneRun == Spec => []SingleFlight
<1>1. IInv => SingleFlight
  BY DEF IInv, Sound, Leased, SingleFlight, InLease, Active
<1> QED
  BY <1>1, Invariance, PTL

(* Every started run is counted exactly once, whatever happens to it.      *)
THEOREM RunsAreCounted == Spec => []EveryRunIsCounted
<1>1. IInv => EveryRunIsCounted
  BY DEF IInv, Sound, Counted, EveryRunIsCounted, Exists
<1> QED
  BY <1>1, Invariance, PTL

(* A one-time job is fired at most once by the schedulers of all processes.*)
THEOREM OneTimeJobs == Spec => []OnceFiresOnce
<1>1. IInv => OnceFiresOnce
  BY DEF IInv, Sound, Counted, OnceFiresOnce, Exists
<1> QED
  BY <1>1, Invariance, PTL

-----------------------------------------------------------------------------
(* The leases on runs implement JobLease.                                  *)

\* The leases of a job whose runs are rs.
Has(rs, s) == rs[s] # None /\ rs[s].clean /\ rs[s].age <= Lease
LeasesOf(rs) == {[to |-> s, age |-> rs[s].age] : s \in {t \in Slots : Has(rs, t)}}

LEMMA HeldRuns == \A j \in Jobs : Held(j) = LeasesOf(run[j]) /\ Held(j)' = LeasesOf(run'[j])
BY DEF Held, LeasesOf, Has, InLease, Active

\* Each job has its lease as before, or is granted one that was free.
LEMMA GrantStep ==
    ASSUME \A j \in Jobs :
             \/ LeasesOf(run'[j]) = LeasesOf(run[j])
             \/ /\ LeasesOf(run[j]) = {}
                /\ \E s \in Slots : LeasesOf(run'[j]) = {[to |-> s, age |-> 0]}
    PROVE  Lessor!Grant
<1> DEFINE Goes(j, s) == LeasesOf(run'[j]) = {[to |-> s, age |-> 0]}
           Same(j) == LeasesOf(run'[j]) = LeasesOf(run[j])
           to == [j \in Jobs |-> IF Same(j) THEN None ELSE CHOOSE s \in Slots : Goes(j, s)]
<1>1. ASSUME NEW j \in Jobs
      PROVE  /\ to[j] = None => Same(j)
             /\ to[j] # None => LeasesOf(run[j]) = {} /\ to[j] \in Slots /\ Goes(j, to[j])
  <2>1. CASE Same(j)
    BY <2>1
  <2>2. CASE ~Same(j)
    <3>1. LeasesOf(run[j]) = {} /\ \E s \in Slots : Goes(j, s)
      BY <2>2
    <3>2. to[j] = CHOOSE s \in Slots : Goes(j, s)
      BY <2>2
    <3>3. to[j] \in Slots /\ Goes(j, to[j])
      <4> HIDE DEF Goes, to
      <4> QED
        BY <3>1, <3>2
    <3> QED
      BY <3>1, <3>3, NoneIsNoRecord
  <2> QED
    BY <2>1, <2>2
<1>2. to \in [Jobs -> Slots \cup {None}]
  <2>1. \A j \in Jobs : to[j] \in Slots \cup {None}
    BY <1>1
  <2> QED
    BY <2>1
<1> HIDE DEF to
<1>3. \A j \in Jobs : to[j] # None => Held(j) = {}
  BY <1>1, HeldRuns
<1>4. \A j \in Jobs : Held(j)' = IF to[j] = None THEN Held(j) ELSE {[to |-> to[j], age |-> 0]}
  BY <1>1, HeldRuns
<1> QED
  BY <1>2, <1>3, <1>4 DEF Lessor!Grant

\* Each job has its lease as before, or none.
LEMMA EndStep ==
    ASSUME \A j \in Jobs : LeasesOf(run'[j]) = LeasesOf(run[j]) \/ LeasesOf(run'[j]) = {}
    PROVE  Lessor!End
<1> DEFINE ended == {j \in Jobs : LeasesOf(run'[j]) # LeasesOf(run[j])}
<1>1. \A j \in Jobs : Held(j)' = IF j \in ended THEN {} ELSE Held(j)
  BY HeldRuns
<1>2. ended \in SUBSET Jobs
  OBVIOUS
<1> HIDE DEF ended
<1> QED
  BY <1>1, <1>2 DEF Lessor!End

\* A start finds the lease free, whatever the file is read by.
LEMMA StartGrants ==
    ASSUME NEW rec \in Job, NEW rs, Sound(rec, rs), ~HoldsLease(rec),
           NEW s \in Slots, NEW p \in Procs
    PROVE  /\ LeasesOf(rs) = {}
           /\ LeasesOf([rs EXCEPT ![s] = NewRun(p)]) = {[to |-> s, age |-> 0]}
<1> DEFINE rs2 == [rs EXCEPT ![s] = NewRun(p)]
<1>1. \A t \in Slots : ~Has(rs, t)
  BY NobodyLeased, NoneIsNoRecord DEF Has
<1>2. rs2[s] = NewRun(p) /\ \A t \in Slots \ {s} : rs2[t] = rs[t]
  BY DEF Sound, SlotRuns
<1>3. Has(rs2, s) /\ rs2[s].age = 0
  BY <1>2, NewRunType, NoneIsNoRecord, LeaseAssumption DEF Has, NewRun
<1>4. \A t \in Slots : Has(rs2, t) <=> t = s
  BY <1>1, <1>2, <1>3 DEF Has
<1> HIDE DEF rs2
<1>5. {t \in Slots : Has(rs2, t)} = {s} /\ {t \in Slots : Has(rs, t)} = {}
  BY <1>1, <1>4
<1> QED
  BY <1>3, <1>5 DEF LeasesOf, rs2

\* At most one run has the lease, so whoever loses runs keeps its lease or has none.
LEMMA FewerEnd ==
    ASSUME NEW rec, NEW rs, Sound(rec, rs), NEW rs2,
           \A t \in Slots : rs2[t] # None /\ rs2[t].clean => rs2[t] = rs[t]
    PROVE  LeasesOf(rs2) = LeasesOf(rs) \/ LeasesOf(rs2) = {}
<1>1. \A t, u \in Slots : Has(rs, t) /\ Has(rs, u) => t = u
  BY DEF Sound, Leased, Has
<1>2. \A t \in Slots : Has(rs2, t) => Has(rs, t) /\ rs2[t] = rs[t]
  BY DEF Has
<1>3. CASE \E t \in Slots : Has(rs2, t)
  <2>1. PICK t \in Slots : Has(rs2, t)
    BY <1>3
  <2>2. {u \in Slots : Has(rs2, u)} = {t} /\ {u \in Slots : Has(rs, u)} = {t} /\ rs2[t] = rs[t]
    BY <1>1, <1>2, <2>1
  <2> QED
    BY <2>2 DEF LeasesOf
<1>4. CASE ~ \E t \in Slots : Has(rs2, t)
  BY <1>4 DEF LeasesOf
<1> QED
  BY <1>3, <1>4

\* Starts, by a tick or by a user.
LEMMA StartsGrant ==
    ASSUME IInv, NEW p \in Procs, Tick(p) \/ \E j \in Jobs, s \in Slots : RunNow(p, j, s)
    PROVE  Lessor!Grant
<1>1. CASE Tick(p)
  <2>1. PICK d \in [Jobs -> Delays], s \in [Jobs -> Slots] :
          run' = [j \in Jobs |-> IF Exists(j) /\ TickStarts(job[j], d[j])
                                 THEN [run[j] EXCEPT ![s[j]] = NewRun(p)] ELSE run[j]]
    BY <1>1 DEF Tick
  <2>2. ASSUME NEW j \in Jobs
        PROVE  \/ LeasesOf(run'[j]) = LeasesOf(run[j])
               \/ /\ LeasesOf(run[j]) = {}
                  /\ \E t \in Slots : LeasesOf(run'[j]) = {[to |-> t, age |-> 0]}
    <3>1. CASE Exists(j) /\ TickStarts(job[j], d[j])
      <4>1. job[j] \in Job /\ Sound(job[j], run[j]) /\ ~HoldsLease(job[j]) /\ s[j] \in Slots
        BY <3>1 DEF Exists, TickStarts, IInv, TypeOK
      <4>2. run'[j] = [run[j] EXCEPT ![s[j]] = NewRun(p)]
        BY <2>1, <3>1
      <4> QED
        BY <4>1, <4>2, StartGrants
    <3>2. CASE ~(Exists(j) /\ TickStarts(job[j], d[j]))
      BY <2>1, <3>2
    <3> QED
      BY <3>1, <3>2
  <2> QED
    BY <2>2, GrantStep
<1>2. ASSUME NEW j \in Jobs, NEW s \in Slots, RunNow(p, j, s) PROVE Lessor!Grant
  <2>1. job[j] \in Job /\ Sound(job[j], run[j]) /\ ~HoldsLease(job[j])
    BY <1>2 DEF RunNow, Exists, IInv, TypeOK
  <2>2. /\ run'[j] = [run[j] EXCEPT ![s] = NewRun(p)]
        /\ \A k \in Jobs \ {j} : run'[k] = run[k]
    BY <1>2 DEF RunNow, IInv, TypeOK
  <2>3. LeasesOf(run[j]) = {} /\ LeasesOf(run'[j]) = {[to |-> s, age |-> 0]}
    <3>1. /\ LeasesOf(run[j]) = {}
          /\ LeasesOf([run[j] EXCEPT ![s] = NewRun(p)]) = {[to |-> s, age |-> 0]}
      BY <2>1, StartGrants
    <3> QED
      BY <2>2, <3>1
  <2>4. ASSUME NEW k \in Jobs
        PROVE  \/ LeasesOf(run'[k]) = LeasesOf(run[k])
               \/ /\ LeasesOf(run[k]) = {}
                  /\ \E t \in Slots : LeasesOf(run'[k]) = {[to |-> t, age |-> 0]}
    BY <2>2, <2>3
  <2> QED
    BY <2>4, GrantStep
<1> QED
  BY <1>1, <1>2

\* Ends of runs, edits and deaths.
LEMMA OthersEnd ==
    ASSUME IInv, [Next]_vars, NEW j \in Jobs,
           ~Advance, ~(\E p \in Procs : Tick(p) \/ \E k \in Jobs, s \in Slots : RunNow(p, k, s))
    PROVE  LeasesOf(run'[j]) = LeasesOf(run[j]) \/ LeasesOf(run'[j]) = {}
<1>1. Sound(job[j], run[j]) /\ run \in [Jobs -> SlotRuns]
  BY DEF IInv, TypeOK, SlotRuns
<1>2. ASSUME run'[j] = run[j] PROVE LeasesOf(run'[j]) = LeasesOf(run[j])
  BY <1>2
<1>3. ASSUME \A t \in Slots : run'[j][t] # None /\ run'[j][t].clean => run'[j][t] = run[j][t]
      PROVE  LeasesOf(run'[j]) = LeasesOf(run[j]) \/ LeasesOf(run'[j]) = {}
  BY <1>1, <1>3, FewerEnd
<1>4. ASSUME NEW p \in Procs, Crash(p)
      PROVE  \A t \in Slots : run'[j][t] # None /\ run'[j][t].clean => run'[j][t] = run[j][t]
  BY <1>4 DEF Crash
<1>5. ASSUME NEW k \in Jobs, NEW s \in Slots, NEW outcome \in {"success", "failure"},
             RunEnds(k, s, outcome)
      PROVE  LeasesOf(run'[j]) = LeasesOf(run[j])
  <2>1. CASE k # j
    BY <1>1, <1>2, <1>5, <2>1 DEF RunEnds
  <2>2. CASE k = j
    <3>1. run[j][s] \in Run /\ run[j] \in SlotRuns
      BY <1>1, <1>5, <2>2 DEF RunEnds, Active, SlotRuns
    <3>2. run'[j] = [run[j] EXCEPT ![s].stage = outcome]
      BY <1>1, <1>5, <2>2 DEF RunEnds
    <3>3. [run[j][s] EXCEPT !.stage = outcome] \in Run
      BY <3>1 DEF Run
    <3>4. /\ run'[j][s] = [run[j][s] EXCEPT !.stage = outcome]
          /\ \A t \in Slots \ {s} : run'[j][t] = run[j][t]
      BY <3>1, <3>2 DEF SlotRuns
    <3>5. run'[j][s].age = run[j][s].age /\ run'[j][s].clean = run[j][s].clean
      BY <3>1, <3>4 DEF Run
    <3>6. \A t \in Slots : /\ Has(run'[j], t) <=> Has(run[j], t)
                           /\ run'[j][t].age = run[j][t].age
      BY <3>1, <3>3, <3>4, <3>5, NoneIsNoRecord DEF Has
    <3> QED
      BY <3>6 DEF LeasesOf
  <2> QED
    BY <2>1, <2>2
<1>6. ASSUME NEW k \in Jobs, NEW s \in Slots, Update(k, s)
      PROVE  \A t \in Slots : run'[j][t] # None /\ run'[j][t].clean => run'[j][t] = run[j][t]
  <2>1. CASE k # j
    BY <1>1, <1>6, <2>1 DEF Update
  <2>2. CASE k = j
    <3>1. run'[j] = [Disturb(j, s) EXCEPT ![s] = None]
      BY <1>1, <1>6, <2>2 DEF Update
    <3> QED
      BY <3>1, DisturbType DEF SlotRuns
  <2> QED
    BY <2>1, <2>2
<1>7. ASSUME NEW k \in Jobs, NEW s \in Slots, UpdateFails(k, s)
      PROVE  \A t \in Slots : run'[j][t] # None /\ run'[j][t].clean => run'[j][t] = run[j][t]
  <2>1. CASE k # j
    BY <1>1, <1>7, <2>1 DEF UpdateFails
  <2>2. CASE k = j
    <3>1. run'[j] = [run[j] EXCEPT ![s] = None]
      BY <1>1, <1>7, <2>2 DEF UpdateFails
    <3> QED
      BY <1>1, <3>1 DEF SlotRuns
  <2> QED
    BY <2>1, <2>2
<1>8. ASSUME NEW k \in Jobs, run' = [run EXCEPT ![k] = Disturb(k, None)]
      PROVE  \A t \in Slots : run'[j][t] # None /\ run'[j][t].clean => run'[j][t] = run[j][t]
  <2>1. CASE k # j
    BY <1>1, <1>8, <2>1
  <2>2. CASE k = j
    <3>1. run'[j] = Disturb(j, None)
      BY <1>1, <1>8, <2>2
    <3> QED
      BY <3>1, DisturbType, NoneIsNoRecord
  <2> QED
    BY <2>1, <2>2
<1>9. CASE UNCHANGED vars
  BY <1>2, <1>9 DEF vars
<1> QED
  BY <1>3, <1>4, <1>5, <1>6, <1>7, <1>8, <1>9 DEF Next, ScheduleJob, SetEnabled, RemoveJob

\* Time passes for the leases as it does for the runs.
LEMMA AdvanceTime == ASSUME IInv, Advance PROVE Lessor!Time
<1>1. ASSUME NEW j \in Jobs
      PROVE  Held(j)' = {[h EXCEPT !.age = @ + 1] : h \in {k \in Held(j) : k.age < Lease}}
  <2> DEFINE Younger == {t \in Slots : Has(run[j], t) /\ run[j][t].age < Lease}
  <2>1. run[j] \in SlotRuns
    BY DEF IInv, TypeOK, SlotRuns
  <2>2. ASSUME NEW s \in Slots
        PROVE  /\ Has(run'[j], s) <=> s \in Younger
               /\ s \in Younger => run'[j][s].age = run[j][s].age + 1
    <3>1. CASE run[j][s] = None
      BY <3>1 DEF Advance, Active, Has
    <3>2. CASE run[j][s] # None
      <4>1. run[j][s] \in Run /\ run[j][s].age \in 0..Lease + 1
        BY <2>1, <3>2 DEF SlotRuns, Run
      <4>2. run'[j][s] = [run[j][s] EXCEPT !.age = Min2(run[j][s].age + 1, Lease + 1)]
        BY <3>2 DEF Advance, Active
      <4>3. /\ run'[j][s].age = Min2(run[j][s].age + 1, Lease + 1)
            /\ run'[j][s].clean = run[j][s].clean
        BY <4>1, <4>2 DEF Run
      <4>4. Min2(run[j][s].age + 1, Lease + 1) \in 0..Lease + 1
        BY <4>1, LeaseAssumption DEF Min2
      <4>5. run'[j][s] \in Run
        BY <4>1, <4>2, <4>4 DEF Run
      <4> QED
        BY <3>2, <4>1, <4>3, <4>5, NoneIsNoRecord, LeaseAssumption DEF Has, Min2
    <3> QED
      BY <3>1, <3>2
  <2>3. {t \in Slots : Has(run'[j], t)} = Younger
    BY <2>2
  <2>4. LeasesOf(run'[j]) = {[to |-> s, age |-> run[j][s].age + 1] : s \in Younger}
    BY <2>2, <2>3 DEF LeasesOf
  <2>5. {k \in LeasesOf(run[j]) : k.age < Lease} = {[to |-> s, age |-> run[j][s].age] : s \in Younger}
    BY DEF LeasesOf
  <2>6. {[h EXCEPT !.age = @ + 1] : h \in {k \in LeasesOf(run[j]) : k.age < Lease}}
          = {[to |-> s, age |-> run[j][s].age + 1] : s \in Younger}
    <3> DEFINE Before(s) == [to |-> s, age |-> run[j][s].age]
               After(s) == [to |-> s, age |-> run[j][s].age + 1]
               Grown(h) == [h EXCEPT !.age = @ + 1]
    <3>1. \A s \in Younger : Grown(Before(s)) = After(s)
      OBVIOUS
    <3>2. {k \in LeasesOf(run[j]) : k.age < Lease} = {Before(s) : s \in Younger}
      BY <2>5
    <3> HIDE DEF Younger, Before, After, Grown
    <3>3. {Grown(h) : h \in {Before(s) : s \in Younger}} = {After(s) : s \in Younger}
      BY <3>1
    <3>4. {Grown(h) : h \in {k \in LeasesOf(run[j]) : k.age < Lease}} = {After(s) : s \in Younger}
      BY <3>2, <3>3
    <3> QED
      BY <3>4 DEF After, Grown
  <2> QED
    BY <2>4, <2>6, HeldRuns
<1> QED
  BY <1>1 DEF Lessor!Time, Lessor!Grow

\* However many processes tick, users edit and runs hang or die, the leases of runs
\* that nobody interferes with are those of JobLease, for any number of jobs.
THEOREM LeaseRefinement == Spec => ImplementsJobLease
<1>1. Init => Lessor!Init
  BY DEF Init, Lessor!Init, Held, InLease, Active
<1>2. IInv /\ [Next]_vars => [Lessor!Next]_(Lessor!lvars)
  <2> SUFFICES ASSUME IInv, [Next]_vars PROVE Lessor!Next
    OBVIOUS
  <2>1. CASE Advance
    BY <2>1, AdvanceTime DEF Lessor!Next
  <2>2. CASE \E p \in Procs : Tick(p) \/ \E j \in Jobs, s \in Slots : RunNow(p, j, s)
    BY <2>2, StartsGrant DEF Lessor!Next
  <2>3. CASE ~Advance /\ ~(\E p \in Procs : Tick(p) \/ \E j \in Jobs, s \in Slots : RunNow(p, j, s))
    BY <2>3, OthersEnd, EndStep DEF Lessor!Next
  <2> QED
    BY <2>1, <2>2, <2>3
<1> QED
  BY <1>1, <1>2, Invariance, PTL DEF Spec, ImplementsJobLease, Lessor!Spec
=============================================================================
