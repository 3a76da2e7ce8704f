------------------------- MODULE Orchestrator_proofs -------------------------
(***************************************************************************)
(* Proofs of the safety properties of Orchestrator, for a queue of any     *)
(* capacity.  What a step does to the events on their way is either a      *)
(* Publish, whoever publishes, or a step of the broker: one lemma each.    *)
(***************************************************************************)
EXTENDS Orchestrator, SequenceTheorems, TLAPS

\* An event on its way is one that its run has published: the first is the
\* start, and the end is the last.
Published(e) ==
    /\ e.n \in 1 .. emitted[e.run]
    /\ e.kind = "start" <=> e.n = 1
    /\ e.kind = "end" => at[e.run] = "done"

\* The queue keeps the order of each run.
Sorted ==
    \A i, j \in 1 .. Len(queue) :
        i < j /\ queue[i].run = queue[j].run => queue[i].n < queue[j].n

\* The broker sends one event at a time, older than what is queued.
Behind ==
    /\ \A s \in sends, i \in 1 .. Len(queue) :
           ~s.own /\ s.event.run = queue[i].run => s.event.n < queue[i].n
    /\ \A s, x \in sends : ~s.own /\ ~x.own => s.event = x.event

\* Only a run of which an event overflowed has events with a task of their own.
Apart ==
    /\ \A e \in spawned : Published(e) /\ e.run \in strayed
    /\ \A s \in sends : Published(s.event) /\ (s.own => s.event.run \in strayed)

PipeInv ==
    /\ \A i \in 1 .. Len(queue) : Published(queue[i])
    /\ Apart /\ Sorted /\ Behind

EndQueued(r) == \E i \in 1 .. Len(queue) : queue[i].run = r /\ queue[i].kind = "end"
EndSpawned(r) == \E e \in spawned : e.run = r /\ e.kind = "end"
EndSent(r, c) == \E s \in sends : s.to = c /\ s.event.run = r /\ s.event.kind = "end"

\* NoEndLost, place by place.
EndKept ==
    \A r \in Runs, c \in listed :
        at[r] = "done" =>
            \/ r \in seenEnd[c] \/ r \in missed[c]
            \/ EndQueued(r) \/ EndSpawned(r) \/ EndSent(r, c)

BrokerInv == BrokerTypeOK /\ PipeInv /\ EndKept

RunTypeOK ==
    /\ at \in [Runs -> Places]
    /\ emitted \in [Runs -> Nat]
    /\ \A r \in Runs : at[r] = "new" <=> emitted[r] = 0

-----------------------------------------------------------------------------
(* The queue.                                                              *)

\* A queue without one of its events has the others in their order.
LEMMA WithoutOne ==
    ASSUME NEW S, queue \in Seq(S), NEW k \in 1 .. Len(queue)
    PROVE  /\ Without(k) \in Seq(S)
           /\ Len(Without(k)) = Len(queue) - 1
           /\ \A i \in 1 .. Len(queue) - 1 :
                  Without(k)[i] = IF i < k THEN queue[i] ELSE queue[i + 1]
<1> DEFINE front == SubSeq(queue, 1, k - 1)
           back == SubSeq(queue, k + 1, Len(queue))
<1>1. Len(queue) \in Nat /\ k \in Nat
  OBVIOUS
<1>2. \A i \in 1 .. Len(queue) : queue[i] \in S
  OBVIOUS
<1>3. /\ front \in Seq(S) /\ Len(front) = k - 1
      /\ \A i \in 1 .. k - 1 : front[i] = queue[i]
  <2>1. \A i \in 1 .. k - 1 : queue[i] \in S
    BY <1>1, <1>2
  <2> QED
    BY <2>1, <1>1, SubSeqProperties, SMTT(30)
<1>4. /\ back \in Seq(S) /\ Len(back) = Len(queue) - k
      /\ \A i \in 1 .. Len(queue) - k : back[i] = queue[i + k]
  <2>1. \A i \in k + 1 .. Len(queue) : queue[i] \in S
    BY <1>1, <1>2
  <2> QED
    BY <2>1, <1>1, SubSeqProperties, SMTT(30)
<1>5. Without(k) = front \o back
  BY DEF Without
<1> HIDE DEF front, back
<1>6. /\ front \o back \in Seq(S)
      /\ Len(front \o back) = Len(queue) - 1
  <2>1. front \o back \in Seq(S) /\ Len(front \o back) = Len(front) + Len(back)
    BY <1>3, <1>4, ConcatProperties, Zenon
  <2>2. Len(front) + Len(back) = Len(queue) - 1
    BY <1>1, <1>3, <1>4
  <2> QED
    BY <2>1, <2>2
<1>7. ASSUME NEW i \in 1 .. Len(queue) - 1
      PROVE  (front \o back)[i] = IF i < k THEN queue[i] ELSE queue[i + 1]
  <2>1. CASE i < k
    BY <2>1, <1>1, <1>3, <1>4, ConcatProperties
  <2>2. CASE ~(i < k)
    <3>1. i - (k - 1) \in 1 .. Len(queue) - k /\ i - (k - 1) + k = i + 1
      BY <2>2, <1>1
    <3>2. (front \o back)[i] = back[i - (k - 1)]
      BY <2>2, <1>1, <1>3, <1>4, ConcatProperties
    <3>3. back[i - (k - 1)] = queue[i - (k - 1) + k]
      BY <3>1, <1>4
    <3>4. back[i - (k - 1)] = queue[i + 1]
      BY <3>1, <3>3, Zenon
    <3> QED
      BY <2>2, <3>2, <3>4, Zenon
  <2> QED
    BY <2>1, <2>2, Zenon
<1> QED
  BY <1>5, <1>6, <1>7

\* The same with an event put behind the others.
LEMMA WithoutThenAppend ==
    ASSUME NEW S, queue \in Seq(S), NEW k \in 1 .. Len(queue), NEW e \in S,
           queue' = Append(Without(k), e)
    PROVE  /\ queue' \in Seq(S)
           /\ Len(queue') = Len(queue)
           /\ \A i \in 1 .. Len(queue) - 1 :
                  queue'[i] = IF i < k THEN queue[i] ELSE queue[i + 1]
           /\ queue'[Len(queue)] = e
<1>1. /\ Without(k) \in Seq(S)
      /\ Len(Without(k)) = Len(queue) - 1
      /\ \A i \in 1 .. Len(queue) - 1 :
             Without(k)[i] = IF i < k THEN queue[i] ELSE queue[i + 1]
  BY WithoutOne
<1> HIDE DEF Without
<1>2. Len(queue) \in Nat
  OBVIOUS
<1> QED
  BY <1>1, <1>2

\* The tail of the queue has the events behind the first in their order.
LEMMA TailOfQueue ==
    ASSUME NEW S, queue \in Seq(S), queue # <<>>, queue' = Tail(queue)
    PROVE  /\ queue' \in Seq(S)
           /\ Len(queue') = Len(queue) - 1 /\ Len(queue) \in Nat \ {0}
           /\ \A i \in 1 .. Len(queue') : queue'[i] = queue[i + 1]
           /\ Head(queue) = queue[1] /\ queue[1] \in S
OBVIOUS

-----------------------------------------------------------------------------
(* Publish.                                                                *)

\* Whatever way a new event takes, the queue stays in order and loses no end.
LEMMA QueueAfterPublish ==
    ASSUME BrokerTypeOK, PipeInv, NEW e \in Event, Publish(e),
           e.n = emitted[e.run] + 1, emitted \in [Runs -> Nat], at[e.run] # "done"
    PROVE  /\ queue' \in Seq(Event) /\ Len(queue') <= Capacity
           /\ \A i \in 1 .. Len(queue') :
                  queue'[i] = e \/ \E j \in 1 .. Len(queue) : queue'[i] = queue[j]
           /\ \A j \in 1 .. Len(queue) : queue[j].kind = "end" =>
                  \E i \in 1 .. Len(queue') : queue'[i] = queue[j]
           /\ Sorted'
           /\ e.kind = "end" =>
                  e \in spawned' \/ \E i \in 1 .. Len(queue') : queue'[i] = e
           /\ spawned' = spawned \/ spawned' = spawned \cup {e}
<1>1. /\ queue \in Seq(Event) /\ Len(queue) \in Nat /\ Len(queue) <= Capacity
      /\ Capacity \in Nat \ {0}
  BY SomeRoom DEF BrokerTypeOK
<1>2. \A i \in 1 .. Len(queue) :
          queue[i] \in Event /\ (queue[i].run = e.run => queue[i].n < e.n)
  <2> SUFFICES ASSUME NEW i \in 1 .. Len(queue)
               PROVE  queue[i] \in Event /\ (queue[i].run = e.run => queue[i].n < e.n)
    OBVIOUS
  <2>1. queue[i] \in Event
    BY <1>1
  <2>2. queue[i].n \in 1 .. emitted[queue[i].run]
    BY DEF PipeInv, Published
  <2>3. emitted[e.run] \in Nat /\ queue[i].n \in Nat
    BY <2>1 DEF Event
  <2> QED
    BY <2>1, <2>2, <2>3
<1>3. Sorted
  BY DEF PipeInv
<1>4. \A i \in 1 .. Len(queue) : queue[i].kind = "start" <=> queue[i].n = 1
  BY <1>1 DEF PipeInv, Published
<1>5. ASSUME NEW k \in 1 .. Len(queue), queue[k].kind # "end", queue' = Append(Without(k), e)
      PROVE  /\ queue' \in Seq(Event) /\ Len(queue') = Len(queue)
             /\ \A i \in 1 .. Len(queue') :
                    queue'[i] = e \/ \E j \in 1 .. Len(queue) : queue'[i] = queue[j]
             /\ \A j \in 1 .. Len(queue) : queue[j].kind = "end" =>
                    \E i \in 1 .. Len(queue') : queue'[i] = queue[j]
             /\ Sorted'
             /\ \E i \in 1 .. Len(queue') : queue'[i] = e
  <2>1. /\ queue' \in Seq(Event) /\ Len(queue') = Len(queue)
        /\ \A i \in 1 .. Len(queue) - 1 :
               queue'[i] = IF i < k THEN queue[i] ELSE queue[i + 1]
        /\ queue'[Len(queue)] = e
    BY <1>1, <1>5, WithoutThenAppend, Zenon
  <2>2. \A i \in 1 .. Len(queue) - 1 :
            \E j \in 1 .. Len(queue) :
                queue'[i] = queue[j] /\ (i < k => j = i) /\ (~(i < k) => j = i + 1)
    <3> SUFFICES ASSUME NEW i \in 1 .. Len(queue) - 1
                 PROVE  \E j \in 1 .. Len(queue) :
                            queue'[i] = queue[j] /\ (i < k => j = i) /\ (~(i < k) => j = i + 1)
      OBVIOUS
    <3>1. i \in 1 .. Len(queue) /\ i + 1 \in 1 .. Len(queue)
      BY <1>1
    <3> QED
      BY <3>1, <2>1, Zenon
  <2>3. \A j \in 1 .. Len(queue) : queue[j].kind = "end" =>
            \E i \in 1 .. Len(queue') : queue'[i] = queue[j]
    <3>1. TAKE j \in 1 .. Len(queue)
    <3>2. HAVE queue[j].kind = "end"
    <3>3. CASE j < k
      BY <3>3, <2>1, <1>1
    <3>4. CASE j > k
      <4>1. j - 1 \in 1 .. Len(queue) - 1 /\ ~(j - 1 < k) /\ (j - 1) + 1 = j
        BY <3>4, <1>1
      <4>2. queue'[j - 1] = queue[j]
        BY <4>1, <2>1
      <4>3. j - 1 \in 1 .. Len(queue')
        BY <4>1, <2>1, <1>1
      <4> QED
        BY <4>2, <4>3, Zenon
    <3> QED
      BY <3>2, <3>3, <3>4, <1>5, <1>1
  <2>4. Sorted'
    <3> SUFFICES ASSUME NEW i \in 1 .. Len(queue), NEW j \in 1 .. Len(queue),
                        i < j, queue'[i].run = queue'[j].run
                 PROVE  queue'[i].n < queue'[j].n
      BY <2>1 DEF Sorted
    <3>1. PICK a \in 1 .. Len(queue) :
               queue'[i] = queue[a] /\ (i < k => a = i) /\ (~(i < k) => a = i + 1)
      BY <2>2, <1>1
    <3>2. CASE j = Len(queue)
      BY <3>1, <3>2, <2>1, <1>2
    <3>3. CASE j < Len(queue)
      <4>1. PICK b \in 1 .. Len(queue) :
                 queue'[j] = queue[b] /\ (j < k => b = j) /\ (~(j < k) => b = j + 1)
        <5>1. j \in 1 .. Len(queue) - 1
          BY <3>3, <1>1
        <5> QED
          BY <2>2, <5>1, Zenon
      <4>2. a < b
        BY <3>1, <4>1, <1>1
      <4> QED
        BY <3>1, <4>1, <4>2, <1>3 DEF Sorted
    <3> QED
      BY <3>2, <3>3, <1>1
  <2>5. ASSUME NEW i \in 1 .. Len(queue')
        PROVE  queue'[i] = e \/ \E j \in 1 .. Len(queue) : queue'[i] = queue[j]
    <3>1. i = Len(queue) \/ i \in 1 .. Len(queue) - 1
      BY <2>1, <1>1
    <3> QED
      BY <3>1, <2>1, <2>2, Zenon
  <2>6. Len(queue) \in 1 .. Len(queue')
    BY <2>1, <1>1
  <2> HIDE DEF Sorted
  <2> QED
    BY <2>1, <2>3, <2>4, <2>5, <2>6, Zenon
<1>6. CASE PushBack(e)
  <2>1. /\ queue' \in Seq(Event) /\ Len(queue') = Len(queue) + 1
        /\ \A i \in 1 .. Len(queue) : queue'[i] = queue[i]
        /\ queue'[Len(queue) + 1] = e
    BY <1>1, <1>6 DEF PushBack
  <2>2. Len(queue) < Capacity
    BY <1>1, <1>6 DEF PushBack, Full
  <2>3. Sorted'
    BY <2>1, <1>1, <1>2, <1>3 DEF Sorted
  <2> QED
    BY <2>1, <2>2, <2>3, <1>1, <1>6 DEF PushBack
<1>7. CASE GiveUp(e)
  BY <1>1, <1>3, <1>7 DEF GiveUp, Sorted
<1>8. CASE EvictStep(e)
  <2>1. PICK k \in 1 .. Len(queue) : queue[k].kind # "end" /\ queue' = Append(Without(k), e)
    <3>1. PICK k \in StepsQueued : queue' = Append(Without(k), e)
      BY <1>8, Zenon DEF EvictStep
    <3>2. k \in 1 .. Len(queue) /\ queue[k].kind # "end"
      BY <1>1 DEF StepsQueued
    <3> QED
      BY <3>1, <3>2, Zenon
  <2>2. /\ queue' \in Seq(Event) /\ Len(queue') = Len(queue)
        /\ \A i \in 1 .. Len(queue') :
               queue'[i] = e \/ \E j \in 1 .. Len(queue) : queue'[i] = queue[j]
        /\ \A j \in 1 .. Len(queue) : queue[j].kind = "end" =>
               \E i \in 1 .. Len(queue') : queue'[i] = queue[j]
        /\ Sorted'
        /\ \E i \in 1 .. Len(queue') : queue'[i] = e
    BY <1>5, <2>1, Zenon
  <2>3. Len(queue') <= Capacity /\ spawned' = spawned
    BY <2>2, <1>1, <1>8 DEF EvictStep
  <2> QED
    BY <2>2, <2>3, Zenon
<1>9. CASE EvictStart(e)
  <2>1. PICK k \in 1 .. Len(queue) : queue[k].kind # "end" /\ queue' = Append(Without(k), e)
    <3>1. PICK k \in StartsQueued : queue' = Append(Without(k), e)
      BY <1>9, Zenon DEF EvictStart
    <3>2. k \in 1 .. Len(queue) /\ queue[k].kind # "end"
      BY <1>1 DEF StartsQueued
    <3> QED
      BY <3>1, <3>2, Zenon
  <2>2. /\ queue' \in Seq(Event) /\ Len(queue') = Len(queue)
        /\ \A i \in 1 .. Len(queue') :
               queue'[i] = e \/ \E j \in 1 .. Len(queue) : queue'[i] = queue[j]
        /\ \A j \in 1 .. Len(queue) : queue[j].kind = "end" =>
               \E i \in 1 .. Len(queue') : queue'[i] = queue[j]
        /\ Sorted'
        /\ \E i \in 1 .. Len(queue') : queue'[i] = e
    BY <1>5, <2>1, Zenon
  <2>3. Len(queue') <= Capacity /\ spawned' = spawned
    BY <2>2, <1>1, <1>9 DEF EvictStart
  <2> QED
    BY <2>2, <2>3, Zenon
<1>10. CASE Overflow(e)
  BY <1>1, <1>3, <1>10 DEF Overflow, Sorted
<1>11. CASE ReplaceOwn(e)
  <2>1. PICK k \in 1 .. Len(queue) :
             queue[k].run = e.run /\ queue' = [queue EXCEPT ![k] = e]
    <3>1. DOMAIN queue = 1 .. Len(queue)
      BY <1>1
    <3> QED
      BY <3>1, <1>11, Zenon DEF ReplaceOwn, QueuedOf, IsFirst
  <2>2. /\ queue' \in Seq(Event) /\ Len(queue') = Len(queue)
        /\ queue'[k] = e /\ \A i \in 1 .. Len(queue) : i # k => queue'[i] = queue[i]
    BY <2>1, <1>1
  <2>3. ASSUME NEW i \in 1 .. Len(queue), queue[i].run = e.run
        PROVE  queue[i].n = 1 /\ queue[i].kind = "start"
    <3>1. queue[i].kind # "end"
      BY <2>3 DEF PipeInv, Published
    <3>2. queue[i].kind # "step"
      BY <1>1, <1>11 DEF ReplaceOwn, StepsQueued
    <3> QED
      BY <3>1, <3>2, <1>2, <1>4 DEF Event
  <2>4. ASSUME NEW i \in 1 .. Len(queue), i # k
        PROVE  queue[i].run # e.run
    <3> SUFFICES ASSUME queue[i].run = e.run PROVE FALSE
      OBVIOUS
    <3>1. queue[i].n = 1 /\ queue[k].n = 1 /\ queue[i].run = queue[k].run
      BY <2>1, <2>3
    <3>2. i < k \/ k < i
      BY <2>4, <1>1
    <3> QED
      BY <3>1, <3>2, <1>3 DEF Sorted
  <2>5. Sorted'
    <3> SUFFICES ASSUME NEW i \in 1 .. Len(queue), NEW j \in 1 .. Len(queue),
                        i < j, queue'[i].run = queue'[j].run
                 PROVE  queue'[i].n < queue'[j].n
      BY <2>2 DEF Sorted
    <3>1. i # k /\ j # k
      BY <2>2, <2>4, <1>1
    <3> QED
      BY <3>1, <2>2, <1>3 DEF Sorted
  <2>6. queue[k].kind # "end"
    BY <2>1, <2>3
  <2>7. Len(queue') <= Capacity /\ spawned' = spawned
    BY <2>2, <1>1, <1>11 DEF ReplaceOwn
  <2> QED
    BY <2>2, <2>5, <2>6, <2>7
<1> QED
  BY <1>6, <1>7, <1>8, <1>9, <1>10, <1>11 DEF Publish

\* A run that publishes its next event keeps what is said of the broker.
LEMMA PublishKeeps ==
    ASSUME BrokerInv, RunTypeOK,
           NEW r \in Runs, NEW kind \in {"start", "step", "end"}, Emit(r, kind),
           at' \in [Runs -> Places], \A q \in Runs : q # r => at'[q] = at[q],
           at[r] # "done", at'[r] # "new",
           at'[r] = "done" <=> kind = "end", kind = "start" <=> at[r] = "new"
    PROVE  BrokerInv' /\ RunTypeOK'
<1> DEFINE e == [run |-> r, kind |-> kind, n |-> emitted[r] + 1]
           Pub(x) == /\ x.n \in 1 .. emitted'[x.run]
                     /\ x.kind = "start" <=> x.n = 1
                     /\ x.kind = "end" => at'[x.run] = "done"
<1>1. /\ e \in Event /\ e.run = r /\ e.kind = kind /\ e.n = emitted[r] + 1
      /\ Publish(e) /\ emitted' = [emitted EXCEPT ![r] = @ + 1]
      /\ emitted[r] \in Nat
  BY DEF Emit, Event, RunTypeOK
<1> HIDE DEF e
<1>2. /\ queue' \in Seq(Event) /\ Len(queue') <= Capacity
      /\ \A i \in 1 .. Len(queue') :
             queue'[i] = e \/ \E j \in 1 .. Len(queue) : queue'[i] = queue[j]
      /\ \A j \in 1 .. Len(queue) : queue[j].kind = "end" =>
             \E i \in 1 .. Len(queue') : queue'[i] = queue[j]
      /\ Sorted'
      /\ e.kind = "end" =>
             e \in spawned' \/ \E i \in 1 .. Len(queue') : queue'[i] = e
      /\ spawned' = spawned \/ spawned' = spawned \cup {e}
  BY <1>1, QueueAfterPublish DEF BrokerInv, RunTypeOK
<1>3. /\ strayed' = IF e \in spawned' THEN strayed \cup {e.run} ELSE strayed
      /\ sends' = sends /\ listed' = listed /\ here' = here /\ free' = free
      /\ seenEnd' = seenEnd /\ missed' = missed
  BY <1>1 DEF Publish
<1>4. RunTypeOK'
  BY <1>1 DEF RunTypeOK
<1>5. BrokerTypeOK'
  BY <1>1, <1>2, <1>3 DEF BrokerInv, BrokerTypeOK, Event
<1>6. ASSUME NEW x \in Event, Published(x)
      PROVE  Pub(x) /\ (x.run = r => x.n < e.n)
  <2>1. x.run \in Runs /\ x.n \in Nat /\ emitted[x.run] \in Nat
    BY DEF Event, RunTypeOK
  <2>2. emitted'[x.run] = IF x.run = r THEN emitted[r] + 1 ELSE emitted[x.run]
    BY <1>1, <2>1 DEF RunTypeOK
  <2>3. x.kind = "end" => at'[x.run] = "done"
    BY <2>1, <1>6 DEF Published
  <2> QED
    BY <1>1, <1>6, <2>1, <2>2, <2>3 DEF Published
<1>7. Pub(e)
  <2>1. emitted'[r] = emitted[r] + 1
    BY <1>1 DEF RunTypeOK
  <2>2. kind = "start" <=> emitted[r] = 0
    BY DEF RunTypeOK
  <2> QED
    BY <1>1, <2>1, <2>2
<1>8. \A i \in 1 .. Len(queue) : queue[i] \in Event /\ Published(queue[i])
  BY DEF BrokerInv, BrokerTypeOK, PipeInv
<1>9. \A s \in sends : s.event \in Event /\ Published(s.event)
  BY DEF BrokerInv, BrokerTypeOK, PipeInv, Apart, Send
<1>10. \A x \in spawned : x \in Event /\ Published(x) /\ x.run \in strayed
  BY DEF BrokerInv, BrokerTypeOK, PipeInv, Apart
<1> HIDE DEF Pub
<1>11. \A i \in 1 .. Len(queue') : Pub(queue'[i])
  BY <1>2, <1>6, <1>7, <1>8
<1>12. Apart'
  <2>1. \A x \in spawned' : Pub(x) /\ x.run \in strayed'
    BY <1>2, <1>3, <1>6, <1>7, <1>10
  <2>2. \A s \in sends : s.own => s.event.run \in strayed
    BY DEF BrokerInv, PipeInv, Apart
  <2>3. \A s \in sends' : Pub(s.event) /\ (s.own => s.event.run \in strayed')
    BY <2>2, <1>3, <1>6, <1>9
  <2> QED
    BY <2>1, <2>3 DEF Apart, Published, Pub
<1>13. Behind'
  <2>1. Behind
    BY DEF BrokerInv, PipeInv
  <2>2. ASSUME NEW s \in sends, NEW i \in 1 .. Len(queue'), ~s.own,
               s.event.run = queue'[i].run
        PROVE  s.event.n < queue'[i].n
    <3>1. CASE queue'[i] = e
      BY <3>1, <2>2, <1>1, <1>6, <1>9
    <3>2. CASE \E j \in 1 .. Len(queue) : queue'[i] = queue[j]
      BY <3>2, <2>1, <2>2 DEF Behind
    <3> QED
      BY <3>1, <3>2, <1>2
  <2> QED
    BY <2>1, <2>2, <1>3 DEF Behind
<1>14. EndKept'
  <2> SUFFICES ASSUME NEW q \in Runs, NEW c \in listed, at'[q] = "done"
               PROVE  \/ q \in seenEnd[c] \/ q \in missed[c]
                      \/ EndQueued(q)' \/ EndSpawned(q)' \/ EndSent(q, c)'
    BY <1>3 DEF EndKept
  <2>1. CASE q = r
    BY <2>1, <1>1, <1>2 DEF EndQueued, EndSpawned
  <2>2. CASE q # r
    <3>1. \/ q \in seenEnd[c] \/ q \in missed[c]
          \/ EndQueued(q) \/ EndSpawned(q) \/ EndSent(q, c)
      BY <2>2 DEF BrokerInv, EndKept
    <3>2. EndQueued(q) => EndQueued(q)'
      BY <1>2 DEF EndQueued
    <3>3. EndSpawned(q) => EndSpawned(q)'
      BY <1>2 DEF EndSpawned
    <3>4. EndSent(q, c) => EndSent(q, c)'
      BY <1>3 DEF EndSent
    <3> QED
      BY <3>1, <3>2, <3>3, <3>4
  <2> QED
    BY <2>1, <2>2
<1>15. PipeInv'
  BY <1>2, <1>11, <1>12, <1>13 DEF PipeInv, Published, Pub
<1> QED
  BY <1>4, <1>5, <1>14, <1>15 DEF BrokerInv

-----------------------------------------------------------------------------
(* The broker.                                                             *)

\* An event that is about to be sent to all: what is new among the sends.
LEMMA SentToAll ==
    ASSUME BrokerTypeOK, NEW e \in Event, NEW own \in BOOLEAN, SendToAll(e, own)
    PROVE  /\ sends \subseteq sends' /\ sends' \subseteq Send
           /\ \A s \in sends' : s \in sends \/ (s.event = e /\ s.own = own)
           /\ \A c \in listed : \/ \E s \in sends' : s.to = c /\ s.event = e
                                \/ e.kind = "end" => e.run \in missed'[c]
           /\ missed' \in [Clients -> SUBSET Runs]
           /\ \A c \in Clients : missed[c] \subseteq missed'[c]
<1>1. /\ sends \subseteq Send /\ listed \subseteq Clients /\ here \subseteq Clients
      /\ missed \in [Clients -> SUBSET Runs] /\ e.run \in Runs
  BY DEF BrokerTypeOK, Event
<1>2. /\ sends' = sends \cup {[event |-> e, to |-> c, own |-> own] : c \in Audience}
      /\ Audience \subseteq Clients
  BY <1>1 DEF SendToAll, Audience
<1>3. /\ missed' \in [Clients -> SUBSET Runs]
      /\ \A c \in Clients : missed[c] \subseteq missed'[c]
      /\ \A c \in Clients \ Audience : e.kind = "end" => e.run \in missed'[c]
  BY <1>1 DEF SendToAll
<1>4. sends \subseteq sends' /\ sends' \subseteq Send
  BY <1>1, <1>2 DEF Send
<1>5. \A s \in sends' : s \in sends \/ (s.event = e /\ s.own = own)
  BY <1>2
<1>6. \A c \in Audience : \E s \in sends' : s.to = c /\ s.event = e
  <2> TAKE c \in Audience
  <2> DEFINE s == [event |-> e, to |-> c, own |-> own]
  <2>1. s \in sends' /\ s.to = c /\ s.event = e
    BY <1>2
  <2> QED
    BY <2>1
<1> QED
  BY <1>1, <1>3, <1>4, <1>5, <1>6

\* The steps of the broker and of the clients keep what is said of the broker.
LEMMA BrokerKeeps ==
    ASSUME BrokerInv, BrokerStep \/ ClientStep, UNCHANGED runVars
    PROVE  BrokerInv'
<1>1. /\ queue \in Seq(Event) /\ Len(queue) \in Nat /\ Len(queue) <= Capacity
      /\ sends \subseteq Send /\ spawned \subseteq Event /\ listed \subseteq Clients
      /\ Capacity \in Nat /\ Room \in Nat
      /\ BrokerTypeOK
  BY SomeRoom DEF BrokerInv, BrokerTypeOK
<1>2. at' = at /\ emitted' = emitted
  BY DEF runVars
<1>3. PipeInv /\ EndKept
  BY DEF BrokerInv
<1>4. \A i \in 1 .. Len(queue) : queue[i] \in Event /\ Published(queue[i])
  BY <1>1, <1>3 DEF PipeInv
<1>5. CASE Pop
  <2>1. /\ queue' \in Seq(Event) /\ Len(queue') = Len(queue) - 1
        /\ \A i \in 1 .. Len(queue') : queue'[i] = queue[i + 1]
        /\ Head(queue) = queue[1] /\ queue[1] \in Event /\ Len(queue) \in Nat \ {0}
    BY <1>1, <1>5, TailOfQueue, Zenon DEF Pop
  <2> DEFINE e == queue[1]
  <2>2. /\ sends \subseteq sends' /\ sends' \subseteq Send
        /\ \A s \in sends' : s \in sends \/ (s.event = e /\ s.own = FALSE)
        /\ \A c \in listed : \/ \E s \in sends' : s.to = c /\ s.event = e
                             \/ e.kind = "end" => e.run \in missed'[c]
        /\ missed' \in [Clients -> SUBSET Runs]
        /\ \A c \in Clients : missed[c] \subseteq missed'[c]
    BY <1>1, <1>5, <2>1, SentToAll DEF Pop
  <2>3. /\ \A s \in sends : s.own
        /\ UNCHANGED <<spawned, listed, here, free, seenEnd, strayed>>
    BY <1>5 DEF Pop
  <2>4. BrokerTypeOK'
    BY <1>1, <2>1, <2>2, <2>3 DEF BrokerTypeOK
  <2>5. \A i \in 1 .. Len(queue') :
            i + 1 \in 1 .. Len(queue) /\ queue'[i] = queue[i + 1] /\ 1 < i + 1
    BY <1>1, <2>1
  <2>6. 1 \in 1 .. Len(queue)
    BY <2>1
  <2>7. Sorted'
    <3> SUFFICES ASSUME NEW i \in 1 .. Len(queue'), NEW j \in 1 .. Len(queue'), i < j,
                        queue'[i].run = queue'[j].run
                 PROVE  queue'[i].n < queue'[j].n
      BY DEF Sorted
    <3>1. i + 1 < j + 1
      OBVIOUS
    <3> QED
      BY <3>1, <2>5, <1>3 DEF PipeInv, Sorted
  <2>8. Behind'
    <3>1. \A i \in 1 .. Len(queue') : queue[1].run = queue'[i].run => queue[1].n < queue'[i].n
      BY <2>5, <2>6, <1>3 DEF PipeInv, Sorted
    <3> QED
      BY <3>1, <2>2, <2>3 DEF Behind
  <2>9. Apart' /\ \A i \in 1 .. Len(queue') : Published(queue'[i])
    <3>1. \A i \in 1 .. Len(queue') : Published(queue'[i])
      BY <1>4, <2>5
    <3>2. \A s \in sends' : Published(s.event) /\ (s.own => s.event.run \in strayed)
      BY <1>3, <1>4, <2>2, <2>6 DEF PipeInv, Apart
    <3> QED
      BY <3>1, <3>2, <1>2, <1>3, <2>3 DEF PipeInv, Apart, Published
  <2>10. PipeInv'
    BY <2>7, <2>8, <2>9, <1>2 DEF PipeInv, Published
  <2>11. EndKept'
    <3> SUFFICES ASSUME NEW q \in Runs, NEW c \in listed, at[q] = "done"
                 PROVE  \/ q \in seenEnd[c] \/ q \in missed'[c]
                        \/ EndQueued(q)' \/ EndSpawned(q) \/ EndSent(q, c)'
      BY <1>2, <2>3 DEF EndKept, EndSpawned
    <3>1. \/ q \in seenEnd[c] \/ q \in missed[c]
          \/ EndQueued(q) \/ EndSpawned(q) \/ EndSent(q, c)
      BY <1>3 DEF EndKept
    <3>2. EndSent(q, c) => EndSent(q, c)'
      BY <2>2 DEF EndSent
    <3>3. ASSUME EndQueued(q)
          PROVE  EndQueued(q)' \/ EndSent(q, c)' \/ q \in missed'[c]
      <4>1. PICK j \in 1 .. Len(queue) : queue[j].run = q /\ queue[j].kind = "end"
        BY <3>3 DEF EndQueued
      <4>2. CASE j = 1
        BY <4>1, <4>2, <2>2 DEF EndSent
      <4>3. CASE j # 1
        <5>1. j - 1 \in 1 .. Len(queue') /\ queue'[j - 1] = queue[j]
          BY <4>3, <1>1, <2>1
        <5> QED
          BY <5>1, <4>1 DEF EndQueued
      <4> QED
        BY <4>2, <4>3
    <3> QED
      BY <3>1, <3>2, <3>3, <1>1, <2>2
  <2> QED
    BY <2>4, <2>10, <2>11 DEF BrokerInv
<1>6. ASSUME NEW e \in spawned, BeginOwn(e)
      PROVE  BrokerInv'
  <2>1. e \in Event /\ Published(e) /\ e.run \in strayed
    BY <1>1, <1>3 DEF PipeInv, Apart
  <2>2. /\ sends \subseteq sends' /\ sends' \subseteq Send
        /\ \A s \in sends' : s \in sends \/ (s.event = e /\ s.own = TRUE)
        /\ \A c \in listed : \/ \E s \in sends' : s.to = c /\ s.event = e
                             \/ e.kind = "end" => e.run \in missed'[c]
        /\ missed' \in [Clients -> SUBSET Runs]
        /\ \A c \in Clients : missed[c] \subseteq missed'[c]
    BY <1>1, <1>6, <2>1, SentToAll DEF BeginOwn
  <2>3. /\ spawned' = spawned \ {e}
        /\ UNCHANGED <<queue, listed, here, free, seenEnd, strayed>>
    BY <1>6 DEF BeginOwn
  <2>4. BrokerTypeOK'
    BY <1>1, <2>2, <2>3 DEF BrokerTypeOK
  <2>5. PipeInv'
    BY <1>2, <1>3, <2>1, <2>2, <2>3 DEF PipeInv, Published, Apart, Sorted, Behind
  <2>6. EndKept'
    <3> SUFFICES ASSUME NEW q \in Runs, NEW c \in listed, at[q] = "done"
                 PROVE  \/ q \in seenEnd[c] \/ q \in missed'[c]
                        \/ EndQueued(q) \/ EndSpawned(q)' \/ EndSent(q, c)'
      BY <1>2, <2>3 DEF EndKept, EndQueued
    <3>1. \/ q \in seenEnd[c] \/ q \in missed[c]
          \/ EndQueued(q) \/ EndSpawned(q) \/ EndSent(q, c)
      BY <1>3 DEF EndKept
    <3>2. EndSent(q, c) => EndSent(q, c)'
      BY <2>2 DEF EndSent
    <3>3. EndSpawned(q) => EndSpawned(q)' \/ EndSent(q, c)' \/ q \in missed'[c]
      BY <2>2, <2>3 DEF EndSpawned, EndSent
    <3> QED
      BY <3>1, <3>2, <3>3, <1>1, <2>2
  <2> QED
    BY <2>4, <2>5, <2>6 DEF BrokerInv
<1>7. ASSUME NEW s \in sends, Deliver(s) \/ TimeOut(s)
      PROVE  BrokerInv'
  <2>1. /\ sends' = sends \ {s} /\ listed' \subseteq listed
        /\ UNCHANGED <<queue, spawned, here, missed, strayed>>
        /\ s.to \in Clients /\ s.event \in Event /\ s.event.run \in Runs
    BY <1>1, <1>7 DEF Deliver, TimeOut, Send, Event
  <2>2. BrokerTypeOK'
    <3>1. free' \in [Clients -> 0 .. Room] /\ seenEnd' \in [Clients -> SUBSET Runs]
      <4>1. CASE Deliver(s)
        BY <4>1, <1>1, <2>1 DEF Deliver, BrokerTypeOK
      <4>2. CASE TimeOut(s)
        BY <4>2, <1>1 DEF TimeOut, BrokerTypeOK
      <4> QED
        BY <4>1, <4>2, <1>7
    <3> QED
      BY <3>1, <1>1, <2>1 DEF BrokerTypeOK
  <2>3. PipeInv'
    BY <1>2, <1>3, <2>1 DEF PipeInv, Published, Apart, Sorted, Behind
  <2>4. /\ \A c \in Clients : seenEnd[c] \subseteq seenEnd'[c]
        /\ s.event.kind = "end" /\ s.to \in listed' => s.event.run \in seenEnd'[s.to]
    <3>1. CASE Deliver(s)
      BY <3>1, <1>1, <2>1 DEF Deliver, BrokerTypeOK
    <3>2. CASE TimeOut(s)
      BY <3>2 DEF TimeOut
    <3> QED
      BY <3>1, <3>2, <1>7
  <2>5. EndKept'
    <3> SUFFICES ASSUME NEW q \in Runs, NEW c \in listed', at[q] = "done"
                 PROVE  \/ q \in seenEnd'[c] \/ q \in missed[c]
                        \/ EndQueued(q) \/ EndSpawned(q) \/ EndSent(q, c)'
      BY <1>2, <2>1 DEF EndKept, EndQueued, EndSpawned
    <3>1. \/ q \in seenEnd[c] \/ q \in missed[c]
          \/ EndQueued(q) \/ EndSpawned(q) \/ EndSent(q, c)
      BY <1>3, <2>1 DEF EndKept
    <3>2. EndSent(q, c) => EndSent(q, c)' \/ q \in seenEnd'[c]
      BY <2>1, <2>4 DEF EndSent
    <3> QED
      BY <3>1, <3>2, <2>1, <2>4, <1>1
  <2> QED
    BY <2>2, <2>3, <2>5 DEF BrokerInv
<1>8. ASSUME NEW c \in Clients, Read(c) \/ Fill(c) \/ SwitchChat(c)
      PROVE  BrokerInv'
  <2>1. UNCHANGED <<queue, spawned, sends, listed, seenEnd, missed, strayed>>
    BY <1>8 DEF Read, Fill, SwitchChat
  <2>2. BrokerTypeOK'
    BY <1>1, <1>8, <2>1 DEF Read, Fill, SwitchChat, BrokerTypeOK
  <2>3. PipeInv'
    BY <1>2, <1>3, <2>1 DEF PipeInv, Published, Apart, Sorted, Behind
  <2>4. EndKept'
    BY <1>2, <1>3, <2>1 DEF EndKept, EndQueued, EndSpawned, EndSent
  <2> QED
    BY <2>2, <2>3, <2>4 DEF BrokerInv
<1> QED
  BY <1>5, <1>6, <1>7, <1>8 DEF BrokerStep, ClientStep

-----------------------------------------------------------------------------
(* The runs.                                                               *)

Over == {"new", "failed", "done", "dropped"}

Good(r, i) == result[r][i] \notin {"none", "error"}

\* What is known of a run: the steps before the one it is at have been done,
\* the reviewer has approved once the run is past it.
FlowInv(r) ==
    /\ result[r] \in [1 .. size[r] -> Outputs \cup {"none"}]
    /\ at[r] \in Over => size[r] = 0 /\ step[r] = 1 /\ reviewer[r] = 0 /\ round[r] = 1
    /\ outcome[r] # "none" => at[r] = "finish"
    /\ at[r] \notin Over =>
           /\ step[r] \in 1 .. size[r] /\ reviewer[r] \in 0 .. size[r]
           /\ mode[r] = "review" <=> reviewer[r] > 0
    /\ at[r] \in {"begin", "work"} /\ mode[r] # "parallel" =>
           /\ \A i \in 1 .. size[r] : i < step[r] => Good(r, i)
           /\ mode[r] = "review" /\ reviewer[r] < step[r] =>
                  result[r][reviewer[r]] = "approved"
    /\ at[r] = "report" =>
           mode[r] = "parallel" /\ \A i \in 1 .. size[r] : result[r][i] # "none"
    /\ outcome[r] = "success" =>
           /\ \A i \in 1 .. size[r] : Good(r, i)
           /\ mode[r] = "review" => result[r][reviewer[r]] = "approved"

Shape ==
    /\ mode \in [Runs -> AllModes] /\ size \in [Runs -> Nat]
    /\ reviewer \in [Runs -> Nat] /\ step \in [Runs -> Nat]
    /\ round \in [Runs -> 1 .. MaxRounds]
    /\ DOMAIN result = Runs
    /\ outcome \in [Runs -> {"none", "success", "failed"}]

IInv == BrokerInv /\ RunTypeOK /\ Shape /\ \A r \in Runs : FlowInv(r)

\* Nothing of a run has changed.
Same(q) ==
    /\ at'[q] = at[q] /\ mode'[q] = mode[q] /\ size'[q] = size[q]
    /\ reviewer'[q] = reviewer[q] /\ step'[q] = step[q] /\ round'[q] = round[q]
    /\ result'[q] = result[q] /\ outcome'[q] = outcome[q]

LEMMA SameKeeps ==
    ASSUME NEW q, FlowInv(q), Same(q)
    PROVE  FlowInv(q)'
BY DEF FlowInv, Same, Good

\* A step of a run changes nothing of the others.
LEMMA OtherRuns ==
    ASSUME IInv, NEW r \in Runs, RunStep(r)
    PROVE  \A q \in Runs : q # r => Same(q)
BY DEF IInv, Shape, RunTypeOK, RunStep, Start, StartInVain, BeginStep, Launch, Report,
       Finish, Drop, EndStep, EndPart, GoOn, Proceed, NextStep, NextRound, End, Leave,
       GoTo, Same

\* A step of a run that publishes nothing keeps what is said of the broker.
LEMMA QuietKeeps ==
    ASSUME BrokerInv, RunTypeOK, Quiet, at' \in [Runs -> Places],
           \A q \in Runs : /\ at'[q] = "done" <=> at[q] = "done"
                           /\ at'[q] = "new" <=> at[q] = "new"
    PROVE  BrokerInv' /\ RunTypeOK'
<1>1. /\ UNCHANGED brokerVars /\ emitted' = emitted
      /\ queue' = queue /\ spawned' = spawned /\ sends' = sends /\ listed' = listed
      /\ here' = here /\ free' = free /\ seenEnd' = seenEnd /\ missed' = missed
      /\ strayed' = strayed
  BY DEF Quiet, brokerVars
<1>2. BrokerTypeOK'
  BY <1>1 DEF BrokerInv, BrokerTypeOK
<1>3. \A e \in Event : Published(e) =>
          /\ e.n \in 1 .. emitted'[e.run] /\ (e.kind = "start" <=> e.n = 1)
          /\ e.kind = "end" => at'[e.run] = "done"
  BY <1>1 DEF Published, Event
<1>4. PipeInv'
  <2>1. \A i \in 1 .. Len(queue) : queue[i] \in Event
    BY DEF BrokerInv, BrokerTypeOK
  <2>2. spawned \subseteq Event /\ \A s \in sends : s.event \in Event
    BY DEF BrokerInv, BrokerTypeOK, Send
  <2>3. \A i \in 1 .. Len(queue') : Published(queue[i]) /\ queue'[i] = queue[i]
    BY <1>1 DEF BrokerInv, PipeInv
  <2>4. Apart' /\ Sorted' /\ Behind'
    BY <1>1, <1>3, <2>2 DEF BrokerInv, PipeInv, Apart, Sorted, Behind, Published
  <2> QED
    BY <1>1, <1>3, <2>1, <2>3, <2>4 DEF PipeInv, Published
<1>5. EndKept'
  BY <1>1 DEF BrokerInv, EndKept, EndQueued, EndSpawned, EndSent
<1>6. RunTypeOK'
  BY <1>1 DEF RunTypeOK
<1> QED
  BY <1>2, <1>4, <1>5, <1>6 DEF BrokerInv

\* A step of a run publishes its next event, its start first and its end last, or
\* nothing at all.
Publishes(r) ==
    \E kind \in {"start", "step", "end"}, place \in Places :
        /\ Emit(r, kind) /\ at' = [at EXCEPT ![r] = place]
        /\ at[r] # "done" /\ place # "new"
        /\ place = "done" <=> kind = "end"
        /\ kind = "start" <=> at[r] = "new"

KeepsQuiet ==
    /\ Quiet /\ at' \in [Runs -> Places]
    /\ \A q \in Runs : /\ at'[q] = "done" <=> at[q] = "done"
                       /\ at'[q] = "new" <=> at[q] = "new"

LEMMA PublishesOrNot ==
    ASSUME RunTypeOK, NEW r \in Runs, RunStep(r)
    PROVE  Publishes(r) \/ KeepsQuiet
<1>1. at \in [Runs -> Places]
  BY DEF RunTypeOK
<1>2. ASSUME NEW w \in Workflows[r], NEW v \in 0 .. w.size, Start(r, w, v)
      PROVE  Publishes(r)
  BY <1>2 DEF Publishes, Start, GoTo, Places
<1>3. ASSUME NEW w \in Workflows[r], StartInVain(r, w)
      PROVE  Publishes(r)
  BY <1>3 DEF Publishes, StartInVain, GoTo, Places
<1>4. CASE BeginStep(r)
  BY <1>4 DEF Publishes, BeginStep, GoTo, Places
<1>5. CASE Launch(r)
  <2>1. at' = [at EXCEPT ![r] = "work"] \/ at' = [at EXCEPT ![r] = "begin"]
    BY <1>1, <1>5 DEF Launch, GoTo
  <2> QED
    BY <2>1, <1>5 DEF Publishes, Launch, Places
<1>6. CASE Report(r)
  <2>1. at' = [at EXCEPT ![r] = "report"] \/ at' = [at EXCEPT ![r] = "finish"]
    BY <1>1, <1>6 DEF Report, GoTo
  <2> QED
    BY <2>1, <1>6 DEF Publishes, Report, Places
<1>7. CASE Finish(r)
  BY <1>7 DEF Publishes, Finish, Leave, GoTo, Places
<1>8. ASSUME NEW output \in Outputs, EndStep(r, output)
      PROVE  Publishes(r)
  <2>1. at' = [at EXCEPT ![r] = "begin"] \/ at' = [at EXCEPT ![r] = "finish"]
    BY <1>8 DEF EndStep, GoOn, Proceed, NextStep, NextRound, End, GoTo
  <2> QED
    BY <2>1, <1>8 DEF Publishes, EndStep, Places
<1>9. CASE Drop(r)
  <2>1. at' = [at EXCEPT ![r] = "dropped"] /\ at[r] = "work" /\ Quiet
    BY <1>9 DEF Drop, Leave, GoTo
  <2> QED
    BY <2>1, <1>1 DEF KeepsQuiet, Places
<1>10. ASSUME NEW i \in Steps(r), NEW output \in Outputs, EndPart(r, i, output)
       PROVE  KeepsQuiet
  <2>1. /\ at[r] = "work" /\ Quiet
        /\ \/ at' = at \/ at' = [at EXCEPT ![r] = "begin"]
           \/ at' = [at EXCEPT ![r] = "report"]
    BY <1>10 DEF EndPart, GoTo
  <2> QED
    BY <2>1, <1>1 DEF KeepsQuiet, Places
<1> QED
  BY <1>2, <1>3, <1>4, <1>5, <1>6, <1>7, <1>8, <1>9, <1>10 DEF RunStep

\* A step of a run keeps what is said of the broker.
LEMMA RunKeepsBroker ==
    ASSUME IInv, NEW r \in Runs, RunStep(r)
    PROVE  BrokerInv' /\ RunTypeOK'
<1>1. BrokerInv /\ RunTypeOK /\ at \in [Runs -> Places]
  BY DEF IInv, RunTypeOK
<1>2. CASE Publishes(r)
  <2>1. PICK kind \in {"start", "step", "end"}, place \in Places :
            /\ Emit(r, kind) /\ at' = [at EXCEPT ![r] = place]
            /\ at[r] # "done" /\ place # "new"
            /\ place = "done" <=> kind = "end"
            /\ kind = "start" <=> at[r] = "new"
    BY <1>2 DEF Publishes
  <2>2. at' \in [Runs -> Places] /\ at'[r] = place /\ \A q \in Runs : q # r => at'[q] = at[q]
    BY <1>1, <2>1
  <2> QED
    BY <1>1, <2>1, <2>2, PublishKeeps
<1>3. CASE KeepsQuiet
  BY <1>1, <1>3, QuietKeeps DEF KeepsQuiet
<1> QED
  BY <1>1, <1>2, <1>3, PublishesOrNot

\* A step of a run keeps what is known of it.
LEMMA RunKeepsFlow ==
    ASSUME IInv, NEW r \in Runs, RunStep(r)
    PROVE  FlowInv(r)' /\ Shape'
<1>1. /\ FlowInv(r) /\ Shape /\ at \in [Runs -> Places]
      /\ result[r] \in [1 .. size[r] -> Outputs \cup {"none"}]
      /\ step[r] \in Nat /\ size[r] \in Nat /\ reviewer[r] \in Nat
      /\ round[r] \in 1 .. MaxRounds /\ MaxRounds \in Nat \ {0}
  BY SomeSteps DEF IInv, RunTypeOK, FlowInv, Shape
<1>2. ASSUME NEW w \in Workflows[r], NEW v \in 0 .. w.size, Start(r, w, v)
      PROVE  FlowInv(r)' /\ Shape'
  <2>1. w.mode \in AllModes /\ w.size \in Nat \ {0} /\ v \in Nat
    BY SomeSteps
  <2>2. /\ at'[r] = "begin" /\ mode'[r] = w.mode /\ size'[r] = w.size /\ reviewer'[r] = v
        /\ step'[r] = 1 /\ outcome'[r] = "none"
        /\ result'[r] = [i \in 1 .. w.size |-> "none"]
        /\ w.mode = "review" <=> v > 0
    BY <1>1, <1>2, <2>1 DEF Start, GoTo, Shape, FlowInv, Over, Blank
  <2>3. FlowInv(r)'
    BY <2>1, <2>2 DEF FlowInv, Over, Good
  <2>4. Shape'
    BY <1>1, <1>2, <2>1 DEF Start, Shape
  <2> QED
    BY <2>3, <2>4
<1>3. ASSUME NEW w \in Workflows[r], StartInVain(r, w)
      PROVE  FlowInv(r)' /\ Shape'
  BY <1>1, <1>3 DEF StartInVain, GoTo, FlowInv, Shape, Over, Good
<1>4. CASE BeginStep(r)
  BY <1>1, <1>4 DEF BeginStep, GoTo, FlowInv, Shape, Over, Good
<1>5. CASE Launch(r)
  <2>1. /\ at'[r] \in {"begin", "work"} /\ step'[r] \in 1 .. size[r]
        /\ at[r] = "begin" /\ mode[r] = "parallel"
        /\ UNCHANGED <<mode, size, reviewer, round, result, outcome>>
        /\ step' \in [Runs -> Nat]
    BY <1>1, <1>5 DEF Launch, GoTo, FlowInv, Shape, Over, LastOfChunk
  <2> QED
    BY <1>1, <2>1 DEF FlowInv, Shape, Over
<1>6. CASE Report(r)
  <2>1. /\ at[r] = "report" /\ mode[r] = "parallel"
        /\ \A i \in 1 .. size[r] : result[r][i] # "none"
        /\ UNCHANGED <<mode, size, reviewer, round, result>>
        /\ outcome[r] = "none" /\ step[r] \in 1 .. size[r] /\ reviewer[r] = 0
    BY <1>1, <1>6 DEF Report, FlowInv, Over, Shape
  <2>2. CASE step[r] < size[r]
    <3>1. at'[r] = "report" /\ outcome' = outcome /\ step' = [step EXCEPT ![r] = @ + 1]
      BY <1>6, <2>1, <2>2 DEF Report
    <3> QED
      BY <1>1, <2>1, <2>2, <3>1 DEF FlowInv, Shape, Over
  <2>3. CASE ~(step[r] < size[r])
    <3>1. /\ at'[r] = "finish" /\ outcome' = [outcome EXCEPT ![r] = AllOf(r)]
          /\ step' = step
      BY <1>1, <1>6, <2>3 DEF Report, GoTo
    <3>2. AllOf(r) = "success" => \A i \in 1 .. size[r] : Good(r, i)
      BY <2>1 DEF AllOf, Good, Steps
    <3>3. AllOf(r) \in {"failed", "success"}
      BY DEF AllOf
    <3> QED
      BY <1>1, <2>1, <3>1, <3>2, <3>3 DEF FlowInv, Shape, Over, Good
  <2> QED
    BY <2>2, <2>3
<1>7. ASSUME Finish(r) \/ Drop(r)
      PROVE  FlowInv(r)' /\ Shape'
  <2>1. /\ at'[r] \in Over /\ size'[r] = 0 /\ step'[r] = 1 /\ reviewer'[r] = 0
        /\ round'[r] = 1 /\ outcome'[r] = "none"
        /\ result'[r] = [i \in 1 .. 0 |-> "none"]
    BY <1>1, <1>7 DEF Finish, Drop, Leave, GoTo, Shape, Over, Blank
  <2>2. FlowInv(r)'
    BY <2>1 DEF FlowInv, Over
  <2>3. Shape'
    <3>1. /\ mode' = [mode EXCEPT ![r] = "ordered"] /\ size' = [size EXCEPT ![r] = 0]
          /\ reviewer' = [reviewer EXCEPT ![r] = 0] /\ step' = [step EXCEPT ![r] = 1]
          /\ round' = [round EXCEPT ![r] = 1] /\ outcome' = [outcome EXCEPT ![r] = "none"]
          /\ result' = [result EXCEPT ![r] = Blank(0)]
      BY <1>7 DEF Finish, Drop, Leave
    <3> QED
      BY <1>1, <3>1 DEF Shape, AllModes
  <2> QED
    BY <2>2, <2>3
<1>8. ASSUME NEW output \in Outputs, EndStep(r, output)
      PROVE  FlowInv(r)' /\ Shape'
  <2>1. /\ at[r] = "work" /\ mode[r] # "parallel" /\ outcome[r] = "none"
        /\ step[r] \in 1 .. size[r] /\ reviewer[r] \in 0 .. size[r]
        /\ mode[r] = "review" <=> reviewer[r] > 0
        /\ \A i \in 1 .. size[r] : i < step[r] => Good(r, i)
        /\ mode[r] = "review" /\ reviewer[r] < step[r] => result[r][reviewer[r]] = "approved"
    BY <1>1, <1>8 DEF EndStep, FlowInv, Over, Shape
  <2>2. /\ mode' = mode /\ size' = size /\ reviewer' = reviewer
        /\ result'[r] = [result[r] EXCEPT ![step[r]] = output]
        /\ DOMAIN result' = Runs
        /\ output \in {"plain", "error"} \/ step[r] = reviewer[r]
    BY <1>1, <1>8 DEF EndStep, Shape
  <2>3. /\ result'[r] \in [1 .. size[r] -> Outputs \cup {"none"}]
        /\ result'[r][step[r]] = output
        /\ \A i \in 1 .. size[r] : i # step[r] => result'[r][i] = result[r][i]
    BY <1>1, <2>1, <2>2
  <2>4. ASSUME End(r, "failed")
        PROVE  FlowInv(r)' /\ Shape'
    <3>1. /\ at'[r] = "finish" /\ outcome' = [outcome EXCEPT ![r] = "failed"]
          /\ step' = step /\ round' = round
      BY <1>1, <2>4 DEF End, GoTo
    <3> QED
      BY <1>1, <2>1, <2>2, <2>3, <3>1 DEF FlowInv, Shape, Over
  <2>5. ASSUME Proceed(r), output # "error",
               step[r] = reviewer[r] => output = "approved"
        PROVE  FlowInv(r)' /\ Shape'
    <3>1. \A i \in 1 .. size[r] : i <= step[r] => result'[r][i] \notin {"none", "error"}
      BY <2>1, <2>3, <2>5 DEF Good, Outputs
    <3>2. mode[r] = "review" /\ reviewer[r] <= step[r] => result'[r][reviewer[r]] = "approved"
      BY <2>1, <2>3, <2>5
    <3>3. CASE step[r] < size[r]
      <4>1. /\ at'[r] = "begin" /\ step' = [step EXCEPT ![r] = @ + 1]
            /\ round' = round /\ outcome' = outcome
        BY <1>1, <2>5, <3>3 DEF Proceed, NextStep, GoTo
      <4> QED
        BY <1>1, <2>1, <2>2, <2>3, <3>1, <3>2, <3>3, <4>1 DEF FlowInv, Shape, Over, Good
    <3>4. CASE ~(step[r] < size[r])
      <4>1. /\ at'[r] = "finish" /\ outcome' = [outcome EXCEPT ![r] = "success"]
            /\ step' = step /\ round' = round
        BY <1>1, <2>5, <3>4 DEF Proceed, End, GoTo
      <4>2. step[r] = size[r]
        BY <2>1, <3>4, <1>1
      <4> QED
        BY <1>1, <2>1, <2>2, <2>3, <3>1, <3>2, <4>1, <4>2 DEF FlowInv, Shape, Over, Good
    <3> QED
      BY <3>3, <3>4
  <2>6. ASSUME NextRound(r), round[r] < MaxRounds
        PROVE  FlowInv(r)' /\ Shape'
    <3>1. /\ at'[r] = "begin" /\ step' = [step EXCEPT ![r] = 1]
          /\ round' = [round EXCEPT ![r] = @ + 1] /\ outcome' = outcome
      BY <1>1, <2>6 DEF NextRound, GoTo
    <3>2. mode[r] = "review" => ~(reviewer[r] < 1)
      BY <2>1
    <3> QED
      BY <1>1, <2>1, <2>2, <2>3, <2>6, <3>1, <3>2 DEF FlowInv, Shape, Over, Good
  <2> QED
    BY <1>8, <2>2, <2>4, <2>5, <2>6 DEF EndStep, GoOn
<1>9. ASSUME NEW i \in Steps(r), NEW output \in Outputs, EndPart(r, i, output)
      PROVE  FlowInv(r)' /\ Shape'
  <2>1. /\ at[r] = "work" /\ mode[r] = "parallel" /\ outcome[r] = "none"
        /\ step[r] \in 1 .. size[r] /\ reviewer[r] = 0
        /\ i \in 1 .. size[r] /\ i \in UnderWay(r) /\ output \in {"plain", "error"}
    BY <1>1, <1>9 DEF EndPart, FlowInv, Over, Shape, Steps
  <2>2. /\ UNCHANGED <<mode, size, reviewer, round, outcome>>
        /\ result'[r] = [result[r] EXCEPT ![i] = output] /\ DOMAIN result' = Runs
    BY <1>1, <1>9 DEF EndPart, Shape
  <2>3. /\ result'[r] \in [1 .. size[r] -> Outputs \cup {"none"}]
        /\ result'[r][i] = output
        /\ \A j \in 1 .. size[r] : j # i => result'[r][j] = result[r][j]
    BY <1>1, <2>1, <2>2
  <2>4. CASE UnderWay(r) # {i}
    <3>1. at' = at /\ step' = step
      BY <1>9, <2>4 DEF EndPart
    <3> QED
      BY <1>1, <2>1, <2>2, <2>3, <3>1 DEF FlowInv, Shape, Over
  <2>5. CASE UnderWay(r) = {i} /\ step[r] < size[r]
    <3>1. at'[r] = "begin" /\ step' = [step EXCEPT ![r] = @ + 1]
      BY <1>1, <1>9, <2>5 DEF EndPart, GoTo
    <3> QED
      BY <1>1, <2>1, <2>2, <2>3, <2>5, <3>1 DEF FlowInv, Shape, Over
  <2>6. CASE UnderWay(r) = {i} /\ ~(step[r] < size[r])
    <3>1. at'[r] = "report" /\ step' = [step EXCEPT ![r] = 1]
      BY <1>1, <1>9, <2>6 DEF EndPart, GoTo
    <3>2. step[r] = size[r]
      BY <1>1, <2>1, <2>6
    <3>3. \A j \in 1 .. size[r] : result'[r][j] # "none"
      BY <2>1, <2>3, <2>6, <3>2 DEF UnderWay
    <3> QED
      BY <1>1, <2>1, <2>2, <2>3, <3>1, <3>3 DEF FlowInv, Shape, Over
  <2> QED
    BY <2>4, <2>5, <2>6
<1> QED
  BY <1>2, <1>3, <1>4, <1>5, <1>6, <1>7, <1>8, <1>9 DEF RunStep

-----------------------------------------------------------------------------
(* The theorems.                                                           *)

LEMMA InitIInv == Init => IInv
<1> SUFFICES ASSUME Init PROVE IInv
  OBVIOUS
<1>1. BrokerTypeOK
  BY SomeRoom DEF Init, BrokerInit, BrokerTypeOK
<1>2. PipeInv /\ EndKept
  BY DEF Init, BrokerInit, PipeInv, Apart, Sorted, Behind, EndKept
<1>3. RunTypeOK /\ Shape
  BY SomeSteps DEF Init, RunTypeOK, Shape, Places, AllModes
<1>4. \A r \in Runs : FlowInv(r)
  BY DEF Init, FlowInv, Over, Blank
<1> QED
  BY <1>1, <1>2, <1>3, <1>4 DEF IInv, BrokerInv

LEMMA NextIInv == IInv /\ [Next]_vars => IInv'
<1> SUFFICES ASSUME IInv, [Next]_vars PROVE IInv'
  OBVIOUS
<1>1. ASSUME NEW r \in Runs, RunStep(r)
      PROVE  IInv'
  <2>1. BrokerInv' /\ RunTypeOK'
    BY <1>1, RunKeepsBroker
  <2>2. FlowInv(r)' /\ Shape'
    BY <1>1, RunKeepsFlow
  <2>3. \A q \in Runs : q # r => FlowInv(q)'
    BY <1>1, OtherRuns, SameKeeps DEF IInv
  <2> QED
    BY <2>1, <2>2, <2>3 DEF IInv
<1>2. ASSUME UNCHANGED runVars
      PROVE  RunTypeOK' /\ Shape' /\ \A r \in Runs : FlowInv(r)'
  BY <1>2 DEF IInv, RunTypeOK, Shape, FlowInv, Good, runVars
<1>3. CASE (BrokerStep \/ ClientStep) /\ UNCHANGED runVars
  BY <1>2, <1>3, BrokerKeeps DEF IInv
<1>4. CASE UNCHANGED vars
  <2>1. UNCHANGED runVars /\ UNCHANGED brokerVars
    BY <1>4 DEF vars
  <2>2. Quiet /\ at' = at
    BY <2>1 DEF Quiet, runVars
  <2>3. BrokerInv'
    BY <2>2, QuietKeeps DEF IInv, RunTypeOK
  <2> QED
    BY <1>2, <2>1, <2>3 DEF IInv
<1> QED
  BY <1>1, <1>3, <1>4 DEF Next

\* The inductive invariant: the broker's part, and what is known of each run.
THEOREM Invariance == Spec => []IInv
BY InitIInv, NextIInv, PTL DEF Spec

\* Everything keeps the shape it should.
THEOREM Types == Spec => []TypeOK
<1>1. IInv => TypeOK
  <2> SUFFICES ASSUME IInv PROVE TypeOK
    OBVIOUS
  <2>1. BrokerTypeOK /\ at \in [Runs -> Places] /\ emitted \in [Runs -> Nat] /\ Shape
    BY DEF IInv, BrokerInv, RunTypeOK
  <2>2. \A r \in Runs : /\ size[r] > 0 => step[r] \in Steps(r) /\ reviewer[r] <= size[r]
                        /\ result[r] \in [Steps(r) -> Outputs \cup {"none"}]
    <3> TAKE r \in Runs
    <3>1. FlowInv(r) /\ size[r] \in Nat /\ step[r] \in Nat /\ reviewer[r] \in Nat
      BY <2>1 DEF IInv, Shape
    <3>2. size[r] > 0 => at[r] \notin Over
      BY <3>1 DEF FlowInv
    <3> QED
      BY <3>1, <3>2 DEF FlowInv, Steps
  <2> QED
    BY <2>1, <2>2 DEF TypeOK, Shape
<1> QED
  BY <1>1, Invariance, PTL

\* The end of a run is never given up on its way to a client that keeps up.
THEOREM EndsAreKept == Spec => []NoEndLost
<1>1. IInv => NoEndLost
  <2> SUFFICES ASSUME IInv, NEW r \in Runs, NEW c \in listed, at[r] = "done"
               PROVE  \/ r \in seenEnd[c] \cup missed[c]
                      \/ \E e \in Pending \cup {s.event : s \in {x \in sends : x.to = c}} :
                            e.run = r /\ e.kind = "end"
    BY DEF NoEndLost
  <2>1. \/ r \in seenEnd[c] \/ r \in missed[c]
        \/ EndQueued(r) \/ EndSpawned(r) \/ EndSent(r, c)
    BY DEF IInv, BrokerInv, EndKept
  <2>2. DOMAIN queue = 1 .. Len(queue)
    BY DEF IInv, BrokerInv, BrokerTypeOK
  <2>3. EndQueued(r) => \E e \in Pending : e.run = r /\ e.kind = "end"
    BY <2>2 DEF EndQueued, Pending
  <2>4. EndSpawned(r) => \E e \in Pending : e.run = r /\ e.kind = "end"
    BY DEF EndSpawned, Pending
  <2>5. EndSent(r, c) => \E e \in {s.event : s \in {x \in sends : x.to = c}} :
                             e.run = r /\ e.kind = "end"
    BY DEF EndSent
  <2> QED
    BY <2>1, <2>3, <2>4, <2>5
<1> QED
  BY <1>1, Invariance, PTL

\* A run reports success only when every step was done and the reviewer approved.
THEOREM SuccessIsEarned == Spec => []SuccessIsTrue
<1>1. IInv => SuccessIsTrue
  BY DEF IInv, FlowInv, SuccessIsTrue, Steps, Good
<1> QED
  BY <1>1, Invariance, PTL

\* The events of a run arrive in order, unless one of them overflowed.
THEOREM EventsInOrder == Spec => InOrder
<1> DEFINE Ordered ==
        \A s \in sends \ sends' :
            s.event.run \notin strayed =>
                \A e \in Pending \cup {x.event : x \in {y \in sends : y.to = s.to}} :
                    e.run = s.event.run => e.n >= s.event.n
<1>1. IInv /\ [Next]_vars => [Ordered]_vars
  <2> SUFFICES ASSUME IInv, NEW s \in sends, s.event.run \notin strayed,
                      NEW e \in Pending \cup {x.event : x \in {y \in sends : y.to = s.to}},
                      e.run = s.event.run
               PROVE  e.n >= s.event.n
    BY DEF Ordered
  <2>1. /\ Apart /\ Behind /\ ~s.own /\ DOMAIN queue = 1 .. Len(queue)
        /\ s.event.n \in Nat
    BY DEF IInv, BrokerInv, BrokerTypeOK, PipeInv, Apart, Send, Event
  <2>2. CASE e \in spawned
    BY <2>1, <2>2 DEF Apart
  <2>3. CASE \E i \in DOMAIN queue : e = queue[i]
    <3>1. PICK i \in 1 .. Len(queue) : e = queue[i]
      BY <2>1, <2>3
    <3>2. queue[i] \in Event
      BY DEF IInv, BrokerInv, BrokerTypeOK
    <3>3. e.n \in Nat /\ s.event.n < e.n
      BY <2>1, <3>1, <3>2 DEF Behind, Event
    <3> QED
      BY <2>1, <3>3
  <2>4. CASE \E x \in sends : e = x.event
    BY <2>1, <2>4 DEF Apart, Behind
  <2> QED
    BY <2>2, <2>3, <2>4 DEF Pending
<1> QED
  BY <1>1, Invariance, PTL DEF Spec, InOrder

-----------------------------------------------------------------------------
(* The end of a run is its last event.                                     *)

\* A client that has got the end of a run, or was not sent it, is sent no end of it
\* any more; and nothing else of it, unless an event of the run overflowed.
NothingAfterTheEnd ==
    \A r \in Runs, c \in Clients :
        /\ r \notin seenEnd[c] \cap missed[c]
        /\ r \in seenEnd[c] \cup missed[c] =>
               \A e \in Pending \cup {s.event : s \in {x \in sends : x.to = c}} :
                   e.run = r => e.kind # "end" /\ r \in strayed

\* The end has the last number of its run.
Last(e) == e.kind = "end" => e.n = emitted[e.run]

AllLast ==
    /\ \A i \in 1 .. Len(queue) : Last(queue[i])
    /\ \A e \in spawned : Last(e)
    /\ \A s \in sends : Last(s.event)

\* It is in one place only on its way to a client, and was sent to it or was not.
InOnePlace(r, c) ==
    /\ ~(EndQueued(r) /\ EndSpawned(r))
    /\ EndQueued(r) \/ EndSpawned(r) =>
           ~EndSent(r, c) /\ r \notin seenEnd[c] /\ r \notin missed[c]
    /\ EndSent(r, c) => r \notin seenEnd[c] /\ r \notin missed[c]
    /\ ~(r \in seenEnd[c] /\ r \in missed[c])
    /\ r \in seenEnd[c] \/ r \in missed[c] => at[r] = "done"

SentOnce ==
    \A s, x \in sends :
        s.to = x.to /\ s.event.run = x.event.run
            /\ s.event.kind = "end" /\ x.event.kind = "end" => s = x

\* Nothing of a run in order comes behind its end.
Silent(r, c) ==
    r \notin strayed /\ (r \in seenEnd[c] \/ r \in missed[c]) =>
        /\ \A i \in 1 .. Len(queue) : queue[i].run # r
        /\ \A s \in sends : s.to = c => s.event.run # r

EndInv ==
    /\ AllLast /\ SentOnce
    /\ \A r \in Runs, c \in Clients : InOnePlace(r, c) /\ Silent(r, c)

\* An end on its way is that of a run that is over.
LEMMA EndsOfRunsThatAreDone ==
    ASSUME BrokerInv, NEW r \in Runs, NEW c \in Clients,
           EndQueued(r) \/ EndSpawned(r) \/ EndSent(r, c)
    PROVE  at[r] = "done"
BY DEF BrokerInv, PipeInv, Apart, Published, EndQueued, EndSpawned, EndSent

\* A run that publishes its next event is not over, so that no end of it is about;
\* its own end takes one way only.
LEMMA PublishEnds ==
    ASSUME BrokerInv, RunTypeOK, EndInv, NEW r \in Runs, Publishes(r)
    PROVE  EndInv'
<1>1. PICK kind \in {"start", "step", "end"}, place \in Places :
          /\ Emit(r, kind) /\ at' = [at EXCEPT ![r] = place]
          /\ at[r] # "done" /\ (place = "done" <=> kind = "end")
  BY DEF Publishes
<1> DEFINE e == [run |-> r, kind |-> kind, n |-> emitted[r] + 1]
           StillLast(x) == x.kind = "end" => x.n = emitted'[x.run]
<1>2. /\ e \in Event /\ e.run = r /\ e.kind = kind /\ e.n = emitted[r] + 1
      /\ Publish(e) /\ emitted' = [emitted EXCEPT ![r] = @ + 1] /\ emitted[r] \in Nat
  BY <1>1 DEF Emit, Event, RunTypeOK
<1>3. /\ emitted'[r] = e.n /\ \A q \in Runs : q # r => emitted'[q] = emitted[q]
      /\ at'[r] = place /\ \A q \in Runs : q # r => at'[q] = at[q]
  BY <1>1, <1>2 DEF RunTypeOK
<1> HIDE DEF e
<1>4. /\ \A i \in 1 .. Len(queue') :
             queue'[i] = e \/ \E j \in 1 .. Len(queue) : queue'[i] = queue[j]
      /\ spawned' = spawned \/ spawned' = spawned \cup {e}
  BY <1>1, <1>2, QueueAfterPublish DEF BrokerInv, RunTypeOK
<1>5. spawned' = spawned \/ queue' = queue
  BY <1>2 DEF Publish, PushBack, GiveUp, EvictStep, ReplaceOwn, EvictStart, Overflow
<1>6. /\ sends' = sends /\ seenEnd' = seenEnd /\ missed' = missed /\ strayed \subseteq strayed'
  BY <1>2 DEF Publish
<1>7. /\ \A i \in 1 .. Len(queue) : queue[i] \in Event /\ Published(queue[i])
      /\ \A x \in spawned : x \in Event /\ Published(x)
      /\ \A s \in sends : s.event \in Event /\ Published(s.event)
  BY DEF BrokerInv, BrokerTypeOK, PipeInv, Apart, Send
<1>8. ASSUME NEW x \in Event, Published(x), Last(x) PROVE StillLast(x)
  <2>1. CASE x.kind = "end"
    <3>1. x.run \in Runs /\ x.run # r
      BY <1>1, <1>8, <2>1 DEF Published, Event
    <3> QED
      BY <1>3, <1>8, <3>1 DEF Last
  <2> QED
    BY <2>1
<1>9. StillLast(e)
  BY <1>2, <1>3
<1> HIDE DEF StillLast
<1>10. AllLast'
  <2>1. ASSUME NEW i \in 1 .. Len(queue') PROVE StillLast(queue'[i])
    <3>1. CASE \E j \in 1 .. Len(queue) : queue'[i] = queue[j]
      <4>1. PICK j \in 1 .. Len(queue) : queue'[i] = queue[j]
        BY <3>1
      <4>2. Last(queue[j]) /\ queue[j] \in Event /\ Published(queue[j])
        BY <1>7 DEF EndInv, AllLast
      <4>3. StillLast(queue[j])
        BY <1>8, <4>2
      <4> QED
        BY <4>1, <4>3
    <3> QED
      BY <1>4, <1>9, <3>1
  <2>2. \A x \in spawned' : StillLast(x)
    BY <1>4, <1>7, <1>8, <1>9 DEF EndInv, AllLast
  <2>3. \A s \in sends' : StillLast(s.event)
    BY <1>6, <1>7, <1>8 DEF EndInv, AllLast
  <2> QED
    BY <2>1, <2>2, <2>3 DEF AllLast, Last, StillLast
<1>11. SentOnce'
  BY <1>6 DEF EndInv, SentOnce
<1>12. ASSUME NEW q \in Runs, NEW c \in Clients
       PROVE  InOnePlace(q, c)' /\ Silent(q, c)'
  <2>1. InOnePlace(q, c) /\ Silent(q, c)
    BY DEF EndInv
  <2>2. EndSent(q, c)' <=> EndSent(q, c)
    BY <1>6 DEF EndSent
  <2>3. CASE q # r
    <3>1. EndQueued(q)' => EndQueued(q)
      BY <1>2, <1>4, <2>3 DEF EndQueued
    <3>2. EndSpawned(q)' => EndSpawned(q)
      BY <1>2, <1>4, <2>3 DEF EndSpawned
    <3>3. \A i \in 1 .. Len(queue') : queue'[i].run = q =>
              \E j \in 1 .. Len(queue) : queue[j].run = q
      BY <1>2, <1>4, <2>3
    <3>4. InOnePlace(q, c)'
      BY <1>3, <1>6, <2>1, <2>2, <2>3, <3>1, <3>2 DEF InOnePlace
    <3>5. Silent(q, c)'
      BY <1>6, <2>1, <3>3 DEF Silent
    <3> QED
      BY <3>4, <3>5
  <2>4. CASE q = r
    <3>1. ~EndQueued(r) /\ ~EndSpawned(r) /\ ~EndSent(r, c)
      BY <1>1, EndsOfRunsThatAreDone
    <3>2. r \notin seenEnd[c] /\ r \notin missed[c]
      BY <1>1, <2>1, <2>4 DEF InOnePlace
    <3>3. ~(EndQueued(r)' /\ EndSpawned(r)')
      BY <1>5, <3>1 DEF EndQueued, EndSpawned
    <3>4. InOnePlace(r, c)'
      BY <1>6, <2>2, <2>4, <3>1, <3>2, <3>3 DEF InOnePlace
    <3>5. Silent(r, c)'
      BY <1>6, <3>2 DEF Silent
    <3> QED
      BY <2>4, <3>4, <3>5
  <2> QED
    BY <2>3, <2>4
<1> QED
  BY <1>10, <1>11, <1>12 DEF EndInv

\* A step that publishes nothing moves no end.
LEMMA QuietEnds ==
    ASSUME EndInv, UNCHANGED <<brokerVars, emitted>>,
           \A q \in Runs : at'[q] = "done" <=> at[q] = "done"
    PROVE  EndInv'
<1>1. /\ queue' = queue /\ spawned' = spawned /\ sends' = sends /\ emitted' = emitted
      /\ seenEnd' = seenEnd /\ missed' = missed /\ strayed' = strayed
  BY DEF brokerVars
<1>2. AllLast' /\ SentOnce'
  BY <1>1 DEF EndInv, AllLast, Last, SentOnce
<1>3. ASSUME NEW r \in Runs, NEW c \in Clients PROVE InOnePlace(r, c)' /\ Silent(r, c)'
  BY <1>1 DEF EndInv, InOnePlace, Silent, EndQueued, EndSpawned, EndSent
<1> QED
  BY <1>2, <1>3 DEF EndInv

\* Who is sent an event: each of the audience once, and a client outside misses an end.
LEMMA WhoIsSent ==
    ASSUME BrokerTypeOK, NEW e \in Event, NEW own \in BOOLEAN, SendToAll(e, own)
    PROVE  /\ \A s \in sends' : s \in sends \/ (s.event = e /\ s.own = own /\ s.to \in Audience)
           /\ \A s, x \in sends' : s \notin sends /\ x \notin sends /\ s.to = x.to => s = x
           /\ \A c \in Clients :
                  missed'[c] = IF e.kind = "end" /\ c \notin Audience
                               THEN missed[c] \cup {e.run} ELSE missed[c]
<1>1. sends' = sends \cup {[event |-> e, to |-> c, own |-> own] : c \in Audience}
  BY DEF SendToAll
<1>2. \A s \in sends' : s \in sends \/
          \E c \in Audience : s = [event |-> e, to |-> c, own |-> own]
  BY <1>1
<1>3. missed \in [Clients -> SUBSET Runs]
  BY DEF BrokerTypeOK
<1>4. \A c \in Clients :
          missed'[c] = IF e.kind = "end" /\ c \notin Audience
                       THEN missed[c] \cup {e.run} ELSE missed[c]
  BY <1>3 DEF SendToAll
<1> QED
  BY <1>2, <1>4

\* The broker takes the next event: an end that it sends was nowhere else, and
\* nothing of its run is behind it.
LEMMA PopEnds ==
    ASSUME BrokerInv, RunTypeOK, EndInv, Pop, UNCHANGED runVars
    PROVE  EndInv'
<1>1. /\ queue \in Seq(Event) /\ BrokerTypeOK /\ PipeInv
      /\ at' = at /\ emitted' = emitted
  BY DEF BrokerInv, BrokerTypeOK, runVars
<1>2. /\ Len(queue') = Len(queue) - 1 /\ Len(queue) \in Nat \ {0}
      /\ \A i \in 1 .. Len(queue') : queue'[i] = queue[i + 1]
      /\ Head(queue) = queue[1] /\ queue[1] \in Event
  BY <1>1, TailOfQueue, Zenon DEF Pop
<1> DEFINE e == queue[1]
<1>3. /\ \A s \in sends' : s \in sends \/ (s.event = e /\ s.own = FALSE /\ s.to \in Audience)
      /\ \A s, x \in sends' : s \notin sends /\ x \notin sends /\ s.to = x.to => s = x
      /\ \A c \in Clients :
             missed'[c] = IF e.kind = "end" /\ c \notin Audience
                          THEN missed[c] \cup {e.run} ELSE missed[c]
  <2>1. SendToAll(e, FALSE) /\ e \in Event /\ FALSE \in BOOLEAN
    BY <1>2 DEF Pop
  <2> HIDE DEF e
  <2> QED
    BY <1>1, <2>1, WhoIsSent, Zenon
<1>4. /\ \A s \in sends : s.own /\ s.event.run \in strayed
      /\ spawned' = spawned /\ seenEnd' = seenEnd /\ strayed' = strayed
  BY <1>1 DEF Pop, PipeInv, Apart
<1>5. \A i \in 1 .. Len(queue') : i + 1 \in 1 .. Len(queue) /\ queue'[i] = queue[i + 1]
                                  /\ 1 < i + 1
  BY <1>2
<1>6. 1 \in 1 .. Len(queue) /\ e.run \in Runs /\ e.n \in Nat
  BY <1>2 DEF Event
<1>7. e.kind = "end" => EndQueued(e.run) /\ e.n = emitted[e.run]
  BY <1>6 DEF EndQueued, EndInv, AllLast, Last
\* Behind an end there is nothing of its run.
<1>8. ASSUME e.kind = "end", NEW i \in 1 .. Len(queue') PROVE queue'[i].run # e.run
  <2> SUFFICES ASSUME queue'[i].run = e.run PROVE FALSE
    OBVIOUS
  <2>1. i + 1 \in 1 .. Len(queue) /\ queue'[i] = queue[i + 1] /\ 1 < i + 1
    BY <1>5
  <2>2. queue[i + 1].n \in 1 .. emitted[e.run] /\ e.n < queue[i + 1].n
    BY <1>1, <1>6, <2>1 DEF PipeInv, Published, Sorted
  <2>3. emitted[e.run] \in Nat
    BY <1>6 DEF RunTypeOK
  <2> QED
    BY <1>6, <1>7, <1>8, <2>2, <2>3
<1> HIDE DEF e
<1>9. AllLast'
  <2>1. Last(e) /\ \A i \in 1 .. Len(queue') : Last(queue'[i])
    BY <1>5, <1>6 DEF EndInv, AllLast, e
  <2>2. \A s \in sends' : Last(s.event)
    BY <1>3, <2>1 DEF EndInv, AllLast
  <2>3. \A x \in spawned : Last(x)
    BY DEF EndInv, AllLast
  <2> QED
    BY <1>1, <1>4, <2>1, <2>2, <2>3 DEF AllLast, Last
<1>10. \A c \in Clients : e.kind = "end" => ~EndSent(e.run, c)
  BY <1>6, <1>7 DEF EndInv, InOnePlace
<1>11. SentOnce'
  <2> SUFFICES ASSUME NEW s \in sends', NEW x \in sends', s.to = x.to,
                      s.event.run = x.event.run, s.event.kind = "end", x.event.kind = "end"
               PROVE  s = x
    BY DEF SentOnce
  <2>1. \A y \in sends : y.to \in Clients
    BY <1>1 DEF BrokerTypeOK, Send
  <2>2. CASE s \in sends /\ x \in sends
    BY <2>2 DEF EndInv, SentOnce
  <2>3. CASE s \in sends /\ x \notin sends
    BY <1>3, <1>10, <2>1, <2>3 DEF EndSent
  <2>4. CASE s \notin sends /\ x \in sends
    BY <1>3, <1>10, <2>1, <2>4 DEF EndSent
  <2>5. CASE s \notin sends /\ x \notin sends
    BY <1>3, <2>5
  <2> QED
    BY <2>2, <2>3, <2>4, <2>5
<1>12. ASSUME NEW r \in Runs, NEW c \in Clients
       PROVE  InOnePlace(r, c)' /\ Silent(r, c)'
  <2>1. InOnePlace(r, c) /\ Silent(r, c)
    BY DEF EndInv
  <2>2. EndSpawned(r)' <=> EndSpawned(r)
    BY <1>4 DEF EndSpawned
  <2>3. EndQueued(r)' => EndQueued(r)
    BY <1>5 DEF EndQueued
  <2>4. InOnePlace(r, c)'
    <3>1. CASE e.run = r /\ e.kind = "end"
      <4>1. ~EndQueued(r)'
        BY <1>8, <3>1 DEF EndQueued
      <4>2. EndSent(r, c)' => c \in Audience
        BY <1>3, <1>10, <3>1 DEF EndSent
      <4>3. r \in missed'[c] => c \notin Audience
        BY <1>3, <1>7, <2>1, <3>1 DEF InOnePlace
      <4>4. at[r] = "done"
        BY <1>7, <3>1, EndsOfRunsThatAreDone
      <4>5. ~EndSpawned(r) /\ r \notin seenEnd[c]
        BY <1>7, <2>1, <3>1 DEF InOnePlace
      <4> QED
        BY <1>1, <1>4, <2>2, <4>1, <4>2, <4>3, <4>4, <4>5 DEF InOnePlace
    <3>2. CASE ~(e.run = r /\ e.kind = "end")
      <4>1. EndSent(r, c)' => EndSent(r, c)
        BY <1>3, <3>2 DEF EndSent
      <4>2. r \in missed'[c] => r \in missed[c]
        BY <1>3, <3>2
      <4> QED
        BY <1>1, <1>4, <2>1, <2>2, <2>3, <4>1, <4>2 DEF InOnePlace
    <3> QED
      BY <3>1, <3>2
  <2>5. Silent(r, c)'
    <3> SUFFICES ASSUME r \notin strayed, r \in seenEnd[c] \/ r \in missed'[c]
                 PROVE  /\ \A i \in 1 .. Len(queue') : queue'[i].run # r
                        /\ \A s \in sends' : s.to = c => s.event.run # r
      BY <1>4 DEF Silent
    <3>1. CASE r \in seenEnd[c] \/ r \in missed[c]
      <4>1. \A i \in 1 .. Len(queue) : queue[i].run # r
        BY <2>1, <3>1 DEF Silent
      <4>2. e.run # r
        BY <1>6, <4>1 DEF e
      <4> QED
        BY <1>3, <1>4, <1>5, <4>1, <4>2
    <3>2. CASE r \notin missed[c] /\ r \in missed'[c]
      <4>1. e.run = r /\ e.kind = "end" /\ c \notin Audience
        BY <1>3, <3>2
      <4> QED
        BY <1>3, <1>4, <1>8, <4>1
    <3> QED
      BY <3>1, <3>2
  <2> QED
    BY <2>4, <2>5
<1> QED
  BY <1>9, <1>11, <1>12 DEF EndInv

\* A task of its own sends an end that is nowhere else.
LEMMA OwnEnds ==
    ASSUME BrokerInv, RunTypeOK, EndInv, NEW e \in spawned, BeginOwn(e), UNCHANGED runVars
    PROVE  EndInv'
<1>1. /\ BrokerTypeOK /\ PipeInv /\ at' = at /\ emitted' = emitted
      /\ spawned \subseteq Event /\ e.run \in strayed /\ e.run \in Runs
  BY DEF BrokerInv, BrokerTypeOK, runVars, PipeInv, Apart, Event
<1>2. /\ \A s \in sends' : s \in sends \/ (s.event = e /\ s.own = TRUE /\ s.to \in Audience)
      /\ \A s, x \in sends' : s \notin sends /\ x \notin sends /\ s.to = x.to => s = x
      /\ \A c \in Clients :
             missed'[c] = IF e.kind = "end" /\ c \notin Audience
                          THEN missed[c] \cup {e.run} ELSE missed[c]
  BY <1>1, WhoIsSent DEF BeginOwn
<1>3. /\ spawned' = spawned \ {e} /\ queue' = queue
      /\ seenEnd' = seenEnd /\ strayed' = strayed
  BY DEF BeginOwn
<1>4. e.kind = "end" => EndSpawned(e.run) /\ \A c \in Clients : ~EndSent(e.run, c)
  <2>1. e.kind = "end" => EndSpawned(e.run)
    BY DEF EndSpawned
  <2> QED
    BY <1>1, <2>1 DEF EndInv, InOnePlace
<1>5. e.kind = "end" => ~EndSpawned(e.run)'
  <2> SUFFICES ASSUME e.kind = "end", NEW x \in spawned, x.run = e.run, x.kind = "end"
               PROVE  x = e
    BY <1>3 DEF EndSpawned
  <2>1. x.n = emitted[x.run] /\ e.n = emitted[e.run]
    BY DEF EndInv, AllLast, Last
  <2>2. x \in Event /\ e \in Event
    BY <1>1
  <2> QED
    BY <2>1, <2>2 DEF Event
<1>6. AllLast'
  BY <1>1, <1>2, <1>3 DEF EndInv, AllLast, Last
<1>7. SentOnce'
  <2> SUFFICES ASSUME NEW s \in sends', NEW x \in sends', s.to = x.to,
                      s.event.run = x.event.run, s.event.kind = "end", x.event.kind = "end"
               PROVE  s = x
    BY DEF SentOnce
  <2>1. \A y \in sends : y.to \in Clients
    BY <1>1 DEF BrokerTypeOK, Send
  <2>2. CASE s \in sends /\ x \in sends
    BY <2>2 DEF EndInv, SentOnce
  <2>3. CASE s \in sends /\ x \notin sends
    BY <1>2, <1>4, <2>1, <2>3 DEF EndSent
  <2>4. CASE s \notin sends /\ x \in sends
    BY <1>2, <1>4, <2>1, <2>4 DEF EndSent
  <2>5. CASE s \notin sends /\ x \notin sends
    BY <1>2, <2>5
  <2> QED
    BY <2>2, <2>3, <2>4, <2>5
<1>8. ASSUME NEW r \in Runs, NEW c \in Clients
      PROVE  InOnePlace(r, c)' /\ Silent(r, c)'
  <2>1. InOnePlace(r, c) /\ Silent(r, c)
    BY DEF EndInv
  <2>2. EndQueued(r)' <=> EndQueued(r)
    BY <1>3 DEF EndQueued
  <2>3. InOnePlace(r, c)'
    <3>1. CASE e.run = r /\ e.kind = "end"
      <4>1. EndSent(r, c)' => c \in Audience
        BY <1>2, <1>4, <3>1 DEF EndSent
      <4>2. r \in missed'[c] => c \notin Audience
        BY <1>2, <1>4, <2>1, <3>1 DEF InOnePlace
      <4>3. at[r] = "done"
        BY <1>4, <3>1, EndsOfRunsThatAreDone
      <4>4. ~EndQueued(r) /\ r \notin seenEnd[c] /\ ~EndSpawned(r)'
        BY <1>4, <1>5, <2>1, <3>1 DEF InOnePlace
      <4> QED
        BY <1>1, <1>3, <2>2, <4>1, <4>2, <4>3, <4>4 DEF InOnePlace
    <3>2. CASE ~(e.run = r /\ e.kind = "end")
      <4>1. EndSent(r, c)' => EndSent(r, c)
        BY <1>2, <3>2 DEF EndSent
      <4>2. r \in missed'[c] => r \in missed[c]
        BY <1>2, <3>2
      <4>3. EndSpawned(r)' => EndSpawned(r)
        BY <1>3 DEF EndSpawned
      <4> QED
        BY <1>1, <1>3, <2>1, <2>2, <4>1, <4>2, <4>3 DEF InOnePlace
    <3> QED
      BY <3>1, <3>2
  <2>4. Silent(r, c)'
    BY <1>1, <1>2, <1>3, <2>1 DEF Silent
  <2> QED
    BY <2>3, <2>4
<1> QED
  BY <1>6, <1>7, <1>8 DEF EndInv

\* A send is over: the client has got the end, and no other send has one for it.
LEMMA SendEnds ==
    ASSUME BrokerInv, RunTypeOK, EndInv, NEW s \in sends, Deliver(s) \/ TimeOut(s),
           UNCHANGED runVars
    PROVE  EndInv'
<1>1. /\ BrokerTypeOK /\ PipeInv /\ at' = at /\ emitted' = emitted
      /\ sends' = sends \ {s}
      /\ UNCHANGED <<queue, spawned, missed, strayed>>
      /\ s.to \in Clients /\ s.event \in Event /\ s.event.run \in Runs
      /\ s.event.n \in Nat
  BY DEF BrokerInv, BrokerTypeOK, runVars, Deliver, TimeOut, Send, Event
<1>2. \A c \in Clients : \A r \in seenEnd'[c] :
          r \in seenEnd[c] \/ (c = s.to /\ r = s.event.run /\ s.event.kind = "end")
  BY <1>1 DEF Deliver, TimeOut, BrokerTypeOK
<1>3. AllLast' /\ SentOnce'
  BY <1>1 DEF EndInv, AllLast, Last, SentOnce
<1>4. ASSUME NEW r \in Runs, NEW c \in Clients
      PROVE  InOnePlace(r, c)' /\ Silent(r, c)'
  <2>1. InOnePlace(r, c) /\ Silent(r, c)
    BY DEF EndInv
  <2>2. /\ EndQueued(r)' <=> EndQueued(r)
        /\ EndSpawned(r)' <=> EndSpawned(r)
        /\ EndSent(r, c)' => EndSent(r, c)
    BY <1>1 DEF EndQueued, EndSpawned, EndSent
  <2>3. CASE c = s.to /\ r = s.event.run /\ s.event.kind = "end"
    <3>1. EndSent(r, c)
      BY <2>3 DEF EndSent
    <3>2. /\ ~EndQueued(r) /\ ~EndSpawned(r) /\ r \notin seenEnd[c] /\ r \notin missed[c]
          /\ at[r] = "done"
      BY <2>1, <3>1, EndsOfRunsThatAreDone DEF InOnePlace
    <3>3. ~EndSent(r, c)'
      BY <1>1, <2>3 DEF EndSent, EndInv, SentOnce
    <3>4. InOnePlace(r, c)'
      BY <1>1, <2>2, <3>2, <3>3 DEF InOnePlace
    <3>5. ASSUME r \notin strayed
          PROVE  /\ \A i \in 1 .. Len(queue) : queue[i].run # r
                 /\ \A x \in sends' : x.to = c => x.event.run # r
      <4>1. ~s.own /\ Behind
        BY <1>1, <2>3, <3>5 DEF PipeInv, Apart
      <4>2. s.event.n = emitted[r] /\ emitted[r] \in Nat
        BY <2>3 DEF EndInv, AllLast, Last, RunTypeOK
      <4>3. ASSUME NEW i \in 1 .. Len(queue) PROVE queue[i].run # r
        <5>1. queue[i].n \in 1 .. emitted[queue[i].run]
          BY <1>1 DEF PipeInv, Published
        <5> QED
          BY <2>3, <4>1, <4>2, <5>1 DEF Behind
      <4>4. ASSUME NEW x \in sends', x.to = c PROVE x.event.run # r
        BY <1>1, <2>3, <3>3, <3>5, <4>1, <4>4 DEF PipeInv, Apart, Behind, EndSent
      <4> QED
        BY <4>3, <4>4
    <3> QED
      BY <1>1, <3>4, <3>5 DEF Silent
  <2>4. CASE ~(c = s.to /\ r = s.event.run /\ s.event.kind = "end")
    <3>1. r \in seenEnd'[c] => r \in seenEnd[c]
      BY <1>2, <2>4
    <3> QED
      BY <1>1, <2>1, <2>2, <3>1 DEF InOnePlace, Silent
  <2> QED
    BY <2>3, <2>4
<1> QED
  BY <1>3, <1>4 DEF EndInv

LEMMA EndInvariance == Spec => []EndInv
<1>1. Init => EndInv
  BY DEF Init, BrokerInit, EndInv, AllLast, SentOnce, InOnePlace, Silent, EndQueued,
         EndSpawned, EndSent
<1>2. IInv /\ EndInv /\ [Next]_vars => EndInv'
  <2> SUFFICES ASSUME IInv, EndInv, [Next]_vars PROVE EndInv'
    OBVIOUS
  <2>1. BrokerInv /\ RunTypeOK
    BY DEF IInv
  <2>2. ASSUME NEW r \in Runs, RunStep(r) PROVE EndInv'
    BY <2>1, <2>2, PublishesOrNot, PublishEnds, QuietEnds DEF KeepsQuiet, Quiet
  <2>3. CASE BrokerStep /\ UNCHANGED runVars
    BY <2>1, <2>3, PopEnds, OwnEnds, SendEnds DEF BrokerStep
  <2>4. CASE ClientStep /\ UNCHANGED runVars
    <3>1. /\ UNCHANGED <<queue, spawned, sends, seenEnd, missed, strayed>>
          /\ at' = at /\ emitted' = emitted
      BY <2>4 DEF ClientStep, Read, Fill, SwitchChat, runVars
    <3> QED
      BY <3>1 DEF EndInv, AllLast, Last, SentOnce, InOnePlace, Silent, EndQueued,
             EndSpawned, EndSent
  <2>5. CASE UNCHANGED vars
    BY <2>5, QuietEnds DEF vars, runVars
  <2> QED
    BY <2>2, <2>3, <2>4, <2>5 DEF Next
<1> QED
  BY <1>1, <1>2, Invariance, PTL DEF Spec

\* A client gets the end of a run at most once, whichever way it took; and of a run
\* none of whose events overflowed it gets nothing afterwards.
THEOREM TheEndIsLast == Spec => []NothingAfterTheEnd
<1>1. IInv /\ EndInv => NothingAfterTheEnd
  <2> SUFFICES ASSUME IInv, EndInv, NEW r \in Runs, NEW c \in Clients
               PROVE  /\ r \notin seenEnd[c] \cap missed[c]
                      /\ r \in seenEnd[c] \cup missed[c] =>
                             \A e \in Pending \cup {s.event : s \in {x \in sends : x.to = c}} :
                                 e.run = r => e.kind # "end" /\ r \in strayed
    BY DEF NothingAfterTheEnd
  <2>1. InOnePlace(r, c) /\ Silent(r, c)
    BY DEF EndInv
  <2>2. /\ DOMAIN queue = 1 .. Len(queue) /\ Apart
    BY DEF IInv, BrokerInv, BrokerTypeOK, PipeInv
  <2>3. ASSUME r \in seenEnd[c] \/ r \in missed[c],
               NEW e \in Pending \cup {s.event : s \in {x \in sends : x.to = c}}, e.run = r
        PROVE  e.kind # "end" /\ r \in strayed
    <3>1. ~EndQueued(r) /\ ~EndSpawned(r) /\ ~EndSent(r, c)
      BY <2>1, <2>3 DEF InOnePlace
    <3>2. CASE e \in spawned
      BY <2>2, <2>3, <3>1, <3>2 DEF Apart, EndSpawned
    <3>3. CASE \E i \in 1 .. Len(queue) : e = queue[i]
      BY <2>1, <2>3, <3>1, <3>3 DEF Silent, EndQueued
    <3>4. CASE \E s \in sends : s.to = c /\ e = s.event
      BY <2>1, <2>3, <3>1, <3>4 DEF Silent, EndSent
    <3> QED
      BY <2>2, <2>3, <3>2, <3>3, <3>4 DEF Pending
  <2> QED
    BY <2>1, <2>3 DEF InOnePlace
<1> QED
  BY <1>1, EndInvariance, Invariance, PTL

-----------------------------------------------------------------------------
(* A run goes forward.                                                     *)

Age(place) ==
    CASE place = "new" -> 0 [] place \in {"begin", "work"} -> 1 [] place = "report" -> 2
      [] place = "finish" -> 3 [] place \in {"done", "failed", "dropped"} -> 4

\* The run ages; or it is in a later round, or at a later step, or its step has
\* begun, or one of the steps that are under way together has come back.
Forward(r) ==
    \/ Age(at[r]) < Age(at'[r])
    \/ /\ Age(at[r]) \in {1, 2} /\ Age(at'[r]) = Age(at[r])
       /\ \/ round[r] < round'[r]
          \/ round'[r] = round[r] /\ step[r] < step'[r]
          \/ /\ round'[r] = round[r] /\ step'[r] = step[r]
             /\ \/ at[r] = "begin" /\ at'[r] = "work"
                \/ /\ at[r] = "work" /\ at'[r] = "work"
                   /\ \E i \in UnderWay(r) : UnderWay(r)' = UnderWay(r) \ {i}

\* No step takes a run back: with bounded rounds it makes finitely many steps, in
\* whatever order the parts of a parallel run come back.
RunsGoForward ==
    [][\A r \in Runs :
           <<at[r], round[r], step[r], result[r]>>' # <<at[r], round[r], step[r], result[r]>>
               => Forward(r)]_vars

LEMMA StepForward ==
    ASSUME IInv, NEW r \in Runs, RunStep(r)
    PROVE  Forward(r)
<1>1. /\ at \in [Runs -> Places] /\ step \in [Runs -> Nat] /\ round \in [Runs -> 1 .. MaxRounds]
      /\ MaxRounds \in Nat /\ size[r] \in Nat /\ DOMAIN result = Runs
      /\ result[r] \in [1 .. size[r] -> Outputs \cup {"none"}]
      /\ at[r] \notin Over => step[r] \in 1 .. size[r]
  BY SomeSteps DEF IInv, RunTypeOK, Shape, FlowInv
<1> USE DEF Forward, Age
<1>2. CASE \E w \in Workflows[r] : \E v \in 0 .. w.size : Start(r, w, v)
  BY <1>1, <1>2 DEF Start, GoTo
<1>3. CASE \E w \in Workflows[r] : StartInVain(r, w)
  BY <1>1, <1>3 DEF StartInVain, GoTo
<1>4. CASE BeginStep(r)
  BY <1>1, <1>4 DEF BeginStep, GoTo
<1>5. CASE Launch(r)
  BY <1>1, <1>5 DEF Launch, GoTo
<1>6. CASE Report(r)
  BY <1>1, <1>6 DEF Report, GoTo
<1>7. CASE Finish(r)
  BY <1>1, <1>7 DEF Finish, Leave, GoTo
<1>8. CASE Drop(r)
  BY <1>1, <1>8 DEF Drop, Leave, GoTo
<1>9. CASE \E output \in Outputs : EndStep(r, output)
  BY <1>1, <1>9 DEF EndStep, GoOn, Proceed, NextStep, NextRound, End, GoTo
<1>10. ASSUME NEW i \in Steps(r), NEW output \in Outputs, EndPart(r, i, output)
       PROVE  Forward(r)
  <2>1. at[r] = "work" /\ i \in UnderWay(r) /\ output # "none" /\ round' = round
        /\ result' = [result EXCEPT ![r] = [@ EXCEPT ![i] = output]]
    BY <1>10 DEF EndPart
  <2>2. CASE UnderWay(r) # {i}
    <3>1. at' = at /\ step' = step
      BY <1>10, <2>2 DEF EndPart
    <3>2. /\ result'[r] = [result[r] EXCEPT ![i] = output] /\ i \in 1 .. size[r]
          /\ 1 .. step[r] \subseteq 1 .. size[r]
      BY <1>1, <2>1 DEF Over, Steps
    <3>3. \A j \in 1 .. step[r] : result'[r][j] = IF j = i THEN output ELSE result[r][j]
      BY <1>1, <3>2
    <3>4. UnderWay(r)' = UnderWay(r) \ {i}
      BY <2>1, <3>1, <3>3 DEF UnderWay
    <3> QED
      BY <2>1, <3>1, <3>4
  <2>3. CASE UnderWay(r) = {i}
    BY <1>1, <1>10, <2>1, <2>3 DEF EndPart, GoTo
  <2> QED
    BY <2>2, <2>3
<1> QED
  BY <1>2, <1>3, <1>4, <1>5, <1>6, <1>7, <1>8, <1>9, <1>10 DEF RunStep

\* No step takes a run back: it ages, enters a later round, reaches a later step, or
\* one more part of a parallel run has come back.
THEOREM RunsAdvance == Spec => RunsGoForward
<1>1. ASSUME IInv, Next, NEW r \in Runs,
             <<at[r], round[r], step[r], result[r]>>' # <<at[r], round[r], step[r], result[r]>>
      PROVE  Forward(r)
  <2>1. ASSUME NEW q \in Runs, RunStep(q) PROVE Forward(r)
    <3>1. q = r
      BY <1>1, <2>1, OtherRuns DEF Same
    <3> QED
      BY <1>1, <2>1, <3>1, StepForward
  <2>2. ~UNCHANGED runVars
    BY <1>1 DEF runVars
  <2> QED
    BY <1>1, <2>1, <2>2 DEF Next
<1>2. IInv /\ [Next]_vars =>
          [\A r \in Runs :
               <<at[r], round[r], step[r], result[r]>>'
                       # <<at[r], round[r], step[r], result[r]>> => Forward(r)]_vars
  BY <1>1
<1> QED
  BY <1>2, Invariance, PTL DEF Spec, RunsGoForward
=============================================================================
