----------------------------- MODULE EventBroker -----------------------------
(***************************************************************************)
(* The broker of orchestration events: a bounded queue in the process of   *)
(* the gateway, one task that delivers from it to the clients who look at  *)
(* the chat, and tasks of their own for critical events that find no room. *)
(* Who publishes is defined in the modules that extend this one.           *)
(***************************************************************************)
EXTENDS Naturals, Sequences, FiniteSets

CONSTANTS
    Clients,
    Runs,
    Capacity,   \* ORCHESTRATION_EVENT_QUEUE_CAPACITY, 1024
    Room        \* capacity of the channel of a client, 100

ASSUME SomeRoom == Capacity \in Nat \ {0} /\ Room \in Nat

VARIABLES
    queue,      \* the queue of the broker
    spawned,    \* events whose own task has not begun yet
    sends,      \* sends under way, by the broker and by tasks of their own
    listed,     \* the clients with a sender
    here,       \* the clients whose current chat is that of the runs
    free,       \* free places in the channel of a client
    seenEnd,    \* history: the runs whose end was delivered to a client
    missed,     \* history: the runs whose end was not sent to a client
    strayed     \* history: the runs of which an event left the queue's order

brokerVars == <<queue, spawned, sends, listed, here, free, seenEnd, missed, strayed>>

\* The n-th event of a run.
Event == [run : Runs, kind : {"start", "step", "end"}, n : Nat]

Send == [event : Event, to : Clients, own : BOOLEAN]

BrokerInit ==
    /\ queue = <<>>
    /\ spawned = {}
    /\ sends = {}
    /\ listed = Clients
    /\ here = Clients
    /\ free = [c \in Clients |-> Room]
    /\ seenEnd = [c \in Clients |-> {}]
    /\ missed = [c \in Clients |-> {}]
    /\ strayed = {}

-----------------------------------------------------------------------------
(* enqueue_orchestration_event: events of steps give way to the starts and *)
(* ends of runs, starts give way to ends, and an end is never given up.    *)

\* Mutant: the queue takes one event more than its capacity.
FullLate == Len(queue) > Capacity

Full == Len(queue) >= Capacity

StepsQueued == {i \in DOMAIN queue : queue[i].kind = "step"}
StartsQueued == {i \in DOMAIN queue : queue[i].kind = "start"}
QueuedOf(r) == {i \in DOMAIN queue : queue[i].run = r}

IsFirst(i, S) == i \in S /\ \A j \in S : i <= j

Without(k) == SubSeq(queue, 1, k - 1) \o SubSeq(queue, k + 1, Len(queue))

PushBack(e) == ~Full /\ queue' = Append(queue, e) /\ UNCHANGED spawned

\* A step that finds no room is dropped; so is a start, of a run that is there.
GiveUp(e) ==
    /\ Full
    /\ e.kind = "step" \/ (e.kind = "start" /\ StepsQueued = {} /\ QueuedOf(e.run) # {})
    /\ UNCHANGED <<queue, spawned>>

EvictStep(e) ==
    /\ Full /\ e.kind # "step"
    /\ \E i \in StepsQueued :
          IsFirst(i, StepsQueued) /\ queue' = Append(Without(i), e)
    /\ UNCHANGED spawned

\* The end of a run takes the place of what is queued of it.
ReplaceOwn(e) ==
    /\ Full /\ e.kind = "end" /\ StepsQueued = {}
    /\ \E i \in QueuedOf(e.run) :
          IsFirst(i, QueuedOf(e.run)) /\ queue' = [queue EXCEPT ![i] = e]
    /\ UNCHANGED spawned

EvictStart(e) ==
    /\ Full /\ e.kind = "end" /\ StepsQueued = {} /\ QueuedOf(e.run) = {}
    /\ \E i \in StartsQueued :
          IsFirst(i, StartsQueued) /\ queue' = Append(Without(i), e)
    /\ UNCHANGED spawned

\* Mutant: an end that finds only ends in the queue is dropped.
OverflowStarts(e) ==
    /\ Full /\ e.kind # "step" /\ StepsQueued = {} /\ QueuedOf(e.run) = {}
    /\ e.kind = "end" => StartsQueued = {}
    /\ spawned' = IF e.kind = "start" THEN spawned \cup {e} ELSE spawned
    /\ UNCHANGED queue

\* A task of its own sends the event.
Overflow(e) ==
    /\ Full /\ e.kind # "step" /\ StepsQueued = {} /\ QueuedOf(e.run) = {}
    /\ e.kind = "end" => StartsQueued = {}
    /\ spawned' = spawned \cup {e}
    /\ UNCHANGED queue

\* publish_orchestration_event.
Publish(e) ==
    /\ \/ PushBack(e) \/ GiveUp(e) \/ EvictStep(e)
       \/ ReplaceOwn(e) \/ EvictStart(e) \/ Overflow(e)
    /\ strayed' = IF e \in spawned' THEN strayed \cup {e.run} ELSE strayed
    /\ UNCHANGED <<sends, listed, here, free, seenEnd, missed>>

-----------------------------------------------------------------------------
(* Delivery: publish_ws_event_with_timeout sends to each listed client of  *)
(* the chat, and goes on when all sends are over.                          *)

Audience == listed \cap here

SendToAll(e, own) ==
    /\ sends' = sends \cup {[event |-> e, to |-> c, own |-> own] : c \in Audience}
    /\ missed' = IF e.kind = "end"
                 THEN [c \in Clients |-> IF c \in Audience THEN missed[c]
                                         ELSE missed[c] \cup {e.run}]
                 ELSE missed

\* Mutant: the broker does not wait for the sends of the event before.
PopAtOnce ==
    /\ queue # <<>>
    /\ SendToAll(Head(queue), FALSE)
    /\ queue' = Tail(queue)
    /\ UNCHANGED <<spawned, listed, here, free, seenEnd, strayed>>

\* The broker's loop takes the next event.
Pop ==
    /\ queue # <<>> /\ \A s \in sends : s.own
    /\ SendToAll(Head(queue), FALSE)
    /\ queue' = Tail(queue)
    /\ UNCHANGED <<spawned, listed, here, free, seenEnd, strayed>>

\* The task of an event that overflowed begins.
BeginOwn(e) ==
    /\ e \in spawned
    /\ SendToAll(e, TRUE)
    /\ spawned' = spawned \ {e}
    /\ UNCHANGED <<queue, listed, here, free, seenEnd, strayed>>

\* A send finds room in the channel of the client.
Deliver(s) ==
    /\ s \in sends /\ free[s.to] > 0
    /\ sends' = sends \ {s}
    /\ free' = [free EXCEPT ![s.to] = @ - 1]
    /\ seenEnd' = IF s.event.kind = "end"
                  THEN [seenEnd EXCEPT ![s.to] = @ \cup {s.event.run}] ELSE seenEnd
    /\ UNCHANGED <<queue, spawned, listed, here, missed, strayed>>

\* Mutant: a send waits for room for as long as it takes.
WaitForRoom(s) ==
    /\ s \in sends /\ free[s.to] = 0 /\ s.to \notin listed
    /\ sends' = sends \ {s}
    /\ UNCHANGED <<queue, spawned, listed, here, free, seenEnd, missed, strayed>>

\* It finds none within 500 ms, or the channel is closed, which is as good as one
\* that is full and stays so: the client is no longer listed.
TimeOut(s) ==
    /\ s \in sends /\ free[s.to] = 0
    /\ sends' = sends \ {s}
    /\ listed' = listed \ {s.to}
    /\ UNCHANGED <<queue, spawned, here, free, seenEnd, missed, strayed>>

\* Other events for the client take a place in its channel: of publish_ws_event,
\* and the answers of its own socket task.
Fill(c) ==
    /\ free[c] > 0
    /\ free' = [free EXCEPT ![c] = @ - 1]
    /\ UNCHANGED <<queue, spawned, sends, listed, here, seenEnd, missed, strayed>>

\* The client's writer takes an event out of its channel.
Read(c) ==
    /\ free[c] < Room
    /\ free' = [free EXCEPT ![c] = @ + 1]
    /\ UNCHANGED <<queue, spawned, sends, listed, here, seenEnd, missed, strayed>>

\* A frame of the client names another chat, or this one again.
SwitchChat(c) ==
    /\ here' = IF c \in here THEN here \ {c} ELSE here \cup {c}
    /\ UNCHANGED <<queue, spawned, sends, listed, free, seenEnd, missed, strayed>>

\* The events that no send has begun for.
Pending == spawned \cup {queue[i] : i \in DOMAIN queue}

BrokerStep ==
    \/ Pop
    \/ \E e \in spawned : BeginOwn(e)
    \/ \E s \in sends : Deliver(s) \/ TimeOut(s)

ClientStep == \E c \in Clients : Read(c) \/ Fill(c) \/ SwitchChat(c)

\* The tasks of the broker are run; a client need not read.
BrokerFairness == WF_brokerVars(BrokerStep)

BrokerTypeOK ==
    /\ queue \in Seq(Event) /\ Len(queue) <= Capacity
    /\ spawned \subseteq Event
    /\ sends \subseteq Send
    /\ listed \subseteq Clients
    /\ here \subseteq Clients
    /\ free \in [Clients -> 0 .. Room]
    /\ seenEnd \in [Clients -> SUBSET Runs]
    /\ missed \in [Clients -> SUBSET Runs]
    /\ strayed \subseteq Runs
=============================================================================
