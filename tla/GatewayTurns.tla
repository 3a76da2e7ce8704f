---------------------------- MODULE GatewayTurns ----------------------------
(***************************************************************************)
(* Turns of WebSocket clients: the registry of active turns, their         *)
(* cancellation tokens, the approvals a turn asks of its client, and the   *)
(* cleanup when a client disconnects.                                      *)
(*                                                                         *)
(* A client's socket task handles one frame after the other: a message     *)
(* starts a turn, a stop cancels one, an answer settles an approval.  Each *)
(* turn is a task of its own.  Tasks meet in maps behind mutexes (a step   *)
(* each), in the tokens (a flag and its waiters) and in the session of     *)
(* their chat, which one turn at a time has.                               *)
(***************************************************************************)
EXTENDS Naturals, FiniteSets

CONSTANTS
    Clients,
    Chats,
    Turns,          \* the turn ids that are given out
    None,           \* no client, no chat, no turn
    Permits,        \* MAX_CONCURRENT_WS_CLIENT_TURNS
    MaxIterations,  \* bound: model calls of a turn (max_tool_iterations)
    MaxCalls        \* bound: tool calls in one answer of the model

ASSUME NoneIsNone == None \notin Clients \cup Chats \cup Turns
ASSUME BoundsAreNaturals ==
    Permits \in Nat /\ MaxIterations \in Nat /\ MaxCalls \in Nat

VARIABLES
    socket,     \* where the socket task of a client is; "open" between two frames
    pass,       \* which of the two cleanups of a client is under way
    senders,    \* the clients that publishers can reach
    stalled,    \* the clients that do not read and whose channel is full
    removed,    \* turns a socket task took out of the registry, not yet cancelled
    pc,         \* where a turn is
    owner,      \* the client of a turn
    chat,       \* the chat of a turn
    left,       \* iterations a turn may still make
    calls,      \* tool calls of the last answer that are still to be made
    work,       \* what a turn calls: the model or a tool
    active,     \* the registry of active turns
    token,      \* the turns whose flag is set
    waiter,     \* a turn's place among the waiters of its token
    permits,    \* the turns that hold a permit
    session,    \* the turn that has the session of a chat
    approvals,  \* the registry of approvals, a turn has one at a time
    verdict,    \* what the channel of a turn's approval holds
    told,       \* history: the answer to a turn's approval reported as accepted
    late        \* history: calls a turn began after its flag was set

clientVars == <<socket, pass, removed>>
netVars == <<senders, stalled>>
turnVars == <<owner, chat, left, calls, work>>
tokenVars == <<token, waiter, late>>
approvalVars == <<approvals, verdict, told>>
vars == <<clientVars, netVars, pc, turnVars, active, tokenVars, permits, session,
          approvalVars>>

Phases == {"open", "turns", "tokens", "sender", "gone"}

Places == {"new", "spawned", "waiting", "iterate", "arm", "busy", "calls",
           "guards", "deliver", "await", "failed", "expired", "unlock", "ending", "done"}

\* A turn whose task exists.
Live(t) == pc[t] \notin {"new", "done"}

\* The socket task has nothing at hand but the next frame.
Idle(c) == socket[c] = "open" /\ removed[c] = {}

\* It answers each frame, which it cannot while the client's channel is full.
Ready(c) == Idle(c) /\ c \notin stalled

Init ==
    /\ socket = [c \in Clients |-> "open"]
    /\ pass = [c \in Clients |-> 1]
    /\ senders = Clients
    /\ stalled = {}
    /\ removed = [c \in Clients |-> {}]
    /\ pc = [t \in Turns |-> "new"]
    /\ owner = [t \in Turns |-> None]
    /\ chat = [t \in Turns |-> None]
    /\ left = [t \in Turns |-> 0]
    /\ calls = [t \in Turns |-> 0]
    /\ work = [t \in Turns |-> "model"]
    /\ active = {}
    /\ token = {}
    /\ waiter = [t \in Turns |-> "none"]
    /\ permits = {}
    /\ session = [h \in Chats |-> None]
    /\ approvals = {}
    /\ verdict = [t \in Turns |-> "none"]
    /\ told = [t \in Turns |-> "none"]
    /\ late = [t \in Turns |-> 0]

-----------------------------------------------------------------------------
(* Frames of a client.                                                     *)

\* The id of a new turn, a UUID: which one it is makes no difference.
NewId == CHOOSE t \in Turns : pc[t] = "new"

\* A message: the turn is registered, announced, and its task spawned.
Message(c, h, t) ==
    /\ Ready(c) /\ pc[t] = "new" /\ t = NewId
    /\ pc' = [pc EXCEPT ![t] = "spawned"]
    /\ owner' = [owner EXCEPT ![t] = c]
    /\ chat' = [chat EXCEPT ![t] = h]
    /\ active' = active \cup {t}
    /\ UNCHANGED <<clientVars, netVars, left, calls, work, tokenVars, permits, session,
                   approvalVars>>

\* A stop, with or without a turn id: some turn of the client in the chat
\* leaves the registry.  Without one the answer is "idle", and nothing changes.
Stop(c, h, t) ==
    /\ Ready(c)
    /\ t \in active /\ owner[t] = c /\ chat[t] = h
    /\ active' = active \ {t}
    /\ removed' = [removed EXCEPT ![c] = {t}]
    /\ UNCHANGED <<socket, pass, netVars, pc, turnVars, tokenVars, permits,
                   session, approvalVars>>

\* The token of a turn that is over does nothing any more.  Otherwise
\* CancellationToken::cancel sets the flag and wakes who is registered as a
\* waiter.  A call that registers between the two is woken like one that had
\* registered before, which is why they are one step.
Cancel(c, t) ==
    /\ t \in removed[c]
    /\ removed' = [removed EXCEPT ![c] = @ \ {t}]
    /\ token' = IF pc[t] = "done" THEN token ELSE token \cup {t}
    /\ waiter' = [waiter EXCEPT ![t] = IF @ = "armed" THEN "woken" ELSE @]
    /\ UNCHANGED <<socket, pass, netVars, pc, turnVars, active, late, permits, session,
                   approvalVars>>

\* A security_response to a request the client has been sent.  It is accepted
\* when the request is registered for this client and chat, also when nobody
\* receives the answer any more; else it is rejected, and nothing changes.
Answer(c, h, t, yes) ==
    /\ Ready(c)
    /\ pc[t] \in {"await", "expired"}
    /\ t \in approvals /\ owner[t] = c /\ chat[t] = h
    /\ approvals' = approvals \ {t}
    /\ verdict' = [verdict EXCEPT ![t] =
                       IF pc[t] = "await" THEN (IF yes THEN "yes" ELSE "no") ELSE @]
    /\ told' = [told EXCEPT ![t] = IF yes THEN "yes" ELSE "no"]
    /\ UNCHANGED <<clientVars, netVars, pc, turnVars, active, tokenVars, permits, session>>

-----------------------------------------------------------------------------
(* The end of a client: unregister_ws_client, at the end of the loop and   *)
(* once more when the guard is dropped.                                    *)

\* The connection breaks or is closed, and nobody waits for the client any more.
Disconnect(c) ==
    /\ Idle(c)
    /\ socket' = [socket EXCEPT ![c] = "turns"]
    /\ stalled' = stalled \ {c}
    /\ UNCHANGED <<pass, removed, senders, pc, turnVars, active, tokenVars,
                   permits, session, approvalVars>>

\* cancel_ws_turns_for_client takes all turns of the client out of the registry.
TakeTurns(c) ==
    LET mine == {t \in active : owner[t] = c} IN
    /\ socket[c] = "turns"
    /\ socket' = [socket EXCEPT ![c] = "tokens"]
    /\ removed' = [removed EXCEPT ![c] = mine]
    /\ active' = active \ mine
    /\ UNCHANGED <<pass, netVars, pc, turnVars, tokenVars, permits, session,
                   approvalVars>>

\* cancel_ws_approvals_for_client, when each of those turns is cancelled.
DenyApprovals(c) ==
    LET mine == {t \in approvals : owner[t] = c} IN
    /\ socket[c] = "tokens" /\ removed[c] = {}
    /\ socket' = [socket EXCEPT ![c] = "sender"]
    /\ approvals' = approvals \ mine
    /\ verdict' = [t \in Turns |->
                       IF t \in mine /\ pc[t] \in {"deliver", "await"} THEN "no"
                       ELSE verdict[t]]
    /\ UNCHANGED <<pass, removed, netVars, pc, turnVars, active, tokenVars,
                   permits, session, told>>

\* Mutant: the cleanup is not repeated.
UnregisterOnce(c) ==
    /\ socket[c] = "sender"
    /\ senders' = senders \ {c}
    /\ socket' = [socket EXCEPT ![c] = "gone"]
    /\ UNCHANGED <<stalled, pass, removed, pc, turnVars, active, tokenVars, permits,
                   session, approvalVars>>

\* The sender and the chat of the client are removed, which ends a cleanup.
Unregister(c) ==
    /\ socket[c] = "sender"
    /\ senders' = senders \ {c}
    /\ socket' = [socket EXCEPT ![c] = IF pass[c] = 1 THEN "turns" ELSE "gone"]
    /\ pass' = [pass EXCEPT ![c] = 2]
    /\ UNCHANGED <<stalled, removed, pc, turnVars, active, tokenVars, permits, session,
                   approvalVars>>

\* A client stops reading until its channel is full, or reads again.
Stall(c) ==
    /\ socket[c] = "open"
    /\ stalled' = IF c \in stalled THEN stalled \ {c} ELSE stalled \cup {c}
    /\ UNCHANGED <<clientVars, senders, pc, turnVars, active, tokenVars, permits,
                   session, approvalVars>>

\* The event broker gives up on a client that has no room for an event within
\* 500 ms: publishers no longer reach it, though its socket stays open.
Demote(c) ==
    /\ c \in senders \cap stalled
    /\ senders' = senders \ {c}
    /\ UNCHANGED <<clientVars, stalled, pc, turnVars, active, tokenVars, permits, session,
                   approvalVars>>

-----------------------------------------------------------------------------
(* A turn.                                                                 *)

Goto(t, place) == pc' = [pc EXCEPT ![t] = place]

\* A seventeenth turn of a client ends at once, with an error.
Admit(t) ==
    /\ pc[t] = "spawned"
    /\ IF Cardinality({u \in permits : owner[u] = owner[t]}) < Permits
       THEN permits' = permits \cup {t} /\ Goto(t, "waiting")
       ELSE UNCHANGED permits /\ Goto(t, "ending")
    /\ UNCHANGED <<clientVars, netVars, turnVars, active, tokenVars, session, approvalVars>>

\* AgentLoop::run has the session of the chat.
Enter(t) ==
    /\ pc[t] = "waiting" /\ session[chat[t]] = None
    /\ session' = [session EXCEPT ![chat[t]] = t]
    /\ left' = [left EXCEPT ![t] = MaxIterations]
    /\ Goto(t, "iterate")
    /\ UNCHANGED <<clientVars, netVars, owner, chat, calls, work, active, tokenVars,
                   permits, approvalVars>>

\* It has the session, waiting for it as long as need be, but then the lock of
\* the session file, or the provider's, is not to be had: the run is over.
EnterFails(t) ==
    /\ pc[t] = "waiting" /\ session[chat[t]] = None
    /\ session' = [session EXCEPT ![chat[t]] = t]
    /\ Goto(t, "unlock")
    /\ UNCHANGED <<clientVars, netVars, turnVars, active, tokenVars, permits, approvalVars>>

\* Where a call that is cancelled or over leaves its turn: without an answer of
\* the model the run is over, after a tool the next call is looked at.
Interrupted(t, kind) ==
    IF kind = "model" THEN Goto(t, "unlock") /\ UNCHANGED <<calls, work>>
    ELSE /\ Goto(t, "calls")
         /\ calls' = [calls EXCEPT ![t] = @ - 1]
         /\ work' = [work EXCEPT ![t] = "model"]

\* A call waits for its result and for a cancellation, and for this first:
\* wait_for_cancellation looks at the flag ...
Begin(t, kind) ==
    IF t \in token THEN Interrupted(t, kind) ELSE Goto(t, "arm") /\ UNCHANGED <<calls, work>>

\* Mutant: the bound on iterations is not looked at.
IterateOn(t) ==
    /\ pc[t] = "iterate"
    /\ Begin(t, "model")
    /\ UNCHANGED <<clientVars, netVars, owner, chat, left, active, tokenVars, permits,
                   session, approvalVars>>

\* The top of the loop of Run, and the call of the model.
Iterate(t) ==
    /\ pc[t] = "iterate"
    /\ IF left[t] = 0 THEN Goto(t, "unlock") /\ UNCHANGED <<calls, work>> ELSE Begin(t, "model")
    /\ UNCHANGED <<clientVars, netVars, owner, chat, left, active, tokenVars, permits,
                   session, approvalVars>>

\* ... and registers as a waiter afterwards.  Then the call begins.
Arm(t) ==
    /\ pc[t] = "arm"
    /\ Goto(t, "busy")
    /\ waiter' = [waiter EXCEPT ![t] = "armed"]
    /\ late' = [late EXCEPT ![t] = IF t \in token /\ @ < 2 THEN @ + 1 ELSE @]
    /\ UNCHANGED <<clientVars, netVars, turnVars, active, token, permits, session,
                   approvalVars>>

\* The call is dropped.  A call of the model hears of the flag in any case: it
\* looks again with each chunk, or waits twice.
CallCancelled(t) ==
    /\ pc[t] = "busy"
    /\ waiter[t] = "woken" \/ (work[t] = "model" /\ t \in token)
    /\ Interrupted(t, work[t])
    /\ waiter' = [waiter EXCEPT ![t] = "none"]
    /\ UNCHANGED <<clientVars, netVars, owner, chat, left, active, token, late,
                   permits, session, approvalVars>>

\* The model answers, with tool calls or without, or fails; the select is
\* biased, so that a cancellation it has heard of comes first.
ModelAnswers(t, n) ==
    /\ pc[t] = "busy" /\ work[t] = "model" /\ waiter[t] # "woken"
    /\ IF n = 0 THEN Goto(t, "unlock") ELSE Goto(t, "calls")
    /\ calls' = [calls EXCEPT ![t] = n]
    /\ waiter' = [waiter EXCEPT ![t] = "none"]
    /\ UNCHANGED <<clientVars, netVars, owner, chat, left, work, active, token, late,
                   permits, session, approvalVars>>

\* A tool ends: by itself, with an error, or by its timeout.  An error that
\* says it was cancelled by the user cancels the turn.
ToolEnds(t) ==
    /\ pc[t] = "busy" /\ work[t] = "tool" /\ waiter[t] # "woken"
    /\ Interrupted(t, work[t])
    /\ waiter' = [waiter EXCEPT ![t] = "none"]
    /\ token' \in {token, token \cup {t}}
    /\ UNCHANGED <<clientVars, netVars, owner, chat, left, active, late, permits,
                   session, approvalVars>>

\* No call is left, or the turn is cancelled: the next iteration, or the end if
\* the loop detection has blocked too many calls.
EndOfCalls(t) ==
    /\ pc[t] = "calls"
    /\ t \in token \/ calls[t] = 0
    /\ calls' = [calls EXCEPT ![t] = 0]
    /\ left' = [left EXCEPT ![t] = @ - 1]
    /\ Goto(t, "iterate") \/ Goto(t, "unlock")
    /\ UNCHANGED <<clientVars, netVars, owner, chat, work, active, tokenVars, permits,
                   session, approvalVars>>

\* Mutant: the loop over the tool calls and the call do not look at the flag.
NextCallUnaware(t) ==
    /\ pc[t] = "calls" /\ calls[t] > 0
    /\ Goto(t, "arm") /\ UNCHANGED calls
    /\ work' = [work EXCEPT ![t] = "tool"]
    /\ UNCHANGED <<clientVars, netVars, owner, chat, left, active, tokenVars, permits,
                   session, approvalVars>>

\* The loop over the tool calls looks at the flag, and takes the next one up.
NextCall(t) ==
    /\ pc[t] = "calls" /\ t \notin token /\ calls[t] > 0
    /\ Goto(t, "guards")
    /\ work' = [work EXCEPT ![t] = "tool"]
    /\ UNCHANGED <<clientVars, netVars, owner, chat, left, calls, active, tokenVars,
                   permits, session, approvalVars>>

\* The call is made, or refused by the guards.
Allow(t) ==
    /\ pc[t] = "guards"
    /\ Begin(t, "tool") \/ Interrupted(t, "tool")
    /\ UNCHANGED <<clientVars, netVars, owner, chat, left, active, tokenVars,
                   permits, session, approvalVars>>

\* It needs an approval: register_ws_approval, with a new request and channel.
\* The flag may have been set, and the client cleaned up, since it was looked at.
Ask(t) ==
    /\ pc[t] = "guards"
    /\ approvals' = approvals \cup {t}
    /\ Goto(t, "deliver")
    /\ UNCHANGED <<clientVars, netVars, turnVars, active, tokenVars, permits, session,
                   verdict, told>>

\* publish_ws_event_to_client: it fails if no sender is listed, if its channel
\* has no room, or if it is closed.
Deliver(t) ==
    /\ pc[t] = "deliver"
    /\ \/ owner[t] \in senders \ stalled /\ Goto(t, "await")
       \/ (owner[t] \notin senders \ stalled \/ socket[owner[t]] # "open")
          /\ Goto(t, "failed")
    /\ UNCHANGED <<clientVars, netVars, turnVars, active, tokenVars, permits, session,
                   approvalVars>>

\* The channel of a request is dropped with the wait for it.
Forget(t) ==
    /\ verdict' = [verdict EXCEPT ![t] = "none"]
    /\ told' = [told EXCEPT ![t] = "none"]

\* Mutant: a request that is cancelled or denied counts as settled.
VerdictAny(t) ==
    /\ pc[t] = "await" /\ verdict[t] # "none"
    /\ Begin(t, "tool") /\ Forget(t)
    /\ UNCHANGED <<clientVars, netVars, owner, chat, left, active, tokenVars,
                   permits, session, approvals>>

\* The channel has an answer.  Also a call that its user approved may still be
\* refused: as superfluous research, as a tool that is not known, by the
\* resource policy, or for want of a process.
Verdict(t) ==
    /\ pc[t] = "await" /\ verdict[t] # "none"
    /\ \/ verdict[t] = "yes" /\ Begin(t, "tool")
       \/ Interrupted(t, "tool")
    /\ Forget(t)
    /\ UNCHANGED <<clientVars, netVars, owner, chat, left, active, tokenVars,
                   permits, session, approvals>>

\* Mutant: an approval has no timeout.
NeverExpire(t) ==
    /\ pc[t] = "await" /\ verdict[t] = "none" /\ owner[t] \notin senders
    /\ Goto(t, "expired")
    /\ UNCHANGED <<clientVars, netVars, turnVars, active, tokenVars, permits, session,
                   approvalVars>>

\* 120 seconds are over and the channel is empty.
Expire(t) ==
    /\ pc[t] = "await" /\ verdict[t] = "none"
    /\ Goto(t, "expired")
    /\ UNCHANGED <<clientVars, netVars, turnVars, active, tokenVars, permits, session,
                   approvalVars>>

\* The request leaves the registry, if it is still there, and the call is denied.
Withdraw(t) ==
    /\ pc[t] \in {"failed", "expired"}
    /\ approvals' = approvals \ {t}
    /\ Interrupted(t, "tool")
    /\ Forget(t)
    /\ UNCHANGED <<clientVars, netVars, owner, chat, left, active, tokenVars,
                   permits, session>>

\* AgentLoop::run returns.
Leave(t) ==
    /\ pc[t] = "unlock"
    /\ session' = [session EXCEPT ![chat[t]] = None]
    /\ left' = [left EXCEPT ![t] = 0]
    /\ late' = [late EXCEPT ![t] = 0]
    /\ Goto(t, "ending")
    /\ UNCHANGED <<clientVars, netVars, owner, chat, calls, work, active, token, waiter,
                   permits, approvalVars>>

\* The end of the turn is sent to the client, as soon as its channel has room;
\* then the task gives its permit back, takes the turn out of the registry
\* (WsTurnGuard) and is over, and what it kept is gone.
End(t) ==
    /\ pc[t] = "ending" /\ owner[t] \notin stalled
    /\ permits' = permits \ {t}
    /\ active' = active \ {t}
    /\ Goto(t, "done")
    /\ owner' = [owner EXCEPT ![t] = None]
    /\ chat' = [chat EXCEPT ![t] = None]
    /\ token' = token \ {t}
    /\ UNCHANGED <<clientVars, netVars, left, calls, work, waiter, late, session,
                   approvalVars>>

-----------------------------------------------------------------------------
Frame(c) ==
    \E t \in Turns, h \in Chats :
        Message(c, h, t) \/ Stop(c, h, t) \/ \E yes \in BOOLEAN : Answer(c, h, t, yes)

Cleanup(c) == TakeTurns(c) \/ DenyApprovals(c) \/ Unregister(c)

Turn(t) ==
    \/ Admit(t) \/ Enter(t) \/ EnterFails(t) \/ Iterate(t)
    \/ Arm(t) \/ CallCancelled(t) \/ ToolEnds(t)
    \/ \E n \in 0 .. MaxCalls : ModelAnswers(t, n)
    \/ EndOfCalls(t) \/ NextCall(t) \/ Allow(t)
    \/ Ask(t) \/ Deliver(t) \/ Verdict(t) \/ Expire(t) \/ Withdraw(t)
    \/ Leave(t) \/ End(t)

Next ==
    \/ \E c \in Clients :
           \/ Frame(c) \/ Disconnect(c) \/ Cleanup(c) \/ Stall(c) \/ Demote(c)
           \/ \E t \in Turns : Cancel(c, t)
    \/ \E t \in Turns : Turn(t)

Spec == Init /\ [][Next]_vars

\* The task of a turn is run, and its calls and approvals have timeouts.  Its
\* wait for the session has none: it goes on only when the turn before it has
\* given the session back.  No client need send anything, stay, or get its
\* cleanup done.
Fairness == \A t \in Turns : WF_vars(Turn(t))

FairSpec == Spec /\ Fairness

-----------------------------------------------------------------------------
TypeOK ==
    /\ socket \in [Clients -> Phases]
    /\ pass \in [Clients -> {1, 2}]
    /\ senders \subseteq Clients /\ stalled \subseteq Clients
    /\ removed \in [Clients -> SUBSET Turns]
    /\ pc \in [Turns -> Places]
    /\ owner \in [Turns -> Clients \cup {None}]
    /\ chat \in [Turns -> Chats \cup {None}]
    /\ left \in [Turns -> 0 .. MaxIterations]
    /\ calls \in [Turns -> 0 .. MaxCalls]
    /\ work \in [Turns -> {"model", "tool"}]
    /\ active \subseteq Turns
    /\ token \subseteq Turns
    /\ waiter \in [Turns -> {"none", "armed", "woken"}]
    /\ permits \subseteq Turns
    /\ session \in [Chats -> Turns \cup {None}]
    /\ approvals \subseteq Turns
    /\ verdict \in [Turns -> {"none", "yes", "no"}]
    /\ told \in [Turns -> {"none", "yes", "no"}]
    /\ late \in [Turns -> 0 .. 2]

\* A client that is gone leaves nothing behind: its turns are out of the
\* registry and cancelled if they still run, and none waits for its answer,
\* not even one that asked while the cleanup was under way.
GoneLeavesNothing ==
    \A t \in Turns :
        (Live(t) /\ socket[owner[t]] = "gone") =>
            /\ t \notin active /\ t \in token
            /\ pc[t] = "await" => verdict[t] # "none"

\* A turn that is stopped, or whose client is gone, begins at most one more
\* call: the one that had looked at the flag when it was set.
StopHolds == \A t \in Turns : late[t] <= 1

\* A call that waits for an approval begins only if its own client's yes was
\* accepted while it waited, and its turn is not cancelled; and a yes that was
\* accepted is what the wait will find: no cleanup, second answer or time-out
\* that comes between takes it back.
AnswerCounts ==
    [][\A t \in Turns : pc[t] = "await" =>
           /\ pc'[t] = "arm" => told[t] = "yes" /\ t \notin token
           /\ told[t] = "yes" => \/ pc'[t] \in {"arm", "calls"}
                                 \/ pc'[t] = "await" /\ verdict'[t] = "yes"]_vars

\* Every turn ends, whatever its client does: it may leave, be too slow to be
\* reached, or never answer.  A client that does not read holds up the very end
\* of its own turns, which have given back the session of their chat by then.
TurnEnds ==
    \A t \in Turns :
        pc[t] = "spawned" ~> \/ pc[t] = "done"
                             \/ pc[t] = "ending" /\ owner[t] \in stalled
=============================================================================
