------------------------ MODULE GatewayTurns_proofs ------------------------
(***************************************************************************)
(* Proofs of the safety properties of GatewayTurns.  The invariant is a    *)
(* conjunction over clients and turns.  A step of a turn disturbs only     *)
(* what is said of this turn (OtherTurns), so that each action is checked  *)
(* for one turn; the steps of a client are checked one by one.             *)
(***************************************************************************)
EXTENDS GatewayTurns, FiniteSetTheorems, TLAPS

Asking == {"deliver", "await", "failed", "expired"}

\* A turn has a client and a chat from its start, and counts what it has begun.
TurnInv(t) ==
    /\ Live(t) => owner[t] \in Clients /\ chat[t] \in Chats
    /\ pc[t] \in {"arm", "busy", "calls", "guards"} \cup Asking => left[t] > 0
    /\ (pc[t] \in {"arm", "busy"} /\ work[t] = "tool") \/ pc[t] \in {"guards"} \cup Asking =>
           calls[t] > 0
    /\ pc[t] \notin {"arm", "busy", "guards"} \cup Asking => work[t] = "model"
    /\ pc[t] \in {"guards"} \cup Asking => work[t] = "tool"

\* A turn is in the registry, or taken out to be cancelled, or cancelled.
ReachInv(t) == Live(t) => t \in active \/ t \in removed[owner[t]] \/ t \in token

\* Only the call that had looked at the flag before it was set begins late, in
\* the run of its turn.
LateInv(t) ==
    /\ late[t] = 0 \/ (late[t] = 1 /\ t \in token /\ pc[t] # "arm")
    /\ pc[t] \in {"new", "spawned", "waiting", "ending", "done"} => late[t] = 0

\* The channel of an approval: empty while the request is registered, and else
\* it has what the client was told, or the no of a cleanup.
AskInv(t) ==
    /\ pc[t] \notin Asking => t \notin approvals /\ verdict[t] = "none" /\ told[t] = "none"
    /\ pc[t] \in {"deliver", "await"} =>
           /\ verdict[t] = "none" <=> t \in approvals
           /\ verdict[t] = "yes" <=> told[t] = "yes"
    /\ t \in approvals => told[t] = "none"

\* After the first cleanup of its client a turn is not in the registry, and no
\* request of it is delivered any more; the second denies the one that was.
CleanInv(t) ==
    Live(t) =>
        /\ (pass[owner[t]] = 2 \/ socket[owner[t]] \in {"tokens", "sender"}) =>
               t \notin active
        /\ (pass[owner[t]] = 2 /\ socket[owner[t]] \in {"sender", "gone"}) =>
               (pc[t] = "await" => verdict[t] # "none")

\* What is said of one turn.
Sound(t) == TurnInv(t) /\ ReachInv(t) /\ LateInv(t) /\ AskInv(t) /\ CleanInv(t)

\* The two cleanups of a client.
ClientInv(c) ==
    /\ socket[c] \in {"turns", "sender", "gone"} => removed[c] = {}
    /\ socket[c] = "open" => pass[c] = 1
    /\ socket[c] = "gone" => pass[c] = 2
    /\ pass[c] = 2 => c \notin senders

IInv ==
    /\ TypeOK
    /\ \A t \in Turns : Sound(t)
    /\ \A c \in Clients : ClientInv(c)

\* What is said of a turn speaks of nothing else than this.
Same(t) ==
    /\ pc'[t] = pc[t] /\ owner'[t] = owner[t] /\ chat'[t] = chat[t]
    /\ left'[t] = left[t] /\ calls'[t] = calls[t] /\ work'[t] = work[t]
    /\ late'[t] = late[t] /\ verdict'[t] = verdict[t] /\ told'[t] = told[t]
    /\ t \in active' <=> t \in active
    /\ t \in token' <=> t \in token
    /\ t \in approvals' <=> t \in approvals

\* A turn of which nothing changes stays sound, if its client's task does not
\* move either.
LEMMA OtherTurns ==
    ASSUME NEW t \in Turns, Sound(t), Same(t), UNCHANGED clientVars
    PROVE  Sound(t)'
BY DEF Sound, Same, TurnInv, ReachInv, LateInv, AskInv, CleanInv, Live, clientVars, Asking

\* The initial state is sound.
LEMMA InitInv == Init => IInv
<1> SUFFICES ASSUME Init PROVE IInv
    OBVIOUS
<1>1. TypeOK
    BY BoundsAreNaturals DEF Init, TypeOK, Phases, Places
<1>2. \A t \in Turns : Sound(t)
    BY DEF Init, Sound, TurnInv, ReachInv, LateInv, AskInv, CleanInv, Live, Asking
<1>3. \A c \in Clients : ClientInv(c)
    BY DEF Init, ClientInv
<1> QED BY <1>1, <1>2, <1>3 DEF IInv

-----------------------------------------------------------------------------
\* A step of a turn keeps the types.
LEMMA TurnTypes ==
    ASSUME IInv, NEW t \in Turns, Turn(t)
    PROVE  TypeOK'
<1> USE BoundsAreNaturals DEF IInv, TypeOK, Places, Live
<1>0. TurnInv(t)
    BY DEF Sound
<1>1. CASE Admit(t)
    BY <1>1 DEF Admit, Goto, clientVars, turnVars, tokenVars, approvalVars, netVars
<1>2. CASE Enter(t)
    BY <1>2, <1>0 DEF Enter, Goto, TurnInv, clientVars, tokenVars, approvalVars, netVars
<1>3. CASE EnterFails(t)
    BY <1>3 DEF EnterFails, Goto, clientVars, turnVars, tokenVars, approvalVars, netVars
<1>4. CASE Iterate(t)
    BY <1>4 DEF Iterate, Begin, Interrupted, Goto, clientVars, tokenVars, approvalVars, netVars
<1>5. CASE Arm(t)
    BY <1>5 DEF Arm, Goto, clientVars, turnVars, approvalVars, netVars
<1>6. CASE CallCancelled(t)
    BY <1>6, <1>0 DEF CallCancelled, Interrupted, Goto, TurnInv, clientVars, approvalVars, netVars
<1>7. CASE ToolEnds(t)
    BY <1>7, <1>0 DEF ToolEnds, Interrupted, Goto, TurnInv, clientVars, approvalVars, netVars
<1>8. CASE \E n \in 0 .. MaxCalls : ModelAnswers(t, n)
    BY <1>8 DEF ModelAnswers, Goto, clientVars, approvalVars, netVars
<1>9. CASE EndOfCalls(t)
    BY <1>9, <1>0 DEF EndOfCalls, Goto, TurnInv, clientVars, tokenVars, approvalVars, netVars
<1>10. CASE NextCall(t)
    BY <1>10 DEF NextCall, Begin, Interrupted, Goto, clientVars, tokenVars, approvalVars, netVars
<1>18. CASE Allow(t)
    BY <1>18, <1>0 DEF Allow, Begin, Interrupted, Goto, TurnInv, clientVars, tokenVars, approvalVars, netVars
<1>11. CASE Ask(t)
    BY <1>11 DEF Ask, Goto, clientVars, turnVars, tokenVars, netVars
<1>12. CASE Deliver(t)
    BY <1>12 DEF Deliver, Goto, clientVars, turnVars, tokenVars, approvalVars, netVars
<1>13. CASE Verdict(t)
    BY <1>13, <1>0 DEF Verdict, Begin, Interrupted, Forget, Goto, TurnInv, Asking,
                       clientVars, tokenVars, netVars
<1>14. CASE Expire(t)
    BY <1>14 DEF Expire, Goto, clientVars, turnVars, tokenVars, approvalVars, netVars
<1>15. CASE Withdraw(t)
    BY <1>15, <1>0 DEF Withdraw, Interrupted, Forget, Goto, TurnInv, Asking, clientVars,
                       tokenVars, netVars
<1>16. CASE Leave(t)
    BY <1>16, <1>0 DEF Leave, Goto, TurnInv, clientVars, turnVars, tokenVars, approvalVars, netVars
<1>17. CASE End(t)
    BY <1>17 DEF End, Goto, clientVars, approvalVars, netVars
<1> QED BY <1>1, <1>2, <1>3, <1>4, <1>5, <1>6, <1>7, <1>8, <1>9, <1>10, <1>11, <1>12,
           <1>13, <1>14, <1>15, <1>16, <1>17, <1>18 DEF Turn

\* A step of a turn changes nothing of the other turns, nor of the sockets.
LEMMA TurnFrame ==
    ASSUME IInv, NEW t \in Turns, Turn(t)
    PROVE  UNCHANGED <<clientVars, netVars>> /\ \A u \in Turns \ {t} : Same(u)
<1> USE DEF IInv, TypeOK, Same
<1>1. CASE Admit(t)
    BY <1>1 DEF Admit, Goto, clientVars, turnVars, tokenVars,
                 approvalVars, netVars
<1>2. CASE Enter(t)
    BY <1>2 DEF Enter, Goto, clientVars, turnVars, tokenVars,
                 approvalVars, netVars
<1>3. CASE EnterFails(t)
    BY <1>3 DEF EnterFails, Goto, clientVars, turnVars, tokenVars,
                 approvalVars, netVars
<1>4. CASE Iterate(t)
    BY <1>4 DEF Iterate, Begin, Interrupted, Goto, clientVars, turnVars, tokenVars,
                 approvalVars, netVars
<1>5. CASE Arm(t)
    BY <1>5 DEF Arm, Goto, clientVars, turnVars, tokenVars,
                 approvalVars, netVars
<1>6. CASE CallCancelled(t)
    BY <1>6 DEF CallCancelled, Interrupted, Goto, clientVars, turnVars, tokenVars,
                 approvalVars, netVars
<1>7. CASE ToolEnds(t)
    BY <1>7 DEF ToolEnds, Interrupted, Goto, clientVars, turnVars, tokenVars,
                 approvalVars, netVars
<1>8. CASE \E n \in 0 .. MaxCalls : ModelAnswers(t, n)
    BY <1>8 DEF ModelAnswers, Goto, clientVars, turnVars, tokenVars,
                 approvalVars, netVars
<1>9. CASE EndOfCalls(t)
    BY <1>9 DEF EndOfCalls, Goto, clientVars, turnVars, tokenVars,
                 approvalVars, netVars
<1>10. CASE NextCall(t)
    BY <1>10 DEF NextCall, Begin, Interrupted, Goto, clientVars, turnVars, tokenVars,
                 approvalVars, netVars
<1>18. CASE Allow(t)
    BY <1>18 DEF Allow, Begin, Interrupted, Goto, clientVars, turnVars, tokenVars,
                 approvalVars, netVars
<1>11. CASE Ask(t)
    BY <1>11 DEF Ask, Goto, clientVars, turnVars, tokenVars,
                 approvalVars, netVars
<1>12. CASE Deliver(t)
    BY <1>12 DEF Deliver, Goto, clientVars, turnVars, tokenVars,
                 approvalVars, netVars
<1>13. CASE Verdict(t)
    BY <1>13 DEF Verdict, Begin, Interrupted, Forget, Goto, clientVars, turnVars, tokenVars,
                 approvalVars, netVars
<1>14. CASE Expire(t)
    BY <1>14 DEF Expire, Goto, clientVars, turnVars, tokenVars,
                 approvalVars, netVars
<1>15. CASE Withdraw(t)
    BY <1>15 DEF Withdraw, Interrupted, Forget, Goto, clientVars, turnVars, tokenVars,
                 approvalVars, netVars
<1>16. CASE Leave(t)
    BY <1>16 DEF Leave, Goto, clientVars, turnVars, tokenVars,
                 approvalVars, netVars
<1>17. CASE End(t)
    BY <1>17 DEF End, Goto, clientVars, turnVars, tokenVars,
                 approvalVars, netVars
<1> QED BY <1>1, <1>2, <1>3, <1>4, <1>5, <1>6, <1>7, <1>8, <1>9, <1>10, <1>11, <1>12,
           <1>13, <1>14, <1>15, <1>16, <1>17, <1>18 DEF Turn

\* The turn that makes a step stays sound.
LEMMA TurnStays ==
    ASSUME IInv, NEW t \in Turns, Turn(t)
    PROVE  Sound(t)'
<1> USE BoundsAreNaturals DEF IInv, TypeOK, Places, Sound, TurnInv, ReachInv, LateInv,
                              AskInv, CleanInv, Live, Asking
<1>0. Sound(t) /\ (owner[t] \in Clients => ClientInv(owner[t]))
    OBVIOUS
<1>1. CASE Admit(t)
    BY <1>1 DEF Admit, Goto, clientVars, turnVars, tokenVars,
                 approvalVars, netVars
<1>2. CASE Enter(t)
    BY <1>2 DEF Enter, Goto, clientVars, turnVars, tokenVars,
                 approvalVars, netVars
<1>3. CASE EnterFails(t)
    BY <1>3 DEF EnterFails, Goto, clientVars, turnVars, tokenVars,
                 approvalVars, netVars
<1>4. CASE Iterate(t)
    BY <1>4 DEF Iterate, Begin, Interrupted, Goto, clientVars, turnVars, tokenVars,
                 approvalVars, netVars
<1>5. CASE Arm(t)
    BY <1>5 DEF Arm, Goto, clientVars, turnVars, tokenVars,
                 approvalVars, netVars
<1>6. CASE CallCancelled(t)
    BY <1>6 DEF CallCancelled, Interrupted, Goto, clientVars, turnVars, tokenVars,
                 approvalVars, netVars
<1>7. CASE ToolEnds(t)
    BY <1>7 DEF ToolEnds, Interrupted, Goto, clientVars, turnVars, tokenVars,
                 approvalVars, netVars
<1>8. CASE \E n \in 0 .. MaxCalls : ModelAnswers(t, n)
    BY <1>8 DEF ModelAnswers, Goto, clientVars, turnVars, tokenVars,
                 approvalVars, netVars
<1>9. CASE EndOfCalls(t)
    BY <1>9 DEF EndOfCalls, Goto, clientVars, turnVars, tokenVars,
                 approvalVars, netVars
<1>10. CASE NextCall(t)
    BY <1>10 DEF NextCall, Begin, Interrupted, Goto, clientVars, turnVars, tokenVars,
                 approvalVars, netVars
<1>18. CASE Allow(t)
    BY <1>18 DEF Allow, Begin, Interrupted, Goto, clientVars, turnVars, tokenVars,
                 approvalVars, netVars
<1>11. CASE Ask(t)
    BY <1>11 DEF Ask, Goto, clientVars, turnVars, tokenVars,
                 approvalVars, netVars
<1>12. CASE Deliver(t)
    BY <1>12, <1>0 DEF ClientInv, Deliver, Goto, clientVars, turnVars, tokenVars,
                 approvalVars, netVars
<1>13. CASE Verdict(t)
    BY <1>13 DEF Verdict, Begin, Interrupted, Forget, Goto, clientVars, turnVars, tokenVars,
                 approvalVars, netVars
<1>14. CASE Expire(t)
    BY <1>14 DEF Expire, Goto, clientVars, turnVars, tokenVars,
                 approvalVars, netVars
<1>15. CASE Withdraw(t)
    BY <1>15 DEF Withdraw, Interrupted, Forget, Goto, clientVars, turnVars, tokenVars,
                 approvalVars, netVars
<1>16. CASE Leave(t)
    BY <1>16 DEF Leave, Goto, clientVars, turnVars, tokenVars,
                 approvalVars, netVars
<1>17. CASE End(t)
    BY <1>17 DEF End, Goto, clientVars, turnVars, tokenVars,
                 approvalVars, netVars
<1> QED BY <1>1, <1>2, <1>3, <1>4, <1>5, <1>6, <1>7, <1>8, <1>9, <1>10, <1>11, <1>12,
           <1>13, <1>14, <1>15, <1>16, <1>17, <1>18 DEF Turn

-----------------------------------------------------------------------------
\* A turn step keeps the invariant.
LEMMA TurnKeeps ==
    ASSUME IInv, NEW t \in Turns, Turn(t)
    PROVE  IInv'
<1>1. UNCHANGED clientVars /\ UNCHANGED netVars /\ \A u \in Turns \ {t} : Same(u)
    BY TurnFrame
<1>2. ASSUME NEW u \in Turns PROVE Sound(u)'
    <2>1. CASE u = t
        BY <2>1, TurnStays
    <2>2. CASE u # t
        BY <2>2, <1>1, OtherTurns DEF IInv
    <2> QED BY <2>1, <2>2
<1>3. ASSUME NEW c \in Clients PROVE ClientInv(c)'
    BY <1>1 DEF IInv, ClientInv, clientVars, netVars
<1> QED BY <1>2, <1>3, TurnTypes DEF IInv

\* The steps of a client.
ClientStep(c) ==
    \/ Frame(c) \/ Disconnect(c) \/ Cleanup(c) \/ Stall(c) \/ Demote(c)
    \/ \E t \in Turns : Cancel(c, t)

\* A step of a client keeps the types.
LEMMA ClientTypes ==
    ASSUME IInv, NEW c \in Clients, ClientStep(c)
    PROVE  TypeOK'
<1> USE DEF IInv, TypeOK, Places, Phases
<1>1. CASE \E t \in Turns, h \in Chats : Message(c, h, t)
    BY <1>1 DEF Message, Ready, Idle, clientVars, turnVars, tokenVars,
                 approvalVars, netVars
<1>2. CASE \E t \in Turns, h \in Chats : Stop(c, h, t)
    BY <1>2 DEF Stop, Ready, Idle, clientVars, turnVars, tokenVars,
                 approvalVars, netVars
<1>3. CASE \E t \in Turns, h \in Chats, yes \in BOOLEAN : Answer(c, h, t, yes)
    BY <1>3 DEF Answer, Ready, Idle, clientVars, turnVars, tokenVars,
                 approvalVars, netVars
<1>4. CASE Disconnect(c)
    BY <1>4 DEF Disconnect, Ready, Idle, clientVars, turnVars, tokenVars,
                 approvalVars, netVars
<1>5. CASE TakeTurns(c)
    BY <1>5 DEF TakeTurns, clientVars, turnVars, tokenVars,
                 approvalVars, netVars
<1>6. CASE DenyApprovals(c)
    BY <1>6 DEF DenyApprovals, clientVars, turnVars, tokenVars,
                 approvalVars, netVars
<1>7. CASE Unregister(c)
    BY <1>7 DEF Unregister, clientVars, turnVars, tokenVars,
                 approvalVars, netVars
<1>8. CASE Demote(c)
    BY <1>8 DEF Demote, clientVars, turnVars, tokenVars,
                 approvalVars, netVars
<1>9. CASE \E t \in Turns : Cancel(c, t)
    BY <1>9 DEF Cancel, clientVars, turnVars, tokenVars,
                 approvalVars, netVars
<1>10. CASE Stall(c)
    BY <1>10 DEF Stall, clientVars, turnVars, tokenVars, approvalVars, netVars
<1> QED BY <1>1, <1>2, <1>3, <1>4, <1>5, <1>6, <1>7, <1>8, <1>9, <1>10 DEF ClientStep, Frame, Cleanup

\* A step of a client keeps what is said of the sockets.
LEMMA ClientSockets ==
    ASSUME IInv, NEW c \in Clients, ClientStep(c), NEW d \in Clients
    PROVE  ClientInv(d)'
<1> USE DEF IInv, TypeOK, Phases, ClientInv
<1>1. CASE \E t \in Turns, h \in Chats : Message(c, h, t)
    BY <1>1 DEF Message, Ready, Idle, clientVars, turnVars, tokenVars,
                 approvalVars, netVars
<1>2. CASE \E t \in Turns, h \in Chats : Stop(c, h, t)
    BY <1>2 DEF Stop, Ready, Idle, clientVars, turnVars, tokenVars,
                 approvalVars, netVars
<1>3. CASE \E t \in Turns, h \in Chats, yes \in BOOLEAN : Answer(c, h, t, yes)
    BY <1>3 DEF Answer, Ready, Idle, clientVars, turnVars, tokenVars,
                 approvalVars, netVars
<1>4. CASE Disconnect(c)
    BY <1>4 DEF Disconnect, Ready, Idle, clientVars, turnVars, tokenVars,
                 approvalVars, netVars
<1>5. CASE TakeTurns(c)
    BY <1>5 DEF TakeTurns, clientVars, turnVars, tokenVars,
                 approvalVars, netVars
<1>6. CASE DenyApprovals(c)
    BY <1>6 DEF DenyApprovals, clientVars, turnVars, tokenVars,
                 approvalVars, netVars
<1>7. CASE Unregister(c)
    BY <1>7 DEF Unregister, clientVars, turnVars, tokenVars,
                 approvalVars, netVars
<1>8. CASE Demote(c)
    BY <1>8 DEF Demote, clientVars, turnVars, tokenVars,
                 approvalVars, netVars
<1>9. CASE \E t \in Turns : Cancel(c, t)
    BY <1>9 DEF Cancel, clientVars, turnVars, tokenVars,
                 approvalVars, netVars
<1>10. CASE Stall(c)
    BY <1>10 DEF Stall, clientVars, turnVars, tokenVars, approvalVars, netVars
<1> QED BY <1>1, <1>2, <1>3, <1>4, <1>5, <1>6, <1>7, <1>8, <1>9, <1>10 DEF ClientStep, Frame, Cleanup

\* A step of a client keeps what is said of the turns.
LEMMA ClientTurns ==
    ASSUME IInv, NEW c \in Clients, ClientStep(c), NEW u \in Turns
    PROVE  Sound(u)'
<1> USE DEF IInv, TypeOK, Phases, ClientInv, Sound, TurnInv, ReachInv, LateInv, AskInv,
            CleanInv, Live, Asking
<1>1. CASE \E t \in Turns, h \in Chats : Message(c, h, t)
    BY <1>1 DEF Message, Ready, Idle, clientVars, turnVars, tokenVars,
                 approvalVars, netVars
<1>2. CASE \E t \in Turns, h \in Chats : Stop(c, h, t)
    BY <1>2 DEF Stop, Ready, Idle, clientVars, turnVars, tokenVars,
                 approvalVars, netVars
<1>3. CASE \E t \in Turns, h \in Chats, yes \in BOOLEAN : Answer(c, h, t, yes)
    BY <1>3 DEF Answer, Ready, Idle, clientVars, turnVars, tokenVars,
                 approvalVars, netVars
<1>4. CASE Disconnect(c)
    BY <1>4 DEF Disconnect, Ready, Idle, clientVars, turnVars, tokenVars,
                 approvalVars, netVars
<1>5. CASE TakeTurns(c)
    BY <1>5 DEF TakeTurns, clientVars, turnVars, tokenVars,
                 approvalVars, netVars
<1>6. CASE DenyApprovals(c)
    BY <1>6 DEF DenyApprovals, clientVars, turnVars, tokenVars,
                 approvalVars, netVars
<1>7. CASE Unregister(c)
    BY <1>7 DEF Unregister, clientVars, turnVars, tokenVars,
                 approvalVars, netVars
<1>8. CASE Demote(c)
    BY <1>8 DEF Demote, clientVars, turnVars, tokenVars,
                 approvalVars, netVars
<1>9. CASE \E t \in Turns : Cancel(c, t)
    BY <1>9 DEF Cancel, clientVars, turnVars, tokenVars,
                 approvalVars, netVars
<1>10. CASE Stall(c)
    BY <1>10 DEF Stall, clientVars, turnVars, tokenVars, approvalVars, netVars
<1> QED BY <1>1, <1>2, <1>3, <1>4, <1>5, <1>6, <1>7, <1>8, <1>9, <1>10 DEF ClientStep, Frame, Cleanup

-----------------------------------------------------------------------------
\* The invariant holds of every behaviour, whatever clients send and whenever
\* they leave.
THEOREM Invariance == Spec => []IInv
<1>1. IInv /\ [Next]_vars => IInv'
    <2> SUFFICES ASSUME IInv, [Next]_vars PROVE IInv'
        OBVIOUS
    <2>1. CASE \E t \in Turns : Turn(t)
        BY <2>1, TurnKeeps
    <2>2. CASE \E c \in Clients : ClientStep(c)
        BY <2>2, ClientTypes, ClientSockets, ClientTurns DEF IInv
    <2>3. CASE UNCHANGED vars
        BY <2>3 DEF IInv, TypeOK, ClientInv, Sound, TurnInv, ReachInv, LateInv, AskInv,
                    CleanInv, Live, vars, clientVars, netVars, turnVars, tokenVars, approvalVars
    <2> QED BY <2>1, <2>2, <2>3 DEF Next, ClientStep
<1> QED BY <1>1, InitInv, PTL DEF Spec

\* Types.
THEOREM Types == Spec => []TypeOK
<1>1. IInv => TypeOK
    BY DEF IInv
<1> QED BY <1>1, Invariance, PTL

\* The cleanup of a client, done twice, leaves no turn of it that is not
\* cancelled and none that waits for its answer (unregister_ws_client).
THEOREM NothingIsLeft == Spec => []GoneLeavesNothing
<1>1. IInv => GoneLeavesNothing
    BY DEF IInv, TypeOK, ClientInv, Sound, TurnInv, ReachInv, CleanInv, Live,
           GoneLeavesNothing
<1> QED BY <1>1, Invariance, PTL

\* After a stop or a disconnect a turn begins at most one more call, in spite
\* of the gap between the look at the flag and the registration as a waiter.
THEOREM StopIsHeard == Spec => []StopHolds
<1>1. IInv => StopHolds
    BY DEF IInv, TypeOK, Sound, LateInv, StopHolds
<1> QED BY <1>1, Invariance, PTL

\* A call that asked begins only if the yes of its client was accepted while it
\* waited and its turn is not cancelled, and such a yes is never taken back.
THEOREM OnlyAnswersCount == Spec => AnswerCounts
<1>1. ASSUME IInv, NEW t \in Turns, pc[t] = "await"
      PROVE  /\ t \in approvals => told[t] = "none"
             /\ (verdict[t] = "yes") <=> (told[t] = "yes")
             /\ (verdict[t] = "none") <=> (t \in approvals)
    BY <1>1 DEF IInv, Sound, AskInv
<1>2. ASSUME IInv, Next, NEW t \in Turns, pc[t] = "await"
      PROVE  /\ pc'[t] = "arm" => told[t] = "yes" /\ t \notin token
             /\ told[t] = "yes" => \/ pc'[t] \in {"arm", "calls"}
                                   \/ pc'[t] = "await" /\ verdict'[t] = "yes"
    <2>1. CASE \E c \in Clients : ClientStep(c)
        <3> PICK c \in Clients : ClientStep(c)
            BY <2>1
        <3>1. CASE \E u \in Turns, h \in Chats : Message(c, h, u)
            BY <3>1, <1>1, <1>2 DEF Message, IInv, TypeOK, approvalVars
        <3>2. CASE \E u \in Turns, h \in Chats, yes \in BOOLEAN : Answer(c, h, u, yes)
            <4> PICK u \in Turns, h \in Chats, yes \in BOOLEAN : Answer(c, h, u, yes)
                BY <3>2
            <4> QED BY <1>1, <1>2 DEF Answer, IInv, TypeOK
        <3>3. CASE DenyApprovals(c)
            BY <3>3, <1>1, <1>2 DEF DenyApprovals, IInv, TypeOK
        <3> QED BY <3>1, <3>2, <3>3, <1>1, <1>2 DEF ClientStep, Frame, Cleanup, Stop, Disconnect,
                    TakeTurns, Unregister, Stall, Demote, Cancel, approvalVars
    <2>2. CASE \E u \in Turns \ {t} : Turn(u)
        BY <2>2, <1>1, <1>2, TurnFrame DEF Same
    <2>3. CASE Turn(t)
        <3>1. Verdict(t) \/ Expire(t)
            BY <1>2, <2>3 DEF Turn, Admit, Enter, EnterFails, Iterate, Arm, CallCancelled,
                    ToolEnds, ModelAnswers, EndOfCalls, NextCall, Allow, Ask, Deliver,
                    Withdraw, Leave, End
        <3>2. CASE Verdict(t)
            BY <1>1, <1>2, <3>2 DEF Verdict, Begin, Interrupted, Goto, IInv, TypeOK
        <3>3. CASE Expire(t)
            BY <1>1, <1>2, <3>3 DEF Expire, Goto, IInv, TypeOK
        <3> QED BY <3>1, <3>2, <3>3
    <2> QED BY <1>2, <2>1, <2>2, <2>3 DEF Next, ClientStep
<1>3. IInv /\ [Next]_vars => [\A t \in Turns : pc[t] = "await" =>
           /\ pc'[t] = "arm" => told[t] = "yes" /\ t \notin token
           /\ told[t] = "yes" => \/ pc'[t] \in {"arm", "calls"}
                                 \/ pc'[t] = "await" /\ verdict'[t] = "yes"]_vars
    BY <1>2
<1> QED BY <1>3, Invariance, PTL DEF Spec, AnswerCounts

-----------------------------------------------------------------------------
(* What a turn keeps, and for how long.                                    *)

\* The places of a turn that has the session of its chat, and of one that was
\* admitted.
Held == {"iterate", "arm", "busy", "calls", "guards", "unlock"} \cup Asking
Admitted == Held \cup {"waiting"}

\* What turn t has: only a live turn is registered, has a token that is set, holds a
\* permit or waits; an admitted one does hold a permit, and one at work its session.
Belongings(t) ==
    /\ t \in active \cup token \cup permits => Live(t)
    /\ t \in permits => pc[t] \in Admitted \cup {"ending"}
    /\ pc[t] \in Admitted => t \in permits
    /\ waiter[t] # "none" <=> pc[t] = "busy"
    /\ t \in approvals => pc[t] \in Asking
    /\ pc[t] \in Held => session[chat[t]] = t

\* Nothing leaks: whatever a turn has is gone when it is over, however it ended, and
\* the session of a chat is had by a turn of the chat that will give it back.
NothingLeaks ==
    /\ \A t \in Turns : Belongings(t)
    /\ \A h \in Chats :
           session[h] # None => pc[session[h]] \in Held /\ chat[session[h]] = h

\* One turn at a time works on a chat, whichever clients ask for turns of it.
OneTurnPerChat ==
    \A t, u \in Turns : pc[t] \in Held /\ pc[u] \in Held /\ chat[t] = chat[u] => t = u

\* A client has no more turns at work, or waiting to be, than it may.
PermitsSuffice ==
    \A c \in Clients :
        LET mine == {t \in Turns : pc[t] \in Admitted /\ owner[t] = c}
        IN  IsFiniteSet(mine) /\ Cardinality(mine) <= Permits

\* How far a turn is: in its life, ...
Age(place) ==
    CASE place = "new" -> 0 [] place = "spawned" -> 1 [] place = "waiting" -> 2
      [] place = "unlock" -> 4 [] place = "ending" -> 5 [] place = "done" -> 6
      [] OTHER -> 3

\* ... whether it is past the model's answer in an iteration, ...
Half(place, kind) ==
    IF place = "iterate" \/ (place \in {"arm", "busy"} /\ kind = "model") THEN 0 ELSE 1

\* ... and in a call.
Rank(place, kind) ==
    CASE place = "iterate" -> 0 [] place = "calls" -> 0 [] place = "guards" -> 1
      [] place = "deliver" -> 2 [] place = "await" -> 3 [] place \in {"failed", "expired"} -> 4
      [] place = "arm" -> 5 [] place = "busy" -> 6 [] OTHER -> 7

\* The turn ages; or iterations, or calls, are left to it one less; or it is further
\* in the iteration or in the call.
Forward(t) ==
    \/ Age(pc[t]) < Age(pc'[t])
    \/ /\ Age(pc[t]) = 3 /\ Age(pc'[t]) = 3
       /\ LET half == Half(pc[t], work[t])
              next == Half(pc'[t], work'[t])
          IN  \/ left'[t] < left[t]
              \/ /\ left'[t] = left[t]
                 /\ \/ half < next
                    \/ /\ half = next
                       /\ \/ calls'[t] < calls[t]
                          \/ /\ calls'[t] = calls[t]
                             /\ Rank(pc[t], work[t]) < Rank(pc'[t], work'[t])

\* No step takes a turn back: with bounded iterations and calls it makes finitely
\* many steps, whatever is answered, denied, stopped or times out meanwhile.
TurnsGoForward ==
    [][\A t \in Turns :
           <<pc[t], left[t], calls[t], work[t]>>' # <<pc[t], left[t], calls[t], work[t]>>
               => Forward(t)]_vars

\* The other way round; and a turn that was taken out of the registry has begun.
SessionInv ==
    /\ \A h \in Chats : session[h] # None => pc[session[h]] \in Held /\ chat[session[h]] = h
    /\ \A c \in Clients : \A t \in removed[c] : pc[t] # "new"

LeakInv == (\A t \in Turns : Belongings(t)) /\ SessionInv

\* What Belongings says of other turns than the one that steps.
Keeps(u) == (u \in permits' <=> u \in permits) /\ waiter'[u] = waiter[u]

LEMMA InitLeak == Init => LeakInv
BY DEF Init, LeakInv, Belongings, SessionInv, Live, Held, Admitted, Asking

\* A step of a turn leaves the permits and the waiters of the others alone, and
\* the sessions but for its own, which it takes when it is free.
LEMMA TurnSession ==
    ASSUME IInv, LeakInv, NEW t \in Turns, Turn(t)
    PROVE  /\ \A u \in Turns \ {t} : Keeps(u)
           /\ \/ /\ session' = session /\ (pc[t] \in Held <=> pc'[t] \in Held)
                 /\ chat'[t] = chat[t] \/ pc[t] \notin Held
              \/ /\ chat'[t] = chat[t] /\ chat[t] \in Chats
                 /\ \/ /\ session[chat[t]] = None /\ session' = [session EXCEPT ![chat[t]] = t]
                       /\ pc'[t] \in Held
                    \/ /\ session[chat[t]] = t /\ session' = [session EXCEPT ![chat[t]] = None]
                       /\ pc[t] \in Held /\ pc'[t] \notin Held
<1> USE DEF IInv, TypeOK, Keeps, Sound, TurnInv, Live, LeakInv, Belongings, Held, Asking
<1>1. CASE Admit(t)
    BY <1>1 DEF Admit, Goto, clientVars, turnVars, tokenVars,
        approvalVars, netVars
<1>2. CASE Enter(t)
    BY <1>2 DEF Enter, Goto, clientVars, turnVars, tokenVars,
        approvalVars, netVars
<1>3. CASE EnterFails(t)
    BY <1>3 DEF EnterFails, Goto, clientVars, turnVars, tokenVars,
        approvalVars, netVars
<1>4. CASE Iterate(t)
    BY <1>4 DEF Iterate, Begin, Interrupted, Goto, clientVars, turnVars, tokenVars,
        approvalVars, netVars
<1>5. CASE Arm(t)
    BY <1>5 DEF Arm, Goto, clientVars, turnVars, tokenVars,
        approvalVars, netVars
<1>6. CASE CallCancelled(t)
    BY <1>6 DEF CallCancelled, Interrupted, Goto, clientVars, turnVars, tokenVars,
        approvalVars, netVars
<1>7. CASE ToolEnds(t)
    BY <1>7 DEF ToolEnds, Interrupted, Goto, clientVars, turnVars, tokenVars,
        approvalVars, netVars
<1>8. CASE \E n \in 0 .. MaxCalls : ModelAnswers(t, n)
    BY <1>8 DEF ModelAnswers, Goto, clientVars, turnVars, tokenVars,
        approvalVars, netVars
<1>9. CASE EndOfCalls(t)
    BY <1>9 DEF EndOfCalls, Goto, clientVars, turnVars, tokenVars,
        approvalVars, netVars
<1>10. CASE NextCall(t)
    BY <1>10 DEF NextCall, Goto, clientVars, turnVars, tokenVars,
        approvalVars, netVars
<1>11. CASE Allow(t)
    BY <1>11 DEF Allow, Begin, Interrupted, Goto, clientVars, turnVars, tokenVars,
        approvalVars, netVars
<1>12. CASE Ask(t)
    BY <1>12 DEF Ask, Goto, clientVars, turnVars, tokenVars,
        approvalVars, netVars
<1>13. CASE Deliver(t)
    BY <1>13 DEF Deliver, Goto, clientVars, turnVars, tokenVars,
        approvalVars, netVars
<1>14. CASE Verdict(t)
    BY <1>14 DEF Verdict, Begin, Interrupted, Forget, Goto, clientVars, turnVars, tokenVars,
        approvalVars, netVars
<1>15. CASE Expire(t)
    BY <1>15 DEF Expire, Goto, clientVars, turnVars, tokenVars,
        approvalVars, netVars
<1>16. CASE Withdraw(t)
    BY <1>16 DEF Withdraw, Interrupted, Forget, Goto, clientVars, turnVars, tokenVars,
        approvalVars, netVars
<1>17. CASE Leave(t)
    BY <1>17 DEF Leave, Goto, clientVars, turnVars, tokenVars,
        approvalVars, netVars
<1>18. CASE End(t)
    BY <1>18 DEF End, Goto, clientVars, turnVars, tokenVars,
        approvalVars, netVars
<1> QED BY <1>1, <1>2, <1>3, <1>4, <1>5, <1>6, <1>7, <1>8, <1>9,
           <1>10, <1>11, <1>12, <1>13, <1>14, <1>15, <1>16, <1>17, <1>18 DEF Turn

\* The turn that steps keeps and has what it should.
LEMMA TurnBelongs ==
    ASSUME IInv, LeakInv, NEW t \in Turns, Turn(t)
    PROVE  Belongings(t)'
<1> USE DEF IInv, TypeOK, Sound, TurnInv, AskInv, Live, LeakInv, Belongings, Held, Admitted, Asking
<1>1. CASE Admit(t)
    BY <1>1 DEF Admit, Goto, clientVars, turnVars, tokenVars,
        approvalVars, netVars
<1>2. CASE Enter(t)
    BY <1>2 DEF Enter, Goto, clientVars, turnVars, tokenVars,
        approvalVars, netVars
<1>3. CASE EnterFails(t)
    BY <1>3 DEF EnterFails, Goto, clientVars, turnVars, tokenVars,
        approvalVars, netVars
<1>4. CASE Iterate(t)
    BY <1>4 DEF Iterate, Begin, Interrupted, Goto, clientVars, turnVars, tokenVars,
        approvalVars, netVars
<1>5. CASE Arm(t)
    BY <1>5 DEF Arm, Goto, clientVars, turnVars, tokenVars,
        approvalVars, netVars
<1>6. CASE CallCancelled(t)
    BY <1>6 DEF CallCancelled, Interrupted, Goto, clientVars, turnVars, tokenVars,
        approvalVars, netVars
<1>7. CASE ToolEnds(t)
    BY <1>7 DEF ToolEnds, Interrupted, Goto, clientVars, turnVars, tokenVars,
        approvalVars, netVars
<1>8. CASE \E n \in 0 .. MaxCalls : ModelAnswers(t, n)
    BY <1>8 DEF ModelAnswers, Goto, clientVars, turnVars, tokenVars,
        approvalVars, netVars
<1>9. CASE EndOfCalls(t)
    BY <1>9 DEF EndOfCalls, Goto, clientVars, turnVars, tokenVars,
        approvalVars, netVars
<1>10. CASE NextCall(t)
    BY <1>10 DEF NextCall, Goto, clientVars, turnVars, tokenVars,
        approvalVars, netVars
<1>11. CASE Allow(t)
    BY <1>11 DEF Allow, Begin, Interrupted, Goto, clientVars, turnVars, tokenVars,
        approvalVars, netVars
<1>12. CASE Ask(t)
    BY <1>12 DEF Ask, Goto, clientVars, turnVars, tokenVars,
        approvalVars, netVars
<1>13. CASE Deliver(t)
    BY <1>13 DEF Deliver, Goto, clientVars, turnVars, tokenVars,
        approvalVars, netVars
<1>14. CASE Verdict(t)
    BY <1>14 DEF Verdict, Begin, Interrupted, Forget, Goto, clientVars, turnVars, tokenVars,
        approvalVars, netVars
<1>15. CASE Expire(t)
    BY <1>15 DEF Expire, Goto, clientVars, turnVars, tokenVars,
        approvalVars, netVars
<1>16. CASE Withdraw(t)
    BY <1>16 DEF Withdraw, Interrupted, Forget, Goto, clientVars, turnVars, tokenVars,
        approvalVars, netVars
<1>17. CASE Leave(t)
    BY <1>17 DEF Leave, Goto, clientVars, turnVars, tokenVars,
        approvalVars, netVars
<1>18. CASE End(t)
    BY <1>18 DEF End, Goto, clientVars, turnVars, tokenVars,
        approvalVars, netVars
<1> QED BY <1>1, <1>2, <1>3, <1>4, <1>5, <1>6, <1>7, <1>8, <1>9,
           <1>10, <1>11, <1>12, <1>13, <1>14, <1>15, <1>16, <1>17, <1>18 DEF Turn

\* What another turn has stays with it.
LEMMA OthersBelong ==
    ASSUME IInv, LeakInv, NEW t \in Turns, NEW u \in Turns \ {t}, Same(u), Keeps(u),
           pc[u] \in Held => session'[chat[u]] = u
    PROVE  Belongings(u)'
BY DEF LeakInv, Belongings, Same, Keeps, Live

LEMMA TurnLeak ==
    ASSUME IInv, LeakInv, NEW t \in Turns, Turn(t)
    PROVE  LeakInv'
<1>1. \A u \in Turns \ {t} : Same(u) /\ Keeps(u)
    BY TurnFrame, TurnSession
<1>2. UNCHANGED clientVars
    BY TurnFrame
<1>0. /\ session \in [Chats -> Turns \cup {None}] /\ session' \in [Chats -> Turns \cup {None}]
      /\ \A u \in Turns : pc[u] \in Held => chat[u] \in Chats /\ session[chat[u]] = u
      /\ \A h \in Chats : session[h] # None => pc[session[h]] \in Held /\ chat[session[h]] = h
    <2>1. TypeOK'
        BY TurnTypes
    <2>2. \A u \in Turns : pc[u] \in Held => chat[u] \in Chats
        BY DEF IInv, Sound, TurnInv, Live, Held, Asking
    <2> QED BY <2>1, <2>2 DEF IInv, TypeOK, LeakInv, Belongings, SessionInv
\* What a step does to the sessions, at each of them.
<1>6. /\ \A h \in Chats : session'[h] # t => session'[h] \in {session[h], None}
      /\ \A h \in Chats : session[h] \in Turns \ {t} => session'[h] = session[h]
      /\ \A h \in Chats : session'[h] = t => pc'[t] \in Held /\ chat'[t] = h
    <2>1. CASE /\ session' = session /\ (pc[t] \in Held <=> pc'[t] \in Held)
               /\ chat'[t] = chat[t] \/ pc[t] \notin Held
        BY <1>0, <2>1, NoneIsNone
    <2>2. CASE /\ chat'[t] = chat[t] /\ chat[t] \in Chats /\ session[chat[t]] = None
               /\ session' = [session EXCEPT ![chat[t]] = t] /\ pc'[t] \in Held
        <3>1. \A h \in Chats : session[h] # t
            <4>1. pc[t] \notin Held
                BY <1>0, <2>2, NoneIsNone
            <4> QED BY <1>0, <4>1, NoneIsNone
        <3>2. session'[chat[t]] = t /\ \A h \in Chats \ {chat[t]} : session'[h] = session[h]
            BY <1>0, <2>2
        <3> QED BY <1>0, <2>2, <3>1, <3>2, NoneIsNone
    <2>3. CASE /\ chat[t] \in Chats /\ session[chat[t]] = t
               /\ session' = [session EXCEPT ![chat[t]] = None] /\ pc[t] \in Held
        <3>1. \A h \in Chats : session[h] = t => h = chat[t]
            BY <1>0, NoneIsNone
        <3>2. session'[chat[t]] = None /\ \A h \in Chats \ {chat[t]} : session'[h] = session[h]
            BY <1>0, <2>3
        <3>3. \A h \in Chats : session'[h] # t
            BY <3>1, <3>2, NoneIsNone
        <3>4. session[chat[t]] = t
            BY <2>3
        <3>5. \A h \in Chats : session'[h] \in {session[h], None}
            BY <3>2
        <3>6. \A h \in Chats : session[h] \in Turns \ {t} => session'[h] = session[h]
            BY <3>2, <3>4
        <3> QED BY <3>3, <3>5, <3>6
    <2> QED BY <2>1, <2>2, <2>3, TurnSession
<1>3. ASSUME NEW u \in Turns PROVE Belongings(u)'
    <2>1. CASE u = t
        BY <2>1, TurnBelongs
    <2>2. CASE u # t
        <3>1. pc[u] \in Held => session'[chat[u]] = u
            BY <1>0, <1>6, <2>2
        <3> QED BY <1>1, <2>2, <3>1, OthersBelong
    <2> QED BY <2>1, <2>2
<1>4. ASSUME NEW h \in Chats, session'[h] # None
      PROVE  pc'[session'[h]] \in Held /\ chat'[session'[h]] = h
    <2>1. CASE session'[h] = t
        BY <1>6, <2>1
    <2>2. CASE session'[h] # t
        <3>1. session'[h] = session[h] /\ session[h] \in Turns \ {t}
            BY <1>0, <1>4, <1>6, <2>2
        <3> QED BY <1>0, <1>1, <1>4, <3>1 DEF Same
    <2> QED BY <2>1, <2>2
<1>5. ASSUME NEW c \in Clients, NEW u \in removed'[c] PROVE pc'[u] # "new"
    <2>1. u \in removed[c] /\ u \in Turns
        BY <1>2, <1>5 DEF clientVars, IInv, TypeOK
    <2>2. CASE u = t
        BY <2>2 DEF Turn, Admit, Enter, EnterFails, Iterate, Begin, Interrupted, Arm, CallCancelled,
               ModelAnswers, ToolEnds, EndOfCalls, NextCall, Allow, Ask, Deliver, Verdict, Expire,
               Withdraw, Leave, End, Goto, IInv, TypeOK
    <2>3. CASE u # t
        BY <1>1, <2>1, <2>3 DEF LeakInv, SessionInv, Same
    <2> QED BY <2>2, <2>3
<1> QED BY <1>3, <1>4, <1>5 DEF LeakInv, SessionInv

LEMMA ClientLeak ==
    ASSUME IInv, LeakInv, NEW c \in Clients, ClientStep(c)
    PROVE  LeakInv'
<1> USE NoneIsNone DEF IInv, TypeOK, LeakInv, Belongings, SessionInv, Live, Held, Admitted, Asking
<1>1. CASE \E t \in Turns, h \in Chats : Message(c, h, t)
    <2>1. PICK t \in Turns, h \in Chats : Message(c, h, t)
        BY <1>1
    <2>2. /\ UNCHANGED <<removed, token, waiter, permits, session, approvals>>
          /\ pc[t] = "new" /\ pc'[t] = "spawned" /\ active' = active \cup {t}
          /\ \A u \in Turns \ {t} : pc'[u] = pc[u] /\ chat'[u] = chat[u]
        BY <2>1 DEF Message, clientVars, tokenVars, approvalVars
    <2>3. \A u \in Turns : Belongings(u)'
        BY <2>2
    <2>4. SessionInv'
        BY <2>2
    <2> QED BY <2>3, <2>4
<1>2. CASE \E t \in Turns, h \in Chats : Stop(c, h, t)
    BY <1>2 DEF Stop, turnVars, tokenVars, approvalVars
<1>3. CASE \E t \in Turns, h \in Chats, yes \in BOOLEAN : Answer(c, h, t, yes)
    BY <1>3 DEF Answer, clientVars, turnVars, tokenVars
<1>4. CASE Disconnect(c) \/ Unregister(c) \/ Stall(c) \/ Demote(c)
    BY <1>4 DEF Disconnect, Unregister, Stall, Demote, clientVars, turnVars, tokenVars, approvalVars
<1>5. CASE TakeTurns(c)
    BY <1>5 DEF TakeTurns, turnVars, tokenVars, approvalVars
<1>6. CASE DenyApprovals(c)
    BY <1>6 DEF DenyApprovals, turnVars, tokenVars
<1>7. CASE \E t \in Turns : Cancel(c, t)
    BY <1>7 DEF Cancel, turnVars, approvalVars
<1> QED BY <1>1, <1>2, <1>3, <1>4, <1>5, <1>6, <1>7 DEF ClientStep, Frame, Cleanup

LEMMA LeakInvariance == Spec => []LeakInv
<1>1. IInv /\ LeakInv /\ [Next]_vars => LeakInv'
    <2>1. CASE UNCHANGED vars
        BY <2>1 DEF LeakInv, Belongings, SessionInv, Live, vars, clientVars, turnVars, tokenVars,
               approvalVars
    <2> QED BY <2>1, TurnLeak, ClientLeak DEF Next, ClientStep
<1> QED BY <1>1, InitLeak, Invariance, PTL DEF Spec

\* Whatever a turn has (its place in the registry, its token, its permit, its waiter,
\* its approval, the session of its chat) it has while it lives and no longer.
THEOREM TurnsLeaveNothing == Spec => []NothingLeaks
<1>1. LeakInv => NothingLeaks
    BY DEF LeakInv, SessionInv, NothingLeaks
<1> QED BY <1>1, LeakInvariance, PTL

\* No two turns are at work on a chat at once, though each is a task of its own and
\* may be stopped, denied or abandoned by its client at any point.
THEOREM ChatsAreSerial == Spec => []OneTurnPerChat
<1>1. LeakInv => OneTurnPerChat
    BY DEF LeakInv, Belongings, OneTurnPerChat
<1> QED BY <1>1, LeakInvariance, PTL

-----------------------------------------------------------------------------
(* The permits of a client.                                                *)

\* The turns of a client that hold a permit.
Holding(c) == {u \in permits : owner[u] = c}

PermitInv == IsFiniteSet(permits) /\ \A c \in Clients : Cardinality(Holding(c)) <= Permits

\* A turn takes a permit only when its client has one to give.
LEMMA TurnPermits ==
    ASSUME IInv, LeakInv, NEW t \in Turns, Turn(t)
    PROVE  \/ permits' \subseteq permits /\ \A u \in permits' : owner'[u] = owner[u]
           \/ /\ permits' = permits \cup {t} /\ owner' = owner
              /\ Cardinality(Holding(owner[t])) < Permits
<1> USE DEF IInv, TypeOK, Holding
<1>1. CASE Admit(t)
    BY <1>1 DEF Admit, Goto, clientVars, turnVars, tokenVars,
        approvalVars, netVars
<1>2. CASE Enter(t)
    BY <1>2 DEF Enter, Goto, clientVars, turnVars, tokenVars,
        approvalVars, netVars
<1>3. CASE EnterFails(t)
    BY <1>3 DEF EnterFails, Goto, clientVars, turnVars, tokenVars,
        approvalVars, netVars
<1>4. CASE Iterate(t)
    BY <1>4 DEF Iterate, Begin, Interrupted, Goto, clientVars, turnVars, tokenVars,
        approvalVars, netVars
<1>5. CASE Arm(t)
    BY <1>5 DEF Arm, Goto, clientVars, turnVars, tokenVars,
        approvalVars, netVars
<1>6. CASE CallCancelled(t)
    BY <1>6 DEF CallCancelled, Interrupted, Goto, clientVars, turnVars, tokenVars,
        approvalVars, netVars
<1>7. CASE ToolEnds(t)
    BY <1>7 DEF ToolEnds, Interrupted, Goto, clientVars, turnVars, tokenVars,
        approvalVars, netVars
<1>8. CASE \E n \in 0 .. MaxCalls : ModelAnswers(t, n)
    BY <1>8 DEF ModelAnswers, Goto, clientVars, turnVars, tokenVars,
        approvalVars, netVars
<1>9. CASE EndOfCalls(t)
    BY <1>9 DEF EndOfCalls, Goto, clientVars, turnVars, tokenVars,
        approvalVars, netVars
<1>10. CASE NextCall(t)
    BY <1>10 DEF NextCall, Goto, clientVars, turnVars, tokenVars,
        approvalVars, netVars
<1>11. CASE Allow(t)
    BY <1>11 DEF Allow, Begin, Interrupted, Goto, clientVars, turnVars, tokenVars,
        approvalVars, netVars
<1>12. CASE Ask(t)
    BY <1>12 DEF Ask, Goto, clientVars, turnVars, tokenVars,
        approvalVars, netVars
<1>13. CASE Deliver(t)
    BY <1>13 DEF Deliver, Goto, clientVars, turnVars, tokenVars,
        approvalVars, netVars
<1>14. CASE Verdict(t)
    BY <1>14 DEF Verdict, Begin, Interrupted, Forget, Goto, clientVars, turnVars, tokenVars,
        approvalVars, netVars
<1>15. CASE Expire(t)
    BY <1>15 DEF Expire, Goto, clientVars, turnVars, tokenVars,
        approvalVars, netVars
<1>16. CASE Withdraw(t)
    BY <1>16 DEF Withdraw, Interrupted, Forget, Goto, clientVars, turnVars, tokenVars,
        approvalVars, netVars
<1>17. CASE Leave(t)
    BY <1>17 DEF Leave, Goto, clientVars, turnVars, tokenVars,
        approvalVars, netVars
<1>18. CASE End(t)
    BY <1>18 DEF End, Goto, clientVars, turnVars, tokenVars,
        approvalVars, netVars
<1> QED BY <1>1, <1>2, <1>3, <1>4, <1>5, <1>6, <1>7, <1>8, <1>9,
           <1>10, <1>11, <1>12, <1>13, <1>14, <1>15, <1>16, <1>17, <1>18 DEF Turn

\* A client's socket task touches no permit, nor the client of a turn that has one.
LEMMA ClientPermits ==
    ASSUME IInv, LeakInv, NEW c \in Clients, ClientStep(c)
    PROVE  permits' = permits /\ \A u \in permits : owner'[u] = owner[u]
<1>1. CASE \E t \in Turns, h \in Chats : Message(c, h, t)
    BY <1>1 DEF Message, IInv, TypeOK, LeakInv, Belongings, Live
<1>2. CASE ~\E t \in Turns, h \in Chats : Message(c, h, t)
    BY <1>2 DEF ClientStep, Frame, Cleanup, Stop, Answer, Disconnect, TakeTurns, DenyApprovals,
           Unregister, Stall, Demote, Cancel, turnVars
<1> QED BY <1>1, <1>2

\* Permits that are given back make room, whoever else has one.
LEMMA FewerPermits ==
    ASSUME PermitInv, permits' \subseteq permits,
           \A u \in permits' : owner'[u] = owner[u]
    PROVE  PermitInv'
<1>1. ASSUME NEW c \in Clients PROVE Cardinality(Holding(c)') <= Permits
    <2>1. Holding(c)' \subseteq Holding(c)
        BY DEF Holding
    <2>2. IsFiniteSet(Holding(c))
        BY FS_Subset DEF PermitInv, Holding
    <2>3. /\ Cardinality(Holding(c)') <= Cardinality(Holding(c))
          /\ Cardinality(Holding(c)') \in Nat /\ Cardinality(Holding(c)) \in Nat
        BY <2>1, <2>2, FS_Subset, FS_CardinalityType
    <2> QED BY <2>3, BoundsAreNaturals DEF PermitInv
<1>2. IsFiniteSet(permits')
    BY FS_Subset DEF PermitInv
<1> QED BY <1>1, <1>2 DEF PermitInv, Holding

\* One that is taken fits in.
LEMMA OneMorePermit ==
    ASSUME PermitInv, NEW t \in Turns, permits' = permits \cup {t}, owner' = owner,
           Cardinality(Holding(owner[t])) < Permits
    PROVE  PermitInv'
<1>1. ASSUME NEW c \in Clients PROVE Cardinality(Holding(c)') <= Permits
    <2>1. IsFiniteSet(Holding(c))
        BY FS_Subset DEF PermitInv, Holding
    <2>2. CASE owner[t] # c \/ t \in permits
        <3>1. Holding(c)' = Holding(c)
            BY <2>2 DEF Holding
        <3> QED BY <3>1 DEF PermitInv
    <2>3. CASE owner[t] = c /\ t \notin permits
        <3>1. Holding(c)' = Holding(c) \cup {t} /\ t \notin Holding(c)
            BY <2>3 DEF Holding
        <3>2. /\ Cardinality(Holding(c) \cup {t}) = Cardinality(Holding(c)) + 1
              /\ Cardinality(Holding(c)) \in Nat
            BY <2>1, <3>1, FS_AddElement, FS_CardinalityType
        <3> QED BY <2>3, <3>1, <3>2, BoundsAreNaturals
    <2> QED BY <2>2, <2>3
<1>2. IsFiniteSet(permits')
    BY FS_AddElement DEF PermitInv
<1> QED BY <1>1, <1>2 DEF PermitInv, Holding

\* However many turns a client asks for, at most Permits are at work or wait for the
\* session of their chat, and each end gives its permit back.
THEOREM PermitsBoundTurns == Spec => []PermitsSuffice
<1>1. Init => PermitInv
    <2> SUFFICES ASSUME Init PROVE PermitInv
        OBVIOUS
    <2>1. permits = {} /\ \A c \in Clients : Holding(c) = {}
        BY DEF Init, Holding
    <2> QED BY <2>1, FS_EmptySet, BoundsAreNaturals DEF PermitInv
<1>2. IInv /\ LeakInv /\ PermitInv /\ [Next]_vars => PermitInv'
    <2> SUFFICES ASSUME IInv, LeakInv, PermitInv, [Next]_vars PROVE PermitInv'
        OBVIOUS
    <2>1. CASE \E t \in Turns : Turn(t)
        BY <2>1, TurnPermits, FewerPermits, OneMorePermit
    <2>2. CASE \E c \in Clients : ClientStep(c)
        BY <2>2, ClientPermits, FewerPermits
    <2>3. CASE UNCHANGED vars
        BY <2>3, FewerPermits DEF vars, turnVars
    <2> QED BY <2>1, <2>2, <2>3 DEF Next, ClientStep
<1>3. ASSUME LeakInv, PermitInv, NEW c \in Clients
      PROVE  LET mine == {t \in Turns : pc[t] \in Admitted /\ owner[t] = c}
             IN  IsFiniteSet(mine) /\ Cardinality(mine) <= Permits
    <2> DEFINE mine == {t \in Turns : pc[t] \in Admitted /\ owner[t] = c}
    <2>1. mine \subseteq Holding(c)
        BY <1>3 DEF LeakInv, Belongings, Holding
    <2>2. IsFiniteSet(Holding(c))
        BY <1>3, FS_Subset DEF PermitInv, Holding
    <2>3. /\ IsFiniteSet(mine) /\ Cardinality(mine) <= Cardinality(Holding(c))
          /\ Cardinality(mine) \in Nat /\ Cardinality(Holding(c)) \in Nat
        BY <2>1, <2>2, FS_Subset, FS_CardinalityType
    <2>4. Cardinality(Holding(c)) <= Permits
        BY <1>3 DEF PermitInv
    <2> HIDE DEF mine
    <2>5. IsFiniteSet(mine) /\ Cardinality(mine) <= Permits
        BY <2>3, <2>4, BoundsAreNaturals
    <2> QED BY <2>5 DEF mine
<1>4. LeakInv /\ PermitInv => PermitsSuffice
    BY <1>3 DEF PermitsSuffice
<1> QED BY <1>1, <1>2, <1>4, LeakInvariance, Invariance, PTL DEF Spec

-----------------------------------------------------------------------------
(* A turn goes forward.                                                    *)

\* What the step of a turn does to it.
LEMMA StepForward ==
    ASSUME IInv, NEW t \in Turns, Turn(t)
    PROVE  Forward(t)
<1> USE BoundsAreNaturals DEF IInv, TypeOK, Places, Sound, TurnInv, Asking, Forward, Age, Half, Rank
<1>1. CASE Admit(t)
    BY <1>1 DEF Admit, Goto, clientVars, turnVars, tokenVars,
        approvalVars, netVars
<1>2. CASE Enter(t)
    BY <1>2 DEF Enter, Goto, clientVars, turnVars, tokenVars,
        approvalVars, netVars
<1>3. CASE EnterFails(t)
    BY <1>3 DEF EnterFails, Goto, clientVars, turnVars, tokenVars,
        approvalVars, netVars
<1>4. CASE Iterate(t)
    BY <1>4 DEF Iterate, Begin, Interrupted, Goto, clientVars, turnVars, tokenVars,
        approvalVars, netVars
<1>5. CASE Arm(t)
    BY <1>5 DEF Arm, Goto, clientVars, turnVars, tokenVars,
        approvalVars, netVars
<1>6. CASE CallCancelled(t)
    BY <1>6 DEF CallCancelled, Interrupted, Goto, clientVars, turnVars, tokenVars,
        approvalVars, netVars
<1>7. CASE ToolEnds(t)
    BY <1>7 DEF ToolEnds, Interrupted, Goto, clientVars, turnVars, tokenVars,
        approvalVars, netVars
<1>8. CASE \E n \in 0 .. MaxCalls : ModelAnswers(t, n)
    BY <1>8 DEF ModelAnswers, Goto, clientVars, turnVars, tokenVars,
        approvalVars, netVars
<1>9. CASE EndOfCalls(t)
    BY <1>9 DEF EndOfCalls, Goto, clientVars, turnVars, tokenVars,
        approvalVars, netVars
<1>10. CASE NextCall(t)
    BY <1>10 DEF NextCall, Goto, clientVars, turnVars, tokenVars,
        approvalVars, netVars
<1>11. CASE Allow(t)
    BY <1>11 DEF Allow, Begin, Interrupted, Goto, clientVars, turnVars, tokenVars,
        approvalVars, netVars
<1>12. CASE Ask(t)
    BY <1>12 DEF Ask, Goto, clientVars, turnVars, tokenVars,
        approvalVars, netVars
<1>13. CASE Deliver(t)
    BY <1>13 DEF Deliver, Goto, clientVars, turnVars, tokenVars,
        approvalVars, netVars
<1>14. CASE Verdict(t)
    BY <1>14 DEF Verdict, Begin, Interrupted, Forget, Goto, clientVars, turnVars, tokenVars,
        approvalVars, netVars
<1>15. CASE Expire(t)
    BY <1>15 DEF Expire, Goto, clientVars, turnVars, tokenVars,
        approvalVars, netVars
<1>16. CASE Withdraw(t)
    BY <1>16 DEF Withdraw, Interrupted, Forget, Goto, clientVars, turnVars, tokenVars,
        approvalVars, netVars
<1>17. CASE Leave(t)
    BY <1>17 DEF Leave, Goto, clientVars, turnVars, tokenVars,
        approvalVars, netVars
<1>18. CASE End(t)
    BY <1>18 DEF End, Goto, clientVars, turnVars, tokenVars,
        approvalVars, netVars
<1> QED BY <1>1, <1>2, <1>3, <1>4, <1>5, <1>6, <1>7, <1>8, <1>9,
           <1>10, <1>11, <1>12, <1>13, <1>14, <1>15, <1>16, <1>17, <1>18 DEF Turn

\* No step takes a turn back: it ages, or makes one of its bounded iterations or
\* calls, or comes further in it; which is why it ends if it goes on at all.
THEOREM TurnsAdvance == Spec => TurnsGoForward
<1>1. ASSUME IInv, Next, NEW t \in Turns,
             <<pc[t], left[t], calls[t], work[t]>>' # <<pc[t], left[t], calls[t], work[t]>>
      PROVE  Forward(t)
    <2>1. ASSUME NEW u \in Turns, Turn(u) PROVE Forward(t)
        <3>1. u = t
            BY <1>1, <2>1, TurnFrame DEF Same
        <3> QED BY <1>1, <2>1, <3>1, StepForward
    <2>2. ASSUME NEW c \in Clients, ClientStep(c) PROVE Forward(t)
        <3>1. CASE \E u \in Turns, h \in Chats : Message(c, h, u)
            <4>1. pc[t] = "new" /\ pc'[t] = "spawned"
                BY <1>1, <3>1 DEF Message, IInv, TypeOK
            <4> QED BY <4>1 DEF Forward, Age
        <3>2. CASE ~\E u \in Turns, h \in Chats : Message(c, h, u)
            BY <1>1, <2>2, <3>2 DEF ClientStep, Frame, Cleanup, Stop, Answer, Disconnect,
                    TakeTurns, DenyApprovals, Unregister, Stall, Demote, Cancel, turnVars
        <3> QED BY <3>1, <3>2
    <2> QED BY <1>1, <2>1, <2>2 DEF Next, ClientStep
<1>2. IInv /\ [Next]_vars =>
          [\A t \in Turns :
               <<pc[t], left[t], calls[t], work[t]>>' # <<pc[t], left[t], calls[t], work[t]>>
                   => Forward(t)]_vars
    BY <1>1
<1> QED BY <1>2, Invariance, PTL DEF Spec, TurnsGoForward
=============================================================================
