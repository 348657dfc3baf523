--------------------------- MODULE SessionProofs ---------------------------
(***************************************************************************)
(* Proofs about Session, for every set of callers.                         *)
(*                                                                         *)
(* None of the safety properties is inductive by itself: that begin_close  *)
(* finds the adapter it must shut down depends on where the application is *)
(* in the life of the object.  LifeInv records that dependence; SessionInv *)
(* is the inductive invariant.                                             *)
(***************************************************************************)
EXTENDS Session, TLAPS

\* Where the application is decides who owns the adapter and whether events can
\* arrive: nothing happens before start(), a session under destruction is Ending
\* and no longer owns its adapter, and one whose start() threw sees no event.
LifeInv ==
  /\ app = "new" => transport = "null" /\ phase = "Init"
  /\ app = "running" => transport = "session"
  /\ app = "failed" => transport \in {"null", "session"}
  /\ app \in {"locked", "draining", "closing", "done"} => Ending /\ transport # "session"
  /\ app \in {"new", "failed"} => conn = "idle"
  /\ conn = "idle" => callback = "none"

\* The close reason is written by the step that leaves the open phases.
ReasonInv == ~Ending => closeReason = "none"

SessionInv ==
  /\ TypeOK
  /\ LifeInv
  /\ ReasonInv
  /\ NoForgottenWaiter
  /\ ReadyMeansSetUp
  /\ ClosingAsksForShutdown

\* LifeInv gives the one property about the adapter that is not a conjunct.
LEMMA LifeImpliesTransport == LifeInv /\ TypeOK => TransportOutlivesSession
  BY DEF LifeInv, TypeOK, TransportOutlivesSession, Ending

\* A new Session satisfies the invariant.
LEMMA InitEstablishes == Init => SessionInv
  BY Zenon DEF Init, SessionInv, TypeOK, LifeInv, ReasonInv, NoForgottenWaiter, ReadyMeansSetUp,
         ClosingAsksForShutdown, Ending, Phases, CloseCodes, Events

\* begin_close() from a state of the invariant keeps what its callers rely on:
\* the waiters are settled, the close reason is a code, and a session that turns
\* Closing over an adapter has asked it to shut down.
LEMMA BeginCloseFacts ==
  ASSUME SessionInv, NEW code \in CloseCodes, begin_close(code)
  PROVE  /\ phase' \in {"Closing", "Closed"}
         /\ closeReason' \in CloseCodes \cup {"none"}
         /\ readyWaiters' \in SUBSET Callers
         /\ future' \in [Callers -> {"none", "pending", "ready", "failed"}]
         /\ shutdownRequested' \in BOOLEAN
         /\ readyWaiters' = {}
         /\ \A w \in Callers : future'[w] # "pending"
         /\ \A w \in Callers : future'[w] = "ready" => future[w] = "ready"
         /\ phase' = "Closing" /\ transport # "null" => shutdownRequested'
<1>1. TransportOutlivesSession
  BY LifeImpliesTransport DEF SessionInv
<1>2. CASE Ending
  BY <1>2 DEF begin_close, Ending, SessionInv, TypeOK, NoForgottenWaiter, ClosingAsksForShutdown
<1>3. CASE ~Ending
  <2>1. /\ phase' = "Closing"
        /\ closeReason' = code
        /\ future' = [w \in Callers |-> IF w \in readyWaiters THEN "failed" ELSE future[w]]
        /\ readyWaiters' = {}
        /\ shutdownRequested' = (shutdownRequested \/ transport = "session")
    BY <1>3 DEF begin_close, fail_ready_waiters, SettleWaiters, shutdown
  <2>2. \A w \in Callers : future[w] = "pending" => w \in readyWaiters
    BY DEF SessionInv, NoForgottenWaiter
  <2>3. transport # "null" => transport = "session"
    BY <1>1, <1>3 DEF TransportOutlivesSession
  <2>4. shutdownRequested' \in BOOLEAN
    BY <2>1
  <2>5. phase' = "Closing" /\ transport # "null" => shutdownRequested'
    BY Zenon, <2>1, <2>3
  <2>6. QED
    BY <2>1, <2>2, <2>4, <2>5 DEF SessionInv, TypeOK
<1>4. QED
  BY <1>2, <1>3

\* BecomeReady settles every waiter with success.
LEMMA BecomeReadyFacts ==
  ASSUME SessionInv, BecomeReady
  PROVE  /\ phase' = "Ready"
         /\ negotiatedVersion' = TRUE
         /\ readyWaiters' = {}
         /\ future' \in [Callers -> {"none", "pending", "ready", "failed"}]
         /\ \A w \in Callers : future'[w] # "pending"
  BY DEF SessionInv, TypeOK, NoForgottenWaiter, BecomeReady, SettleWaiters

\* Every action preserves the invariant.
LEMMA StepPreserves == SessionInv /\ [Next]_vars => SessionInv'
<1> SUFFICES ASSUME SessionInv, [Next]_vars
             PROVE  SessionInv'
  OBVIOUS
<1> USE DEF SessionInv, TypeOK, LifeInv, ReasonInv, NoForgottenWaiter, ReadyMeansSetUp,
            ClosingAsksForShutdown, Ending, Phases, stateVars, adapterVars, threadVars, quicVars
<1>1. CASE StartOk
  BY <1>1 DEF StartOk
<1>2. ASSUME NEW built \in BOOLEAN, StartThrows(built)
      PROVE  SessionInv'
  BY <1>2 DEF StartThrows
<1>3. ASSUME NEW w \in Callers, ready(w)
      PROVE  SessionInv'
  BY <1>3 DEF ready
<1>4. CASE close
  <2>1. begin_close("NoError")
    BY <1>4 DEF close
  <2>2. QED
    BY <1>4, <2>1, BeginCloseFacts DEF close, CloseCodes
<1>5. CASE CloseAndWaitLocked
  <2>1. begin_close("NoError")
    BY <1>5 DEF CloseAndWaitLocked
  <2>2. QED
    BY <1>5, <2>1, BeginCloseFacts DEF CloseAndWaitLocked, CloseCodes
<1>6. CASE CloseAndWaitUnlock
  BY <1>6 DEF CloseAndWaitUnlock
<1>7. ASSUME NEW timeout \in BOOLEAN, DrainWait(timeout)
      PROVE  SessionInv'
  BY <1>7 DEF DrainWait
<1>8. CASE ConnectionClose
  BY <1>8 DEF ConnectionClose
<1>9. ASSUME NEW event \in Events, EnterCallback(event)
      PROVE  SessionInv'
  BY <1>9 DEF EnterCallback, Events
<1>10. ASSUME NEW sent \in BOOLEAN, Connected(sent)
       PROVE  SessionInv'
  <2>1. CASE phase # "Init"
    BY <1>10, <2>1 DEF Connected, Handle
  <2>2. CASE phase = "Init" /\ sent /\ peerSetupReceived
    <3>1. BecomeReady
      BY <1>10, <2>2 DEF Connected
    <3>2. QED
      BY Zenon, <1>10, <2>2, <3>1, BecomeReadyFacts DEF Connected, Handle
  <2>3. CASE phase = "Init" /\ sent /\ ~peerSetupReceived
    BY <1>10, <2>3 DEF Connected, Handle
  <2>4. CASE phase = "Init" /\ ~sent
    <3>1. begin_close("InternalError")
      BY <1>10, <2>4 DEF Connected
    <3>2. QED
      BY <1>10, <2>4, <3>1, BeginCloseFacts DEF Connected, Handle, CloseCodes
  <2>5. QED
    BY <2>1, <2>2, <2>3, <2>4
<1>11. CASE PeerSetup
  <2>1. CASE BecomeReady /\ localSetupSent
    BY Zenon, <1>11, <2>1, BecomeReadyFacts DEF PeerSetup, Handle
  <2>2. CASE UNCHANGED <<phase, negotiatedVersion, readyWaiters, future>>
    BY <1>11, <2>2 DEF PeerSetup, Handle
  <2>3. QED
    BY <1>11, <2>1, <2>2 DEF PeerSetup
<1>12. CASE ProtocolViolation
  <2>1. begin_close("ProtocolViolation")
    BY <1>12 DEF ProtocolViolation
  <2>2. QED
    BY <1>12, <2>1, BeginCloseFacts DEF ProtocolViolation, Handle, CloseCodes
<1>13. CASE TransportError
  <2>1. begin_close("InternalError")
    BY <1>13 DEF TransportError
  <2>2. QED
    BY <1>13, <2>1, BeginCloseFacts DEF TransportError, Handle, CloseCodes
<1>14. CASE ShutdownComplete
  BY <1>14 DEF ShutdownComplete, fail_ready_waiters, SettleWaiters, CloseCodes
<1>15. CASE SignalShutdownComplete
  BY <1>15 DEF SignalShutdownComplete
<1>16. CASE Destroyed \/ UNCHANGED vars
  BY <1>16 DEF Destroyed, vars
<1>17. QED
  BY <1>1, <1>2, <1>3, <1>4, <1>5, <1>6, <1>7, <1>8, <1>9, <1>10, <1>11, <1>12, <1>13,
     <1>14, <1>15, <1>16
  DEF Next, Application, Destroyer, Handlers

-----------------------------------------------------------------------------

\* The invariant holds in every reachable state of the session.
THEOREM SessionInvariant == Spec => []SessionInv
<1>1. Init => SessionInv
  BY InitEstablishes
<1>2. SessionInv /\ [Next]_vars => SessionInv'
  BY StepPreserves
<1>3. QED
  BY <1>1, <1>2, PTL DEF Spec

\* Every variable of session.cpp keeps its type, for any set of callers.
THEOREM TypeCorrect == Spec => []TypeOK
<1>1. SessionInv => TypeOK
  BY DEF SessionInv
<1>2. QED
  BY <1>1, SessionInvariant, PTL

\* No caller of ready() is left waiting once the session is Ready or Ending.
THEOREM NobodyForgotten == Spec => []NoForgottenWaiter
<1>1. SessionInv => NoForgottenWaiter
  BY DEF SessionInv
<1>2. QED
  BY <1>1, SessionInvariant, PTL

\* ready() succeeds only after both SETUPs.
THEOREM ReadyIsSound == Spec => []ReadyMeansSetUp
<1>1. SessionInv => ReadyMeansSetUp
  BY DEF SessionInv
<1>2. QED
  BY <1>1, SessionInvariant, PTL

\* transport_ is there whenever a handler dereferences it.
THEOREM AdapterOutlives == Spec => []TransportOutlivesSession
<1>1. SessionInv => TransportOutlivesSession
  BY LifeImpliesTransport DEF SessionInv
<1>2. QED
  BY <1>1, SessionInvariant, PTL

\* A Closing session has asked for the shutdown its destructor waits for.
THEOREM AdapterIsSafe == Spec => []ClosingAsksForShutdown
<1>1. SessionInv => ClosingAsksForShutdown
  BY DEF SessionInv
<1>2. QED
  BY <1>1, SessionInvariant, PTL

-----------------------------------------------------------------------------
(* Refinement: every step of the session is a step of the contract of ready() *)
(* or leaves what its callers see unchanged.                                  *)

\* The promises that SettleWaiters settles are those of the pending futures.
LEMMA SettleIsSettle ==
  ASSUME SessionInv, NEW outcome, SettleWaiters(outcome)
  PROVE  Contract!Settle(outcome)
  BY DEF SettleWaiters, Contract!Settle, SessionInv, NoForgottenWaiter

\* The end of the SETUP exchange is the Open step of the contract.
LEMMA BecomeReadyOpens ==
  ASSUME SessionInv, BecomeReady, phase \in {"Init", "SetupInProgress"}
  PROVE  Contract!Open
<1>1. Contract!Settle("ready")
  BY SettleIsSettle DEF BecomeReady
<1>2. QED
  BY <1>1 DEF BecomeReady, Contract!Open, SeenStatus, Ending

\* begin_close() is the Shut step of the contract, and a stutter when repeated.
LEMMA BeginCloseShuts ==
  ASSUME SessionInv, NEW code, begin_close(code)
  PROVE  [Contract!Next]_<<SeenStatus, future>>
<1>1. CASE Ending
  BY <1>1 DEF begin_close, Ending, SeenStatus
<1>2. CASE ~Ending
  <2>1. Contract!Settle("failed")
    BY <1>2, SettleIsSettle DEF begin_close, fail_ready_waiters
  <2>2. SeenStatus # "shut" /\ SeenStatus' = "shut"
    BY <1>2 DEF begin_close, SeenStatus, Ending
  <2>3. QED
    BY <2>1, <2>2 DEF Contract!Shut, Contract!Next
<1>3. QED
  BY <1>1, <1>2

\* Every step of the Session is a step of the contract or a stutter.
LEMMA StepRefines ==
  ASSUME SessionInv, [Next]_vars
  PROVE  [Contract!Next]_<<SeenStatus, future>>
<1> USE DEF stateVars, adapterVars, threadVars, quicVars
<1>1. ASSUME NEW w \in Callers, ready(w)
      PROVE  Contract!Next
  <2>1. phase' = phase /\ SeenStatus' = SeenStatus
    BY <1>1 DEF ready, SeenStatus, Ending
  <2>2. future' = [future EXCEPT ![w] = Contract!Outcome[SeenStatus]]
    BY <1>1 DEF ready, SeenStatus, Ending, Contract!Outcome, SessionInv, TypeOK, Phases
  <2>3. QED
    BY Zenon, <1>1, <2>1, <2>2 DEF ready, Contract!Call, Contract!Next
<1>2. CASE close
  BY <1>2, BeginCloseShuts DEF close
<1>3. CASE CloseAndWaitLocked
  BY <1>3, BeginCloseShuts DEF CloseAndWaitLocked
<1>4. ASSUME NEW sent \in BOOLEAN, Connected(sent)
      PROVE  [Contract!Next]_<<SeenStatus, future>>
  <2>1. CASE UNCHANGED <<phase, future>>
    BY <2>1 DEF SeenStatus, Ending
  <2>2. CASE phase = "Init" /\ BecomeReady
    BY <2>2, BecomeReadyOpens DEF Contract!Next
  <2>3. CASE phase = "Init" /\ phase' = "SetupInProgress" /\ UNCHANGED future
    BY <2>3 DEF SeenStatus, Ending
  <2>4. CASE begin_close("InternalError")
    BY <2>4, BeginCloseShuts
  <2>5. QED
    BY <1>4, <2>1, <2>2, <2>3, <2>4 DEF Connected
<1>5. CASE PeerSetup
  <2>1. CASE phase \in {"Init", "SetupInProgress"} /\ BecomeReady
    BY <2>1, BecomeReadyOpens DEF Contract!Next
  <2>2. CASE UNCHANGED <<phase, future>>
    BY <2>2 DEF SeenStatus, Ending
  <2>3. QED
    BY <1>5, <2>1, <2>2 DEF PeerSetup
<1>6. CASE ProtocolViolation
  BY <1>6, BeginCloseShuts DEF ProtocolViolation
<1>7. CASE TransportError
  BY <1>7, BeginCloseShuts DEF TransportError
<1>8. CASE ShutdownComplete
  <2>1. Contract!Settle("failed") /\ phase' = "Closed"
    BY <1>8, SettleIsSettle DEF ShutdownComplete, fail_ready_waiters
  <2>2. CASE Ending
    <3>1. \A w \in Callers : future[w] # "pending"
      BY <2>2 DEF SessionInv, NoForgottenWaiter, Ending
    <3>2. future' = future
      BY <2>1, <3>1 DEF Contract!Settle, SessionInv, TypeOK
    <3>3. QED
      BY <2>1, <2>2, <3>2 DEF SeenStatus, Ending
  <2>3. CASE ~Ending
    BY <2>1, <2>3 DEF SeenStatus, Ending, Contract!Shut, Contract!Next
  <2>4. QED
    BY <2>2, <2>3
<1>9. CASE UNCHANGED <<phase, future>>
  BY <1>9 DEF SeenStatus, Ending
<1>10. QED
  BY <1>1, <1>2, <1>3, <1>4, <1>5, <1>6, <1>7, <1>8, <1>9
  DEF Next, Application, Destroyer, Handlers, StartOk, StartThrows, CloseAndWaitUnlock,
      DrainWait, ConnectionClose, EnterCallback, SignalShutdownComplete, Destroyed, vars

\* The session implements the contract of ready().
THEOREM ContractRefined == Spec => ImplementsContract
<1>1. Init => Contract!Init
  BY DEF Init, Contract!Init, SeenStatus, Ending
<1>2. SessionInv /\ [Next]_vars => [Contract!Next]_<<SeenStatus, future>>
  BY StepRefines
<1>3. QED
  BY <1>1, <1>2, SessionInvariant, PTL DEF Spec, ImplementsContract, Contract!Spec

-----------------------------------------------------------------------------
(* Action properties. *)

\* No step moves the phase back, and none replaces a close reason.
LEMMA StepForward ==
  ASSUME SessionInv, [Next]_vars
  PROVE  /\ Rank[phase'] >= Rank[phase]
         /\ closeReason # "none" => closeReason' = closeReason
<1> USE DEF stateVars, adapterVars, threadVars, quicVars, Rank
<1>0. phase \in Phases /\ (~Ending => closeReason = "none")
  BY DEF SessionInv, TypeOK, ReasonInv
<1>1. ASSUME NEW code, begin_close(code)
      PROVE  /\ Rank[phase'] >= Rank[phase]
             /\ closeReason # "none" => closeReason' = closeReason
  BY <1>0, <1>1 DEF begin_close, Ending, Phases
<1>2. CASE UNCHANGED <<phase, closeReason>>
  BY <1>0, <1>2 DEF Phases
<1>3. CASE phase \in {"Init", "SetupInProgress"} /\ BecomeReady /\ UNCHANGED closeReason
  BY <1>3 DEF BecomeReady
<1>4. CASE phase = "Init" /\ phase' = "SetupInProgress" /\ UNCHANGED closeReason
  BY <1>4
<1>5. CASE ShutdownComplete
  BY <1>0, <1>5 DEF ShutdownComplete, Phases
<1>6. ASSUME NEW sent \in BOOLEAN, Connected(sent)
      PROVE  /\ Rank[phase'] >= Rank[phase]
             /\ closeReason # "none" => closeReason' = closeReason
  BY <1>1, <1>2, <1>3, <1>4, <1>6 DEF Connected
<1>7. CASE PeerSetup
  BY <1>2, <1>3, <1>7 DEF PeerSetup
<1>8. CASE close \/ CloseAndWaitLocked \/ ProtocolViolation \/ TransportError
  BY <1>1, <1>8 DEF close, CloseAndWaitLocked, ProtocolViolation, TransportError
<1>9. QED
  BY <1>2, <1>5, <1>6, <1>7, <1>8
  DEF Next, Application, Destroyer, Handlers, StartOk, StartThrows, ready, CloseAndWaitUnlock,
      DrainWait, ConnectionClose, EnterCallback, SignalShutdownComplete, Destroyed, vars

\* The phase only advances and the first close reason is final.
THEOREM ForwardOnly == Spec => OnlyForward
<1>1. SessionInv /\ [Next]_vars
        => [/\ Rank[phase'] >= Rank[phase]
            /\ closeReason # "none" => closeReason' = closeReason]_<<phase, closeReason>>
  BY StepForward
<1>2. QED
  BY <1>1, SessionInvariant, PTL DEF Spec, OnlyForward

=============================================================================
