------------------------------ MODULE Session ------------------------------
(***************************************************************************)
(* The connection lifetime that Subscriber and Publisher share             *)
(* (src/session.cpp, and the shutdown half of                              *)
(* src/msquic_transport_adapter.cpp).                                      *)
(*                                                                         *)
(* Two threads act.  The application calls start(), ready(), close() and   *)
(* finally the destructor, whose close_and_wait() is split at the points   *)
(* where it releases the session mutex, waits and closes the connection.   *)
(* The transport thread takes one MsQuic event at a time: it first enters  *)
(* the callback and then, once the session mutex is free, runs the         *)
(* handler.  A handler runs under the mutex from end to end, so it is one  *)
(* action.                                                                 *)
(***************************************************************************)
EXTENDS Naturals

CONSTANT Callers            \* the calls of ready(), one future each

VARIABLES
  phase,                    \* state_.phase
  localSetupSent,           \* state_.local_setup_sent
  peerSetupReceived,        \* state_.peer_setup_received
  negotiatedVersion,        \* state_.negotiated_version has a value
  closeReason,              \* code of state_.close_reason, or "none"
  readyWaiters,             \* ready_waiters_: the callers whose promise is queued
  future,                   \* what each caller of ready() holds
  transport,                \* transport_: who owns the adapter
  shutdownRequested,        \* shutdown_requested_ of the adapter
  shutdownComplete,         \* shutdown_complete_ of the adapter
  app,                      \* where the application is in the object's life
  callback,                 \* the event the transport thread is inside of
  conn,                     \* MsQuic: the connection
  handshake                 \* MsQuic: the handshake has completed

stateVars == <<phase, localSetupSent, peerSetupReceived, negotiatedVersion,
               closeReason, readyWaiters, future>>
adapterVars == <<transport, shutdownRequested, shutdownComplete>>
threadVars == <<app, callback>>
quicVars == <<conn, handshake>>
vars == <<stateVars, adapterVars, threadVars, quicVars>>

Phases == {"Init", "SetupInProgress", "Ready", "Closing", "Closed"}
CloseCodes == {"NoError", "InternalError", "ProtocolViolation"}
Events == {"connected", "peerSetup", "violation", "transportError", "shutdownComplete"}

\* The session is at least Closing: the test `phase >= SessionPhase::Closing`.
Ending == phase \in {"Closing", "Closed"}

\* Mutation: close_and_wait() destroys the adapter while still holding the mutex.
LockFree_DrainUnderLock == app \notin {"locked", "draining", "closing"}

\* Nobody is between taking and releasing the session mutex.  Every handler is
\* one step, so only close_and_wait() is ever seen holding it.
LockFree == app # "locked"

TypeOK ==
  /\ phase \in Phases
  /\ localSetupSent \in BOOLEAN
  /\ peerSetupReceived \in BOOLEAN
  /\ negotiatedVersion \in BOOLEAN
  /\ closeReason \in CloseCodes \cup {"none"}
  /\ readyWaiters \in SUBSET Callers
  /\ future \in [Callers -> {"none", "pending", "ready", "failed"}]
  /\ transport \in {"null", "session", "drained", "destroyed"}
  /\ shutdownRequested \in BOOLEAN
  /\ shutdownComplete \in BOOLEAN
  /\ app \in {"new", "running", "failed", "locked", "draining", "closing", "done"}
  /\ callback \in Events \cup {"none", "signal"}
  /\ conn \in {"idle", "open", "complete"}
  /\ handshake \in BOOLEAN

Init ==
  /\ phase = "Init"
  /\ localSetupSent = FALSE
  /\ peerSetupReceived = FALSE
  /\ negotiatedVersion = FALSE
  /\ closeReason = "none"
  /\ readyWaiters = {}
  /\ future = [w \in Callers |-> "none"]
  /\ transport = "null"
  /\ shutdownRequested = FALSE
  /\ shutdownComplete = FALSE
  /\ app = "new"
  /\ callback = "none"
  /\ conn = "idle"
  /\ handshake = FALSE

-----------------------------------------------------------------------------
(* Helpers the handlers share. *)

\* Settle every queued promise and clear the queue.
SettleWaiters(outcome) ==
  /\ future' = [w \in Callers |-> IF w \in readyWaiters THEN outcome ELSE future[w]]
  /\ readyWaiters' = {}

\* Mutation: the waiters are left alone.
fail_ready_waiters_Skipped == UNCHANGED <<readyWaiters, future>>

fail_ready_waiters == SettleWaiters("failed")

\* The body of maybe_ready() past its guard.
BecomeReady ==
  /\ phase' = "Ready"
  /\ negotiatedVersion' = TRUE
  /\ SettleWaiters("ready")

\* Mutation: the early return is missing, so a later error starts over.
begin_close_NoEarlyReturn(code) ==
  /\ phase' = "Closing"
  /\ closeReason' = code
  /\ fail_ready_waiters
  /\ shutdownRequested' = (shutdownRequested \/ transport = "session")

\* Mutation: the connection is never told to shut down.
shutdown_Never == UNCHANGED shutdownRequested

\* The connection is told to shut down only while the session owns the adapter.
shutdown == shutdownRequested' = (shutdownRequested \/ transport = "session")

\* begin_close(): the first caller wins, later ones return at once.
begin_close(code) ==
  \/ /\ Ending
     /\ UNCHANGED <<phase, closeReason, readyWaiters, future, shutdownRequested>>
  \/ /\ ~Ending
     /\ phase' = "Closing"
     /\ closeReason' = code
     /\ fail_ready_waiters
     /\ shutdown

-----------------------------------------------------------------------------
(* The application. *)

\* start() builds the adapter and starts the connection.
StartOk ==
  /\ app = "new"
  /\ app' = "running"
  /\ transport' = "session"
  /\ conn' = "open"
  /\ UNCHANGED <<stateVars, shutdownRequested, shutdownComplete, callback, handshake>>

\* start() throws: from the adapter's constructor, before transport_ is set, or
\* from ConnectionStart, after it.  connect() then destroys the object.
StartThrows(built) ==
  /\ app = "new"
  /\ app' = "failed"
  /\ transport' = IF built THEN "session" ELSE "null"
  /\ UNCHANGED <<stateVars, shutdownRequested, shutdownComplete, callback, quicVars>>

ready(w) ==
  /\ app = "running"
  /\ future[w] = "none"
  /\ \/ /\ phase = "Ready"
        /\ future' = [future EXCEPT ![w] = "ready"]
        /\ UNCHANGED readyWaiters
     \/ /\ Ending
        /\ future' = [future EXCEPT ![w] = "failed"]
        /\ UNCHANGED readyWaiters
     \/ /\ phase \in {"Init", "SetupInProgress"}
        /\ future' = [future EXCEPT ![w] = "pending"]
        /\ readyWaiters' = readyWaiters \cup {w}
  /\ UNCHANGED <<phase, localSetupSent, peerSetupReceived, negotiatedVersion, closeReason,
                 adapterVars, threadVars, quicVars>>

close ==
  /\ app = "running"
  /\ begin_close("NoError")
  /\ UNCHANGED <<localSetupSent, peerSetupReceived, negotiatedVersion, transport,
                 shutdownComplete, threadVars, quicVars>>

\* Mutation: the adapter is taken away without closing the session first.
CloseAndWaitLocked_NoClose ==
  /\ app \in {"running", "failed"}
  /\ app' = "locked"
  /\ transport' = IF transport = "session" THEN "drained" ELSE transport
  /\ UNCHANGED <<stateVars, shutdownRequested, shutdownComplete, callback, quicVars>>

\* close_and_wait(), first block: begin_close and the move of transport_ under
\* the mutex.
CloseAndWaitLocked ==
  /\ app \in {"running", "failed"}
  /\ begin_close("NoError")
  /\ app' = "locked"
  /\ transport' = IF transport = "session" THEN "drained" ELSE transport
  /\ UNCHANGED <<localSetupSent, peerSetupReceived, negotiatedVersion, shutdownComplete,
                 callback, quicVars>>

\* The mutex is released before the adapter is destroyed.
CloseAndWaitUnlock ==
  /\ app = "locked"
  /\ app' = "draining"
  /\ UNCHANGED <<stateVars, adapterVars, callback, quicVars>>

\* ~MsQuicTransportAdapter waits for SHUTDOWN_COMPLETE if a shutdown was
\* requested, for at most idle_timeout: the wait may also end without it.
DrainWait(timeout) ==
  /\ app = "draining"
  /\ shutdownRequested => (shutdownComplete \/ timeout)
  /\ app' = "closing"
  /\ UNCHANGED <<stateVars, adapterVars, callback, quicVars>>

\* ConnectionClose returns once no callback is running; none starts after it.
ConnectionClose ==
  /\ app = "closing"
  /\ callback = "none"
  /\ app' = "done"
  /\ transport' = IF transport = "drained" THEN "destroyed" ELSE transport
  /\ UNCHANGED <<stateVars, shutdownRequested, shutdownComplete, callback, quicVars>>

-----------------------------------------------------------------------------
(* The transport thread. *)

\* MsQuic indicates an event: CONNECTED at most once, SHUTDOWN_COMPLETE once and
\* last.  Peer stream data may carry a SETUP or break the protocol.
EnterCallback(event) ==
  /\ conn = "open"
  /\ app # "done"
  /\ callback = "none"
  /\ event = "connected" => ~handshake
  /\ callback' = event
  /\ conn' = IF event = "shutdownComplete" THEN "complete" ELSE conn
  /\ handshake' = (handshake \/ event = "connected")
  /\ UNCHANGED <<stateVars, adapterVars, app>>

\* A handler runs to its end under the mutex and the callback returns.
Handle(event) ==
  /\ callback = event
  /\ LockFree
  /\ callback' = "none"
  /\ UNCHANGED <<app, quicVars>>

\* callbacks.connected: send the local SETUP.  `sent` is FALSE when opening the
\* stream throws or the send fails.
Connected(sent) ==
  /\ Handle("connected")
  /\ UNCHANGED <<peerSetupReceived, transport, shutdownComplete>>
  /\ \/ /\ phase # "Init"
        /\ UNCHANGED <<stateVars, shutdownRequested>>
     \/ /\ phase = "Init"
        /\ sent
        /\ localSetupSent' = TRUE
        /\ \/ /\ peerSetupReceived
              /\ BecomeReady
           \/ /\ ~peerSetupReceived
              /\ phase' = "SetupInProgress"
              /\ UNCHANGED <<negotiatedVersion, readyWaiters, future>>
        /\ UNCHANGED <<closeReason, shutdownRequested>>
     \/ /\ phase = "Init"
        /\ ~sent
        /\ begin_close("InternalError")
        /\ UNCHANGED <<localSetupSent, negotiatedVersion>>

\* Mutation: maybe_ready() forgets to test local_setup_sent.
PeerSetup_IgnoresLocal ==
  /\ Handle("peerSetup")
  /\ peerSetupReceived' = TRUE
  /\ \/ /\ phase \in {"Init", "SetupInProgress"}
        /\ BecomeReady
     \/ /\ phase = "Ready" \/ Ending
        /\ UNCHANGED <<phase, negotiatedVersion, readyWaiters, future>>
  /\ UNCHANGED <<localSetupSent, closeReason, adapterVars>>

\* handle_peer_setup(), which has no test of the phase or of a second SETUP.
PeerSetup ==
  /\ Handle("peerSetup")
  /\ peerSetupReceived' = TRUE
  /\ \/ /\ localSetupSent
        /\ phase \in {"Init", "SetupInProgress"}
        /\ BecomeReady
     \/ /\ ~localSetupSent \/ phase = "Ready" \/ Ending
        /\ UNCHANGED <<phase, negotiatedVersion, readyWaiters, future>>
  /\ UNCHANGED <<localSetupSent, closeReason, adapterVars>>

\* protocol_violation()
ProtocolViolation ==
  /\ Handle("violation")
  /\ begin_close("ProtocolViolation")
  /\ UNCHANGED <<localSetupSent, peerSetupReceived, negotiatedVersion, transport, shutdownComplete>>

\* callbacks.transport_error
TransportError ==
  /\ Handle("transportError")
  /\ begin_close("InternalError")
  /\ UNCHANGED <<localSetupSent, peerSetupReceived, negotiatedVersion, transport, shutdownComplete>>

\* callbacks.shutdown_complete; the adapter's own flag is set after it returns.
ShutdownComplete ==
  /\ callback = "shutdownComplete"
  /\ LockFree
  /\ callback' = "signal"
  /\ closeReason' = IF ~handshake /\ closeReason = "none" THEN "InternalError" ELSE closeReason
  /\ phase' = "Closed"
  /\ fail_ready_waiters
  /\ UNCHANGED <<localSetupSent, peerSetupReceived, negotiatedVersion, adapterVars, app, quicVars>>

SignalShutdownComplete ==
  /\ callback = "signal"
  /\ shutdownComplete' = TRUE
  /\ callback' = "none"
  /\ UNCHANGED <<stateVars, transport, shutdownRequested, app, quicVars>>

-----------------------------------------------------------------------------

Destroyer ==
  \/ CloseAndWaitUnlock
  \/ \E timeout \in BOOLEAN : DrainWait(timeout)
  \/ ConnectionClose

Application ==
  \/ StartOk
  \/ \E built \in BOOLEAN : StartThrows(built)
  \/ \E w \in Callers : ready(w)
  \/ close
  \/ CloseAndWaitLocked
  \/ Destroyer

Handlers ==
  \/ \E sent \in BOOLEAN : Connected(sent)
  \/ PeerSetup
  \/ ProtocolViolation
  \/ TransportError
  \/ ShutdownComplete
  \/ SignalShutdownComplete

\* The object is gone: nothing happens any more.
Destroyed ==
  /\ app = "done"
  /\ UNCHANGED vars

Next ==
  \/ Application
  \/ \E event \in Events : EnterCallback(event)
  \/ Handlers
  \/ Destroyed

Spec == Init /\ [][Next]_vars

\* Both threads keep running.  A destructor that has begun goes on, a callback
\* that was entered is executed; MsQuic handles a requested shutdown, and a
\* ConnectionClose, after finitely many other events of the connection.
CompleteShutdown == shutdownRequested /\ EnterCallback("shutdownComplete")

Fairness ==
  /\ WF_vars(CloseAndWaitUnlock)
  /\ WF_vars(\E timeout \in BOOLEAN : DrainWait(timeout))
  /\ SF_vars(ConnectionClose)
  /\ WF_vars(Handlers)
  /\ SF_vars(CompleteShutdown)

FairSpec == Spec /\ Fairness

-----------------------------------------------------------------------------
(* What the session promises. *)

\* A future of ready() is pending exactly while its promise is queued, and a
\* promise is queued only while the outcome of the setup is open: no path of
\* session.cpp to Ready, Closing or Closed leaves a caller waiting for ever.
NoForgottenWaiter ==
  /\ \A w \in Callers : future[w] = "pending" <=> w \in readyWaiters
  /\ readyWaiters # {} => phase \in {"Init", "SetupInProgress"}

\* ready() succeeds only after both SETUPs (maybe_ready, session.cpp:195): the
\* session is Ready, or some caller was told so, only with the local SETUP sent,
\* the peer's received and a version negotiated.
ReadyMeansSetUp ==
  (phase = "Ready" \/ \E w \in Callers : future[w] = "ready")
    => localSetupSent /\ peerSetupReceived /\ negotiatedVersion

\* transport_ is dereferenced without a test in the connected handler and, in
\* the derived classes, whenever the session is Ready: until begin_close() ran,
\* the started session still owns its adapter.
TransportOutlivesSession ==
  (app = "running" \/ transport # "null") /\ ~Ending => transport = "session"

\* The destructor's wait is a bounded wait for an answer that was asked for: a
\* session that is Closing over a live adapter has requested the shutdown whose
\* completion ~MsQuicTransportAdapter waits for.
ClosingAsksForShutdown ==
  phase = "Closing" /\ transport # "null" => shutdownRequested

Rank == [Init |-> 0, SetupInProgress |-> 1, Ready |-> 2, Closing |-> 3, Closed |-> 4]

\* The phase only advances and the first close reason is final, whatever late
\* event, second SETUP or repeated close() comes in.
OnlyForward ==
  [][ /\ Rank[phase'] >= Rank[phase]
      /\ closeReason # "none" => closeReason' = closeReason ]_<<phase, closeReason>>

\* The session as a caller of ready() sees it.
SeenStatus ==
  IF phase = "Ready" THEN "open" ELSE IF Ending THEN "shut" ELSE "opening"

Contract == INSTANCE SessionContract WITH status <- SeenStatus

\* The session implements the contract of ready(): it opens at most once, shuts
\* once, and both settle exactly the futures that are pending.  So a promise is
\* settled once: set_value on a settled std::promise would throw on the transport
\* thread.
ImplementsContract == Contract!Spec

\* close_and_wait() returns: the thread that destroys the session is never stuck
\* behind a callback that waits for the session mutex.
DestructorReturns == (app = "locked") ~> (app = "done")

\* A session that is closing reaches Closed, unless it is destroyed first.
ClosingEnds == (phase = "Closing") ~> (phase = "Closed" \/ app = "done")
=============================================================================
