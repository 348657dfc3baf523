--------------------------- MODULE Subscriptions ---------------------------
(***************************************************************************)
(* The SUBSCRIBE requests of a Subscriber: their registry, their futures,  *)
(* the responses on their request streams, and the route each one owns in  *)
(* the data plane (src/subscriber_session.cpp; retire_route of             *)
(* src/data_plane.cpp).                                                    *)
(*                                                                         *)
(* Two threads act: the transport thread T, which runs one MsQuic callback *)
(* at a time, and the application.  The rest of T's current callback is    *)
(* the stack `todo`; T is idle when it is empty.  Whatever the code does   *)
(* without giving anybody else a chance to act is one step, so an item is  *)
(* pushed only where the code calls an ObjectHandler (which may call back  *)
(* into the Subscriber) or works without the session mutex.  The           *)
(* application acts when it can take the session mutex, or from inside a   *)
(* handler that T is executing (the mutex is recursive).                   *)
(***************************************************************************)
EXTENDS Naturals, Sequences, FiniteSets, Functions

CONSTANTS
  Aliases,                  \* Track Aliases the publisher may select
  MaxRequestId,             \* numeric_limits<RequestId>::max()
  None                      \* no value

VARIABLES
  session,                  \* state_.phase, Init and SetupInProgress joined
  nextRequestId,            \* next_request_id_
  phase,                    \* phase_ of each SubscriptionRequest
  registered,               \* the keys of subscriptions_
  trackAlias,               \* track_alias_
  updates,                  \* updates_: the REQUEST_UPDATEs in flight, oldest first
  future,                   \* what the caller of subscribe() or request_update() holds
  sent,                     \* the requests whose SUBSCRIBE was handed to MsQuic
  cancelled,                \* the requests whose stream was aborted locally
  routes,                   \* routes_by_alias_: the request that owns each alias
  active,                   \* ReceiveRoute::active of the route of each request
  todo,                     \* what T has left to do in its current callback
  locked                    \* T holds the session mutex throughout this callback

requestVars == <<nextRequestId, phase, registered, trackAlias, updates, future, sent, cancelled>>
routeVars == <<routes, active>>
threadVars == <<todo, locked>>

\* Client Request IDs are even; REQUEST_UPDATEs take theirs from the same space.
RequestIds == {i \in 0..MaxRequestId : i % 2 = 0}

ASSUME RequestIdAssumption == MaxRequestId \in Nat
ASSUME NoneAssumption == None \notin RequestIds /\ None \notin Aliases

SessionPhases == {"Opening", "Ready", "Closing", "Closed"}
Live == {"Pending", "Established", "UpdateFailed"}

SubscriptionsTypeOK ==
  /\ session \in SessionPhases
  /\ nextRequestId \in Nat
  /\ phase \in [RequestIds -> Live \cup {"none", "Terminated"}]
  /\ registered \in SUBSET RequestIds
  /\ trackAlias \in [RequestIds -> Aliases \cup {None}]
  /\ updates \in [RequestIds -> Seq(RequestIds)]
  /\ future \in [RequestIds -> {"none", "pending", "ok", "failed"}]
  /\ sent \in SUBSET RequestIds
  /\ cancelled \in SUBSET RequestIds
  /\ routes \in [Aliases -> RequestIds \cup {None}]
  /\ active \in [RequestIds -> BOOLEAN]

SubscriptionsInit ==
  /\ session = "Opening"
  /\ nextRequestId = 0
  /\ phase = [r \in RequestIds |-> "none"]
  /\ registered = {}
  /\ trackAlias = [r \in RequestIds |-> None]
  /\ updates = [r \in RequestIds |-> <<>>]
  /\ future = [r \in RequestIds |-> "none"]
  /\ sent = {}
  /\ cancelled = {}
  /\ routes = [a \in Aliases |-> None]
  /\ active = [r \in RequestIds |-> TRUE]
  /\ todo = <<>>
  /\ locked = FALSE

-----------------------------------------------------------------------------
(* Threads. *)

Idle == todo = <<>>

\* T is inside the application's ObjectHandler.
InHandler == ~Idle /\ Head(todo).op \in {"handler", "onError", "onDone"}

\* begin_close() and every on_error() run under the session mutex.
TakenByT == ~Idle /\ (locked \/ Head(todo).op \in {"onError", "closing"})

ApplicationMayRun == ~TakenByT \/ InHandler

\* T goes on with `rest`; `lock` says whether it holds the mutex throughout.
Go(rest, lock) ==
  /\ todo' = rest
  /\ locked' = (lock /\ rest # <<>>)

\* The on_error() call with which a termination of the requests S ends.
ErrorCall(S) == IF S = {} THEN <<>> ELSE <<[op |-> "onError"]>>

-----------------------------------------------------------------------------
(* Termination. *)

\* retire_route() for every alias in A: whoever owns it becomes inactive.
retire_routes(A) ==
  /\ active' = [r \in RequestIds |-> active[r] /\ \A a \in A : routes[a] # r]
  /\ routes' = [a \in Aliases |-> IF a \in A THEN None ELSE routes[a]]

\* The updates of r that are in flight.
InFlight(r) == Range(updates[r])

\* Mutation: the in-flight REQUEST_UPDATEs of a terminated request are forgotten.
Owed_RequestsOnly(S) == S

\* Whose futures the requests in S have to settle.
Owed(S) == S \cup UNION {InFlight(r) : r \in S}

\* SubscriptionRequest::terminate() of every request in S (live ones only):
\* fail what is still pending, retire the route the request has recorded,
\* leave the registry.
terminate(S) ==
  /\ future' = [id \in RequestIds |->
                  IF future[id] = "pending" /\ id \in Owed(S) THEN "failed" ELSE future[id]]
  /\ updates' = [r \in RequestIds |-> IF r \in S THEN <<>> ELSE updates[r]]
  /\ phase' = [r \in RequestIds |-> IF r \in S THEN "Terminated" ELSE phase[r]]
  /\ retire_routes({trackAlias[r] : r \in S} \ {None})
  /\ registered' = registered \ S

\* stop_subscription_now() of a registered request: terminate it and abort both
\* directions of its stream.
stop_subscription_now(r) ==
  /\ terminate({r})
  /\ cancelled' = cancelled \cup {r}

\* Mutation: closing the session leaves its subscriptions alone.
terminate_subscriptions_Forgets == {}

\* The copy of subscriptions_ whose entries terminate_subscriptions() ends.
terminate_subscriptions == registered

\* The rest of that loop, with the requests S still ahead.
Closing(S) == IF S = {} THEN <<>> ELSE <<[op |-> "closing", left |-> S]>>

\* The loop still has to come to r.
Ahead(work, r) == \E i \in Range(work) : i.op = "closing" /\ r \in i.left

\* Session::begin_close() before `rest`.
CloseSession(rest, lock) ==
  /\ \/ /\ session \in {"Closing", "Closed"}
        /\ Go(rest, lock)
        /\ UNCHANGED session
     \/ /\ session \in {"Opening", "Ready"}
        /\ session' = "Closing"
        /\ Go(Closing(terminate_subscriptions) \o rest, lock)
  /\ UNCHANGED <<requestVars, routeVars>>

\* One round of the loop, in the order of the hash table.  The on_error() of one
\* request runs while the requests behind it are still registered.
TerminateNext ==
  /\ ~Idle
  /\ Head(todo).op = "closing"
  /\ \E r \in Head(todo).left :
       LET rest == Closing(Head(todo).left \ {r}) \o Tail(todo) IN
       \/ /\ phase[r] = "Terminated"
          /\ Go(rest, locked)
          /\ UNCHANGED <<phase, registered, updates, future, routeVars>>
       \/ /\ phase[r] # "Terminated"
          /\ terminate({r})
          /\ Go(ErrorCall({r}) \o rest, locked)
  /\ UNCHANGED <<session, nextRequestId, trackAlias, sent, cancelled>>

\* terminate(reason) on T, as the last thing a control message does.
Terminate(r) ==
  /\ terminate({r})
  /\ Go(ErrorCall({r}), TRUE)
  /\ UNCHANGED <<session, nextRequestId, trackAlias, sent, cancelled>>

-----------------------------------------------------------------------------
(* Calls of the application. *)

\* allocate_request_id(); it throws when the space is exhausted.
CanAllocate == nextRequestId + 2 <= MaxRequestId

AllocateRequestId == CanAllocate /\ nextRequestId' = nextRequestId + 2

\* subscribe() on a Ready session.  `outcome` says how far it gets: opening the
\* stream throws, encoding the message throws after the request is registered,
\* StreamSend fails, or the SUBSCRIBE is sent.  A call on a session that is not
\* Ready, or with no ID left, fails its future and changes nothing.
subscribe(outcome) ==
  LET r == nextRequestId IN
  /\ ApplicationMayRun
  /\ session = "Ready"
  /\ AllocateRequestId
  /\ future' = [future EXCEPT ![r] = IF outcome = "sent" THEN "pending" ELSE "failed"]
  /\ phase' = [phase EXCEPT ![r] = CASE outcome = "openThrows" -> "none"
                                     [] outcome = "sendFails" -> "Terminated"
                                     [] OTHER -> "Pending"]
  /\ registered' = IF outcome \in {"sent", "encodeThrows"} THEN registered \cup {r} ELSE registered
  /\ sent' = IF outcome = "sent" THEN sent \cup {r} ELSE sent
  /\ cancelled' = IF outcome = "sendFails" THEN cancelled \cup {r} ELSE cancelled
  /\ UNCHANGED <<session, trackAlias, updates, routeVars, threadVars>>

\* request_update() of an established subscription; the ID is spent even if
\* StreamSend fails.
request_update(r, accepted) ==
  LET u == nextRequestId IN
  /\ ApplicationMayRun
  /\ r \in registered
  /\ phase[r] = "Established"
  /\ AllocateRequestId
  /\ future' = [future EXCEPT ![u] = IF accepted THEN "pending" ELSE "failed"]
  /\ updates' = IF accepted THEN [updates EXCEPT ![r] = Append(@, u)] ELSE updates
  /\ UNCHANGED <<session, phase, registered, trackAlias, sent, cancelled, routeVars, threadVars>>

\* stop_subscription(); an unknown ID is a no-op.
stop_subscription(r) ==
  /\ ApplicationMayRun
  /\ r \in registered
  /\ stop_subscription_now(r)
  /\ UNCHANGED <<session, nextRequestId, trackAlias, sent, threadVars>>

\* close() from a handler, or while T is between callbacks: the loop of
\* begin_close() is on top of whatever T was doing.
CloseHere ==
  /\ Idle \/ InHandler
  /\ CloseSession(todo, locked \/ Idle)

\* close() from another thread while T works without the mutex.  T cannot tell
\* the rounds of the loop apart, and the handlers called there do not call back.
CloseElsewhere ==
  /\ ~Idle /\ ~TakenByT
  /\ session \in {"Opening", "Ready"}
  /\ session' = "Closing"
  /\ terminate(terminate_subscriptions)
  /\ UNCHANGED <<nextRequestId, trackAlias, sent, cancelled, threadVars>>

close == ApplicationMayRun /\ (CloseHere \/ CloseElsewhere)

-----------------------------------------------------------------------------
(* Responses on the request stream of r.  The receive loop handles a message *)
(* only while the request is not Terminated.                                 *)

Response(r) ==
  /\ Idle
  /\ session # "Closed"
  /\ r \in sent
  /\ phase[r] \in Live

\* A message that is malformed, or that the request does not expect: anything
\* but SUBSCRIBE_OK and REQUEST_ERROR while Pending, a second SUBSCRIBE_OK, a
\* REQUEST_OK or REQUEST_ERROR nothing waits for; a FIN inside a message.
BadResponse(r) ==
  /\ Response(r)
  /\ Terminate(r)

\* RESET_STREAM, or the stream is gone.
StreamLost(r) ==
  /\ Idle
  /\ session # "Closed"
  /\ r \in registered
  /\ Terminate(r)

\* REQUEST_ERROR for the SUBSCRIBE: terminate() without a reason, no on_error().
SubscribeRejected(r) ==
  /\ Response(r)
  /\ phase[r] = "Pending"
  /\ terminate({r})
  /\ UNCHANGED <<session, nextRequestId, trackAlias, sent, cancelled, threadVars>>

\* Mutation: the failed updates stay queued.
Failed_StayQueued(queue) == queue

\* What fail_updates() leaves of the queue.
Failed(queue) == <<>>

\* REQUEST_ERROR for an update fails every update in flight.
UpdateRejected(r) ==
  /\ Response(r)
  /\ phase[r] # "Pending"
  /\ updates[r] # <<>>
  /\ future' = [id \in RequestIds |->
                  IF id \in InFlight(r) THEN "failed" ELSE future[id]]
  /\ updates' = [updates EXCEPT ![r] = Failed(@)]
  /\ phase' = [phase EXCEPT ![r] = "UpdateFailed"]
  /\ UNCHANGED <<session, nextRequestId, registered, trackAlias, sent, cancelled, routeVars, threadVars>>

\* Mutation: REQUEST_OK settles the newest update.
Answered_Newest(queue) == queue[Len(queue)]

Answered(queue) == Head(queue)

\* REQUEST_OK settles the oldest update.
RequestOk(r) ==
  /\ Response(r)
  /\ phase[r] # "Pending"
  /\ updates[r] # <<>>
  /\ future' = [future EXCEPT ![Answered(updates[r])] = "ok"]
  /\ updates' = [updates EXCEPT ![r] = Tail(@)]
  /\ UNCHANGED <<session, nextRequestId, phase, registered, trackAlias, sent, cancelled,
                 routeVars, threadVars>>

\* PUBLISH_DONE: on_publish_done() first, then terminate().
PublishDone(r) ==
  /\ Response(r)
  /\ phase[r] # "Pending"
  /\ Go(<<[op |-> "onDone", request |-> r]>>, TRUE)
  /\ UNCHANGED <<session, requestVars, routeVars>>

PublishDoneReturns ==
  /\ ~Idle
  /\ Head(todo).op = "onDone"
  /\ LET r == Head(todo).request IN
       \/ /\ phase[r] = "Terminated"
          /\ UNCHANGED <<phase, registered, updates, future, routeVars>>
       \/ /\ phase[r] # "Terminated"
          /\ terminate({r})
  /\ Go(Tail(todo), locked)
  /\ UNCHANGED <<session, nextRequestId, trackAlias, sent, cancelled>>

\* A message of a type that does not belong there is only reported.
UnknownResponse(r) ==
  /\ Response(r)
  /\ phase[r] # "Pending"
  /\ Go(ErrorCall({r}), TRUE)
  /\ UNCHANGED <<session, requestVars, routeVars>>

OnErrorReturns ==
  /\ ~Idle
  /\ Head(todo).op = "onError"
  /\ Go(Tail(todo), locked)
  /\ UNCHANGED <<session, requestVars, routeVars>>

-----------------------------------------------------------------------------
(* The connection. *)

\* maybe_ready()
SetupDone ==
  /\ Idle
  /\ session = "Opening"
  /\ session' = "Ready"
  /\ UNCHANGED <<requestVars, routeVars, threadVars>>

\* A transport error, or a protocol violation on some other stream.
SessionError ==
  /\ Idle
  /\ session # "Closed"
  /\ CloseSession(<<>>, TRUE)

\* SHUTDOWN_COMPLETE; MsQuic has reported the end of every stream before it.
ShutdownComplete ==
  /\ Idle
  /\ registered = {}
  /\ session' = "Closed"
  /\ UNCHANGED <<requestVars, routeVars, threadVars>>

\* What leaves the receive side of the data plane alone.
RequestStep ==
  \/ \E outcome \in {"openThrows", "encodeThrows", "sendFails", "sent"} : subscribe(outcome)
  \/ \E r \in RequestIds :
       \/ \E accepted \in BOOLEAN : request_update(r, accepted)
       \/ stop_subscription(r)
       \/ BadResponse(r)
       \/ StreamLost(r)
       \/ SubscribeRejected(r)
       \/ UpdateRejected(r)
       \/ RequestOk(r)
       \/ PublishDone(r)
       \/ UnknownResponse(r)
  \/ close
  \/ PublishDoneReturns
  \/ OnErrorReturns
  \/ TerminateNext
  \/ SetupDone
  \/ SessionError
  \/ ShutdownComplete
=============================================================================
