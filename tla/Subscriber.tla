---------------------------- MODULE Subscriber ----------------------------
(***************************************************************************)
(* The Subscriber: its requests (Subscriptions) over its data plane        *)
(* (DataPlane), driven by the application and by the transport thread.     *)
(***************************************************************************)
EXTENDS DataPlane

Init == SubscriptionsInit /\ DataPlaneInit

DatagramStep == \E d \in Datagrams : Datagram(d)

StreamStep ==
  \E s \in Streams :
    \/ \E k \in 0..(HeaderUnits + ObjectUnits * Len(script[s].objects) - rx[s].received),
          fin \in BOOLEAN : Receive(s, k, fin)
    \/ Reset(s)

AnswerStep == \E r \in RequestIds, a \in Aliases : SubscribeOk(r, a)

\* T goes on with the callback it is in.
Continue ==
  \/ OnObject
  \/ OnObjectReturns
  \/ ReplayDatagram
  \/ RunObject
  \/ RunFails
  \/ RunEnds
  \/ Establish
  \/ Installed

Next ==
  /\ \/ RequestStep /\ UNCHANGED planeVars
     \/ AnswerStep
     \/ DatagramStep
     \/ StreamStep
     \/ Continue
  /\ UNCHANGED policy

Spec == Init /\ [][Next]_vars

\* T executes: a callback that has begun goes on, and the application's handlers
\* return.
TransportThread ==
  /\ \/ Continue
     \/ (PublishDoneReturns \/ OnErrorReturns \/ TerminateNext) /\ UNCHANGED planeVars
  /\ UNCHANGED policy

FairSpec == Spec /\ WF_vars(TransportThread)

-----------------------------------------------------------------------------

TypeOK == SubscriptionsTypeOK /\ DataPlaneTypeOK /\ locked \in BOOLEAN

\* A request is registered exactly while it is live, and owns a route exactly
\* while it is established under that alias or its SUBSCRIBE_OK is being
\* replayed.  So retire_route(), which looks up an alias only, always retires
\* the route of its own request, and no route outlives its request.
RouteOwnership ==
  /\ \A r \in RequestIds : r \in registered <=> phase[r] \in Live
  /\ \A r \in RequestIds, a \in Aliases :
       routes[a] = r <=> \/ phase[r] \in {"Established", "UpdateFailed"} /\ trackAlias[r] = a
                         \/ Installing(todo, r, a)
  /\ \A a \in Aliases : routes[a] # None => active[routes[a]]

\* A future is pending exactly while somebody will settle it: the SUBSCRIBE went
\* out and is unanswered, or the REQUEST_UPDATE is queued at a live request.
\* Every way a request ends (stop_subscription, reset, PUBLISH_DONE, a malformed
\* track, close, all of them possibly inside a callback) settles its futures.
FuturesAccounted ==
  \A id \in RequestIds :
    future[id] = "pending" <=> \/ id \in sent /\ phase[id] = "Pending"
                               \/ \E r \in registered : id \in InFlight(r)

\* begin_close() reaches every subscription, and none starts once it has begun,
\* even from inside the on_error() calls between its rounds.
ClosingEndsAll ==
  session \in {"Closing", "Closed"} =>
    \A r \in registered : Ahead(todo, r)

\* Nothing is kept for an alias that has a route: what arrived early is replayed
\* by the SUBSCRIBE_OK that installs the route, what arrives later is delivered.
NothingKeptForRouted ==
  \A a \in Aliases : routes[a] # None => buffered[a] = <<>> /\ parked[a] = <<>>

\* A stream waits for a route exactly while it is listed once under its alias,
\* or about to be established: no stream is lost to every later SUBSCRIBE_OK and
\* none is established twice.
WaitingIsListed ==
  \A s \in Streams :
    LET listed == {n \in DOMAIN parked[script[s].alias] : parked[script[s].alias][n] = s}
        queued == {n \in DOMAIN todo : todo[n].op = "streams" /\ s \in Range(todo[n].left)}
    IN Cardinality(listed) + Cardinality(queued) = (IF rx[s].waiting THEN 1 ELSE 0)

SizesOf(datagrams) == SumFunction([n \in DOMAIN datagrams |-> datagrams[n].size])

\* The limits of SubscriberConfig are exact: both counters equal what is kept (a
\* datagram that waits for its replay still counts), neither exceeds its limit,
\* and no alias and no parked stream keeps more than its share.
BudgetsExact ==
  LET replay == {n \in DOMAIN todo : todo[n].op = "datagrams"} IN
  /\ parkedCount = SumFunction([a \in Aliases |-> Len(parked[a])])
  /\ bufferedBytes = SumFunction([a \in Aliases |-> SizesOf(buffered[a])])
                       + SumFunction([n \in replay |-> SizesOf(todo[n].left)])
  /\ parkedCount <= MaxPendingStreams /\ bufferedBytes <= MaxBufferedBytes
  /\ \A a \in Aliases : Len(buffered[a]) <= MaxDatagramsPerAlias
  /\ \A s \in Streams : rx[s].waiting => Stash(rx[s]) <= MaxStash

\* Between callbacks an established stream holds no complete object back and has
\* acted on its FIN, although both may have come while it was parked.
NothingStuck ==
  Idle => \A s \in Streams :
    rx[s].headerDone /\ ~rx[s].waiting /\ ~rx[s].closed
      => ~Complete(s) /\ ~Malformed(s) /\ wire[s] = "open"

\* The check of `active` and the call of on_object() are two steps for T when it
\* works without the session mutex: an application that stops a subscription
\* from another thread sees at most the one object that was in flight.
AtMostOneLate == \A r \in RequestIds : late[r] <= 1

\* No object behind the end of its track reaches the handler.
TrackEndHonoured ==
  \A n \in DOMAIN todo : todo[n].op = "object" =>
    LET o == todo[n].object
        end == finalInTrack[o.request]
    IN end # None => \/ o.group < end.group
                     \/ o.group = end.group /\ o.object <= end.object

\* std::promise is settled once: a second set_value() would throw into MsQuic.
SettledOnce ==
  [][\A id \in RequestIds : future[id] \in {"ok", "failed"} => future'[id] = future[id]]_future

\* REQUEST_OK answers updates in the order they were sent.
UpdatesInOrder ==
  [][\A r \in RequestIds : \A m, n \in DOMAIN updates[r] :
       m < n /\ future'[updates[r][n]] = "ok" => future'[updates[r][m]] # "pending"]_future

\* The end of a track only moves forward in time to an earlier location; the end
\* of a group is raised only by a datagram that carries the end-of-group flag or
\* by the FIN of a stream whose header announced it, never by a status object.
MarkersTighten ==
  [][\A r \in RequestIds :
       /\ finalInTrack[r] # None
            => /\ finalInTrack'[r].group <= finalInTrack[r].group
               /\ finalInTrack'[r].group = finalInTrack[r].group
                    => finalInTrack'[r].object <= finalInTrack[r].object
       /\ \A g \in Groups :
            finalInGroup[r][g] # None /\ finalInGroup'[r][g] > finalInGroup[r][g]
              => \/ \E d \in Datagrams : d.last /\ d.group = g /\ d.object = finalInGroup'[r][g]
                 \/ ~Idle /\ Head(todo).op = "run" /\ Head(todo).fin]_markerVars

\* Unless the policy is to buffer, nothing waits for a SUBSCRIBE_OK: no stream is
\* parked and no datagram buffered.  Under the Error policy a stream is given up
\* before its header is complete and accepted only together with the session,
\* unless the peer reset it.
PolicyHonoured ==
  /\ policy # "Buffer" =>
       /\ \A s \in Streams : ~rx[s].waiting
       /\ \A a \in Aliases : buffered[a] = <<>> /\ parked[a] = <<>>
  /\ policy = "Error" => \A s \in Streams : rx[s].closed /\ ~rx[s].headerDone
       => session \in {"Closing", "Closed"} \/ wire[s] = "done"

\* Every callback of the transport thread ends: the replay loop, the object loop
\* and the calls of handlers never block it for good.
CallbackEnds == ~Idle ~> Idle

-----------------------------------------------------------------------------
(* What the documentation says and the code does not do. *)

\* docs/Subscriber-API.md, stop_subscription: it "removes its receive route".
StopRemovesRoute ==
  \A r \in cancelled, a \in Aliases : routes[a] # r
=============================================================================
