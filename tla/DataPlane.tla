----------------------------- MODULE DataPlane -----------------------------
(***************************************************************************)
(* The receive side of the data plane (src/data_plane.cpp): object         *)
(* datagrams and subgroup streams that may arrive before the SUBSCRIBE_OK  *)
(* that binds their Track Alias, are kept within limits, replayed when it  *)
(* comes, and delivered to the handler of the subscription.                *)
(*                                                                         *)
(* A stream's bytes are units: its header is HeaderUnits long and every    *)
(* object ObjectUnits, so a receive boundary can fall inside either.  What *)
(* a stream carries is its script; stash_ is what was received and not yet *)
(* consumed, so its size is a difference of two positions.                 *)
(***************************************************************************)
EXTENDS Subscriptions

CONSTANTS
  Streams,                  \* the subgroup streams the peer opens
  Scripts,                  \* what a stream may carry: [alias, group, endOfGroup, objects]
  Datagrams,                \* what a datagram may be: [alias, group, object, last, status, size, bad]
  Policies,                 \* values of unknown_alias_policy to choose from
  MaxBufferedBytes,         \* max_buffered_datagram_bytes
  MaxDatagramsPerAlias,     \* max_buffered_datagrams_per_alias
  MaxPendingStreams,        \* max_pending_subgroup_streams
  MaxStash,                 \* max_buffered_subgroup_bytes_per_stream
  MaxObjectId               \* numeric_limits<ObjectId>::max()

ASSUME PolicyAssumption == Policies \subseteq {"Drop", "Buffer", "Error"}
ASSUME LimitAssumption ==
  /\ MaxBufferedBytes \in Nat /\ MaxDatagramsPerAlias \in Nat
  /\ MaxPendingStreams \in Nat /\ MaxStash \in Nat /\ MaxObjectId \in Nat

VARIABLES
  wire,                     \* MsQuic: how far each stream has come
  script,                   \* what each stream carries
  rx,                       \* the SubgroupReceiver of each stream
  parked,                   \* pending_subgroups_by_alias_
  parkedCount,              \* pending_subgroup_stream_count_
  buffered,                 \* unknown_datagrams_
  bufferedBytes,            \* buffered_datagram_bytes_
  finalInGroup,             \* final_object_in_group of the route of each request
  finalInTrack,             \* final_object_in_track of the route of each request
  policy,                   \* unknown_alias_policy, fixed when the Subscriber is made
  late                      \* on_object() calls begun after the request terminated

bufferVars == <<parked, parkedCount, buffered, bufferedBytes>>
markerVars == <<finalInGroup, finalInTrack>>
streamVars == <<wire, script, rx>>
planeVars == <<streamVars, bufferVars, markerVars, late>>
vars == <<session, requestVars, routeVars, threadVars, planeVars, policy>>

HeaderUnits == 2
ObjectUnits == 2
Groups == {c.group : c \in Scripts \cup Datagrams}
Location == [group : Groups, object : 0..MaxObjectId]

\* A fresh SubgroupReceiver: nothing received, no object parsed.
NewReceiver ==
  [received |-> 0, parsed |-> 0, headerDone |-> FALSE, closed |-> FALSE, waiting |-> FALSE,
   finWhilePending |-> FALSE, route |-> None, last |-> None]

ReceiverType ==
  [received : Nat, parsed : Nat, headerDone : BOOLEAN, closed : BOOLEAN, waiting : BOOLEAN,
   finWhilePending : BOOLEAN, route : RequestIds \cup {None}, last : 0..MaxObjectId \cup {None}]

DataPlaneTypeOK ==
  /\ wire \in [Streams -> {"new", "open", "fin", "done"}]
  /\ script \in [Streams -> Scripts]
  /\ policy \in Policies
  /\ rx \in [Streams -> ReceiverType]
  /\ parked \in [Aliases -> Seq(Streams)]
  /\ parkedCount \in 0..MaxPendingStreams
  /\ buffered \in [Aliases -> Seq(Datagrams)]
  /\ bufferedBytes \in 0..MaxBufferedBytes
  /\ finalInGroup \in [RequestIds -> [Groups -> 0..MaxObjectId \cup {None}]]
  /\ finalInTrack \in [RequestIds -> Location \cup {None}]
  /\ late \in [RequestIds -> Nat]

DataPlaneInit ==
  /\ wire = [s \in Streams |-> "new"]
  /\ script \in [Streams -> Scripts]
  /\ policy \in Policies
  /\ rx = [s \in Streams |-> NewReceiver]
  /\ parked = [a \in Aliases |-> <<>>]
  /\ parkedCount = 0
  /\ buffered = [a \in Aliases |-> <<>>]
  /\ bufferedBytes = 0
  /\ finalInGroup = [r \in RequestIds |-> [g \in Groups |-> None]]
  /\ finalInTrack = [r \in RequestIds |-> None]
  /\ late = [r \in RequestIds |-> 0]

-----------------------------------------------------------------------------
(* Delivery. *)

\* track_error: the subscription ends as MALFORMED_TRACK if it still exists.
TrackError(r, rest, lock) ==
  /\ \/ /\ r \in registered
        /\ stop_subscription_now(r)
        /\ Go(ErrorCall({r}) \o rest, lock)
     \/ /\ r \notin registered
        /\ Go(rest, lock)
        /\ UNCHANGED <<phase, registered, updates, future, cancelled, routeVars>>
  /\ UNCHANGED <<session, nextRequestId, trackAlias, sent, finalInTrack>>

\* Mutation: the end of the track is compared by object only.
Behind_ObjectOnly(o, end) == o.object > end.object

\* Mutation: the end of the track is not tested.
Behind_Never(o, end) == FALSE

\* The object lies behind the location `end`.
Behind(o, end) == o.group > end.group \/ (o.group = end.group /\ o.object > end.object)

\* The object lies behind a marker of its route.
PastFinal(o, finals) ==
  \/ finals[o.group] # None /\ o.object > finals[o.group]
  \/ finalInTrack[o.request] # None /\ Behind(o, finalInTrack[o.request])

\* Mutation: the route is not tested before the call of on_object().
Active_Always(r) == TRUE

Active(r) == active[r]

\* deliver() up to the call of on_object(), which becomes the next item.
\* `finals` are the group markers the caller has just written.
deliver(o, finals, rest, lock) ==
  \/ /\ ~Active(o.request)
     /\ finalInGroup' = [finalInGroup EXCEPT ![o.request] = finals]
     /\ Go(rest, lock)
     /\ UNCHANGED <<session, requestVars, routeVars, finalInTrack>>
  \/ /\ Active(o.request)
     /\ PastFinal(o, finals)
     /\ finalInGroup' = [finalInGroup EXCEPT ![o.request] = finals]
     /\ TrackError(o.request, rest, lock)
  \/ /\ Active(o.request)
     /\ ~PastFinal(o, finals)
     /\ finalInGroup' = [finalInGroup EXCEPT ![o.request] =
                           IF o.status = "EndOfGroup" THEN [finals EXCEPT ![o.group] = o.object] ELSE finals]
     /\ finalInTrack' = [finalInTrack EXCEPT ![o.request] =
                           IF o.status = "EndOfTrack" THEN [group |-> o.group, object |-> o.object] ELSE @]
     /\ Go(<<[op |-> "object", object |-> o]>> \o rest, lock)
     /\ UNCHANGED <<session, requestVars, routeVars>>

\* The SUBSCRIBE_OK that gives r the alias a is still replaying what was kept.
Installing(work, r, a) ==
  \E i \in Range(work) : i.op = "installed" /\ i.request = r /\ i.alias = a

\* T enters on_object().  An application that has stopped the subscription in
\* the meantime sees this call as late.
OnObject ==
  /\ ~Idle
  /\ Head(todo).op = "object"
  /\ LET r == Head(todo).object.request IN
       late' = IF phase[r] = "Terminated" /\ (\A a \in Aliases : ~Installing(todo, r, a)) THEN [late EXCEPT ![r] = @ + 1] ELSE late
  /\ Go(<<[op |-> "handler"]>> \o Tail(todo), locked)
  /\ UNCHANGED <<session, requestVars, routeVars, streamVars, bufferVars, markerVars>>

OnObjectReturns ==
  /\ ~Idle
  /\ Head(todo).op = "handler"
  /\ Go(Tail(todo), locked)
  /\ UNCHANGED <<session, requestVars, routeVars, planeVars>>

-----------------------------------------------------------------------------
(* Datagrams. *)

\* buffer_unknown_datagram(): both limits leave room for d.
HasRoom(d) ==
  /\ bufferedBytes + d.size <= MaxBufferedBytes
  /\ Len(buffered[d.alias]) < MaxDatagramsPerAlias

\* deliver_datagram() of a datagram whose alias has a route.
RoutedDatagram(d, rest, lock) ==
  LET r == routes[d.alias]
      finals == IF d.last THEN [finalInGroup[r] EXCEPT ![d.group] = d.object] ELSE finalInGroup[r]
      o == [request |-> r, group |-> d.group, object |-> d.object, status |-> d.status]
  IN \/ /\ d.bad = "body"
        /\ CloseSession(rest, lock)
        /\ UNCHANGED markerVars
     \/ /\ d.bad = "none"
        /\ deliver(o, finals, rest, lock)

\* on_datagram(): a header that cannot be parsed is a violation whatever the
\* alias; a datagram for an unknown alias meets the policy.
Datagram(d) ==
  /\ Idle
  /\ session # "Closed"
  /\ \/ /\ d.bad = "header" \/ (d.bad # "header" /\ routes[d.alias] = None /\ policy = "Error")
        /\ CloseSession(<<>>, TRUE)
        /\ UNCHANGED <<markerVars, buffered, bufferedBytes>>
     \/ /\ d.bad # "header"
        /\ routes[d.alias] # None
        /\ RoutedDatagram(d, <<>>, TRUE)
        /\ UNCHANGED <<buffered, bufferedBytes>>
     \/ /\ d.bad # "header"
        /\ routes[d.alias] = None
        /\ policy = "Buffer"
        /\ HasRoom(d)
        /\ buffered' = [buffered EXCEPT ![d.alias] = Append(@, d)]
        /\ bufferedBytes' = bufferedBytes + d.size
        /\ UNCHANGED <<session, requestVars, routeVars, threadVars, markerVars>>
  /\ UNCHANGED <<streamVars, parked, parkedCount, late>>

\* Mutation: the replayed bytes stay on the account.
GiveBack_Nothing(d) == UNCHANGED bufferedBytes

GiveBack(d) == bufferedBytes' = bufferedBytes - d.size

\* The loop of install_route() over the datagrams, with `queue` still ahead.
AheadDatagrams(queue) == IF queue = <<>> THEN <<>> ELSE <<[op |-> "datagrams", left |-> queue]>>

\* One round of it.
ReplayDatagram ==
  /\ ~Idle
  /\ Head(todo).op = "datagrams"
  /\ LET d == Head(Head(todo).left)
         rest == AheadDatagrams(Tail(Head(todo).left)) \o Tail(todo)
     IN /\ GiveBack(d)
        /\ \/ /\ routes[d.alias] # None
              /\ RoutedDatagram(d, rest, locked)
           \/ /\ routes[d.alias] = None
              /\ Go(rest, locked)
              /\ UNCHANGED <<session, requestVars, routeVars, markerVars>>
  /\ UNCHANGED <<streamVars, parked, parkedCount, buffered, late>>

-----------------------------------------------------------------------------
(* Subgroup streams. *)

Consumed(x) == IF x.headerDone THEN HeaderUnits + ObjectUnits * x.parsed ELSE 0
Stash(x) == x.received - Consumed(x)

\* find_or_park_subgroup() and discard_pending_subgroup()
Park(s) ==
  /\ parked' = [parked EXCEPT ![script[s].alias] = Append(@, s)]
  /\ parkedCount' = parkedCount + 1

\* Mutation: the stream leaves the list but stays counted.
Unpark_Uncounted(s) ==
  /\ parked' = [parked EXCEPT ![script[s].alias] = SelectSeq(@, LAMBDA q : q # s)]
  /\ UNCHANGED parkedCount

Unpark(s) ==
  /\ parked' = [parked EXCEPT ![script[s].alias] =
                  IF @ = <<>> THEN @ ELSE SelectSeq(@, LAMBDA q : q # s)]
  /\ parkedCount' = parkedCount - Len(SelectSeq(parked[script[s].alias], LAMBDA q : q = s))

\* A receiver that takes nothing more: abandon(), fail() or a reset.
Closed(x) == [x EXCEPT !.closed = TRUE, !.waiting = FALSE, !.received = Consumed(x)]

\* The last item of `run`: objects are parsed until the data runs out.
Run(s, fin) == [op |-> "run", stream |-> s, fin |-> fin]

NoParking == UNCHANGED <<parked, parkedCount>>
NoSessionChange == UNCHANGED <<session, requestVars, routeVars>>

\* Mutation: under the Error policy an unknown alias only costs the stream.
unknown_alias_policy_Lenient == IF policy = "Error" THEN "Drop" ELSE policy

unknown_alias_policy == policy

\* run() finds the header complete: x is the receiver, route looked up.
HeaderComplete(s, x, fin, lock) ==
  LET r == routes[script[s].alias] IN
  \/ /\ r # None
     /\ rx' = [rx EXCEPT ![s] = [x EXCEPT !.headerDone = TRUE, !.route = r]]
     /\ Go(<<Run(s, fin)>>, lock)
     /\ NoParking /\ NoSessionChange
  \/ /\ r = None
     /\ unknown_alias_policy = "Error"
     /\ rx' = [rx EXCEPT ![s] = Closed(x)]
     /\ CloseSession(<<>>, lock)
     /\ NoParking
  \/ /\ r = None
     /\ \/ unknown_alias_policy = "Drop"
        \/ unknown_alias_policy = "Buffer" /\ parkedCount >= MaxPendingStreams
     /\ rx' = [rx EXCEPT ![s] = Closed(x)]
     /\ NoParking /\ NoSessionChange /\ UNCHANGED threadVars
  \/ /\ r = None
     /\ unknown_alias_policy = "Buffer"
     /\ parkedCount < MaxPendingStreams
     /\ LET y == [x EXCEPT !.headerDone = TRUE, !.waiting = TRUE, !.finWhilePending = fin] IN
          \/ /\ Stash(y) <= MaxStash
             /\ rx' = [rx EXCEPT ![s] = y]
             /\ Park(s)
          \/ /\ Stash(y) > MaxStash      \* parked and abandoned in the same call
             /\ rx' = [rx EXCEPT ![s] = Closed(y)]
             /\ NoParking
     /\ NoSessionChange /\ UNCHANGED threadVars

\* on_receive() with k more units.  MsQuic repeats a FIN as PEER_SEND_SHUTDOWN;
\* the first receive comes through the PeerStreamGate, under the session mutex.
Receive(s, k, fin) ==
  LET x == [rx[s] EXCEPT !.received = @ + k]
      lock == wire[s] = "new"
  IN
  /\ Idle
  /\ session # "Closed"
  /\ ~rx[s].closed
  /\ CASE wire[s] = "new" -> k > 0
       [] wire[s] = "open" -> k > 0 \/ fin
       [] wire[s] = "fin" -> k = 0 /\ fin
       [] OTHER -> FALSE
  /\ wire' = [wire EXCEPT ![s] = IF ~fin THEN "open" ELSE IF @ = "fin" THEN "done" ELSE "fin"]
  /\ \/ /\ ~x.headerDone                 \* the header is still incomplete
        /\ x.received < HeaderUnits
        /\ IF fin THEN rx' = [rx EXCEPT ![s] = Closed(x)] /\ CloseSession(<<>>, lock)
                  ELSE rx' = [rx EXCEPT ![s] = x] /\ NoSessionChange /\ UNCHANGED threadVars
        /\ NoParking
     \/ /\ ~x.headerDone
        /\ x.received >= HeaderUnits
        /\ HeaderComplete(s, x, fin, lock)
     \/ /\ x.headerDone
        /\ x.waiting
        /\ \/ /\ Stash(x) <= MaxStash
              /\ rx' = [rx EXCEPT ![s] = [x EXCEPT !.finWhilePending = @ \/ fin]]
              /\ NoParking
           \/ /\ Stash(x) > MaxStash
              /\ rx' = [rx EXCEPT ![s] = Closed(x)]
              /\ Unpark(s)
        /\ NoSessionChange /\ UNCHANGED threadVars
     \/ /\ x.headerDone
        /\ ~x.waiting
        /\ rx' = [rx EXCEPT ![s] = x]
        /\ Go(<<Run(s, fin)>>, lock)
        /\ NoParking /\ NoSessionChange
  /\ UNCHANGED <<script, buffered, bufferedBytes, markerVars, late>>

\* on_peer_send_aborted()
Reset(s) ==
  /\ Idle
  /\ session # "Closed"
  /\ wire[s] = "open"
  /\ wire' = [wire EXCEPT ![s] = "done"]
  /\ rx' = [rx EXCEPT ![s] = Closed(@)]
  /\ IF rx[s].waiting THEN Unpark(s) ELSE NoParking
  /\ UNCHANGED <<session, requestVars, routeVars, threadVars, script, buffered, bufferedBytes,
                 markerVars, late>>

\* What parse_object() makes of the next object of s.
Available(s) == Stash(rx[s])
NextObject(s) == script[s].objects[rx[s].parsed + 1]
HasNext(s) == rx[s].parsed < Len(script[s].objects)

\* The next Object ID would exceed 64 bits.
Overflows(s) ==
  /\ rx[s].last # None
  /\ \/ rx[s].last = MaxObjectId
     \/ NextObject(s).delta > MaxObjectId - (rx[s].last + 1)

\* Properties are rejected as soon as they are read, a status or an overflow
\* once the object is complete.
Malformed(s) ==
  /\ HasNext(s)
  /\ \/ NextObject(s).bad = "properties" /\ Available(s) > 0
     \/ /\ Available(s) >= ObjectUnits
        /\ NextObject(s).bad = "status" \/ Overflows(s)

Complete(s) == HasNext(s) /\ Available(s) >= ObjectUnits /\ ~Malformed(s)

ObjectIdOf(s) ==
  IF rx[s].last = None THEN NextObject(s).delta ELSE rx[s].last + NextObject(s).delta + 1

\* One round of the loop of run(), at the top of the stack.
RunObject ==
  /\ ~Idle
  /\ Head(todo).op = "run"
  /\ LET s == Head(todo).stream
         r == rx[s].route
         o == [request |-> r, group |-> script[s].group, object |-> ObjectIdOf(s),
               status |-> NextObject(s).status]
     IN /\ Complete(s)
        /\ rx' = [rx EXCEPT ![s].parsed = @ + 1, ![s].last = ObjectIdOf(s)]
        /\ deliver(o, finalInGroup[r], todo, locked)
  /\ UNCHANGED <<wire, script, bufferVars, late>>

\* A malformed object, or a FIN inside one, closes the session.
RunFails ==
  /\ ~Idle
  /\ Head(todo).op = "run"
  /\ LET s == Head(todo).stream IN
       /\ Malformed(s) \/ (~Complete(s) /\ Head(todo).fin /\ Available(s) # 0)
       /\ rx' = [rx EXCEPT ![s] = Closed(@)]
  /\ CloseSession(Tail(todo), locked)
  /\ UNCHANGED <<wire, script, bufferVars, markerVars, late>>

\* Mutation: the loop only stops at a FIN.
Breaks_AtFinOnly(s, fin) == ~Malformed(s) /\ ~Complete(s) /\ fin

Breaks(s, fin) == ~Malformed(s) /\ ~Complete(s)

\* The data has run out.  A FIN closes the receiver and, if the header said so,
\* makes its last object the final one of the group.
RunEnds ==
  /\ ~Idle
  /\ Head(todo).op = "run"
  /\ LET s == Head(todo).stream
         x == rx[s]
     IN /\ Breaks(s, Head(todo).fin)
        /\ \/ /\ ~Head(todo).fin
              /\ UNCHANGED <<rx, finalInGroup>>
           \/ /\ Head(todo).fin
              /\ Available(s) = 0
              /\ rx' = [rx EXCEPT ![s].closed = TRUE]
              /\ finalInGroup' = IF script[s].endOfGroup /\ x.last # None
                                 THEN [finalInGroup EXCEPT ![x.route][script[s].group] = x.last]
                                 ELSE finalInGroup
  /\ Go(Tail(todo), locked)
  /\ UNCHANGED <<session, requestVars, routeVars, wire, script, bufferVars, finalInTrack, late>>

-----------------------------------------------------------------------------
(* SUBSCRIBE_OK. *)

\* Mutation: a FIN that came while the stream was parked is forgotten.
KeptFin_Lost(x) == FALSE

KeptFin(x) == x.finWhilePending

\* The loop of install_route() over the streams, with `queue` still ahead.
AheadStreams(r, queue) ==
  IF queue = <<>> THEN <<>> ELSE <<[op |-> "streams", request |-> r, left |-> queue]>>

\* One round of it: SubgroupReceiver::establish()
Establish ==
  /\ ~Idle
  /\ Head(todo).op = "streams"
  /\ LET r == Head(todo).request
         s == Head(Head(todo).left)
         x == rx[s]
         rest == AheadStreams(r, Tail(Head(todo).left)) \o Tail(todo)
     IN \/ /\ x.closed \/ ~x.waiting
           /\ Go(rest, locked)
           /\ UNCHANGED rx
        \/ /\ ~x.closed /\ x.waiting
           /\ rx' = [rx EXCEPT ![s] = [x EXCEPT !.route = r, !.waiting = FALSE]]
           /\ Go(<<Run(s, KeptFin(x))>> \o rest, locked)
  /\ UNCHANGED <<session, requestVars, routeVars, wire, script, bufferVars, markerVars, late>>

\* What install_route() and the rest of the SUBSCRIBE_OK handler have to do:
\* replay the datagrams, then the streams, then record the outcome.
Replay(r, a) ==
  AheadDatagrams(buffered[a]) \o AheadStreams(r, parked[a])
    \o <<[op |-> "installed", request |-> r, alias |-> a]>>

\* Mutation: the streams are replayed but stay parked.
TakeParked_Keeps(a) == UNCHANGED <<parked, parkedCount>>

TakeParked(a) ==
  /\ parked' = [parked EXCEPT ![a] = <<>>]
  /\ parkedCount' = parkedCount - Len(parked[a])

\* Mutation: the datagrams are replayed but stay buffered.
TakeBuffered_Keeps(a) == UNCHANGED buffered

TakeBuffered(a) == buffered' = [buffered EXCEPT ![a] = <<>>]

\* SUBSCRIBE_OK for a pending request, up to the replay.  The bytes of the
\* buffered datagrams are given back one by one as they are replayed.
SubscribeOk(r, a) ==
  /\ Response(r)
  /\ phase[r] = "Pending"
  /\ \/ /\ routes[a] # None
        /\ CloseSession(<<>>, TRUE)
        /\ UNCHANGED bufferVars
     \/ /\ routes[a] = None
        /\ routes' = [routes EXCEPT ![a] = r]
        /\ TakeParked(a)
        /\ TakeBuffered(a)
        /\ Go(Replay(r, a), TRUE)
        /\ UNCHANGED <<active, session, requestVars, bufferedBytes>>
  /\ UNCHANGED <<streamVars, markerVars, late>>

\* Mutation: the request is not tested again after the replay.
EndedMeanwhile_Untested(r) == FALSE

EndedMeanwhile(r) == phase[r] = "Terminated"

\* The handler's last lines: a request that a callback of the replay terminated
\* gives the route back, any other is established.
Installed ==
  /\ ~Idle
  /\ Head(todo).op = "installed"
  /\ LET r == Head(todo).request
         a == Head(todo).alias
     IN \/ /\ EndedMeanwhile(r)
           /\ retire_routes({a})
           /\ UNCHANGED <<trackAlias, phase, future>>
        \/ /\ ~EndedMeanwhile(r)
           /\ trackAlias' = [trackAlias EXCEPT ![r] = a]
           /\ phase' = [phase EXCEPT ![r] = "Established"]
           /\ future' = [future EXCEPT ![r] = "ok"]
           /\ UNCHANGED routeVars
  /\ Go(Tail(todo), locked)
  /\ UNCHANGED <<session, nextRequestId, registered, updates, sent, cancelled, planeVars>>
=============================================================================
