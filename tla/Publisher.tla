----------------------------- MODULE Publisher -----------------------------
(***************************************************************************)
(* A Publisher session: the SUBSCRIBE requests of the peer with their      *)
(* updates, the announcement of namespaces, and the calls of the           *)
(* application (src/publisher_session.cpp), over the sending side of       *)
(* SendDataPlane.                                                          *)
(*                                                                         *)
(* Every operation holds the session mutex from its first to its last      *)
(* access, so it is one step.  Only publish() is several; while it runs    *)
(* nothing else does, except that the peer can make a stream unusable at   *)
(* any time.  A Track Alias is never used twice, so the request stands for *)
(* its alias.                                                              *)
(***************************************************************************)
EXTENDS SendDataPlane, Lists

CONSTANTS
  Options,                  \* SubscriptionOptions of the peer's requests
  MaxSubscriptions,         \* PublisherConfig::max_subscriptions
  MaxPending,               \* bound on the length of pending_announcements_
  LongReasons               \* end_track() may get a reason no message can carry

ASSUME LimitAssumption == MaxSubscriptions \in Nat
ASSUME OptionsAssumption == \A x \in Options : OptionsOK(x)

VARIABLES
  session,                  \* state_.phase, Init and SetupInProgress joined
  requests,                 \* the keys of subscriptions_
  peerIds,                  \* peer_request_ids_
  replies,                  \* what was sent on each request stream
  gone,                     \* request streams on which StreamSend fails
  pending,                  \* pending_announcements_
  announced,                \* announced_namespaces_: the namespace announced under a text
  refused                   \* namespaces whose announcement once failed

requestVars == <<requests, peerIds, replies>>
announceVars == <<pending, announced, refused>>
vars == <<planeVars, session, requestVars, gone, announceVars>>

Namespaces == {t.ns : t \in Tracks}

Init ==
  /\ PlaneInit
  /\ session = "Opening"
  /\ requests = {}
  /\ peerIds = {}
  /\ replies = [r \in PeerIds |-> <<>>]
  /\ gone = {}
  /\ pending = <<>>
  /\ announced = <<>>
  /\ refused = {}

\* The session mutex is free.
LockFree == ~Publishing

-----------------------------------------------------------------------------
(* Ending subscriptions. *)

\* message[r] is sent on each stream r of S, unless the peer has made sending
\* impossible.
Reply(S, message) ==
  replies' = [r \in PeerIds |-> IF r \in S \ gone THEN Append(replies[r], message[r]) ELSE replies[r]]

CountOf(r) == IF r \in DOMAIN subs THEN subs[r].count ELSE 0

\* Mutation: PUBLISH_DONE counts the streams that are still open.
Done_CountsOpen(r) == <<"done", IF r \in DOMAIN subs THEN Cardinality(Listed(r)) ELSE 0>>

Done(r) == <<"done", CountOf(r)>>

\* SubscriptionRequest::finish() of every request in S.
finish(S) ==
  /\ DetachStreams(S, "fin")
  /\ Reply(S, [r \in S |-> Done(r)])
  /\ requests' = requests \ S

\* SubscriptionRequest::cancel() of every request in S.
cancel(S) ==
  /\ DetachStreams(S, "reset")
  /\ tracks' = DetachedTracks(S)
  /\ Reply(S, [r \in S |-> <<"reset">>])
  /\ requests' = requests \ S

\* Mutation: closing the session leaves its subscriptions alone.
terminate_subscriptions_Forgets == UNCHANGED <<tracks, subs, wire, requests, replies>>

terminate_subscriptions == cancel(requests)

\* Session::begin_close()
begin_close ==
  \/ /\ session \in {"Closing", "Closed"}
     /\ UNCHANGED <<session, tracks, subs, wire, requests, replies>>
  \/ /\ session \in {"Opening", "Ready"}
     /\ session' = "Closing"
     /\ terminate_subscriptions

\* close(), a transport error, a malformed message, an unknown or a premature
\* peer request, an unexpected message or a FIN inside one.
ClosesSession ==
  /\ LockFree
  /\ session \in {"Opening", "Ready"}
  /\ begin_close
  /\ UNCHANGED <<datagrams, publishing, published, peerIds, gone, announceVars>>

\* MsQuic has closed every stream before it reports the end of the connection.
ShutdownComplete ==
  /\ LockFree
  /\ requests = {}
  /\ session # "Closed"
  /\ session' = "Closed"
  /\ UNCHANGED <<planeVars, requestVars, gone, announceVars>>

-----------------------------------------------------------------------------
(* Announcements. *)

namespace_text(ns) ==
  LET text[n \in 0..Len(ns)] ==
        IF n = 0 THEN <<>>
        ELSE IF text[n - 1] = <<>> THEN ns[n] ELSE text[n - 1] \o <<"/">> \o ns[n]
  IN text[Len(ns)]

Reserved(ns) == ns # <<>> /\ Head(ns) = <<".">>

\* announced_namespaces_ after announce_namespace(ns).  Opening the stream,
\* taking a Request ID, encoding or sending may fail, which is only logged.
Announce(table, ns, works) ==
  LET text == namespace_text(ns)
  IN IF text \in DOMAIN table \/ ~works THEN table
     ELSE [x \in DOMAIN table \cup {text} |-> IF x = text THEN ns ELSE table[x]]

\* on_ready(): `works` are the places of the announcements that do not fail.
on_ready(works) ==
  LET table[n \in 0..Len(pending)] ==
        IF n = 0 THEN announced ELSE Announce(table[n - 1], pending[n], n \in works)
  IN /\ announced' = table[Len(pending)]
     /\ refused' = refused \cup {pending[n] : n \in DOMAIN pending \ works}
     /\ pending' = <<>>

BecomesReady ==
  /\ LockFree
  /\ session = "Opening"
  /\ session' = "Ready"
  /\ \E works \in SUBSET DOMAIN pending : on_ready(works)
  /\ UNCHANGED <<planeVars, requestVars, gone>>

register_track(t) ==
  /\ LockFree
  /\ ~Reserved(t.ns)
  /\ ~Registered(t)
  /\ tracks' = [x \in DOMAIN tracks \cup {t} |->
                  IF x = t THEN [largest |-> None, subs |-> {}] ELSE tracks[x]]
  /\ \/ /\ session = "Ready"
        /\ \E works \in BOOLEAN :
             /\ announced' = Announce(announced, t.ns, works)
             /\ refused' = IF works THEN refused ELSE refused \cup {t.ns}
        /\ UNCHANGED pending
     \/ /\ session # "Ready"
        /\ Len(pending) < MaxPending
        /\ pending' = Append(pending, t.ns)
        /\ UNCHANGED <<announced, refused>>
  /\ UNCHANGED <<subs, wire, datagrams, publishing, published, session, requestVars, gone>>

\* Mutation: a namespace that waits to be announced is not withdrawn.
withdraw_namespace_KeepsPending(ns) ==
  /\ UNCHANGED pending
  /\ announced' = Restrict(announced, DOMAIN announced \ {namespace_text(ns)})

withdraw_namespace(ns) ==
  /\ pending' = Without(pending, ns)
  /\ announced' = Restrict(announced, DOMAIN announced \ {namespace_text(ns)})

\* Mutation: the namespace is withdrawn with its first track.
LastOf_AnyTrack(t) == TRUE

\* No other registered track uses the namespace of t.
LastOf(t) == \A x \in DOMAIN tracks : x.ns = t.ns => x = t

\* unregister_track(): end_track(), then the track goes, then its namespace.
unregister_track(t) ==
  /\ LockFree
  /\ Registered(t)
  /\ finish(tracks[t].subs \cap requests)
  /\ tracks' = Restrict(DetachedTracks(tracks[t].subs), DOMAIN tracks \ {t})
  /\ \/ LastOf(t) /\ withdraw_namespace(t.ns)
     \/ ~LastOf(t) /\ UNCHANGED <<pending, announced>>
  /\ UNCHANGED <<datagrams, publishing, published, session, peerIds, gone, refused>>

-----------------------------------------------------------------------------
(* Requests of the peer.  Only a Ready session has any. *)

PeerMayAct == LockFree /\ session = "Ready"

\* consume_peer_request_id()
Consumable(id) == id % 2 = 1 /\ id \notin peerIds

\* A SUBSCRIBE or a REQUEST_UPDATE with an ID it may not use.
InvalidRequestId(id) ==
  /\ PeerMayAct
  /\ ~Consumable(id)
  /\ begin_close
  /\ UNCHANGED <<datagrams, publishing, published, peerIds, gone, announceVars>>

\* accept_subscribe() answers with REQUEST_ERROR.
Rejected(t, options) ==
  \/ Reserved(t.ns)
  \/ Cardinality(requests) >= MaxSubscriptions
  \/ Registered(t) => Refusal(t, options) # None

RejectSubscribe(r, t, options) ==
  /\ PeerMayAct
  /\ Consumable(r)
  /\ Rejected(t, options)
  /\ peerIds' = peerIds \cup {r}
  /\ Reply({r}, [x \in {r} |-> <<"error">>])
  /\ UNCHANGED <<planeVars, session, requests, gone, announceVars>>

AcceptSubscribe(r, t, options) ==
  /\ PeerMayAct
  /\ Consumable(r)
  /\ ~Rejected(t, options)
  /\ r \notin gone
  /\ peerIds' = peerIds \cup {r}
  /\ attach_subscription(r, t, options)
  /\ requests' = requests \cup {r}
  /\ Reply({r}, [x \in {r} |-> <<"ok">>])
  /\ UNCHANGED <<wire, datagrams, publishing, published, session, gone, announceVars>>

\* StreamSend fails for SUBSCRIBE_OK: begin_close() takes the new subscription,
\* which has no stream yet, away with the others.
SubscribeOkFails(r, t, options) ==
  /\ PeerMayAct
  /\ Consumable(r)
  /\ ~Rejected(t, options)
  /\ r \in gone
  /\ peerIds' = peerIds \cup {r}
  /\ begin_close
  /\ UNCHANGED <<datagrams, publishing, published, gone, announceVars>>

\* update_subscription() refuses; the subscription is missing when an earlier
\* finish() failed half-way.
UpdateRejected(r, options) ==
  r \in DOMAIN subs => Refusal(subs[r].track, options) # None

AcceptUpdate(r, u, options) ==
  /\ PeerMayAct
  /\ r \in requests
  /\ Consumable(u)
  /\ ~UpdateRejected(r, options)
  /\ peerIds' = peerIds \cup {u}
  /\ update_subscription(r, options)
  /\ Reply({r}, [x \in {r} |-> <<"updateOk">>])
  /\ UNCHANGED <<tracks, wire, datagrams, publishing, published, session, requests, gone, announceVars>>

\* Mutation: a refused update is not followed by PUBLISH_DONE.
Refusing_WithoutDone(r) == << <<"updateError">> >>

Refusing(r) == << <<"updateError">>, Done(r)>>

\* "A rejected update ends the subscription": REQUEST_ERROR, then finish().
RejectUpdate(r, u, options) ==
  /\ PeerMayAct
  /\ r \in requests
  /\ Consumable(u)
  /\ UpdateRejected(r, options)
  /\ peerIds' = peerIds \cup {u}
  /\ DetachStreams({r}, "fin")
  /\ tracks' = DetachedTracks({r})
  /\ replies' = [replies EXCEPT ![r] =
                   IF r \in gone THEN @ ELSE @ \o Refusing(r)]
  /\ requests' = requests \ {r}
  /\ UNCHANGED <<datagrams, publishing, published, session, gone, announceVars>>

\* RESET_STREAM, STOP_SENDING or the end of the request stream.
CancelRequest(r) ==
  /\ LockFree
  /\ r \in requests
  /\ cancel({r})
  /\ UNCHANGED <<datagrams, publishing, published, session, peerIds, gone, announceVars>>

\* The peer makes a request stream unusable; the callback that tells the
\* session has to wait for the mutex.
PeerStopsRequest(r) ==
  /\ session = "Ready"
  /\ r \notin gone
  /\ r \in requests \/ r \notin peerIds
  /\ gone' = gone \cup {r}
  /\ UNCHANGED <<planeVars, session, requestVars, announceVars>>

-----------------------------------------------------------------------------
(* Calls of the application that concern subscriptions. *)

end_track(t) ==
  /\ LockFree
  /\ Registered(t)
  /\ finish(tracks[t].subs \cap requests)
  /\ tracks' = DetachedTracks(tracks[t].subs \cap requests)
  /\ UNCHANGED <<datagrams, publishing, published, session, peerIds, gone, announceVars>>

\* encode_publish_done() throws for a reason beyond 65535 bytes, when the
\* first subscription is detached and nothing else has happened.
EndTrackThrows(t) ==
  /\ LongReasons
  /\ LockFree
  /\ Registered(t)
  /\ \E r \in tracks[t].subs \cap requests :
       /\ DetachStreams({r}, "fin")
       /\ tracks' = DetachedTracks({r})
  /\ UNCHANGED <<datagrams, publishing, published, session, requestVars, gone, announceVars>>

publish(o) ==
  /\ LockFree
  /\ session = "Ready"
  /\ PublishBegins(o)
  /\ UNCHANGED <<session, requestVars, gone, announceVars>>

\* The part of publish()'s loop that does not call back into the session.
Delivers(r) ==
  /\ \/ SkipsDetached(r)
     \/ Withholds(r)
     \/ SendsDatagram(r)
     \/ SendsOnNewStream(r)
     \/ SendsOnOpenStream(r)
  /\ UNCHANGED <<session, requestVars, gone, announceVars>>

\* open_data_stream() fails and closes the session inside the loop.
OpenFails(r) ==
  /\ NeedsStream(r)
  /\ begin_close
  /\ publishing' = [publishing EXCEPT !.at = r]
  /\ UNCHANGED <<datagrams, published, peerIds, gone, announceVars>>

\* The end of the loop's body.  If the session was closed meanwhile, what the
\* code reads of the subscription is freed memory; whatever it reads, no
\* request is left that complete_subscription() could find.
Completed(r) ==
  /\ Publishing
  /\ publishing.at = r
  /\ Loop(publishing.left \ {r})
  /\ \/ /\ r \in DOMAIN subs /\ Completes(subs[r], publishing.object)
        /\ finish({r})
        /\ tracks' = DetachedTracks({r})
     \/ /\ r \in DOMAIN subs => ~Completes(subs[r], publishing.object)
        /\ UNCHANGED <<tracks, subs, wire, requests, replies>>
  /\ UNCHANGED <<datagrams, published, session, peerIds, gone, announceVars>>

PeerStopsData ==
  /\ session = "Ready"
  /\ \E n \in DOMAIN wire : PeerStopsStream(n)
  /\ UNCHANGED <<session, requestVars, gone, announceVars>>

-----------------------------------------------------------------------------

PeerRequest ==
  \/ \E r \in PeerIds, t \in Tracks, options \in Options :
       \/ RejectSubscribe(r, t, options)
       \/ AcceptSubscribe(r, t, options)
       \/ SubscribeOkFails(r, t, options)
  \/ \E r, u \in PeerIds, options \in Options :
       \/ AcceptUpdate(r, u, options)
       \/ RejectUpdate(r, u, options)
  \/ \E r \in PeerIds :
       \/ InvalidRequestId(r)
       \/ CancelRequest(r)
       \/ PeerStopsRequest(r)
  \/ PeerStopsData

Next ==
  \/ BecomesReady
  \/ ClosesSession
  \/ ShutdownComplete
  \/ PeerRequest
  \/ \E t \in Tracks :
       \/ register_track(t)
       \/ unregister_track(t)
       \/ end_track(t)
       \/ EndTrackThrows(t)
  \/ \E o \in Objects : publish(o)
  \/ \E r \in PeerIds :
       \/ Delivers(r)
       \/ OpenFails(r)
       \/ Completed(r)

Spec == Init /\ [][Next]_vars

-----------------------------------------------------------------------------
(* Properties. *)

\* Type correctness: in particular the starts of ranges, computed with wrapping
\* IDs (Plus), stay Locations.
TypeOK ==
  /\ session \in {"Opening", "Ready", "Closing", "Closed"}
  /\ \A t \in DOMAIN tracks :
       /\ t \in Tracks
       /\ tracks[t].largest \in Locations \cup {None}
       /\ tracks[t].subs \in SUBSET PeerIds
  /\ \A r \in DOMAIN subs :
       /\ r \in PeerIds
       /\ subs[r].start \in Locations
       /\ subs[r].end \in Ids \cup {None}
  /\ \A n \in DOMAIN wire : wire[n].end \in {"open", "fin", "reset", "stopped"}
  /\ requests \in SUBSET PeerIds
  /\ peerIds \in SUBSET PeerIds
  /\ gone \in SUBSET PeerIds
  /\ pending \in Seq(Namespaces)

\* The three tables that know a subscription (Publisher::subscriptions_,
\* SendDataPlane::subscriptions_ and TrackEntry::subscriptions) agree whenever
\* the session mutex is free, and name registered tracks only.
TablesAgree ==
  LockFree =>
    /\ requests = DOMAIN subs
    /\ \A r \in DOMAIN subs : subs[r].track \in DOMAIN tracks
    /\ \A t \in DOMAIN tracks : tracks[t].subs = {r \in DOMAIN subs : subs[r].track = t}

\* A data stream that is still open belongs to a subscription that knows it:
\* no detach, replacement or completion leaves a stream behind.
NoStreamLeaks ==
  \A n \in DOMAIN wire : wire[n].end = "open" =>
    /\ wire[n].req \in DOMAIN subs
    /\ n \in Listed(wire[n].req)

StreamsOf(r) == {n \in DOMAIN wire : wire[n].req = r}

\* PUBLISH_DONE follows the end of every data stream of the subscription and
\* reports how many of them there were.
DoneIsComplete ==
  \A r \in PeerIds : \A i \in DOMAIN replies[r] : Head(replies[r][i]) = "done" =>
    /\ \A n \in StreamsOf(r) : wire[n].end # "open"
    /\ replies[r][i][2] = Cardinality(StreamsOf(r))

\* On a request stream SUBSCRIBE_OK or a final REQUEST_ERROR comes first, a
\* refused update is followed by PUBLISH_DONE, and nothing follows the end.
RepliesInOrder ==
  \A r \in PeerIds : \A i \in DOMAIN replies[r] :
    LET m == Head(replies[r][i]) IN
    /\ (i = 1) <=> m \in {"ok", "error"}
    /\ m \in {"error", "done", "reset"} => i = Len(replies[r])
    /\ m = "updateError" => i < Len(replies[r]) /\ Head(replies[r][i + 1]) = "done"

\* The Object IDs a receiver computes from the deltas of a stream.
Decoded(objects) ==
  LET id[n \in 0..Len(objects)] ==
        IF n = 0 THEN 0
        ELSE IF n = 1 THEN objects[1].delta ELSE id[n - 1] + objects[n].delta + 1
  IN [n \in DOMAIN objects |-> id[n]]

\* From the deltas on a subgroup stream the receiver recovers the Object IDs
\* that were published, whatever was sent before, skipped or replaced.
ObjectIdsRecovered ==
  \A n \in DOMAIN wire :
    Decoded(wire[n].objects) = [i \in DOMAIN wire[n].objects |-> wire[n].objects[i].id]

\* A stream on which the last object of a group was sent says so.
StreamsSignalGroupEnd ==
  \A n \in DOMAIN wire : LET objects == wire[n].objects IN
    \A i \in DOMAIN objects : objects[i].ends =>
      objects[Len(objects)].status \in {"EndOfGroup", "EndOfTrack"}

\* "for Datagrams it marks the last object in the group"
DatagramsSignalGroupEnd ==
  \A d \in datagrams : d.ends => d.endOfGroup \/ d.status \in {"EndOfGroup", "EndOfTrack"}

\* No subscription is kept whose range has passed: the check on SUBSCRIBE, the
\* check on an update and the completion in publish() leave no gap.
RangesAreOpen ==
  LockFree => \A r \in DOMAIN subs :
    LET largest == tracks[subs[r].track].largest IN
    subs[r].end # None /\ largest # None => largest[1] <= subs[r].end

\* Once the session is closing no subscription is left and no stream is open.
ClosingEndsAll ==
  session \in {"Closing", "Closed"} =>
    requests = {} /\ DOMAIN subs = {} /\ \A n \in DOMAIN wire : wire[n].end # "open"

\* No namespace is announced, or waits to be, without a registered track.
NoOrphanNamespace ==
  \A ns \in Range(pending) \cup Range(announced) : HasTrackIn(ns)

\* On a ready session the namespace of every registered track is announced,
\* unless its announcement failed.
EveryNamespaceAnnounced ==
  session = "Ready" => \A t \in DOMAIN tracks : t.ns \in Range(announced) \cup refused

\* The subscription that publish() works on is alive: "iterate over a stable
\* copy" is all the loop needs against detached subscriptions.
SubscriptionInUse ==
  Publishing /\ publishing.at # None => publishing.at \in DOMAIN subs

\* What ends stays ended: a data stream that is over never grows or reopens,
\* and nothing is opened for a request that is not established.
EndedIsFinal ==
  [][/\ \A n \in DOMAIN wire : wire[n].end # "open" => wire'[n] = wire[n]
     /\ \A n \in DOMAIN wire' \ DOMAIN wire : wire'[n].req \in requests]_wire
=============================================================================
