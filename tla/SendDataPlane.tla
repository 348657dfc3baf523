--------------------------- MODULE SendDataPlane ---------------------------
(***************************************************************************)
(* The sending side of a Publisher: the registered tracks, the filter and  *)
(* the open subgroup streams of every subscription, and what publish()     *)
(* puts on the wire (src/send_data_plane.cpp, the object encoders of       *)
(* src/codec/codec.cpp).                                                   *)
(*                                                                         *)
(* The owning session holds its mutex around every call, so nobody else    *)
(* acts inside one.  publish() is nevertheless a loop of steps, because it *)
(* calls back into the session, and those calls detach subscriptions.      *)
(***************************************************************************)
EXTENDS Naturals, Sequences, FiniteSets, Functions

CONSTANTS
  Tracks,                   \* the TrackKeys: records with the fields ns and name
  Objects,                  \* the PublishedObjects the application publishes
  PeerIds,                  \* Request IDs the peer may use
  MaxId,                    \* numeric_limits<uint64_t>::max(), for Group and Object IDs
  MaxPublished,             \* bound on the number of publish() calls
  None                      \* no value

VARIABLES
  tracks,                   \* tracks_: largest and subscriptions of each registered track
  subs,                     \* subscriptions_: the SubscriptionSend of each request
  wire,                     \* the data streams opened, each with what was sent on it
  datagrams,                \* the object datagrams sent
  publishing,               \* the publish() call in progress
  published                 \* the number of publish() calls so far

planeVars == <<tracks, subs, wire, datagrams, publishing, published>>

Ids == 0..MaxId
Locations == Ids \X Ids
Statuses == {"payload", "Normal", "EndOfGroup", "EndOfTrack"}

\* What the fields of a PublishedObject and of SubscriptionOptions may hold, as
\* far as the sending side depends on it.
ObjectOK(o) ==
  /\ o.track \in Tracks
  /\ o.group \in Ids /\ o.id \in Ids
  /\ o.status \in Statuses \cup {None}
  /\ o.endOfGroup \in BOOLEAN

FilterTypes == {"LargestObject", "NextGroupStart", "AbsoluteStart", "AbsoluteRange"}

OptionsOK(x) ==
  /\ x.timeout \in BOOLEAN
  /\ x.forward \in BOOLEAN \cup {None}
  /\ x.filter # None =>
       x.filter.type \in FilterTypes /\ x.filter.start \in Locations /\ x.filter.delta \in Ids

\* A publish() call in progress: the object, the requests still ahead, and the
\* one the loop is at.
Calls == [object : Objects, left : SUBSET PeerIds, at : PeerIds \cup {None}]

ASSUME IdAssumption == MaxId \in Nat
ASSUME ObjectAssumption == \A o \in Objects : ObjectOK(o)
ASSUME NoneAssumption ==
  None \notin Ids \cup Locations \cup PeerIds \cup Calls \cup Statuses \cup {"NotSupported", "InvalidRange"}

PlaneInit ==
  /\ tracks = <<>>
  /\ subs = <<>>
  /\ wire = <<>>
  /\ datagrams = {}
  /\ publishing = None
  /\ published = 0

Less(a, b) == a[1] < b[1] \/ (a[1] = b[1] /\ a[2] < b[2])

-----------------------------------------------------------------------------
(* Tracks and filters. *)

Registered(t) == t \in DOMAIN tracks

HasTrackIn(ns) == \E t \in DOMAIN tracks : t.ns = ns

\* 64-bit addition.
Plus(a, b) == (a + b) % (MaxId + 1)

\* The start and the end group that resolve_filter() computes.
Resolve(filter, largest) ==
  CASE filter.type = "AbsoluteStart" -> [start |-> filter.start, end |-> None]
    [] filter.type = "AbsoluteRange" ->
         [start |-> filter.start, end |-> Plus(filter.start[1], filter.delta)]
    [] filter.type = "LargestObject" ->
         [start |-> IF largest = None THEN <<0, 0>> ELSE <<largest[1], Plus(largest[2], 1)>>,
          end |-> None]
    [] filter.type = "NextGroupStart" ->
         [start |-> IF largest = None THEN <<0, 0>> ELSE <<Plus(largest[1], 1), 0>>,
          end |-> None]

PassesFilter(sub, o) ==
  /\ ~Less(<<o.group, o.id>>, sub.start)
  /\ sub.end # None => o.group <= sub.end

\* "requested range was already published"
AlreadyPublished(range, largest) ==
  range.end # None /\ largest # None /\ largest[1] > range.end

\* Why attach_subscription() or update_subscription() refuses the options.
Refusal(t, options) ==
  IF options.timeout THEN "NotSupported"
  ELSE IF options.filter # None
          /\ AlreadyPublished(Resolve(options.filter, tracks[t].largest), tracks[t].largest)
       THEN "InvalidRange"
       ELSE None

\* The part of attach_subscription() after its early returns.
attach_subscription(r, t, options) ==
  LET range == IF options.filter = None THEN [start |-> <<0, 0>>, end |-> None]
               ELSE Resolve(options.filter, tracks[t].largest)
  IN /\ tracks' = [tracks EXCEPT ![t].subs = @ \cup {r}]
     /\ subs' = [x \in DOMAIN subs \cup {r} |->
                   IF x # r THEN subs[x]
                   ELSE [track |-> t, forward |-> options.forward # FALSE,
                         start |-> range.start, end |-> range.end,
                         count |-> 0, streams |-> <<>>]]

\* The part of update_subscription() after its early returns.
update_subscription(r, options) ==
  LET range == IF options.filter = None THEN [start |-> subs[r].start, end |-> subs[r].end]
               ELSE Resolve(options.filter, tracks[subs[r].track].largest)
  IN subs' = [subs EXCEPT ![r].start = range.start, ![r].end = range.end,
                          ![r].forward = IF options.forward = None THEN @ ELSE options.forward]

\* The streams the subscription has open, by their place in `wire`.
Listed(r) == {subs[r].streams[key].at : key \in DOMAIN subs[r].streams}

\* StreamShutdown of the streams S: finished or reset, unless already over.
Ended(w, S, how) ==
  [n \in DOMAIN w |-> IF n \in S /\ w[n].end = "open" THEN [w[n] EXCEPT !.end = how] ELSE w[n]]

\* Mutation: the tracks keep the subscriptions.
DetachedTracks_Keeps(S) == tracks

\* The tracks after detach_subscription() of every request in S.
DetachedTracks(S) == [t \in DOMAIN tracks |-> [tracks[t] EXCEPT !.subs = @ \ S]]

\* The rest of these detach_subscription() calls: the streams end with the map entries.
DetachStreams(S, how) ==
  /\ wire' = Ended(wire, UNION {Listed(r) : r \in S \cap DOMAIN subs}, how)
  /\ subs' = Restrict(subs, DOMAIN subs \ S)

-----------------------------------------------------------------------------
(* Publishing. *)

\* valid_publish_status(), and the delivery kinds publish() accepts.
ValidObject(o) ==
  /\ o.status \in {None, "Normal", "EndOfGroup", "EndOfTrack"}
  /\ o.status \in {"EndOfGroup", "EndOfTrack"} => o.empty
  /\ o.kind # "FetchStream"

\* What encode_subgroup_object() says of an object.
StatusOnStream(o) ==
  IF o.status # None THEN o.status ELSE IF o.empty THEN "Normal" ELSE "payload"

ClosesStream(o) ==
  o.endOfSubgroup \/ o.endOfGroup \/ o.status \in {"EndOfGroup", "EndOfTrack"}

\* Mutation: no marker follows the last object of a group.
NeedsMarker_Never(o) == FALSE

\* The end of the group has to be said by an object of its own.
NeedsMarker(o) == o.endOfGroup /\ o.status \in {None, "Normal"}

\* Mutation: the delta is not reduced by one.
Delta_OffByOne(id, last) == IF last = None THEN id ELSE id - last

Delta(id, last) == IF last = None THEN id ELSE id - last - 1

\* The objects one call appends to a stream whose last Object ID is `last`.
\* `id` and `ends` record what the application asked for; they are not sent.
Appended(o, last) ==
  LET first == [delta |-> Delta(o.id, last),
                status |-> StatusOnStream(o), id |-> o.id, ends |-> o.endOfGroup]
      marker == [delta |-> 0, status |-> "EndOfGroup", id |-> o.id + 1, ends |-> o.endOfGroup]
  IN IF NeedsMarker(o) THEN <<first, marker>> ELSE <<first>>

\* The stream after send(), which fails if the peer has stopped the stream.
Sent(stream, o, last) ==
  IF stream.end = "stopped" THEN stream
  ELSE [stream EXCEPT !.objects = @ \o Appended(o, last),
                      !.end = IF ClosesStream(o) THEN "fin" ELSE "open"]

\* send_datagram_object() and encode_object_datagram().
DatagramOf(r, o) ==
  LET status == IF o.status # None THEN o.status ELSE IF o.empty THEN "Normal" ELSE None
  IN [req |-> r, group |-> o.group, id |-> o.id, status |-> status,
      endOfGroup |-> status = None /\ o.endOfGroup, ends |-> o.endOfGroup]

-----------------------------------------------------------------------------
(* The loop of publish(). *)

Publishing == publishing # None

\* The loop goes on with the requests in `left`, or ends.
Loop(left) ==
  publishing' = IF left = {} THEN None ELSE [publishing EXCEPT !.left = left, !.at = None]

\* publish() up to its loop.  Objects it drops change nothing.
PublishBegins(o) ==
  /\ Registered(o.track)
  /\ ValidObject(o)
  /\ published < MaxPublished
  /\ tracks' = [tracks EXCEPT ![o.track].largest =
                  IF @ = None \/ Less(@, <<o.group, o.id>>) THEN <<o.group, o.id>> ELSE @]
  /\ publishing' = IF tracks[o.track].subs = {} THEN None
                   ELSE [object |-> o, left |-> tracks[o.track].subs, at |-> None]
  /\ published' = published + 1
  /\ UNCHANGED <<subs, wire, datagrams>>

\* The loop has come to the request r, which is still attached.
Visits(r) ==
  /\ Publishing
  /\ publishing.at = None
  /\ r \in publishing.left \cap DOMAIN subs

\* The loop comes to a request that was detached meanwhile.
SkipsDetached(r) ==
  /\ Publishing
  /\ publishing.at = None
  /\ r \in publishing.left \ DOMAIN subs
  /\ tracks' = [tracks EXCEPT ![publishing.object.track].subs = @ \ {r}]
  /\ Loop(publishing.left \ {r})
  /\ UNCHANGED <<subs, wire, datagrams, published>>

PastRange(sub, o) == sub.end # None /\ o.group > sub.end

Wanted(sub, o) == ~PastRange(sub, o) /\ sub.forward /\ PassesFilter(sub, o)

Withholds(r) ==
  /\ Visits(r)
  /\ ~Wanted(subs[r], publishing.object)
  /\ publishing' = [publishing EXCEPT !.at = r]
  /\ UNCHANGED <<tracks, subs, wire, datagrams, published>>

\* The transport takes the datagram or drops it.
SendsDatagram(r) ==
  /\ Visits(r)
  /\ Wanted(subs[r], publishing.object)
  /\ publishing.object.kind = "Datagram"
  /\ datagrams' \in {datagrams, datagrams \cup {DatagramOf(r, publishing.object)}}
  /\ publishing' = [publishing EXCEPT !.at = r]
  /\ UNCHANGED <<tracks, subs, wire, published>>

KeyOf(o) == <<o.group, o.subgroup>>

HasStream(r, o) == KeyOf(o) \in DOMAIN subs[r].streams

\* "Cannot append out-of-order Object IDs to a subgroup stream; replace it."
OutOfOrder(r, o) == HasStream(r, o) /\ o.id <= subs[r].streams[KeyOf(o)].last

\* send_on_subgroup_stream() has to open a stream.
NeedsStream(r) ==
  /\ Visits(r)
  /\ Wanted(subs[r], publishing.object)
  /\ publishing.object.kind = "SubgroupStream"
  /\ ~HasStream(r, publishing.object) \/ OutOfOrder(r, publishing.object)

\* Mutation: a stream that was finished stays in the map.
LeavesMap_Never(o) == FALSE

LeavesMap(o) == ClosesStream(o)

\* The open streams of r after o was sent on the stream at place n.
StreamsAfter(r, o, n) ==
  LET keys == IF LeavesMap(o) THEN DOMAIN subs[r].streams \ {KeyOf(o)}
              ELSE DOMAIN subs[r].streams \cup {KeyOf(o)}
  IN [key \in keys |-> IF key = KeyOf(o) THEN [at |-> n, last |-> o.id] ELSE subs[r].streams[key]]

\* Mutation: the stream that is replaced is not reset.
Replaced_Left(r, o) == {}

\* The stream that a new one takes the place of.
Replaced(r, o) == IF HasStream(r, o) THEN {subs[r].streams[KeyOf(o)].at} ELSE {}

SendsOnNewStream(r) ==
  LET o == publishing.object
      n == Len(wire) + 1
      stream == [req |-> r, group |-> o.group, subgroup |-> o.subgroup,
                 objects |-> <<>>, end |-> "open"]
  IN /\ NeedsStream(r)
     /\ wire' = Append(Ended(wire, Replaced(r, o), "reset"), Sent(stream, o, None))
     /\ subs' = [subs EXCEPT ![r].count = @ + 1, ![r].streams = StreamsAfter(r, o, n)]
     /\ publishing' = [publishing EXCEPT !.at = r]
     /\ UNCHANGED <<tracks, datagrams, published>>

SendsOnOpenStream(r) ==
  LET o == publishing.object
      open == subs[r].streams[KeyOf(o)]
  IN /\ Visits(r)
     /\ Wanted(subs[r], o)
     /\ o.kind = "SubgroupStream"
     /\ HasStream(r, o)
     /\ ~OutOfOrder(r, o)
     /\ wire' = [wire EXCEPT ![open.at] = Sent(@, o, open.last)]
     /\ subs' = [subs EXCEPT ![r].streams = StreamsAfter(r, o, open.at)]
     /\ publishing' = [publishing EXCEPT !.at = r]
     /\ UNCHANGED <<tracks, datagrams, published>>

\* Mutation: the end of the range is not the end of the subscription.
Completes_IgnoresRange(sub, o) == o.status = "EndOfTrack"

\* The subscription is complete once o was handled.
Completes(sub, o) ==
  \/ PastRange(sub, o)
  \/ o.status = "EndOfTrack"
  \/ sub.end = o.group /\ (o.endOfGroup \/ o.status = "EndOfGroup")

\* The peer sends STOP_SENDING for a data stream, which has no sink:
\* from then on StreamSend fails.
PeerStopsStream(n) ==
  /\ n \in DOMAIN wire
  /\ wire[n].end = "open"
  /\ wire' = [wire EXCEPT ![n].end = "stopped"]
  /\ UNCHANGED <<tracks, subs, datagrams, publishing, published>>

=============================================================================
