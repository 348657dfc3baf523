--------------------------- MODULE PublisherProofs --------------------------
(***************************************************************************)
(* Proofs about Publisher.  Its tables of subscriptions agree, and no      *)
(* subscription outlives its range.  No data stream is left open without   *)
(* its subscription, what ended stays ended, closing the session ends      *)
(* everything, and a stream says where its group ends.                     *)
(***************************************************************************)
EXTENDS Publisher, TLAPS

\* The values of the variables.
Subgroups == {o.subgroup : o \in Objects}
Keys == Ids \X Subgroups
Handles == [at : Nat, last : Ids]
StreamMaps == UNION {[K -> Handles] : K \in SUBSET Keys}

Ends == {"open", "fin", "reset", "stopped"}
SentObjects == [delta : Nat, status : Statuses, id : Nat, ends : BOOLEAN]
DataStreams ==
  [req : PeerIds, group : Ids, subgroup : Subgroups, objects : Seq(SentObjects), end : Ends]

TrackEntries == [largest : Locations \cup {None}, subs : SUBSET PeerIds]
SubscriptionSends ==
  [track : Tracks, forward : BOOLEAN, start : Locations, end : Ids \cup {None},
   count : Nat, streams : StreamMaps]

TypeInv ==
  /\ session \in {"Opening", "Ready", "Closing", "Closed"}
  /\ DOMAIN tracks \subseteq Tracks
  /\ tracks \in [DOMAIN tracks -> TrackEntries]
  /\ DOMAIN subs \subseteq PeerIds
  /\ subs \in [DOMAIN subs -> SubscriptionSends]
  /\ wire \in Seq(DataStreams)
  /\ publishing \in Calls \cup {None}
  /\ requests \subseteq PeerIds
  /\ peerIds \subseteq PeerIds

\* The tables agree at every moment, also inside publish(), except that an
\* end_track() that threw leaves a request without its SubscriptionSend.
TableInv ==
  /\ DOMAIN subs \subseteq requests
  /\ ~LongReasons => requests = DOMAIN subs
  /\ \A r \in DOMAIN subs : subs[r].track \in DOMAIN tracks
  /\ \A t \in DOMAIN tracks : tracks[t].subs = {r \in DOMAIN subs : subs[r].track = t}
  /\ session \in {"Closing", "Closed"} => requests = {}
  /\ requests \subseteq peerIds

\* The largest Location of its track lies behind the range of r.
Overtaken(r) ==
  LET largest == tracks[subs[r].track].largest IN
  subs[r].end # None /\ largest # None /\ largest[1] > subs[r].end

\* Only the object that is being published can have overtaken a subscription,
\* and the loop has still to come to it.
RangeInv ==
  \A r \in DOMAIN subs : Overtaken(r) =>
    Publishing /\ r \in publishing.left /\ PastRange(subs[r], publishing.object)

PublisherInv == TypeInv /\ TableInv /\ RangeInv

-----------------------------------------------------------------------------
(* Types. *)

\* A map of open streams is a function from subgroups to handles.
LEMMA MapFacts ==
  ASSUME NEW f
  PROVE  f \in StreamMaps <=> DOMAIN f \subseteq Keys /\ f \in [DOMAIN f -> Handles]
<1>1. ASSUME f \in StreamMaps PROVE DOMAIN f \subseteq Keys /\ f \in [DOMAIN f -> Handles]
  BY <1>1 DEF StreamMaps
<1>2. ASSUME DOMAIN f \subseteq Keys, f \in [DOMAIN f -> Handles] PROVE f \in StreamMaps
  BY <1>2 DEF StreamMaps
<1> QED
  BY <1>1, <1>2

\* A function on an initial segment of the naturals is a sequence.
LEMMA SequenceOf ==
  ASSUME NEW T, NEW f, NEW n \in Nat, f \in [1..n -> T]
  PROVE  f \in Seq(T) /\ Len(f) = n /\ DOMAIN f = 1..n
  OBVIOUS

\* The entries of a sequence of streams.
LEMMA EntryOf == \A w \in Seq(DataStreams) : \A n \in DOMAIN w : w[n] \in DataStreams
  OBVIOUS

\* A sequence is a function on an initial segment of the naturals.
LEMMA SequenceIs ==
  ASSUME NEW T, NEW s \in Seq(T)
  PROVE  Len(s) \in Nat /\ DOMAIN s = 1..Len(s) /\ s \in [1..Len(s) -> T]
  OBVIOUS

\* StreamShutdown keeps the streams and what was sent on them.
LEMMA EndedType ==
  ASSUME NEW w \in Seq(DataStreams), NEW S, NEW how \in Ends
  PROVE  /\ Ended(w, S, how) \in Seq(DataStreams)
         /\ Len(Ended(w, S, how)) = Len(w)
<1>1. Len(w) \in Nat /\ DOMAIN w = 1..Len(w) /\ w \in [1..Len(w) -> DataStreams]
  BY SequenceIs
<1>2. Ended(w, S, how) \in [1..Len(w) -> DataStreams]
  BY Zenon, <1>1 DEF Ended, DataStreams
<1> QED
  BY <1>1, <1>2, SequenceOf

\* What one call appends to a stream.
LEMMA AppendedType ==
  ASSUME NEW o \in Objects, NEW last \in Ids \cup {None}, last # None => o.id > last
  PROVE  Appended(o, last) \in Seq(SentObjects) /\ Appended(o, last) # <<>>
<1> DEFINE first == [delta |-> Delta(o.id, last), status |-> StatusOnStream(o), id |-> o.id,
                     ends |-> o.endOfGroup]
           marker == [delta |-> 0, status |-> "EndOfGroup", id |-> o.id + 1, ends |-> o.endOfGroup]
<1>1. ObjectOK(o) /\ o.id \in Nat
  BY ObjectAssumption, IdAssumption DEF ObjectOK, Ids
<1>2. Delta(o.id, last) \in Nat
  BY <1>1, IdAssumption DEF Delta, Ids
<1>3. StatusOnStream(o) \in Statuses
  BY <1>1 DEF StatusOnStream, ObjectOK, Statuses
<1>4. first \in SentObjects /\ marker \in SentObjects
  BY <1>1, <1>2, <1>3 DEF SentObjects, ObjectOK, Statuses
<1>5. Appended(o, last) = IF NeedsMarker(o) THEN <<first, marker>> ELSE <<first>>
  BY DEF Appended
<1> HIDE DEF first, marker
<1> QED
  BY <1>4, <1>5

\* send() on a stream.
LEMMA SentType ==
  ASSUME NEW stream \in DataStreams, NEW o \in Objects, NEW last \in Ids \cup {None},
         last # None => o.id > last
  PROVE  Sent(stream, o, last) \in DataStreams
<1>1. Appended(o, last) \in Seq(SentObjects) /\ stream.objects \in Seq(SentObjects)
  BY AppendedType DEF DataStreams
<1>2. stream.objects \o Appended(o, last) \in Seq(SentObjects)
  BY <1>1
<1> QED
  BY Zenon, <1>2 DEF Sent, DataStreams, Ends

\* A stream as it is opened.
LEMMA FreshStream ==
  ASSUME NEW r \in PeerIds, NEW g \in Ids, NEW s \in Subgroups
  PROVE  [req |-> r, group |-> g, subgroup |-> s, objects |-> <<>>, end |-> "open"] \in DataStreams
BY DEF DataStreams, Ends

-----------------------------------------------------------------------------
(* What the operations do to the tables. *)

\* detach_subscription() of the requests S.  The tracks outside D go with it;
\* they have no other subscriptions.
Detaches(S, D) ==
  /\ D \subseteq DOMAIN tracks
  /\ subs' = Restrict(subs, DOMAIN subs \ S)
  /\ tracks' = [t \in D |-> [tracks[t] EXCEPT !.subs = @ \ S]]
  /\ \A t \in DOMAIN tracks \ D : tracks[t].subs \subseteq S

\* The rest of the tables is as before and still agrees.
TablesLeft(S, D) ==
  /\ DOMAIN tracks' = D
  /\ tracks' \in [D -> TrackEntries]
  /\ DOMAIN subs' = DOMAIN subs \ S
  /\ subs' \in [DOMAIN subs' -> SubscriptionSends]
  /\ \A r \in DOMAIN subs' : subs'[r] = subs[r] /\ subs[r].track \in D
  /\ \A t \in D : tracks'[t].subs = {r \in DOMAIN subs' : subs'[r].track = t}
  /\ \A r \in DOMAIN subs' : Overtaken(r)' => Overtaken(r)

\* The call in progress goes on, or there is none.
LoopGoesOn ==
  \/ publishing' = None /\ publishing = None
  \/ /\ publishing \in Calls /\ publishing' \in Calls
     /\ publishing'.left = publishing.left /\ publishing'.object = publishing.object

\* A subscription keeps its track, and its range unless the new one is open.
SubscriptionsKept ==
  /\ DOMAIN subs' = DOMAIN subs
  /\ subs' \in [DOMAIN subs -> SubscriptionSends]
  /\ \A r \in DOMAIN subs : /\ subs'[r].track = subs[r].track
                            /\ subs'[r].end = subs[r].end \/ ~Overtaken(r)'

-----------------------------------------------------------------------------
(* The loop of publish(). *)

\* The loop comes to one subscription, r.
LEMMA AtStep ==
  ASSUME TypeInv, Publishing, NEW r \in PeerIds, publishing' = [publishing EXCEPT !.at = r]
  PROVE  LoopGoesOn /\ publishing \in Calls /\ publishing'.at = r /\ publishing.object \in Objects
<1>1. publishing \in Calls
  BY DEF TypeInv, Publishing
<1> QED
  BY <1>1 DEF Calls, LoopGoesOn

-----------------------------------------------------------------------------
(* The theorems. *)

\* The inductive invariant holds in every reachable state.
THEOREM PublisherInvariant == Spec => []PublisherInv

\* 64-bit addition stays in 64 bits.
<1>PlusType. \A a, b \in Ids : Plus(a, b) \in Ids
  BY IdAssumption DEF Plus, Ids

\* resolve_filter() yields a Location and an optional group, also when its
\* additions wrap around.
<1>ResolveType.
  ASSUME NEW filter, filter.type \in FilterTypes, filter.start \in Locations, filter.delta \in Ids,
         NEW largest \in Locations \cup {None}
  PROVE  /\ Resolve(filter, largest).start \in Locations
         /\ Resolve(filter, largest).end \in Ids \cup {None}
  <2> USE <1>ResolveType
  <2>1. 0 \in Ids /\ (MaxId > 0 => 1 \in Ids)
    BY IdAssumption DEF Ids
  <2>2. \A a \in Ids : Plus(a, 1) \in Ids
    BY IdAssumption DEF Plus, Ids
  <2>3. filter.start[1] \in Ids
    BY DEF Locations
  <2>4. CASE filter.type = "AbsoluteStart"
    <3>1. Resolve(filter, largest) = [start |-> filter.start, end |-> None]
      BY <2>4 DEF Resolve
    <3>2. QED
      BY <3>1
  <2>5. CASE filter.type = "AbsoluteRange"
    <3>1. Resolve(filter, largest) = [start |-> filter.start, end |-> Plus(filter.start[1], filter.delta)]
      BY <2>5 DEF Resolve
    <3>2. QED
      BY <2>3, <3>1, <1>PlusType
  <2>6. CASE filter.type = "LargestObject"
    <3> DEFINE s == IF largest = None THEN <<0, 0>> ELSE <<largest[1], Plus(largest[2], 1)>>
    <3>1. s \in Locations
      BY <2>1, <2>2 DEF Locations
    <3>2. Resolve(filter, largest) = [start |-> s, end |-> None]
      BY <2>6 DEF Resolve
    <3> HIDE DEF s
    <3>3. QED
      BY <3>1, <3>2
  <2>7. CASE filter.type = "NextGroupStart"
    <3> DEFINE s == IF largest = None THEN <<0, 0>> ELSE <<Plus(largest[1], 1), 0>>
    <3>1. s \in Locations
      BY <2>1, <2>2 DEF Locations
    <3>2. Resolve(filter, largest) = [start |-> s, end |-> None]
      BY <2>7 DEF Resolve
    <3> HIDE DEF s
    <3>3. QED
      BY <3>1, <3>2
  <2> QED
    BY <2>4, <2>5, <2>6, <2>7 DEF FilterTypes

\* detach_subscription() keeps the streams.
<1>DetachedWire.
  ASSUME wire \in Seq(DataStreams), NEW S, NEW how \in Ends, DetachStreams(S, how)
  PROVE  wire' \in Seq(DataStreams) /\ Len(wire') = Len(wire)
  BY <1>DetachedWire, EndedType DEF DetachStreams

\* Detaching subscriptions leaves tables that agree.
<1>DetachedTables.
  ASSUME TypeInv, TableInv, NEW S, NEW D, Detaches(S, D)
  PROVE  TablesLeft(S, D)
  <2> USE <1>DetachedTables
  <2> USE DEF Detaches
  <2>1. /\ DOMAIN subs' = DOMAIN subs \ S
        /\ \A r \in DOMAIN subs \ S : subs'[r] = subs[r]
        /\ subs' \in [DOMAIN subs \ S -> SubscriptionSends]
    BY DEF Restrict, TypeInv
  <2>2. /\ DOMAIN tracks' = D /\ tracks' \in [D -> TrackEntries]
        /\ \A t \in D : tracks'[t].largest = tracks[t].largest /\ tracks'[t].subs = tracks[t].subs \ S
    BY DEF TypeInv, TrackEntries
  <2>3. \A r \in DOMAIN subs \ S : subs[r].track \in D
    BY DEF TableInv
  <2> HIDE DEF Detaches
  <2>4. ASSUME NEW t \in D
        PROVE  tracks'[t].subs = {r \in DOMAIN subs' : subs'[r].track = t}
    <3>1. tracks[t].subs = {r \in DOMAIN subs : subs[r].track = t}
      BY DEF TableInv, Detaches
    <3>2. \A r : r \in tracks'[t].subs <=> r \in DOMAIN subs' /\ subs'[r].track = t
      BY <2>1, <2>2, <3>1
    <3>3. QED
      BY <3>2
  <2>5. ASSUME NEW r \in DOMAIN subs'
        PROVE  Overtaken(r)' => Overtaken(r)
    <3>1. subs'[r] = subs[r] /\ tracks'[subs[r].track].largest = tracks[subs[r].track].largest
      BY <2>1, <2>2, <2>3
    <3>2. QED
      BY <3>1 DEF Overtaken
  <2> QED
    BY <2>1, <2>2, <2>3, <2>4, <2>5 DEF TablesLeft

\* Subscriptions end: requests in S while nothing is being published, or all.
<1>DetachStep.
  ASSUME PublisherInv, NEW S, NEW D, Detaches(S, D),
         requests' = requests \ S \/ (LongReasons /\ requests' = requests /\ session' = session),
         wire' \in Seq(DataStreams),
         peerIds' \in SUBSET PeerIds, peerIds \subseteq peerIds',
         session' = session \/ (session' = "Closing" /\ requests' = {}),
         \/ publishing' = None /\ publishing = None
         \/ publishing' \in Calls \cup {None} /\ requests' = {}
  PROVE  PublisherInv'
  <2> USE <1>DetachStep
  <2>1. TypeInv /\ TableInv /\ RangeInv
    BY DEF PublisherInv
  <2>2. TablesLeft(S, D)
    BY <2>1, <1>DetachedTables
  <2>3. D \subseteq DOMAIN tracks
    BY DEF Detaches
  <2>4. TypeInv'
    BY <2>1, <2>2, <2>3 DEF TypeInv, TablesLeft
  <2>5. TableInv'
    BY <2>1, <2>2, <2>3 DEF TableInv, TablesLeft
  <2>6. RangeInv'
    BY <2>1, <2>2, <2>5 DEF RangeInv, TableInv, TablesLeft, Publishing
  <2> QED
    BY <2>4, <2>5, <2>6 DEF PublisherInv

\* Steps that neither add nor remove subscriptions.
<1>KeepStep.
  ASSUME PublisherInv, SubscriptionsKept, LoopGoesOn, UNCHANGED <<tracks, requests>>,
         wire' \in Seq(DataStreams),
         peerIds' \in SUBSET PeerIds, peerIds \subseteq peerIds',
         session' \in {"Opening", "Ready", "Closing", "Closed"},
         session' \in {"Closing", "Closed"} => requests = {}
  PROVE  PublisherInv'
  <2> USE <1>KeepStep
  <2>1. TypeInv /\ TableInv /\ RangeInv
    BY DEF PublisherInv
  <2>2. TypeInv'
    BY <2>1 DEF TypeInv, SubscriptionsKept, LoopGoesOn
  <2>3. TableInv'
    <3>1. ASSUME NEW t \in DOMAIN tracks
          PROVE  tracks'[t].subs = {r \in DOMAIN subs' : subs'[r].track = t}
      <4>1. tracks[t].subs = {r \in DOMAIN subs : subs[r].track = t}
        BY <2>1 DEF TableInv
      <4>2. {r \in DOMAIN subs : subs[r].track = t} = {r \in DOMAIN subs' : subs'[r].track = t}
        BY DEF SubscriptionsKept
      <4>3. QED
        BY <4>1, <4>2
    <3>2. QED
      BY <2>1, <3>1 DEF TableInv, SubscriptionsKept
  <2>4. ASSUME NEW r \in DOMAIN subs', Overtaken(r)'
        PROVE  (Publishing /\ r \in publishing.left /\ PastRange(subs[r], publishing.object))'
    <3>1. r \in DOMAIN subs /\ subs'[r].end = subs[r].end /\ subs'[r].track = subs[r].track
      BY <2>4 DEF SubscriptionsKept
    <3>2. Overtaken(r)
      BY <2>4, <3>1 DEF Overtaken
    <3>3. Publishing /\ r \in publishing.left /\ PastRange(subs[r], publishing.object)
      BY <2>1, <3>1, <3>2 DEF RangeInv
    <3>4. /\ publishing' \in Calls /\ publishing'.left = publishing.left
          /\ publishing'.object = publishing.object
      BY <3>3 DEF LoopGoesOn, Publishing
    <3>5. publishing' # None
      BY <3>4, NoneAssumption
    <3>6. QED
      BY <3>1, <3>3, <3>4, <3>5 DEF PastRange, Publishing
  <2>5. QED
    BY <2>2, <2>3, <2>4 DEF RangeInv, PublisherInv

\* Nothing happens to the tables.
<1>FrameStep.
  ASSUME PublisherInv, LoopGoesOn, UNCHANGED <<tracks, subs, requests>>,
         wire' \in Seq(DataStreams),
         peerIds' \in SUBSET PeerIds, peerIds \subseteq peerIds',
         session' \in {"Opening", "Ready", "Closing", "Closed"},
         session' \in {"Closing", "Closed"} => requests = {}
  PROVE  PublisherInv'
  <2> USE <1>FrameStep
  <2>1. SubscriptionsKept
    BY DEF PublisherInv, TypeInv, SubscriptionsKept
  <2> QED
    BY <2>1, <1>KeepStep

\* begin_close(): every subscription ends, inside publish() too.
<1>BeginCloseStep.
  ASSUME PublisherInv, begin_close,
         peerIds' \in SUBSET PeerIds, peerIds \subseteq peerIds',
         publishing' \in Calls \cup {None}
  PROVE  PublisherInv'
  <2> USE <1>BeginCloseStep
  <2>1. TypeInv /\ TableInv
    BY DEF PublisherInv
  <2>2. CASE session \in {"Closing", "Closed"} /\ UNCHANGED <<session, tracks, subs, wire, requests>>
    <3>1. requests = {} /\ DOMAIN subs = {}
      BY Zenon, <2>1, <2>2 DEF TableInv
    <3>2. QED
      BY <2>1, <2>2, <3>1 DEF PublisherInv, TypeInv, TableInv, RangeInv
  <2>3. CASE session' = "Closing" /\ terminate_subscriptions
    <3>1. Detaches(requests, DOMAIN tracks)
      BY <2>3 DEF terminate_subscriptions, cancel, DetachStreams, DetachedTracks, Detaches
    <3>2. requests' = requests \ requests /\ requests' = {}
      BY <2>3 DEF terminate_subscriptions, cancel
    <3>3. wire' \in Seq(DataStreams)
      BY <2>1, <2>3, <1>DetachedWire DEF terminate_subscriptions, cancel, TypeInv, Ends
    <3>4. QED
      BY <2>3, <3>1, <3>2, <3>3, <1>DetachStep
  <2> QED
    BY <2>2, <2>3 DEF begin_close

\* A new range is not behind what was published.
<1>AcceptedRange.
  ASSUME TypeInv, NEW t \in DOMAIN tracks, NEW options \in Options, Refusal(t, options) = None,
         options.filter # None
  PROVE  LET range == Resolve(options.filter, tracks[t].largest)
         IN /\ range.start \in Locations
            /\ range.end \in Ids \cup {None}
            /\ ~(range.end # None /\ tracks[t].largest # None /\ tracks[t].largest[1] > range.end)
  <2> USE <1>AcceptedRange
  <2> DEFINE range == Resolve(options.filter, tracks[t].largest)
  <2>1. OptionsOK(options)
    BY OptionsAssumption
  <2>2. tracks[t].largest \in Locations \cup {None}
    BY DEF TypeInv, TrackEntries
  <2>3. range.start \in Locations /\ range.end \in Ids \cup {None}
    BY <2>1, <2>2, <1>ResolveType DEF OptionsOK
  <2>4. ~AlreadyPublished(range, tracks[t].largest)
    BY NoneAssumption DEF Refusal
  <2> QED
    BY <2>3, <2>4 DEF AlreadyPublished

\* accept_subscribe() enters the request in all tables.
<1>AcceptSubscribeStep.
  ASSUME PublisherInv, NEW r \in PeerIds, NEW t \in Tracks, NEW options \in Options,
         AcceptSubscribe(r, t, options)
  PROVE  PublisherInv'
  <2> USE <1>AcceptSubscribeStep
  <2> USE DEF AcceptSubscribe
  <2>1. TypeInv /\ TableInv /\ RangeInv
    BY DEF PublisherInv
  <2>2. /\ t \in DOMAIN tracks /\ Refusal(t, options) = None /\ r \notin peerIds
        /\ publishing = None /\ publishing' = None /\ session = "Ready" /\ session' = "Ready"
        /\ wire' = wire
    BY DEF Rejected, Registered, Consumable, PeerMayAct, LockFree, Publishing
  <2>3. r \notin requests /\ r \notin DOMAIN subs
    BY <2>1, <2>2 DEF TableInv
  <2>4. PICK range : /\ range = IF options.filter = None THEN [start |-> <<0, 0>>, end |-> None]
                                 ELSE Resolve(options.filter, tracks[t].largest)
                     /\ tracks' = [tracks EXCEPT ![t].subs = @ \cup {r}]
                     /\ subs' = [x \in DOMAIN subs \cup {r} |->
                                   IF x # r THEN subs[x]
                                   ELSE [track |-> t, forward |-> options.forward # FALSE,
                                         start |-> range.start, end |-> range.end,
                                         count |-> 0, streams |-> <<>>]]
    BY Zenon DEF attach_subscription
  <2>5. /\ range.start \in Locations /\ range.end \in Ids \cup {None}
        /\ ~(range.end # None /\ tracks[t].largest # None /\ tracks[t].largest[1] > range.end)
    <3>1. <<0, 0>> \in Locations
      BY IdAssumption DEF Locations, Ids
    <3>2. CASE options.filter = None
      BY <2>4, <3>1, <3>2
    <3>3. CASE options.filter # None
      BY <2>1, <2>2, <2>4, <3>3, <1>AcceptedRange
    <3>4. QED
      BY <3>2, <3>3
  <2> HIDE DEF AcceptSubscribe
  <2>6. <<>> \in StreamMaps
    <3>1. DOMAIN <<>> = {} /\ <<>> \in [{} -> Handles]
      OBVIOUS
    <3>2. QED
      BY Zenon, <3>1, MapFacts
  <2>7. /\ DOMAIN subs' = DOMAIN subs \cup {r}
        /\ \A x \in DOMAIN subs : subs'[x] = subs[x]
        /\ subs'[r].track = t /\ subs'[r].end = range.end
        /\ subs'[r] \in SubscriptionSends
    <3>1. (options.forward # FALSE) \in BOOLEAN
      OBVIOUS
    <3>2. subs'[r] = [track |-> t, forward |-> options.forward # FALSE, start |-> range.start,
                      end |-> range.end, count |-> 0, streams |-> <<>>]
      BY <2>4
    <3>3. QED
      BY Zenon, <2>3, <2>4, <2>5, <2>6, <3>1, <3>2 DEF SubscriptionSends
  <2>8. /\ DOMAIN tracks' = DOMAIN tracks
        /\ tracks' \in [DOMAIN tracks -> TrackEntries]
        /\ \A x \in DOMAIN tracks : tracks'[x].largest = tracks[x].largest
        /\ \A x \in DOMAIN tracks : tracks'[x].subs = IF x = t THEN tracks[x].subs \cup {r} ELSE tracks[x].subs
    BY Zenon, <2>1, <2>2, <2>4 DEF TypeInv, TrackEntries
  <2>9. requests' = requests \cup {r} /\ peerIds' = peerIds \cup {r}
    BY DEF AcceptSubscribe
  <2>10. TypeInv'
    <3>1. subs' \in [DOMAIN subs' -> SubscriptionSends]
      BY <2>1, <2>4, <2>7 DEF TypeInv
    <3>2. QED
      BY <2>1, <2>2, <2>7, <2>8, <2>9, <3>1 DEF TypeInv
  <2>11. TableInv'
    <3>1. ASSUME NEW x \in DOMAIN tracks
          PROVE  tracks'[x].subs = {q \in DOMAIN subs' : subs'[q].track = x}
      <4>1. tracks[x].subs = {q \in DOMAIN subs : subs[q].track = x}
        BY <2>1 DEF TableInv
      <4>2. ASSUME NEW q
            PROVE  q \in tracks'[x].subs <=> q \in DOMAIN subs' /\ subs'[q].track = x
        <5>1. CASE q = r
          BY Zenon, <2>3, <2>7, <2>8, <4>1, <5>1
        <5>2. CASE q # r
          <6>1. q \in tracks'[x].subs <=> q \in tracks[x].subs
            BY Zenon, <2>8, <5>2
          <6>2. q \in DOMAIN subs' <=> q \in DOMAIN subs
            BY <2>7, <5>2
          <6>3. q \in DOMAIN subs => subs'[q] = subs[q]
            BY <2>7
          <6>4. QED
            BY <4>1, <6>1, <6>2, <6>3
        <5>3. QED
          BY <5>1, <5>2
      <4>3. QED
        BY <4>2
    <3>2. QED
      BY <2>1, <2>2, <2>7, <2>8, <2>9, <3>1 DEF TableInv
  <2>12. RangeInv'
    <3>1. ASSUME NEW x \in DOMAIN subs
          PROVE  ~Overtaken(x)'
      <4>1. ~Overtaken(x)
        BY <2>1, <2>2 DEF RangeInv, Publishing
      <4>2. subs'[x] = subs[x] /\ tracks'[subs[x].track].largest = tracks[subs[x].track].largest
        BY <2>1, <2>7, <2>8 DEF TableInv
      <4>3. QED
        BY <4>1, <4>2 DEF Overtaken
    <3>2. ~Overtaken(r)'
      BY <2>2, <2>5, <2>7, <2>8 DEF Overtaken
    <3>3. QED
      BY <2>7, <3>1, <3>2 DEF RangeInv
  <2> QED
    BY <2>10, <2>11, <2>12 DEF PublisherInv

\* An update that is accepted leaves a range that is open.
<1>AcceptUpdateStep.
  ASSUME PublisherInv, NEW r \in PeerIds, NEW u \in PeerIds, NEW options \in Options,
         AcceptUpdate(r, u, options)
  PROVE  PublisherInv'
  <2> USE <1>AcceptUpdateStep
  <2> USE DEF AcceptUpdate
  <2>1. TypeInv /\ TableInv
    BY DEF PublisherInv
  <2>2. /\ r \in DOMAIN subs /\ Refusal(subs[r].track, options) = None
        /\ publishing = None /\ publishing' = None /\ session = "Ready" /\ session' = "Ready"
    BY DEF UpdateRejected, PeerMayAct, LockFree, Publishing
  <2>3. /\ subs[r].track \in DOMAIN tracks
        /\ ~Overtaken(r)
    BY <2>1, <2>2 DEF TableInv, PublisherInv, RangeInv, Publishing
  <2>4. PICK range : /\ range = IF options.filter = None THEN [start |-> subs[r].start, end |-> subs[r].end]
                                 ELSE Resolve(options.filter, tracks[subs[r].track].largest)
                     /\ subs' = [subs EXCEPT ![r].start = range.start, ![r].end = range.end,
                                    ![r].forward = IF options.forward = None THEN @ ELSE options.forward]
    BY Zenon DEF update_subscription
  <2>5. /\ UNCHANGED <<tracks, requests>> /\ wire' \in Seq(DataStreams)
        /\ peerIds' \in SUBSET PeerIds /\ peerIds \subseteq peerIds'
    BY <2>1 DEF TypeInv
  <2> HIDE DEF AcceptUpdate
  <2>6. /\ range.start \in Locations /\ range.end \in Ids \cup {None}
        /\ ~(range.end # None /\ tracks[subs[r].track].largest # None
             /\ tracks[subs[r].track].largest[1] > range.end)
    <3>1. CASE options.filter = None
      <4>1. subs[r].start \in Locations /\ subs[r].end \in Ids \cup {None}
        BY <2>1, <2>2 DEF TypeInv, SubscriptionSends
      <4>2. range.start = subs[r].start /\ range.end = subs[r].end
        BY <2>4, <3>1
      <4>3. QED
        BY <2>3, <4>1, <4>2 DEF Overtaken
    <3>2. CASE options.filter # None
      BY Zenon, <2>1, <2>2, <2>3, <2>4, <3>2, <1>AcceptedRange
    <3>3. QED
      BY <3>1, <3>2
  <2>7. /\ DOMAIN subs' = DOMAIN subs
        /\ \A x \in DOMAIN subs : x # r => subs'[x] = subs[x]
        /\ subs'[r].track = subs[r].track /\ subs'[r].end = range.end
        /\ subs'[r] \in SubscriptionSends
    <3>1. subs[r] \in SubscriptionSends
      BY <2>1, <2>2 DEF TypeInv
    <3>2. options.forward = None \/ options.forward \in BOOLEAN
      BY OptionsAssumption DEF OptionsOK
    <3>3. QED
      BY Zenon, <2>1, <2>2, <2>4, <2>6, <3>1, <3>2 DEF TypeInv, SubscriptionSends
  <2>8. SubscriptionsKept
    <3>1. ~Overtaken(r)'
      BY <2>5, <2>6, <2>7 DEF Overtaken
    <3>2. subs' \in [DOMAIN subs -> SubscriptionSends]
      BY Zenon, <2>1, <2>4, <2>7 DEF TypeInv
    <3>3. QED
      BY <2>7, <3>1, <3>2 DEF SubscriptionsKept
  <2> QED
    BY <2>2, <2>5, <2>8, <1>KeepStep DEF LoopGoesOn

\* A registered track starts without subscriptions.
<1>RegisterStep.
  ASSUME PublisherInv, NEW t \in Tracks, register_track(t)
  PROVE  PublisherInv'
  <2> USE <1>RegisterStep
  <2> USE DEF register_track
  <2>1. TypeInv /\ TableInv /\ RangeInv
    BY DEF PublisherInv
  <2>2. /\ publishing = None /\ publishing' = None /\ t \notin DOMAIN tracks
        /\ UNCHANGED <<subs, wire, session, requests, peerIds>>
    BY DEF LockFree, Publishing, Registered, requestVars
  <2>3. /\ DOMAIN tracks' = DOMAIN tracks \cup {t}
        /\ \A x \in DOMAIN tracks : tracks'[x] = tracks[x]
        /\ tracks'[t] = [largest |-> None, subs |-> {}]
        /\ tracks' \in [DOMAIN tracks \cup {t} -> TrackEntries]
    BY <2>1, <2>2 DEF TypeInv, TrackEntries
  <2> HIDE DEF register_track
  <2>4. TypeInv'
    BY <2>1, <2>2, <2>3 DEF TypeInv
  <2>5. TableInv'
    <3>1. {r \in DOMAIN subs : subs[r].track = t} = {}
      BY <2>1, <2>2 DEF TableInv
    <3>2. QED
      BY <2>1, <2>2, <2>3, <3>1 DEF TableInv
  <2>6. ASSUME NEW r \in DOMAIN subs
        PROVE  ~Overtaken(r)'
    <3>1. ~Overtaken(r) /\ tracks'[subs[r].track] = tracks[subs[r].track]
      BY <2>1, <2>2, <2>3 DEF RangeInv, Publishing, TableInv
    <3>2. QED
      BY <2>2, <3>1 DEF Overtaken
  <2> QED
    BY <2>2, <2>4, <2>5, <2>6 DEF RangeInv, PublisherInv

\* end_track() and unregister_track() end every subscription of the track.
<1>EndTrackStep.
  ASSUME PublisherInv, NEW t \in Tracks, end_track(t) \/ unregister_track(t)
  PROVE  PublisherInv'
  <2> USE <1>EndTrackStep
  <2> DEFINE S == tracks[t].subs \cap requests
             D == IF end_track(t) THEN DOMAIN tracks ELSE DOMAIN tracks \ {t}
  <2>1. TypeInv /\ TableInv
    BY DEF PublisherInv
  <2>2. t \in DOMAIN tracks /\ publishing = None /\ publishing' = None
    BY DEF end_track, unregister_track, Registered, LockFree, Publishing
  <2>3. S = tracks[t].subs
    BY <2>1, <2>2 DEF TableInv
  <2>4. /\ finish(S) /\ UNCHANGED <<session, peerIds>>
        /\ tracks' = [x \in D |-> [tracks[x] EXCEPT !.subs = @ \ S]]
    <3>1. CASE end_track(t)
      BY <3>1 DEF end_track, DetachedTracks
    <3>2. CASE ~end_track(t)
      <4>1. unregister_track(t)
        BY <3>2
      <4>2. QED
        BY Zenon, <2>3, <3>2, <4>1 DEF unregister_track, DetachedTracks, Restrict
    <3>3. QED
      BY <3>1, <3>2
  <2>5. Detaches(S, D)
    <3>1. subs' = Restrict(subs, DOMAIN subs \ S)
      BY <2>4 DEF finish, DetachStreams
    <3>2. \A x \in DOMAIN tracks \ D : x = t
      OBVIOUS
    <3>3. QED
      BY <2>3, <2>4, <3>1, <3>2 DEF Detaches
  <2>6. requests' = requests \ S
    BY <2>4 DEF finish
  <2>7. peerIds' \in SUBSET PeerIds /\ peerIds \subseteq peerIds'
    BY <2>1, <2>4 DEF TypeInv
  <2>8. wire' \in Seq(DataStreams)
    BY <2>1, <2>4, <1>DetachedWire DEF finish, TypeInv, Ends
  <2> HIDE DEF S, D
  <2> QED
    BY <2>2, <2>4, <2>5, <2>6, <2>7, <2>8, <1>DetachStep

\* One request ends while the session mutex is free.
<1>EndOneStep.
  ASSUME PublisherInv, NEW r, NEW how \in Ends, LockFree, DetachStreams({r}, how),
         tracks' = DetachedTracks({r}),
         requests' = requests \ {r} \/ (LongReasons /\ requests' = requests),
         peerIds' \in SUBSET PeerIds, peerIds \subseteq peerIds', UNCHANGED <<session, publishing>>
  PROVE  PublisherInv'
  <2> USE <1>EndOneStep
  <2>1. Detaches({r}, DOMAIN tracks)
    BY DEF DetachStreams, DetachedTracks, Detaches
  <2>2. publishing' = None /\ publishing = None
    BY DEF LockFree, Publishing
  <2>3. wire' \in Seq(DataStreams)
    BY <1>DetachedWire DEF PublisherInv, TypeInv
  <2> QED
    BY <2>1, <2>2, <2>3, <1>DetachStep

\* publish() moves the largest Location of the track forward.
<1>PublishStep.
  ASSUME PublisherInv, NEW o \in Objects, publish(o)
  PROVE  PublisherInv'
  <2> USE <1>PublishStep
  <2> DEFINE place == <<o.group, o.id>>
             t == o.track
  <2> USE DEF publish, PublishBegins
  <2>1. TypeInv /\ TableInv /\ RangeInv
    BY DEF PublisherInv
  <2>2. /\ publishing = None /\ t \in DOMAIN tracks
        /\ UNCHANGED <<subs, wire, session, requests, peerIds>>
    BY DEF LockFree, Publishing, Registered, requestVars
  <2>3. place \in Locations /\ o.group \in Ids
    BY ObjectAssumption DEF ObjectOK, Locations
  <2>4. /\ DOMAIN tracks' = DOMAIN tracks
        /\ \A x \in DOMAIN tracks : x # t => tracks'[x] = tracks[x]
        /\ tracks'[t].subs = tracks[t].subs
        /\ tracks'[t].largest \in {place, tracks[t].largest}
        /\ tracks' \in [DOMAIN tracks -> TrackEntries]
    BY Zenon, <2>1, <2>2, <2>3 DEF TypeInv, TrackEntries
  <2>5. publishing' = IF tracks[t].subs = {} THEN None
                      ELSE [object |-> o, left |-> tracks[t].subs, at |-> None]
    OBVIOUS
  <2> HIDE DEF publish, PublishBegins
  <2>6. tracks[t].subs \in SUBSET PeerIds
    BY <2>1, <2>2 DEF TypeInv, TrackEntries
  <2>7. /\ publishing' \in Calls \cup {None}
        /\ tracks[t].subs # {} => /\ Publishing' /\ publishing'.left = tracks[t].subs
                                  /\ publishing'.object = o
    BY <2>5, <2>6, NoneAssumption DEF Calls, Publishing
  <2>8. TypeInv'
    BY <2>1, <2>2, <2>4, <2>7 DEF TypeInv
  <2>9. TableInv'
    <3>1. \A x \in DOMAIN tracks : tracks'[x].subs = tracks[x].subs
      BY <2>4
    <3>2. QED
      BY <2>1, <2>2, <2>4, <3>1 DEF TableInv
  <2>10. ASSUME NEW r \in DOMAIN subs, Overtaken(r)'
         PROVE  (Publishing /\ r \in publishing.left /\ PastRange(subs[r], publishing.object))'
    <3>1. ~Overtaken(r)
      BY <2>1, <2>2 DEF RangeInv, Publishing
    <3>2. subs[r].track = t /\ tracks'[t].largest = place
      <4>1. subs[r].track \in DOMAIN tracks
        BY <2>1 DEF TableInv
      <4>2. tracks'[subs[r].track].largest # tracks[subs[r].track].largest
        BY <2>2, <2>10, <3>1 DEF Overtaken
      <4>3. QED
        BY <2>4, <4>1, <4>2
    <3>3. r \in tracks[t].subs
      BY <2>1, <2>2, <3>2 DEF TableInv
    <3>4. subs[r].end # None /\ o.group > subs[r].end
      BY <2>2, <2>10, <3>2 DEF Overtaken
    <3>5. QED
      BY <2>2, <2>7, <3>3, <3>4 DEF PastRange
  <2> QED
    BY <2>2, <2>8, <2>9, <2>10 DEF RangeInv, PublisherInv

\* The loop is done with r, whose range, if r is still attached, is open.
<1>LoopStep.
  ASSUME PublisherInv, TypeInv', TableInv', Publishing, NEW r,
         Loop(publishing.left \ {r}),
         \A x \in DOMAIN subs' : /\ x \in DOMAIN subs /\ subs'[x] = subs[x]
                                 /\ Overtaken(x)' => Overtaken(x)
                                 /\ x = r => ~PastRange(subs[x], publishing.object)
  PROVE  PublisherInv'
  <2> USE <1>LoopStep
  <2>1. publishing \in Calls /\ RangeInv
    BY DEF PublisherInv, TypeInv, Publishing
  <2>2. ASSUME NEW x \in DOMAIN subs', Overtaken(x)'
        PROVE  (Publishing /\ x \in publishing.left /\ PastRange(subs[x], publishing.object))'
    <3>1. /\ x \in DOMAIN subs /\ Overtaken(x) /\ subs'[x] = subs[x]
      BY <2>2
    <3>2. x \in publishing.left /\ PastRange(subs[x], publishing.object)
      BY <2>1, <3>1 DEF RangeInv
    <3>3. x \in publishing.left \ {r}
      BY <3>2
    <3>4. publishing' = [publishing EXCEPT !.left = publishing.left \ {r}, !.at = None]
      BY <3>3 DEF Loop
    <3>5. /\ publishing'.left = publishing.left \ {r} /\ publishing'.object = publishing.object
          /\ publishing' \in Calls
      BY Zenon, <2>1, <3>4 DEF Calls
    <3>6. publishing' # None
      BY <3>5, NoneAssumption
    <3>7. QED
      BY <3>1, <3>2, <3>3, <3>5, <3>6 DEF PastRange, Publishing
  <2> QED
    BY <2>2 DEF RangeInv, PublisherInv

\* The rest of the loop is a call, or none is left.
<1>LoopType.
  ASSUME TypeInv, Publishing, NEW r, Loop(publishing.left \ {r})
  PROVE  publishing' \in Calls \cup {None}
  <2> USE <1>LoopType
  <2>1. publishing \in Calls
    BY DEF TypeInv, Publishing
  <2> QED
    BY Zenon, <2>1 DEF Loop, Calls

\* The loop passes over a request that was detached meanwhile.
<1>SkipsDetachedStep.
  ASSUME PublisherInv, NEW r, SkipsDetached(r), UNCHANGED <<session, requests, peerIds>>
  PROVE  PublisherInv'
  <2> USE <1>SkipsDetachedStep
  <2> DEFINE t == publishing.object.track
  <2>1. TypeInv /\ TableInv
    BY DEF PublisherInv
  <2>2. /\ Publishing /\ r \notin DOMAIN subs /\ Loop(publishing.left \ {r})
        /\ tracks' = [tracks EXCEPT ![t].subs = @ \ {r}] /\ UNCHANGED <<subs, wire>>
    BY DEF SkipsDetached
  <2>3. tracks' = tracks
    <3>1. \A x \in DOMAIN tracks : tracks[x] \in TrackEntries /\ r \notin tracks[x].subs
      BY <2>1, <2>2 DEF TypeInv, TableInv
    <3>2. \A x \in DOMAIN tracks : [tracks[x] EXCEPT !.subs = @ \ {r}] = tracks[x]
      BY <3>1 DEF TrackEntries
    <3>3. tracks' = [x \in DOMAIN tracks |->
                       IF x = t THEN [tracks[x] EXCEPT !.subs = @ \ {r}] ELSE tracks[x]]
      BY Zenon, <2>2
    <3>4. tracks = [x \in DOMAIN tracks |-> tracks[x]]
      BY <2>1 DEF TypeInv
    <3>5. QED
      BY <3>2, <3>3, <3>4
  <2>4. TypeInv' /\ TableInv'
    <3>1. publishing' \in Calls \cup {None}
      BY <2>1, <2>2, <1>LoopType
    <3>2. TypeInv'
      BY Zenon, <2>1, <2>2, <2>3, <3>1 DEF TypeInv
    <3>3. TableInv'
      <4>1. tracks' = tracks /\ subs' = subs /\ requests' = requests /\ peerIds' = peerIds /\ session' = session
        BY <2>2, <2>3
      <4>2. QED
        BY <2>1, <4>1 DEF TableInv
    <3>4. QED
      BY <3>2, <3>3
  <2>5. \A x \in DOMAIN subs' : Overtaken(x)' => Overtaken(x)
    BY <2>2, <2>3 DEF Overtaken
  <2> QED
    BY <2>2, <2>4, <2>5, <1>LoopStep

\* The end of the loop's body: a subscription whose range has passed ends.
<1>CompletedStep.
  ASSUME PublisherInv, NEW r, Completed(r)
  PROVE  PublisherInv'
  <2> USE <1>CompletedStep
  <2>1. TypeInv /\ TableInv
    BY DEF PublisherInv
  <2>2. /\ Publishing /\ Loop(publishing.left \ {r}) /\ UNCHANGED <<session, peerIds>>
        /\ publishing' \in Calls \cup {None}
    BY Zenon, <2>1, <1>LoopType DEF Completed
  <2>3. CASE finish({r}) /\ tracks' = DetachedTracks({r})
    <3>1. Detaches({r}, DOMAIN tracks)
      BY <2>3 DEF finish, DetachStreams, DetachedTracks, Detaches
    <3>2. TablesLeft({r}, DOMAIN tracks)
      BY <2>1, <3>1, <1>DetachedTables
    <3>3. wire' \in Seq(DataStreams)
      BY <2>1, <2>3, <1>DetachedWire DEF finish, TypeInv, Ends
    <3>4. requests' = requests \ {r}
      BY <2>3 DEF finish
    <3>5. TypeInv'
      BY <2>1, <2>2, <3>2, <3>3, <3>4 DEF TypeInv, TablesLeft
    <3>6. TableInv'
      BY <2>1, <2>2, <3>2, <3>4 DEF TableInv, TablesLeft
    <3>7. \A x \in DOMAIN subs' : /\ x \in DOMAIN subs /\ subs'[x] = subs[x] /\ x # r
                                  /\ Overtaken(x)' => Overtaken(x)
      BY <3>2 DEF TablesLeft
    <3>8. QED
      BY <2>2, <3>5, <3>6, <3>7, <1>LoopStep
  <2>4. CASE /\ r \in DOMAIN subs => ~Completes(subs[r], publishing.object)
             /\ UNCHANGED <<tracks, subs, wire, requests, replies>>
    <3>1. TypeInv' /\ TableInv'
      BY <2>1, <2>2, <2>4 DEF TypeInv, TableInv
    <3>2. \A x \in DOMAIN subs' : /\ Overtaken(x)' => Overtaken(x)
                                  /\ x = r => ~PastRange(subs[x], publishing.object)
      BY <2>4 DEF Overtaken, Completes
    <3>3. QED
      BY Zenon, <2>2, <2>4, <3>1, <3>2, <1>LoopStep
  <2> QED
    BY <2>3, <2>4 DEF Completed

\* The open streams after a send are streams of subgroups.
<1>StreamsAfterType.
  ASSUME NEW r, subs[r].streams \in StreamMaps, NEW o \in Objects, NEW n \in Nat
  PROVE  StreamsAfter(r, o, n) \in StreamMaps
  <2> USE <1>StreamsAfterType
  <2> DEFINE keys == IF LeavesMap(o) THEN DOMAIN subs[r].streams \ {KeyOf(o)}
                     ELSE DOMAIN subs[r].streams \cup {KeyOf(o)}
  <2>1. KeyOf(o) \in Keys /\ [at |-> n, last |-> o.id] \in Handles
    BY ObjectAssumption DEF KeyOf, Keys, Subgroups, ObjectOK, Handles
  <2>2. /\ DOMAIN subs[r].streams \subseteq Keys
        /\ \A key \in DOMAIN subs[r].streams : subs[r].streams[key] \in Handles
    BY MapFacts
  <2>3. keys \subseteq Keys
    BY <2>1, <2>2
  <2>4. StreamsAfter(r, o, n) \in [keys -> Handles]
    BY <2>1, <2>2 DEF StreamsAfter
  <2> HIDE DEF keys
  <2>5. DOMAIN StreamsAfter(r, o, n) = keys
    BY <2>4
  <2> QED
    BY <2>3, <2>4, <2>5, MapFacts

\* A send on a data stream: the counter and the streams of r may change.
<1>SendStep.
  ASSUME PublisherInv, Publishing, NEW r \in DOMAIN subs, NEW c \in Nat, NEW m \in StreamMaps,
         subs' = [subs EXCEPT ![r].count = c, ![r].streams = m],
         publishing' = [publishing EXCEPT !.at = r],
         wire' \in Seq(DataStreams), UNCHANGED <<tracks, session, requests, peerIds>>
  PROVE  PublisherInv'
  <2> USE <1>SendStep
  <2>1. TypeInv /\ TableInv
    BY DEF PublisherInv
  <2>2. r \in PeerIds /\ subs[r] \in SubscriptionSends
    BY <2>1 DEF TypeInv
  <2>3. LoopGoesOn
    BY <2>1, <2>2, AtStep
  <2>4. SubscriptionsKept
    <3>1. [subs[r] EXCEPT !.count = c, !.streams = m] \in SubscriptionSends
      BY <2>2 DEF SubscriptionSends
    <3>2. subs' \in [DOMAIN subs -> SubscriptionSends]
      BY <2>1, <3>1 DEF TypeInv
    <3>3. \A x \in DOMAIN subs : subs'[x].track = subs[x].track /\ subs'[x].end = subs[x].end
      BY <2>2 DEF SubscriptionSends
    <3>4. QED
      BY <3>2, <3>3 DEF SubscriptionsKept
  <2>5. peerIds' \in SUBSET PeerIds /\ session' \in {"Opening", "Ready", "Closing", "Closed"}
        /\ (session' \in {"Closing", "Closed"} => requests = {})
    BY <2>1 DEF TypeInv, TableInv
  <2> QED
    BY <2>3, <2>4, <2>5, <1>KeepStep

\* send_on_subgroup_stream() with a new stream.
<1>SendsOnNewStreamStep.
  ASSUME PublisherInv, NEW r \in PeerIds, SendsOnNewStream(r), UNCHANGED <<session, requests, peerIds>>
  PROVE  PublisherInv'
  <2> USE <1>SendsOnNewStreamStep
  <2> DEFINE o == publishing.object
             n == Len(wire) + 1
             stream == [req |-> r, group |-> o.group, subgroup |-> o.subgroup,
                        objects |-> <<>>, end |-> "open"]
  <2>1. TypeInv
    BY DEF PublisherInv
  <2>2. /\ Publishing /\ r \in DOMAIN subs
        /\ wire' = Append(Ended(wire, Replaced(r, o), "reset"), Sent(stream, o, None))
        /\ subs' = [subs EXCEPT ![r].count = @ + 1, ![r].streams = StreamsAfter(r, o, n)]
        /\ publishing' = [publishing EXCEPT !.at = r] /\ tracks' = tracks
    BY DEF SendsOnNewStream, NeedsStream, Visits
  <2>3. o \in Objects /\ ObjectOK(o)
    BY <2>1, <2>2, AtStep, ObjectAssumption
  <2>4. subs[r] \in SubscriptionSends /\ wire \in Seq(DataStreams) /\ n \in Nat
    BY <2>1, <2>2 DEF TypeInv
  <2>5. stream \in DataStreams
    BY Zenon, <2>3, FreshStream DEF ObjectOK, Subgroups
  <2>6. Sent(stream, o, None) \in DataStreams
    BY <2>3, <2>5, SentType
  <2> HIDE DEF stream
  <2>7. wire' \in Seq(DataStreams)
    <3>1. Ended(wire, Replaced(r, o), "reset") \in Seq(DataStreams)
      BY <2>4, EndedType DEF Ends
    <3>2. QED
      BY <2>2, <2>6, <3>1
  <2>8. StreamsAfter(r, o, n) \in StreamMaps
    BY <2>3, <2>4, <1>StreamsAfterType DEF SubscriptionSends
  <2>9. subs[r].count + 1 \in Nat
    BY <2>4 DEF SubscriptionSends
  <2>10. subs' = [subs EXCEPT ![r].count = subs[r].count + 1, ![r].streams = StreamsAfter(r, o, n)]
    BY <2>2
  <2> HIDE DEF o, n
  <2> QED
    BY Zenon, <2>2, <2>7, <2>8, <2>9, <2>10, <1>SendStep

\* send_on_subgroup_stream() with the stream in the map.
<1>SendsOnOpenStreamStep.
  ASSUME PublisherInv, NEW r \in PeerIds, SendsOnOpenStream(r), UNCHANGED <<session, requests, peerIds>>
  PROVE  PublisherInv'
  <2> USE <1>SendsOnOpenStreamStep
  <2> DEFINE o == publishing.object
             open == subs[r].streams[KeyOf(o)]
  <2>1. TypeInv
    BY DEF PublisherInv
  <2>2. /\ Publishing /\ r \in DOMAIN subs /\ HasStream(r, o) /\ ~OutOfOrder(r, o)
        /\ wire' = [wire EXCEPT ![open.at] = Sent(@, o, open.last)]
        /\ subs' = [subs EXCEPT ![r].streams = StreamsAfter(r, o, open.at)]
        /\ publishing' = [publishing EXCEPT !.at = r] /\ tracks' = tracks
    BY DEF SendsOnOpenStream, Visits
  <2>3. o \in Objects /\ ObjectOK(o)
    BY <2>1, <2>2, AtStep, ObjectAssumption
  <2>4. subs[r] \in SubscriptionSends /\ wire \in Seq(DataStreams)
    BY <2>1, <2>2 DEF TypeInv
  <2>5. subs[r].streams \in StreamMaps /\ subs[r].count \in Nat
    BY <2>4 DEF SubscriptionSends
  <2>6. open \in Handles
    BY <2>2, <2>5, MapFacts DEF HasStream
  <2>7. open.at \in Nat /\ open.last \in Ids /\ o.id > open.last
    BY <2>2, <2>3, <2>6, IdAssumption DEF OutOfOrder, Handles, ObjectOK, Ids
  <2> HIDE DEF open
  <2>8. wire' \in Seq(DataStreams)
    <3>1. Len(wire) \in Nat /\ DOMAIN wire = 1..Len(wire) /\ wire \in [1..Len(wire) -> DataStreams]
      BY <2>4, SequenceIs
    <3>2. \A k \in 1..Len(wire) : Sent(wire[k], o, open.last) \in DataStreams
      BY <2>3, <2>7, <3>1, SentType
    <3>3. wire' \in [1..Len(wire) -> DataStreams]
      BY Zenon, <2>2, <3>1, <3>2
    <3>4. QED
      BY <3>1, <3>3, SequenceOf
  <2>9. StreamsAfter(r, o, open.at) \in StreamMaps
    BY <2>3, <2>5, <2>7, <1>StreamsAfterType
  <2>10. subs' = [subs EXCEPT ![r].count = subs[r].count, ![r].streams = StreamsAfter(r, o, open.at)]
    <3>1. [subs[r] EXCEPT !.streams = StreamsAfter(r, o, open.at)]
            = [subs[r] EXCEPT !.count = subs[r].count, !.streams = StreamsAfter(r, o, open.at)]
      BY Zenon, <2>4 DEF SubscriptionSends
    <3>2. QED
      BY Zenon, <2>1, <2>2, <3>1 DEF TypeInv
  <2> HIDE DEF o
  <2>11. Publishing /\ r \in DOMAIN subs /\ publishing' = [publishing EXCEPT !.at = r] /\ tracks' = tracks
    BY <2>2
  <2> QED
    BY Zenon, <2>5, <2>8, <2>9, <2>10, <2>11, <1>SendStep

\* The tables are empty at first.
<1>PublisherInit. Init => PublisherInv
  <2> SUFFICES ASSUME Init PROVE PublisherInv
    OBVIOUS
  <2>1. DOMAIN <<>> = {} /\ <<>> \in [{} -> TrackEntries] /\ <<>> \in [{} -> SubscriptionSends]
    OBVIOUS
  <2>2. TypeInv
    BY <2>1 DEF Init, PlaneInit, TypeInv
  <2> QED
    BY <2>1, <2>2 DEF Init, PlaneInit, TableInv, RangeInv, PublisherInv

\* What the tables do not see.
<1>QuietStep.
  ASSUME PublisherInv, UNCHANGED <<tracks, subs, requests, publishing, session>>,
         wire' \in Seq(DataStreams), peerIds' \in SUBSET PeerIds, peerIds \subseteq peerIds'
  PROVE  PublisherInv'
  <2> USE <1>QuietStep
  <2>1. LoopGoesOn
    BY DEF PublisherInv, TypeInv, LoopGoesOn
  <2>2. /\ session' \in {"Opening", "Ready", "Closing", "Closed"}
        /\ session' \in {"Closing", "Closed"} => requests = {}
    BY DEF PublisherInv, TypeInv, TableInv
  <2> QED
    BY <2>1, <2>2, <1>FrameStep

\* Every step keeps the tables and ranges in order: one case per action.
<1>PublisherNext.
  ASSUME PublisherInv, [Next]_vars
  PROVE  PublisherInv'
  <2> USE <1>PublisherNext
  <2> USE DEF planeVars, requestVars
  <2>1. TypeInv /\ TableInv
    BY DEF PublisherInv
  <2>a. peerIds \in SUBSET PeerIds /\ wire \in Seq(DataStreams)
        /\ \A r \in PeerIds : peerIds \cup {r} \in SUBSET PeerIds
    BY <2>1 DEF TypeInv
  <2>b. publishing \in Calls \cup {None} /\ (LockFree => LoopGoesOn \/ publishing' # publishing)
    BY <2>1 DEF TypeInv, LockFree, Publishing, LoopGoesOn
  <2>2. CASE BecomesReady
    <3>1. /\ UNCHANGED <<tracks, subs, wire, requests, publishing, peerIds>>
          /\ session' = "Ready" /\ LockFree
      BY <2>2 DEF BecomesReady
    <3>2. QED
      BY <2>a, <2>b, <3>1, <1>FrameStep
  <2>3. CASE ClosesSession
    BY <2>3, <2>a, <2>b, <1>BeginCloseStep DEF ClosesSession
  <2>4. CASE ShutdownComplete
    <3>1. /\ UNCHANGED <<tracks, subs, wire, requests, publishing, peerIds>>
          /\ session' = "Closed" /\ LockFree /\ requests = {}
      BY <2>4 DEF ShutdownComplete
    <3>2. QED
      BY <2>a, <2>b, <3>1, <1>FrameStep
  <2>5. CASE PeerRequest
    <3>1. ASSUME NEW r \in PeerIds, NEW t \in Tracks, NEW options \in Options,
                 RejectSubscribe(r, t, options)
          PROVE  PublisherInv'
      BY <3>1, <2>a, <1>QuietStep DEF RejectSubscribe
    <3>2. ASSUME NEW r \in PeerIds, NEW t \in Tracks, NEW options \in Options,
                 SubscribeOkFails(r, t, options)
          PROVE  PublisherInv'
      BY <3>2, <2>a, <2>b, <1>BeginCloseStep DEF SubscribeOkFails
    <3>3. ASSUME NEW r \in PeerIds, NEW u \in PeerIds, NEW options \in Options,
                 RejectUpdate(r, u, options)
          PROVE  PublisherInv'
      <4>1. /\ LockFree /\ DetachStreams({r}, "fin") /\ tracks' = DetachedTracks({r})
            /\ requests' = requests \ {r} /\ peerIds' = peerIds \cup {u}
            /\ UNCHANGED <<session, publishing>>
        BY <3>3 DEF RejectUpdate, PeerMayAct
      <4>2. QED
        BY Zenon, <2>a, <4>1, <1>EndOneStep DEF Ends
    <3>4. ASSUME NEW r \in PeerIds, InvalidRequestId(r)
          PROVE  PublisherInv'
      BY <3>4, <2>a, <2>b, <1>BeginCloseStep DEF InvalidRequestId
    <3>5. ASSUME NEW r \in PeerIds, CancelRequest(r)
          PROVE  PublisherInv'
      <4>1. /\ LockFree /\ DetachStreams({r}, "reset") /\ tracks' = DetachedTracks({r})
            /\ requests' = requests \ {r} /\ UNCHANGED <<session, publishing, peerIds>>
        BY <3>5 DEF CancelRequest, cancel
      <4>2. QED
        BY Zenon, <2>a, <4>1, <1>EndOneStep DEF Ends
    <3>6. ASSUME NEW r \in PeerIds, PeerStopsRequest(r)
          PROVE  PublisherInv'
      BY <3>6, <2>a, <1>QuietStep DEF PeerStopsRequest
    <3>7. ASSUME PeerStopsData
          PROVE  PublisherInv'
      <4>1. PICK n \in DOMAIN wire : wire' = [wire EXCEPT ![n].end = "stopped"]
        BY Zenon, <3>7 DEF PeerStopsData, PeerStopsStream
      <4>2. Len(wire) \in Nat /\ DOMAIN wire = 1..Len(wire) /\ wire \in [1..Len(wire) -> DataStreams]
        BY <2>a, SequenceIs
      <4>3. wire' \in [1..Len(wire) -> DataStreams]
        BY Zenon, <4>1, <4>2 DEF DataStreams, Ends
      <4>4. wire' \in Seq(DataStreams)
        BY <4>2, <4>3, SequenceOf
      <4>5. UNCHANGED <<tracks, subs, requests, publishing, session, peerIds>>
        BY <3>7 DEF PeerStopsData, PeerStopsStream
      <4>6. QED
        BY <2>a, <4>4, <4>5, <1>QuietStep
    <3>8. QED
      BY <2>5, <3>1, <3>2, <3>3, <3>4, <3>5, <3>6, <3>7, <1>AcceptSubscribeStep, <1>AcceptUpdateStep
         DEF PeerRequest
  <2>6. ASSUME NEW t \in Tracks, EndTrackThrows(t)
        PROVE  PublisherInv'
    <3>1. PICK r : DetachStreams({r}, "fin") /\ tracks' = DetachedTracks({r})
      BY <2>6 DEF EndTrackThrows
    <3>2. LockFree /\ LongReasons /\ UNCHANGED <<session, publishing, requests, peerIds>>
      BY <2>6 DEF EndTrackThrows
    <3>3. QED
      BY Zenon, <2>a, <3>1, <3>2, <1>EndOneStep DEF Ends
  <2>7. ASSUME NEW r \in PeerIds, Delivers(r)
        PROVE  PublisherInv'
    <3>1. UNCHANGED <<session, requests, peerIds>>
      BY <2>7 DEF Delivers
    <3>2. CASE Withholds(r) \/ SendsDatagram(r)
      <4>1. Publishing /\ publishing' = [publishing EXCEPT !.at = r] /\ UNCHANGED <<tracks, subs, wire>>
        BY <3>2 DEF Withholds, SendsDatagram, Visits
      <4>2. LoopGoesOn
        BY <2>1, <4>1, AtStep
      <4>3. /\ session' \in {"Opening", "Ready", "Closing", "Closed"}
            /\ session' \in {"Closing", "Closed"} => requests = {}
        BY <2>1, <3>1 DEF TypeInv, TableInv
      <4>4. QED
        BY <2>a, <3>1, <4>1, <4>2, <4>3, <1>FrameStep
    <3>3. QED
      BY <2>7, <3>1, <3>2, <1>SkipsDetachedStep, <1>SendsOnNewStreamStep, <1>SendsOnOpenStreamStep DEF Delivers
  <2>8. ASSUME NEW r \in PeerIds, OpenFails(r)
        PROVE  PublisherInv'
    <3>1. Publishing /\ begin_close /\ publishing' = [publishing EXCEPT !.at = r] /\ peerIds' = peerIds
      BY <2>8 DEF OpenFails, NeedsStream, Visits
    <3>2. publishing' \in Calls \cup {None}
      BY <2>1, <3>1, AtStep DEF LoopGoesOn
    <3>3. QED
      BY <2>a, <3>1, <3>2, <1>BeginCloseStep
  <2>9. CASE UNCHANGED vars
    BY <2>9, <2>a, <1>QuietStep DEF vars
  <2> QED
    BY <2>2, <2>3, <2>4, <2>5, <2>6, <2>7, <2>8, <2>9, <1>RegisterStep, <1>EndTrackStep, <1>PublishStep,
       <1>CompletedStep DEF Next
<1>1. PublisherInv /\ [Next]_vars => PublisherInv'
  BY <1>PublisherNext
<1> QED
  BY <1>1, <1>PublisherInit, PTL DEF Spec

\* The three tables agree, unless end_track() was given a reason that no
\* PUBLISH_DONE can carry.
THEOREM TablesAlwaysAgree == Spec => [](~LongReasons => TablesAgree)
<1>1. PublisherInv => (~LongReasons => TablesAgree)
  BY DEF PublisherInv, TableInv, TablesAgree
<1> QED
  BY <1>1, PublisherInvariant, PTL

\* No subscription is kept whose range has passed.
THEOREM RangesAlwaysOpen == Spec => []RangesAreOpen
<1>1. ASSUME PublisherInv PROVE RangesAreOpen
  <2>1. SUFFICES ASSUME LockFree, NEW r \in DOMAIN subs, subs[r].end # None,
                        tracks[subs[r].track].largest # None
                 PROVE  tracks[subs[r].track].largest[1] <= subs[r].end
    BY Zenon DEF RangesAreOpen
  <2>2. TypeInv /\ TableInv /\ RangeInv
    BY <1>1 DEF PublisherInv
  <2>3. ~Overtaken(r)
    BY <2>1, <2>2 DEF RangeInv, LockFree
  <2>4. tracks[subs[r].track].largest \in Locations /\ subs[r].end \in Ids
    BY <2>1, <2>2 DEF TypeInv, TableInv, TrackEntries, SubscriptionSends
  <2>5. tracks[subs[r].track].largest[1] \in Nat /\ subs[r].end \in Nat
    BY <2>4, IdAssumption DEF Locations, Ids
  <2>6. QED
    BY <2>1, <2>3, <2>5 DEF Overtaken
<1> QED
  BY <1>1, PublisherInvariant, PTL

StreamKey(stream) == <<stream.group, stream.subgroup>>

\* The deltas on a stream are those of ascending Object IDs, and a stream on
\* which the last object of its group was sent ends with that message.
Coherent(objects) ==
  /\ \A i \in DOMAIN objects :
       objects[i].delta = IF i = 1 THEN objects[i].id ELSE objects[i].id - objects[i - 1].id - 1
  /\ \A i \in DOMAIN objects : objects[i].ends =>
       objects[Len(objects)].status \in {"EndOfGroup", "EndOfTrack"}

\* An open stream that goes on: the map knows its last Object ID, and its
\* group has not ended on it.
GoesOn(objects, last) ==
  /\ objects # <<>>
  /\ objects[Len(objects)].id = last
  /\ \A i \in DOMAIN objects : ~objects[i].ends

\* A stream in the map of a subscription is its own, of that subgroup, and
\* nobody but the peer has ended it.
ListedInv ==
  \A r \in DOMAIN subs : \A key \in DOMAIN subs[r].streams :
    LET handle == subs[r].streams[key] IN
    /\ handle.at \in DOMAIN wire
    /\ wire[handle.at].req = r
    /\ StreamKey(wire[handle.at]) = key
    /\ wire[handle.at].end \in {"open", "stopped"}
    /\ wire[handle.at].end = "open" => GoesOn(wire[handle.at].objects, handle.last)

\* A stream that is open is in the map of its subscription.
OpenInv ==
  \A n \in DOMAIN wire : wire[n].end = "open" =>
    /\ wire[n].req \in DOMAIN subs
    /\ StreamKey(wire[n]) \in DOMAIN subs[wire[n].req].streams
    /\ subs[wire[n].req].streams[StreamKey(wire[n])].at = n

CoherentInv == \A n \in DOMAIN wire : Coherent(wire[n].objects)

CallInv == Publishing => ValidObject(publishing.object)

WireInv == ListedInv /\ OpenInv /\ CoherentInv /\ CallInv

\* What a step may not do to a stream (EndedIsFinal).
Final ==
  /\ \A n \in DOMAIN wire : wire[n].end # "open" => wire'[n] = wire[n]
  /\ \A n \in DOMAIN wire' \ DOMAIN wire : wire'[n].req \in requests

-----------------------------------------------------------------------------
(* What the operations do to the streams. *)

\* The object of the call in progress stays the same.
CallKept == publishing' # None => Publishing /\ publishing'.object = publishing.object

\* The streams of all subscriptions stay the same; new ones have none.
StreamsKept ==
  /\ DOMAIN subs \subseteq DOMAIN subs'
  /\ \A r \in DOMAIN subs : subs'[r].streams = subs[r].streams
  /\ \A r \in DOMAIN subs' \ DOMAIN subs : subs'[r].streams = <<>>

\* A send on the stream at place n for the subgroup K of r: the only stream of
\* that subgroup that may be open afterwards, in the map unless it is over.
SendsOn(r, K, n, last, leaves) ==
  /\ n \in DOMAIN wire' /\ DOMAIN wire' = DOMAIN wire \cup {n}
  /\ wire'[n].req = r /\ StreamKey(wire'[n]) = K
  /\ Coherent(wire'[n].objects)
  /\ leaves => wire'[n].end # "open"
  /\ ~leaves => wire'[n].end \in {"open", "stopped"}
  /\ wire'[n].end = "open" => GoesOn(wire'[n].objects, last)
  /\ \A k \in DOMAIN wire \ {n} :
       /\ wire'[k].objects = wire[k].objects
       /\ wire'[k] = wire[k] \/ (wire[k].req = r /\ StreamKey(wire[k]) = K)
       /\ wire[k].req = r /\ StreamKey(wire[k]) = K => wire'[k].end # "open"
  /\ DOMAIN subs' = DOMAIN subs /\ r \in DOMAIN subs
  /\ \A x \in DOMAIN subs \ {r} : subs'[x].streams = subs[x].streams
  /\ \A key : key # K => (key \in DOMAIN subs'[r].streams <=> key \in DOMAIN subs[r].streams)
  /\ \A key \in DOMAIN subs[r].streams : key # K => subs'[r].streams[key] = subs[r].streams[key]
  /\ K \in DOMAIN subs'[r].streams <=> ~leaves
  /\ ~leaves => subs'[r].streams[K] = [at |-> n, last |-> last]

\* The list all goes on where q ends, with a and b.
LongerByTwo(q, a, b, all) ==
  /\ Len(q) \in Nat /\ DOMAIN q = 1..Len(q)
  /\ Len(all) = Len(q) + 2 /\ DOMAIN all = 1..(Len(q) + 2)
  /\ \A i \in 1..Len(q) : all[i] = q[i]
  /\ all[Len(q) + 1] = a /\ all[Len(q) + 2] = b

\* The streams of r after o was sent on its stream, which is wire[n].
Follows(streams, r, o, n) ==
  /\ \A key : key # KeyOf(o) => (key \in DOMAIN streams <=> key \in DOMAIN subs[r].streams)
  /\ \A key \in DOMAIN subs[r].streams : key # KeyOf(o) => streams[key] = subs[r].streams[key]
  /\ KeyOf(o) \in DOMAIN streams <=> ~ClosesStream(o)
  /\ ~ClosesStream(o) => streams[KeyOf(o)] = [at |-> n, last |-> o.id]

\* Every step keeps the invariant of the streams and ends no stream twice.
LEMMA WireNext == PublisherInv /\ WireInv /\ [Next]_vars => WireInv' /\ Final

\* Appending one object keeps a stream coherent.
<1>OneAppended.
  ASSUME NEW objects \in Seq(SentObjects), NEW x \in SentObjects, Coherent(objects),
         \A i \in DOMAIN objects : ~objects[i].ends,
         x.delta = IF objects = <<>> THEN x.id ELSE x.id - objects[Len(objects)].id - 1,
         x.ends => x.status \in {"EndOfGroup", "EndOfTrack"}
  PROVE  LET all == objects \o <<x>>
         IN Coherent(all) /\ (~x.ends => GoesOn(all, x.id))
  <2> USE <1>OneAppended
  <2> DEFINE all == objects \o <<x>>
             L == Len(objects)
  <2>1. /\ L \in Nat /\ DOMAIN objects = 1..L
        /\ all \in Seq(SentObjects) /\ Len(all) = L + 1 /\ DOMAIN all = 1..(L + 1)
        /\ \A i \in 1..L : all[i] = objects[i]
        /\ all[L + 1] = x
    OBVIOUS
  <2>2. objects = <<>> <=> L = 0
    OBVIOUS
  <2> HIDE DEF all, L
  <2>3. ASSUME NEW i \in DOMAIN all
        PROVE  all[i].delta = IF i = 1 THEN all[i].id ELSE all[i].id - all[i - 1].id - 1
    <3>1. CASE i \in 1..L
      <4>1. objects[i].delta = IF i = 1 THEN objects[i].id ELSE objects[i].id - objects[i - 1].id - 1
        BY <2>1, <3>1 DEF Coherent
      <4>2. i # 1 => i - 1 \in 1..L
        BY <2>1, <3>1
      <4>3. QED
        BY <2>1, <3>1, <4>1, <4>2
    <3>2. CASE i = L + 1
      <4>1. CASE L = 0
        BY <2>1, <2>2, <3>2, <4>1
      <4>2. CASE L # 0
        <5>1. i - 1 = L /\ L \in 1..L /\ i # 1
          BY <2>1, <3>2, <4>2
        <5>2. QED
          BY <2>1, <2>2, <3>2, <4>2, <5>1 DEF L
      <4>3. QED
        BY <4>1, <4>2
    <3>3. QED
      BY <2>1, <3>1, <3>2
  <2>4. \A i \in DOMAIN all : all[i].ends => i = L + 1
    BY <2>1
  <2>5. Coherent(all)
    BY Zenon, <2>1, <2>3, <2>4 DEF Coherent
  <2>6. ~x.ends => GoesOn(all, x.id)
    <3>1. all # <<>>
      BY <2>1
    <3>2. QED
      BY <2>1, <2>4, <3>1 DEF GoesOn
  <2> QED
    BY <2>5, <2>6 DEF all

\* Two more entries of a list.
<1>TwoMore.
  ASSUME NEW S, NEW q \in Seq(S), NEW a \in S, NEW b \in S
  PROVE  LongerByTwo(q, a, b, q \o <<a, b>>)
  BY <1>TwoMore DEF LongerByTwo

\* The objects of one call continue a stream.
<1>AppendedCoherent.
  ASSUME NEW objects \in Seq(SentObjects), Coherent(objects), NEW o \in Objects, ValidObject(o),
         NEW last \in Ids \cup {None},
         IF last = None THEN objects = <<>> ELSE o.id > last /\ GoesOn(objects, last)
  PROVE  LET all == objects \o Appended(o, last)
         IN Coherent(all) /\ (~ClosesStream(o) => GoesOn(all, o.id))
  <2> USE <1>AppendedCoherent
  <2> DEFINE first == [delta |-> Delta(o.id, last), status |-> StatusOnStream(o), id |-> o.id,
                       ends |-> o.endOfGroup]
             marker == [delta |-> 0, status |-> "EndOfGroup", id |-> o.id + 1, ends |-> o.endOfGroup]
  <2>1. ObjectOK(o) /\ o.id \in Nat /\ o.endOfGroup \in BOOLEAN
    BY ObjectAssumption, IdAssumption DEF ObjectOK, Ids
  <2>2. Appended(o, last) = IF NeedsMarker(o) THEN <<first, marker>> ELSE <<first>>
    BY DEF Appended
  <2>3. first \in SentObjects /\ marker \in SentObjects
    <3>1. Delta(o.id, last) \in Nat
      BY <2>1, IdAssumption DEF Delta, Ids
    <3>2. StatusOnStream(o) \in Statuses
      BY <2>1 DEF StatusOnStream, ObjectOK, Statuses
    <3>3. QED
      BY <2>1, <3>1, <3>2 DEF SentObjects, Statuses
  <2>4. \A i \in DOMAIN objects : ~objects[i].ends
    BY DEF GoesOn
  <2>5. first.delta = IF objects = <<>> THEN first.id ELSE first.id - objects[Len(objects)].id - 1
    <3>1. CASE last = None
      BY <3>1 DEF Delta
    <3>2. CASE last # None
      BY <3>2 DEF Delta, GoesOn
    <3>3. QED
      BY Zenon, <3>1, <3>2
  <2>6. CASE ~NeedsMarker(o)
    <3>1. first.ends => first.status \in {"EndOfGroup", "EndOfTrack"}
      BY Zenon, <2>6, NoneAssumption DEF NeedsMarker, StatusOnStream, ValidObject
    <3>2. first.id = o.id /\ (~ClosesStream(o) => ~first.ends)
      BY DEF ClosesStream
    <3>3. Appended(o, last) = <<first>>
      BY <2>2, <2>6
    <3> HIDE DEF first
    <3>4. QED
      BY <2>3, <2>4, <2>5, <3>1, <3>2, <3>3, <1>OneAppended
  <2>7. CASE NeedsMarker(o)
    <3>1. o.endOfGroup /\ ClosesStream(o)
      BY <2>7 DEF NeedsMarker, ClosesStream
    <3> DEFINE all == objects \o <<first, marker>>
               L == Len(objects)
    <3>2. /\ L \in Nat /\ DOMAIN objects = 1..L
          /\ Len(all) = L + 2 /\ DOMAIN all = 1..(L + 2)
          /\ \A i \in 1..L : all[i] = objects[i]
          /\ all[L + 1] = first /\ all[L + 2] = marker
      <4> HIDE DEF first, marker
      <4>1. LongerByTwo(objects, first, marker, objects \o <<first, marker>>)
        BY Zenon, <2>3, <1>TwoMore
      <4> QED
        BY Zenon, <4>1 DEF LongerByTwo
    <3>3. objects = <<>> <=> L = 0
      OBVIOUS
    <3>4. marker.status = "EndOfGroup" /\ marker.delta = marker.id - first.id - 1
      BY <2>1
    <3> HIDE DEF all, L, first, marker
    <3>5. L + 2 # 1 /\ (L + 2) - 1 = L + 1
      <4>1. L \in Nat
        BY Zenon, <3>2
      <4>2. QED
        BY <4>1
    <3>6. ASSUME NEW i \in DOMAIN all
          PROVE  all[i].delta = IF i = 1 THEN all[i].id ELSE all[i].id - all[i - 1].id - 1
      <4>1. CASE i \in 1..L
        <5>1. objects[i].delta = IF i = 1 THEN objects[i].id ELSE objects[i].id - objects[i - 1].id - 1
          BY <3>2, <4>1 DEF Coherent
        <5>2. i # 1 => i - 1 \in 1..L
          BY <3>2, <4>1
        <5>3. QED
          BY Zenon, <3>2, <4>1, <5>1, <5>2
      <4>2. CASE i = L + 1
        <5>1. CASE L = 0
          BY <2>5, <3>2, <3>3, <4>2, <5>1
        <5>2. CASE L # 0
          <6>1. i - 1 = L /\ L \in 1..L /\ i # 1
            BY <3>2, <4>2, <5>2
          <6>2. QED
            BY Zenon, <2>5, <3>2, <3>3, <4>2, <5>2, <6>1 DEF L
        <5>3. QED
          BY <5>1, <5>2
      <4>3. CASE i = L + 2
        BY <3>2, <3>4, <3>5, <4>3
      <4>4. L \in Nat /\ i \in 1..(L + 2)
        BY Zenon, <3>2
      <4>5. i \in 1..L \/ i = L + 1 \/ i = L + 2
        BY <4>4
      <4>6. QED
        BY Zenon, <4>1, <4>2, <4>3, <4>5
    <3>7. Coherent(all)
      BY Zenon, <3>2, <3>4, <3>6 DEF Coherent
    <3>8. QED
      BY <2>2, <2>7, <3>1, <3>7 DEF all
  <2> QED
    BY <2>6, <2>7

\* The object in progress stays valid.
<1>CallStep.
  ASSUME CallInv, CallKept
  PROVE  CallInv'
  BY <1>CallStep DEF CallInv, CallKept, Publishing, ValidObject

\* Steps that touch no data stream.
<1>WireKeptStep.
  ASSUME WireInv, wire' = wire, StreamsKept, CallInv'
  PROVE  WireInv' /\ Final
  <2> USE <1>WireKeptStep
  <2>1. ListedInv /\ OpenInv /\ CoherentInv
    BY DEF WireInv
  <2>2. ASSUME NEW r \in DOMAIN subs', NEW key \in DOMAIN subs'[r].streams
        PROVE  r \in DOMAIN subs /\ key \in DOMAIN subs[r].streams /\ subs'[r].streams = subs[r].streams
    <3>1. DOMAIN <<>> = {}
      OBVIOUS
    <3>2. QED
      BY <2>2, <3>1 DEF StreamsKept
  <2>3. ListedInv'
    <3> SUFFICES ASSUME NEW r \in DOMAIN subs', NEW key \in DOMAIN subs'[r].streams
                 PROVE  LET handle == subs'[r].streams[key] IN
                          /\ handle.at \in DOMAIN wire'
                          /\ wire'[handle.at].req = r
                          /\ StreamKey(wire'[handle.at]) = key
                          /\ wire'[handle.at].end \in {"open", "stopped"}
                          /\ wire'[handle.at].end = "open" =>
                               GoesOn(wire'[handle.at].objects, handle.last)
      BY Zenon DEF ListedInv, StreamKey, GoesOn
    <3>1. PICK handle : handle = subs[r].streams[key]
      BY Zenon
    <3>2. /\ handle.at \in DOMAIN wire
          /\ wire[handle.at].req = r
          /\ StreamKey(wire[handle.at]) = key
          /\ wire[handle.at].end \in {"open", "stopped"}
          /\ wire[handle.at].end = "open" => GoesOn(wire[handle.at].objects, handle.last)
      BY Zenon, <2>1, <2>2, <3>1 DEF ListedInv
    <3>3. subs'[r].streams[key] = handle /\ wire' = wire
      BY Zenon, <2>2, <3>1
    <3>4. QED
      BY Zenon, <3>2, <3>3
  <2>4. OpenInv'
    BY Zenon, <2>1 DEF OpenInv, StreamsKept
  <2>5. CoherentInv'
    BY <2>1 DEF CoherentInv
  <2> QED
    BY <2>3, <2>4, <2>5 DEF WireInv, Final

\* detach_subscription(): exactly the streams of these subscriptions end.
<1>DetachWireStep.
  ASSUME PublisherInv, WireInv, NEW S, NEW how \in {"fin", "reset"}, DetachStreams(S, how), CallInv'
  PROVE  WireInv' /\ Final
  <2> USE <1>DetachWireStep
  <2> DEFINE E == UNION {Listed(r) : r \in S \cap DOMAIN subs}
  <2>1. ListedInv /\ OpenInv /\ CoherentInv /\ wire \in Seq(DataStreams)
    BY DEF WireInv, PublisherInv, TypeInv
  <2>2. /\ DOMAIN wire' = DOMAIN wire
        /\ \A n \in DOMAIN wire : wire'[n] = IF n \in E /\ wire[n].end = "open"
                                             THEN [wire[n] EXCEPT !.end = how] ELSE wire[n]
    BY DEF DetachStreams, Ended
  <2>3. \A n \in DOMAIN wire : wire[n] \in DataStreams
    BY <2>1
  <2>4. /\ DOMAIN subs' = DOMAIN subs \ S
        /\ \A r \in DOMAIN subs \ S : subs'[r] = subs[r]
    BY DEF DetachStreams, Restrict
  <2>5. ASSUME NEW n \in E PROVE wire[n].req \in S
    <3>1. PICK r \in S \cap DOMAIN subs : n \in Listed(r)
      BY Zenon
    <3>2. PICK key \in DOMAIN subs[r].streams : n = subs[r].streams[key].at
      BY Zenon, <3>1 DEF Listed
    <3>3. QED
      BY Zenon, <2>1, <3>1, <3>2 DEF ListedInv
  <2> HIDE DEF E
  <2>6. ListedInv'
    <3> SUFFICES ASSUME NEW r \in DOMAIN subs', NEW key \in DOMAIN subs'[r].streams
                 PROVE  LET handle == subs'[r].streams[key] IN
                          /\ handle.at \in DOMAIN wire'
                          /\ wire'[handle.at].req = r
                          /\ StreamKey(wire'[handle.at]) = key
                          /\ wire'[handle.at].end \in {"open", "stopped"}
                          /\ wire'[handle.at].end = "open" =>
                               GoesOn(wire'[handle.at].objects, handle.last)
      BY Zenon DEF ListedInv, StreamKey, GoesOn
    <3> DEFINE handle == subs[r].streams[key]
    <3>1. r \in DOMAIN subs \ S /\ subs'[r] = subs[r] /\ key \in DOMAIN subs[r].streams
      BY <2>4
    <3>2. /\ handle.at \in DOMAIN wire
          /\ wire[handle.at].req = r
          /\ StreamKey(wire[handle.at]) = key
          /\ wire[handle.at].end \in {"open", "stopped"}
          /\ wire[handle.at].end = "open" => GoesOn(wire[handle.at].objects, handle.last)
      BY Zenon, <2>1, <3>1 DEF ListedInv
    <3>3. wire'[handle.at] = wire[handle.at]
      BY <2>2, <2>5, <3>1, <3>2
    <3>4. QED
      BY <2>2, <3>1, <3>2, <3>3
  <2>7. OpenInv'
    <3> SUFFICES ASSUME NEW n \in DOMAIN wire', wire'[n].end = "open"
                 PROVE  /\ wire'[n].req \in DOMAIN subs'
                        /\ StreamKey(wire'[n]) \in DOMAIN subs'[wire'[n].req].streams
                        /\ subs'[wire'[n].req].streams[StreamKey(wire'[n])].at = n
      BY Zenon DEF OpenInv, StreamKey
    <3>1. n \in DOMAIN wire /\ wire[n] \in DataStreams
      BY <2>2, <2>3
    <3>2. wire'[n] = wire[n] /\ wire[n].end = "open" /\ n \notin E
      BY <2>2, <3>1 DEF DataStreams
    <3>3. /\ wire[n].req \in DOMAIN subs
          /\ StreamKey(wire[n]) \in DOMAIN subs[wire[n].req].streams
          /\ subs[wire[n].req].streams[StreamKey(wire[n])].at = n
      BY Zenon, <2>1, <3>1, <3>2 DEF OpenInv
    <3>4. n \in Listed(wire[n].req)
      BY Zenon, <3>3 DEF Listed
    <3>5. wire[n].req \notin S
      BY Zenon, <3>2, <3>3, <3>4 DEF E
    <3>6. QED
      BY Zenon, <2>4, <3>2, <3>3, <3>5
  <2>8. \A n \in DOMAIN wire : wire'[n].objects = wire[n].objects
    BY <2>2, <2>3 DEF DataStreams
  <2>9. CoherentInv'
    BY <2>1, <2>2, <2>8 DEF CoherentInv
  <2>10. Final
    BY <2>2 DEF Final
  <2> QED
    BY <2>6, <2>7, <2>9, <2>10 DEF WireInv

\* The peer stops a stream: it stays in the map, and nothing more is sent.
<1>StopWireStep.
  ASSUME PublisherInv, WireInv, NEW n, PeerStopsStream(n)
  PROVE  WireInv' /\ Final
  <2> USE <1>StopWireStep
  <2>1. ListedInv /\ OpenInv /\ CoherentInv /\ wire \in Seq(DataStreams)
    BY DEF WireInv, PublisherInv, TypeInv
  <2>2. /\ n \in DOMAIN wire /\ wire[n].end = "open" /\ wire' = [wire EXCEPT ![n].end = "stopped"]
        /\ UNCHANGED <<subs, publishing>>
    BY DEF PeerStopsStream
  <2>3. \A k \in DOMAIN wire : wire[k] \in DataStreams
    BY <2>1
  <2>4. /\ DOMAIN wire' = DOMAIN wire
        /\ \A k \in DOMAIN wire : k # n => wire'[k] = wire[k]
        /\ \A k \in DOMAIN wire : /\ wire'[k].req = wire[k].req /\ StreamKey(wire'[k]) = StreamKey(wire[k])
                                  /\ wire'[k].objects = wire[k].objects
        /\ wire'[n].end = "stopped"
    BY <2>2, <2>3 DEF DataStreams, StreamKey
  <2>5. ListedInv'
    <3> SUFFICES ASSUME NEW r \in DOMAIN subs', NEW key \in DOMAIN subs'[r].streams
                 PROVE  LET handle == subs'[r].streams[key] IN
                          /\ handle.at \in DOMAIN wire'
                          /\ wire'[handle.at].req = r
                          /\ StreamKey(wire'[handle.at]) = key
                          /\ wire'[handle.at].end \in {"open", "stopped"}
                          /\ wire'[handle.at].end = "open" =>
                               GoesOn(wire'[handle.at].objects, handle.last)
      BY Zenon DEF ListedInv, StreamKey, GoesOn
    <3>1. PICK handle : handle = subs[r].streams[key]
      BY Zenon
    <3>2. /\ handle.at \in DOMAIN wire
          /\ wire[handle.at].req = r
          /\ StreamKey(wire[handle.at]) = key
          /\ wire[handle.at].end \in {"open", "stopped"}
          /\ wire[handle.at].end = "open" => GoesOn(wire[handle.at].objects, handle.last)
      BY Zenon, <2>1, <2>2, <3>1 DEF ListedInv
    <3>3. PICK k \in DOMAIN wire : k = handle.at
      BY Zenon, <3>2
    <3>4. /\ wire'[k].req = r /\ StreamKey(wire'[k]) = key /\ wire'[k].objects = wire[k].objects
          /\ k \in DOMAIN wire'
      BY Zenon, <2>4, <3>2, <3>3
    <3>5. wire'[k].end = "stopped" \/ wire'[k].end = wire[k].end
      BY Zenon, <2>4, <3>3
    <3>6. "stopped" # "open"
      BY Zenon
    <3>7. wire'[k].end \in {"open", "stopped"} /\ (wire'[k].end = "open" => GoesOn(wire'[k].objects, handle.last))
      BY Zenon, <3>2, <3>3, <3>4, <3>5, <3>6
    <3>8. subs'[r].streams[key] = handle
      BY Zenon, <2>2, <3>1
    <3>9. QED
      BY Zenon, <3>3, <3>4, <3>7, <3>8
  <2>6. OpenInv'
    <3>1. \A k \in DOMAIN wire : wire'[k].end = "open" => k # n /\ wire'[k] = wire[k]
      BY <2>4
    <3>2. QED
      BY <2>1, <2>2, <2>4, <3>1 DEF OpenInv
  <2>7. CoherentInv'
    BY <2>1, <2>4 DEF CoherentInv
  <2>8. Final
    BY <2>2, <2>4 DEF Final
  <2>9. CallInv'
    BY <2>2 DEF WireInv, CallInv, Publishing
  <2> QED
    BY <2>5, <2>6, <2>7, <2>8, <2>9 DEF WireInv

\* A new entry of the map.
<1>HandleFields. ASSUME NEW h, NEW a, NEW b, h = [at |-> a, last |-> b]
                 PROVE  h.at = a /\ h.last = b
  BY <1>HandleFields

\* A send keeps the maps and the streams in step.
<1>SendWireStep.
  ASSUME WireInv, NEW r, NEW K, NEW n, NEW last, NEW leaves \in BOOLEAN,
         SendsOn(r, K, n, last, leaves),
         n \in DOMAIN wire => wire[n].req = r /\ StreamKey(wire[n]) = K
  PROVE  ListedInv' /\ OpenInv' /\ CoherentInv'
  <2> USE <1>SendWireStep
  <2> USE DEF SendsOn
  <2>1. ListedInv /\ OpenInv /\ CoherentInv
    BY Zenon DEF WireInv
  <2>2. CoherentInv'
    BY Zenon, <2>1 DEF CoherentInv
  <2>3. ListedInv'
    <3> SUFFICES ASSUME NEW x \in DOMAIN subs', NEW key \in DOMAIN subs'[x].streams
                 PROVE  LET handle == subs'[x].streams[key] IN
                          /\ handle.at \in DOMAIN wire'
                          /\ wire'[handle.at].req = x
                          /\ StreamKey(wire'[handle.at]) = key
                          /\ wire'[handle.at].end \in {"open", "stopped"}
                          /\ wire'[handle.at].end = "open" =>
                               GoesOn(wire'[handle.at].objects, handle.last)
      BY Zenon DEF ListedInv, StreamKey, GoesOn
    <3>1. CASE x = r /\ key = K
      <4>1. subs'[x].streams[key] = [at |-> n, last |-> last] /\ ~leaves
        BY Zenon, <3>1
      <4>2. subs'[x].streams[key].at = n /\ subs'[x].streams[key].last = last
        <5>1. PICK h : h = subs'[x].streams[key]
          BY Zenon
        <5>2. h = [at |-> n, last |-> last]
          BY Zenon, <4>1, <5>1
        <5>3. h.at = n /\ h.last = last
          BY Zenon, <5>2, <1>HandleFields
        <5>4. QED
          BY Zenon, <5>1, <5>3
      <4>3. QED
        BY Zenon, <3>1, <4>1, <4>2
    <3>2. CASE ~(x = r /\ key = K)
      <4> DEFINE handle == subs[x].streams[key]
      <4>1. x \in DOMAIN subs /\ key \in DOMAIN subs[x].streams /\ subs'[x].streams[key] = handle
        BY Zenon, <3>2
      <4>2. /\ handle.at \in DOMAIN wire
            /\ wire[handle.at].req = x
            /\ StreamKey(wire[handle.at]) = key
            /\ wire[handle.at].end \in {"open", "stopped"}
            /\ wire[handle.at].end = "open" => GoesOn(wire[handle.at].objects, handle.last)
        BY Zenon, <2>1, <4>1 DEF ListedInv
      <4> HIDE DEF handle
      <4>3. PICK k : k = handle.at
        BY Zenon
      <4>4. k # n /\ wire'[k] = wire[k]
        BY Zenon, <3>2, <4>2, <4>3
      <4>5. QED
        BY Zenon, <4>1, <4>2, <4>3, <4>4
    <3>3. QED
      BY Zenon, <3>1, <3>2
  <2>4. OpenInv'
    <3> SUFFICES ASSUME NEW k \in DOMAIN wire', wire'[k].end = "open"
                 PROVE  /\ wire'[k].req \in DOMAIN subs'
                        /\ StreamKey(wire'[k]) \in DOMAIN subs'[wire'[k].req].streams
                        /\ subs'[wire'[k].req].streams[StreamKey(wire'[k])].at = k
      BY Zenon DEF OpenInv, StreamKey
    <3>1. CASE k = n
      <4>1. ~leaves
        BY Zenon, <3>1
      <4>2. subs'[r].streams[K].at = n
        <5>1. PICK h : h = subs'[r].streams[K]
          BY Zenon
        <5>2. h = [at |-> n, last |-> last]
          BY Zenon, <4>1, <5>1
        <5>3. h.at = n
          BY Zenon, <5>2, <1>HandleFields
        <5>4. QED
          BY Zenon, <5>1, <5>3
      <4>3. QED
        BY Zenon, <3>1, <4>1, <4>2
    <3>2. CASE k # n
      <4>1. k \in DOMAIN wire /\ wire'[k] = wire[k] /\ ~(wire[k].req = r /\ StreamKey(wire[k]) = K)
        BY Zenon, <3>2
      <4>2. /\ wire[k].req \in DOMAIN subs
            /\ StreamKey(wire[k]) \in DOMAIN subs[wire[k].req].streams
            /\ subs[wire[k].req].streams[StreamKey(wire[k])].at = k
        BY Zenon, <2>1, <4>1 DEF OpenInv
      <4>3. CASE wire[k].req = r
        <5>1. PICK key : key = StreamKey(wire[k])
          BY Zenon
        <5>2. key # K /\ key \in DOMAIN subs[r].streams /\ subs[r].streams[key].at = k
          BY Zenon, <4>1, <4>2, <4>3, <5>1
        <5>3. key \in DOMAIN subs'[r].streams /\ subs'[r].streams[key].at = k
          BY Zenon, <5>2
        <5>4. QED
          BY Zenon, <4>1, <4>3, <5>1, <5>3
      <4>4. CASE wire[k].req # r
        <5>1. PICK x : x = wire[k].req
          BY Zenon
        <5>2. x \in DOMAIN subs' /\ subs'[x].streams = subs[x].streams
          BY Zenon, <4>2, <4>4, <5>1
        <5>3. QED
          BY Zenon, <4>1, <4>2, <5>1, <5>2
      <4>5. QED
        BY Zenon, <4>3, <4>4
    <3>3. QED
      BY Zenon, <3>1, <3>2
  <2> QED
    BY Zenon, <2>2, <2>3, <2>4

\* The streams of r after a send.
<1>StreamsAfterFacts.
  ASSUME NEW r, NEW o, NEW n, NEW streams, streams = StreamsAfter(r, o, n)
  PROVE  Follows(streams, r, o, n)
  <2> USE <1>StreamsAfterFacts
  <2> DEFINE keys == IF LeavesMap(o) THEN DOMAIN subs[r].streams \ {KeyOf(o)}
                     ELSE DOMAIN subs[r].streams \cup {KeyOf(o)}
  <2>1. streams = [key \in keys |-> IF key = KeyOf(o) THEN [at |-> n, last |-> o.id]
                                    ELSE subs[r].streams[key]]
    BY Zenon DEF StreamsAfter
  <2>2. DOMAIN streams = keys
    BY Zenon, <2>1
  <2>3. LeavesMap(o) <=> ClosesStream(o)
    BY DEF LeavesMap
  <2>4. /\ \A key : key # KeyOf(o) => (key \in DOMAIN streams <=> key \in DOMAIN subs[r].streams)
        /\ \A key \in DOMAIN subs[r].streams : key # KeyOf(o) => streams[key] = subs[r].streams[key]
        /\ KeyOf(o) \in DOMAIN streams <=> ~ClosesStream(o)
        /\ ~ClosesStream(o) => streams[KeyOf(o)] = [at |-> n, last |-> o.id]
    BY Zenon, <2>1, <2>2, <2>3
  <2> QED
    BY Zenon, <2>4 DEF Follows

\* An object goes on the open stream of its subgroup.
<1>OpenWireStep.
  ASSUME PublisherInv, WireInv, NEW r \in PeerIds, SendsOnOpenStream(r)
  PROVE  WireInv' /\ Final
  <2> USE <1>OpenWireStep
  <2> DEFINE o == publishing.object
             K == KeyOf(o)
             open == subs[r].streams[K]
             n == open.at
  <2>1. ListedInv /\ OpenInv /\ CoherentInv /\ TypeInv /\ wire \in Seq(DataStreams)
    BY DEF WireInv, PublisherInv, TypeInv
  <2>2. /\ Publishing /\ r \in DOMAIN subs /\ K \in DOMAIN subs[r].streams /\ ~OutOfOrder(r, o)
        /\ wire' = [wire EXCEPT ![n] = Sent(@, o, open.last)]
        /\ subs' = [subs EXCEPT ![r].streams = StreamsAfter(r, o, n)]
        /\ publishing' = [publishing EXCEPT !.at = r]
    BY DEF SendsOnOpenStream, Visits, HasStream
  <2>3. o \in Objects /\ ValidObject(o) /\ ObjectOK(o) /\ publishing'.object = o
    BY <2>1, <2>2, AtStep, ObjectAssumption DEF WireInv, CallInv, LoopGoesOn
  <2>4. /\ n \in DOMAIN wire /\ wire[n].req = r /\ StreamKey(wire[n]) = K
        /\ wire[n].end \in {"open", "stopped"}
        /\ wire[n].end = "open" => GoesOn(wire[n].objects, open.last)
    BY Zenon, <2>1, <2>2 DEF ListedInv
  <2>5. subs[r] \in SubscriptionSends /\ open \in Handles
    <3>1. subs[r] \in SubscriptionSends
      BY <2>1, <2>2 DEF TypeInv
    <3>2. subs[r].streams \in StreamMaps
      BY <3>1 DEF SubscriptionSends
    <3>3. QED
      BY <2>2, <3>1, <3>2, MapFacts
  <2>6. open.last \in Ids /\ o.id > open.last /\ open.last # None
    BY <2>2, <2>3, <2>5, IdAssumption, NoneAssumption DEF OutOfOrder, HasStream, Handles, ObjectOK, Ids
  <2>7. wire[n] \in DataStreams /\ wire[n].objects \in Seq(SentObjects) /\ Coherent(wire[n].objects)
    <3>1. wire[n] \in DataStreams
      BY Zenon, <2>1, <2>4, EntryOf
    <3>2. QED
      BY Zenon, <2>1, <2>4, <3>1 DEF DataStreams, CoherentInv
  <2> DEFINE all == wire[n].objects \o Appended(o, open.last)
  <2>8. wire'[n] = Sent(wire[n], o, open.last)
    BY Zenon, <2>2, <2>4
  <2>9. wire[n].end # "open" => wire'[n] = wire[n]
    BY Zenon, <2>4, <2>8 DEF Sent
  <2>10. /\ wire'[n].req = r /\ StreamKey(wire'[n]) = K /\ Coherent(wire'[n].objects)
         /\ ClosesStream(o) => wire'[n].end # "open"
         /\ ~ClosesStream(o) => wire'[n].end \in {"open", "stopped"}
         /\ wire'[n].end = "open" => GoesOn(wire'[n].objects, o.id)
    <3>1. CASE wire[n].end = "open"
      <4>1. Coherent(all) /\ (~ClosesStream(o) => GoesOn(all, o.id))
        BY Zenon, <2>3, <2>4, <2>6, <2>7, <3>1, <1>AppendedCoherent
      <4> HIDE DEF all
      <4>2. wire'[n] = [wire[n] EXCEPT !.objects = all, !.end = IF ClosesStream(o) THEN "fin" ELSE "open"]
        BY Zenon, <2>8, <3>1 DEF Sent, all
      <4> DEFINE old == wire[n]
                 new == wire'[n]
                 end == IF ClosesStream(o) THEN "fin" ELSE "open"
      <4>3. new = [old EXCEPT !.objects = all, !.end = end] /\ old \in DataStreams
        BY Zenon, <2>7, <4>2
      <4>4. old.req = r /\ StreamKey(old) = K
        BY Zenon, <2>4
      <4> HIDE DEF old, new, end
      <4>5. new.req = r /\ StreamKey(new) = K /\ new.objects = all /\ new.end = end
        BY <4>3, <4>4 DEF DataStreams, StreamKey
      <4>6. QED
        BY Zenon, <4>1, <4>5 DEF new, end
    <3>2. CASE wire[n].end = "stopped"
      BY Zenon, <2>4, <2>7, <2>9, <3>2
    <3>3. QED
      BY Zenon, <2>4, <3>1, <3>2
  <2>11. DOMAIN wire' = DOMAIN wire /\ \A k \in DOMAIN wire \ {n} : wire'[k] = wire[k]
    BY <2>2
  <2>12. \A k \in DOMAIN wire \ {n} : wire[k].req = r /\ StreamKey(wire[k]) = K => wire[k].end # "open"
    BY Zenon, <2>1 DEF OpenInv
  <2>13. /\ DOMAIN subs' = DOMAIN subs
         /\ \A x \in DOMAIN subs \ {r} : subs'[x].streams = subs[x].streams
         /\ subs'[r].streams = StreamsAfter(r, o, n)
    BY <2>2, <2>5 DEF SubscriptionSends
  <2> HIDE DEF o, open, n, K
  <2>14. SendsOn(r, K, n, o.id, ClosesStream(o))
    <3>1. /\ \A key : key # K => (key \in DOMAIN subs'[r].streams <=> key \in DOMAIN subs[r].streams)
          /\ \A key \in DOMAIN subs[r].streams : key # K => subs'[r].streams[key] = subs[r].streams[key]
          /\ K \in DOMAIN subs'[r].streams <=> ~ClosesStream(o)
          /\ ~ClosesStream(o) => subs'[r].streams[K] = [at |-> n, last |-> o.id]
      <4>1. PICK streams : streams = StreamsAfter(r, o, n)
        BY Zenon
      <4>2. Follows(streams, r, o, n)
        BY Zenon, <4>1, <1>StreamsAfterFacts
      <4>3. subs'[r].streams = streams /\ K = KeyOf(o)
        BY Zenon, <2>13, <4>1 DEF K
      <4>4. QED
        BY Zenon, <4>2, <4>3 DEF Follows
    <3>2. QED
      BY Zenon, <2>2, <2>4, <2>10, <2>11, <2>12, <2>13, <3>1 DEF SendsOn
  <2>15. ClosesStream(o) \in BOOLEAN
    BY Zenon, <2>3 DEF ClosesStream
  <2>16. CallInv'
    BY <2>3 DEF CallInv, ValidObject
  <2>17. Final
    BY Zenon, <2>4, <2>9, <2>11 DEF Final
  <2> QED
    BY Zenon, <2>4, <2>14, <2>15, <2>16, <2>17, <1>SendWireStep DEF WireInv

\* An object goes on a new stream, which replaces the old one of its subgroup.
<1>NewWireStep.
  ASSUME PublisherInv, WireInv, NEW r \in PeerIds, SendsOnNewStream(r)
  PROVE  WireInv' /\ Final
  <2> USE <1>NewWireStep
  <2> DEFINE o == publishing.object
             K == KeyOf(o)
             n == Len(wire) + 1
             R == Replaced(r, o)
             stream == [req |-> r, group |-> o.group, subgroup |-> o.subgroup,
                        objects |-> <<>>, end |-> "open"]
             new == Sent(stream, o, None)
  <2>1. ListedInv /\ OpenInv /\ CoherentInv /\ TypeInv /\ TableInv /\ wire \in Seq(DataStreams)
    BY DEF WireInv, PublisherInv, TypeInv
  <2>2. /\ Publishing /\ r \in DOMAIN subs
        /\ wire' = Append(Ended(wire, R, "reset"), new)
        /\ subs' = [subs EXCEPT ![r].count = @ + 1, ![r].streams = StreamsAfter(r, o, n)]
        /\ publishing' = [publishing EXCEPT !.at = r]
    BY DEF SendsOnNewStream, NeedsStream, Visits
  <2>3. o \in Objects /\ ValidObject(o) /\ ObjectOK(o) /\ publishing'.object = o
    BY <2>1, <2>2, AtStep, ObjectAssumption DEF WireInv, CallInv, LoopGoesOn
  <2>4. subs[r] \in SubscriptionSends
    BY <2>1, <2>2 DEF TypeInv
  <2>5. stream \in DataStreams
    BY Zenon, <2>3, FreshStream DEF ObjectOK, Subgroups
  <2>6. new \in DataStreams
    BY Zenon, <2>3, <2>5, SentType
  <2>7. /\ new.req = r /\ StreamKey(new) = K /\ Coherent(new.objects)
        /\ new.end = IF ClosesStream(o) THEN "fin" ELSE "open"
        /\ ~ClosesStream(o) => GoesOn(new.objects, o.id)
    <3> DEFINE all == <<>> \o Appended(o, None)
    <3>1. <<>> \in Seq(SentObjects) /\ Coherent(<<>>)
      BY DEF Coherent
    <3>2. Coherent(all) /\ (~ClosesStream(o) => GoesOn(all, o.id))
      BY Zenon, <2>3, <3>1, <1>AppendedCoherent
    <3> HIDE DEF all
    <3>3. new = [stream EXCEPT !.objects = all, !.end = IF ClosesStream(o) THEN "fin" ELSE "open"]
      BY DEF Sent, all
    <3>4. /\ new.req = r /\ StreamKey(new) = K /\ new.objects = all
          /\ new.end = IF ClosesStream(o) THEN "fin" ELSE "open"
      BY Zenon, <3>3 DEF StreamKey, KeyOf
    <3>5. QED
      BY Zenon, <3>2, <3>4
  <2> HIDE DEF new, stream
  <2>8. /\ Len(wire) \in Nat /\ DOMAIN wire = 1..Len(wire) /\ n \notin DOMAIN wire
        /\ DOMAIN wire' = DOMAIN wire \cup {n} /\ wire'[n] = new
        /\ \A k \in DOMAIN wire : wire'[k] = Ended(wire, R, "reset")[k]
    <3> DEFINE w == Ended(wire, R, "reset")
    <3>1. w \in Seq(DataStreams) /\ Len(w) = Len(wire) /\ DOMAIN wire = 1..Len(wire) /\ Len(wire) \in Nat
      BY <2>1, EndedType, SequenceIs DEF Ends
    <3>2. wire' = Append(w, new)
      BY <2>2
    <3> HIDE DEF w
    <3>3. /\ DOMAIN wire' = 1..(Len(wire) + 1) /\ wire'[Len(wire) + 1] = new
          /\ \A k \in 1..Len(wire) : wire'[k] = w[k]
      BY <2>6, <3>1, <3>2
    <3>4. QED
      BY <3>1, <3>3 DEF w
  <2>9. \A k \in DOMAIN wire : wire'[k] = IF k \in R /\ wire[k].end = "open"
                                          THEN [wire[k] EXCEPT !.end = "reset"] ELSE wire[k]
    BY <2>8 DEF Ended
  <2>10. \A k \in DOMAIN wire : wire[k] \in DataStreams
    BY <2>1
  <2>11. ASSUME NEW k \in R PROVE k \in DOMAIN wire /\ wire[k].req = r /\ StreamKey(wire[k]) = K
    <3>1. K \in DOMAIN subs[r].streams /\ k = subs[r].streams[K].at
      BY Zenon DEF Replaced, HasStream
    <3>2. QED
      BY Zenon, <2>1, <2>2, <3>1 DEF ListedInv
  <2>12. \A k \in DOMAIN wire : wire[k].req = r /\ StreamKey(wire[k]) = K /\ wire[k].end = "open" => k \in R
    BY Zenon, <2>1 DEF OpenInv, Replaced, HasStream
  <2>13. /\ DOMAIN subs' = DOMAIN subs
         /\ \A x \in DOMAIN subs \ {r} : subs'[x].streams = subs[x].streams
         /\ subs'[r].streams = StreamsAfter(r, o, n)
    BY Zenon, <2>2, <2>4 DEF SubscriptionSends
  <2> HIDE DEF o, n, K, R
  <2>14. \A k \in DOMAIN wire \ {n} :
           /\ wire'[k].objects = wire[k].objects
           /\ wire'[k] = wire[k] \/ (wire[k].req = r /\ StreamKey(wire[k]) = K)
           /\ wire[k].req = r /\ StreamKey(wire[k]) = K => wire'[k].end # "open"
    <3> SUFFICES ASSUME NEW k \in DOMAIN wire
                 PROVE  /\ wire'[k].objects = wire[k].objects
                        /\ wire'[k] = wire[k] \/ (wire[k].req = r /\ StreamKey(wire[k]) = K)
                        /\ wire[k].req = r /\ StreamKey(wire[k]) = K => wire'[k].end # "open"
      BY Zenon
    <3>1. CASE k \in R /\ wire[k].end = "open"
      <4>1. wire'[k] = [wire[k] EXCEPT !.end = "reset"] /\ wire[k] \in DataStreams
        BY <2>9, <2>10, <3>1
      <4>2. wire'[k].objects = wire[k].objects /\ wire'[k].end = "reset"
        BY <4>1 DEF DataStreams
      <4>3. QED
        BY Zenon, <2>11, <3>1, <4>2
    <3>2. CASE ~(k \in R /\ wire[k].end = "open")
      BY Zenon, <2>9, <2>12, <3>2
    <3>3. QED
      BY Zenon, <3>1, <3>2
  <2>15. SendsOn(r, K, n, o.id, ClosesStream(o))
    <3>1. /\ \A key : key # K => (key \in DOMAIN subs'[r].streams <=> key \in DOMAIN subs[r].streams)
          /\ \A key \in DOMAIN subs[r].streams : key # K => subs'[r].streams[key] = subs[r].streams[key]
          /\ K \in DOMAIN subs'[r].streams <=> ~ClosesStream(o)
          /\ ~ClosesStream(o) => subs'[r].streams[K] = [at |-> n, last |-> o.id]
      <4>1. PICK streams : streams = StreamsAfter(r, o, n)
        BY Zenon
      <4>2. Follows(streams, r, o, n)
        BY Zenon, <4>1, <1>StreamsAfterFacts
      <4>3. subs'[r].streams = streams /\ K = KeyOf(o)
        BY Zenon, <2>13, <4>1 DEF K
      <4>4. QED
        BY Zenon, <4>2, <4>3 DEF Follows
    <3>2. QED
      BY Zenon, <2>2, <2>7, <2>8, <2>13, <2>14, <3>1 DEF SendsOn
  <2>16. ClosesStream(o) \in BOOLEAN
    BY <2>3 DEF ClosesStream
  <2>17. CallInv'
    BY <2>3 DEF CallInv, ValidObject
  <2>18. Final
    BY Zenon, <2>1, <2>2, <2>7, <2>8, <2>9 DEF Final, TableInv
  <2> QED
    BY Zenon, <2>8, <2>15, <2>16, <2>17, <2>18, <1>SendWireStep DEF WireInv

\* Session::begin_close() ends all streams or finds none.
<1>CloseWireStep.
  ASSUME PublisherInv, WireInv, begin_close, CallInv'
  PROVE  WireInv' /\ Final
  <2> USE <1>CloseWireStep
  <2>1. CASE UNCHANGED <<session, tracks, subs, wire, requests, replies>>
    BY <2>1, <1>WireKeptStep DEF StreamsKept
  <2>2. CASE terminate_subscriptions
    BY <2>2, <1>DetachWireStep DEF terminate_subscriptions, cancel
  <2> QED
    BY <2>1, <2>2 DEF begin_close

\* A new subscription has no streams.
<1>AttachWireStep.
  ASSUME PublisherInv, WireInv, NEW r, NEW t, NEW options, AcceptSubscribe(r, t, options)
  PROVE  StreamsKept
  <2> USE <1>AttachWireStep
  <2>1. r \notin DOMAIN subs
    BY Zenon DEF PublisherInv, TableInv, AcceptSubscribe, Consumable
  <2>2. PICK start, end :
          subs' = [x \in DOMAIN subs \cup {r} |->
                     IF x # r THEN subs[x]
                     ELSE [track |-> t, forward |-> options.forward # FALSE,
                           start |-> start, end |-> end, count |-> 0, streams |-> <<>>]]
    BY Zenon DEF AcceptSubscribe, attach_subscription
  <2> QED
    BY Zenon, <2>1, <2>2 DEF StreamsKept

\* An update leaves the streams alone.
<1>UpdateWireStep.
  ASSUME PublisherInv, WireInv, NEW r, NEW u, NEW options, AcceptUpdate(r, u, options)
  PROVE  StreamsKept
  <2> USE <1>UpdateWireStep
  <2>1. PICK start, end, forward :
          subs' = [subs EXCEPT ![r].start = start, ![r].end = end, ![r].forward = forward]
    BY Zenon DEF AcceptUpdate, update_subscription
  <2>2. \A x \in DOMAIN subs : subs[x] \in SubscriptionSends
    BY DEF PublisherInv, TypeInv
  <2> QED
    BY <2>1, <2>2 DEF StreamsKept, SubscriptionSends

\* A step of the loop does not change the object.
<1>LoopCall.
  ASSUME TypeInv, Publishing, NEW r,
         publishing' = [publishing EXCEPT !.at = r] \/ Loop(publishing.left \ {r})
  PROVE  CallKept
  <2> USE <1>LoopCall
  <2>1. publishing \in Calls
    BY DEF TypeInv, Publishing
  <2> QED
    BY Zenon, <2>1 DEF CallKept, Loop, Calls
<1> SUFFICES ASSUME PublisherInv, WireInv, [Next]_vars
             PROVE  WireInv' /\ Final
  OBVIOUS
<1> USE DEF planeVars, requestVars
<1>1. CallInv /\ TypeInv
  BY DEF WireInv, PublisherInv
<1>2. publishing' = publishing => CallInv'
  BY <1>1, <1>CallStep DEF CallKept, Publishing
<1>3. ASSUME UNCHANGED <<subs, wire, publishing>>
      PROVE  WireInv' /\ Final
  BY <1>2, <1>3, <1>WireKeptStep DEF StreamsKept
<1>4. CASE BecomesReady \/ ShutdownComplete
  BY <1>3, <1>4 DEF BecomesReady, ShutdownComplete
<1>5. CASE ClosesSession
  BY <1>2, <1>5, <1>CloseWireStep DEF ClosesSession
<1>6. CASE PeerRequest
  <2>1. ASSUME NEW r \in PeerIds, NEW t \in Tracks, NEW options \in Options,
               RejectSubscribe(r, t, options)
        PROVE  WireInv' /\ Final
    BY <1>3, <2>1 DEF RejectSubscribe
  <2>2. ASSUME NEW r \in PeerIds, NEW t \in Tracks, NEW options \in Options,
               AcceptSubscribe(r, t, options)
        PROVE  WireInv' /\ Final
    BY Zenon, <1>2, <2>2, <1>AttachWireStep, <1>WireKeptStep DEF AcceptSubscribe
  <2>3. ASSUME NEW r \in PeerIds, NEW t \in Tracks, NEW options \in Options,
               SubscribeOkFails(r, t, options)
        PROVE  WireInv' /\ Final
    BY <1>2, <2>3, <1>CloseWireStep DEF SubscribeOkFails
  <2>4. ASSUME NEW r \in PeerIds, NEW u \in PeerIds, NEW options \in Options,
               AcceptUpdate(r, u, options)
        PROVE  WireInv' /\ Final
    BY <1>2, <2>4, <1>UpdateWireStep, <1>WireKeptStep DEF AcceptUpdate
  <2>5. ASSUME NEW r \in PeerIds, NEW u \in PeerIds, NEW options \in Options,
               RejectUpdate(r, u, options)
        PROVE  WireInv' /\ Final
    BY <1>2, <2>5, <1>DetachWireStep DEF RejectUpdate
  <2>6. ASSUME NEW r \in PeerIds, InvalidRequestId(r)
        PROVE  WireInv' /\ Final
    BY <1>2, <2>6, <1>CloseWireStep DEF InvalidRequestId
  <2>7. ASSUME NEW r \in PeerIds, CancelRequest(r)
        PROVE  WireInv' /\ Final
    BY <1>2, <2>7, <1>DetachWireStep DEF CancelRequest, cancel
  <2>8. ASSUME NEW r \in PeerIds, PeerStopsRequest(r)
        PROVE  WireInv' /\ Final
    BY <1>3, <2>8 DEF PeerStopsRequest
  <2>9. ASSUME PeerStopsData
        PROVE  WireInv' /\ Final
    BY <2>9, <1>StopWireStep DEF PeerStopsData
  <2>10. QED
    BY Zenon, <1>6, <2>1, <2>2, <2>3, <2>4, <2>5, <2>6, <2>7, <2>8, <2>9 DEF PeerRequest
<1>7. ASSUME NEW t \in Tracks, register_track(t)
      PROVE  WireInv' /\ Final
  BY Zenon, <1>3, <1>7 DEF register_track
<1>8. ASSUME NEW t \in Tracks, unregister_track(t) \/ end_track(t)
      PROVE  WireInv' /\ Final
  <2>1. DetachStreams(tracks[t].subs \cap requests, "fin") /\ publishing' = publishing
    BY Zenon, <1>8 DEF unregister_track, end_track, finish
  <2>2. QED
    BY <1>2, <2>1, <1>DetachWireStep
<1>9. ASSUME NEW t \in Tracks, EndTrackThrows(t)
      PROVE  WireInv' /\ Final
  <2>1. PICK r : DetachStreams({r}, "fin")
    BY Zenon, <1>9 DEF EndTrackThrows
  <2>2. publishing' = publishing
    BY Zenon, <1>9 DEF EndTrackThrows
  <2>3. QED
    BY <1>2, <2>1, <2>2, <1>DetachWireStep
<1>10. ASSUME NEW o \in Objects, publish(o)
       PROVE  WireInv' /\ Final
  <2>1. /\ UNCHANGED <<subs, wire>> /\ ValidObject(o)
        /\ publishing' = IF tracks[o.track].subs = {} THEN None
                         ELSE [object |-> o, left |-> tracks[o.track].subs, at |-> None]
    BY <1>10 DEF publish, PublishBegins
  <2>2. publishing' # None => publishing'.object = o
    BY <2>1
  <2>3. CallInv'
    BY Zenon, <2>1, <2>2 DEF CallInv, Publishing, ValidObject
  <2>4. QED
    BY <2>1, <2>3, <1>WireKeptStep DEF StreamsKept
<1>11. ASSUME NEW r \in PeerIds, Delivers(r)
       PROVE  WireInv' /\ Final
  <2>1. CASE SkipsDetached(r) \/ Withholds(r) \/ SendsDatagram(r)
    <3>1. /\ Publishing /\ UNCHANGED <<subs, wire>>
          /\ publishing' = [publishing EXCEPT !.at = r] \/ Loop(publishing.left \ {r})
      BY <2>1 DEF SkipsDetached, Withholds, SendsDatagram, Visits
    <3>2. CallInv'
      BY <1>1, <3>1, <1>LoopCall, <1>CallStep
    <3>3. QED
      BY <3>1, <3>2, <1>WireKeptStep DEF StreamsKept
  <2>2. QED
    BY <1>11, <2>1, <1>NewWireStep, <1>OpenWireStep DEF Delivers
<1>12. ASSUME NEW r \in PeerIds, OpenFails(r)
       PROVE  WireInv' /\ Final
  <2>1. Publishing /\ begin_close /\ publishing' = [publishing EXCEPT !.at = r]
    BY <1>12 DEF OpenFails, NeedsStream, Visits
  <2>2. CallInv'
    BY Zenon, <1>1, <2>1, <1>LoopCall, <1>CallStep
  <2>3. QED
    BY <2>1, <2>2, <1>CloseWireStep
<1>13. ASSUME NEW r \in PeerIds, Completed(r)
       PROVE  WireInv' /\ Final
  <2>1. Publishing /\ Loop(publishing.left \ {r})
    BY Zenon, <1>13 DEF Completed
  <2>2. CallInv'
    BY <1>1, <2>1, <1>LoopCall, <1>CallStep
  <2>3. DetachStreams({r}, "fin") \/ UNCHANGED <<subs, wire>>
    BY Zenon, <1>13 DEF Completed, finish
  <2>4. QED
    BY Zenon, <2>2, <2>3, <1>DetachWireStep, <1>WireKeptStep DEF StreamsKept
<1>14. CASE UNCHANGED vars
  BY <1>3, <1>14 DEF vars
<1> QED
  BY <1>4, <1>5, <1>6, <1>7, <1>8, <1>9, <1>10, <1>11, <1>12, <1>13, <1>14 DEF Next

\* The invariant of the streams holds in every reachable state.
THEOREM WireInvariant == Spec => []WireInv

\* There are no streams at first.
<1>WireInit. Init => WireInv
  <2> SUFFICES ASSUME Init PROVE WireInv
    OBVIOUS
  <2>1. DOMAIN <<>> = {}
    OBVIOUS
  <2> QED
    BY Zenon, <2>1 DEF Init, PlaneInit, WireInv, ListedInv, OpenInv, CoherentInv, CallInv, Publishing
<1>1. PublisherInv /\ WireInv /\ [Next]_vars => WireInv'
  BY WireNext
<1> QED
  BY <1>1, <1>WireInit, PublisherInvariant, PTL DEF Spec

\* What ends stays ended, and nothing is opened for a request that is not
\* established.
THEOREM EndedStaysEnded == Spec => EndedIsFinal
<1>1. PublisherInv /\ WireInv /\ [Next]_vars =>
        [/\ \A n \in DOMAIN wire : wire[n].end # "open" => wire'[n] = wire[n]
         /\ \A n \in DOMAIN wire' \ DOMAIN wire : wire'[n].req \in requests]_wire
  BY WireNext DEF Final
<1> QED
  BY <1>1, PublisherInvariant, WireInvariant, PTL DEF Spec, EndedIsFinal

\* A data stream that is open belongs to a subscription that knows it.
THEOREM StreamsNeverLeak == Spec => []NoStreamLeaks
<1>1. WireInv => NoStreamLeaks
  BY Zenon DEF WireInv, OpenInv, NoStreamLeaks, Listed
<1> QED
  BY <1>1, WireInvariant, PTL

\* Closing the session ends every subscription and every stream.
THEOREM ClosingAlwaysEndsAll == Spec => []ClosingEndsAll
<1>1. PublisherInv /\ WireInv => ClosingEndsAll
  BY Zenon DEF PublisherInv, TableInv, WireInv, OpenInv, ClosingEndsAll
<1> QED
  BY <1>1, PublisherInvariant, WireInvariant, PTL

\* A stream on which the last object of a group was sent says so.
THEOREM GroupEndAlwaysSignalled == Spec => []StreamsSignalGroupEnd
<1>1. WireInv => StreamsSignalGroupEnd
  BY Zenon DEF WireInv, CoherentInv, Coherent, StreamsSignalGroupEnd
<1> QED
  BY <1>1, WireInvariant, PTL
=============================================================================
