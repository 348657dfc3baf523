---------------------------- MODULE ByteStreams ----------------------------
(***************************************************************************)
(* From bytes to messages: what the sinks of a stream make of the bytes    *)
(* that MsQuic delivers in pieces of any size.  The sinks are the gate of  *)
(* a peer's stream (PeerStreamGate in src/session.cpp), the request of a   *)
(* Publisher, the request and the announcement that wait for responses,    *)
(* and the receiver of a subgroup; and datagrams, which come whole.        *)
(*                                                                         *)
(* The peer sends a script, a sequence of items.  An item is the encoding  *)
(* of a message or object with the log entry it should lead to, or is bad. *)
(* What a message does to the session, and whether its Request ID, track   *)
(* and alias are acceptable there, is the subject of Publisher,            *)
(* Subscriptions and DataPlane; here it is logged.  The session is Ready,  *)
(* a Subscriber has updates in flight.                                     *)
(***************************************************************************)
EXTENDS Codec

CONSTANT Scripts

VARIABLES
  script,     \* what the peer sends; never changes
  pos,        \* how many bytes of it have been delivered
  fin,        \* "no", "flag" (a RECEIVE had the FIN flag), "shutdown" (PEER_SEND_SHUTDOWN)
  rx          \* the sink of the stream

vars == <<script, pos, fin, rx>>

Bytes == FlattenSeq([n \in DOMAIN script.items |-> script.items[n].bytes])
Entry(type, fields) == [type |-> type, fields |-> fields]

\* sink:    who gets the next bytes; "done" is a gate that ignores them
\* buffer:  bytes not yet consumed
\* verdict: "violation" closes the session, "ended" ends the request only
\* header, subgroup, last: the state of a SubgroupReceiver
Fresh(sink) ==
  [sink |-> sink, buffer |-> <<>>, log |-> <<>>, verdict |-> "open", header |-> <<>>, last |-> <<>>]

Log(r, type, fields) == [r EXCEPT !.log = Append(@, Entry(type, fields))]
protocol_violation(r) == [r EXCEPT !.verdict = "violation"]
terminate(r) == [r EXCEPT !.verdict = "ended"]
Ignore(r) == [r EXCEPT !.sink = "done", !.buffer = <<>>]

-----------------------------------------------------------------------------
(* Streams of control messages. *)

\* A message on the request stream of an accepted SUBSCRIBE.
RequestMessage(r, m) ==
  LET update == decode_request_update(m.payload) IN
  IF m.type = kMessageRequestUpdate /\ Decoded(update) /\ decode_subscription_options(update.out[2])
  THEN Log(r, m.type, update.out) ELSE protocol_violation(r)

\* A response on the stream of our own SUBSCRIBE, which is pending until the first.
ResponseMessage(r, m) ==
  LET pending == r.log = <<>>
      ok == decode_subscribe_ok(m.payload)
      error == decode_request_error(m.payload)
      updated == decode_request_ok(m.payload)
      done == decode_publish_done(m.payload)
      IfDecoded(reader) == IF Decoded(reader) THEN Log(r, m.type, reader.out) ELSE terminate(r)
  IN CASE m.type = kMessageSubscribeOk  -> IF pending THEN IfDecoded(ok) ELSE terminate(r)
       [] m.type = kMessageRequestError -> IF pending THEN terminate(IfDecoded(error)) ELSE IfDecoded(error)
       [] pending                       -> terminate(r)
       [] m.type = kMessageRequestOk    -> IF Decoded(updated) /\ updated.out[2] # <<>>
                                           THEN terminate(r) ELSE IfDecoded(updated)
       [] m.type = kMessagePublishDone  -> terminate(IfDecoded(done))
       [] OTHER                         -> Log(r, m.type, <<>>)

\* A response on the stream of our PUBLISH_NAMESPACE is only looked at.
AnnouncementMessage(r, m) == Log(r, m.type, <<>>)

Handle(r, m) ==
  CASE r.sink = "request"      -> RequestMessage(r, m)
    [] r.sink = "response"     -> ResponseMessage(r, m)
    [] r.sink = "announcement" -> AnnouncementMessage(r, m)

\* The stream ends inside a message.
EndsMidMessage(r) ==
  CASE r.sink = "request"      -> protocol_violation(r)
    [] r.sink = "response"     -> terminate(r)
    [] r.sink = "announcement" -> r

\* The loop over a buffer that all three have: every complete message is taken
\* out and handled, until the request has ended.
RECURSIVE Consume(_, _, _)
Consume(r, bytes, ends) ==
  LET all == [r EXCEPT !.buffer = @ \o bytes]
      frame == read_control_message(all.buffer)
  IN IF r.verdict # "open" THEN r
     ELSE IF frame.status = "Done"
     THEN Consume(Handle([all EXCEPT !.buffer = Drop(@, frame.bytes)], frame.value), <<>>, ends)
     ELSE IF ends /\ all.buffer # <<>> THEN EndsMidMessage(all) ELSE all

-----------------------------------------------------------------------------
(* Subgroup streams. *)

\* run(): the header, and then objects as long as they are complete.
RECURSIVE Run(_, _)
Run(r, ends) ==
  LET header == parse_header(r.buffer)
      object == parse_object(r.buffer, r.header[1], r.last)
      o == object.value
  IN IF r.header = <<>>
     THEN IF header.status = "Done"
          THEN Run([r EXCEPT !.header = <<header.value>>, !.buffer = Drop(@, header.bytes)], ends)
          ELSE IF ends \/ header.status = "Error" THEN protocol_violation(r) ELSE r
     ELSE CASE object.status = "Done" ->
                 Run([Log(r, "object", o) EXCEPT !.buffer = Drop(@, object.bytes), !.last = <<o.object>>,
                                                 !.header[1].subgroup = <<o.subgroup>>], ends)
            [] object.status = "Error" -> protocol_violation(r)
            [] OTHER -> IF ends /\ r.buffer # <<>> THEN protocol_violation(r) ELSE r

SubgroupReceive(r, bytes, ends) == Run([r EXCEPT !.buffer = @ \o bytes], ends)

-----------------------------------------------------------------------------
(* The gate of a stream that the peer opened. *)

AllZero(bytes) == \A i \in DOMAIN bytes : bytes[i] = 0

\* A Publisher has no use for data, a Subscriber none for FETCH.
handle_data_stream(r, type, bytes, ends) ==
  IF script.role = "publisher" \/ type = kFetchStreamType THEN Ignore(r)
  ELSE SubgroupReceive([r EXCEPT !.sink = "subgroup", !.buffer = <<>>], bytes, ends)

known_peer_request_type(type) == type \in {3, 29, 6, 13, 22, 80, 81}

\* Mutation: the bytes behind the first message are dropped.
Leftover_Dropped(bytes, n) == <<>>

Leftover(bytes, n) == Drop(bytes, n)

\* The first message of a request stream: a Publisher takes a SUBSCRIBE (if it has
\* the track) together with the bytes behind it, anything else is refused.
handle_peer_request(r, m, leftover, ends) ==
  LET subscribe == decode_subscribe(m.payload) IN
  IF script.role = "publisher" /\ m.type = kMessageSubscribe
  THEN IF ~Decoded(subscribe) \/ ~decode_subscription_options(subscribe.out[4]) THEN protocol_violation(r)
       ELSE IF script.accepted
       THEN Consume([Log(r, m.type, subscribe.out) EXCEPT !.sink = "request", !.buffer = <<>>], leftover, ends)
       ELSE Log(Ignore(r), m.type, subscribe.out)
  ELSE IF known_peer_request_type(m.type) THEN Log(Ignore(r), m.type, <<>>) ELSE protocol_violation(r)

FirstMessage(r, bytes, ends) ==
  LET frame == read_control_message(bytes) IN
  IF frame.status # "Done"
  THEN IF ends THEN protocol_violation(r) ELSE [r EXCEPT !.buffer = bytes]
  ELSE IF ~script.uni THEN handle_peer_request(r, frame.value, Leftover(bytes, frame.bytes), ends)
  ELSE IF decode_setup(frame.value.payload) THEN Log(Ignore(r), kMessageSetup, <<>>)
  ELSE protocol_violation(r)

Padding(r, bytes) ==
  IF AllZero(bytes) THEN [r EXCEPT !.sink = "padding", !.buffer = <<>>] ELSE protocol_violation(r)

\* on_receive() of a gate that has not classified its stream yet.
Classify(r, bytes, ends) ==
  LET all == r.buffer \o bytes
      type == read_varint(all)
  IN IF ~script.uni THEN FirstMessage(r, all, ends)
     ELSE IF type.status # "Done"
     THEN IF ends THEN protocol_violation(r) ELSE [r EXCEPT !.buffer = all]
     ELSE CASE type.value = kSetupStreamType -> FirstMessage(r, all, ends)
            [] type.value = kPaddingStreamType -> Padding(r, Drop(all, type.bytes))
            [] type.value = kFetchStreamType \/ is_subgroup_stream_type(type.value) ->
                 handle_data_stream(r, type.value, all, ends)
            [] OTHER -> protocol_violation(r)

on_receive(r, bytes, ends) ==
  IF r.verdict # "open" THEN r ELSE
  CASE r.sink = "gate" -> Classify(r, bytes, ends)
    [] r.sink = "padding" -> Padding(r, bytes)
    [] r.sink = "subgroup" -> SubgroupReceive(r, bytes, ends)
    [] r.sink = "done" -> r
    [] OTHER -> Consume(r, bytes, ends)

on_datagram(r, bytes) ==
  LET type == read_varint(bytes)
      parsed == parse_datagram(bytes)
  IN IF type.status = "Done" /\ type.value = kPaddingDatagramType
     THEN IF AllZero(Drop(bytes, type.bytes)) THEN r ELSE protocol_violation(r)
     ELSE IF parsed.status = "Done" THEN Log(r, "object", parsed.value) ELSE protocol_violation(r)

-----------------------------------------------------------------------------

Init ==
  /\ script \in Scripts
  /\ pos = 0
  /\ fin = "no"
  /\ rx = Fresh(script.sink)

\* RECEIVE: the next n bytes.  The peer may end the stream after any of them.
Receive(n, ends) ==
  /\ script.sink # "datagram"
  /\ fin = "no" /\ pos + n <= Len(Bytes)
  /\ n > 0 \/ ends
  /\ pos' = pos + n
  /\ fin' = IF ends THEN "flag" ELSE "no"
  /\ rx' = on_receive(rx, SubSeq(Bytes, pos + 1, pos + n), ends)
  /\ UNCHANGED script

\* PEER_SEND_SHUTDOWN follows the FIN, and is a second FIN to the sink.
PeerSendShutdown ==
  /\ fin = "flag"
  /\ fin' = "shutdown"
  /\ rx' = on_receive(rx, <<>>, TRUE)
  /\ UNCHANGED <<script, pos>>

Datagram ==
  /\ script.sink = "datagram"
  /\ fin = "no"
  /\ pos' = Len(Bytes)
  /\ fin' = "shutdown"
  /\ rx' = on_datagram(rx, Bytes)
  /\ UNCHANGED script

Over == fin = "shutdown" /\ UNCHANGED vars

Next ==
  \/ \E n \in 0..(Len(Bytes) - pos), ends \in BOOLEAN : Receive(n, ends)
  \/ PeerSendShutdown
  \/ Datagram
  \/ Over

Spec == Init /\ [][Next]_vars

-----------------------------------------------------------------------------
(* What the bytes should lead to, from the script alone. *)

Items == script.items
End(n) == Len(FlattenSeq([k \in 1..n |-> Items[k].bytes]))
\* The items that have arrived, not counting what comes after the stream is
\* decided (script.until).
Arrived == {n \in 1..script.until : End(n) <= pos}
Good == {n \in Arrived : \A k \in 1..n : Items[k].kind # "bad"}
Boundary == End(Cardinality(Arrived))

\* Whatever the pieces: the messages and objects that are handled are the ones
\* that were sent, in order and with the values that were encoded, each as soon
\* as its last byte is there, up to the first one that is malformed.
DecodedAsSent ==
  rx.log = FlattenSeq([n \in 1..Cardinality(Good) |-> Items[n].entries])

\* A stream is found at fault exactly if it should be: a malformed item has arrived
\* completely, or the peer ended the stream where an item is incomplete or the
\* first one is missing.  Being told of the end twice changes nothing.
VerdictExact ==
  rx.verdict # "open" <=>
    \/ \E n \in Arrived : Items[n].kind \in {"bad", "last"}
    \/ /\ fin # "no" /\ script.minds
       /\ Cardinality(Arrived) < script.until
       /\ pos = Boundary => Arrived = {} /\ script.sink = "gate"

\* No byte is lost or kept twice when a message is taken out of a buffer or a gate
\* hands its bytes over: what is buffered is what came after the last item.
BufferIsTail ==
  rx.verdict = "open" /\ rx.sink \notin {"done", "datagram"}
    => rx.buffer = SubSeq(Bytes, Boundary + 1, pos)
=============================================================================
