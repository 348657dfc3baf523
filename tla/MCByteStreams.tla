--------------------------- MODULE MCByteStreams ---------------------------
(***************************************************************************)
(* What the peer may send: every message and object with the values at the *)
(* ends of each length of an integer, and the ways each can be malformed.  *)
(***************************************************************************)
EXTENDS ByteStreams

\* kind: "good", "bad", or "last" for a message that ends the request.
Item(bytes, entries, kind) == [bytes |-> bytes, entries |-> entries, kind |-> kind]
Good1(bytes, type, fields) == Item(bytes, <<Entry(type, fields)>>, "good")
Silent(bytes) == Item(bytes, <<>>, "good")
Bad(bytes) == Item(bytes, <<>>, "bad")
Script(role, sink, uni, accepted, minds, items, until) ==
  [role |-> role, sink |-> sink, uni |-> uni, accepted |-> accepted, minds |-> minds,
   items |-> items, until |-> until]
All(role, sink, uni, items) == Script(role, sink, uni, TRUE, sink # "announcement", items, Len(items))

\* 7, 63, 511 and 4095 are the largest values of one to four bytes of four bits.
Edges == {0, 1, 7, 8, 63, 64, 511, 512, 4095, 4096, 65535}

Param(type, value) == [type |-> type, encoded_value |-> value]
Location(g, o) == Param(9, write_varint(g) \o write_varint(o))
Forward(n) == Param(16, <<n>>)
Filter(fields) == Param(33, write_string(FlattenSeq([i \in DOMAIN fields |-> write_varint(fields[i])])))
Namespace(fields) == Param(52, write_track_namespace(fields))
Token == Param(3, write_string(<<1, 2>>))

\* Parameter lists, in the order of their types.  The encoder refuses some.
Candidates ==
  { <<>>, <<Forward(0), Forward(1)>>, <<Param(1, <<1>>)>>, <<Forward(1)>>, <<Param(2, write_varint(512)), Location(64, 65535), Forward(0)>>,
    <<Token, Filter(<<4, 65535, 7, 0>>)>>, <<Filter(<<2>>), Param(34, <<2>>), Namespace(<<<<1>>>>)>>,
    <<Filter(<<3, 1, 8>>), Param(50, write_varint(7))>> }
Lists == {list \in Candidates : Encodable(list)}
Names ==
  {nn \in { <<<<>>, <<>>>>, <<<<<<1>>>>, <<2, 3>>>>, <<<<<<1>>, <<15, 0>>>>, <<1, 2, 3>>>>, <<<<<<>>>>, <<1>>>> } :
     ValidNamespace(nn[1])}

Subscribe(id, nn, list) ==
  Good1(encode_subscribe(id, nn[1], nn[2], list), kMessageSubscribe, <<id, nn[1], nn[2], list>>)
Update(id, list) == Good1(encode_request_update(id, list), kMessageRequestUpdate, <<id, list>>)
Framed(type, payload) == encode_control_message(type, payload)
\* The application gives the parameters in any order.
Shuffled(list) == Good1(encode_request_update(1, Reverse(list)), kMessageRequestUpdate, <<1, list>>)

Plain == Subscribe(1, <<<<<<1>>>>, <<2>>>>, <<>>)

\* Malformed updates: trailing byte, repeated, unknown and truncated parameters, a
\* value out of range, filters of the wrong length, kind or extent.
BadUpdates ==
  { Bad(Framed(2, <<1, 0, 0>>)),
    Bad(Framed(2, <<1, 2, 2, 1, 0, 1>>)),
    Bad(Framed(2, <<1, 1, 1, 1>>)),
    Bad(Framed(2, <<1, 1, 2>>)),
    Bad(Framed(2, <<1, 1>>)),
    Bad(Framed(2, <<>>)),
    Bad(Framed(2, <<1, 1>> \o write_varint(65535) \o <<0>>)),
    Bad(Framed(2, <<1, 2, 2, 1>> \o write_varint(65535) \o <<0>>)),
    Bad(encode_request_update(1, <<Forward(2)>>)),
    Bad(encode_request_update(1, <<Param(34, <<0>>)>>)),
    Bad(encode_request_update(1, <<Filter(<<5>>)>>)),
    Bad(encode_request_update(1, <<Filter(<<3, 1>>)>>)),
    Bad(encode_request_update(1, <<Filter(<<4, 65535, 7, 1>>)>>)),
    Bad(encode_request_update(1, <<Filter(<<2, 2>>)>>)),
    Bad(Framed(kMessageSubscribe, <<1, 0, 0, 0>>)) }
BadSubscribes ==
  { Bad(encode_subscribe(1, <<<<1>>, <<>>>>, <<2>>, <<>>)),
    Bad(encode_subscribe(1, <<<<1>>, <<2>>, <<3>>>>, <<2>>, <<>>)),
    Bad(encode_subscribe(1, <<<<1, 2, 3>>, <<4, 5>>>>, <<2>>, <<>>)),
    Bad(encode_subscribe(1, <<<<1>>>>, <<1, 2, 3, 4, 5>>, <<>>)),
    Bad(Framed(kMessageSubscribe, <<1, 1, 2, 3>>)),
    Bad(Framed(1, <<>>)) }

PublisherScripts ==
  {All("publisher", "gate", FALSE, <<Subscribe(id, <<<<<<1>>>>, <<2>>>>, <<>>), Update(id, <<>>)>>) : id \in Edges}
  \cup {All("publisher", "gate", FALSE, <<Subscribe(1, nn, <<>>)>>) : nn \in Names}
  \cup {All("publisher", "gate", FALSE, <<Plain, Shuffled(list)>>) : list \in Lists}
  \cup {All("publisher", "gate", FALSE, <<Plain, Update(3, <<>>), bad>>) : bad \in BadUpdates}
  \cup {All("publisher", "gate", FALSE, <<bad, Update(3, <<>>)>>) : bad \in BadSubscribes}
  \cup {Script("publisher", "gate", FALSE, FALSE, TRUE, <<Plain, Update(3, <<>>)>>, 1)}
  \cup {Script(role, "gate", FALSE, FALSE, TRUE, <<Good1(Framed(type, <<1, 0>>), type, <<>>), Update(3, <<>>)>>, 1) :
          role \in {"publisher", "subscriber"}, type \in {kMessagePublish, kMessagePublishNamespace, 80}}

\* Responses to our own requests.
Accepting(a, list) == Good1(encode_subscribe_ok(a, list, <<5, 6>>), kMessageSubscribeOk, <<a, list, <<5, 6>>>>)
Ending(bytes, type, fields) == Item(bytes, <<Entry(type, fields)>>, "last")
Responses ==
  {<<Accepting(a, list),
     Good1(encode_request_ok(list), kMessageRequestOk, <<list, <<>>>>),
     Good1(encode_request_error(a, <<1, 2>>, 8), kMessageRequestError, <<a, 8, <<1, 2>>>>),
     Ending(encode_publish_done(2, a, <<9>>), kMessagePublishDone, <<2, a, <<9>>>>)>> :
       a \in {0, 64, 65535}, list \in {<<>>, <<Location(63, 512)>>}}
  \cup {<<first>> : first \in
          { Ending(encode_request_error(7, <<1>>, 0), kMessageRequestError, <<7, 0, <<1>>>>),
            Bad(Framed(16, <<1>>)), Bad(encode_request_ok(<<>>)), Bad(Framed(kMessageSubscribeOk, <<1>>)) }}
  \cup {<<Accepting(1, <<>>), Good1(Framed(16, <<1>>), 16, <<>>),
          Good1(Framed(kMessageRequestError, <<>> \o write_varint(52) \o <<0, 1, 1, 9, 9>>),
                kMessageRequestError, <<52, 0, <<1>>>>), bad>> :
       bad \in { Bad(encode_request_error(1, <<1, 2, 3, 4>>, 0)), Bad(Framed(kMessageRequestError, <<1, 0, 0, 0>>)),
                 Bad(Framed(kMessageRequestOk, <<0, 1>>)), Bad(Accepting(2, <<>>).bytes),
                 Bad(encode_publish_done(2, 1, <<1, 2, 3, 4>>)) }}

\* Streams in one direction: SETUP, padding, FETCH, and types that do not exist.
SetupStreams ==
  {<<Good1(encode_setup(authority, path, <<7>>), kMessageSetup, <<>>), Silent(<<1, 2, 3>>)>> :
     authority \in {<<>>, <<1, 2>>}, path \in {<<>>, <<3>>}}
  \cup {<<Bad(Framed(kMessageSetup, payload))>> :
          payload \in {<<1>>, <<1, 2, 5>>, <<2>>, <<2, 1>> \o write_varint(65535) \o <<0>>}}
PaddingStreams ==
  {<<Silent(write_varint(kPaddingStreamType)), Silent(<<0>>), Silent(<<0>>), last>> :
     last \in {Silent(<<0>>), Bad(<<1>>)}}
OtherStreams == {<<Bad(write_varint(type))>> : type \in {0, 4, 22, 23, 128}}

\* A subgroup and its objects: a Publisher's encoder never leaves the subgroup to
\* the first object, a peer may.
Obj(h, id, properties, status, payload) ==
  [alias |-> h.alias, group |-> h.group, subgroup |-> h.subgroup, object |-> id, priority |-> h.priority,
   properties |-> properties, status |-> status, payload |-> payload]
Sent(h, delta, id, properties, status, payload) ==
  Good1(encode_subgroup_object(delta, properties, status, payload), "object", Obj(h, id, properties, status, payload))
Header(alias, group, subgroup) == [alias |-> alias, group |-> group, subgroup |-> subgroup, priority |-> 9]
BadObjects ==
  { Bad(encode_subgroup_object(0, <<>>, <<1>>, <<>>)), Bad(encode_subgroup_object(0, <<1>>, <<3>>, <<>>)),
    Bad(<<0>> \o write_varint(256)), Bad(encode_subgroup_object(65535, <<>>, <<>>, <<1>>)) }
SubgroupsOf(h) ==
  {<<Silent(encode_subgroup_header(h)), Sent(h, 7, 7, <<>>, <<>>, <<1, 2>>), Sent(h, 0, 8, <<3>>, <<0>>, <<>>), last>> :
     last \in {Sent(h, 1, 10, <<>>, <<3>>, <<>>)} \cup BadObjects}
Subgroups ==
  SubgroupsOf(Header(0, 64, 0)) \cup SubgroupsOf(Header(512, 7, 4096))
  \cup {<<Silent(write_varint(16 + 2 + 32 + 8) \o <<1, 2>>),
          Good1(<<5, 1, 6>>, "object", [Obj(Header(1, 2, 5), 5, <<>>, <<>>, <<6>>) EXCEPT !.priority = 8]),
          Good1(<<0, 0, 4>>, "object", [Obj(Header(1, 2, 5), 6, <<>>, <<4>>, <<>>) EXCEPT !.priority = 8])>>}

Object(alias, group, object, properties, status, payload, last) ==
  [alias |-> alias, group |-> group, object |-> object, priority |-> 3, properties |-> properties,
   status |-> status, payload |-> payload, last |-> last]
Datagrams ==
  {<<Good1(encode_object_datagram(o), "object", o)>> :
     o \in { Object(a, g, n, properties, <<>>, <<1, 2>>, last) :
               a \in {0, 4095}, g \in {8, 65535}, n \in {0, 511}, properties \in {<<>>, <<4>>}, last \in BOOLEAN }
        \cup { Object(1, 2, n, <<>>, <<status>>, <<>>, FALSE) : n \in {0, 1}, status \in {0, 3, 4} }}
  \cup {<<Silent(write_varint(kPaddingDatagramType) \o <<0, 0>>)>>}
  \cup {<<Bad(bytes)>> : bytes \in { write_varint(16), write_varint(34) \o <<1, 1, 1, 1, 0>>, <<0, 1>>,
            <<0, 1, 1>>, <<0, 1, 1, 1>>, <<5, 1, 1, 1, 0>>, <<1, 1, 1, 1, 1, 2, 1>>,
            write_varint(36) \o <<1, 1, 1, 1>>, write_varint(36) \o <<1, 1, 1, 3, 0>>,
            write_varint(37) \o <<1, 1, 1, 1, 1, 3>>, write_varint(kPaddingDatagramType) \o <<0, 1>> }}

AllScripts ==
  PublisherScripts
  \cup {All("subscriber", "response", FALSE, items) : items \in Responses}
  \cup {All("publisher", "announcement", FALSE,
            <<Good1(encode_request_ok(<<>>), kMessageRequestOk, <<>>),
              Good1(Framed(kMessageRequestError, <<1>>), kMessageRequestError, <<>>)>>)}
  \cup {Script("subscriber", "gate", TRUE, TRUE, TRUE, items, 1) : items \in SetupStreams}
  \cup {All("publisher", "gate", TRUE, items) : items \in PaddingStreams \cup OtherStreams}
  \cup {All("subscriber", "gate", TRUE, items) : items \in Subgroups}
  \cup {Script("publisher", "gate", TRUE, TRUE, TRUE, <<Silent(write_varint(16)), Silent(<<1, 2, 9>>)>>, 1),
        Script("subscriber", "gate", TRUE, TRUE, TRUE, <<Silent(write_varint(kFetchStreamType)), Silent(<<1>>)>>, 1)}
  \cup {All("subscriber", "datagram", FALSE, items) : items \in Datagrams}
=============================================================================
