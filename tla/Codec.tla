------------------------------- MODULE Codec -------------------------------
(***************************************************************************)
(* The encoding of integers, control messages and objects                  *)
(* (src/codec/codec.cpp, codec_internal.h, control.cpp) and the parsers of *)
(* objects (src/data_plane.cpp).                                           *)
(*                                                                         *)
(* A byte has ByteBits bits and a 64-bit integer ByteBits bytes, so that   *)
(* the code is the instance ByteBits = 8.  An optional value is a sequence *)
(* of length 0 or 1, a string a sequence of bytes.  An encoder that throws *)
(* is described by the condition under which it does not.                  *)
(***************************************************************************)
EXTENDS Naturals, SequencesExt, TLC

CONSTANTS
  ByteBits,
  MaxFields,               \* 32 fields of a namespace
  MaxName,                 \* 4096 bytes of a namespace, and of a track name
  MaxReason,               \* 1024 bytes of a reason
  kPaddingStreamType, kPaddingDatagramType

ASSUME CodecAssumption ==
  /\ ByteBits \in Nat \ {0, 1} /\ MaxFields \in Nat /\ MaxName \in Nat /\ MaxReason \in Nat
  /\ kPaddingStreamType \in Nat /\ kPaddingDatagramType \in Nat

Base == 2 ^ ByteBits

kSetupStreamType == 12032
kFetchStreamType == 5
kMessageSetup == 12032
kMessageRequestUpdate == 2
kMessageSubscribe == 3
kMessageSubscribeOk == 4
kMessageRequestError == 5
kMessagePublishNamespace == 6
kMessageRequestOk == 7
kMessagePublishDone == 11
kMessagePublish == 29
kParameterForward == 16
kParameterSubscriptionFilter == 33
kParameterGroupOrder == 34
kObjectStatusNormal == 0
kObjectStatusEndOfGroup == 3
kObjectStatusEndOfTrack == 4
DefaultPriority == Base \div 2

MaxUint64 == 2 ^ (ByteBits * ByteBits) - 1
MaxUint16 == Base ^ 2 - 1
Bit(value, mask) == (value \div mask) % 2 = 1
Drop(bytes, n) == SubSeq(bytes, n + 1, Len(bytes))

-----------------------------------------------------------------------------
(* Integers.  The number of leading ones of the first byte is the number of   *)
(* bytes that follow it.                                                      *)

\* The largest value of an encoding of n bytes.
Capacity(n) == IF n <= ByteBits THEN 2 ^ ((ByteBits - 1) * n) - 1 ELSE MaxUint64

BigEndian(value, n) == [i \in 1..n |-> (value \div Base ^ (n - i)) % Base]

write_varint(value) ==
  LET length == Min({n \in 1..(ByteBits + 1) : value <= Capacity(n)})
      prefix == Base - 2 ^ (ByteBits + 1 - length)
  IN IF length = ByteBits + 1 THEN <<Base - 1>> \o BigEndian(value, ByteBits)
     ELSE [BigEndian(value, length) EXCEPT ![1] = @ + prefix]

NeedMoreData == [status |-> "NeedMoreData", value |-> 0, bytes |-> 0]
Malformed == [status |-> "Error", value |-> 0, bytes |-> 0]
Done(value, bytes) == [status |-> "Done", value |-> value, bytes |-> bytes]

\* Mutation: the longest form is read like the others.
LengthOf_NoLongForm(first) == Min({n \in 1..ByteBits : ~Bit(first, 2 ^ (ByteBits - n))} \cup {ByteBits})

LengthOf(first) == Min({n \in 1..ByteBits : ~Bit(first, 2 ^ (ByteBits - n))} \cup {ByteBits + 1})

\* The integer of an encoding of `length` bytes.
ReadInteger(bytes, length) ==
  IF length > Len(bytes) THEN NeedMoreData ELSE
  LET high == IF length = ByteBits + 1 THEN 0 ELSE bytes[1] % 2 ^ (ByteBits - length)
  IN Done(FoldLeft(LAMBDA v, b : v * Base + b, high, SubSeq(bytes, 2, length)), length)

read_varint(bytes) == IF bytes = <<>> THEN NeedMoreData ELSE ReadInteger(bytes, LengthOf(bytes[1]))

-----------------------------------------------------------------------------
(* Reading a message field by field.  A Reader holds the bytes not yet read   *)
(* and the values read so far; once a field is malformed it stays not ok.     *)

Reader(bytes) == [ok |-> TRUE, rest |-> bytes, out |-> <<>>]
Took(r, n, value) == [r EXCEPT !.rest = Drop(@, n), !.out = Append(@, value)]
Invalid(r) == [r EXCEPT !.ok = FALSE]

TookVarint(r, v) == IF r.ok /\ v.status = "Done" THEN Took(r, v.bytes, v.value) ELSE Invalid(r)
varint(r) == TookVarint(r, read_varint(r.rest))

byte(r) == IF r.ok /\ r.rest # <<>> THEN Took(r, 1, r.rest[1]) ELSE Invalid(r)

view(r, size) ==
  IF r.ok /\ size <= Len(r.rest) THEN Took(r, size, SubSeq(r.rest, 1, size)) ELSE Invalid(r)

TookString(r, size, limit) ==
  IF r.ok /\ size.status = "Done" /\ size.value <= limit /\ size.bytes + size.value <= Len(r.rest)
  THEN Took(r, size.bytes + size.value, SubSeq(r.rest, size.bytes + 1, size.bytes + size.value))
  ELSE Invalid(r)
string(r, limit) == TookString(r, read_varint(r.rest), limit)

remaining(r) == view(r, Len(r.rest))

Total(fields) == Len(FlattenSeq(fields))
ValidNamespace(fields) ==
  /\ Len(fields) <= MaxFields
  /\ \A i \in DOMAIN fields : fields[i] # <<>>
  /\ Total(fields) <= MaxName

\* The reader r goes on behind the list that `list` has read.
TookList(r, list) ==
  IF list.ok THEN [r EXCEPT !.rest = list.rest, !.out = Append(@, list.out)] ELSE Invalid(r)

TookFields(r, count) ==
  IF ~r.ok \/ count.status # "Done" \/ count.value > MaxFields THEN Invalid(r)
  ELSE TookList(r, FoldLeft(LAMBDA f, i : string(f, MaxName), Reader(Drop(r.rest, count.bytes)),
                            [i \in 1..count.value |-> i]))
Checked(r) == IF r.ok /\ ~ValidNamespace(Last(r.out)) THEN Invalid(r) ELSE r
track_namespace(r) == Checked(TookFields(r, read_varint(r.rest)))

parameter_encoding(type) ==
  CASE type \in {2, 4, 6, 8, 10, 50} -> "Varint"
    [] type \in {3, 33}              -> "LengthPrefixed"
    [] type = 9                      -> "Location"
    [] type \in {16, 32, 34}         -> "Uint8"
    [] type = 52                     -> "TrackNamespace"
    [] OTHER                         -> "unknown"

\* Mutation: a parameter may come twice.
ValidDelta_Repeats(type, delta, first) == delta <= MaxUint64 - type

ValidDelta(type, delta, first) == delta <= MaxUint64 - type /\ (first \/ delta # 0)

ParameterValue(encoding, r) ==
  CASE encoding = "Uint8"          -> byte(r)
    [] encoding = "Varint"         -> varint(r)
    [] encoding = "Location"       -> varint(varint(r))
    [] encoding = "LengthPrefixed" -> string(r, MaxUint16)
    [] encoding = "TrackNamespace" -> track_namespace(r)
    [] OTHER                       -> Invalid(r)

\* p has read `value`, the parameter of the given type, from `bytes`.
TookParameter(p, type, bytes, value) ==
  IF ~value.ok THEN Invalid(p)
  ELSE [p EXCEPT !.rest = value.rest, !.type = type,
                 !.out = Append(@, [type |-> type,
                                    encoded_value |-> SubSeq(bytes, 1, Len(bytes) - Len(value.rest))])]

TypedParameter(p, d, first) ==
  IF ~p.ok \/ ~d.ok \/ ~ValidDelta(p.type, d.out[1], first) THEN Invalid(p)
  ELSE LET type == p.type + d.out[1] IN
       TookParameter(p, type, d.rest, ParameterValue(parameter_encoding(type), Reader(d.rest)))

\* One turn of the loop of parameters().
Parameter(p, first) == TypedParameter(p, varint(Reader(p.rest)), first)

TookParameters(r, count) ==
  IF ~count.ok THEN Invalid(r)
  ELSE TookList(r, FoldLeft(LAMBDA p, i : Parameter(p, i = 1),
                            [ok |-> TRUE, rest |-> count.rest, out |-> <<>>, type |-> 0],
                            [i \in 1..Last(count.out) |-> i]))
parameters(r) == TookParameters(r, varint(r))

\* What decode() demands at the end.
Decoded(r) == r.ok /\ r.rest = <<>>

-----------------------------------------------------------------------------
(* Control messages. *)

write_string(bytes) == write_varint(Len(bytes)) \o bytes

write_track_namespace(fields) ==
  write_varint(Len(fields)) \o FlattenSeq([i \in DOMAIN fields |-> write_string(fields[i])])

\* encode_parameters() refuses unknown and repeated types.
Encodable(params) ==
  /\ \A i \in DOMAIN params : parameter_encoding(params[i].type) # "unknown"
  /\ \A i, j \in DOMAIN params : params[i].type = params[j].type => i = j

encode_parameters(params) ==
  LET sorted == SortSeq(params, LAMBDA a, b : a.type < b.type)
      previous(i) == IF i = 1 THEN 0 ELSE sorted[i - 1].type
  IN write_varint(Len(sorted))
       \o FlattenSeq([i \in DOMAIN sorted |->
            write_varint(sorted[i].type - previous(i)) \o sorted[i].encoded_value])

\* It throws for more than MaxUint16 bytes: EndTrackThrows of Publisher.
encode_control_message(type, payload) ==
  write_varint(type) \o BigEndian(Len(payload), 2) \o payload

ReadFrame(bytes, type, body) ==
  LET length == bytes[type.bytes + 1] * Base + bytes[type.bytes + 2] IN
  IF type.status # "Done" \/ Len(bytes) < body \/ Len(bytes) < body + length THEN NeedMoreData
  ELSE Done([type |-> type.value, payload |-> SubSeq(bytes, body + 1, body + length)], body + length)
ReadBehind(bytes, type) == ReadFrame(bytes, type, type.bytes + 2)
read_control_message(bytes) == ReadBehind(bytes, read_varint(bytes))

\* The fields of a SETUP are type differences, each with a string if the type is
\* odd and an integer if it is even.
SetupValue(r, type) ==
  IF type > MaxUint64 THEN Invalid(r) ELSE IF type % 2 = 1 THEN string(r, MaxUint16) ELSE varint(r)
SetupOption(d, type) == SetupValue(d, type + Last(d.out))

RECURSIVE SetupOptions(_, _)
SetupOptions(r, type) ==
  IF ~r.ok \/ r.rest = <<>> THEN r ELSE
  LET d == varint(r) IN IF d.ok THEN SetupOptions(SetupOption(d, type), type + Last(d.out)) ELSE d

decode_setup(payload) == Decoded(SetupOptions(Reader(payload), 0))

encode_setup(authority, path, implementation) ==
  LET used == SelectSeq(<<<<1, path>>, <<5, authority>>, <<7, implementation>>>>,
                        LAMBDA option : option[2] # <<>>)
      previous(i) == IF i = 1 THEN 0 ELSE used[i - 1][1]
  IN encode_control_message(kMessageSetup,
       FlattenSeq([i \in DOMAIN used |->
         write_varint(used[i][1] - previous(i)) \o write_string(used[i][2])]))

encode_subscribe(id, fields, name, params) ==
  encode_control_message(kMessageSubscribe,
    write_varint(id) \o write_track_namespace(fields) \o write_string(name) \o encode_parameters(params))
decode_subscribe(payload) == parameters(string(track_namespace(varint(Reader(payload))), MaxName))

encode_subscribe_ok(alias, params, properties) ==
  encode_control_message(kMessageSubscribeOk, write_varint(alias) \o encode_parameters(params) \o properties)
decode_subscribe_ok(payload) == remaining(parameters(varint(Reader(payload))))

encode_request_update(id, params) ==
  encode_control_message(kMessageRequestUpdate, write_varint(id) \o encode_parameters(params))
decode_request_update(payload) == parameters(varint(Reader(payload)))

encode_request_ok(params) == encode_control_message(kMessageRequestOk, encode_parameters(params))
decode_request_ok(payload) == remaining(parameters(Reader(payload)))

encode_request_error(code, reason, retry_interval) ==
  encode_control_message(kMessageRequestError,
    write_varint(code) \o write_varint(retry_interval) \o write_string(reason))

\* A redirection (code 0x34) has more fields, which are not looked at.
WithoutRedirect(r) == IF r.ok /\ r.out[1] = 52 THEN [r EXCEPT !.rest = <<>>] ELSE r
decode_request_error(payload) ==
  WithoutRedirect(string(varint(varint(Reader(payload))), MaxReason))

encode_publish_done(code, streams, reason) ==
  encode_control_message(kMessagePublishDone,
    write_varint(code) \o write_varint(streams) \o write_string(reason))
decode_publish_done(payload) == string(varint(varint(Reader(payload))), MaxReason)

encode_publish_namespace(id, fields) ==
  encode_control_message(kMessagePublishNamespace,
    write_varint(id) \o write_track_namespace(fields) \o write_varint(0))

\* The filter of a subscription: its length, its type, and what the type calls for.
FilterFields(t) ==
  IF ~t.ok \/ t.out[1] \notin 1..4 THEN Invalid(t)
  ELSE CASE t.out[1] = 4 -> varint(varint(varint(t)))
         [] t.out[1] = 3 -> varint(varint(t))
         [] OTHER        -> t
ValidExtent(f) == Decoded(f) /\ (f.out[1] = 4 => f.out[4] <= MaxUint64 - f.out[2])
ValidFilter(size) ==
  /\ size.ok /\ size.out[1] = Len(size.rest)
  /\ ValidExtent(FilterFields(varint(Reader(size.rest))))

\* decode_subscription_options(): parameters() has checked the shape of a value,
\* this checks what it says.
ValidByte(b, values) == Decoded(b) /\ b.out[1] \in values
ValidOption(p) ==
  LET value == Reader(p.encoded_value) IN
  CASE p.type = kParameterForward            -> ValidByte(byte(value), {0, 1})
    [] p.type = kParameterGroupOrder         -> ValidByte(byte(value), {1, 2})
    [] p.type = kParameterSubscriptionFilter -> ValidFilter(varint(value))
    [] OTHER                                 -> TRUE
decode_subscription_options(params) == \A i \in DOMAIN params : ValidOption(params[i])

-----------------------------------------------------------------------------
(* Objects. *)

Flag(condition, mask) == IF condition THEN mask ELSE 0
Statuses == {kObjectStatusNormal, kObjectStatusEndOfGroup, kObjectStatusEndOfTrack}

\* A field that is left out has a default.
Default(r, value) == [r EXCEPT !.out = Append(@, value)]
OptionalVarint(present, r, value) == IF present THEN varint(r) ELSE Default(r, value)
OptionalByte(present, r, value) == IF present THEN byte(r) ELSE Default(r, value)
OptionalString(present, r) == IF present THEN string(r, MaxUint16) ELSE Default(r, <<>>)

encode_object_datagram(o) ==
  write_varint(Flag(o.properties # <<>>, 1) + Flag(o.object = 0, 4)
                 + (IF o.status # <<>> THEN 32 ELSE Flag(o.last, 2)))
    \o write_varint(o.alias) \o write_varint(o.group)
    \o (IF o.object # 0 THEN write_varint(o.object) ELSE <<>>)
    \o <<o.priority>>
    \o (IF o.properties # <<>> THEN write_string(o.properties) ELSE <<>>)
    \o (IF o.status # <<>> THEN write_varint(o.status[1]) ELSE o.payload)

\* The parser in deliver_datagram(), for a datagram whose alias has a route:
\* the reader has taken the type, then everything.
StatusOrPayload(status, r) == IF status THEN varint(r) ELSE remaining(r)
DatagramFields(t, type) ==
  StatusOrPayload(Bit(type, 32),
    OptionalString(Bit(type, 1),
      OptionalByte(~Bit(type, 8), OptionalVarint(~Bit(type, 4), varint(varint(t)), 0), DefaultPriority)))
DatagramObject(r, type, f, status) ==
  IF /\ Decoded(r)
     /\ Bit(type, 1) => f[6] # <<>>
     /\ status => f[7] \in Statuses /\ (f[7] = kObjectStatusNormal \/ f[6] = <<>>)
  THEN Done([alias |-> f[2], group |-> f[3], object |-> f[4], priority |-> f[5],
             properties |-> f[6], last |-> Bit(type, 2),
             status |-> IF status THEN <<f[7]>> ELSE <<>>,
             payload |-> IF status THEN <<>> ELSE f[7]], 0)
  ELSE Malformed
TookDatagram(r) == DatagramObject(r, r.out[1], r.out, Bit(r.out[1], 32))
TypedDatagram(t) ==
  IF t.ok /\ t.out[1] \in 0..15 \cup 32..47 /\ ~(Bit(t.out[1], 32) /\ Bit(t.out[1], 2))
  THEN TookDatagram(DatagramFields(t, t.out[1])) ELSE Malformed
parse_datagram(bytes) == TypedDatagram(varint(Reader(bytes)))

is_subgroup_stream_type(type) == Bit(type, 16) /\ type <= 127 /\ ~(Bit(type, 2) /\ Bit(type, 4))

encode_subgroup_header(h) ==
  write_varint(17 + Flag(h.subgroup # 0, 4)) \o write_varint(h.alias) \o write_varint(h.group)
    \o (IF h.subgroup # 0 THEN write_varint(h.subgroup) ELSE <<>>)
    \o <<h.priority>>

\* The header of a subgroup stream.  A subgroup that is not named is numbered by
\* its first object.
HeaderFields(t, type) ==
  OptionalByte(~Bit(type, 32), OptionalVarint(Bit(type, 4), varint(varint(t)), 0), DefaultPriority)
TookHeader(size, r, type, f) ==
  IF ~r.ok THEN NeedMoreData
  ELSE Done([alias |-> f[2], group |-> f[3], priority |-> f[5], properties |-> Bit(type, 1),
             end_of_group |-> Bit(type, 8),
             subgroup |-> IF Bit(type, 2) THEN <<>> ELSE <<f[4]>>], size - Len(r.rest))
ReadHeader(size, r) == TookHeader(size, r, r.out[1], r.out)
TypedHeader(size, t) ==
  IF ~t.ok THEN NeedMoreData
  ELSE IF is_subgroup_stream_type(t.out[1]) THEN ReadHeader(size, HeaderFields(t, t.out[1])) ELSE Malformed
parse_header(bytes) == TypedHeader(Len(bytes), varint(Reader(bytes)))

encode_subgroup_object(delta, properties, status, payload) ==
  write_varint(delta) \o write_string(properties)
    \o (IF status # <<>> \/ payload = <<>>
        THEN write_varint(0) \o write_varint(IF status # <<>> THEN status[1] ELSE kObjectStatusNormal)
        ELSE write_string(payload))

NextObjectId(last, delta) == IF last = <<>> THEN delta ELSE last[1] + delta + 1

\* One object of a subgroup stream with header h, after the object `last`: the ID
\* difference, the properties, and the payload or a status.
TooLong(h, d, size) == d.ok /\ h.properties /\ size.status = "Done" /\ size.value > MaxUint16
PayloadOrStatus(r) ==
  IF ~r.ok THEN r ELSE IF r.out[3] = 0 THEN varint(r) ELSE view(r, r.out[3])
TookObject(h, id, f, size) ==
  IF \/ id > MaxUint64
     \/ f[3] = 0 /\ ~(f[4] \in Statuses /\ (f[4] = kObjectStatusNormal \/ f[2] = <<>>))
  THEN Malformed
  ELSE Done([alias |-> h.alias, group |-> h.group, object |-> id, priority |-> h.priority,
             subgroup |-> IF h.subgroup = <<>> THEN id ELSE h.subgroup[1],
             properties |-> f[2], status |-> IF f[3] = 0 THEN <<f[4]>> ELSE <<>>,
             payload |-> IF f[3] = 0 THEN <<>> ELSE f[4]], size)
ReadObject(size, h, last, r) ==
  IF ~r.ok THEN NeedMoreData
  ELSE TookObject(h, NextObjectId(last, r.out[1]), r.out, size - Len(r.rest))
ObjectBehind(size, h, last, d) ==
  IF TooLong(h, d, read_varint(d.rest)) THEN Malformed
  ELSE ReadObject(size, h, last, PayloadOrStatus(varint(OptionalString(h.properties, d))))
parse_object(bytes, h, last) == ObjectBehind(Len(bytes), h, last, varint(Reader(bytes)))
=============================================================================
