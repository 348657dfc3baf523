# Verification of Moqtopus

TLA+ models of Moqtopus, a client library for Media over QUIC Transport
(draft-18) on MsQuic, with TLC configurations and TLAPS proofs. Paths below are
relative to the repository.

## The system

| Part | Source | Role |
| --- | --- | --- |
| session lifetime | `src/session.cpp` | phases, SETUP exchange, `ready()`, closing, destruction |
| peer stream gate | `src/session.cpp` | tells control, request, data and padding streams apart |
| transport adapter | `src/msquic_transport_adapter.cpp` | connection events, stream table, shutdown wait |
| stream context | `src/stream_context.cpp` | one MsQuic stream and the sink that consumes it |
| subscriber requests | `src/subscriber_session.cpp` | SUBSCRIBE and REQUEST_UPDATE with their futures |
| receive data plane | `src/data_plane.cpp` | routes, subgroup streams, datagrams, replay |
| publisher requests | `src/publisher_session.cpp` | the peer's SUBSCRIBEs and updates |
| announcements | `src/publisher_session.cpp` | PUBLISH_NAMESPACE for registered tracks |
| send data plane | `src/send_data_plane.cpp` | filters, subgroup streams, fan-out |
| codec | `src/codec/` | integers, control messages, objects |

Two threads matter. The transport thread T runs the MsQuic callbacks of a
connection one at a time. The application calls the public methods. Almost
everything happens under one recursive session mutex, with four exceptions
that make the system hard:

- T calls the application's `ObjectHandler`, which may call back into the
  session from inside an operation that is half done;
- a subgroup stream delivers its objects without the session mutex once it is
  established;
- the handles, sinks and owners of the streams are changed by T without it;
- the destructor waits for T, and must do so without the mutex.

Closing is reached from every error path, often from inside another operation.

## The modules

| Module | Models |
| --- | --- |
| `SessionContract` | what a caller of `ready()` may rely on |
| `Session` | `Session` and the shutdown handshake of the adapter |
| `SessionProofs` | invariants of `Session` and its refinement of `SessionContract`, proved |
| `Transport` | the stream contexts, the stream table and the destructor of the adapter |
| `TransportProofs` | invariants of `Transport`, proved |
| `Subscriptions` | the requests of a Subscriber and the routes they own |
| `DataPlane` | the receiving data plane, over `Subscriptions` |
| `Subscriber` | the composition of both, and its properties |
| `SubscriberProofs` | the invariants and action properties of the requests, proved |
| `MCSubscriber`, `MCSubscriberKinds` | small instances of `Subscriber` |
| `SendDataPlane` | tracks, filters, streams and the loop of `publish()` |
| `Publisher` | the requests of the peer, announcements and application calls, over `SendDataPlane` |
| `MCPublisher` | small instances of `Publisher` |
| `Codec` | encoders, decoders and parsers, as functions on sequences of bytes |
| `ByteStreams` | the sinks of a stream, fed with pieces of any size, over `Codec` |
| `MCByteStreams` | what the peer may send |

`PROJECT.json` maps each definition to the lines it stands for. Definitions
keep the names of the source where the correspondence is one to one. An
operator whose name ends in `_Something` and whose comment begins with
"Mutation" is a deliberately wrong version of the definition after it, used to
make sure that a property can fail.

### Session

The variables are the fields of `SessionStateSnapshot`, the queue of promises,
the flags of the adapter, the place of the application in the life of the object
(`app`) and the callback T is in. An action is what a thread does under one hold
of the mutex. A callback is first entered, without the mutex, and handled later,
so that it can be overtaken by the application. `close_and_wait` is three steps:
under the mutex, the wait, and `ConnectionClose`.

### Transport

Nothing in `StreamContext` is protected by the session mutex, so the steps are
single accesses: MsQuic's handle, `handle_`, `sink_`, the table, the local map
of the destructor. Three actors take them. The user opens a stream, gives it a
sink, or tests `handle_` and then uses it. T delivers SHUTDOWN_COMPLETE in four
steps (close, reset, tell the sink, leave the table). The destructor waits or
gives up, swaps the table, and closes what is left. `missed` remembers a stream
whose last event came before it was given a sink. That sink is never told.

### Subscriber

The rest of T's current callback is a stack, `todo`. An item is pushed exactly
where the code calls a handler or works without the mutex; everything else is
one step. The application acts when it can take the mutex or when T is inside a
handler, which is how re-entrancy enters. The loop of
`terminate_subscriptions()` is an item as well: each round ends one subscription
of the copied table and calls its `on_error()`, which may stop another one that
is still ahead. Objects are data-free records. A stream delivers a script of
units, and a receive event cuts it at any unit, so headers and objects may be
complete or not. Statuses, end markers, malformed units, FIN and RESET all occur
in the scripts of `MCSubscriber`. The policy for unknown aliases is chosen at the
start and never changes.

One simplification: when the application closes the session from its own thread
while T works without the mutex (`CloseElsewhere`), the loop is one step, so the
`on_error()` handlers called on that thread do not call back.

### Publisher

No handler is called here and every operation holds the mutex to its end, so an
operation is one step. `publish()` is the exception: it is a loop which calls
back into the session (a stream that fails to open closes the session, a
completed subscription is finished), so each turn of it is two steps, delivery
and completion. The variable `wire` records the data streams with the deltas and
statuses sent, `replies` what was sent on each request stream. The peer may make
a stream unusable at any time; the callback that says so waits for the mutex.
Namespaces are sequences of fields, fields are sequences of characters, and
`namespace_text` joins them as the code does. Track Aliases come from a counter
and are represented by the request they were given to.

### Codec and ByteStreams

`Codec` follows the encoders and decoders branch by branch: the length of an
integer from its leading bits, the parameter lists with their delta types, the
limits on namespaces and reasons, the flags of object headers. The width of a
byte is a parameter: with bytes of `ByteBits` bits an integer has up to
`ByteBits` bytes, and the code is the instance 8. `ByteStreams` holds
the loops around it. The bytes of a script arrive in pieces of any size, FIN may
come with the last piece, alone, or twice, and the sink keeps a buffer, takes
messages out of it, hands it to the next sink (the gate), and finds the stream
at fault or not. What a message then does is left to the other modules.

## What is checked

Passing runs:

| Run | Configuration | Question |
| --- | --- | --- |
| `session` | `Session.cfg` | no lost `ready()`, no readiness without both SETUPs, one-way phases, refinement of the contract; the destructor returns, closing ends |
| `requests_and_data` | `SubscriberKinds.cfg` | futures accounted for and settled once, updates in order, routes owned, closing ends all, budgets exact, end of track honoured, the policies for an unknown alias; every callback of T ends |
| `streams` | `SubscriberStreams.cfg` | parked streams, their budget, FIN, late delivery, end markers; an alias used by one request after another |
| `fan_out` | `PublisherFanOut.cfg` | the three subscription tables agree, no stream leaks, IDs are recovered from deltas, PUBLISH_DONE is complete, ends of groups are signalled, closing ends all, what is over stays over |
| `filters` | `PublisherFilters.cfg` | no subscription outlives its range, replies in order, a namespace is announced exactly while a track uses it |
| `transport` | `Transport.cfg` | no callback into a freed context, handles closed once, nothing left behind a destructor that waited |
| `byte_streams` | `ByteStreams.cfg` | what was encoded is decoded however it is cut, faults are found exactly when they should be, no byte is lost or kept twice |

The runs that end in a violation each show a disagreement between the code and
its documentation or comments:

| Run | Disagreement |
| --- | --- |
| `stop_in_replay` | `stop_subscription()` from a handler during the replay leaves the route installed |
| `namespace_text` | `{"a/b"}` and `{"a","b"}` share one announcement |
| `open_fails_in_publish` | when a stream fails to open, `publish()` goes on using a subscription that was destroyed |
| `last_datagram` | a zero-length datagram cannot say that it is the last of its group |
| `handle_race` | `send()` and its siblings may pass MsQuic a handle that T has closed since they tested it, although all calls are said to be thread-safe |

Others were met while modelling and have no run of their own:

- `docs/Subscriber-API.md:102` says that under the default policy "unknown-alias
  Subgroup streams are still aborted"; `parse_header()` parks them and replays
  them after SUBSCRIBE_OK.
- `finish()` detaches a subscription before it encodes PUBLISH_DONE. With a
  reason too long for a control message the encoder throws, no PUBLISH_DONE is
  sent, the request stays registered without a subscription behind it, and the
  other subscriptions of the track go on. The action `EndTrackThrows` models
  this. `filters` enables it (`LongReasons = TRUE`); the other publisher runs do
  not, because the tables then disagree.
- A destructor that gave up waiting closes the handles of the streams that are
  left, and a comment there says that `StreamClose` may call back at once. That
  callback still finds `handle_` set and closes the handle again.
  `ClosedOnce` is stated for destructors that waited.
- The encoders do not enforce two of the decoders' limits: 4096 bytes of a track
  name and 1024 bytes of a reason.

### Bounds

- Two callers of `ready()` are enough for calls before, between and after the
  settling events; the proofs cover any number.
- Three streams: one opened here, one opened by the peer, one in the middle of
  its last event. The proofs cover any number.
- `requests_and_data` explores three kinds of behaviours, chosen at the start:
  three Request IDs without data (a subscription with two updates, or more
  subscriptions), two with six datagrams, one with datagrams and a stream under
  each policy. What they cross over at (the route, the budgets, the callbacks) is
  the same code.
- `streams` has two streams of different contents and two requests, one after
  the other or at once, competing for one alias.
- Three buffered bytes, two datagrams per alias, one parked stream: every limit
  is smaller than what can arrive, so that it is met.
- Two subscriptions and two publications: enough to open, append to, replace
  and finish a stream while the other subscription is detached.
- The constraint `Calm` of `filters` leaves out states in which several tracks
  are registered and the peer has requests as well: announcements and
  subscriptions touch different tables of the Publisher.
- `MaxPublished` and `MaxPending` bound a counter and a list that the code does
  not bound. `MaxId` and `MaxRequestId` stand for the largest 64-bit value, and
  the sums of `resolve_filter` wrap at it.
- `byte_streams` uses bytes of four bits, so that an integer has one to four
  bytes and 65535 is the largest; each script has the values at both ends of
  each length. The limits of 32 fields, 4096 and 1024 bytes are scaled to 2, 4
  and 3, and one value on either side of each occurs.
- Symmetry is used for streams in one safety run only.

### Fairness

`Session`: a destructor that has begun goes on, and an entered callback is
executed (both threads are scheduled). MsQuic answers a requested shutdown, and
finishes `ConnectionClose`, after finitely many other events; these two are
strong fairness, because other events can interrupt them. `Subscriber`: weak
fairness of T, which includes that the application's handlers return. Nothing is
assumed of the peer or of the application's calls. `Publisher`, `Transport` and
`ByteStreams` have no liveness property: their operations wait for nothing but
the mutex, and the wait of the destructor is part of `Session`.

## What is proved

**Session** (`SessionProofs`), for every set of callers and without assumptions:
the type invariant, `NoForgottenWaiter`, `ReadyMeansSetUp`,
`TransportOutlivesSession`, `ClosingAsksForShutdown`, `OnlyForward`, and that
`Session` implements `SessionContract`. The inductive invariant is `SessionInv`.
The listed properties are not inductive alone. Whether `begin_close` finds an
adapter to shut down depends on where the application is in the life of the
object, which `LifeInv` records; that the first close reason is final needs
`ReasonInv`. The refinement maps the phases to opening, open and shut, and each
action to a step of the contract or to a stutter.

**Transport** (`TransportProofs`), for every set of streams, assuming only that
`NoStream` is not one: `ContextAlive`, `ClosedOnce`, `NothingLeft`. The
inductive invariant `TransportInv` adds who may still act on the connection
(`ConnInv`), what each stage of a stream means for its context (`StageInv`), and
who is responsible for an open handle and for the cycle of a context with its
sink (`OwnerInv`, as long as the destructor waited).

**Subscriber** (`SubscriberProofs`), for any Request IDs, aliases, scripts,
datagrams and limits, assuming that `MaxRequestId` is a natural number and that
`None` is neither an ID nor an alias: `RouteOwnership`, `FuturesAccounted`,
`ClosingEndsAll`, `SettledOnce`, `UpdatesInOrder`. The inductive invariant
`SubscriberInv` adds

- that an ID is fresh until it is given out and then belongs to one request or
  to one update in one queue (`RequestInv`): without it REQUEST_OK could settle
  a future of another request;
- how alias, route and activity of a request follow from its phase (`RouteInv`);
- the shape of T's stack (`WorkInv`): the end of a SUBSCRIBE_OK lies at the
  bottom, so that no second one begins before its route is established or
  retired, and what is ahead concerns requests that exist.

Most actions do one of three things to the requests, whatever they do to the
data plane: nothing (`Quiet`), end some (`Ends`), or begin to close (`Closes`).
The proof shows once for each of the three that it keeps the invariant, and for
each action which of the three it is; the nine actions that do more have a lemma
of their own. The action properties follow from what a step may do to a future
under the invariant (`FutureStep`).

Only model-checked: liveness; the budgets, markers and parking of the data
plane, whose statements sum over sequences; everything about `Publisher`; and
`Codec`, where a proof for all inputs would be an induction over data.

## Not modelled

- Address resolution and MsQuic configuration, logging, error texts, the
  examples, the interop tool, the build.
- FETCH, which the code refuses.
- A `StreamSend` that fails on a usable stream, for want of memory. The code then
  counts the object as sent.
- `ByteStreams` has the session Ready. A peer's request before the SETUP exchange
  is over closes the session, which `Session` has as a protocol violation.
- Publisher and Subscriber are both clients of a relay and never talk to each
  other, so there is no model of the two joined over a wire. That the decoders
  undo the encoders is checked in `byte_streams`.

## Plan

1. Proofs of `TablesAgree` and `NoStreamLeaks` for `Publisher`.
2. Proofs of `WaitingIsListed` and `NothingKeptForRouted`, which need the data
   plane in the inductive invariant.
3. A refinement of `Session` in which the streams of `Transport` are the ones
   that the destructor waits for.
