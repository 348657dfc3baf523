----------------------------- MODULE Transport -----------------------------
(***************************************************************************)
(* The streams of a connection: StreamContext, and the stream table of     *)
(* MsQuicTransportAdapter (src/stream_context.cpp,                         *)
(* src/msquic_transport_adapter.cpp).                                      *)
(*                                                                         *)
(* MsQuic calls back with a raw StreamContext pointer.  The table keeps    *)
(* the context alive, the context keeps its sink alive and closes the      *)
(* handle.  None of this is under the session mutex, so the steps are      *)
(* finer than in the other modules:                                        *)
(*  - the user is whoever holds the session mutex and opens or uses a      *)
(*    stream, `user` being the point it has reached;                       *)
(*  - T delivers MsQuic's events one at a time, `event` being the          *)
(*    SHUTDOWN_COMPLETE of a stream it is in the middle of;                *)
(*  - the destructor of the adapter, at `dtor`, runs without the mutex.    *)
(***************************************************************************)
EXTENDS Naturals

CONSTANTS Streams, NoStream

ASSUME NoStreamIsNone == NoStream \notin Streams

VARIABLES
  handle,           \* MsQuic's handle of each stream
  quic,             \* MsQuic: a stream is idle, started or done
  hasHandle,        \* handle_ is not null
  sink,             \* sink_
  table,            \* streams_
  doomed,           \* the destructor's local map
  kept,             \* the streams that the session's own tables refer to
  missed,           \* streams that had shut down before they were given a sink
  user, event, dtor,
  closing,          \* begin_close() has requested the shutdown
  complete,         \* shutdown_complete_
  timedOut          \* the destructor stopped waiting for it

quicVars == <<handle, quic>>
contextVars == <<hasHandle, sink>>
sessionVars == <<kept, missed, user>>
connVars == <<closing, complete, timedOut>>
vars == <<quicVars, contextVars, table, doomed, sessionVars, event, dtor, connVars>>

Idle == [at |-> "idle", stream |-> NoStream]
NoEvent == [at |-> "none", stream |-> NoStream, sink |-> "none"]
Sinks == {"none", "gate", "request"}

TypeOK ==
  /\ handle \in [Streams -> {"none", "open", "closed", "twice"}]
  /\ quic \in [Streams -> {"idle", "started", "done"}]
  /\ hasHandle \in [Streams -> BOOLEAN]
  /\ sink \in [Streams -> Sinks]
  /\ table \in SUBSET Streams
  /\ doomed \in SUBSET Streams
  /\ kept \in SUBSET Streams
  /\ missed \in SUBSET Streams
  /\ user \in {Idle} \cup [at : {"opened", "started", "tested"}, stream : Streams]
  /\ event \in {NoEvent} \cup [at : {"close", "reset", "notify", "remove"},
                               stream : Streams, sink : Sinks]
  /\ dtor \in {"alive", "waiting", "swap", "closing", "gone"}
  /\ closing \in BOOLEAN
  /\ complete \in BOOLEAN
  /\ timedOut \in BOOLEAN

Init ==
  /\ handle = [s \in Streams |-> "none"]
  /\ quic = [s \in Streams |-> "idle"]
  /\ hasHandle = [s \in Streams |-> FALSE]
  /\ sink = [s \in Streams |-> "none"]
  /\ table = {} /\ doomed = {} /\ kept = {} /\ missed = {}
  /\ user = Idle
  /\ event = NoEvent
  /\ dtor = "alive"
  /\ closing = FALSE /\ complete = FALSE /\ timedOut = FALSE

\* StreamClose on a handle that is open, or on one that is not any more.
Closed(h) == IF h = "open" THEN "closed" ELSE "twice"

-----------------------------------------------------------------------------
(* The user: open_stream() and the calls of StreamContext. *)

\* open_stream() up to StreamStart.  The context is in the table before MsQuic
\* can call it.
open_stream(s) ==
  /\ user = Idle /\ ~closing
  /\ handle[s] = "none"
  /\ handle' = [handle EXCEPT ![s] = "open"]
  /\ hasHandle' = [hasHandle EXCEPT ![s] = TRUE]
  /\ table' = table \cup {s}
  /\ user' = [at |-> "opened", stream |-> s]
  /\ UNCHANGED <<quic, sink, doomed, kept, missed, event, dtor, connVars>>

StartOk ==
  /\ user.at = "opened"
  /\ quic' = [quic EXCEPT ![user.stream] = "started"]
  /\ user' = [user EXCEPT !.at = "started"]
  /\ UNCHANGED <<handle, contextVars, table, doomed, kept, missed, event, dtor, connVars>>

\* StreamStart fails: the stream was never started, so no callback comes for it.
StartFails ==
  /\ user.at = "opened"
  /\ table' = table \ {user.stream}
  /\ handle' = [handle EXCEPT ![user.stream] = Closed(@)]
  /\ hasHandle' = [hasHandle EXCEPT ![user.stream] = FALSE]
  /\ user' = Idle
  /\ UNCHANGED <<quic, sink, doomed, kept, missed, event, dtor, connVars>>

\* The caller of open_stream() keeps the stream.  A request stream gets its sink
\* only now, when T may already have delivered events; a data stream gets none.
Keep(request) ==
  /\ user.at = "started"
  /\ kept' = kept \cup {user.stream}
  /\ sink' = IF request THEN [sink EXCEPT ![user.stream] = "request"] ELSE sink
  /\ missed' = IF request /\ quic[user.stream] = "done" THEN missed \cup {user.stream} ELSE missed
  /\ user' = Idle
  /\ UNCHANGED <<quicVars, hasHandle, table, doomed, event, dtor, connVars>>

\* send(), finish_send(), abort_send() and abort_receive() first test handle_ ...
Test(s) ==
  /\ user = Idle
  /\ s \in kept
  /\ hasHandle[s]
  /\ user' = [at |-> "tested", stream |-> s]
  /\ UNCHANGED <<quicVars, contextVars, table, doomed, kept, missed, event, dtor, connVars>>

\* ... and then pass it to MsQuic.
Use ==
  /\ user.at = "tested"
  /\ user' = Idle
  /\ UNCHANGED <<quicVars, contextVars, table, doomed, kept, missed, event, dtor, connVars>>

\* begin_close() under the mutex: the session drops its requests and data
\* streams and requests the shutdown of the connection.
begin_close ==
  /\ user = Idle /\ ~closing
  /\ closing' = TRUE
  /\ kept' = {}
  /\ UNCHANGED <<quicVars, contextVars, table, doomed, missed, user, event, dtor, complete, timedOut>>

-----------------------------------------------------------------------------
(* T: the events of the connection and of its streams. *)

Delivers == event = NoEvent /\ dtor # "gone"

\* PEER_STREAM_STARTED: the context enters the table and gets a gate as its sink.
PeerStreamStarted(s) ==
  /\ Delivers /\ ~complete
  /\ handle[s] = "none"
  /\ handle' = [handle EXCEPT ![s] = "open"]
  /\ quic' = [quic EXCEPT ![s] = "started"]
  /\ hasHandle' = [hasHandle EXCEPT ![s] = TRUE]
  /\ sink' = [sink EXCEPT ![s] = "gate"]
  /\ table' = table \cup {s}
  /\ UNCHANGED <<doomed, sessionVars, event, dtor, connVars>>

\* RECEIVE on a gate that has seen enough: under the mutex it swaps itself for
\* the sink of the request or of the data stream.
HandOver(s) ==
  /\ Delivers /\ user = Idle
  /\ quic[s] = "started" /\ sink[s] = "gate"
  /\ sink' = [sink EXCEPT ![s] = "request"]
  /\ kept' = IF closing THEN kept ELSE kept \cup {s}
  /\ UNCHANGED <<quicVars, hasHandle, table, doomed, missed, user, event, dtor, connVars>>

\* SHUTDOWN_COMPLETE, the last event of a stream.  T takes its copy of the sink.
StreamShutdownComplete(s) ==
  /\ Delivers
  /\ quic[s] = "started"
  /\ quic' = [quic EXCEPT ![s] = "done"]
  /\ event' = [at |-> "close", stream |-> s, sink |-> sink[s]]
  /\ UNCHANGED <<handle, contextVars, table, doomed, sessionVars, dtor, connVars>>

\* T goes on with the SHUTDOWN_COMPLETE it is in.
Continue(here, there) ==
  /\ event.at = here
  /\ event' = [event EXCEPT !.at = there]

CloseHandle ==
  /\ Continue("close", "reset")
  /\ handle' = IF hasHandle[event.stream] THEN [handle EXCEPT ![event.stream] = Closed(@)]
                                          ELSE handle
  /\ UNCHANGED <<quic, contextVars, table, doomed, sessionVars, dtor, connVars>>

\* Mutation: the cycle between the context and its sink is not broken.
ResetSink_Kept(s) == UNCHANGED sink

ResetSink(s) == sink' = [sink EXCEPT ![s] = "none"]

ResetHandle ==
  /\ Continue("reset", "notify")
  /\ hasHandle' = [hasHandle EXCEPT ![event.stream] = FALSE]
  /\ ResetSink(event.stream)
  /\ UNCHANGED <<quicVars, table, doomed, sessionVars, dtor, connVars>>

\* Mutation: the context leaves the table before its sink is told.
Notify_RemovesFirst ==
  /\ Continue("notify", "remove")
  /\ table' = table \ {event.stream}
  /\ UNCHANGED <<quicVars, contextVars, doomed, sessionVars, dtor, connVars>>

\* on_stream_closed() of a request takes the session mutex and ends the request.
Notify ==
  /\ Continue("notify", "remove")
  /\ event.sink = "request" => user = Idle
  /\ kept' = IF event.sink = "request" THEN kept \ {event.stream} ELSE kept
  /\ UNCHANGED <<quicVars, contextVars, table, doomed, missed, user, dtor, connVars>>

remove_stream ==
  /\ event.at = "remove"
  /\ table' = table \ {event.stream}
  /\ event' = NoEvent
  /\ UNCHANGED <<quicVars, contextVars, doomed, sessionVars, dtor, connVars>>

\* SHUTDOWN_COMPLETE of the connection, which MsQuic indicates after those of
\* all its streams.
ShutdownComplete ==
  /\ Delivers
  /\ closing /\ ~complete
  /\ \A s \in Streams : quic[s] # "started"
  /\ complete' = TRUE
  /\ UNCHANGED <<quicVars, contextVars, table, doomed, sessionVars, event, dtor, closing, timedOut>>

-----------------------------------------------------------------------------
(* The destructor of the adapter. *)

Destroy ==
  /\ dtor = "alive" /\ closing
  /\ dtor' = "waiting"
  /\ UNCHANGED <<quicVars, contextVars, table, doomed, sessionVars, event, connVars>>

\* Mutation: the destructor does not wait, but believes that it did.
Waited_Skipped == TRUE

Waited == complete

\* It waits for the SHUTDOWN_COMPLETE of the connection, but not for ever.
Wait(timeout) ==
  /\ dtor = "waiting"
  /\ Waited \/ timeout
  /\ dtor' = "swap"
  /\ timedOut' = ~Waited
  /\ UNCHANGED <<quicVars, contextVars, table, doomed, sessionVars, event, closing, complete>>

SwapTable ==
  /\ dtor = "swap"
  /\ doomed' = table
  /\ table' = {}
  /\ dtor' = "closing"
  /\ UNCHANGED <<quicVars, contextVars, sessionVars, event, connVars>>

\* One turn of the destructor's loop.  StreamClose on a stream that has not shut
\* down invokes the SHUTDOWN_COMPLETE callback before it returns; the callback
\* still finds handle_ set and closes the handle a second time.
CloseDoomed(s) ==
  /\ dtor = "closing"
  /\ s \in doomed /\ hasHandle[s]
  /\ hasHandle' = [hasHandle EXCEPT ![s] = FALSE]
  /\ \/ /\ quic[s] = "started"
        /\ handle' = [handle EXCEPT ![s] = Closed(Closed(@))]
        /\ quic' = [quic EXCEPT ![s] = "done"]
        /\ sink' = [sink EXCEPT ![s] = "none"]
     \/ /\ quic[s] # "started"
        /\ handle' = [handle EXCEPT ![s] = Closed(@)]
        /\ UNCHANGED <<quic, sink>>
  /\ UNCHANGED <<table, doomed, sessionVars, event, dtor, connVars>>

\* ConnectionClose waits for a callback that is running; none starts after it.
ConnectionClose ==
  /\ dtor = "closing"
  /\ \A s \in doomed : ~hasHandle[s]
  /\ event = NoEvent
  /\ dtor' = "gone"
  /\ UNCHANGED <<quicVars, contextVars, table, doomed, sessionVars, event, connVars>>

-----------------------------------------------------------------------------

User ==
  \/ \E s \in Streams : open_stream(s) \/ Test(s)
  \/ StartOk
  \/ StartFails
  \/ \E request \in BOOLEAN : Keep(request)
  \/ Use
  \/ begin_close

Events ==
  \/ \E s \in Streams : PeerStreamStarted(s) \/ HandOver(s) \/ StreamShutdownComplete(s)
  \/ CloseHandle
  \/ ResetHandle
  \/ Notify
  \/ remove_stream
  \/ ShutdownComplete

Destructor ==
  \/ Destroy
  \/ \E timeout \in BOOLEAN : Wait(timeout)
  \/ SwapTable
  \/ \E s \in Streams : CloseDoomed(s)
  \/ ConnectionClose

\* The adapter is gone: nothing happens any more.
Gone == dtor = "gone" /\ UNCHANGED vars

Next == User \/ Events \/ Destructor \/ Gone

Spec == Init /\ [][Next]_vars

-----------------------------------------------------------------------------
(* What the adapter promises. *)

\* MsQuic never calls back with the pointer of a context that was freed: while a
\* stream is started, and to the end of its last callback, the table or the
\* destructor's copy of it keeps the context alive.  Not even a destructor that
\* stopped waiting breaks this.
ContextAlive ==
  dtor # "gone" =>
    \A s \in Streams : quic[s] = "started" \/ event.stream = s => s \in table \cup doomed

\* StreamClose is called once per handle, by open_stream(), by the callback or by
\* the destructor, unless the destructor stopped waiting; and handle_ never
\* outlives the handle except between StreamClose and the reset that follows it.
ClosedOnce ==
  ~timedOut => \A s \in Streams :
    /\ handle[s] # "twice"
    /\ hasHandle[s] => \/ handle[s] = "open"
                       \/ event.stream = s /\ event.at = "reset"

\* A destructor that waited long enough leaves nothing behind: every handle is
\* closed, and no context is kept alive by a cycle with its sink, except where the
\* stream had shut down before it was given a sink.
NothingLeft ==
  dtor = "gone" /\ ~timedOut =>
    \A s \in Streams : /\ handle[s] \in {"none", "closed"}
                       /\ sink[s] = "none" \/ s \in missed

-----------------------------------------------------------------------------
(* What the documentation says and the code does not do. *)

\* include/moq/publisher_session.h: "All calls are thread-safe".  A stream is used
\* only while its handle is open.
UsedWhileOpen ==
  user.at = "tested" => handle[user.stream] = "open"
=============================================================================
