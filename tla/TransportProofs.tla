-------------------------- MODULE TransportProofs --------------------------
(***************************************************************************)
(* The invariants of Transport, proved for every set of streams.           *)
(***************************************************************************)
EXTENDS Transport, TLAPS

\* Who acts on the connection: nobody uses a stream once the shutdown was
\* requested, and when it is complete no stream and no callback is left.
ConnInv ==
  /\ closing => user = Idle /\ kept = {}
  /\ complete \/ dtor # "alive" => closing
  /\ complete => event = NoEvent /\ \A s \in Streams : quic[s] # "started"
  /\ dtor \in {"alive", "waiting"} => ~timedOut
  /\ dtor \in {"alive", "waiting", "swap"} => doomed = {}
  /\ dtor \notin {"alive", "waiting"} /\ ~timedOut => complete

\* What each stage in the life of a stream means for its context.
StageInv ==
  \A s \in Streams :
    /\ event.stream = s => quic[s] = "done"
    /\ user.stream = s /\ user.at = "opened"
         => quic[s] = "idle" /\ handle[s] = "open" /\ s \in table
    /\ user.stream = s /\ user.at = "started" => quic[s] # "idle"
    /\ handle[s] = "none" => quic[s] = "idle"
    /\ quic[s] = "idle" => sink[s] = "none"

\* Who is responsible for an open handle, and for breaking the cycle of a sink,
\* as long as the destructor does not interfere.
OwnerInv ==
  ~timedOut => \A s \in Streams :
    /\ handle[s] # "twice"
    /\ quic[s] = "started" => handle[s] = "open"
    /\ handle[s] = "open" => hasHandle[s]
    /\ handle[s] = "open" => \/ quic[s] = "started"
                             \/ quic[s] = "idle" /\ user.stream = s /\ user.at = "opened"
                             \/ event.stream = s /\ event.at = "close"
    /\ hasHandle[s] => \/ handle[s] = "open"
                       \/ event.stream = s /\ event.at = "reset"
    /\ sink[s] # "none" => \/ quic[s] = "started"
                           \/ event.stream = s /\ event.at \in {"close", "reset"}
                           \/ s \in missed

TransportInv == TypeOK /\ ConnInv /\ StageInv /\ ContextAlive /\ OwnerInv

-----------------------------------------------------------------------------

\* A new adapter satisfies the invariant.
LEMMA InvInit == Init => TransportInv
<1> SUFFICES ASSUME Init
             PROVE  TransportInv
  OBVIOUS
<1> USE NoStreamIsNone DEF Init, Idle, NoEvent, Sinks
<1>1. TypeOK
  BY Zenon DEF TypeOK
<1>2. ConnInv
  BY DEF ConnInv
<1>3. StageInv
  BY Zenon DEF StageInv
<1>4. ContextAlive
  BY DEF ContextAlive
<1>5. OwnerInv
  BY Zenon DEF OwnerInv
<1>6. QED
  BY <1>1, <1>2, <1>3, <1>4, <1>5 DEF TransportInv

\* Every step keeps it.
LEMMA InvNext == TransportInv /\ [Next]_vars => TransportInv'
<1> SUFFICES ASSUME TransportInv, [Next]_vars
             PROVE  TransportInv'
  OBVIOUS
<1> USE NoStreamIsNone DEF TransportInv, TypeOK, ConnInv, StageInv, ContextAlive, OwnerInv,
                           Idle, NoEvent, Sinks, vars, quicVars, contextVars, sessionVars, connVars
<1>1. ASSUME NEW s \in Streams, open_stream(s)
      PROVE  TransportInv'
  BY <1>1 DEF open_stream
<1>2. ASSUME NEW s \in Streams, Test(s)
      PROVE  TransportInv'
  <2>1. TypeOK'
    BY <1>2 DEF Test
  <2>2. ConnInv'
    BY <1>2 DEF Test
  <2>3. StageInv'
    BY <1>2 DEF Test
  <2>4. ContextAlive'
    BY <1>2 DEF Test
  <2>5. OwnerInv'
    BY <1>2 DEF Test
  <2>6. QED
    BY <2>1, <2>2, <2>3, <2>4, <2>5
<1>3. CASE StartOk
  BY <1>3 DEF StartOk
<1>4. CASE StartFails
  BY <1>4 DEF StartFails, Closed
<1>5. ASSUME NEW request \in BOOLEAN, Keep(request)
      PROVE  TransportInv'
  <2>1. TypeOK'
    BY <1>5 DEF Keep
  <2>2. ConnInv'
    BY <1>5 DEF Keep
  <2>3. StageInv'
    BY <1>5 DEF Keep
  <2>4. ContextAlive'
    BY <1>5 DEF Keep
  <2>5. OwnerInv'
    BY <1>5 DEF Keep
  <2>6. QED
    BY <2>1, <2>2, <2>3, <2>4, <2>5
<1>6. CASE Use
  BY <1>6 DEF Use
<1>7. CASE begin_close
  BY <1>7 DEF begin_close
<1>8. ASSUME NEW s \in Streams, PeerStreamStarted(s)
      PROVE  TransportInv'
  BY <1>8 DEF PeerStreamStarted, Delivers
<1>9. ASSUME NEW s \in Streams, HandOver(s)
      PROVE  TransportInv'
  BY <1>9 DEF HandOver, Delivers
<1>10. ASSUME NEW s \in Streams, StreamShutdownComplete(s)
      PROVE  TransportInv'
  BY <1>10 DEF StreamShutdownComplete, Delivers
<1>11. CASE CloseHandle
  <2>1. TypeOK'
    BY <1>11 DEF CloseHandle, Continue, Closed
  <2>2. ConnInv'
    BY <1>11 DEF CloseHandle, Continue, Closed
  <2>3. StageInv'
    BY <1>11 DEF CloseHandle, Continue, Closed
  <2>4. ContextAlive'
    BY <1>11 DEF CloseHandle, Continue, Closed
  <2>5. OwnerInv'
    BY <1>11 DEF CloseHandle, Continue, Closed
  <2>6. QED
    BY <2>1, <2>2, <2>3, <2>4, <2>5
<1>12. CASE ResetHandle
  BY <1>12 DEF ResetHandle, Continue, ResetSink
<1>13. CASE Notify
  BY <1>13 DEF Notify, Continue
<1>14. CASE remove_stream
  BY <1>14 DEF remove_stream
<1>15. CASE ShutdownComplete
  BY <1>15 DEF ShutdownComplete, Delivers
<1>16. CASE Destroy
  BY <1>16 DEF Destroy
<1>17. ASSUME NEW timeout \in BOOLEAN, Wait(timeout)
      PROVE  TransportInv'
  BY <1>17 DEF Wait, Waited
<1>18. CASE SwapTable
  <2>1. TypeOK'
    BY <1>18 DEF SwapTable
  <2>2. ConnInv'
    BY <1>18 DEF SwapTable
  <2>3. StageInv'
    BY <1>18 DEF SwapTable
  <2>4. ContextAlive'
    BY <1>18 DEF SwapTable
  <2>5. OwnerInv'
    BY <1>18 DEF SwapTable
  <2>6. QED
    BY <2>1, <2>2, <2>3, <2>4, <2>5
<1>19. ASSUME NEW s \in Streams, CloseDoomed(s)
      PROVE  TransportInv'
  BY <1>19 DEF CloseDoomed, Closed
<1>20. CASE ConnectionClose
  BY <1>20 DEF ConnectionClose
<1>21. CASE UNCHANGED vars
  BY <1>21
<1> HIDE DEF TransportInv, TypeOK, ConnInv, StageInv, ContextAlive, OwnerInv
<1>22. QED
  BY <1>1, <1>2, <1>3, <1>4, <1>5, <1>6, <1>7, <1>8, <1>9, <1>10, <1>11, <1>12, <1>13, <1>14, <1>15, <1>16, <1>17, <1>18, <1>19, <1>20, <1>21 DEF Next, User, Events, Destructor, Gone

\* Spec keeps the inductive invariant: the type invariant, the pointers MsQuic
\* holds, and who is responsible for handles and sinks.
THEOREM TransportInvariant == Spec => []TransportInv
BY InvInit, InvNext, PTL DEF Spec

\* The context of every stream that MsQuic may call back about is alive.
THEOREM CallbacksFindContext == Spec => []ContextAlive
BY TransportInvariant, PTL DEF TransportInv

\* StreamClose is called once per handle unless the destructor stopped waiting.
THEOREM HandlesClosedOnce == Spec => []ClosedOnce
<1>1. TransportInv => ClosedOnce
  BY Zenon DEF TransportInv, OwnerInv, ClosedOnce
<1>2. QED
  BY <1>1, TransportInvariant, PTL

\* A destructor that waited leaves no handle and no sink behind.
THEOREM DestructorLeavesNothing == Spec => []NothingLeft
<1>1. TransportInv => NothingLeft
  <2> SUFFICES ASSUME TransportInv, dtor = "gone", ~timedOut, NEW s \in Streams
               PROVE  /\ handle[s] \in {"none", "closed"}
                      /\ sink[s] = "none" \/ s \in missed
    BY Zenon DEF NothingLeft
  <2>1. complete /\ closing
    BY DEF TransportInv, ConnInv
  <2>2. event.stream # s /\ user.stream # s /\ quic[s] # "started"
    BY <2>1, NoStreamIsNone DEF TransportInv, ConnInv, Idle, NoEvent
  <2>3. QED
    BY <2>2 DEF TransportInv, TypeOK, OwnerInv
<1>2. QED
  BY <1>1, TransportInvariant, PTL
=============================================================================
