-------------------------- MODULE SubscriberProofs --------------------------
(***************************************************************************)
(* Proofs about the requests of the Subscriber: whose route an alias is,   *)
(* who settles a future, and what closing the session reaches, for any     *)
(* number of Request IDs, aliases, streams and datagrams.                  *)
(*                                                                         *)
(* Most steps do one of three things to the requests, whatever they do to  *)
(* the data plane: nothing, end some of them, or begin to close the        *)
(* session.  The proof shows that of each such step, once per action, and  *)
(* then that each of the three keeps the invariant.                        *)
(***************************************************************************)
EXTENDS Subscriber, SequenceTheorems, TLAPS

-----------------------------------------------------------------------------
(* The stack of T. *)

\* `t` is a stack on which the end of a SUBSCRIBE_OK lies at the bottom.
Stack(t) ==
  /\ t \in Seq(Range(t))
  /\ \A n \in 1..Len(t) : t[n].op = "installed" => n = Len(t)

\* The empty stack holds nothing.
LEMMA EmptyStack == Stack(<<>>) /\ Range(<<>>) = {}
  BY DEF Stack, Range

\* A stack of one item holds that item.
LEMMA Singleton == ASSUME NEW x PROVE Stack(<<x>>) /\ Range(<<x>>) = {x}
<1>1. Range(<<x>>) = {x}
  BY DEF Range
<1>2. QED
  BY <1>1 DEF Stack

\* A concatenation holds the items of both parts, in order.
LEMMA Joined ==
  ASSUME NEW p, NEW t, p \in Seq(Range(p)), t \in Seq(Range(t))
  PROVE  /\ p \o t \in Seq(Range(p \o t))
         /\ Range(p \o t) = Range(p) \cup Range(t)
         /\ Len(p) \in Nat /\ Len(t) \in Nat /\ Len(p \o t) = Len(p) + Len(t)
         /\ \A i \in 1..Len(p \o t) : (p \o t)[i] = IF i <= Len(p) THEN p[i] ELSE t[i - Len(p)]
<1> DEFINE S == Range(p) \cup Range(t)
<1>1. p \in Seq(S) /\ t \in Seq(S)
  BY SeqMonotonic
<1>2. Range(p \o t) = Range(p) \cup Range(t)
  BY <1>1, RangeConcatenation
<1>3. /\ p \o t \in Seq(S) /\ Len(p \o t) = Len(p) + Len(t)
      /\ \A i \in 1..Len(p \o t) : (p \o t)[i] = IF i <= Len(p) THEN p[i] ELSE t[i - Len(p)]
  BY <1>1, ConcatProperties
<1>4. Len(p) \in Nat /\ Len(t) \in Nat
  BY <1>1, LenProperties
<1>5. QED
  BY <1>2, <1>3, <1>4

\* An item other than the end of a SUBSCRIBE_OK may be put on top.
LEMMA PushItem ==
  ASSUME NEW x, NEW t, Stack(t), x.op # "installed"
  PROVE  /\ Stack(<<x>> \o t)
         /\ Range(<<x>> \o t) = {x} \cup Range(t)
         /\ <<x>> \o t # <<>>
<1> DEFINE p == <<x>>
           u == p \o t
<1>1. p \in Seq(Range(p)) /\ Range(p) = {x} /\ Len(p) = 1 /\ p[1] = x
  BY Singleton DEF Stack
<1>2. t \in Seq(Range(t))
  BY DEF Stack
<1> HIDE DEF p
<1>3. /\ u \in Seq(Range(u)) /\ Range(u) = {x} \cup Range(t)
      /\ Len(t) \in Nat /\ Len(u) = 1 + Len(t)
      /\ \A i \in 1..Len(u) : u[i] = IF i <= 1 THEN p[i] ELSE t[i - 1]
  <2>1. /\ u \in Seq(Range(u)) /\ Range(u) = Range(p) \cup Range(t)
        /\ Len(t) \in Nat /\ Len(u) = Len(p) + Len(t)
        /\ \A i \in 1..Len(u) : u[i] = IF i <= Len(p) THEN p[i] ELSE t[i - Len(p)]
    BY Zenon, <1>1, <1>2, Joined
  <2> HIDE DEF u
  <2>2. QED
    BY <2>1, <1>1
<1> HIDE DEF u
<1>4. ASSUME NEW n \in 1..Len(u), u[n].op = "installed"
      PROVE  n = Len(u)
  <2>1. n # 1
    BY <1>1, <1>3, <1>4
  <2>2. n - 1 \in 1..Len(t) /\ u[n] = t[n - 1]
    BY <2>1, <1>3, <1>4
  <2>3. n - 1 = Len(t)
    BY <2>2, <1>4 DEF Stack
  <2>4. QED
    BY <2>3, <1>3, <1>4
<1>5. u # <<>>
  BY <1>3
<1>6. QED
  BY <1>3, <1>4, <1>5 DEF Stack, p, u

\* Taking the top item off leaves a stack of the others; the end of a
\* SUBSCRIBE_OK is the last item.
LEMMA PopItem ==
  ASSUME NEW t, Stack(t), t # <<>>
  PROVE  /\ Stack(Tail(t))
         /\ Range(t) = {Head(t)} \cup Range(Tail(t))
         /\ Head(t).op = "installed" => Tail(t) = <<>>
<1> DEFINE S == Range(t)
           u == Tail(t)
<1>1. /\ t \in Seq(S) /\ Len(t) \in Nat \ {0} /\ DOMAIN t = 1..Len(t)
  BY EmptySeq, LenProperties DEF Stack
<1>2. /\ u \in Seq(S) /\ Len(u) = Len(t) - 1 /\ DOMAIN u = 1..Len(u)
      /\ \A i \in 1..Len(u) : u[i] = t[i + 1]
  BY <1>1, HeadTailProperties, LenProperties
<1>3. Head(t) = t[1]
  BY <1>1
<1>4. Range(u) = {t[i] : i \in 2..Len(t)}
  <2>1. Range(u) = {u[i] : i \in 1..Len(u)}
    BY Zenon, <1>2, RangeEquality
  <2>2. ASSUME NEW i \in 2..Len(t)
        PROVE  i - 1 \in 1..Len(u) /\ t[i] = u[i - 1]
    BY <1>1, <1>2, <2>2
  <2>3. ASSUME NEW i \in 1..Len(u)
        PROVE  i + 1 \in 2..Len(t) /\ u[i] = t[i + 1]
    BY <1>1, <1>2, <2>3
  <2> HIDE DEF u
  <2>4. QED
    BY <2>1, <2>2, <2>3
<1>5. Range(t) = {t[i] : i \in 1..Len(t)}
  BY <1>1, RangeEquality
<1>6. Range(t) = {Head(t)} \cup Range(u)
  <2>1. 1..Len(t) = {1} \cup 2..Len(t)
    BY <1>1
  <2>2. QED
    BY <2>1, <1>3, <1>4, <1>5
<1>7. u \in Seq(Range(u))
  BY Zenon, <1>2, SeqOfRange
<1>8. ASSUME NEW n \in 1..Len(u), u[n].op = "installed"
      PROVE  n = Len(u)
  <2>1. n + 1 \in 1..Len(t) /\ t[n + 1].op = "installed"
    BY <1>1, <1>2, <1>8
  <2>2. n + 1 = Len(t)
    BY <2>1 DEF Stack
  <2>3. QED
    BY <2>2, <1>1, <1>2, <1>8
<1>9. ASSUME Head(t).op = "installed"
      PROVE  u = <<>>
  <2>1. 1 \in 1..Len(t) /\ t[1].op = "installed"
    BY <1>1, <1>3, <1>9
  <2>2. Len(t) = 1
    BY Zenon, <2>1, <1>1 DEF Stack
  <2>3. u \in Seq(S) /\ Len(u) = 0
    BY <2>2, <1>2
  <2> HIDE DEF u
  <2>4. QED
    BY <2>3, EmptySeq
<1> HIDE DEF u
<1>10. Stack(u)
  BY <1>7, <1>8 DEF Stack
<1>11. QED
  BY <1>6, <1>9, <1>10 DEF u

-----------------------------------------------------------------------------
(* Queues of updates. *)

Distinct(s) == \A m, n \in 1..Len(s) : s[m] = s[n] => m = n

\* The queue of a request that has ended holds no id twice.
LEMMA EmptyDistinct == Distinct(<<>>)
  BY DEF Distinct

\* request_update() queues a fresh ID: the queue keeps its IDs apart.
LEMMA Appended ==
  ASSUME NEW S, NEW s \in Seq(S), NEW x \in S
  PROVE  /\ Append(s, x) \in Seq(S)
         /\ Range(Append(s, x)) = Range(s) \cup {x}
         /\ Distinct(s) /\ x \notin Range(s) => Distinct(Append(s, x))
<1> DEFINE u == Append(s, x)
<1>1. /\ u \in Seq(S) /\ Len(s) \in Nat /\ Len(u) = Len(s) + 1
      /\ u[Len(u)] = x /\ \A i \in 1..Len(s) : u[i] = s[i]
  BY AppendProperties, LenProperties
<1>2. Range(u) = {u[i] : i \in 1..Len(u)} /\ Range(s) = {s[i] : i \in 1..Len(s)}
  BY Zenon, <1>1, RangeEquality
<1> HIDE DEF u
<1>3. 1..Len(u) = 1..Len(s) \cup {Len(u)}
  BY <1>1
<1>4. Range(u) = Range(s) \cup {x}
  BY <1>1, <1>2, <1>3
<1>5. ASSUME Distinct(s), x \notin Range(s), NEW m \in 1..Len(u), NEW n \in 1..Len(u), u[m] = u[n]
      PROVE  m = n
  <2>1. CASE m = Len(u)
    BY <2>1, <1>1, <1>2, <1>3, <1>5
  <2>2. CASE n = Len(u)
    BY <2>2, <1>1, <1>2, <1>3, <1>5
  <2>3. CASE m \in 1..Len(s) /\ n \in 1..Len(s)
    BY <2>3, <1>1, <1>5 DEF Distinct
  <2>4. QED
    BY <2>1, <2>2, <2>3, <1>3
<1>6. QED
  BY <1>1, <1>4, <1>5 DEF Distinct, u

\* REQUEST_OK takes the oldest ID, and only that one, off the queue.
LEMMA Removed ==
  ASSUME NEW S, NEW s \in Seq(S), s # <<>>, Distinct(s)
  PROVE  /\ Tail(s) \in Seq(S)
         /\ Head(s) \in Range(s)
         /\ Head(s) = s[1]
         /\ Range(Tail(s)) = Range(s) \ {Head(s)}
         /\ Distinct(Tail(s))
<1> DEFINE u == Tail(s)
<1>1. Len(s) \in Nat \ {0} /\ Head(s) = s[1]
  BY EmptySeq, LenProperties
<1>2. /\ u \in Seq(S) /\ Len(u) = Len(s) - 1
      /\ \A i \in 1..Len(u) : u[i] = s[i + 1]
  BY HeadTailProperties
<1>3. Range(u) = {u[i] : i \in 1..Len(u)} /\ Range(s) = {s[i] : i \in 1..Len(s)}
  BY Zenon, <1>2, RangeEquality
<1> HIDE DEF u
<1>4. Head(s) \in Range(s)
  BY <1>1, <1>3
<1>5. ASSUME NEW i \in 1..Len(u)
      PROVE  u[i] \in Range(s) /\ u[i] # Head(s)
  <2>1. i + 1 \in 1..Len(s) /\ i + 1 # 1 /\ 1 \in 1..Len(s) /\ u[i] = s[i + 1]
    BY <1>1, <1>2
  <2>2. QED
    BY <2>1, <1>1, <1>3 DEF Distinct
<1>6. ASSUME NEW i \in 1..Len(s), s[i] # Head(s)
      PROVE  s[i] \in Range(u)
  <2>1. i - 1 \in 1..Len(u) /\ u[i - 1] = s[i]
    BY <1>1, <1>2, <1>6
  <2>2. QED
    BY <2>1, <1>3
<1>7. Range(u) = Range(s) \ {Head(s)}
  BY <1>3, <1>5, <1>6
<1>8. ASSUME NEW m \in 1..Len(u), NEW n \in 1..Len(u), u[m] = u[n]
      PROVE  m = n
  <2>1. m + 1 \in 1..Len(s) /\ n + 1 \in 1..Len(s) /\ s[m + 1] = s[n + 1]
    BY <1>1, <1>2, <1>8
  <2>2. m + 1 = n + 1
    BY <2>1 DEF Distinct
  <2>3. QED
    BY <2>2, <1>2
<1>9. QED
  BY <1>1, <1>2, <1>4, <1>7, <1>8 DEF Distinct, u

-----------------------------------------------------------------------------
(* The inductive invariant. *)

\* PUBLISH_DONE of r is being handled.
DoneFor(work, r) == \E i \in Range(work) : i.op = "onDone" /\ i.request = r

\* Request IDs are fresh until they are given out, and an ID belongs to one
\* request or to one update of one request.
RequestInv ==
  /\ nextRequestId % 2 = 0
  /\ \A r \in RequestIds :
       /\ r \in registered <=> phase[r] \in Live
       /\ r >= nextRequestId => phase[r] = "none" /\ future[r] = "none"
       /\ r \in sent => phase[r] # "none"
       /\ updates[r] # <<>> => phase[r] = "Established"
       /\ Distinct(updates[r])
       /\ \A u \in InFlight(r) : u < nextRequestId /\ phase[u] = "none"
       /\ \A q \in RequestIds : q # r => InFlight(r) \cap InFlight(q) = {}

\* What the alias and the route of a request say about its phase.
RouteInv ==
  /\ \A r \in RequestIds :
       /\ phase[r] \in {"none", "Pending"} => trackAlias[r] = None
       /\ phase[r] \in {"Established", "UpdateFailed"} => trackAlias[r] # None
       /\ ~active[r] => phase[r] = "Terminated"
  /\ \A r \in RequestIds, a \in Aliases :
       routes[a] = r <=> \/ phase[r] \in {"Established", "UpdateFailed"} /\ trackAlias[r] = a
                         \/ Installing(todo, r, a)
  /\ \A a \in Aliases : routes[a] # None => active[routes[a]]

Started == {r \in RequestIds : phase[r] # "none"}

\* The work of T concerns requests that exist.
WorkInv ==
  /\ Stack(todo)
  /\ \A i \in Range(todo) :
       /\ i.op = "closing" => i.left \subseteq Started
       /\ i.op = "onDone" => i.request \in Started
       /\ i.op = "installed" => /\ i.request \in sent /\ i.alias \in Aliases
                                /\ phase[i.request] \in {"Pending", "Terminated"}

SubscriberInv ==
  SubscriptionsTypeOK /\ RequestInv /\ FuturesAccounted /\ RouteInv /\ WorkInv /\ ClosingEndsAll

-----------------------------------------------------------------------------
(* What the invariant says of one request, one ID or one alias. *)

\* The queue of updates of a request.
LEMMA QueueFacts ==
  ASSUME SubscriberInv, NEW r \in RequestIds
  PROVE  /\ updates[r] \in Seq(RequestIds) /\ Distinct(updates[r])
         /\ Len(updates[r]) \in Nat /\ DOMAIN updates[r] = 1..Len(updates[r])
         /\ updates[r] # <<>> => phase[r] = "Established"
<1>1. updates[r] \in Seq(RequestIds)
  BY DEF SubscriberInv, SubscriptionsTypeOK
<1>2. Distinct(updates[r]) /\ (updates[r] # <<>> => phase[r] = "Established")
  BY DEF SubscriberInv, RequestInv
<1>3. QED
  BY <1>1, <1>2, LenProperties

\* The phase of a request.
LEMMA PhaseFacts ==
  ASSUME SubscriberInv, NEW r \in RequestIds
  PROVE  /\ r \in registered <=> phase[r] \in Live
         /\ r >= nextRequestId => phase[r] = "none" /\ future[r] = "none"
         /\ r \in sent => phase[r] # "none"
  BY DEF SubscriberInv, RequestInv

\* An update in flight.
LEMMA InFlightFacts ==
  ASSUME SubscriberInv, NEW r \in RequestIds, NEW u \in InFlight(r)
  PROVE  /\ u \in RequestIds /\ u \in Nat /\ nextRequestId \in Nat
         /\ u < nextRequestId /\ phase[u] = "none"
         /\ r \in registered /\ future[u] = "pending"
<1>1. u < nextRequestId /\ phase[u] = "none"
  BY DEF SubscriberInv, RequestInv
<1>2. PICK n \in DOMAIN updates[r] : u = updates[r][n]
  BY DEF InFlight, Range
<1>3. DOMAIN updates[r] = 1..Len(updates[r]) /\ updates[r] \in Seq(RequestIds)
  BY QueueFacts
<1>4. u \in RequestIds
  BY <1>2, <1>3
<1>5. u \in Nat /\ nextRequestId \in Nat
  BY <1>4 DEF SubscriberInv, SubscriptionsTypeOK, RequestIds
<1>6. updates[r] # <<>>
  BY <1>2
<1>7. r \in registered
  BY <1>6, QueueFacts, PhaseFacts DEF Live
<1>8. future[u] = "pending"
  BY <1>4, <1>7 DEF SubscriberInv, FuturesAccounted
<1>9. QED
  BY <1>1, <1>4, <1>5, <1>7, <1>8

\* An update is in flight for one request.
LEMMA Apart ==
  ASSUME SubscriberInv, NEW r \in RequestIds, NEW q \in RequestIds, r # q
  PROVE  InFlight(r) \cap InFlight(q) = {}
  BY DEF SubscriberInv, RequestInv

\* The route of an alias.
LEMMA RouteFacts ==
  ASSUME SubscriberInv, NEW r \in RequestIds, NEW a \in Aliases
  PROVE  routes[a] = r <=> \/ phase[r] \in {"Established", "UpdateFailed"} /\ trackAlias[r] = a
                           \/ Installing(todo, r, a)
  BY DEF SubscriberInv, RouteInv

\* A request that has a route is active.
LEMMA ActiveFacts ==
  ASSUME SubscriberInv, NEW a \in Aliases, routes[a] # None
  PROVE  routes[a] \in RequestIds /\ active[routes[a]]
<1>1. routes[a] \in RequestIds
  BY DEF SubscriberInv, SubscriptionsTypeOK
<1>2. active[routes[a]]
  BY DEF SubscriberInv, RouteInv
<1>3. QED
  BY <1>1, <1>2

\* The alias and the activity of a request.
LEMMA AliasFacts ==
  ASSUME SubscriberInv, NEW r \in RequestIds
  PROVE  /\ phase[r] \in {"none", "Pending"} => trackAlias[r] = None
         /\ phase[r] \in {"Established", "UpdateFailed"} => trackAlias[r] # None
         /\ ~active[r] => phase[r] = "Terminated"
  BY DEF SubscriberInv, RouteInv

\* A request whose SUBSCRIBE_OK is being replayed.
LEMMA InstallingFacts ==
  ASSUME SubscriberInv, NEW r, NEW a, Installing(todo, r, a)
  PROVE  /\ r \in RequestIds /\ r \in sent /\ a \in Aliases
         /\ phase[r] \in {"Pending", "Terminated"} /\ routes[a] = r
<1>1. r \in sent /\ a \in Aliases /\ phase[r] \in {"Pending", "Terminated"}
  BY DEF SubscriberInv, WorkInv, Installing
<1>2. r \in RequestIds
  BY <1>1 DEF SubscriberInv, SubscriptionsTypeOK
<1>3. QED
  BY <1>1, <1>2, RouteFacts

-----------------------------------------------------------------------------
(* How a step changes the work of T. *)

\* From `t` to `u` no marked item is added, and none is lost but the loop of
\* begin_close() for the requests in S and a PUBLISH_DONE.
Carries(t, u, S) ==
  /\ Stack(u)
  /\ \A r, a : Installing(u, r, a) <=> Installing(t, r, a)
  /\ \A r : DoneFor(u, r) => DoneFor(t, r)
  /\ \A r : Ahead(u, r) => Ahead(t, r)
  /\ \A r : Ahead(t, r) /\ r \notin S => Ahead(u, r)

Light(x) == x.op \notin {"installed", "closing", "onDone"}

\* Leaving the work alone carries it.
LEMMA CarriesSame == ASSUME NEW t, Stack(t) PROVE Carries(t, t, {})
  BY DEF Carries

\* Taking off an item that is neither the end of a SUBSCRIBE_OK nor the loop of
\* begin_close() carries the rest.
LEMMA CarriesTail ==
  ASSUME NEW t, Stack(t), t # <<>>, Head(t).op \notin {"installed", "closing"}
  PROVE  Carries(t, Tail(t), {})
<1>1. Stack(Tail(t)) /\ Range(t) = {Head(t)} \cup Range(Tail(t))
  BY PopItem
<1>2. QED
  BY <1>1 DEF Carries, Installing, DoneFor, Ahead

\* Light work may be added on top.
LEMMA CarriesPush ==
  ASSUME NEW t, NEW u, NEW S, Carries(t, u, S), NEW x, Light(x)
  PROVE  Carries(t, <<x>> \o u, S)
<1>1. Stack(<<x>> \o u) /\ Range(<<x>> \o u) = {x} \cup Range(u)
  BY PushItem DEF Carries, Light
<1> DEFINE v == <<x>> \o u
<1> HIDE DEF v
<1>2. Stack(v) /\ Range(v) = {x} \cup Range(u)
  BY <1>1 DEF v
<1>3. Carries(t, v, S)
  BY <1>2 DEF Carries, Light, Installing, DoneFor, Ahead
<1>4. QED
  BY <1>3 DEF v

\* Nothing before a stack is that stack.
LEMMA NoPrefix == ASSUME NEW u, Stack(u) PROVE <<>> \o u = u
  BY ConcatEmptySeq DEF Stack

\* A prefix of at most one light item may be added on top.
LEMMA CarriesPrefix ==
  ASSUME NEW t, NEW u, NEW S, Carries(t, u, S), NEW p, p = <<>> \/ \E x : p = <<x>> /\ Light(x)
  PROVE  Carries(t, p \o u, S)
<1>1. CASE p = <<>>
  BY <1>1, NoPrefix DEF Carries
<1>2. CASE \E x : p = <<x>> /\ Light(x)
  BY <1>2, CarriesPush
<1>3. QED
  BY <1>1, <1>2

\* The prefixes the actions use.
LEMMA LightPrefixes ==
  /\ \A S : ErrorCall(S) = <<>> \/ \E x : ErrorCall(S) = <<x>> /\ Light(x)
  /\ \A q : AheadDatagrams(q) = <<>> \/ \E x : AheadDatagrams(q) = <<x>> /\ Light(x)
  /\ \A r, q : AheadStreams(r, q) = <<>> \/ \E x : AheadStreams(r, q) = <<x>> /\ Light(x)
  /\ \A s, fin : Light(Run(s, fin))
  BY DEF ErrorCall, AheadDatagrams, AheadStreams, Run, Light

\* One round of the loop of begin_close() takes only its own request off.
LEMMA CarriesRound ==
  ASSUME NEW t, Stack(t), t # <<>>, Head(t).op = "closing", NEW r \in Head(t).left
  PROVE  Carries(t, Closing(Head(t).left \ {r}) \o Tail(t), {r})
<1> DEFINE S == Head(t).left \ {r}
           u == Closing(S) \o Tail(t)
<1>1. Stack(Tail(t)) /\ Range(t) = {Head(t)} \cup Range(Tail(t))
  BY PopItem
<1>2. CASE S = {}
  <2>1. u = Tail(t)
    BY <1>1, <1>2, NoPrefix DEF Closing
  <2>2. \A q : Ahead(t, q) /\ q # r => Ahead(Tail(t), q)
    BY <1>1, <1>2 DEF Ahead
  <2>3. QED
    BY Zenon, <1>1, <2>1, <2>2 DEF Carries, Installing, DoneFor, Ahead
<1>3. CASE S # {}
  <2> DEFINE x == [op |-> "closing", left |-> S]
  <2>1. x.op = "closing" /\ x.left = S
    OBVIOUS
  <2>2. u = <<x>> \o Tail(t)
    BY <1>3 DEF Closing
  <2> HIDE DEF x
  <2>3. Stack(<<x>> \o Tail(t)) /\ Range(<<x>> \o Tail(t)) = {x} \cup Range(Tail(t))
    BY <1>1, <2>1, PushItem
  <2> HIDE DEF u
  <2>4. Stack(u) /\ Range(u) = {x} \cup Range(Tail(t))
    BY <2>2, <2>3
  <2>5. Carries(t, u, {r})
    BY <1>1, <2>1, <2>4 DEF Carries, Installing, DoneFor, Ahead
  <2>6. QED
    BY <2>5 DEF u
<1>4. QED
  BY <1>2, <1>3

\* begin_close() on top of `u`.
LEMMA ClosingOnTop ==
  ASSUME NEW t, NEW u, Carries(t, u, {}), NEW S
  PROVE  LET v == Closing(S) \o u IN
         /\ Stack(v)
         /\ \A r, a : Installing(v, r, a) <=> Installing(t, r, a)
         /\ \A r : DoneFor(v, r) => DoneFor(t, r)
         /\ \A r : Ahead(v, r) <=> Ahead(t, r) \/ r \in S
<1> DEFINE v == Closing(S) \o u
<1>1. CASE S = {}
  <2>1. v = u
    BY <1>1, NoPrefix DEF Closing, Carries
  <2>2. QED
    BY Zenon, <1>1, <2>1 DEF Carries
<1>2. CASE S # {}
  <2> DEFINE x == [op |-> "closing", left |-> S]
  <2>1. x.op = "closing" /\ x.left = S
    OBVIOUS
  <2>2. v = <<x>> \o u
    BY <1>2 DEF Closing
  <2> HIDE DEF x
  <2>3. Stack(<<x>> \o u) /\ Range(<<x>> \o u) = {x} \cup Range(u)
    BY <2>1, PushItem DEF Carries
  <2> HIDE DEF v
  <2>4. Stack(v) /\ Range(v) = {x} \cup Range(u)
    BY <2>2, <2>3
  <2>5. /\ \A r, a : Installing(v, r, a) <=> Installing(u, r, a)
        /\ \A r : DoneFor(v, r) <=> DoneFor(u, r)
        /\ \A r : Ahead(v, r) <=> Ahead(u, r) \/ r \in S
    BY <2>1, <2>4 DEF Installing, DoneFor, Ahead
  <2>6. QED
    BY <2>4, <2>5 DEF Carries, v
<1>3. QED
  BY <1>1, <1>2

-----------------------------------------------------------------------------
(* What a step does to the requests, whatever it does to the data plane. *)

coreVars == <<nextRequestId, phase, registered, trackAlias, updates, future, sent, routes, active>>

\* Nothing.
Quiet ==
  /\ UNCHANGED <<session, coreVars>>
  /\ cancelled' \in SUBSET RequestIds
  /\ Carries(todo, todo', RequestIds \ registered)

\* It ends the requests in S; close() from another thread ends all of them.
Ends(S) ==
  /\ S \subseteq registered
  /\ terminate(S)
  /\ session' = session \/ (session' = "Closing" /\ S = registered)
  /\ UNCHANGED <<nextRequestId, trackAlias, sent>>
  /\ cancelled' \in SUBSET RequestIds
  /\ Carries(todo, todo', S)

\* It begins to close the session.
Closes ==
  /\ session' = "Closing"
  /\ UNCHANGED coreVars
  /\ cancelled' \in SUBSET RequestIds
  /\ Stack(todo')
  /\ \A r, a : Installing(todo', r, a) <=> Installing(todo, r, a)
  /\ \A r : DoneFor(todo', r) => DoneFor(todo, r)
  /\ \A r : Ahead(todo', r) <=> Ahead(todo, r) \/ r \in registered

\* WorkInv in terms of what is marked on the stack.
LEMMA WorkForm ==
  WorkInv <=> /\ Stack(todo)
              /\ \A r : Ahead(todo, r) \/ DoneFor(todo, r) => r \in Started
              /\ \A r, a : Installing(todo, r, a) =>
                   r \in sent /\ a \in Aliases /\ phase[r] \in {"Pending", "Terminated"}
  BY DEF WorkInv, Ahead, DoneFor, Installing

\* The same after the step.
LEMMA WorkFormNext ==
  WorkInv' <=> /\ Stack(todo')
               /\ \A r : Ahead(todo', r) \/ DoneFor(todo', r) => r \in Started'
               /\ \A r, a : Installing(todo', r, a) =>
                    r \in sent' /\ a \in Aliases /\ phase'[r] \in {"Pending", "Terminated"}
  BY DEF WorkInv, Ahead, DoneFor, Installing

\* A step that leaves the requests alone keeps the invariant.
LEMMA QuietStep == ASSUME SubscriberInv, Quiet PROVE SubscriberInv'
<1>1. SubscriptionsTypeOK'
  BY DEF SubscriberInv, SubscriptionsTypeOK, Quiet, coreVars
<1>2. RequestInv' /\ FuturesAccounted'
  BY DEF SubscriberInv, RequestInv, FuturesAccounted, Quiet, coreVars, InFlight
<1>3. RouteInv'
  BY DEF SubscriberInv, RouteInv, Quiet, coreVars, Carries
<1>4. WorkInv'
  <2>1. Started' = Started
    BY DEF Quiet, coreVars, Started
  <2>2. QED
    BY <2>1, WorkForm, WorkFormNext DEF SubscriberInv, Quiet, coreVars, Carries
<1>5. ClosingEndsAll'
  BY DEF SubscriberInv, ClosingEndsAll, Quiet, coreVars, Carries
<1>6. QED
  BY <1>1, <1>2, <1>3, <1>4, <1>5 DEF SubscriberInv

\* Beginning to close keeps the invariant: all registered requests are ahead.
LEMMA ClosesStep == ASSUME SubscriberInv, Closes PROVE SubscriberInv'
<1>1. SubscriptionsTypeOK'
  BY DEF SubscriberInv, SubscriptionsTypeOK, Closes, coreVars, SessionPhases
<1>2. RequestInv' /\ FuturesAccounted'
  BY DEF SubscriberInv, RequestInv, FuturesAccounted, Closes, coreVars, InFlight
<1>3. RouteInv'
  BY DEF SubscriberInv, RouteInv, Closes, coreVars
<1>4. WorkInv'
  <2>1. Started' = Started /\ registered \subseteq Started
    BY Zenon DEF SubscriberInv, SubscriptionsTypeOK, RequestInv, Closes, coreVars, Started, Live
  <2>2. QED
    BY <2>1, WorkForm, WorkFormNext DEF SubscriberInv, Closes, coreVars
<1>5. ClosingEndsAll'
  BY DEF ClosingEndsAll, Closes, coreVars
<1>6. QED
  BY <1>1, <1>2, <1>3, <1>4, <1>5 DEF SubscriberInv

\* Ending requests keeps the invariant: their futures are settled, their routes
\* retired, and no other request is touched.
LEMMA EndsStep == ASSUME SubscriberInv, NEW S, Ends(S) PROVE SubscriberInv'
<1> USE DEF Ends, terminate
<1> DEFINE A == {trackAlias[r] : r \in S} \ {None}
<1>1. S \subseteq RequestIds /\ \A r \in S : phase[r] \in Live
  BY DEF SubscriberInv, SubscriptionsTypeOK, RequestInv
<1>2. SubscriptionsTypeOK'
  <2>1. <<>> \in Seq(RequestIds)
    OBVIOUS
  <2>2. updates' \in [RequestIds -> Seq(RequestIds)]
    BY <2>1 DEF SubscriberInv, SubscriptionsTypeOK
  <2>3. QED
    BY <2>2 DEF SubscriberInv, SubscriptionsTypeOK, SessionPhases, retire_routes
<1>3. \A r \in RequestIds : InFlight(r)' = IF r \in S THEN {} ELSE InFlight(r)
  BY Zenon, EmptyStack DEF InFlight
<1>4. RequestInv'
  <2>1. ASSUME NEW r \in RequestIds
        PROVE  /\ (r \in registered <=> phase[r] \in Live)'
               /\ (r >= nextRequestId => phase[r] = "none" /\ future[r] = "none")'
               /\ (r \in sent => phase[r] # "none")'
               /\ (updates[r] # <<>> => phase[r] = "Established")'
               /\ Distinct(updates'[r])
    <3>1. /\ phase'[r] = IF r \in S THEN "Terminated" ELSE phase[r]
          /\ updates'[r] = IF r \in S THEN <<>> ELSE updates[r]
          /\ future[r] = "none" => future'[r] = "none"
          /\ registered' = registered \ S
      BY Zenon
    <3>2. nextRequestId' = nextRequestId /\ sent' = sent /\ Distinct(<<>>)
      BY Zenon, EmptyDistinct
    <3> HIDE DEF Ends, terminate
    <3>3. r \in S => r < nextRequestId \/ ~(r >= nextRequestId)
      BY <1>1, PhaseFacts DEF Live
    <3>4. QED
      BY <1>1, <3>1, <3>2, PhaseFacts, QueueFacts DEF Live
  <2>2. ASSUME NEW r \in RequestIds, NEW u \in InFlight(r)'
        PROVE  u < nextRequestId' /\ phase'[u] = "none"
    <3>1. r \notin S /\ u \in InFlight(r)
      BY <1>3
    <3>2. u \in RequestIds /\ u < nextRequestId /\ phase[u] = "none"
      BY <3>1, InFlightFacts
    <3>3. QED
      BY <3>2, <1>1 DEF Live
  <2>3. ASSUME NEW r \in RequestIds, NEW q \in RequestIds, q # r
        PROVE  InFlight(r)' \cap InFlight(q)' = {}
    BY <1>3, <2>3 DEF SubscriberInv, RequestInv
  <2>4. nextRequestId' % 2 = 0
    BY DEF SubscriberInv, RequestInv
  <2> HIDE DEF Ends, terminate
  <2>5. QED
    BY Zenon, <2>1, <2>2, <2>3, <2>4 DEF RequestInv
<1>5. FuturesAccounted'
  <2>1. \A id \in RequestIds : id \in Owed(S) <=> id \in S \/ \E r \in S : id \in InFlight(r)
    BY DEF Owed
  <2> SUFFICES ASSUME NEW id \in RequestIds
               PROVE  future'[id] = "pending" <=>
                        \/ id \in sent /\ phase'[id] = "Pending"
                        \/ \E r \in registered' : id \in InFlight(r)'
    BY DEF FuturesAccounted
  <2>2. future'[id] = "pending" <=> future[id] = "pending" /\ id \notin Owed(S)
    BY DEF SubscriberInv, SubscriptionsTypeOK
  <2>3. future[id] = "pending" <=> \/ id \in sent /\ phase[id] = "Pending"
                                   \/ \E r \in registered : id \in InFlight(r)
    BY DEF SubscriberInv, FuturesAccounted
  <2>4. registered \subseteq RequestIds
    BY DEF SubscriberInv, SubscriptionsTypeOK
  <2>5. \A r, q \in RequestIds : id \in InFlight(r) /\ id \in InFlight(q) => r = q
    BY DEF SubscriberInv, RequestInv
  <2>6. \A r \in RequestIds : id \in InFlight(r) => phase[id] = "none"
    BY InFlightFacts
  <2>7. phase'[id] = "Pending" <=> phase[id] = "Pending" /\ id \notin S
    OBVIOUS
  <2>8. (\E r \in registered' : id \in InFlight(r)') <=> \E r \in registered \ S : id \in InFlight(r)
    BY <1>3, <2>4
  <2>9. id \in S => phase[id] # "none"
    BY <1>1 DEF Live
  <2>10. QED
    BY <1>1, <2>1, <2>2, <2>3, <2>4, <2>5, <2>6, <2>7, <2>8, <2>9
<1>6. \A a \in A : a \in Aliases /\ routes[a] \in S /\ trackAlias[routes[a]] = a
  <2> SUFFICES ASSUME NEW r \in S, trackAlias[r] # None
               PROVE  trackAlias[r] \in Aliases /\ routes[trackAlias[r]] = r
    OBVIOUS
  <2>1. r \in RequestIds /\ trackAlias[r] \in Aliases /\ phase[r] \in {"Established", "UpdateFailed"}
    <3> HIDE DEF Ends, terminate
    <3>1. r \in RequestIds /\ phase[r] \in Live
      BY <1>1
    <3>2. trackAlias[r] \in Aliases
      BY <3>1 DEF SubscriberInv, SubscriptionsTypeOK
    <3>3. QED
      BY <3>1, <3>2, AliasFacts DEF Live
  <2>2. QED
    BY <2>1 DEF SubscriberInv, RouteInv
<1>7. RouteInv'
  <2>1. ASSUME NEW r \in RequestIds
        PROVE  /\ (phase[r] \in {"none", "Pending"} => trackAlias[r] = None)'
               /\ (phase[r] \in {"Established", "UpdateFailed"} => trackAlias[r] # None)'
               /\ (~active[r] => phase[r] = "Terminated")'
    <3>1. phase'[r] = IF r \in S THEN "Terminated" ELSE phase[r]
      OBVIOUS
    <3>2. r \notin S => active'[r] = active[r]
      BY <1>6 DEF retire_routes, SubscriberInv, SubscriptionsTypeOK
    <3>3. QED
      BY <3>1, <3>2 DEF SubscriberInv, RouteInv
  <2>2. ASSUME NEW r \in RequestIds, NEW a \in Aliases
        PROVE  routes'[a] = r <=>
                 \/ phase'[r] \in {"Established", "UpdateFailed"} /\ trackAlias'[r] = a
                 \/ Installing(todo', r, a)
    <3>1. routes'[a] = IF a \in A THEN None ELSE routes[a]
      BY DEF retire_routes
    <3>2. Installing(todo', r, a) <=> Installing(todo, r, a)
      BY DEF Carries
    <3>3. Installing(todo, r, a) => phase[r] \in {"Pending", "Terminated"}
      BY WorkForm DEF SubscriberInv
    <3>4. routes[a] = r <=> \/ phase[r] \in {"Established", "UpdateFailed"} /\ trackAlias[r] = a
                            \/ Installing(todo, r, a)
      BY RouteFacts
    <3>5. phase'[r] = IF r \in S THEN "Terminated" ELSE phase[r]
      OBVIOUS
    <3>6. None # r /\ None # a
      BY NoneAssumption
    <3>7. phase[r] = "Pending" => trackAlias[r] = None
      BY AliasFacts
    <3>8. CASE a \in A
      <4>1. routes[a] \in S /\ trackAlias[routes[a]] = a /\ phase[routes[a]] \in Live
        BY <3>8, <1>1, <1>6
      <4>2. QED
        BY <4>1, <3>1, <3>2, <3>3, <3>4, <3>5, <3>6, <3>7, <3>8 DEF Live
    <3>9. CASE a \notin A
      <4>1. r \in S => trackAlias[r] # a
        BY <3>6, <3>9
      <4>2. QED
        BY <4>1, <3>1, <3>2, <3>3, <3>4, <3>5, <3>9
    <3>10. QED
      BY <3>8, <3>9
  <2>3. ASSUME NEW a \in Aliases, routes'[a] # None
        PROVE  active'[routes'[a]]
    <3>1. a \notin A /\ routes'[a] = routes[a] /\ routes[a] \in RequestIds
      BY <2>3 DEF retire_routes, SubscriberInv, SubscriptionsTypeOK
    <3>2. active[routes[a]]
      BY <2>3, <3>1 DEF SubscriberInv, RouteInv
    <3>3. ASSUME NEW b \in A, routes[b] = routes[a]
          PROVE  FALSE
      <4>1. b \in Aliases /\ routes[a] \in S /\ trackAlias[routes[a]] = b
        BY <1>6, <3>3
      <4>2. phase[routes[a]] \in Live /\ routes[a] # None
        BY <4>1, <1>1, <2>3, <3>1
      <4>3. phase[routes[a]] # "Pending"
        BY Zenon, <4>1, <3>1, <3>3 DEF SubscriberInv, RouteInv
      <4>4. ~Installing(todo, routes[a], a)
        BY Zenon, <4>2, <4>3, WorkForm DEF SubscriberInv, Live
      <4>5. trackAlias[routes[a]] = a
        BY <4>4, <3>1 DEF SubscriberInv, RouteInv
      <4>6. QED
        BY <4>1, <4>5, <3>1
    <3>4. QED
      BY Zenon, <3>1, <3>2, <3>3 DEF retire_routes
  <2>4. QED
    BY <2>1, <2>2, <2>3 DEF RouteInv
<1>8. WorkInv'
  <2>1. Started \subseteq Started'
    BY DEF Started
  <2>2. \A r, a : Installing(todo, r, a) => r \in RequestIds
    BY Zenon, WorkForm DEF SubscriberInv, SubscriptionsTypeOK
  <2>3. QED
    BY Zenon, <2>1, <2>2, WorkForm, WorkFormNext DEF SubscriberInv, Carries
<1>9. ClosingEndsAll'
  BY Zenon DEF SubscriberInv, ClosingEndsAll, Carries
<1>10. QED
  BY <1>2, <1>4, <1>5, <1>7, <1>8, <1>9 DEF SubscriberInv

Effect == Quiet \/ Closes \/ \E S : Ends(S)

\* So does any of the three.
LEMMA EffectStep == SubscriberInv /\ Effect => SubscriberInv'
  BY QuietStep, ClosesStep, EndsStep DEF Effect

\* Carries is monotonic in the requests that may be dropped from the loop.
LEMMA CarriesMore ==
  ASSUME NEW t, NEW u, NEW S, NEW T, S \subseteq T, Carries(t, u, S) PROVE Carries(t, u, T)
  BY DEF Carries

\* The facts about types the effects below need.
LEMMA TypeOfCancelled ==
  ASSUME SubscriberInv
  PROVE  /\ cancelled \in SUBSET RequestIds
         /\ \A r \in registered : cancelled \cup {r} \in SUBSET RequestIds
         /\ Stack(todo)
  BY DEF SubscriberInv, SubscriptionsTypeOK, WorkInv

\* Nothing happens to the requests, and T goes on with `rest`.
LEMMA GoEffect ==
  ASSUME SubscriberInv, NEW rest, NEW lock, Carries(todo, rest, {}),
         Go(rest, lock), UNCHANGED <<session, requestVars, routeVars>>
  PROVE  Effect
  BY TypeOfCancelled, CarriesMore DEF Go, Effect, Quiet, coreVars, requestVars, routeVars

\* A step that changes neither the requests nor the work of T is quiet.
LEMMA StillEffect ==
  ASSUME SubscriberInv, UNCHANGED <<session, requestVars, routeVars, threadVars>>
  PROVE  Effect
  BY TypeOfCancelled, CarriesSame, CarriesMore DEF Effect, Quiet, coreVars, requestVars, routeVars, threadVars

\* The request r ends, and T goes on with `rest`.
LEMMA EndEffect ==
  ASSUME SubscriberInv, NEW r \in registered, terminate({r}), Carries(todo, todo', {r}),
         UNCHANGED <<session, nextRequestId, trackAlias, sent>>,
         cancelled' = cancelled \/ cancelled' = cancelled \cup {r}
  PROVE  Effect
<1>1. Ends({r})
  BY TypeOfCancelled DEF Ends
<1>2. QED
  BY <1>1 DEF Effect

\* Session::begin_close() before `rest`, the second call included.
LEMMA CloseEffect ==
  ASSUME SubscriberInv, NEW rest, NEW lock, Carries(todo, rest, {}), CloseSession(rest, lock)
  PROVE  Effect
<1>1. CASE session \in {"Closing", "Closed"} /\ Go(rest, lock) /\ UNCHANGED session
  BY <1>1, GoEffect DEF CloseSession
<1>2. CASE session' = "Closing" /\ Go(Closing(terminate_subscriptions) \o rest, lock)
  <2>1. todo' = Closing(registered) \o rest
    BY <1>2 DEF Go, terminate_subscriptions
  <2>2. Closes
    BY <1>2, <2>1, ClosingOnTop, TypeOfCancelled DEF Closes, CloseSession, coreVars, requestVars, routeVars
  <2>3. QED
    BY <2>2 DEF Effect
<1>3. QED
  BY <1>1, <1>2 DEF CloseSession

\* deliver() is quiet or ends the request whose track is malformed.
LEMMA DeliverEffect ==
  ASSUME SubscriberInv, NEW o, NEW finals, NEW rest, NEW lock, Carries(todo, rest, {}),
         deliver(o, finals, rest, lock)
  PROVE  Effect
<1>1. CASE Go(rest, lock) /\ UNCHANGED <<session, requestVars, routeVars>>
  BY <1>1, GoEffect
<1>2. CASE TrackError(o.request, rest, lock)
  <2> DEFINE r == o.request
  <2>1. CASE r \in registered /\ stop_subscription_now(r) /\ Go(ErrorCall({r}) \o rest, lock)
    <3>1. Carries(todo, todo', {r})
      BY <2>1, LightPrefixes, CarriesPrefix, CarriesMore DEF Go
    <3>2. QED
      BY <2>1, <3>1, <1>2, EndEffect DEF TrackError, stop_subscription_now
  <2>2. CASE Go(rest, lock) /\ UNCHANGED <<phase, registered, updates, future, cancelled, routeVars>>
    BY <2>2, <1>2, GoEffect DEF TrackError, requestVars
  <2>3. QED
    BY <1>2, <2>1, <2>2 DEF TrackError
<1>3. CASE Go(<<[op |-> "object", object |-> o]>> \o rest, lock) /\ UNCHANGED <<session, requestVars, routeVars>>
  <2>1. Light([op |-> "object", object |-> o])
    BY DEF Light
  <2>2. QED
    BY <1>3, <2>1, CarriesPush, GoEffect
<1>4. QED
  BY Zenon, <1>1, <1>2, <1>3 DEF deliver

-----------------------------------------------------------------------------
(* The steps that go through these effects. *)

\* Between callbacks there is no work to carry.
LEMMA IdleCarries == ASSUME SubscriberInv, Idle PROVE Carries(todo, <<>>, {})
  BY EmptyStack, CarriesSame DEF Idle

\* Terminate() of a callback that handles a response ends one request.
LEMMA TerminateEffect ==
  ASSUME SubscriberInv, Idle, NEW r \in registered, Terminate(r)
  PROVE  Effect
<1>1. Stack(<<>>) /\ Carries(todo, <<>>, {})
  BY IdleCarries, EmptyStack
<1>2. ErrorCall({r}) = ErrorCall({r}) \o <<>>
  BY ConcatEmptySeq DEF ErrorCall
<1>3. Carries(todo, ErrorCall({r}), {r})
  BY Zenon, <1>1, <1>2, LightPrefixes, CarriesPrefix, CarriesMore
<1>4. QED
  BY <1>3, EndEffect DEF Terminate, Go

\* A response finds its request registered and T between callbacks.
LEMMA ResponseRegistered ==
  ASSUME SubscriberInv, NEW r \in RequestIds, Response(r)
  PROVE  r \in registered /\ Idle
  BY DEF Response, SubscriberInv, RequestInv

\* stop_subscription() and the responses that end a request.
LEMMA EndingSteps ==
  ASSUME SubscriberInv, NEW r \in RequestIds,
         stop_subscription(r) \/ BadResponse(r) \/ StreamLost(r) \/ SubscribeRejected(r)
  PROVE  Effect
<1>1. CASE stop_subscription(r)
  <2>1. Carries(todo, todo', {r})
    BY <1>1, TypeOfCancelled, CarriesSame, CarriesMore DEF stop_subscription, threadVars
  <2>2. QED
    BY <1>1, <2>1, EndEffect DEF stop_subscription, stop_subscription_now
<1>2. CASE BadResponse(r)
  BY <1>2, ResponseRegistered, TerminateEffect DEF BadResponse
<1>3. CASE StreamLost(r)
  BY <1>3, TerminateEffect DEF StreamLost
<1>4. CASE SubscribeRejected(r)
  <2>1. Carries(todo, todo', {r})
    BY <1>4, TypeOfCancelled, CarriesSame, CarriesMore DEF SubscribeRejected, threadVars
  <2>2. QED
    BY <1>4, <2>1, ResponseRegistered, EndEffect DEF SubscribeRejected
<1>5. QED
  BY <1>1, <1>2, <1>3, <1>4

\* An unexpected response type is quiet or closes the session.
LEMMA UnknownResponseEffect ==
  ASSUME SubscriberInv, NEW r \in RequestIds, UnknownResponse(r) PROVE Effect
<1>1. Carries(todo, <<>>, {}) /\ ErrorCall({r}) = ErrorCall({r}) \o <<>>
  BY ResponseRegistered, IdleCarries, ConcatEmptySeq DEF UnknownResponse, ErrorCall
<1>2. Carries(todo, ErrorCall({r}), {})
  BY Zenon, <1>1, LightPrefixes, CarriesPrefix
<1>3. QED
  BY Zenon, <1>2, GoEffect DEF UnknownResponse

\* close() on T or on another thread, and a session error.
LEMMA ClosingSteps == ASSUME SubscriberInv, close \/ SessionError PROVE Effect
<1>1. CASE CloseHere
  BY <1>1, TypeOfCancelled, CarriesSame, CloseEffect DEF CloseHere
<1>2. CASE CloseElsewhere
  <2>1. Carries(todo, todo', registered)
    BY <1>2, TypeOfCancelled, CarriesSame, CarriesMore DEF CloseElsewhere, threadVars
  <2>2. Ends(registered)
    BY <1>2, <2>1, TypeOfCancelled DEF CloseElsewhere, Ends, terminate_subscriptions
  <2>3. QED
    BY <2>2 DEF Effect
<1>3. CASE SessionError
  BY Zenon, <1>3, IdleCarries, CloseEffect DEF SessionError
<1>4. QED
  BY <1>1, <1>2, <1>3 DEF close

\* The item on top of the stack is done with, and is not the loop of
\* begin_close() nor the end of a SUBSCRIBE_OK.
LEMMA PopCarries ==
  ASSUME SubscriberInv, ~Idle, Head(todo).op \notin {"installed", "closing"}
  PROVE  Carries(todo, Tail(todo), {})
  BY TypeOfCancelled, CarriesTail DEF Idle

\* The returns of on_publish_done() and on_error(), and the next round of
\* terminate_subscriptions().
LEMMA ReturnSteps ==
  ASSUME SubscriberInv, PublishDoneReturns \/ OnErrorReturns \/ TerminateNext PROVE Effect
<1>1. CASE PublishDoneReturns
  <2> DEFINE r == Head(todo).request
  <2>1. Carries(todo, Tail(todo), {}) /\ todo' = Tail(todo) /\ todo # <<>>
    BY <1>1, PopCarries DEF PublishDoneReturns, Go, Idle
  <2>2. CASE UNCHANGED <<phase, registered, updates, future, routeVars>>
    BY <1>1, <2>1, <2>2, GoEffect DEF PublishDoneReturns, requestVars
  <2>3. CASE phase[r] # "Terminated" /\ terminate({r})
    <3>1. DoneFor(todo, r)
      <4>1. Head(todo) \in Range(todo)
        BY <2>1, TypeOfCancelled, PopItem
      <4>2. QED
        BY <1>1, <4>1 DEF PublishDoneReturns, DoneFor
    <3>2. r \in RequestIds /\ phase[r] # "none"
      BY <3>1, WorkForm DEF SubscriberInv, Started
    <3>3. r \in registered
      BY <2>3, <3>2 DEF SubscriberInv, RequestInv, SubscriptionsTypeOK
    <3>4. QED
      BY <1>1, <2>1, <2>3, <3>3, CarriesMore, EndEffect DEF PublishDoneReturns
  <2>4. QED
    BY <1>1, <2>2, <2>3 DEF PublishDoneReturns
<1>2. CASE OnErrorReturns
  BY <1>2, PopCarries, GoEffect DEF OnErrorReturns
<1>3. CASE TerminateNext
  <2>1. PICK r \in Head(todo).left :
          LET rest == Closing(Head(todo).left \ {r}) \o Tail(todo) IN
          \/ /\ phase[r] = "Terminated"
             /\ Go(rest, locked)
             /\ UNCHANGED <<phase, registered, updates, future, routeVars>>
          \/ /\ phase[r] # "Terminated"
             /\ terminate({r})
             /\ Go(ErrorCall({r}) \o rest, locked)
    BY Zenon, <1>3 DEF TerminateNext
  <2> DEFINE rest == Closing(Head(todo).left \ {r}) \o Tail(todo)
  <2>2. todo # <<>> /\ Head(todo).op = "closing"
    BY <1>3 DEF TerminateNext, Idle
  <2>3. Carries(todo, rest, {r})
    BY Zenon, <2>2, TypeOfCancelled, CarriesRound
  <2>4. r \in RequestIds /\ phase[r] # "none"
    <3>1. Head(todo) \in Range(todo)
      BY <2>2, TypeOfCancelled, PopItem
    <3>2. Ahead(todo, r)
      BY <3>1, <2>2 DEF Ahead
    <3>3. QED
      BY <3>2, WorkForm DEF SubscriberInv, Started
  <2> HIDE DEF rest
  <2>5. CASE phase[r] = "Terminated" /\ Go(rest, locked) /\ UNCHANGED <<phase, registered, updates, future, routeVars>>
    <3>1. r \notin registered
      BY <2>4, <2>5 DEF SubscriberInv, RequestInv, Live
    <3>2. Carries(todo, todo', RequestIds \ registered)
      BY <2>3, <2>4, <2>5, <3>1, CarriesMore DEF Go
    <3>3. Quiet
      BY Zenon, <1>3, <2>5, <3>2, TypeOfCancelled DEF TerminateNext, Quiet, coreVars, routeVars
    <3>4. QED
      BY <3>3 DEF Effect
  <2>6. CASE phase[r] # "Terminated" /\ terminate({r}) /\ Go(ErrorCall({r}) \o rest, locked)
    <3>1. r \in registered
      BY <2>4, <2>6 DEF SubscriberInv, RequestInv, SubscriptionsTypeOK
    <3>2. Carries(todo, todo', {r})
      BY <2>3, <2>6, LightPrefixes, CarriesPrefix DEF Go
    <3>3. QED
      BY Zenon, <1>3, <2>6, <3>1, <3>2, EndEffect DEF TerminateNext
  <2>7. QED
    BY <2>1, <2>5, <2>6 DEF rest
<1>4. QED
  BY <1>1, <1>2, <1>3

\* A datagram for a route is delivered or ends its request.
LEMMA RoutedDatagramEffect ==
  ASSUME SubscriberInv, NEW d, NEW rest, NEW lock, Carries(todo, rest, {}), RoutedDatagram(d, rest, lock)
  PROVE  Effect
  BY Zenon, CloseEffect, DeliverEffect DEF RoutedDatagram

\* Datagrams, as they arrive and as a SUBSCRIBE_OK replays them.
LEMMA DatagramSteps ==
  ASSUME SubscriberInv, DatagramStep \/ ReplayDatagram PROVE Effect
<1>1. ASSUME NEW d \in Datagrams, Datagram(d) PROVE Effect
  <2>1. Carries(todo, <<>>, {})
    BY <1>1, IdleCarries DEF Datagram
  <2>2. QED
    BY Zenon, <1>1, <2>1, CloseEffect, RoutedDatagramEffect, StillEffect DEF Datagram
<1>2. CASE ReplayDatagram
  <2> DEFINE d == Head(Head(todo).left)
             rest == AheadDatagrams(Tail(Head(todo).left)) \o Tail(todo)
  <2>1. Carries(todo, rest, {})
    BY Zenon, <1>2, PopCarries, LightPrefixes, CarriesPrefix DEF ReplayDatagram
  <2>2. \/ RoutedDatagram(d, rest, locked)
        \/ Go(rest, locked) /\ UNCHANGED <<session, requestVars, routeVars>>
    BY Zenon, <1>2 DEF ReplayDatagram
  <2> HIDE DEF d, rest
  <2>3. QED
    BY <2>1, <2>2, RoutedDatagramEffect, GoEffect
<1>3. QED
  BY <1>1, <1>2 DEF DatagramStep

\* The call of on_object() and its return.
LEMMA HandlerSteps ==
  ASSUME SubscriberInv, OnObject \/ OnObjectReturns PROVE Effect
<1>1. CASE OnObject
  <2>1. Carries(todo, Tail(todo), {}) /\ Light([op |-> "handler"])
    BY <1>1, PopCarries DEF OnObject, Light
  <2>2. Carries(todo, <<[op |-> "handler"]>> \o Tail(todo), {})
    BY <2>1, CarriesPush
  <2>3. QED
    BY Zenon, <1>1, <2>2, GoEffect DEF OnObject
<1>2. CASE OnObjectReturns
  BY <1>2, PopCarries, GoEffect DEF OnObjectReturns
<1>3. QED
  BY <1>1, <1>2

\* The loop over the objects of a stream, and the start of a parked one.
LEMMA RunSteps ==
  ASSUME SubscriberInv, RunObject \/ RunFails \/ RunEnds \/ Establish PROVE Effect
<1>1. CASE RunObject
  <2>1. Carries(todo, todo, {})
    BY TypeOfCancelled, CarriesSame
  <2>2. \E o, finals : deliver(o, finals, todo, locked)
    BY <1>1 DEF RunObject
  <2>3. QED
    BY <2>1, <2>2, DeliverEffect
<1>2. CASE RunFails
  BY Zenon, <1>2, PopCarries, CloseEffect DEF RunFails
<1>3. CASE RunEnds
  BY Zenon, <1>3, PopCarries, GoEffect DEF RunEnds
<1>4. CASE Establish
  <2> DEFINE r == Head(todo).request
             rest == AheadStreams(r, Tail(Head(todo).left)) \o Tail(todo)
  <2>1. Carries(todo, rest, {})
    BY <1>4, PopCarries, LightPrefixes, CarriesPrefix DEF Establish
  <2>2. PICK item : Light(item) /\ (Go(rest, locked) \/ Go(<<item>> \o rest, locked))
    BY Zenon, <1>4, LightPrefixes DEF Establish
  <2> HIDE DEF rest
  <2>3. UNCHANGED <<session, requestVars, routeVars>>
    BY <1>4 DEF Establish
  <2>4. Carries(todo, <<item>> \o rest, {})
    BY <2>1, <2>2, CarriesPush
  <2>5. QED
    BY <2>1, <2>2, <2>3, <2>4, GoEffect
<1>5. QED
  BY <1>1, <1>2, <1>3, <1>4

\* Bytes, FIN and RESET_STREAM of a data stream.
LEMMA StreamSteps == ASSUME SubscriberInv, StreamStep PROVE Effect
<1>1. ASSUME NEW s \in Streams, NEW k, NEW fin, Receive(s, k, fin) PROVE Effect
  <2>1. Carries(todo, <<>>, {})
    BY <1>1, IdleCarries DEF Receive
  <2>2. <<Run(s, fin)>> = <<Run(s, fin)>> \o <<>>
    OBVIOUS
  <2>3. Carries(todo, <<Run(s, fin)>> \o <<>>, {})
    BY Zenon, <2>1, LightPrefixes, CarriesPush
  <2>4. Carries(todo, <<Run(s, fin)>>, {})
    BY <2>2, <2>3
  <2>5. \/ \E lock : CloseSession(<<>>, lock)
        \/ (\E lock : Go(<<Run(s, fin)>>, lock)) /\ UNCHANGED <<session, requestVars, routeVars>>
        \/ UNCHANGED <<session, requestVars, routeVars, threadVars>>
    BY <1>1 DEF Receive, HeaderComplete, NoSessionChange
  <2>6. QED
    BY <2>1, <2>4, <2>5, CloseEffect, GoEffect, StillEffect
<1>2. ASSUME NEW s \in Streams, Reset(s) PROVE Effect
  BY <1>2, StillEffect DEF Reset
<1>3. QED
  BY <1>1, <1>2 DEF StreamStep

-----------------------------------------------------------------------------
(* The steps with an effect of their own. *)

\* The end of the SETUP exchange keeps the invariant.
LEMMA SetupDoneStep == ASSUME SubscriberInv, SetupDone PROVE SubscriberInv'
<1> USE DEF SetupDone, requestVars, routeVars, threadVars
<1>1. SubscriptionsTypeOK'
  BY DEF SubscriberInv, SubscriptionsTypeOK, SessionPhases
<1>2. RequestInv' /\ FuturesAccounted'
  BY Zenon DEF SubscriberInv, RequestInv, FuturesAccounted, InFlight
<1>3. RouteInv' /\ WorkInv' /\ ClosingEndsAll'
  <2>1. RouteInv'
    BY Zenon DEF SubscriberInv, RouteInv
  <2>2. WorkInv'
    BY DEF SubscriberInv, WorkInv, Started
  <2>3. ClosingEndsAll'
    BY DEF SubscriberInv, ClosingEndsAll
  <2>4. QED
    BY <2>1, <2>2, <2>3
<1>4. QED
  BY <1>1, <1>2, <1>3 DEF SubscriberInv

\* SHUTDOWN_COMPLETE keeps the invariant.
LEMMA ShutdownCompleteStep == ASSUME SubscriberInv, ShutdownComplete PROVE SubscriberInv'
<1> USE DEF ShutdownComplete, requestVars, routeVars, threadVars
<1>1. SubscriptionsTypeOK'
  BY DEF SubscriberInv, SubscriptionsTypeOK, SessionPhases
<1>2. RequestInv' /\ FuturesAccounted'
  BY Zenon DEF SubscriberInv, RequestInv, FuturesAccounted, InFlight
<1>3. RouteInv' /\ WorkInv' /\ ClosingEndsAll'
  <2>1. RouteInv'
    BY Zenon DEF SubscriberInv, RouteInv
  <2>2. WorkInv'
    BY DEF SubscriberInv, WorkInv, Started
  <2>3. ClosingEndsAll'
    BY DEF SubscriberInv, ClosingEndsAll
  <2>4. QED
    BY <2>1, <2>2, <2>3
<1>4. QED
  BY <1>1, <1>2, <1>3 DEF SubscriberInv

\* The ID that is given out next has never been used.
LEMMA NextIsFresh ==
  ASSUME SubscriberInv, AllocateRequestId
  PROVE  LET r == nextRequestId IN
         /\ r \in RequestIds /\ r \in Nat /\ nextRequestId' = r + 2 /\ nextRequestId' % 2 = 0
         /\ phase[r] = "none" /\ future[r] = "none" /\ trackAlias[r] = None /\ active[r]
         /\ r \notin registered /\ r \notin sent /\ updates[r] = <<>> /\ InFlight(r) = {}
         /\ \A q \in RequestIds : r \notin InFlight(q)
         /\ \A a \in Aliases : routes[a] # r
         /\ \A a : ~Installing(todo, r, a)
<1> DEFINE r == nextRequestId
<1>1. r \in Nat /\ r % 2 = 0 /\ r + 2 <= MaxRequestId /\ nextRequestId' = r + 2
  BY DEF SubscriberInv, SubscriptionsTypeOK, RequestInv, AllocateRequestId, CanAllocate
<1>2. r \in RequestIds /\ nextRequestId' % 2 = 0
  BY <1>1, RequestIdAssumption DEF RequestIds
<1>3. phase[r] = "none" /\ future[r] = "none"
  BY <1>1, <1>2, PhaseFacts
<1>4. r \notin registered /\ r \notin sent /\ updates[r] = <<>>
  BY <1>2, <1>3, PhaseFacts, QueueFacts DEF Live
<1>5. InFlight(r) = {}
  BY <1>4, EmptyStack DEF InFlight
<1>6. trackAlias[r] = None /\ active[r]
  BY <1>2, <1>3, AliasFacts
<1>7. \A q \in RequestIds : r \notin InFlight(q)
  BY <1>1, InFlightFacts
<1>8. \A a : ~Installing(todo, r, a)
  BY <1>4, WorkForm DEF SubscriberInv
<1>9. \A a \in Aliases : routes[a] # r
  BY <1>2, <1>3, <1>8, RouteFacts
<1>10. QED
  BY <1>1, <1>2, <1>3, <1>4, <1>5, <1>6, <1>7, <1>8, <1>9

\* subscribe() keeps the invariant, whichever of its calls fails.
LEMMA SubscribeStep ==
  ASSUME SubscriberInv, NEW outcome \in {"openThrows", "encodeThrows", "sendFails", "sent"},
         subscribe(outcome)
  PROVE  SubscriberInv'
<1> DEFINE r == nextRequestId
<1> USE DEF subscribe, routeVars, threadVars
<1>1. /\ r \in RequestIds /\ r \in Nat /\ nextRequestId' = r + 2 /\ nextRequestId' % 2 = 0
      /\ phase[r] = "none" /\ future[r] = "none" /\ trackAlias[r] = None /\ active[r]
      /\ r \notin registered /\ r \notin sent /\ updates[r] = <<>> /\ InFlight(r) = {}
      /\ \A q \in RequestIds : r \notin InFlight(q)
      /\ \A a \in Aliases : routes[a] # r
      /\ \A a : ~Installing(todo, r, a)
  BY NextIsFresh
<1>2. SubscriptionsTypeOK'
  <2>1. nextRequestId' \in Nat /\ phase' \in [RequestIds -> Live \cup {"none", "Terminated"}]
    BY <1>1 DEF SubscriberInv, SubscriptionsTypeOK, Live
  <2>2. registered' \in SUBSET RequestIds /\ sent' \in SUBSET RequestIds
    BY <1>1 DEF SubscriberInv, SubscriptionsTypeOK
  <2>3. future' \in [RequestIds -> {"none", "pending", "ok", "failed"}]
    BY <1>1 DEF SubscriberInv, SubscriptionsTypeOK
  <2>4. QED
    BY <2>1, <2>2, <2>3 DEF SubscriberInv, SubscriptionsTypeOK
<1>3. \A q \in RequestIds : q # r =>
        /\ phase'[q] = phase[q] /\ future'[q] = future[q]
        /\ q \in registered' <=> q \in registered
        /\ q \in sent' <=> q \in sent
  BY <1>1 DEF SubscriberInv, SubscriptionsTypeOK
<1>4. /\ r \in registered' <=> phase'[r] = "Pending"
      /\ r \in sent' => phase'[r] = "Pending" /\ future'[r] = "pending"
      /\ future'[r] = "pending" => r \in sent'
      /\ phase'[r] \in {"none", "Pending", "Terminated"}
  BY <1>1 DEF SubscriberInv, SubscriptionsTypeOK
<1>5. \A q \in RequestIds : InFlight(q)' = InFlight(q)
  BY DEF InFlight
<1>6. RequestInv'
  <2>1. ASSUME NEW q \in RequestIds
        PROVE  /\ q \in registered' <=> phase'[q] \in Live
               /\ q \in sent' => phase'[q] # "none"
               /\ updates'[q] # <<>> => phase'[q] = "Established"
    BY <1>1, <1>3, <1>4 DEF SubscriberInv, RequestInv, Live
  <2>2. ASSUME NEW q \in RequestIds, q >= nextRequestId'
        PROVE  phase'[q] = "none" /\ future'[q] = "none"
    <3>1. q # r /\ q >= r
      BY <1>1, <2>2 DEF RequestIds
    <3>2. QED
      BY <3>1, <1>3 DEF SubscriberInv, RequestInv
  <2>3. ASSUME NEW q \in RequestIds, NEW u \in InFlight(q)
        PROVE  u < nextRequestId' /\ phase'[u] = "none"
    <3>1. u \in RequestIds /\ u < r /\ phase[u] = "none" /\ u # r
      BY <1>1, <2>3 DEF SubscriberInv, SubscriptionsTypeOK, RequestInv, InFlight, Range
    <3>2. u < nextRequestId'
      BY <3>1, <1>1 DEF RequestIds
    <3>3. QED
      BY <3>1, <3>2, <1>3
  <2>4. QED
    BY <1>1, <1>5, <2>1, <2>2, <2>3 DEF SubscriberInv, RequestInv
<1>7. FuturesAccounted'
  <2> SUFFICES ASSUME NEW id \in RequestIds
               PROVE  future'[id] = "pending" <=>
                        \/ id \in sent' /\ phase'[id] = "Pending"
                        \/ \E q \in registered' : id \in InFlight(q)'
    BY DEF FuturesAccounted
  <2>1. registered' \subseteq registered \cup {r} /\ registered \subseteq registered'
          /\ registered \subseteq RequestIds
    BY DEF SubscriberInv, SubscriptionsTypeOK
  <2>2. (\E q \in registered' : id \in InFlight(q)') <=> \E q \in registered : id \in InFlight(q)
    BY <1>1, <1>5, <2>1
  <2>3. CASE id = r
    BY <1>1, <1>4, <2>1, <2>2, <2>3
  <2>4. CASE id # r
    BY <1>3, <2>2, <2>4 DEF SubscriberInv, FuturesAccounted
  <2>5. QED
    BY <2>3, <2>4
<1>8. RouteInv'
  <2>1. ASSUME NEW q \in RequestIds
        PROVE  /\ phase'[q] \in {"none", "Pending"} => trackAlias'[q] = None
               /\ phase'[q] \in {"Established", "UpdateFailed"} => trackAlias'[q] # None
               /\ ~active'[q] => phase'[q] = "Terminated"
               /\ \A a \in Aliases : routes'[a] = q <=>
                    \/ phase'[q] \in {"Established", "UpdateFailed"} /\ trackAlias'[q] = a
                    \/ Installing(todo', q, a)
    <3>1. CASE q = r
      BY <1>1, <1>4, <3>1
    <3>2. CASE q # r
      BY <1>3, <3>2 DEF SubscriberInv, RouteInv
    <3>3. QED
      BY <3>1, <3>2
  <2>2. QED
    BY <2>1 DEF SubscriberInv, RouteInv
<1>9. WorkInv'
  <2>1. Started \subseteq Started' /\ sent \subseteq sent' /\ sent \subseteq RequestIds
    BY <1>1, <1>3 DEF Started, SubscriberInv, SubscriptionsTypeOK
  <2>2. ASSUME NEW q, NEW a, Installing(todo, q, a)
        PROVE  q \in sent' /\ a \in Aliases /\ phase'[q] \in {"Pending", "Terminated"}
    <3>1. q \in sent /\ a \in Aliases /\ phase[q] \in {"Pending", "Terminated"} /\ q # r
      BY <1>1, <2>2, WorkForm DEF SubscriberInv
    <3>2. QED
      BY <1>3, <2>1, <3>1
  <2>3. QED
    BY <2>1, <2>2, WorkForm, WorkFormNext DEF SubscriberInv
<1>10. ClosingEndsAll'
  BY DEF ClosingEndsAll
<1>11. QED
  BY <1>2, <1>6, <1>7, <1>8, <1>9, <1>10 DEF SubscriberInv

\* A step that touches neither aliases nor routes nor the work of T, and moves an
\* established request at most to UpdateFailed.
LEMMA RoutesKept ==
  ASSUME SubscriberInv,
         trackAlias' = trackAlias, sent' = sent, registered' = registered, session' = session,
         routes' = routes, active' = active, todo' = todo,
         \A q \in RequestIds : \/ phase'[q] = phase[q]
                               \/ phase[q] \in {"Established", "UpdateFailed"} /\ phase'[q] = "UpdateFailed"
  PROVE  RouteInv' /\ WorkInv' /\ ClosingEndsAll'
<1>1. RouteInv'
  BY Zenon DEF SubscriberInv, RouteInv
<1>2. WorkInv'
  <2>1. Started \subseteq Started' /\ sent \subseteq RequestIds
    BY DEF Started, SubscriberInv, SubscriptionsTypeOK
  <2>2. \A q, a : Installing(todo, q, a) => q \in sent /\ a \in Aliases /\ phase'[q] \in {"Pending", "Terminated"}
    BY Zenon, <2>1, WorkForm DEF SubscriberInv
  <2>3. QED
    BY Zenon, <2>1, <2>2, WorkForm, WorkFormNext DEF SubscriberInv
<1>3. ClosingEndsAll'
  BY Zenon DEF SubscriberInv, ClosingEndsAll
<1>4. QED
  BY <1>1, <1>2, <1>3

\* request_update() keeps the invariant: the new ID is in one queue only.
LEMMA RequestUpdateStep ==
  ASSUME SubscriberInv, NEW r \in RequestIds, NEW accepted \in BOOLEAN, request_update(r, accepted)
  PROVE  SubscriberInv'
<1> DEFINE u == nextRequestId
<1>1. /\ u \in RequestIds /\ u \in Nat /\ nextRequestId' = u + 2 /\ nextRequestId' % 2 = 0
      /\ phase[u] = "none" /\ u \notin sent
      /\ \A q \in RequestIds : u \notin InFlight(q)
  BY NextIsFresh DEF request_update
<1>2. updates[r] \in Seq(RequestIds)
  BY QueueFacts
<1>3. /\ Append(updates[r], u) \in Seq(RequestIds)
      /\ Range(Append(updates[r], u)) = InFlight(r) \cup {u}
      /\ Distinct(Append(updates[r], u))
  <2>1. u \notin Range(updates[r]) /\ Distinct(updates[r])
    BY <1>1, QueueFacts DEF InFlight
  <2> HIDE DEF u
  <2>2. QED
    BY <1>1, <1>2, <2>1, Appended DEF InFlight
<1> USE DEF request_update
<1>4. SubscriptionsTypeOK'
  <2>1. updates' \in [RequestIds -> Seq(RequestIds)]
    BY <1>3 DEF SubscriberInv, SubscriptionsTypeOK
  <2>2. QED
    <3>1. nextRequestId' \in Nat /\ future' \in [RequestIds -> {"none", "pending", "ok", "failed"}]
      BY <1>1 DEF SubscriberInv, SubscriptionsTypeOK
    <3>2. QED
      BY <2>1, <3>1 DEF SubscriberInv, SubscriptionsTypeOK, routeVars
<1>5. /\ \A q \in RequestIds : q # r => updates'[q] = updates[q] /\ InFlight(q)' = InFlight(q)
      /\ InFlight(r)' = IF accepted THEN InFlight(r) \cup {u} ELSE InFlight(r)
      /\ Distinct(updates'[r])
  BY Zenon, <1>3 DEF InFlight, SubscriberInv, SubscriptionsTypeOK, RequestInv
<1>6. RequestInv'
  <2>1. ASSUME NEW q \in RequestIds, q >= nextRequestId'
        PROVE  phase'[q] = "none" /\ future'[q] = "none"
    <3>1. q # u /\ q >= u
      BY <1>1, <2>1 DEF RequestIds
    <3>2. QED
      BY <3>1 DEF SubscriberInv, SubscriptionsTypeOK, RequestInv
  <2>2. ASSUME NEW q \in RequestIds, NEW v \in InFlight(q)'
        PROVE  v < nextRequestId' /\ phase'[v] = "none"
    <3>1. CASE v = u
      BY <1>1, <3>1
    <3>2. CASE v # u
      <4>1. v \in InFlight(q) /\ v \in RequestIds /\ v < u /\ phase[v] = "none"
        <5>1. v \in InFlight(q)
          BY <1>5, <2>2, <3>2
        <5>2. QED
          BY <5>1, InFlightFacts
      <4>2. QED
        BY <1>1, <4>1 DEF RequestIds
    <3>3. QED
      BY <3>1, <3>2
  <2>3. ASSUME NEW q \in RequestIds, NEW p \in RequestIds, p # q
        PROVE  InFlight(q)' \cap InFlight(p)' = {}
    <3>1. InFlight(q) \cap InFlight(p) = {}
      BY <2>3, Apart
    <3> HIDE DEF u, request_update
    <3>2. QED
      BY Zenon, <1>1, <1>5, <2>3, <3>1
  <2>4. ASSUME NEW q \in RequestIds
        PROVE  Distinct(updates'[q]) /\ (updates'[q] # <<>> => phase'[q] = "Established")
    BY <1>5 DEF SubscriberInv, RequestInv
  <2>5. QED
    BY Zenon, <1>1, <2>1, <2>2, <2>3, <2>4 DEF SubscriberInv, RequestInv
<1>7. FuturesAccounted'
  <2> SUFFICES ASSUME NEW id \in RequestIds
               PROVE  future'[id] = "pending" <=>
                        \/ id \in sent' /\ phase'[id] = "Pending"
                        \/ \E q \in registered' : id \in InFlight(q)'
    BY DEF FuturesAccounted
  <2>1. registered' = registered /\ registered \subseteq RequestIds /\ r \in registered
    BY DEF SubscriberInv, SubscriptionsTypeOK
  <2>2. CASE id = u
    <3>1. future'[u] = IF accepted THEN "pending" ELSE "failed"
      BY <1>1 DEF SubscriberInv, SubscriptionsTypeOK
    <3>2. (\E q \in registered : u \in InFlight(q)') <=> accepted
      BY <1>1, <1>5, <2>1
    <3>3. QED
      BY <1>1, <2>1, <2>2, <3>1, <3>2
  <2>3. CASE id # u
    <3>1. future'[id] = future[id]
      BY <2>3 DEF SubscriberInv, SubscriptionsTypeOK
    <3>2. \A q \in registered : id \in InFlight(q)' <=> id \in InFlight(q)
      BY <1>5, <2>1, <2>3
    <3>3. QED
      BY <2>1, <3>1, <3>2 DEF SubscriberInv, FuturesAccounted
  <2>4. QED
    BY <2>2, <2>3
<1>8. /\ trackAlias' = trackAlias /\ sent' = sent /\ registered' = registered
      /\ session' = session /\ routes' = routes /\ active' = active /\ todo' = todo /\ phase' = phase
  BY DEF routeVars, threadVars
<1> HIDE DEF request_update
<1>9. RouteInv' /\ WorkInv' /\ ClosingEndsAll'
  BY <1>8, RoutesKept
<1>10. QED
  BY <1>4, <1>6, <1>7, <1>9 DEF SubscriberInv

\* REQUEST_ERROR for an update keeps the invariant: all queued futures fail.
LEMMA UpdateRejectedStep ==
  ASSUME SubscriberInv, NEW r \in RequestIds, UpdateRejected(r) PROVE SubscriberInv'
<1> USE DEF UpdateRejected, Failed
<1>1. phase[r] = "Established" /\ r \in registered
  BY ResponseRegistered DEF SubscriberInv, RequestInv
<1>2. <<>> \in Seq(RequestIds)
  OBVIOUS
<1>3. SubscriptionsTypeOK'
  <2>1. updates' \in [RequestIds -> Seq(RequestIds)]
    BY <1>2 DEF SubscriberInv, SubscriptionsTypeOK
  <2>2. QED
    BY <2>1 DEF SubscriberInv, SubscriptionsTypeOK, routeVars, Live
<1>4. /\ \A q \in RequestIds : q # r => updates'[q] = updates[q] /\ phase'[q] = phase[q]
                                    /\ InFlight(q)' = InFlight(q)
      /\ updates'[r] = <<>> /\ phase'[r] = "UpdateFailed" /\ InFlight(r)' = {}
  BY EmptyStack DEF InFlight, SubscriberInv, SubscriptionsTypeOK
<1>5. RequestInv'
  <2>1. ASSUME NEW q \in RequestIds
        PROVE  /\ q \in registered' <=> phase'[q] \in Live
               /\ q \in sent' => phase'[q] # "none"
               /\ updates'[q] # <<>> => phase'[q] = "Established"
               /\ Distinct(updates'[q])
    <3>1. registered' = registered /\ sent' = sent /\ Distinct(<<>>)
      BY Zenon, EmptyDistinct
    <3> HIDE DEF UpdateRejected
    <3>2. QED
      BY Zenon, <1>1, <1>4, <3>1, PhaseFacts, QueueFacts DEF Live
  <2>2. ASSUME NEW q \in RequestIds, q >= nextRequestId'
        PROVE  phase'[q] = "none" /\ future'[q] = "none"
    <3>1. phase[q] = "none" /\ future[q] = "none" /\ q # r
      BY <1>1, <2>2 DEF SubscriberInv, RequestInv
    <3>2. q \notin InFlight(r)
      BY <2>2, InFlightFacts
    <3>3. QED
      BY <1>4, <3>1, <3>2
  <2>3. ASSUME NEW q \in RequestIds, NEW v \in InFlight(q)'
        PROVE  v < nextRequestId' /\ phase'[v] = "none"
    <3>1. v \in InFlight(q) /\ v \in RequestIds /\ v < nextRequestId /\ phase[v] = "none"
      <4>1. v \in InFlight(q)
        BY <1>4, <2>3
      <4>2. QED
        BY <4>1, InFlightFacts
    <3>2. QED
      BY <1>1, <1>4, <3>1
  <2>4. ASSUME NEW q \in RequestIds, NEW p \in RequestIds, p # q
        PROVE  InFlight(q)' \cap InFlight(p)' = {}
    BY <1>4, <2>4 DEF SubscriberInv, RequestInv
  <2>5. QED
    BY Zenon, <2>1, <2>2, <2>3, <2>4 DEF SubscriberInv, RequestInv
<1>6. FuturesAccounted'
  <2> SUFFICES ASSUME NEW id \in RequestIds
               PROVE  future'[id] = "pending" <=>
                        \/ id \in sent' /\ phase'[id] = "Pending"
                        \/ \E q \in registered' : id \in InFlight(q)'
    BY DEF FuturesAccounted
  <2>1. registered' = registered /\ registered \subseteq RequestIds
    BY DEF SubscriberInv, SubscriptionsTypeOK
  <2>2. phase'[id] = "Pending" <=> phase[id] = "Pending"
    BY <1>1, <1>4
  <2>3. CASE id \in InFlight(r)
    <3>1. phase[id] = "none" /\ \A q \in RequestIds : q # r => id \notin InFlight(q)
      BY <2>3 DEF SubscriberInv, RequestInv
    <3>2. \A q \in registered : id \notin InFlight(q)'
      BY <1>4, <2>1, <3>1
    <3>3. QED
      BY <2>1, <2>2, <2>3, <3>1, <3>2
  <2>4. CASE id \notin InFlight(r)
    <3>1. \A q \in registered : id \in InFlight(q)' <=> id \in InFlight(q)
      BY <1>4, <2>1, <2>4
    <3>2. QED
      BY <2>1, <2>2, <2>4, <3>1 DEF SubscriberInv, FuturesAccounted
  <2>5. QED
    BY <2>3, <2>4
<1>7. /\ trackAlias' = trackAlias /\ sent' = sent /\ registered' = registered
      /\ session' = session /\ routes' = routes /\ active' = active /\ todo' = todo
  BY DEF routeVars, threadVars
<1> HIDE DEF UpdateRejected
<1>8. \A q \in RequestIds : \/ phase'[q] = phase[q]
                            \/ phase[q] \in {"Established", "UpdateFailed"} /\ phase'[q] = "UpdateFailed"
  BY Zenon, <1>1, <1>4
<1>9. RouteInv' /\ WorkInv' /\ ClosingEndsAll'
  BY Zenon, <1>7, <1>8, RoutesKept
<1>10. QED
  BY <1>3, <1>5, <1>6, <1>9 DEF SubscriberInv

\* REQUEST_OK keeps the invariant: the future it settles leaves the queue.
LEMMA RequestOkStep ==
  ASSUME SubscriberInv, NEW r \in RequestIds, RequestOk(r) PROVE SubscriberInv'
<1> DEFINE u == Head(updates[r])
<1> USE DEF RequestOk, Answered
<1>1. updates[r] \in Seq(RequestIds) /\ Distinct(updates[r]) /\ r \in registered
  BY ResponseRegistered, QueueFacts
<1>2. /\ Tail(updates[r]) \in Seq(RequestIds) /\ Distinct(Tail(updates[r]))
      /\ u \in InFlight(r) /\ Range(Tail(updates[r])) = InFlight(r) \ {u}
  BY <1>1, Removed DEF InFlight
<1>3. /\ u \in RequestIds /\ u \in Nat /\ nextRequestId \in Nat
      /\ u < nextRequestId /\ phase[u] = "none"
  BY <1>2, InFlightFacts
<1>4. SubscriptionsTypeOK'
  <2>1. updates' \in [RequestIds -> Seq(RequestIds)]
    BY <1>2 DEF SubscriberInv, SubscriptionsTypeOK
  <2>2. QED
    BY <2>1 DEF SubscriberInv, SubscriptionsTypeOK, routeVars
<1>5. /\ \A q \in RequestIds : q # r => updates'[q] = updates[q] /\ InFlight(q)' = InFlight(q)
      /\ InFlight(r)' = InFlight(r) \ {u} /\ Distinct(updates'[r])
      /\ \A id \in RequestIds : future'[id] = IF id = u THEN "ok" ELSE future[id]
  BY <1>2 DEF InFlight, SubscriberInv, SubscriptionsTypeOK
<1>6. RequestInv'
  <2>1. ASSUME NEW q \in RequestIds, q >= nextRequestId'
        PROVE  phase'[q] = "none" /\ future'[q] = "none"
    <3>1. q # u
      BY <1>3, <2>1
    <3>2. QED
      BY <1>5, <2>1, <3>1 DEF SubscriberInv, RequestInv
  <2>2. ASSUME NEW q \in RequestIds
        PROVE  /\ Distinct(updates'[q])
               /\ updates'[q] # <<>> => phase'[q] = "Established"
               /\ InFlight(q)' \subseteq InFlight(q)
    BY <1>5 DEF SubscriberInv, RequestInv
  <2>3. QED
    BY <2>1, <2>2 DEF SubscriberInv, RequestInv
<1>7. FuturesAccounted'
  <2> SUFFICES ASSUME NEW id \in RequestIds
               PROVE  future'[id] = "pending" <=>
                        \/ id \in sent' /\ phase'[id] = "Pending"
                        \/ \E q \in registered' : id \in InFlight(q)'
    BY DEF FuturesAccounted
  <2>1. registered' = registered /\ registered \subseteq RequestIds
    BY DEF SubscriberInv, SubscriptionsTypeOK
  <2>2. CASE id = u
    <3>1. \A q \in RequestIds : q # r => u \notin InFlight(q)
      BY <1>2 DEF SubscriberInv, RequestInv
    <3>2. \A q \in registered : u \notin InFlight(q)'
      BY <1>5, <2>1, <3>1
    <3>3. future'[u] = "ok" /\ phase'[u] = "none"
      BY <1>3, <1>5
    <3> HIDE DEF u, RequestOk
    <3>4. QED
      BY <2>1, <2>2, <3>2, <3>3
  <2>3. CASE id # u
    <3>1. \A q \in registered : id \in InFlight(q)' <=> id \in InFlight(q)
      BY <1>5, <2>1, <2>3
    <3>2. QED
      BY <1>5, <2>1, <2>3, <3>1 DEF SubscriberInv, FuturesAccounted
  <2>4. QED
    BY <2>2, <2>3
<1>8. /\ trackAlias' = trackAlias /\ sent' = sent /\ registered' = registered
      /\ session' = session /\ routes' = routes /\ active' = active /\ todo' = todo /\ phase' = phase
  BY DEF routeVars, threadVars
<1> HIDE DEF RequestOk
<1>9. RouteInv' /\ WorkInv' /\ ClosingEndsAll'
  BY <1>8, RoutesKept
<1>10. QED
  BY <1>4, <1>6, <1>7, <1>9 DEF SubscriberInv

\* Between callbacks nothing is ahead, and a session that closes has ended all
\* requests.
LEMMA IdleFacts ==
  ASSUME SubscriberInv, Idle
  PROVE  /\ \A q, b : ~Installing(todo, q, b)
         /\ session \in {"Closing", "Closed"} => registered = {}
  BY EmptyStack DEF Idle, Installing, Ahead, SubscriberInv, ClosingEndsAll

\* PUBLISH_DONE keeps the invariant while its handler runs.
LEMMA PublishDoneStep ==
  ASSUME SubscriberInv, NEW r \in RequestIds, PublishDone(r) PROVE SubscriberInv'
<1> DEFINE x == [op |-> "onDone", request |-> r]
<1> USE DEF PublishDone, requestVars, routeVars
<1>1. Idle /\ r \in registered /\ todo' = <<x>>
  BY ResponseRegistered DEF Go
<1>2. x.op = "onDone" /\ x.request = r
  OBVIOUS
<1> HIDE DEF x
<1>3. Stack(todo') /\ Range(todo') = {x}
  BY <1>1, Singleton
<1>4. SubscriptionsTypeOK'
  BY DEF SubscriberInv, SubscriptionsTypeOK
<1>5. RequestInv' /\ FuturesAccounted'
  BY Zenon DEF SubscriberInv, RequestInv, FuturesAccounted, InFlight
<1>6. \A q, b : ~Installing(todo, q, b) /\ ~Installing(todo', q, b)
  BY Zenon, <1>1, <1>2, <1>3, IdleFacts DEF Installing
<1>7. RouteInv'
  BY Zenon, <1>6 DEF SubscriberInv, RouteInv
<1>8. WorkInv'
  <2>1. r \in Started'
    BY Zenon, <1>1 DEF SubscriberInv, RequestInv, Started, Live
  <2>2. QED
    BY Zenon, <1>2, <1>3, <2>1 DEF WorkInv
<1>9. ClosingEndsAll'
  BY <1>1, IdleFacts DEF ClosingEndsAll
<1>10. QED
  BY <1>4, <1>5, <1>7, <1>8, <1>9 DEF SubscriberInv

\* What a SUBSCRIBE_OK has to do ends with the route, and nothing else in it is marked.
LEMMA ReplayStack ==
  ASSUME NEW r, NEW a
  PROVE  /\ Stack(Replay(r, a))
         /\ \A q, b : Installing(Replay(r, a), q, b) <=> q = r /\ b = a
         /\ \A q : ~Ahead(Replay(r, a), q) /\ ~DoneFor(Replay(r, a), q)
<1> DEFINE x == [op |-> "installed", request |-> r, alias |-> a]
           c == <<x>>
           d == AheadDatagrams(buffered[a])
           t == AheadStreams(r, parked[a])
<1>1. x.op = "installed" /\ x.request = r /\ x.alias = a
  OBVIOUS
<1>2. Replay(r, a) = (d \o t) \o c
  BY DEF Replay
<1>3. /\ d = <<>> \/ \E y : d = <<y>> /\ Light(y)
      /\ t = <<>> \/ \E y : t = <<y>> /\ Light(y)
  BY Zenon, LightPrefixes
<1> HIDE DEF x, d, t
<1>4. Stack(c) /\ Range(c) = {x}
  BY Singleton
<1>5. Stack(d) /\ Stack(t)
  BY <1>3, EmptyStack, Singleton
<1> HIDE DEF c
<1>6. Carries(c, t \o c, {})
  BY <1>3, <1>4, CarriesSame, CarriesPrefix
<1>7. Carries(c, d \o (t \o c), {})
  BY <1>3, <1>6, CarriesPrefix
<1>8. (d \o t) \o c = d \o (t \o c)
  <2> DEFINE S == Range(d) \cup Range(t) \cup Range(c)
  <2>1. d \in Seq(S) /\ t \in Seq(S) /\ c \in Seq(S)
    BY <1>4, <1>5, SeqMonotonic DEF Stack
  <2> HIDE DEF S
  <2>2. QED
    BY <2>1, ConcatAssociative
<1>9. Carries(c, Replay(r, a), {})
  BY <1>2, <1>7, <1>8
<1>10. /\ \A q, b : Installing(c, q, b) <=> q = r /\ b = a
       /\ \A q : ~Ahead(c, q) /\ ~DoneFor(c, q)
  BY <1>1, <1>4 DEF Installing, Ahead, DoneFor
<1>11. QED
  BY <1>9, <1>10 DEF Carries

\* SUBSCRIBE_OK keeps the invariant: the route belongs to the request from now
\* on, although it is established only behind the replay.
LEMMA SubscribeOkStep ==
  ASSUME SubscriberInv, NEW r \in RequestIds, NEW a \in Aliases, SubscribeOk(r, a)
  PROVE  SubscriberInv'
<1>1. Idle /\ r \in registered /\ r \in sent /\ phase[r] = "Pending"
  BY ResponseRegistered DEF SubscribeOk, Response
<1>2. CASE CloseSession(<<>>, TRUE)
  BY Zenon, <1>1, <1>2, IdleCarries, CloseEffect, EffectStep
<1>3. CASE /\ routes[a] = None
           /\ routes' = [routes EXCEPT ![a] = r]
           /\ Go(Replay(r, a), TRUE)
           /\ UNCHANGED <<active, session, requestVars, bufferedBytes>>
  <2> USE <1>3 DEF requestVars
  <2>1. todo' = Replay(r, a)
    BY DEF Go
  <2>2. /\ Stack(todo')
        /\ \A q, b : Installing(todo', q, b) <=> q = r /\ b = a
        /\ \A q : ~Ahead(todo', q) /\ ~DoneFor(todo', q)
    BY <2>1, ReplayStack
  <2>3. SubscriptionsTypeOK'
    BY DEF SubscriberInv, SubscriptionsTypeOK
  <2>4. RequestInv' /\ FuturesAccounted'
    BY Zenon DEF SubscriberInv, RequestInv, FuturesAccounted, InFlight
  <2>5. \A b \in Aliases : routes'[b] = IF b = a THEN r ELSE routes[b]
    BY DEF SubscriberInv, SubscriptionsTypeOK
  <2>6. RouteInv'
    <3>1. ASSUME NEW q \in RequestIds, NEW b \in Aliases
          PROVE  routes'[b] = q <=> \/ phase'[q] \in {"Established", "UpdateFailed"} /\ trackAlias'[q] = b
                                    \/ Installing(todo', q, b)
      <4>1. routes[b] = q <=> phase[q] \in {"Established", "UpdateFailed"} /\ trackAlias[q] = b
        BY Zenon, <1>1, IdleFacts, RouteFacts
      <4>2. q # None
        BY NoneAssumption
      <4>3. CASE b = a
        BY Zenon, <1>1, <2>2, <2>5, <4>1, <4>2, <4>3
      <4>4. CASE b # a
        BY Zenon, <2>2, <2>5, <4>1, <4>4
      <4>5. QED
        BY Zenon, <4>3, <4>4
    <3>2. ASSUME NEW b \in Aliases, routes'[b] # None
          PROVE  active'[routes'[b]]
      <4>1. active' = active /\ active[r]
        BY Zenon, <1>1, AliasFacts
      <4>2. b # a => active[routes[b]]
        BY <2>5, <3>2, ActiveFacts
      <4>3. QED
        BY <2>5, <4>1, <4>2
    <3>3. QED
      BY Zenon, <3>1, <3>2 DEF SubscriberInv, RouteInv
  <2>7. WorkInv'
    BY <1>1, <2>2, WorkFormNext
  <2>8. ClosingEndsAll'
    BY <1>1, IdleFacts DEF ClosingEndsAll
  <2>9. QED
    BY <2>3, <2>4, <2>6, <2>7, <2>8 DEF SubscriberInv
<1>4. QED
  BY Zenon, <1>2, <1>3 DEF SubscribeOk

\* The end of a SUBSCRIBE_OK keeps the invariant: the route becomes that of an
\* established request, or goes with a request that ended during the replay.
LEMMA InstalledStep == ASSUME SubscriberInv, Installed PROVE SubscriberInv'
<1> DEFINE r == Head(todo).request
           a == Head(todo).alias
<1>1. todo # <<>> /\ Head(todo).op = "installed" /\ Stack(todo)
  BY TypeOfCancelled DEF Installed, Idle
<1>2. todo' = <<>> /\ Range(todo) = {Head(todo)}
  BY Zenon, <1>1, PopItem, EmptyStack DEF Installed, Go
<1>3. /\ \A q, b : Installing(todo, q, b) <=> q = r /\ b = a
      /\ \A q : ~Ahead(todo, q)
      /\ \A q, b : ~Installing(todo', q, b)
      /\ \A q : ~Ahead(todo', q) /\ ~DoneFor(todo', q)
      /\ Stack(todo')
  BY <1>1, <1>2, EmptyStack DEF Installing, Ahead, DoneFor
<1> HIDE DEF r, a
<1>4. r \in sent /\ r \in RequestIds /\ a \in Aliases /\ phase[r] \in {"Pending", "Terminated"}
  BY Zenon, <1>3, InstallingFacts
<1>5. routes[a] = r
  BY Zenon, <1>3, InstallingFacts
<1>6. session \in {"Closing", "Closed"} => registered = {}
  BY <1>3 DEF SubscriberInv, ClosingEndsAll
<1>7. UNCHANGED <<session, nextRequestId, registered, updates, sent, cancelled>>
  BY Zenon DEF Installed
<1>8. ClosingEndsAll'
  BY <1>6, <1>7 DEF ClosingEndsAll
<1>9. /\ \/ phase[r] = "Terminated" /\ retire_routes({a}) /\ UNCHANGED <<trackAlias, phase, future>>
         \/ /\ phase[r] # "Terminated"
            /\ trackAlias' = [trackAlias EXCEPT ![r] = a]
            /\ phase' = [phase EXCEPT ![r] = "Established"]
            /\ future' = [future EXCEPT ![r] = "ok"]
            /\ UNCHANGED routeVars
  BY Zenon DEF Installed, EndedMeanwhile, r, a
<1>10. CASE phase[r] = "Terminated" /\ retire_routes({a}) /\ UNCHANGED <<trackAlias, phase, future>>
  <2> USE <1>10 DEF retire_routes
  <2>1. SubscriptionsTypeOK'
    BY <1>7 DEF SubscriberInv, SubscriptionsTypeOK
  <2>2. RequestInv' /\ FuturesAccounted'
    BY Zenon, <1>7 DEF SubscriberInv, RequestInv, FuturesAccounted, InFlight
  <2>3. /\ \A b \in Aliases : routes'[b] = IF b = a THEN None ELSE routes[b]
        /\ \A q \in RequestIds : active'[q] <=> active[q] /\ q # r
    BY Zenon, <1>4, <1>5 DEF SubscriberInv, SubscriptionsTypeOK
  <2>4. RouteInv'
    <3>1. ASSUME NEW q \in RequestIds
          PROVE  /\ phase'[q] \in {"none", "Pending"} => trackAlias'[q] = None
                 /\ phase'[q] \in {"Established", "UpdateFailed"} => trackAlias'[q] # None
                 /\ ~active'[q] => phase'[q] = "Terminated"
      BY Zenon, <2>3 DEF SubscriberInv, RouteInv
    <3>2. ASSUME NEW q \in RequestIds, NEW b \in Aliases
          PROVE  routes'[b] = q <=> \/ phase'[q] \in {"Established", "UpdateFailed"} /\ trackAlias'[q] = b
                                    \/ Installing(todo', q, b)
      <4>1. routes[b] = q <=> \/ phase[q] \in {"Established", "UpdateFailed"} /\ trackAlias[q] = b
                              \/ q = r /\ b = a
        BY Zenon, <1>3, RouteFacts
      <4>2. q # None
        BY Zenon, NoneAssumption
      <4>3. QED
        BY Zenon, <1>3, <1>5, <2>3, <4>1, <4>2
    <3>3. ASSUME NEW b \in Aliases, routes'[b] # None
          PROVE  active'[routes'[b]]
      <4>1. b # a /\ routes'[b] = routes[b] /\ routes[b] \in RequestIds /\ active[routes[b]]
        BY Zenon, <2>3, <3>3, ActiveFacts
      <4>2. routes[b] # r
        BY Zenon, <1>3, <1>4, <4>1, RouteFacts
      <4>3. QED
        BY Zenon, <2>3, <4>1, <4>2
    <3>4. QED
      BY Zenon, <3>1, <3>2, <3>3 DEF RouteInv
  <2>5. WorkInv'
    BY Zenon, <1>3, WorkFormNext
  <2>6. QED
    BY <1>8, <2>1, <2>2, <2>4, <2>5 DEF SubscriberInv
<1>11. CASE /\ phase[r] # "Terminated"
            /\ trackAlias' = [trackAlias EXCEPT ![r] = a]
            /\ phase' = [phase EXCEPT ![r] = "Established"]
            /\ future' = [future EXCEPT ![r] = "ok"]
            /\ UNCHANGED routeVars
  <2>1. phase[r] = "Pending" /\ r \in registered
    BY <1>4, <1>11 DEF SubscriberInv, RequestInv, Live
  <2>2. SubscriptionsTypeOK'
    BY <1>4, <1>7, <1>11 DEF SubscriberInv, SubscriptionsTypeOK, Live, routeVars
  <2>3. /\ \A q \in RequestIds : phase'[q] = (IF q = r THEN "Established" ELSE phase[q])
        /\ \A q \in RequestIds : trackAlias'[q] = (IF q = r THEN a ELSE trackAlias[q])
        /\ \A q \in RequestIds : future'[q] = (IF q = r THEN "ok" ELSE future[q])
    BY <1>11 DEF SubscriberInv, SubscriptionsTypeOK
  <2>4. \A q \in RequestIds : InFlight(q)' = InFlight(q) /\ updates'[q] = updates[q]
    BY <1>7 DEF InFlight
  <2>5. \A q \in RequestIds, u \in RequestIds : u \in InFlight(q) => u # r
    BY Zenon, <2>1 DEF SubscriberInv, RequestInv
  <2>6. RequestInv'
    <3>1. ASSUME NEW q \in RequestIds
          PROVE  /\ q \in registered' <=> phase'[q] \in Live
                 /\ q >= nextRequestId' => phase'[q] = "none" /\ future'[q] = "none"
                 /\ q \in sent' => phase'[q] # "none"
                 /\ updates'[q] # <<>> => phase'[q] = "Established"
                 /\ Distinct(updates'[q])
      BY Zenon, <1>7, <2>1, <2>3, <2>4 DEF SubscriberInv, RequestInv, Live
    <3>2. ASSUME NEW q \in RequestIds, NEW u \in InFlight(q)
          PROVE  u < nextRequestId' /\ phase'[u] = "none"
      <4>1. u \in RequestIds /\ u < nextRequestId /\ phase[u] = "none"
        BY <3>2, InFlightFacts
      <4>2. QED
        BY Zenon, <1>7, <2>3, <2>5, <4>1
    <3>3. QED
      BY Zenon, <1>7, <2>4, <3>1, <3>2 DEF SubscriberInv, RequestInv
  <2>7. FuturesAccounted'
    <3>1. registered \subseteq RequestIds
      BY DEF SubscriberInv, SubscriptionsTypeOK
    <3>2. QED
      BY Zenon, <1>7, <2>1, <2>3, <2>4, <2>5, <3>1 DEF SubscriberInv, FuturesAccounted
  <2>8. RouteInv'
    <3>1. ASSUME NEW q \in RequestIds
          PROVE  /\ phase'[q] \in {"none", "Pending"} => trackAlias'[q] = None
                 /\ phase'[q] \in {"Established", "UpdateFailed"} => trackAlias'[q] # None
                 /\ ~active'[q] => phase'[q] = "Terminated"
      <4>1. active' = active /\ active[r] /\ a # None
        BY <1>4, <1>11, <2>1, NoneAssumption, AliasFacts DEF routeVars
      <4>2. CASE q = r
        BY <2>3, <4>1, <4>2
      <4>3. CASE q # r
        BY <2>3, <4>1, <4>3, AliasFacts
      <4>4. QED
        BY Zenon, <4>2, <4>3
    <3>2. ASSUME NEW q \in RequestIds, NEW b \in Aliases
          PROVE  routes'[b] = q <=> \/ phase'[q] \in {"Established", "UpdateFailed"} /\ trackAlias'[q] = b
                                    \/ Installing(todo', q, b)
      <4>1. routes[b] = q <=> \/ phase[q] \in {"Established", "UpdateFailed"} /\ trackAlias[q] = b
                              \/ q = r /\ b = a
        BY Zenon, <1>3, RouteFacts
      <4>2. QED
        BY Zenon, <1>3, <1>11, <2>1, <2>3, <4>1 DEF routeVars
    <3>3. QED
      BY Zenon, <1>11, <3>1, <3>2 DEF SubscriberInv, RouteInv, routeVars
  <2>9. WorkInv'
    BY <1>3, WorkFormNext
  <2>10. QED
    BY <1>8, <2>2, <2>6, <2>7, <2>8, <2>9 DEF SubscriberInv
<1>12. QED
  BY <1>9, <1>10, <1>11

-----------------------------------------------------------------------------
(* The theorems. *)

\* The steps that do more to the requests than an Effect.
Special ==
  \/ \E outcome \in {"openThrows", "encodeThrows", "sendFails", "sent"} : subscribe(outcome)
  \/ \E r \in RequestIds, accepted \in BOOLEAN : request_update(r, accepted)
  \/ \E r \in RequestIds : UpdateRejected(r) \/ RequestOk(r) \/ PublishDone(r)
  \/ \E r \in RequestIds, a \in Aliases : SubscribeOk(r, a)
  \/ SetupDone \/ ShutdownComplete \/ Installed

\* Every step is an effect or one of these.
LEMMA NextCases ==
  ASSUME SubscriberInv, [Next]_vars PROVE Effect \/ Special
<1>1. CASE UNCHANGED vars
  BY <1>1, StillEffect DEF vars
<1>2. CASE RequestStep
  BY <1>2, EndingSteps, UnknownResponseEffect, ClosingSteps, ReturnSteps DEF RequestStep, Special
<1>3. CASE AnswerStep
  BY <1>3 DEF AnswerStep, Special
<1>4. CASE DatagramStep \/ StreamStep
  BY <1>4, DatagramSteps, StreamSteps
<1>5. CASE Continue
  BY <1>5, DatagramSteps, HandlerSteps, RunSteps DEF Continue, Special
<1>6. QED
  BY <1>1, <1>2, <1>3, <1>4, <1>5 DEF Next

\* A new Subscriber satisfies the invariant.
LEMMA InitInv == Init => SubscriberInv
<1> SUFFICES ASSUME Init PROVE SubscriberInv
  OBVIOUS
<1> USE DEF Init, SubscriptionsInit
<1>1. SubscriptionsTypeOK
  BY RequestIdAssumption DEF SubscriptionsTypeOK, SessionPhases
<1>2. \A r \in RequestIds : InFlight(r) = {}
  BY DEF InFlight, Range
<1>3. RequestInv /\ FuturesAccounted
  <2>1. nextRequestId % 2 = 0 /\ Distinct(<<>>)
    BY EmptyDistinct
  <2>2. RequestInv
    BY <1>2, <2>1 DEF RequestInv, Live
  <2>3. FuturesAccounted
    BY DEF FuturesAccounted
  <2>4. QED
    BY <2>2, <2>3
<1>4. Stack(todo) /\ Range(todo) = {}
  BY EmptyStack
<1>5. RouteInv /\ WorkInv /\ ClosingEndsAll
  BY Zenon, <1>4, NoneAssumption DEF RouteInv, WorkInv, ClosingEndsAll, Installing
<1>6. QED
  BY <1>1, <1>3, <1>5 DEF SubscriberInv

\* Every step keeps it.
LEMMA NextInv == SubscriberInv /\ [Next]_vars => SubscriberInv'
<1> SUFFICES ASSUME SubscriberInv, [Next]_vars PROVE SubscriberInv'
  OBVIOUS
<1>1. CASE Effect
  BY <1>1, EffectStep
<1>2. CASE Special
  BY <1>2, SubscribeStep, RequestUpdateStep, UpdateRejectedStep, RequestOkStep, PublishDoneStep,
     SubscribeOkStep, SetupDoneStep, ShutdownCompleteStep, InstalledStep DEF Special
<1>3. QED
  BY <1>1, <1>2, NextCases

\* The invariant holds in every state, for any number of requests, aliases,
\* streams and datagrams.
LEMMA Invariance == Spec => []SubscriberInv
  BY InitInv, NextInv, PTL DEF Spec

\* A request is registered exactly while it is live and owns a route exactly
\* while it is established or being replayed: retire_route(), which is given an
\* alias only, never retires the route of another request.
THEOREM RoutesOwned == Spec => []RouteOwnership
<1>1. SubscriberInv => RouteOwnership
  BY Zenon DEF SubscriberInv, RequestInv, RouteInv, RouteOwnership
<1>2. QED
  BY <1>1, Invariance, PTL

\* A future returned by subscribe() or request_update() is pending exactly while
\* a response, a terminate() or a close() is still going to settle it.
THEOREM NoFutureForgotten == Spec => []FuturesAccounted
<1>1. SubscriberInv => FuturesAccounted
  BY DEF SubscriberInv
<1>2. QED
  BY <1>1, Invariance, PTL

\* Once begin_close() has run, every request still registered is ahead in the
\* loop of terminate_subscriptions(), and none is added behind it.
THEOREM CloseReachesAll == Spec => []ClosingEndsAll
<1>1. SubscriberInv => ClosingEndsAll
  BY DEF SubscriberInv
<1>2. QED
  BY <1>1, Invariance, PTL

\* What a step may do to the futures.
FutureStep ==
  \A id \in RequestIds :
    /\ future[id] \in {"ok", "failed"} => future'[id] = future[id]
    /\ future'[id] = "ok" => \/ future[id] = "ok"
                             \/ phase[id] # "none"
                             \/ \E r \in RequestIds : updates[r] # <<>> /\ id = Head(updates[r])

\* Effects fail pending futures and nothing else.
LEMMA FutureEffect == ASSUME SubscriberInv, Effect PROVE FutureStep
  BY Zenon DEF Effect, Quiet, Closes, Ends, coreVars, terminate, FutureStep

\* The other steps settle pending futures or give out fresh ones.
LEMMA FutureSpecial == ASSUME SubscriberInv, Special PROVE FutureStep
<1>1. future \in [RequestIds -> {"none", "pending", "ok", "failed"}]
  BY DEF SubscriberInv, SubscriptionsTypeOK
<1>2. CASE UNCHANGED future
  BY <1>2 DEF FutureStep
<1>3. ASSUME NEW id \in RequestIds, NEW v \in {"pending", "failed"}, future[id] = "none",
             future' = [future EXCEPT ![id] = v]
      PROVE  FutureStep
  BY <1>1, <1>3 DEF FutureStep
<1>4. ASSUME NEW outcome \in {"openThrows", "encodeThrows", "sendFails", "sent"}, subscribe(outcome)
      PROVE  FutureStep
  <2>1. nextRequestId \in RequestIds /\ future[nextRequestId] = "none"
    BY <1>4, NextIsFresh DEF subscribe
  <2>2. QED
    BY Zenon, <1>3, <1>4, <2>1 DEF subscribe
<1>5. ASSUME NEW r \in RequestIds, NEW accepted \in BOOLEAN, request_update(r, accepted)
      PROVE  FutureStep
  <2>1. nextRequestId \in RequestIds /\ future[nextRequestId] = "none"
    BY <1>5, NextIsFresh DEF request_update
  <2>2. QED
    BY Zenon, <1>3, <1>5, <2>1 DEF request_update
<1>6. ASSUME NEW r \in RequestIds, Response(r) PROVE \A u \in InFlight(r) : future[u] = "pending"
  BY InFlightFacts
<1>7. ASSUME NEW r \in RequestIds, UpdateRejected(r) PROVE FutureStep
  BY <1>1, <1>6, <1>7 DEF UpdateRejected, FutureStep
<1>8. ASSUME NEW r \in RequestIds, RequestOk(r) PROVE FutureStep
  <2> DEFINE u == Head(updates[r])
  <2>1. u \in InFlight(r) /\ u \in RequestIds
    <3>1. updates[r] # <<>>
      BY <1>8 DEF RequestOk
    <3>2. u \in InFlight(r)
      BY Zenon, <3>1, QueueFacts, Removed DEF InFlight
    <3>3. QED
      BY <3>2, InFlightFacts
  <2>2. future[u] = "pending"
    BY <1>6, <1>8, <2>1 DEF RequestOk
  <2>3. future' = [future EXCEPT ![u] = "ok"] /\ updates[r] # <<>>
    BY <1>8 DEF RequestOk, Answered
  <2>4. \A id \in RequestIds : future'[id] = IF id = u THEN "ok" ELSE future[id]
    BY <1>1, <2>3
  <2>5. QED
    BY <2>2, <2>3, <2>4 DEF FutureStep
<1>9. ASSUME NEW r \in RequestIds, NEW a \in Aliases, SubscribeOk(r, a) PROVE FutureStep
  BY Zenon, <1>2, <1>9 DEF SubscribeOk, CloseSession, requestVars
<1>10. CASE Installed
  <2> DEFINE r == Head(todo).request
             a == Head(todo).alias
  <2>1. Installing(todo, r, a)
    <3>1. todo # <<>> /\ Head(todo).op = "installed" /\ Head(todo) \in Range(todo)
      <4>1. todo # <<>> /\ Head(todo).op = "installed"
        BY <1>10 DEF Installed, Idle
      <4>2. QED
        BY <4>1, TypeOfCancelled, PopItem
    <3>2. QED
      BY <3>1 DEF Installing
  <2>2. r \in sent /\ r \in RequestIds /\ phase[r] \in {"Pending", "Terminated"}
    BY <2>1, InstallingFacts
  <2>3. \/ UNCHANGED <<trackAlias, phase, future>>
        \/ phase[r] # "Terminated" /\ future' = [future EXCEPT ![r] = "ok"]
    BY Zenon, <1>10 DEF Installed, EndedMeanwhile
  <2> HIDE DEF r
  <2>4. CASE phase[r] # "Terminated" /\ future' = [future EXCEPT ![r] = "ok"]
    <3>1. future[r] = "pending" /\ phase[r] = "Pending"
      BY <2>2, <2>4 DEF SubscriberInv, FuturesAccounted
    <3>2. QED
      BY <1>1, <2>2, <2>4, <3>1 DEF FutureStep
  <2>5. QED
    BY <1>2, <2>3, <2>4
<1>11. ASSUME NEW r \in RequestIds, PublishDone(r) PROVE FutureStep
  BY <1>2, <1>11 DEF PublishDone, requestVars
<1>12. CASE SetupDone \/ ShutdownComplete
  BY <1>2, <1>12 DEF SetupDone, ShutdownComplete, requestVars
<1>13. QED
  BY <1>4, <1>5, <1>7, <1>8, <1>9, <1>10, <1>11, <1>12 DEF Special

\* So every step does.
LEMMA FutureNext == ASSUME SubscriberInv, [Next]_vars PROVE FutureStep
  BY NextCases, FutureEffect, FutureSpecial

\* No step changes a settled future: set_value() of a std::promise is called
\* once, whatever the order of responses, stops and closes.
THEOREM FuturesSettleOnce == Spec => SettledOnce
<1>1. SubscriberInv /\ [Next]_vars =>
        [\A id \in RequestIds : future[id] \in {"ok", "failed"} => future'[id] = future[id]]_future
  BY FutureNext DEF FutureStep
<1>2. QED
  BY <1>1, Invariance, PTL DEF Spec, SettledOnce

\* No REQUEST_UPDATE is answered before one that was sent earlier for the same
\* subscription.
THEOREM UpdatesAnsweredInOrder == Spec => UpdatesInOrder
<1>1. ASSUME SubscriberInv, [Next]_vars, NEW r \in RequestIds,
             NEW m \in DOMAIN updates[r], NEW n \in DOMAIN updates[r],
             m < n, future'[updates[r][n]] = "ok"
      PROVE  FALSE
  <2> DEFINE s == updates[r]
             u == s[n]
  <2>1. s \in Seq(RequestIds) /\ Distinct(s) /\ DOMAIN s = 1..Len(s) /\ Len(s) \in Nat
    BY <1>1, QueueFacts
  <2>2. u \in InFlight(r) /\ u \in RequestIds /\ n \in 1..Len(s) /\ m \in 1..Len(s) /\ s # <<>>
    <3>1. u \in InFlight(r)
      BY DEF InFlight, Range
    <3>2. u \in RequestIds
      BY Zenon, <1>1, <3>1, InFlightFacts
    <3>3. n \in 1..Len(s) /\ m \in 1..Len(s)
      BY <2>1
    <3> HIDE DEF s
    <3>4. s # <<>>
      BY <2>1, <3>3
    <3>5. QED
      BY <3>1, <3>2, <3>3, <3>4
  <2>3. r \in registered /\ phase[u] = "none"
    BY <1>1, <2>2, InFlightFacts
  <2>4. future[u] = "pending"
    BY <1>1, <2>2, InFlightFacts
  <2>5. PICK q \in RequestIds : updates[q] # <<>> /\ u = Head(updates[q])
    BY Zenon, <1>1, <2>2, <2>3, <2>4, FutureNext DEF FutureStep
  <2>6. u \in InFlight(q) /\ Head(updates[q]) = updates[q][1]
    <3>1. updates[q] \in Seq(RequestIds) /\ Distinct(updates[q])
      BY <1>1, QueueFacts
    <3>2. QED
      BY <2>5, <3>1, Removed DEF InFlight
  <2>7. q = r
    BY <1>1, <2>2, <2>6, Apart
  <2>8. s[n] = s[1]
    BY <2>5, <2>6, <2>7
  <2> HIDE DEF s
  <2>9. 1 \in 1..Len(s)
    BY <2>1, <2>2
  <2>10. n = 1
    BY <2>2, <2>8, <2>9, <2>1 DEF Distinct
  <2>11. m < n
    BY <1>1
  <2>12. QED
    BY <2>1, <2>2, <2>10, <2>11
<1>2. SubscriberInv /\ [Next]_vars =>
        [\A r \in RequestIds : \A m, n \in DOMAIN updates[r] :
           m < n /\ future'[updates[r][n]] = "ok" => future'[updates[r][m]] # "pending"]_future
  BY <1>1
<1>3. QED
  BY <1>2, Invariance, PTL DEF Spec, UpdatesInOrder
=============================================================================
