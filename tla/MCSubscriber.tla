--------------------------- MODULE MCSubscriber ---------------------------
(***************************************************************************)
(* Small instances of Subscriber: what the peer may put on the wire.       *)
(***************************************************************************)
EXTENDS Subscriber, TLC

Obj(delta, status, bad) == [delta |-> delta, status |-> status, bad |-> bad]
Script(a, g, eog, objects) == [alias |-> a, group |-> g, endOfGroup |-> eog, objects |-> objects]
Dgram(a, g, o, last, status, size, bad) ==
  [alias |-> a, group |-> g, object |-> o, last |-> last, status |-> status, size |-> size, bad |-> bad]

\* Streams only: markers, a malformed object, an overflow, two groups.
StreamScripts ==
  { Script("a", 0, FALSE, <<>>),
    Script("a", 0, TRUE, <<Obj(0, "Normal", "none"), Obj(1, "EndOfTrack", "none")>>),
    Script("a", 1, FALSE, <<Obj(1, "EndOfTrack", "none"), Obj(0, "Normal", "none")>>),
    Script("b", 0, FALSE, <<Obj(2, "EndOfGroup", "none"), Obj(2, "Normal", "none")>>),
    Script("b", 0, FALSE, <<Obj(0, "Normal", "properties")>>) }

\* Datagrams only: flags, sizes, both kinds of malformed datagram.
PlainDatagrams ==
  { Dgram("a", 1, 0, FALSE, "Normal", 1, "none"),
    Dgram("a", 0, 1, TRUE, "Normal", 2, "none"),
    Dgram("a", 0, 2, FALSE, "EndOfTrack", 1, "none"),
    Dgram("b", 0, 2, FALSE, "EndOfGroup", 1, "none"),
    Dgram("b", 0, 0, FALSE, "Normal", 1, "body"),
    Dgram("b", 0, 0, FALSE, "Normal", 1, "header") }

Symmetry == Permutations(Streams)

NoScripts == { Script("a", 0, FALSE, <<>>) }
NoDatagrams == {}
LightDatagrams ==
  { Dgram("a", 1, 0, FALSE, "Normal", 1, "none"),
    Dgram("b", 0, 2, FALSE, "EndOfGroup", 1, "none") }
\* An end of group by FIN, an end of track, and an object behind it.
MarkedScripts ==
  { Script("a", 0, TRUE, <<Obj(0, "EndOfTrack", "none")>>),
    Script("a", 1, FALSE, <<Obj(0, "EndOfTrack", "none"), Obj(0, "Normal", "none")>>) }

\* No two streams carry the same.
MixedInit == Init /\ \A s, t \in Streams : s # t => script[s] # script[t]
MixedSpec == MixedInit /\ [][Next]_vars
=============================================================================
