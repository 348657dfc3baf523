---------------------------- MODULE MCPublisher ----------------------------
(***************************************************************************)
(* Small instances of Publisher.                                           *)
(***************************************************************************)
EXTENDS Publisher, TLC

\* A track of the namespace whose fields are the given strings of characters.
Track(ns, name) == [ns |-> ns, name |-> name]

A == << <<"a">> >>
B == << <<"b">> >>
Slash == << <<"a", "/", "b">> >>
AB == << <<"a">>, <<"b">> >>

OneTrack == {Track(A, "x")}
SharedTracks == {Track(A, "x"), Track(A, "y"), Track(B, "x")}
SlashTracks == {Track(Slash, "x"), Track(AB, "x")}

Plain == [forward |-> None, filter |-> None, timeout |-> FALSE]
Paused == [Plain EXCEPT !.forward = FALSE]
Filter(type, start, delta) == [type |-> type, start |-> start, delta |-> delta]
With(filter) == [Plain EXCEPT !.filter = filter]

PlainOptions == {Plain}
FilterOptions ==
  {Plain, Paused, [Plain EXCEPT !.forward = TRUE, !.timeout = TRUE],
   With(Filter("LargestObject", <<0, 0>>, 0)), With(Filter("NextGroupStart", <<0, 0>>, 0)),
   With(Filter("AbsoluteStart", <<1, 0>>, 0)), With(Filter("AbsoluteRange", <<0, 1>>, 0))}

Object(group, id, status, end) ==
  [track |-> Track(A, "x"), group |-> group, subgroup |-> 0, id |-> id,
   status |-> status, empty |-> status # None, kind |-> "SubgroupStream",
   endOfSubgroup |-> end = "subgroup", endOfGroup |-> end = "group"]

NoObjects == {}
StreamObjects ==
  {Object(0, 0, None, "no"), Object(0, 1, None, "group"), Object(0, 2, None, "no"),
   Object(1, 1, None, "subgroup"), Object(1, 2, "EndOfTrack", "no")}
FilterObjects ==
  {Object(0, 1, None, "no"), Object(0, 2, "EndOfGroup", "no"), Object(1, 0, None, "no"),
   [Object(1, 1, None, "no") EXCEPT !.kind = "Datagram"]}
LastDatagram ==
  {[Object(0, 0, None, "group") EXCEPT !.kind = "Datagram", !.empty = TRUE]}

\* More than one track is registered only as long as the peer asks for nothing
\* and nothing is published.
Calm ==
  /\ \/ DOMAIN tracks \subseteq OneTrack /\ refused \subseteq {A}
     \/ peerIds = {} /\ gone = {} /\ published = 0
  /\ gone \subseteq {1, 3}
=============================================================================
