----------------------------- MODULE WireProofs -----------------------------
(***************************************************************************)
(* Proofs about what the peer of a Publisher reads.  Namespaces: none is   *)
(* announced without a track, and, if namespace_text() tells them apart,   *)
(* all are.  Data streams: the Object IDs can be recovered from the        *)
(* deltas.  Request streams: the replies come in order, and PUBLISH_DONE   *)
(* reports the streams there were.                                         *)
(***************************************************************************)
EXTENDS PublisherProofs, ListProofs, FiniteSetTheorems

\* namespace_text() never maps two namespaces to the same key.
NamespacesDistinct ==
  \A a, b \in Namespaces : namespace_text(a) = namespace_text(b) => a = b

\* A value of announced_namespaces_: every namespace stands under its text.
IsTable(table) ==
  /\ table \in [DOMAIN table -> Namespaces]
  /\ \A x \in DOMAIN table : namespace_text(table[x]) = x

NamespaceInv ==
  /\ pending \in Seq(Namespaces)
  /\ IsTable(announced)
  /\ NoOrphanNamespace

\* Before the session is ready, all namespaces wait.
AnnouncedInv ==
  /\ session = "Opening" => \A t \in DOMAIN tracks : t.ns \in Range(pending)
  /\ EveryNamespaceAnnounced

AnnounceInv == NamespaceInv /\ (NamespacesDistinct => AnnouncedInv)

\* `table` is the function that on_ready defines.
Announces(table, works) ==
  table = [n \in 0..Len(pending) |->
             IF n = 0 THEN announced ELSE Announce(table[n - 1], pending[n], n \in works)]

-----------------------------------------------------------------------------
(* Namespaces. *)

\* The invariant of the namespaces holds in every reachable state.
THEOREM NamespaceInvariant == Spec => []AnnounceInv

\* announce_namespace() adds the namespace under its text, or finds it there.
<1>AnnounceFacts.
  ASSUME NEW table, IsTable(table), NEW ns \in Namespaces, NEW works \in BOOLEAN
  PROVE  LET after == Announce(table, ns, works)
         IN /\ IsTable(after)
            /\ Range(table) \subseteq Range(after)
            /\ Range(after) \subseteq Range(table) \cup {ns}
            /\ works /\ NamespacesDistinct => ns \in Range(after)
  <2> USE <1>AnnounceFacts
  <2> DEFINE text == namespace_text(ns)
             after == Announce(table, ns, works)
  <2>1. CASE text \in DOMAIN table \/ ~works
    <3>1. after = table
      BY <2>1 DEF Announce
    <3>2. ASSUME works, NamespacesDistinct PROVE ns \in Range(table)
      <4>1. text \in DOMAIN table /\ table[text] \in Namespaces /\ namespace_text(table[text]) = text
        BY <2>1, <3>2 DEF IsTable
      <4>2. table[text] = ns
        BY <3>2, <4>1 DEF NamespacesDistinct
      <4>3. QED
        BY <4>1, <4>2 DEF Range
    <3> HIDE DEF after
    <3>3. QED
      BY <3>1, <3>2 DEF after
  <2>2. CASE ~(text \in DOMAIN table \/ ~works)
    <3>1. after = [x \in DOMAIN table \cup {text} |-> IF x = text THEN ns ELSE table[x]]
      BY <2>2 DEF Announce
    <3>2. /\ DOMAIN after = DOMAIN table \cup {text} /\ after[text] = ns /\ text \notin DOMAIN table
          /\ \A x \in DOMAIN table : after[x] = table[x]
      BY <2>2, <3>1
    <3>3. namespace_text(ns) = text
      OBVIOUS
    <3> HIDE DEF text, after
    <3>4. IsTable(after)
      <4>1. after \in [DOMAIN after -> Namespaces]
        BY <3>1, <3>2 DEF IsTable
      <4>2. \A x \in DOMAIN after : namespace_text(after[x]) = x
        BY <3>2, <3>3 DEF IsTable
      <4>3. QED
        BY <4>1, <4>2 DEF IsTable
    <3>5. Range(after) = Range(table) \cup {ns}
      <4>1. ASSUME NEW y PROVE y \in Range(after) <=> y \in Range(table) \/ y = ns
        BY <3>2 DEF Range
      <4>2. QED
        BY <4>1
    <3>6. QED
      BY <3>4, <3>5 DEF after
  <2> QED
    BY <2>1, <2>2

\* on_ready() announces what waits and does not fail.
<1>ReadyFacts.
  ASSUME IsTable(announced), pending \in Seq(Namespaces), NEW works, on_ready(works)
  PROVE  /\ IsTable(announced')
         /\ Range(announced') \subseteq Range(announced) \cup Range(pending)
         /\ NamespacesDistinct => \A n \in DOMAIN pending \cap works : pending[n] \in Range(announced')
  <2> USE <1>ReadyFacts
  <2> DEFINE L == Len(pending)
             Texts == {namespace_text(ns) : ns \in Namespaces}
             S == {f \in UNION {[D -> Namespaces] : D \in SUBSET Texts} : IsTable(f)}
             step == [z \in S \X (1..L) |-> Announce(z[1], pending[z[2]], z[2] \in works)]
             table == CHOOSE table : Announces(table, works)
  <2>1. L \in Nat /\ DOMAIN pending = 1..L /\ \A n \in 1..L : pending[n] \in Namespaces
    OBVIOUS
  <2>2. \A f : f \in S <=> IsTable(f)
    <3>1. ASSUME NEW f, IsTable(f) PROVE f \in UNION {[D -> Namespaces] : D \in SUBSET Texts}
      <4>1. DOMAIN f \in SUBSET Texts
        BY <3>1 DEF IsTable
      <4>2. f \in [DOMAIN f -> Namespaces]
        BY <3>1 DEF IsTable
      <4>3. QED
        BY <4>1, <4>2
    <3>2. QED
      BY <3>1
  <2> HIDE DEF S, L
  <2>3. \A f \in S, n \in 1..L :
          /\ step[<<f, n>>] = Announce(f, pending[n], n \in works)
          /\ Announce(f, pending[n], n \in works) \in S
    <3>1. ASSUME NEW f \in S, NEW n \in 1..L
          PROVE  Announce(f, pending[n], n \in works) \in S
      <4>1. IsTable(f) /\ pending[n] \in Namespaces /\ (n \in works) \in BOOLEAN
        BY <2>1, <2>2
      <4>2. IsTable(Announce(f, pending[n], n \in works))
        BY Zenon, <4>1, <1>AnnounceFacts
      <4>3. QED
        BY <2>2, <4>2
    <3>2. QED
      BY <3>1
  <2>4. step \in [S \X (1..L) -> S]
    <3>1. \A z \in S \X (1..L) : Announce(z[1], pending[z[2]], z[2] \in works) \in S
      BY Zenon, <2>3
    <3>2. QED
      BY <3>1
  <2> HIDE DEF step
  <2>5. PICK f \in [0..L -> S] : f[0] = announced /\ \A n \in 1..L : f[n] = step[<<f[n - 1], n>>]
    <3>1. announced \in S
      BY <2>2
    <3>2. PICK f : DefinedBy(f, S, announced, L, step)
      BY Zenon, <2>1, <2>4, <3>1, Recursion
    <3>3. QED
      BY Zenon, <3>2 DEF DefinedBy
  <2>6. Announces(f, works)
    <3>1. ASSUME NEW n \in 0..L
          PROVE  f[n] = IF n = 0 THEN announced ELSE Announce(f[n - 1], pending[n], n \in works)
      <4>1. CASE n = 0
        BY <2>5, <4>1
      <4>2. CASE n # 0
        <5>1. n \in 1..L /\ n - 1 \in 0..L
          BY <2>1, <4>2
        <5>2. f[n] = step[<<f[n - 1], n>>] /\ f[n - 1] \in S
          BY <2>5, <5>1
        <5>3. QED
          BY <2>3, <4>2, <5>1, <5>2
      <4>3. QED
        BY <4>1, <4>2
    <3>2. f = [n \in 0..L |-> f[n]]
      BY <2>5
    <3>3. QED
      BY <3>1, <3>2 DEF Announces, L
  <2>7. Announces(table, works)
    BY Zenon, <2>6
  <2>8. announced' = table[L]
    BY Zenon DEF on_ready, Announces, L
  <2> HIDE DEF table
  <2>9. \A n \in 0..L : table[n] = IF n = 0 THEN announced ELSE Announce(table[n - 1], pending[n], n \in works)
    BY <2>7 DEF Announces, L
  <2> DEFINE Good(n) == /\ IsTable(table[n])
                        /\ Range(table[n]) \subseteq Range(announced) \cup Range(pending)
                        /\ NamespacesDistinct =>
                             \A i \in 1..n : i \in works => pending[i] \in Range(table[n])
             B == {n \in 0..L : ~Good(n)}
  <2>10. Good(0)
    <3>1. table[0] = announced /\ 1..0 = {}
      BY <2>1, <2>9
    <3>2. QED
      BY <3>1
  <2>11. ASSUME NEW n \in 1..L, Good(n - 1)
         PROVE  Good(n)
    <3> DEFINE before == table[n - 1]
               after == table[n]
    <3>1. n \in 0..L /\ n # 0 /\ \A i \in 1..n : i \in 1..(n - 1) \/ i = n
      BY <2>1
    <3>2. after = Announce(before, pending[n], n \in works)
      BY <2>9, <3>1
    <3>3. /\ IsTable(before) /\ Range(before) \subseteq Range(announced) \cup Range(pending)
          /\ NamespacesDistinct => \A i \in 1..(n - 1) : i \in works => pending[i] \in Range(before)
      BY <2>11
    <3> HIDE DEF before, after
    <3>4. pending[n] \in Namespaces /\ pending[n] \in Range(pending) /\ (n \in works) \in BOOLEAN
      BY <2>1 DEF Range
    <3>5. /\ IsTable(after) /\ Range(before) \subseteq Range(after)
          /\ Range(after) \subseteq Range(before) \cup {pending[n]}
          /\ n \in works /\ NamespacesDistinct => pending[n] \in Range(after)
      BY Zenon, <3>2, <3>3, <3>4, <1>AnnounceFacts
    <3>6. Range(after) \subseteq Range(announced) \cup Range(pending)
      BY <3>3, <3>4, <3>5
    <3>7. NamespacesDistinct => \A i \in 1..n : i \in works => pending[i] \in Range(after)
      BY <3>1, <3>3, <3>5
    <3>8. QED
      BY <3>5, <3>6, <3>7 DEF after
  <2>12. Good(L)
    <3>1. B \in SUBSET Nat
      BY <2>1
    <3>2. ASSUME NEW n \in B, \A y \in B : n <= y
          PROVE  FALSE
      <4>1. n \in 0..L /\ ~Good(n) /\ n # 0
        BY <2>10
      <4>2. n \in 1..L /\ n - 1 \in 0..L /\ ~(n <= n - 1)
        BY <2>1, <4>1
      <4>3. n - 1 \notin B
        BY <3>2, <4>2
      <4>4. Good(n - 1)
        BY <4>2, <4>3
      <4>5. QED
        BY <2>11, <4>1, <4>2, <4>4
    <3>3. B = {}
      BY Zenon, <3>1, <3>2, Least
    <3>4. L \in 0..L
      BY <2>1
    <3>5. QED
      BY <3>3, <3>4
  <2> QED
    BY <2>1, <2>8, <2>12

\* The session becomes ready.
<1>ReadyStep.
  ASSUME TypeInv, AnnounceInv, BecomesReady
  PROVE  AnnounceInv'
  <2> USE <1>ReadyStep
  <2>1. PICK works \in SUBSET DOMAIN pending : on_ready(works)
    BY DEF BecomesReady
  <2>2. session = "Opening" /\ session' = "Ready" /\ tracks' = tracks
    BY DEF BecomesReady, planeVars
  <2>3. NamespaceInv
    BY DEF AnnounceInv
  <2>4. /\ IsTable(announced')
        /\ Range(announced') \subseteq Range(announced) \cup Range(pending)
        /\ NamespacesDistinct => \A n \in DOMAIN pending \cap works : pending[n] \in Range(announced')
    BY <2>1, <2>3, <1>ReadyFacts DEF NamespaceInv
  <2>5. pending' = <<>> /\ refused' = refused \cup {pending[n] : n \in DOMAIN pending \ works}
    BY Zenon, <2>1, Zenon DEF on_ready
  <2>6. Range(<<>>) = {} /\ <<>> \in Seq(Namespaces)
    BY DEF Range
  <2>7. NamespaceInv'
    <3>1. \A ns \in Range(announced') : HasTrackIn(ns)
      BY <2>3, <2>4 DEF NamespaceInv, NoOrphanNamespace
    <3>2. NoOrphanNamespace'
      BY <2>2, <2>5, <2>6, <3>1 DEF NoOrphanNamespace, HasTrackIn
    <3>3. QED
      BY <2>4, <2>5, <2>6, <3>2 DEF NamespaceInv, IsTable
  <2>8. ASSUME NamespacesDistinct PROVE AnnouncedInv'
    <3>1. ASSUME NEW t \in DOMAIN tracks
          PROVE  t.ns \in Range(announced') \cup refused'
      <4>1. t.ns \in Range(pending)
        BY <2>2, <2>8, <3>1 DEF AnnounceInv, AnnouncedInv
      <4>2. PICK n \in DOMAIN pending : pending[n] = t.ns
        BY <4>1 DEF Range
      <4>3. QED
        BY <2>4, <2>5, <2>8, <4>2
    <3>2. QED
      BY <2>2, <3>1 DEF AnnouncedInv, EveryNamespaceAnnounced
  <2> QED
    BY <2>7, <2>8 DEF AnnounceInv, NamespacesDistinct

\* register_track() announces the namespace or lets it wait.
<1>RegisterNamespaceStep.
  ASSUME TypeInv, AnnounceInv, NEW t \in Tracks, register_track(t)
  PROVE  AnnounceInv'
  <2> USE <1>RegisterNamespaceStep
  <2>1. NamespaceInv /\ t.ns \in Namespaces
    BY DEF AnnounceInv, Namespaces
  <2>2. DOMAIN tracks' = DOMAIN tracks \cup {t} /\ session' = session
    BY DEF register_track
  <2>3. HasTrackIn(t.ns)' /\ \A ns : HasTrackIn(ns) => HasTrackIn(ns)'
    BY <2>2 DEF HasTrackIn
  <2>4. CASE /\ session = "Ready"
             /\ \E works \in BOOLEAN :
                  /\ announced' = Announce(announced, t.ns, works)
                  /\ refused' = IF works THEN refused ELSE refused \cup {t.ns}
             /\ UNCHANGED pending
    <3>1. PICK works \in BOOLEAN : /\ announced' = Announce(announced, t.ns, works)
                                   /\ refused' = IF works THEN refused ELSE refused \cup {t.ns}
      BY <2>4
    <3>2. /\ IsTable(announced')
          /\ Range(announced) \subseteq Range(announced')
          /\ Range(announced') \subseteq Range(announced) \cup {t.ns}
          /\ works /\ NamespacesDistinct => t.ns \in Range(announced')
      BY <2>1, <3>1, <1>AnnounceFacts DEF NamespaceInv
    <3>3. NoOrphanNamespace'
      BY <2>1, <2>3, <2>4, <3>2 DEF NamespaceInv, NoOrphanNamespace
    <3>4. NamespaceInv'
      BY <2>1, <2>4, <3>2, <3>3 DEF NamespaceInv, IsTable
    <3>5. ASSUME NamespacesDistinct PROVE AnnouncedInv'
      <4>1. refused \subseteq refused' /\ (~works => t.ns \in refused')
        BY <3>1
      <4>2. \A x \in DOMAIN tracks : x.ns \in Range(announced) \cup refused
        BY <2>4, <3>5 DEF AnnounceInv, AnnouncedInv, EveryNamespaceAnnounced
      <4>3. \A x \in DOMAIN tracks' : x.ns \in Range(announced') \cup refused'
        BY <2>2, <3>2, <3>5, <4>1, <4>2
      <4>4. QED
        BY <2>2, <2>4, <4>3 DEF AnnouncedInv, EveryNamespaceAnnounced
    <3>6. QED
      BY <3>4, <3>5 DEF AnnounceInv, NamespacesDistinct
  <2>5. CASE session # "Ready" /\ pending' = Append(pending, t.ns) /\ UNCHANGED <<announced, refused>>
    <3>1. pending' \in Seq(Namespaces) /\ Range(pending') = Range(pending) \cup {t.ns}
      <4>1. pending \in Seq(Namespaces)
        BY <2>1 DEF NamespaceInv
      <4>2. /\ Len(pending) \in Nat /\ DOMAIN pending = 1..Len(pending)
            /\ pending' \in Seq(Namespaces) /\ DOMAIN pending' = 1..(Len(pending) + 1)
            /\ \A i \in 1..Len(pending) : pending'[i] = pending[i]
            /\ pending'[Len(pending) + 1] = t.ns
        BY <2>1, <2>5, <4>1
      <4>3. /\ \A i \in 1..(Len(pending) + 1) : i \in 1..Len(pending) \/ i = Len(pending) + 1
            /\ \A i \in 1..Len(pending) : i \in 1..(Len(pending) + 1)
            /\ Len(pending) + 1 \in 1..(Len(pending) + 1)
        BY <4>2
      <4>4. ASSUME NEW x
            PROVE  x \in Range(pending') <=> x \in Range(pending) \/ x = t.ns
        BY <4>2, <4>3 DEF Range
      <4>5. QED
        BY <4>2, <4>4
    <3>2. NoOrphanNamespace'
      BY <2>1, <2>3, <2>5, <3>1 DEF NamespaceInv, NoOrphanNamespace
    <3>3. NamespaceInv'
      BY <2>1, <2>5, <3>1, <3>2 DEF NamespaceInv, IsTable
    <3>4. ASSUME NamespacesDistinct PROVE AnnouncedInv'
      BY <2>2, <2>5, <3>1, <3>4 DEF AnnounceInv, AnnouncedInv, EveryNamespaceAnnounced
    <3>5. QED
      BY <3>3, <3>4 DEF AnnounceInv, NamespacesDistinct
  <2> QED
    BY <2>4, <2>5 DEF register_track

\* withdraw_namespace() finds the namespace wherever it stands.
<1>WithdrawFacts.
  ASSUME NamespaceInv, NEW ns \in Namespaces, withdraw_namespace(ns)
  PROVE  /\ pending' \in Seq(Namespaces) /\ Range(pending') = Range(pending) \ {ns}
         /\ IsTable(announced') /\ Range(announced') \subseteq Range(announced) \ {ns}
         /\ NamespacesDistinct => Range(announced') = Range(announced) \ {ns}
  <2> USE <1>WithdrawFacts
  <2> DEFINE text == namespace_text(ns)
  <2>1. pending' \in Seq(Namespaces) /\ Range(pending') = Range(pending) \ {ns}
    BY WithoutFacts DEF NamespaceInv, withdraw_namespace
  <2>2. IsTable(announced)
    BY DEF NamespaceInv
  <2>3. /\ DOMAIN announced' = DOMAIN announced \ {text}
        /\ announced' = [x \in DOMAIN announced \ {text} |-> announced[x]]
    BY DEF withdraw_namespace, Restrict
  <2>4. \A x \in DOMAIN announced' : x \in DOMAIN announced /\ announced'[x] = announced[x] /\ x # text
    BY <2>3
  <2>5. IsTable(announced')
    BY <2>2, <2>3, <2>4 DEF IsTable
  <2>6. \A x \in DOMAIN announced : x # text => announced[x] # ns
    BY <2>2 DEF IsTable
  <2> HIDE DEF text
  <2>7. Range(announced') \subseteq Range(announced) \ {ns}
    BY <2>4, <2>6 DEF Range
  <2>8. ASSUME NamespacesDistinct
        PROVE  Range(announced) \ {ns} \subseteq Range(announced')
    <3>1. \A x \in DOMAIN announced : announced[x] # ns => x # text
      BY <2>2, <2>8 DEF IsTable, NamespacesDistinct, text
    <3>2. \A x \in DOMAIN announced : x # text => x \in DOMAIN announced' /\ announced'[x] = announced[x]
      BY <2>3
    <3>3. QED
      BY <3>1, <3>2 DEF Range
  <2> QED
    BY <2>1, <2>5, <2>7, <2>8

\* unregister_track() withdraws the namespace with its last track.
<1>UnregisterStep.
  ASSUME TypeInv, AnnounceInv, NEW t \in Tracks, unregister_track(t)
  PROVE  AnnounceInv'
  <2> USE <1>UnregisterStep
  <2>1. NamespaceInv /\ t.ns \in Namespaces
    BY DEF AnnounceInv, Namespaces
  <2>2. /\ t \in DOMAIN tracks /\ DOMAIN tracks' = DOMAIN tracks \ {t} /\ session' = session
        /\ refused' = refused
    BY DEF unregister_track, Registered, Restrict, DetachedTracks
  <2>3. CASE LastOf(t) /\ withdraw_namespace(t.ns)
    <3>1. /\ pending' \in Seq(Namespaces) /\ Range(pending') = Range(pending) \ {t.ns}
          /\ IsTable(announced') /\ Range(announced') \subseteq Range(announced) \ {t.ns}
          /\ NamespacesDistinct => Range(announced') = Range(announced) \ {t.ns}
      BY <2>1, <2>3, <1>WithdrawFacts
    <3>2. \A ns : HasTrackIn(ns) /\ ns # t.ns => HasTrackIn(ns)'
      BY <2>2 DEF HasTrackIn
    <3>3. NoOrphanNamespace'
      BY <2>1, <3>1, <3>2 DEF NamespaceInv, NoOrphanNamespace
    <3>4. NamespaceInv'
      BY <3>1, <3>3 DEF NamespaceInv, IsTable
    <3>5. \A x \in DOMAIN tracks' : x \in DOMAIN tracks /\ x.ns # t.ns
      BY <2>2, <2>3 DEF LastOf
    <3>6. ASSUME NamespacesDistinct PROVE AnnouncedInv'
      BY <2>2, <3>1, <3>5, <3>6 DEF AnnounceInv, AnnouncedInv, EveryNamespaceAnnounced
    <3>7. QED
      BY <3>4, <3>6 DEF AnnounceInv, NamespacesDistinct
  <2>4. CASE ~LastOf(t) /\ UNCHANGED <<pending, announced>>
    <3>1. \A ns : HasTrackIn(ns) => HasTrackIn(ns)'
      BY <2>2, <2>4 DEF HasTrackIn, LastOf
    <3>2. NamespaceInv'
      BY <2>1, <2>4, <3>1 DEF NamespaceInv, NoOrphanNamespace, IsTable
    <3>3. ASSUME NamespacesDistinct PROVE AnnouncedInv'
      BY <2>2, <2>4, <3>3 DEF AnnounceInv, AnnouncedInv, EveryNamespaceAnnounced
    <3>4. QED
      BY <3>2, <3>3 DEF AnnounceInv, NamespacesDistinct
  <2> QED
    BY <2>3, <2>4 DEF unregister_track

\* Other steps change neither the namespaces nor which tracks there are.
<1>NamespaceFrame.
  ASSUME AnnounceInv, DOMAIN tracks' = DOMAIN tracks, UNCHANGED announceVars,
         session' \in {session, "Closing", "Closed"}
  PROVE  AnnounceInv'
  <2> USE <1>NamespaceFrame
  <2>1. pending' = pending /\ announced' = announced /\ refused' = refused
    BY DEF announceVars
  <2>2. NamespaceInv'
    BY <2>1 DEF AnnounceInv, NamespaceInv, IsTable, NoOrphanNamespace, HasTrackIn
  <2>3. ASSUME NamespacesDistinct PROVE AnnouncedInv'
    BY <2>1, <2>3 DEF AnnounceInv, AnnouncedInv, EveryNamespaceAnnounced
  <2> QED
    BY <2>2, <2>3 DEF AnnounceInv, NamespacesDistinct

\* begin_close() unregisters no track.
<1>CloseTracks.
  ASSUME begin_close
  PROVE  DOMAIN tracks' = DOMAIN tracks /\ session' \in {session, "Closing", "Closed"}
  BY <1>CloseTracks DEF begin_close, terminate_subscriptions, cancel, DetachedTracks

\* No namespace is announced at first.
<1>NamespaceInit. Init => AnnounceInv
  <2> SUFFICES ASSUME Init PROVE AnnounceInv
    OBVIOUS
  <2>1. DOMAIN <<>> = {} /\ Range(<<>>) = {} /\ <<>> \in [{} -> Namespaces] /\ <<>> \in Seq(Namespaces)
    BY DEF Range
  <2> QED
    BY <2>1 DEF Init, PlaneInit, AnnounceInv, NamespaceInv, IsTable, NoOrphanNamespace, AnnouncedInv,
                EveryNamespaceAnnounced

\* Every step keeps the invariant of the namespaces.
<1>NamespaceNext.
  ASSUME PublisherInv, AnnounceInv, [Next]_vars
  PROVE  AnnounceInv'
  <2> USE <1>NamespaceNext
  <2> USE DEF planeVars
  <2>1. TypeInv
    BY DEF PublisherInv
  <2>2. CASE BecomesReady
    BY <2>1, <2>2, <1>ReadyStep
  <2>3. CASE ClosesSession
    BY <2>3, <1>CloseTracks, <1>NamespaceFrame DEF ClosesSession
  <2>4. CASE ShutdownComplete
    BY <2>4, <1>NamespaceFrame DEF ShutdownComplete
  <2>5. CASE PeerRequest
    <3>1. UNCHANGED announceVars
      BY Zenon, <2>5 DEF PeerRequest, RejectSubscribe, AcceptSubscribe, SubscribeOkFails, AcceptUpdate,
                  RejectUpdate, InvalidRequestId, CancelRequest, PeerStopsRequest, PeerStopsData
    <3>2. /\ DOMAIN tracks' = DOMAIN tracks
          /\ session' \in {session, "Closing", "Closed"}
      <4>1. ASSUME NEW r \in PeerIds, NEW t \in Tracks, NEW options \in Options,
                   \/ RejectSubscribe(r, t, options)
                   \/ AcceptSubscribe(r, t, options)
                   \/ SubscribeOkFails(r, t, options)
            PROVE  DOMAIN tracks' = DOMAIN tracks /\ session' \in {session, "Closing", "Closed"}
        BY Zenon, <4>1, <1>CloseTracks
           DEF RejectSubscribe, AcceptSubscribe, attach_subscription, SubscribeOkFails
      <4>2. ASSUME NEW r \in PeerIds, NEW u \in PeerIds, NEW options \in Options,
                   AcceptUpdate(r, u, options) \/ RejectUpdate(r, u, options)
            PROVE  DOMAIN tracks' = DOMAIN tracks /\ session' \in {session, "Closing", "Closed"}
        BY <4>2 DEF AcceptUpdate, RejectUpdate, DetachedTracks
      <4>3. ASSUME NEW r \in PeerIds, InvalidRequestId(r) \/ CancelRequest(r) \/ PeerStopsRequest(r)
            PROVE  DOMAIN tracks' = DOMAIN tracks /\ session' \in {session, "Closing", "Closed"}
        BY <4>3, <1>CloseTracks DEF InvalidRequestId, CancelRequest, cancel, DetachedTracks, PeerStopsRequest
      <4>4. CASE PeerStopsData
        BY <4>4 DEF PeerStopsData, PeerStopsStream
      <4>5. QED
        BY <2>5, <4>1, <4>2, <4>3, <4>4 DEF PeerRequest
    <3>3. QED
      BY <3>1, <3>2, <1>NamespaceFrame
  <2>6. ASSUME NEW t \in Tracks, end_track(t) \/ EndTrackThrows(t)
        PROVE  AnnounceInv'
    <3>1. /\ UNCHANGED announceVars /\ session' = session
          /\ DOMAIN tracks' = DOMAIN tracks
      BY Zenon, <2>6 DEF end_track, EndTrackThrows, DetachedTracks
    <3>2. QED
      BY <3>1, <1>NamespaceFrame
  <2>7. ASSUME NEW o \in Objects, publish(o)
        PROVE  AnnounceInv'
    BY <2>7, <1>NamespaceFrame DEF publish, PublishBegins
  <2>8. ASSUME NEW r \in PeerIds, Delivers(r)
        PROVE  AnnounceInv'
    <3>1. /\ UNCHANGED announceVars /\ session' = session
          /\ DOMAIN tracks' = DOMAIN tracks
      BY Zenon, <2>8 DEF Delivers, SkipsDetached, Withholds, SendsDatagram, SendsOnNewStream, SendsOnOpenStream
    <3>2. QED
      BY <3>1, <1>NamespaceFrame
  <2>9. ASSUME NEW r \in PeerIds, OpenFails(r)
        PROVE  AnnounceInv'
    BY <2>9, <1>CloseTracks, <1>NamespaceFrame DEF OpenFails
  <2>10. ASSUME NEW r \in PeerIds, Completed(r)
         PROVE  AnnounceInv'
    BY <2>10, <1>NamespaceFrame DEF Completed, DetachedTracks
  <2>11. CASE UNCHANGED vars
    BY <2>11, <1>NamespaceFrame DEF vars
  <2> QED
    BY <2>1, <2>2, <2>3, <2>4, <2>5, <2>6, <2>7, <2>8, <2>9, <2>10, <2>11, <1>RegisterNamespaceStep,
       <1>UnregisterStep DEF Next
<1>1. PublisherInv /\ AnnounceInv /\ [Next]_vars => AnnounceInv'
  BY <1>NamespaceNext
<1> QED
  BY <1>1, <1>NamespaceInit, PublisherInvariant, PTL DEF Spec

\* No namespace is announced, or waits to be, without a registered track.
THEOREM NamespacesNeverOrphaned == Spec => []NoOrphanNamespace
<1>1. AnnounceInv => NoOrphanNamespace
  BY DEF AnnounceInv, NamespaceInv
<1> QED
  BY <1>1, NamespaceInvariant, PTL

\* On a ready session every namespace is announced unless that failed, provided
\* that namespace_text() tells the namespaces apart.
THEOREM NamespacesAlwaysAnnounced == Spec => [](NamespacesDistinct => EveryNamespaceAnnounced)
<1>1. AnnounceInv => (NamespacesDistinct => EveryNamespaceAnnounced)
  BY DEF AnnounceInv, AnnouncedInv
<1> QED
  BY <1>1, NamespaceInvariant, PTL

-----------------------------------------------------------------------------
(* What a receiver decodes. *)

\* `id` is the function that Decoded defines for the objects.
DecodesTo(id, objects) ==
  id = [n \in 0..Len(objects) |->
          IF n = 0 THEN 0
          ELSE IF n = 1 THEN objects[1].delta ELSE id[n - 1] + objects[n].delta + 1]

\* The receiver recovers the Object IDs that were published.
THEOREM IdsAlwaysRecovered == Spec => []ObjectIdsRecovered

\* The deltas of a coherent stream determine the Object IDs.
<1>CoherentDecodes.
  ASSUME NEW objects \in Seq(SentObjects), Coherent(objects)
  PROVE  Decoded(objects) = [i \in DOMAIN objects |-> objects[i].id]
  <2> USE <1>CoherentDecodes
  <2> DEFINE L == Len(objects)
             ids == [n \in 0..L |-> IF n = 0 THEN 0 ELSE objects[n].id]
             t == CHOOSE t : DecodesTo(t, objects)
  <2>1. L \in Nat /\ DOMAIN objects = 1..L /\ \A n \in 1..L : objects[n].id \in Nat /\ objects[n].delta \in Nat
    <3>1. L \in Nat /\ DOMAIN objects = 1..L /\ \A n \in 1..L : objects[n] \in SentObjects
      OBVIOUS
    <3>2. QED
      BY <3>1 DEF SentObjects
  <2>2. \A n \in 1..L : objects[n].delta =
          IF n = 1 THEN objects[n].id ELSE objects[n].id - objects[n - 1].id - 1
    BY Zenon, <2>1 DEF Coherent
  <2>3. Decoded(objects) = [n \in DOMAIN objects |-> t[n]]
    BY Zenon DEF Decoded, DecodesTo
  <2>4. DecodesTo(ids, objects)
    <3>1. ASSUME NEW n \in 0..L
          PROVE  ids[n] = IF n = 0 THEN 0
                          ELSE IF n = 1 THEN objects[1].delta ELSE ids[n - 1] + objects[n].delta + 1
      <4>1. CASE n = 0
        BY <2>1, <4>1
      <4>2. CASE n = 1
        BY <2>1, <2>2, <4>2
      <4>3. CASE n > 1
        <5>1. n \in 1..L /\ n - 1 \in 1..L /\ n - 1 # 0 /\ n - 1 \in 0..L /\ n # 0 /\ n # 1
          BY <2>1, <4>3
        <5>2. ids[n - 1] = objects[n - 1].id /\ ids[n] = objects[n].id
          BY <5>1
        <5>3. objects[n].delta = objects[n].id - objects[n - 1].id - 1
          BY <2>2, <5>1
        <5>4. objects[n].id \in Nat /\ objects[n - 1].id \in Nat
          BY <2>1, <5>1
        <5>5. QED
          BY <5>1, <5>2, <5>3, <5>4
      <4>4. QED
        BY <2>1, <4>1, <4>2, <4>3
    <3>2. ids = [n \in 0..L |-> ids[n]]
      OBVIOUS
    <3> HIDE DEF ids
    <3>3. QED
      BY <3>1, <3>2 DEF DecodesTo
  <2>5. DecodesTo(t, objects)
    BY <2>4
  <2> HIDE DEF t, ids, L
  <2>6. \A n \in 0..L : /\ t[n] = IF n = 0 THEN 0
                                  ELSE IF n = 1 THEN objects[1].delta ELSE t[n - 1] + objects[n].delta + 1
                        /\ ids[n] = IF n = 0 THEN 0
                                    ELSE IF n = 1 THEN objects[1].delta ELSE ids[n - 1] + objects[n].delta + 1
    BY Zenon, <2>4, <2>5 DEF DecodesTo, L
  <2>7. \A n \in 0..L : t[n] = ids[n]
    <3> SUFFICES ASSUME {n \in 0..L : t[n] # ids[n]} # {}
                 PROVE  FALSE
      OBVIOUS
    <3>1. {n \in 0..L : t[n] # ids[n]} \in SUBSET Nat
      BY <2>1
    <3>2. PICK n \in {k \in 0..L : t[k] # ids[k]} : \A k \in {k \in 0..L : t[k] # ids[k]} : n <= k
      BY Zenon, <3>1, Least
    <3>3. n \in 0..L /\ t[n] # ids[n] /\ n # 0 /\ n # 1
      BY <2>6, <3>2
    <3>4. n - 1 \in 0..L /\ ~(n <= n - 1)
      BY <2>1, <3>3
    <3>5. t[n - 1] = ids[n - 1]
      BY <3>2, <3>4
    <3>6. QED
      BY <2>6, <3>3, <3>5
  <2>8. \A n \in DOMAIN objects : t[n] = objects[n].id
    <3>1. \A n \in 1..L : n \in 0..L /\ n # 0
      BY <2>1
    <3>2. \A n \in 1..L : ids[n] = objects[n].id
      BY <3>1 DEF ids
    <3>3. QED
      BY <2>1, <2>7, <3>1, <3>2
  <2> QED
    BY <2>3, <2>8
<1>1. ASSUME PublisherInv, WireInv PROVE ObjectIdsRecovered
  <2>1. ASSUME NEW n \in DOMAIN wire
        PROVE  wire[n].objects \in Seq(SentObjects) /\ Coherent(wire[n].objects)
    <3>1. wire[n] \in DataStreams
      BY <1>1 DEF PublisherInv, TypeInv
    <3>2. QED
      BY <1>1, <3>1 DEF DataStreams, WireInv, CoherentInv
  <2>2. QED
    BY <2>1, <1>CoherentDecodes DEF ObjectIdsRecovered
<1> QED
  BY <1>1, PublisherInvariant, WireInvariant, PTL

Messages ==
  {<<"ok">>, <<"error">>, <<"updateOk">>, <<"updateError">>, <<"reset">>} \cup ({"done"} \X Nat)

\* The replies on a request stream are in order (RepliesInOrder).
Orderly(s) ==
  \A i \in DOMAIN s :
    /\ (i = 1) <=> Head(s[i]) \in {"ok", "error"}
    /\ Head(s[i]) \in {"error", "done", "reset"} => i = Len(s)
    /\ Head(s[i]) = "updateError" => i < Len(s) /\ Head(s[i + 1]) = "done"

\* The replies to a request that is established.
Ongoing(s) ==
  s # <<>> /\ \A i \in DOMAIN s : Head(s[i]) = IF i = 1 THEN "ok" ELSE "updateOk"

\* Every PUBLISH_DONE reports c streams.
Reported(s, c) == \A i \in DOMAIN s : Head(s[i]) = "done" => s[i][2] = c

ReplyInv ==
  /\ replies \in [PeerIds -> Seq(Messages)]
  /\ \A r \in PeerIds \ peerIds : replies[r] = <<>>
  /\ \A r \in requests : Ongoing(replies[r])
  /\ \A r \in PeerIds : Orderly(replies[r])

\* The counter of a subscription is the number of streams opened for it.
CountInv ==
  /\ \A n \in DOMAIN wire : wire[n].req \in peerIds
  /\ \A r \in DOMAIN subs : subs[r].count = Cardinality(StreamsOf(r))
  /\ ~LongReasons => \A r \in PeerIds : Reported(replies[r], Cardinality(StreamsOf(r)))

-----------------------------------------------------------------------------
(* What the operations do to the replies. *)

\* How a step may answer the request r.
Answers(r) ==
  /\ \/ replies'[r] = replies[r]
     \/ r \in requests /\ replies'[r] = Append(replies[r], <<"updateOk">>)
     \/ r \in requests \ requests' /\ replies'[r] = Append(replies[r], <<"reset">>)
     \/ r \in requests \ requests' /\ replies'[r] = Append(replies[r], Done(r))
     \/ r \in requests \ requests' /\ replies'[r] = replies[r] \o Refusing(r)
     \/ r \in peerIds' \ peerIds /\ replies'[r] = << <<"ok">> >>
     \/ r \in (peerIds' \ peerIds) \ requests' /\ replies'[r] = << <<"error">> >>
  /\ r \in requests' \ requests => r \in peerIds' \ peerIds /\ replies'[r] = << <<"ok">> >>

AnswersAll ==
  replies' = [r \in PeerIds |-> replies'[r]] /\ \A r \in PeerIds : Answers(r)

\* No stream is opened, and the counters say so.
CountsKept ==
  /\ DOMAIN wire' = DOMAIN wire /\ \A n \in DOMAIN wire : wire'[n].req = wire[n].req
  /\ \A r \in DOMAIN subs' : \/ r \in DOMAIN subs /\ subs'[r].count = subs[r].count
                             \/ r \notin peerIds /\ subs'[r].count = 0

-----------------------------------------------------------------------------
(* The theorems. *)

\* The invariant of the replies holds in every reachable state.
THEOREM ReplyInvariant == Spec => [](ReplyInv /\ CountInv)

\* What follows an established request.
<1>AppendReply.
  ASSUME NEW s \in Seq(Messages), Ongoing(s), NEW m \in Messages
  PROVE  /\ Append(s, m) \in Seq(Messages)
         /\ Head(m) = "updateOk" => Ongoing(Append(s, m))
         /\ Head(m) \in {"updateOk", "done", "reset"} => Orderly(Append(s, m))
  <2> USE <1>AppendReply
  <2> DEFINE L == Len(s)
             a == Append(s, m)
  <2>1. /\ L \in Nat /\ DOMAIN s = 1..L /\ L # 0
        /\ a \in Seq(Messages) /\ Len(a) = L + 1 /\ DOMAIN a = 1..(L + 1)
        /\ \A i \in 1..L : a[i] = s[i]
        /\ a[L + 1] = m
    BY DEF Ongoing
  <2>2. \A i \in 1..L : Head(a[i]) = IF i = 1 THEN "ok" ELSE "updateOk"
    BY <2>1 DEF Ongoing
  <2>3. L + 1 # 1 /\ a # <<>>
    BY <2>1
  <2> HIDE DEF a, L
  <2>4. ASSUME Head(m) = "updateOk" PROVE Ongoing(a)
    BY <2>1, <2>2, <2>3, <2>4 DEF Ongoing
  <2>5. ASSUME Head(m) \in {"updateOk", "done", "reset"} PROVE Orderly(a)
    <3> SUFFICES ASSUME NEW i \in 1..(L + 1)
                 PROVE  /\ (i = 1) <=> Head(a[i]) \in {"ok", "error"}
                        /\ Head(a[i]) \in {"error", "done", "reset"} => i = Len(a)
                        /\ Head(a[i]) # "updateError"
      BY <2>1 DEF Orderly
    <3>1. CASE i \in 1..L
      BY <2>2, <3>1
    <3>2. CASE i = L + 1
      BY <2>1, <2>3, <2>5, <3>2
    <3>3. QED
      BY <2>1, <3>1, <3>2
  <2> QED
    BY <2>1, <2>4, <2>5 DEF a

\* A refused update: REQUEST_ERROR, then PUBLISH_DONE.
<1>RefuseReply.
  ASSUME NEW s \in Seq(Messages), Ongoing(s), NEW c \in Nat
  PROVE  LET a == s \o << <<"updateError">>, <<"done", c>> >>
         IN a \in Seq(Messages) /\ Orderly(a) /\ Reported(a, c)
  <2> USE <1>RefuseReply
  <2> DEFINE L == Len(s)
             e == <<"updateError">>
             d == <<"done", c>>
             a == s \o <<e, d>>
  <2>1. e \in Messages /\ d \in Messages /\ Head(e) = "updateError" /\ Head(d) = "done" /\ d[2] = c
    BY DEF Messages
  <2> HIDE DEF e, d
  <2>2. /\ L \in Nat /\ DOMAIN s = 1..L /\ L # 0
        /\ a \in Seq(Messages) /\ Len(a) = L + 2 /\ DOMAIN a = 1..(L + 2)
        /\ \A i \in 1..L : a[i] = s[i]
        /\ a[L + 1] = e /\ a[L + 2] = d
    BY <2>1 DEF Ongoing
  <2>3. \A i \in 1..L : Head(a[i]) = IF i = 1 THEN "ok" ELSE "updateOk"
    BY <2>2 DEF Ongoing
  <2>4. /\ L + 1 # 1 /\ L + 2 # 1 /\ L + 1 < L + 2 /\ (L + 1) + 1 = L + 2
        /\ \A i \in 1..(L + 2) : i \in 1..L \/ i = L + 1 \/ i = L + 2
    BY <2>2
  <2> HIDE DEF a, L
  <2>5. Orderly(a)
    <3> SUFFICES ASSUME NEW i \in 1..(L + 2)
                 PROVE  /\ (i = 1) <=> Head(a[i]) \in {"ok", "error"}
                        /\ Head(a[i]) \in {"error", "done", "reset"} => i = Len(a)
                        /\ Head(a[i]) = "updateError" => i < Len(a) /\ Head(a[i + 1]) = "done"
      BY <2>2 DEF Orderly
    <3>1. CASE i \in 1..L
      BY <2>3, <3>1
    <3>2. CASE i = L + 1
      BY <2>1, <2>2, <2>4, <3>2
    <3>3. CASE i = L + 2
      BY <2>1, <2>2, <2>4, <3>3
    <3>4. QED
      BY <2>4, <3>1, <3>2, <3>3
  <2>6. Reported(a, c)
    BY Zenon, <2>1, <2>2, <2>3, <2>4 DEF Reported
  <2> QED
    BY Zenon, <2>2, <2>5, <2>6 DEF a, e, d

\* The first reply.
<1>FirstReply.
  /\ <<>> \in Seq(Messages) /\ Orderly(<<>>)
  /\ << <<"ok">> >> \in Seq(Messages) /\ Ongoing(<< <<"ok">> >>) /\ Orderly(<< <<"ok">> >>)
  /\ << <<"error">> >> \in Seq(Messages) /\ Orderly(<< <<"error">> >>)
  <2> DEFINE k == <<"ok">>
             e == <<"error">>
  <2>1. k \in Messages /\ e \in Messages /\ Head(k) = "ok" /\ Head(e) = "error"
    BY DEF Messages
  <2> HIDE DEF k, e
  <2>2. <<k>> \in Seq(Messages) /\ Len(<<k>>) = 1 /\ DOMAIN <<k>> = {1} /\ <<k>>[1] = k /\ <<k>> # <<>>
    BY <2>1
  <2>3. <<e>> \in Seq(Messages) /\ Len(<<e>>) = 1 /\ DOMAIN <<e>> = {1} /\ <<e>>[1] = e
    BY <2>1
  <2>4. Ongoing(<<k>>)
    BY <2>1, <2>2 DEF Ongoing
  <2>5. Orderly(<<k>>) /\ Orderly(<<e>>)
    BY <2>1, <2>2, <2>3 DEF Orderly
  <2>6. <<>> \in Seq(Messages) /\ Orderly(<<>>)
    BY DEF Orderly
  <2> QED
    BY <2>2, <2>3, <2>4, <2>5, <2>6 DEF k, e

\* PUBLISH_DONE is the only reply with a count.
<1>AppendReported.
  ASSUME NEW s \in Seq(Messages), Ongoing(s), NEW m \in Messages, NEW c,
         Head(m) = "done" => m[2] = c
  PROVE  Reported(Append(s, m), c)
  <2> USE <1>AppendReported
  <2> DEFINE L == Len(s)
             a == Append(s, m)
  <2>1. /\ L \in Nat /\ DOMAIN s = 1..L
        /\ DOMAIN a = 1..(L + 1) /\ \A i \in 1..L : a[i] = s[i]
        /\ a[L + 1] = m
        /\ \A i \in 1..(L + 1) : i \in 1..L \/ i = L + 1
    OBVIOUS
  <2> HIDE DEF a, L
  <2>2. \A i \in 1..L : Head(a[i]) # "done"
    BY <2>1 DEF Ongoing
  <2> QED
    BY <2>1, <2>2 DEF Reported, a

\* The message Done(r) and what refuses an update.
<1>DoneFacts.
  ASSUME TypeInv, NEW r
  PROVE  /\ CountOf(r) \in Nat /\ Done(r) \in Messages /\ Head(Done(r)) = "done"
         /\ Done(r)[2] = CountOf(r)
         /\ Refusing(r) = << <<"updateError">>, <<"done", CountOf(r)>> >>
  <2> USE <1>DoneFacts
  <2>1. CountOf(r) \in Nat
    BY DEF TypeInv, CountOf, SubscriptionSends
  <2> QED
    BY <2>1 DEF Done, Refusing, Messages

\* What one request is sent keeps the order.
<1>AnswerOne.
  ASSUME PublisherInv, ReplyInv, NEW r \in PeerIds, Answers(r)
  PROVE  /\ replies'[r] \in Seq(Messages) /\ Orderly(replies'[r])
         /\ r \in requests' => Ongoing(replies'[r])
  <2> USE <1>AnswerOne
  <2> DEFINE s == replies[r]
             a == replies'[r]
  <2>1. /\ TypeInv /\ s \in Seq(Messages) /\ Orderly(s)
        /\ r \in requests => Ongoing(s)
    BY DEF PublisherInv, ReplyInv
  <2>2. <<"updateOk">> \in Messages /\ <<"reset">> \in Messages
        /\ Head(<<"updateOk">>) = "updateOk" /\ Head(<<"reset">>) = "reset"
    BY DEF Messages
  <2>3. r \in requests' \ requests => a = << <<"ok">> >>
    BY Zenon DEF Answers
  <2>4. CASE r \in requests' \ requests \/ a = << <<"ok">> >>
    <3>1. a = << <<"ok">> >>
      BY <2>3, <2>4
    <3>2. QED
      BY <3>1, <1>FirstReply
  <2>5. CASE a = s /\ r \notin requests' \ requests
    BY <2>1, <2>5
  <2>6. CASE r \in requests /\ a = Append(s, <<"updateOk">>)
    BY <2>1, <2>2, <2>6, <1>AppendReply
  <2>7. CASE r \in requests \ requests' /\ a = Append(s, <<"reset">>)
    BY <2>1, <2>2, <2>7, <1>AppendReply
  <2>8. CASE r \in requests \ requests' /\ a = Append(s, Done(r))
    BY Zenon, <2>1, <2>8, <1>AppendReply, <1>DoneFacts
  <2>9. CASE r \in requests \ requests' /\ a = s \o Refusing(r)
    BY Zenon, <2>1, <2>9, <1>RefuseReply, <1>DoneFacts
  <2>10. CASE r \notin requests' /\ a = << <<"error">> >>
    BY <2>10, <1>FirstReply
  <2> QED
    BY Zenon, <2>4, <2>5, <2>6, <2>7, <2>8, <2>9, <2>10 DEF Answers

\* Steps that answer in order keep the replies in order.
<1>ReplyStep.
  ASSUME PublisherInv, ReplyInv, AnswersAll, peerIds \subseteq peerIds', requests' \subseteq PeerIds
  PROVE  ReplyInv'
  <2> USE <1>ReplyStep
  <2>1. ASSUME NEW r \in PeerIds
        PROVE  /\ replies'[r] \in Seq(Messages) /\ Orderly(replies'[r])
               /\ r \in requests' => Ongoing(replies'[r])
    BY <1>AnswerOne DEF AnswersAll
  <2>2. replies' \in [PeerIds -> Seq(Messages)]
    BY <2>1 DEF AnswersAll
  <2>3. ASSUME NEW r \in PeerIds \ peerIds'
        PROVE  replies'[r] = <<>>
    <3>1. r \notin peerIds /\ r \notin requests
      BY <2>3 DEF PublisherInv, TableInv
    <3>2. replies'[r] = replies[r]
      BY <2>3, <3>1 DEF AnswersAll, Answers
    <3>3. QED
      BY <2>3, <3>1, <3>2 DEF ReplyInv
  <2> QED
    BY <2>1, <2>2, <2>3 DEF ReplyInv, Orderly, Ongoing

\* PUBLISH_DONE reports what the subscription has counted.
<1>ReportOne.
  ASSUME PublisherInv, ReplyInv, CountInv, ~LongReasons, NEW r \in PeerIds, Answers(r)
  PROVE  Reported(replies'[r], Cardinality(StreamsOf(r)))
  <2> USE <1>ReportOne
  <2> DEFINE s == replies[r]
             a == replies'[r]
             c == Cardinality(StreamsOf(r))
  <2>1. /\ TypeInv /\ s \in Seq(Messages) /\ Reported(s, c)
        /\ r \in requests => Ongoing(s)
    BY DEF PublisherInv, ReplyInv, CountInv
  <2>2. <<"updateOk">> \in Messages /\ <<"reset">> \in Messages
        /\ Head(<<"updateOk">>) = "updateOk" /\ Head(<<"reset">>) = "reset"
    BY DEF Messages
  <2>3. r \in requests => CountOf(r) = c
    BY Zenon DEF PublisherInv, TableInv, CountInv, CountOf
  <2>4. Reported(<< <<"ok">> >>, c) /\ Reported(<< <<"error">> >>, c)
    BY DEF Reported
  <2> SUFFICES Reported(a, c)
    OBVIOUS
  <2> HIDE DEF c
  <2>5. CASE r \in requests /\ a = Append(s, <<"updateOk">>)
    BY Zenon, <2>1, <2>2, <2>5, <1>AppendReported
  <2>6. CASE r \in requests \ requests' /\ a = Append(s, <<"reset">>)
    BY <2>1, <2>2, <2>6, <1>AppendReported
  <2>7. CASE r \in requests \ requests' /\ a = Append(s, Done(r))
    BY Zenon, <2>1, <2>3, <2>7, <1>AppendReported, <1>DoneFacts
  <2>8. CASE r \in requests \ requests' /\ a = s \o Refusing(r)
    BY Zenon, <2>1, <2>3, <2>8, <1>RefuseReply, <1>DoneFacts
  <2>9. CASE a \in {s, << <<"ok">> >>, << <<"error">> >>}
    BY <2>1, <2>4, <2>9
  <2> QED
    BY Zenon, <2>5, <2>6, <2>7, <2>8, <2>9 DEF Answers

\* Steps that open no stream keep the counters exact.
<1>CountStep.
  ASSUME PublisherInv, ReplyInv, CountInv, AnswersAll, CountsKept, peerIds \subseteq peerIds'
  PROVE  CountInv'
  <2> USE <1>CountStep
  <2>1. \A r : StreamsOf(r)' = StreamsOf(r)
    BY Zenon DEF StreamsOf, CountsKept
  <2>2. \A n \in DOMAIN wire' : wire'[n].req \in peerIds'
    BY DEF CountsKept, CountInv
  <2>3. ASSUME NEW r \in DOMAIN subs'
        PROVE  subs'[r].count = Cardinality(StreamsOf(r))
    <3>1. CASE r \in DOMAIN subs /\ subs'[r].count = subs[r].count
      BY <3>1 DEF CountInv
    <3>2. CASE r \notin peerIds /\ subs'[r].count = 0
      <4>1. StreamsOf(r) = {}
        BY <3>2 DEF StreamsOf, CountInv
      <4>2. QED
        BY <3>2, <4>1, FS_EmptySet
    <3>3. QED
      BY <3>1, <3>2 DEF CountsKept
  <2>4. ASSUME ~LongReasons, NEW r \in PeerIds
        PROVE  Reported(replies'[r], Cardinality(StreamsOf(r)))
    BY <2>4, <1>ReportOne DEF AnswersAll
  <2> QED
    BY Zenon, <2>1, <2>2, <2>3, <2>4 DEF CountInv, Reported

\* A new stream is counted.
<1>CountNewStep.
  ASSUME PublisherInv, ReplyInv, CountInv, NEW r \in PeerIds, SendsOnNewStream(r),
         UNCHANGED <<requests, peerIds, replies>>
  PROVE  CountInv'
  <2> USE <1>CountNewStep
  <2> DEFINE o == publishing.object
             n == Len(wire) + 1
             stream == [req |-> r, group |-> o.group, subgroup |-> o.subgroup,
                        objects |-> <<>>, end |-> "open"]
             new == Sent(stream, o, None)
             w == Ended(wire, Replaced(r, o), "reset")
  <2>1. TypeInv /\ TableInv /\ wire \in Seq(DataStreams)
    BY DEF PublisherInv, TypeInv
  <2>2. /\ Publishing /\ r \in DOMAIN subs
        /\ wire' = Append(w, new)
        /\ subs' = [subs EXCEPT ![r].count = @ + 1, ![r].streams = StreamsAfter(r, o, n)]
    BY DEF SendsOnNewStream, NeedsStream, Visits
  <2>3. new.req = r
    BY DEF Sent
  <2>4. /\ w \in Seq(DataStreams) /\ Len(w) = Len(wire) /\ DOMAIN wire = 1..Len(wire) /\ Len(wire) \in Nat
        /\ \A k \in DOMAIN wire : w[k].req = wire[k].req
    <3>1. w \in Seq(DataStreams) /\ Len(w) = Len(wire)
      BY <2>1, EndedType DEF Ends
    <3>2. \A k \in DOMAIN wire : wire[k] \in DataStreams
      BY <2>1
    <3>3. \A k \in DOMAIN wire : w[k].req = wire[k].req
      BY <3>2 DEF Ended, DataStreams
    <3>4. QED
      BY Zenon, <2>1, <3>1, <3>3, SequenceIs
  <2> HIDE DEF w, new, stream
  <2>5. /\ DOMAIN wire' = DOMAIN wire \cup {n} /\ n \notin DOMAIN wire
        /\ wire'[n] = new /\ \A k \in DOMAIN wire : wire'[k] = w[k]
    <3>1. /\ DOMAIN wire' = 1..(Len(wire) + 1) /\ wire'[Len(wire) + 1] = new
          /\ \A k \in 1..Len(wire) : wire'[k] = w[k]
      BY <2>2, <2>4
    <3>2. QED
      BY <2>4, <3>1
  <2> HIDE DEF n
  <2>6. StreamsOf(r)' = StreamsOf(r) \cup {n} /\ n \notin StreamsOf(r)
    BY <2>3, <2>4, <2>5 DEF StreamsOf
  <2>7. \A x : x # r => StreamsOf(x)' = StreamsOf(x)
    BY Zenon, <2>3, <2>4, <2>5 DEF StreamsOf
  <2>8. Cardinality(StreamsOf(r) \cup {n}) = Cardinality(StreamsOf(r)) + 1
    <3>1. IsFiniteSet(1..Len(wire))
      BY <2>4, FS_Interval
    <3>2. IsFiniteSet(StreamsOf(r))
      BY <2>4, <3>1, FS_Subset DEF StreamsOf
    <3>3. QED
      BY Zenon, <2>6, <3>2, FS_AddElement
  <2>9. /\ DOMAIN subs' = DOMAIN subs /\ subs'[r].count = subs[r].count + 1
        /\ \A x \in DOMAIN subs \ {r} : subs'[x].count = subs[x].count
    <3>1. subs[r] \in SubscriptionSends
      BY <2>1, <2>2 DEF TypeInv
    <3>2. QED
      BY <2>2, <3>1 DEF SubscriptionSends
  <2>10. \A k \in DOMAIN wire' : wire'[k].req \in peerIds'
    <3>1. r \in peerIds
      BY <2>1, <2>2 DEF TableInv
    <3>2. QED
      BY Zenon, <2>3, <2>4, <2>5, <3>1 DEF CountInv
  <2>11. \A x \in DOMAIN subs' : subs'[x].count = Cardinality(StreamsOf(x)')
    BY Zenon, <2>6, <2>7, <2>8, <2>9 DEF CountInv
  <2>12. ASSUME ~LongReasons, NEW x \in PeerIds
         PROVE  Reported(replies'[x], Cardinality(StreamsOf(x)'))
    <3>1. CASE x = r
      <4>1. Ongoing(replies[x])
        BY <2>1, <2>2, <3>1 DEF ReplyInv, TableInv
      <4>2. QED
        BY Zenon, <4>1 DEF Ongoing, Reported
    <3>2. CASE x # r
      BY Zenon, <2>7, <2>12, <3>2 DEF CountInv
    <3>3. QED
      BY <3>1, <3>2
  <2> QED
    BY Zenon, <2>10, <2>11, <2>12 DEF CountInv, StreamsOf, Reported

\* Nothing is sent.
<1>SilentStep.
  ASSUME ReplyInv, replies' = replies, requests' \subseteq requests
  PROVE  AnswersAll
  BY <1>SilentStep DEF ReplyInv, AnswersAll, Answers

\* Nothing happens to streams or counters.
<1>CountsSame.
  ASSUME UNCHANGED <<wire, subs>>
  PROVE  CountsKept
  BY <1>CountsSame DEF CountsKept

\* detach_subscription() opens no stream.
<1>DetachCounts.
  ASSUME PublisherInv, NEW S, NEW how, DetachStreams(S, how)
  PROVE  CountsKept
  <2> USE <1>DetachCounts
  <2>1. wire \in Seq(DataStreams)
    BY DEF PublisherInv, TypeInv
  <2>2. \A n \in DOMAIN wire : wire[n] \in DataStreams
    BY <2>1
  <2>3. /\ DOMAIN wire' = DOMAIN wire
        /\ \A n \in DOMAIN wire : wire'[n] = wire[n] \/ wire'[n] = [wire[n] EXCEPT !.end = how]
    BY DEF DetachStreams, Ended
  <2>4. \A n \in DOMAIN wire : wire'[n].req = wire[n].req
    BY <2>2, <2>3 DEF DataStreams
  <2>5. \A r \in DOMAIN subs' : r \in DOMAIN subs /\ subs'[r] = subs[r]
    BY DEF DetachStreams, Restrict
  <2> QED
    BY <2>3, <2>4, <2>5 DEF CountsKept

\* finish() or cancel() of the requests in S.
<1>EndStep.
  ASSUME PublisherInv, ReplyInv, NEW S \in SUBSET requests, NEW how, DetachStreams(S, how),
         requests' = requests \ S, NEW message, Reply(S, message),
         \A r \in S : message[r] = <<"reset">> \/ message[r] = Done(r)
  PROVE  AnswersAll /\ CountsKept
  <2> USE <1>EndStep
  <2>1. replies' = [r \in PeerIds |->
                      IF r \in S \ gone THEN Append(replies[r], message[r]) ELSE replies[r]]
    BY DEF Reply
  <2>2. replies' = [r \in PeerIds |-> replies'[r]]
    BY <2>1
  <2>3. ASSUME NEW r \in PeerIds PROVE Answers(r)
    <3>1. CASE r \in S \ gone
      <4>1. replies'[r] = Append(replies[r], message[r]) /\ r \in requests \ requests'
        BY Zenon, <2>1, <3>1
      <4>2. message[r] = <<"reset">> \/ message[r] = Done(r)
        BY <3>1
      <4>3. QED
        BY Zenon, <4>1, <4>2 DEF Answers
    <3>2. CASE r \notin S \ gone
      <4>1. replies'[r] = replies[r] /\ r \notin requests' \ requests
        BY <2>1, <3>2
      <4>2. QED
        BY Zenon, <4>1 DEF Answers
    <3>3. QED
      BY <3>1, <3>2
  <2> QED
    BY <2>2, <2>3, <1>DetachCounts DEF AnswersAll

\* finish() sends PUBLISH_DONE once.
<1>FinishStep.
  ASSUME PublisherInv, ReplyInv, NEW S \in SUBSET requests, finish(S)
  PROVE  AnswersAll /\ CountsKept
  <2> USE <1>FinishStep
  <2> DEFINE message == [r \in S |-> Done(r)]
  <2>1. DetachStreams(S, "fin") /\ requests' = requests \ S /\ Reply(S, message)
    BY DEF finish
  <2>2. \A r \in S : message[r] = Done(r)
    OBVIOUS
  <2> HIDE DEF message
  <2> QED
    BY <2>1, <2>2, <1>EndStep

\* cancel() resets the request stream once.
<1>CancelStep.
  ASSUME PublisherInv, ReplyInv, NEW S \in SUBSET requests, cancel(S)
  PROVE  AnswersAll /\ CountsKept
  <2> USE <1>CancelStep
  <2> DEFINE message == [r \in S |-> <<"reset">>]
  <2>1. DetachStreams(S, "reset") /\ requests' = requests \ S /\ Reply(S, message)
    BY DEF cancel
  <2>2. \A r \in S : message[r] = <<"reset">>
    OBVIOUS
  <2> HIDE DEF message
  <2> QED
    BY <2>1, <2>2, <1>EndStep

\* begin_close() resets every request stream that is left.
<1>CloseReplies.
  ASSUME PublisherInv, ReplyInv, begin_close
  PROVE  AnswersAll /\ CountsKept
  <2> USE <1>CloseReplies
  <2>1. CASE UNCHANGED <<session, tracks, subs, wire, requests, replies>>
    BY <2>1, <1>SilentStep, <1>CountsSame
  <2>2. CASE terminate_subscriptions
    BY <2>2, <1>CancelStep DEF terminate_subscriptions
  <2> QED
    BY <2>1, <2>2 DEF begin_close

\* One reply on the stream r.
<1>OneReply.
  ASSUME ReplyInv, NEW r \in PeerIds, NEW m, Reply({r}, [x \in {r} |-> m]), requests' \subseteq requests \cup {r}
  PROVE  /\ replies' = [x \in PeerIds |-> replies'[x]]
         /\ \A x \in PeerIds : x # r => Answers(x)
         /\ replies'[r] = IF r \in gone THEN replies[r] ELSE Append(replies[r], m)
  <2> USE <1>OneReply
  <2>1. replies' = [x \in PeerIds |->
                      IF x \in {r} \ gone THEN Append(replies[x], [y \in {r} |-> m][x]) ELSE replies[x]]
    BY DEF Reply
  <2>2. \A x \in PeerIds : x # r => replies'[x] = replies[x] /\ x \notin requests' \ requests
    BY <2>1
  <2> QED
    BY Zenon, <2>1, <2>2 DEF Answers

\* A refused SUBSCRIBE is answered once.
<1>RejectReplies.
  ASSUME PublisherInv, ReplyInv, NEW r \in PeerIds, NEW t, NEW options, RejectSubscribe(r, t, options)
  PROVE  AnswersAll /\ CountsKept
  <2> USE <1>RejectReplies
  <2> USE DEF RejectSubscribe, planeVars, requestVars
  <2>1. /\ r \notin peerIds /\ peerIds' = peerIds \cup {r} /\ requests' = requests /\ UNCHANGED <<wire, subs>>
        /\ Reply({r}, [x \in {r} |-> <<"error">>])
    BY Zenon DEF Consumable
  <2> HIDE DEF RejectSubscribe
  <2>2. r \notin requests /\ replies[r] = <<>>
    BY Zenon, <2>1 DEF PublisherInv, TableInv, ReplyInv
  <2>3. Append(<<>>, <<"error">>) = << <<"error">> >>
    OBVIOUS
  <2>4. /\ replies' = [x \in PeerIds |-> replies'[x]] /\ \A x \in PeerIds : x # r => Answers(x)
        /\ replies'[r] = IF r \in gone THEN replies[r] ELSE Append(replies[r], <<"error">>)
    BY Zenon, <2>1, <1>OneReply
  <2>5. Answers(r)
    BY Zenon, <2>1, <2>2, <2>3, <2>4 DEF Answers
  <2> QED
    BY <2>1, <2>4, <2>5, <1>CountsSame DEF AnswersAll

\* SUBSCRIBE_OK is the first reply.
<1>AcceptReplies.
  ASSUME PublisherInv, ReplyInv, NEW r \in PeerIds, NEW t, NEW options, AcceptSubscribe(r, t, options)
  PROVE  AnswersAll /\ CountsKept
  <2> USE <1>AcceptReplies
  <2>1. /\ r \notin peerIds /\ peerIds' = peerIds \cup {r} /\ requests' = requests \cup {r} /\ wire' = wire
        /\ r \notin gone /\ Reply({r}, [x \in {r} |-> <<"ok">>])
    BY Zenon DEF AcceptSubscribe, Consumable
  <2>2. r \notin requests /\ replies[r] = <<>> /\ r \notin DOMAIN subs
    BY Zenon, <2>1 DEF PublisherInv, TableInv, ReplyInv
  <2>3. Append(<<>>, <<"ok">>) = << <<"ok">> >>
    OBVIOUS
  <2>4. /\ replies' = [x \in PeerIds |-> replies'[x]] /\ \A x \in PeerIds : x # r => Answers(x)
        /\ replies'[r] = IF r \in gone THEN replies[r] ELSE Append(replies[r], <<"ok">>)
    BY Zenon, <2>1, <1>OneReply
  <2>5. Answers(r)
    BY Zenon, <2>1, <2>2, <2>3, <2>4 DEF Answers
  <2>6. PICK start, end :
          subs' = [x \in DOMAIN subs \cup {r} |->
                     IF x # r THEN subs[x]
                     ELSE [track |-> t, forward |-> options.forward # FALSE,
                           start |-> start, end |-> end, count |-> 0, streams |-> <<>>]]
    BY Zenon DEF AcceptSubscribe, attach_subscription
  <2>7. CountsKept
    BY Zenon, <2>1, <2>2, <2>6 DEF CountsKept
  <2> QED
    BY <2>4, <2>5, <2>7 DEF AnswersAll

\* An accepted update is answered on the stream of its request.
<1>UpdateReplies.
  ASSUME PublisherInv, ReplyInv, NEW r \in PeerIds, NEW u, NEW options, AcceptUpdate(r, u, options)
  PROVE  AnswersAll /\ CountsKept
  <2> USE <1>UpdateReplies
  <2>1. /\ r \in requests /\ requests' = requests /\ wire' = wire
        /\ Reply({r}, [x \in {r} |-> <<"updateOk">>])
    BY DEF AcceptUpdate
  <2>2. /\ replies' = [x \in PeerIds |-> replies'[x]] /\ \A x \in PeerIds : x # r => Answers(x)
        /\ replies'[r] = IF r \in gone THEN replies[r] ELSE Append(replies[r], <<"updateOk">>)
    BY Zenon, <2>1, <1>OneReply
  <2>3. Answers(r)
    BY Zenon, <2>1, <2>2 DEF Answers
  <2>4. PICK start, end, forward :
          subs' = [subs EXCEPT ![r].start = start, ![r].end = end, ![r].forward = forward]
    BY Zenon DEF AcceptUpdate, update_subscription
  <2>5. \A x \in DOMAIN subs : subs[x] \in SubscriptionSends
    BY DEF PublisherInv, TypeInv
  <2>6. CountsKept
    BY <2>1, <2>4, <2>5 DEF CountsKept, SubscriptionSends
  <2> QED
    BY <2>2, <2>3, <2>6 DEF AnswersAll

\* A refused update ends the request.
<1>RefuseReplies.
  ASSUME PublisherInv, ReplyInv, NEW r \in PeerIds, NEW u, NEW options, RejectUpdate(r, u, options)
  PROVE  AnswersAll /\ CountsKept
  <2> USE <1>RefuseReplies
  <2>1. /\ r \in requests /\ requests' = requests \ {r} /\ DetachStreams({r}, "fin")
        /\ replies' = [replies EXCEPT ![r] = IF r \in gone THEN @ ELSE @ \o Refusing(r)]
    BY DEF RejectUpdate
  <2>2. replies \in [PeerIds -> Seq(Messages)]
    BY DEF ReplyInv
  <2>3. /\ replies' = [x \in PeerIds |-> replies'[x]]
        /\ \A x \in PeerIds : x # r => replies'[x] = replies[x]
        /\ replies'[r] = replies[r] \/ replies'[r] = replies[r] \o Refusing(r)
    BY Zenon, <2>1, <2>2
  <2>4. \A x \in PeerIds : Answers(x)
    BY Zenon, <2>1, <2>3 DEF Answers
  <2> QED
    BY Zenon, <2>1, <2>3, <2>4, <1>DetachCounts DEF AnswersAll

\* Steps of the loop that open no stream.
<1>LoopReplies.
  ASSUME PublisherInv, ReplyInv, NEW r \in PeerIds, Delivers(r), ~SendsOnNewStream(r)
  PROVE  AnswersAll /\ CountsKept
  <2> USE <1>LoopReplies
  <2>1. replies' = replies /\ requests' = requests
    BY DEF Delivers, requestVars
  <2>2. AnswersAll
    BY <2>1, <1>SilentStep
  <2>3. CASE SendsOnOpenStream(r)
    <3> DEFINE o == publishing.object
               open == subs[r].streams[KeyOf(o)]
    <3>1. /\ Publishing /\ r \in DOMAIN subs
          /\ wire' = [wire EXCEPT ![open.at] = Sent(@, o, open.last)]
          /\ subs' = [subs EXCEPT ![r].streams = StreamsAfter(r, o, open.at)]
      BY <2>3 DEF SendsOnOpenStream, Visits
    <3>2. wire \in Seq(DataStreams) /\ subs[r] \in SubscriptionSends
      BY <3>1 DEF PublisherInv, TypeInv
    <3>3. \A n \in DOMAIN wire : wire[n] \in DataStreams
      BY <3>2
    <3>4. \A stream \in DataStreams : \A last : Sent(stream, o, last).req = stream.req
      BY DEF Sent, DataStreams
    <3>5. DOMAIN wire' = DOMAIN wire
      BY <3>1
    <3>6. \A n \in DOMAIN wire : wire'[n] = wire[n] \/ wire'[n] = Sent(wire[n], o, open.last)
      BY Zenon, <3>1
    <3>7. \A n \in DOMAIN wire : wire'[n].req = wire[n].req
      BY Zenon, <3>3, <3>4, <3>6
    <3>8. DOMAIN subs' = DOMAIN subs /\ \A x \in DOMAIN subs : subs'[x].count = subs[x].count
      BY <3>1, <3>2 DEF SubscriptionSends
    <3>9. QED
      BY Zenon, <2>2, <3>5, <3>7, <3>8 DEF CountsKept
  <2>4. CASE SkipsDetached(r) \/ Withholds(r) \/ SendsDatagram(r)
    BY <2>2, <2>4, <1>CountsSame DEF SkipsDetached, Withholds, SendsDatagram
  <2> QED
    BY <2>3, <2>4 DEF Delivers

\* Nothing was sent at first.
<1>ReplyInit. Init => ReplyInv /\ CountInv
  <2> SUFFICES ASSUME Init PROVE ReplyInv /\ CountInv
    OBVIOUS
  <2>1. DOMAIN <<>> = {}
    OBVIOUS
  <2>2. ReplyInv
    BY <1>FirstReply DEF Init, ReplyInv
  <2>3. \A c : Reported(<<>>, c)
    BY <2>1 DEF Reported
  <2>4. CountInv
    BY <2>1, <2>3 DEF Init, PlaneInit, CountInv
  <2> QED
    BY <2>2, <2>4

\* Every step answers in order; all but one of them open no stream.
<1>StepAnswers.
  ASSUME PublisherInv, ReplyInv, [Next]_vars
  PROVE  /\ AnswersAll
         /\ CountsKept \/ \E r \in PeerIds : SendsOnNewStream(r) /\ UNCHANGED <<requests, peerIds, replies>>
  <2> USE <1>StepAnswers
  <2> USE DEF planeVars, requestVars
  <2>1. ASSUME UNCHANGED <<subs, wire, replies>>, requests' \subseteq requests
        PROVE  AnswersAll /\ CountsKept
    BY <2>1, <1>SilentStep, <1>CountsSame
  <2>2. CASE BecomesReady \/ ShutdownComplete
    BY <2>1, <2>2 DEF BecomesReady, ShutdownComplete
  <2>3. CASE ClosesSession
    BY <2>3, <1>CloseReplies DEF ClosesSession
  <2>4. CASE PeerRequest
    <3>1. ASSUME NEW r \in PeerIds, NEW t \in Tracks, NEW options \in Options,
                 \/ RejectSubscribe(r, t, options)
                 \/ AcceptSubscribe(r, t, options)
                 \/ SubscribeOkFails(r, t, options)
          PROVE  AnswersAll /\ CountsKept
      BY <3>1, <1>RejectReplies, <1>AcceptReplies, <1>CloseReplies DEF SubscribeOkFails
    <3>2. ASSUME NEW r \in PeerIds, NEW u \in PeerIds, NEW options \in Options,
                 AcceptUpdate(r, u, options) \/ RejectUpdate(r, u, options)
          PROVE  AnswersAll /\ CountsKept
      BY <3>2, <1>UpdateReplies, <1>RefuseReplies
    <3>3. ASSUME NEW r \in PeerIds, InvalidRequestId(r)
          PROVE  AnswersAll /\ CountsKept
      BY <3>3, <1>CloseReplies DEF InvalidRequestId
    <3>4. ASSUME NEW r \in PeerIds, CancelRequest(r)
          PROVE  AnswersAll /\ CountsKept
      BY <3>4, <1>CancelStep DEF CancelRequest
    <3>5. ASSUME NEW r \in PeerIds, PeerStopsRequest(r)
          PROVE  AnswersAll /\ CountsKept
      BY <2>1, <3>5 DEF PeerStopsRequest
    <3>6. ASSUME PeerStopsData
          PROVE  AnswersAll /\ CountsKept
      <4>1. PICK n \in DOMAIN wire : wire' = [wire EXCEPT ![n].end = "stopped"]
        BY Zenon, <3>6 DEF PeerStopsData, PeerStopsStream
      <4>2. UNCHANGED <<subs, requests, replies>>
        BY <3>6 DEF PeerStopsData, PeerStopsStream
      <4>3. wire \in Seq(DataStreams)
        BY DEF PublisherInv, TypeInv
      <4>4. \A k \in DOMAIN wire : wire[k] \in DataStreams
        BY <4>3
      <4>5. CountsKept
        BY <4>1, <4>2, <4>4 DEF CountsKept, DataStreams
      <4>6. QED
        BY <4>2, <4>5, <1>SilentStep
    <3>7. QED
      BY <2>4, <3>1, <3>2, <3>3, <3>4, <3>5, <3>6 DEF PeerRequest
  <2>5. ASSUME NEW t \in Tracks, register_track(t)
        PROVE  AnswersAll /\ CountsKept
    BY Zenon, <2>1, <2>5 DEF register_track
  <2>6. ASSUME NEW t \in Tracks, unregister_track(t) \/ end_track(t)
        PROVE  AnswersAll /\ CountsKept
    <3>1. finish(tracks[t].subs \cap requests)
      BY Zenon, <2>6 DEF unregister_track, end_track
    <3>2. QED
      BY <3>1, <1>FinishStep
  <2>7. ASSUME NEW t \in Tracks, EndTrackThrows(t)
        PROVE  AnswersAll /\ CountsKept
    <3>1. PICK r : DetachStreams({r}, "fin")
      BY Zenon, <2>7 DEF EndTrackThrows
    <3>2. replies' = replies /\ requests' = requests
      BY <2>7 DEF EndTrackThrows
    <3>3. QED
      BY <3>1, <3>2, <1>SilentStep, <1>DetachCounts
  <2>8. ASSUME NEW o \in Objects, publish(o)
        PROVE  AnswersAll /\ CountsKept
    BY <2>1, <2>8 DEF publish, PublishBegins
  <2>9. ASSUME NEW r \in PeerIds, Delivers(r)
        PROVE  AnswersAll /\ (CountsKept \/ (SendsOnNewStream(r) /\ UNCHANGED <<requests, peerIds, replies>>))
    <3>1. UNCHANGED <<requests, peerIds, replies>>
      BY <2>9 DEF Delivers
    <3>2. AnswersAll
      BY <3>1, <1>SilentStep
    <3>3. QED
      BY <2>9, <3>1, <3>2, <1>LoopReplies
  <2>10. ASSUME NEW r \in PeerIds, OpenFails(r)
         PROVE  AnswersAll /\ CountsKept
    BY <2>10, <1>CloseReplies DEF OpenFails
  <2>11. ASSUME NEW r \in PeerIds, Completed(r)
         PROVE  AnswersAll /\ CountsKept
    <3>1. CASE r \in DOMAIN subs /\ finish({r})
      <4>1. {r} \in SUBSET requests
        BY <3>1 DEF PublisherInv, TableInv
      <4>2. QED
        BY <3>1, <4>1, <1>FinishStep
    <3>2. CASE UNCHANGED <<tracks, subs, wire, requests, replies>>
      BY <2>1, <3>2
    <3>3. QED
      BY Zenon, <2>11, <3>1, <3>2 DEF Completed
  <2>12. CASE UNCHANGED vars
    BY <2>1, <2>12 DEF vars
  <2> QED
    BY <2>2, <2>3, <2>4, <2>5, <2>6, <2>7, <2>8, <2>9, <2>10, <2>11, <2>12 DEF Next

\* Request IDs of the peer are never given back.
<1>PeerIdsGrow.
  ASSUME PublisherInv, [Next]_vars
  PROVE  peerIds \subseteq peerIds'
  <2> USE <1>PeerIdsGrow
  <2> USE DEF planeVars, requestVars
  <2>1. CASE PeerRequest
    BY Zenon, <2>1 DEF PeerRequest, RejectSubscribe, AcceptSubscribe, SubscribeOkFails, AcceptUpdate,
         RejectUpdate, InvalidRequestId, CancelRequest, PeerStopsRequest, PeerStopsData
  <2>2. CASE BecomesReady \/ ClosesSession \/ ShutdownComplete
    BY <2>2 DEF BecomesReady, ClosesSession, ShutdownComplete
  <2>3. CASE \E t \in Tracks : \/ register_track(t)
                               \/ unregister_track(t)
                               \/ end_track(t)
                               \/ EndTrackThrows(t)
    BY Zenon, <2>3 DEF register_track, unregister_track, end_track, EndTrackThrows
  <2>4. CASE \E o \in Objects : publish(o)
    BY <2>4 DEF publish
  <2>5. CASE \E r \in PeerIds : Delivers(r) \/ OpenFails(r) \/ Completed(r)
    BY <2>5 DEF Delivers, OpenFails, Completed
  <2>6. CASE UNCHANGED vars
    BY <2>6 DEF vars
  <2> QED
    BY <2>1, <2>2, <2>3, <2>4, <2>5, <2>6 DEF Next
<1>1. ASSUME PublisherInv, PublisherInv', ReplyInv, CountInv, [Next]_vars
      PROVE  ReplyInv' /\ CountInv'
  <2>1. peerIds \subseteq peerIds' /\ requests' \subseteq PeerIds
    BY <1>1, <1>PeerIdsGrow DEF PublisherInv, TypeInv
  <2>2. AnswersAll
    BY <1>1, <1>StepAnswers
  <2>3. ReplyInv'
    BY <1>1, <2>1, <2>2, <1>ReplyStep
  <2>4. CASE CountsKept
    BY <1>1, <2>1, <2>2, <2>3, <2>4, <1>CountStep
  <2>5. CASE \E r \in PeerIds : SendsOnNewStream(r) /\ UNCHANGED <<requests, peerIds, replies>>
    BY <1>1, <2>3, <2>5, <1>CountNewStep
  <2>6. QED
    BY <1>1, <2>4, <2>5, <1>StepAnswers
<1> QED
  BY <1>1, <1>ReplyInit, PublisherInvariant, PTL DEF Spec

\* The replies on every request stream are in order.
THEOREM RepliesAlwaysInOrder == Spec => []RepliesInOrder
<1>1. ReplyInv => RepliesInOrder
  BY DEF ReplyInv, Orderly, RepliesInOrder
<1> QED
  BY <1>1, ReplyInvariant, PTL

\* PUBLISH_DONE follows the end of every data stream and reports how many
\* there were, unless end_track() was given a reason no message can carry.
THEOREM DoneAlwaysComplete == Spec => [](~LongReasons => DoneIsComplete)
<1>1. ASSUME PublisherInv, WireInv, ReplyInv, CountInv, ~LongReasons
      PROVE  DoneIsComplete
  <2> SUFFICES ASSUME NEW r \in PeerIds, NEW i \in DOMAIN replies[r], Head(replies[r][i]) = "done"
               PROVE  /\ \A n \in StreamsOf(r) : wire[n].end # "open"
                      /\ replies[r][i][2] = Cardinality(StreamsOf(r))
    BY Zenon DEF DoneIsComplete
  <2>1. r \notin requests
    BY <1>1 DEF ReplyInv, Ongoing
  <2>2. r \notin DOMAIN subs
    BY Zenon, <1>1, <2>1 DEF PublisherInv, TableInv
  <2>3. \A n \in StreamsOf(r) : wire[n].end # "open"
    BY Zenon, <1>1, <2>2 DEF WireInv, OpenInv, StreamsOf
  <2>4. replies[r][i][2] = Cardinality(StreamsOf(r))
    BY Zenon, <1>1 DEF CountInv, Reported
  <2>5. QED
    BY Zenon, <2>3, <2>4
<1>2. PublisherInv /\ WireInv /\ ReplyInv /\ CountInv => (~LongReasons => DoneIsComplete)
  BY <1>1
<1> QED
  BY <1>2, PublisherInvariant, WireInvariant, ReplyInvariant, PTL
=============================================================================
