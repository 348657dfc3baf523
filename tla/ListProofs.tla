----------------------------- MODULE ListProofs -----------------------------
(***************************************************************************)
(* Induction and recursion along the naturals in first-order form, and     *)
(* what follows for lists: lists without repetitions, and Without.         *)
(***************************************************************************)
EXTENDS Lists, Functions, WellFoundedInduction, TLAPS

-----------------------------------------------------------------------------
(* Induction and recursion. *)

\* A set of natural numbers that is not empty has a least element.
LEMMA Least ==
  ASSUME NEW T \in SUBSET Nat, T # {}
  PROVE  \E x \in T : \A y \in T : x <= y
<1> DEFINE R == {ss \in Nat \X Nat : ss[1] < ss[2]}
<1>1. OpToRel(<, Nat) = R
  BY DEF OpToRel
<1>2. IsWellFoundedOn(R, Nat)
  BY Zenon, <1>1, NatLessThanWellFounded
<1> HIDE DEF R
<1>3. PICK x \in T : \A y \in T : ~(<<y, x>> \in R)
  BY Zenon, <1>2, WFMin
<1>4. ASSUME NEW y \in T
      PROVE  x <= y
  <2>1. x \in Nat /\ y \in Nat /\ <<y, x>> \notin R
    BY <1>3
  <2>2. ~(y < x)
    BY <2>1 DEF R
  <2>3. QED
    BY <2>1, <2>2
<1> QED
  BY <1>4

\* What holds of 0, and of n if it holds of n - 1, holds up to any number.
LEMMA Induction ==
  ASSUME NEW N \in Nat, NEW G, 0 \in G, \A n \in 1..N : n - 1 \in G => n \in G
  PROVE  \A n \in 0..N : n \in G
<1> DEFINE B == {n \in 0..N : n \notin G}
<1>1. B \in SUBSET Nat
  OBVIOUS
<1>2. ASSUME NEW n \in B, \A y \in B : n <= y
      PROVE  FALSE
  <2>1. n \in 1..N /\ n \notin G /\ n - 1 \in 0..N /\ ~(n <= n - 1)
    OBVIOUS
  <2>2. n - 1 \notin B
    BY <1>2, <2>1
  <2>3. QED
    BY <2>1, <2>2
<1>3. B = {}
  BY Zenon, <1>1, <1>2, Least
<1> QED
  BY <1>3

\* f is the function on 0..N that begins with a and goes on with `step`.
DefinedBy(f, S, a, N, step) ==
  /\ f \in [0..N -> S]
  /\ f[0] = a
  /\ \A n \in 1..N : f[n] = step[<<f[n - 1], n>>]

\* A function can be defined by recursion along an initial segment of the
\* naturals.
LEMMA Recursion ==
  ASSUME NEW S, NEW a \in S, NEW N \in Nat, NEW step \in [S \X (1..N) -> S]
  PROVE  \E f : DefinedBy(f, S, a, N, step)
<1> DEFINE Upto(k) == \E f \in [0..k -> S] : f[0] = a /\ \A n \in 1..k : f[n] = step[<<f[n - 1], n>>]
           T == {k \in 0..N : ~Upto(k)}
<1>1. T \in SUBSET Nat
  OBVIOUS
<1>2. ASSUME NEW k \in T, \A y \in T : k <= y
      PROVE  FALSE
  <2>1. k \in 0..N /\ ~Upto(k)
    OBVIOUS
  <2>2. k # 0
    <3>1. ASSUME k = 0 PROVE FALSE
      <4> DEFINE f == [n \in 0..k |-> a]
      <4>1. f \in [0..k -> S] /\ f[0] = a /\ 1..k = {}
        BY <3>1
      <4>2. Upto(k)
        BY Zenon, <4>1
      <4>3. QED
        BY <2>1, <4>2
    <3>2. QED
      BY <3>1
  <2>3. k - 1 \in 0..N /\ k \in 1..N /\ ~(k <= k - 1)
    BY <2>1, <2>2
  <2>4. Upto(k - 1)
    BY <1>2, <2>3
  <2>5. PICK g \in [0..(k - 1) -> S] : g[0] = a /\ \A n \in 1..(k - 1) : g[n] = step[<<g[n - 1], n>>]
    BY <2>4
  <2> DEFINE f == [n \in 0..k |-> IF n = k THEN step[<<g[k - 1], k>>] ELSE g[n]]
  <2>6. f \in [0..k -> S]
    <3>1. g[k - 1] \in S
      BY <2>3, <2>5
    <3>2. step[<<g[k - 1], k>>] \in S
      BY <2>3, <3>1
    <3>3. \A n \in 0..k : n # k => n \in 0..(k - 1)
      BY <2>1
    <3>4. QED
      BY <2>5, <3>2, <3>3
  <2>7. f[0] = a
    BY <2>2, <2>3, <2>5
  <2>8. ASSUME NEW n \in 1..k
        PROVE  f[n] = step[<<f[n - 1], n>>]
    <3>1. CASE n = k
      <4>1. k \in 0..k /\ k - 1 \in 0..k /\ k - 1 # k
        BY <2>3
      <4>2. f[k] = step[<<g[k - 1], k>>] /\ f[k - 1] = g[k - 1]
        BY <4>1
      <4>3. QED
        BY Zenon, <3>1, <4>2
    <3>2. CASE n # k
      <4>1. n \in 1..(k - 1) /\ n \in 0..k /\ n - 1 \in 0..k /\ n - 1 # k
        BY <2>3, <3>2
      <4>2. f[n] = g[n] /\ f[n - 1] = g[n - 1]
        BY <3>2, <4>1
      <4>3. QED
        BY <2>5, <4>1, <4>2
    <3>3. QED
      BY <3>1, <3>2
  <2>9. Upto(k)
    BY Zenon, <2>6, <2>7, <2>8
  <2>10. QED
    BY Zenon, <2>1, <2>9
<1>3. T = {}
  BY Zenon, <1>1, <1>2, Least
<1>4. Upto(N)
  <2>1. N \in 0..N
    OBVIOUS
  <2> HIDE DEF Upto
  <2>2. QED
    BY Zenon, <1>3, <2>1
<1> QED
  BY <1>4 DEF DefinedBy

-----------------------------------------------------------------------------
(* The entries of a list. *)

\* The entries of a list are those at its positions.
LEMMA EntriesOf ==
  ASSUME NEW S, NEW list \in Seq(S)
  PROVE  Range(list) = {list[n] : n \in 1..Len(list)}
<1>1. DOMAIN list = 1..Len(list)
  OBVIOUS
<1> QED
  BY Zenon, <1>1 DEF Range

\* A list is a list of its entries, and of any set that contains them.
LEMMA ListOfEntries ==
  ASSUME NEW S, NEW list \in Seq(S), NEW T, Range(list) \subseteq T
  PROVE  list \in Seq(T)
<1>1. Len(list) \in Nat /\ DOMAIN list = 1..Len(list) /\ \A n \in 1..Len(list) : list[n] \in T
  BY EntriesOf
<1>2. list = [n \in 1..Len(list) |-> list[n]]
  OBVIOUS
<1> QED
  BY <1>1, <1>2

\* The entries of a concatenation are those of its parts.
LEMMA EntriesOfBoth ==
  ASSUME NEW p, NEW t, p \in Seq(Range(p)), t \in Seq(Range(t))
  PROVE  Range(p \o t) = Range(p) \cup Range(t)
<1>0. PICK S : p \in Seq(S) /\ t \in Seq(S)
  <2>1. p \in Seq(Range(p) \cup Range(t)) /\ t \in Seq(Range(p) \cup Range(t))
    BY ListOfEntries
  <2>2. QED
    BY Zenon, <2>1
<1>1. /\ p \o t \in Seq(S) /\ Len(p) \in Nat /\ Len(t) \in Nat /\ Len(p \o t) = Len(p) + Len(t)
      /\ \A n \in 1..Len(p \o t) : (p \o t)[n] = IF n <= Len(p) THEN p[n] ELSE t[n - Len(p)]
  BY <1>0
<1>2. ASSUME NEW n \in 1..Len(p \o t) PROVE (p \o t)[n] \in Range(p) \cup Range(t)
  <2>1. CASE n <= Len(p)
    BY <1>0, <1>1, <2>1, EntriesOf
  <2>2. CASE ~(n <= Len(p))
    <3>1. n - Len(p) \in 1..Len(t) /\ (p \o t)[n] = t[n - Len(p)]
      BY <1>1, <2>2
    <3>2. QED
      BY <1>0, <3>1, EntriesOf
  <2>3. QED
    BY <2>1, <2>2
<1>3. ASSUME NEW n \in 1..Len(p) PROVE p[n] \in Range(p \o t)
  <2>1. n \in 1..Len(p \o t) /\ (p \o t)[n] = p[n]
    BY <1>1
  <2>2. QED
    BY Zenon, <1>0, <1>1, <2>1, EntriesOf
<1>4. ASSUME NEW n \in 1..Len(t) PROVE t[n] \in Range(p \o t)
  <2>1. n + Len(p) \in 1..Len(p \o t) /\ (p \o t)[n + Len(p)] = t[n]
    BY <1>1
  <2>2. QED
    BY Zenon, <1>0, <1>1, <2>1, EntriesOf
<1>5. Range(p \o t) = {(p \o t)[n] : n \in 1..Len(p \o t)}
  BY Zenon, <1>1, EntriesOf
<1>6. Range(p) = {p[n] : n \in 1..Len(p)} /\ Range(t) = {t[n] : n \in 1..Len(t)}
  BY Zenon, <1>0, EntriesOf
<1> QED
  BY Zenon, <1>2, <1>3, <1>4, <1>5, <1>6

-----------------------------------------------------------------------------
(* Lists without repetitions. *)

\* No entry stands in the list twice.
Distinct(s) == \A m, n \in 1..Len(s) : s[m] = s[n] => m = n

\* The empty list holds nothing twice.
LEMMA EmptyDistinct == Distinct(<<>>)
  BY DEF Distinct

\* A fresh entry added at the end keeps the entries apart.
LEMMA ListAppend ==
  ASSUME NEW S, NEW s \in Seq(S), NEW x \in S
  PROVE  /\ Append(s, x) \in Seq(S)
         /\ Range(Append(s, x)) = Range(s) \cup {x}
         /\ Distinct(s) /\ x \notin Range(s) => Distinct(Append(s, x))
<1> DEFINE u == Append(s, x)
<1>1. /\ u \in Seq(S) /\ Len(s) \in Nat /\ Len(u) = Len(s) + 1
      /\ u[Len(u)] = x /\ \A i \in 1..Len(s) : u[i] = s[i]
  OBVIOUS
<1>2. Range(u) = {u[i] : i \in 1..Len(u)} /\ Range(s) = {s[i] : i \in 1..Len(s)}
  <2>1. DOMAIN u = 1..Len(u) /\ DOMAIN s = 1..Len(s)
    BY <1>1
  <2>2. QED
    BY Zenon, <2>1 DEF Range
<1> HIDE DEF u
<1>3. 1..Len(u) = 1..Len(s) \cup {Len(u)}
  BY <1>1
<1>4. Range(u) = Range(s) \cup {x}
  BY <1>1, <1>2, <1>3
<1>5. ASSUME Distinct(s), x \notin Range(s), NEW m \in 1..Len(u), NEW n \in 1..Len(u), u[m] = u[n]
      PROVE  m = n
  <2>1. CASE m = Len(u)
    BY <2>1, <1>1, <1>2, <1>3, <1>5
  <2>2. CASE n = Len(u)
    BY <2>2, <1>1, <1>2, <1>3, <1>5
  <2>3. CASE m \in 1..Len(s) /\ n \in 1..Len(s)
    BY <2>3, <1>1, <1>5 DEF Distinct
  <2>4. QED
    BY <2>1, <2>2, <2>3, <1>3
<1>6. QED
  BY <1>1, <1>4, <1>5 DEF Distinct, u

\* The tail of a list without repetitions lacks its head and nothing else.
LEMMA ListTail ==
  ASSUME NEW S, NEW s \in Seq(S), s # <<>>, Distinct(s)
  PROVE  /\ Tail(s) \in Seq(S)
         /\ Head(s) \in Range(s)
         /\ Head(s) = s[1]
         /\ Range(Tail(s)) = Range(s) \ {Head(s)}
         /\ Distinct(Tail(s))
<1> DEFINE u == Tail(s)
<1>1. Len(s) \in Nat \ {0} /\ Head(s) = s[1]
  OBVIOUS
<1>2. /\ u \in Seq(S) /\ Len(u) = Len(s) - 1
      /\ \A i \in 1..Len(u) : u[i] = s[i + 1]
  OBVIOUS
<1>3. Range(u) = {u[i] : i \in 1..Len(u)} /\ Range(s) = {s[i] : i \in 1..Len(s)}
  <2>1. DOMAIN u = 1..Len(u) /\ DOMAIN s = 1..Len(s)
    BY <1>2
  <2>2. QED
    BY Zenon, <2>1 DEF Range
<1> HIDE DEF u
<1>4. Head(s) \in Range(s)
  BY <1>1, <1>3
<1>5. ASSUME NEW i \in 1..Len(u)
      PROVE  u[i] \in Range(s) /\ u[i] # Head(s)
  <2>1. i + 1 \in 1..Len(s) /\ i + 1 # 1 /\ 1 \in 1..Len(s) /\ u[i] = s[i + 1]
    BY <1>1, <1>2
  <2>2. QED
    BY <2>1, <1>1, <1>3 DEF Distinct
<1>6. ASSUME NEW i \in 1..Len(s), s[i] # Head(s)
      PROVE  s[i] \in Range(u)
  <2>1. i - 1 \in 1..Len(u) /\ u[i - 1] = s[i]
    BY <1>1, <1>2, <1>6
  <2>2. QED
    BY <2>1, <1>3
<1>7. Range(u) = Range(s) \ {Head(s)}
  BY <1>3, <1>5, <1>6
<1>8. ASSUME NEW m \in 1..Len(u), NEW n \in 1..Len(u), u[m] = u[n]
      PROVE  m = n
  <2>1. m + 1 \in 1..Len(s) /\ n + 1 \in 1..Len(s) /\ s[m + 1] = s[n + 1]
    BY <1>1, <1>2, <1>8
  <2>2. m + 1 = n + 1
    BY <2>1 DEF Distinct
  <2>3. QED
    BY <2>2, <1>2
<1>9. QED
  BY <1>1, <1>2, <1>4, <1>7, <1>8 DEF Distinct, u

-----------------------------------------------------------------------------
(* Removal. *)

\* `kept` is the function that Without defines.
Keeps(kept, list, x) ==
  kept = [n \in 0..Len(list) |->
            IF n = 0 THEN <<>>
            ELSE IF list[n] = x THEN kept[n - 1] ELSE Append(kept[n - 1], list[n])]

\* Without is computed entry by entry.
LEMMA WithoutSteps ==
  ASSUME NEW T, NEW list \in Seq(T), NEW x
  PROVE  \E kept : /\ Without(list, x) = kept[Len(list)]
                   /\ kept[0] = <<>>
                   /\ \A n \in 1..Len(list) :
                        kept[n] = IF list[n] = x THEN kept[n - 1] ELSE Append(kept[n - 1], list[n])
<1> DEFINE L == Len(list)
           step == [z \in Seq(T) \X (1..L) |-> IF list[z[2]] = x THEN z[1] ELSE Append(z[1], list[z[2]])]
           kept == CHOOSE kept : Keeps(kept, list, x)
<1>1. L \in Nat /\ DOMAIN list = 1..L /\ \A n \in 1..L : list[n] \in T
  OBVIOUS
<1>2. step \in [Seq(T) \X (1..L) -> Seq(T)] /\ <<>> \in Seq(T)
  BY <1>1
<1>3. \A f \in Seq(T), n \in 1..L : step[<<f, n>>] = IF list[n] = x THEN f ELSE Append(f, list[n])
  OBVIOUS
<1> HIDE DEF step, L, kept
<1>4. PICK f : DefinedBy(f, Seq(T), <<>>, L, step)
  BY Zenon, <1>1, <1>2, Recursion
<1>5. Keeps(f, list, x)
  <2>1. ASSUME NEW n \in 0..L
        PROVE  f[n] = IF n = 0 THEN <<>>
                      ELSE IF list[n] = x THEN f[n - 1] ELSE Append(f[n - 1], list[n])
    <3>1. CASE n = 0
      BY <1>4, <3>1 DEF DefinedBy
    <3>2. CASE n # 0
      <4>1. n \in 1..L /\ n - 1 \in 0..L
        BY <1>1, <3>2
      <4>2. f[n] = step[<<f[n - 1], n>>] /\ f[n - 1] \in Seq(T)
        BY <1>4, <4>1 DEF DefinedBy
      <4>3. QED
        BY <1>3, <3>2, <4>1, <4>2
    <3>3. QED
      BY <3>1, <3>2
  <2>2. f = [n \in 0..L |-> f[n]]
    BY <1>4 DEF DefinedBy
  <2>3. QED
    BY Zenon, <2>1, <2>2 DEF Keeps, L
<1>6. Keeps(kept, list, x)
  BY Zenon, <1>5 DEF kept
<1>7. Without(list, x) = kept[L]
  BY Zenon DEF Without, Keeps, L, kept
<1>8. \A n \in 0..L : kept[n] = IF n = 0 THEN <<>>
                      ELSE IF list[n] = x THEN kept[n - 1] ELSE Append(kept[n - 1], list[n])
  BY Zenon, <1>6 DEF Keeps, L
<1>9. \A n \in 1..L : n \in 0..L /\ n # 0 /\ 0 \in 0..L
  BY <1>1
<1>10. kept[0] = <<>>
  BY <1>1, <1>8
<1>11. \A n \in 1..L : kept[n] = IF list[n] = x THEN kept[n - 1] ELSE Append(kept[n - 1], list[n])
  BY <1>8, <1>9
<1> QED
  BY <1>7, <1>10, <1>11 DEF L

\* Without removes the entries x and nothing else; of a list without
\* repetitions it removes at most one.
LEMMA WithoutFacts ==
  ASSUME NEW T, NEW list \in Seq(T), NEW x
  PROVE  /\ Without(list, x) \in Seq(T)
         /\ Range(Without(list, x)) = Range(list) \ {x}
         /\ Distinct(list) =>
              /\ Distinct(Without(list, x))
              /\ x \in Range(list) => Len(Without(list, x)) = Len(list) - 1
              /\ x \notin Range(list) => Len(Without(list, x)) = Len(list)
<1> DEFINE L == Len(list)
           Upto(n) == {list[i] : i \in 1..n}
<1>1. L \in Nat /\ DOMAIN list = 1..L /\ \A n \in 1..L : list[n] \in T
  OBVIOUS
<1>2. PICK kept : /\ Without(list, x) = kept[L]
                  /\ kept[0] = <<>>
                  /\ \A n \in 1..L :
                       kept[n] = IF list[n] = x THEN kept[n - 1] ELSE Append(kept[n - 1], list[n])
  BY WithoutSteps
<1> DEFINE Good(n) == /\ kept[n] \in Seq(T) /\ Range(kept[n]) = Upto(n) \ {x}
                      /\ Distinct(list) =>
                           /\ Distinct(kept[n])
                           /\ x \in Upto(n) => Len(kept[n]) = n - 1
                           /\ x \notin Upto(n) => Len(kept[n]) = n
           G == {n \in 0..L : Good(n)}
<1>3. Good(0)
  <2>1. kept[0] = <<>> /\ Upto(0) = {} /\ Range(<<>>) = {} /\ Len(<<>>) = 0 /\ <<>> \in Seq(T)
    BY <1>2 DEF Range
  <2>2. Distinct(kept[0])
    BY Zenon, <2>1, EmptyDistinct
  <2> DEFINE e == Upto(0)
             k == kept[0]
  <2>3. e = {} /\ Range(k) = {} /\ Len(k) = 0 /\ k \in Seq(T)
    BY <2>1
  <2> HIDE DEF e, k
  <2>4. e \ {x} = {} /\ x \notin e
    BY <2>3
  <2>5. (x \in e => Len(k) = 0 - 1) /\ (x \notin e => Len(k) = 0)
    BY Zenon, <2>3, <2>4
  <2>6. Range(k) = e \ {x}
    BY Zenon, <2>3, <2>4
  <2>7. QED
    BY Zenon, <2>2, <2>3, <2>5, <2>6 DEF e, k
<1>4. ASSUME NEW n \in 1..L, Good(n - 1)
      PROVE  Good(n)
  <2> DEFINE k == kept[n - 1]
             y == list[n]
  <2>1. k \in Seq(T) /\ Range(k) = Upto(n - 1) \ {x}
    BY <1>4
  <2>2. Distinct(list) => /\ Distinct(k)
                          /\ x \in Upto(n - 1) => Len(k) = n - 1 - 1
                          /\ x \notin Upto(n - 1) => Len(k) = n - 1
    BY <1>4
  <2>3. Upto(n) = Upto(n - 1) \cup {y}
    <3>1. /\ \A i \in 1..n : i \in 1..(n - 1) \/ i = n
          /\ \A i \in 1..(n - 1) : i \in 1..n
          /\ n \in 1..n
      BY <1>1
    <3>2. QED
      BY <3>1
  <2>4. Distinct(list) => y \notin Upto(n - 1)
    <3>1. \A i \in 1..(n - 1) : i \in 1..L /\ i # n
      BY <1>1
    <3>2. QED
      BY <3>1 DEF Distinct
  <2>5. kept[n] = IF y = x THEN k ELSE Append(k, y)
    BY <1>2
  <2>6. y \in T /\ n \in Nat
    BY <1>1
  <2> HIDE DEF k, y, Upto
  <2>7. CASE y = x
    BY <2>1, <2>2, <2>3, <2>4, <2>5, <2>6, <2>7
  <2>8. CASE y # x
    <3>1. /\ Append(k, y) \in Seq(T) /\ Range(Append(k, y)) = Range(k) \cup {y}
          /\ Len(Append(k, y)) = Len(k) + 1 /\ Len(k) \in Nat
          /\ Distinct(k) /\ y \notin Range(k) => Distinct(Append(k, y))
      BY <2>1, <2>6, ListAppend
    <3>2. kept[n] = Append(k, y)
      BY <2>5, <2>8
    <3>3. Range(kept[n]) = Upto(n) \ {x}
      BY <2>1, <2>3, <2>8, <3>1, <3>2
    <3>4. ASSUME Distinct(list)
          PROVE  /\ Distinct(kept[n])
                 /\ x \in Upto(n) => Len(kept[n]) = n - 1
                 /\ x \notin Upto(n) => Len(kept[n]) = n
      <4>1. y \notin Range(k) /\ Distinct(k)
        BY <2>1, <2>2, <2>4, <3>4
      <4>2. x \in Upto(n) <=> x \in Upto(n - 1)
        BY <2>3, <2>8
      <4>3. Len(kept[n]) = Len(k) + 1
        BY <3>1, <3>2
      <4>4. QED
        BY <2>2, <2>6, <3>1, <3>2, <3>4, <4>1, <4>2, <4>3
    <3>5. QED
      BY <3>1, <3>2, <3>3, <3>4
  <2>9. QED
    BY <2>7, <2>8
<1> HIDE DEF Good
<1>5. Good(L)
  <2>1. 0 \in G /\ L \in 0..L
    BY <1>1, <1>3
  <2>2. ASSUME NEW n \in 1..L, n - 1 \in G PROVE n \in G
    <3>1. n \in 0..L /\ Good(n - 1)
      BY <1>1, <2>2
    <3>2. QED
      BY <1>4, <3>1
  <2> HIDE DEF G
  <2>3. L \in G
    BY Zenon, <1>1, <2>1, <2>2, Induction
  <2>4. QED
    BY <2>3 DEF G
<1>6. Range(list) = Upto(L)
  BY <1>1 DEF Range
<1> QED
  BY <1>2, <1>5, <1>6 DEF Good
=============================================================================
