-------------------------- MODULE StringArrayProofs --------------------------
(***************************************************************************)
(* The two passes of the parser agree: for every list of well-formed       *)
(* entries, InitStrArray writes the addresses that are meant and           *)
(* GetConnectionCount counts them.  The recursive functions are unfolded   *)
(* by induction on naturals, which rests on the well-foundedness of <.     *)
(***************************************************************************)
EXTENDS StringArray, SequenceTheorems, WellFoundedInduction, TLAPS

-----------------------------------------------------------------------------
(* Induction and recursion.                                                *)

\* Every non-empty set of naturals has a first element.
LEMMA Least ==
  ASSUME NEW S \in SUBSET Nat, S # {}
  PROVE  \E x \in S : \A y \in S : x <= y
<1>1. PICK x \in S : \A y \in S : ~(<<y, x>> \in OpToRel(<, Nat))
  BY NatLessThanWellFounded, WFMin
<1>2. \A y \in S : ~(y < x)
  BY <1>1 DEF OpToRel
<1> QED
  BY <1>2

\* Induction, for a set in place of a predicate.
LEMMA Induction ==
  ASSUME NEW T, 0 \in T, \A n \in Nat : n \in T => n + 1 \in T
  PROVE  Nat \subseteq T
<1> SUFFICES ASSUME Nat \ T # {}
             PROVE  FALSE
  OBVIOUS
<1>1. PICK x \in Nat \ T : \A y \in Nat \ T : x <= y
  BY Least
<1>2. x - 1 \in Nat /\ x - 1 \in T
  BY <1>1
<1> QED
  BY <1>1, <1>2

\* Values in V, the first one v and each the next one's argument of F.
Successive(g, n, V, v, F) ==
  /\ g \in [0..n -> V]
  /\ g[0] = v
  /\ \A i \in 1..n : g[i] = F[i][g[i - 1]]

\* Values may be defined one after the other.
LEMMA Recursion ==
  ASSUME NEW V, NEW v \in V, NEW n \in Nat, NEW F \in [1..n -> [V -> V]]
  PROVE  \E g : Successive(g, n, V, v, F)
<1> DEFINE Upto(m) == \E g \in [0..m -> V] :
                        g[0] = v /\ \A i \in 1..m : g[i] = F[i][g[i - 1]]
           T == {m \in Nat : m <= n => Upto(m)}
<1>1. Upto(0)
  <2> DEFINE g == [i \in 0..0 |-> v]
  <2>1. g \in [0..0 -> V] /\ g[0] = v
    OBVIOUS
  <2>2. \A i \in 1..0 : g[i] = F[i][g[i - 1]]
    OBVIOUS
  <2> HIDE DEF g
  <2> QED
    BY <2>1, <2>2
<1>2. ASSUME NEW m \in Nat, m + 1 <= n, Upto(m)
      PROVE  Upto(m + 1)
  <2>1. PICK g \in [0..m -> V] : g[0] = v /\ \A i \in 1..m : g[i] = F[i][g[i - 1]]
    BY <1>2
  <2>2. PICK x \in V : x = F[m + 1][g[m]]
    BY <1>2, <2>1
  <2> DEFINE h == [i \in 0..(m + 1) |-> IF i <= m THEN g[i] ELSE x]
  <2>3. h \in [0..(m + 1) -> V]
    BY <2>1
  <2>4. h[0] = v /\ h[m + 1] = x /\ \A i \in 0..m : h[i] = g[i]
    BY <2>1
  <2> HIDE DEF h
  <2>5. \A i \in 1..(m + 1) : h[i] = F[i][h[i - 1]]
    <3> SUFFICES ASSUME NEW i \in 1..(m + 1)
                 PROVE  h[i] = F[i][h[i - 1]]
      OBVIOUS
    <3>1. CASE i \in 1..m
      BY <3>1, <2>1, <2>4
    <3>2. CASE i = m + 1
      BY <3>2, <2>2, <2>4
    <3> QED
      BY <3>1, <3>2
  <2> QED
    BY <2>3, <2>4, <2>5
<1> HIDE DEF Upto
<1>3. 0 \in T /\ \A m \in Nat : m \in T => m + 1 \in T
  BY <1>1, <1>2
<1>4. n \in T
  <2> HIDE DEF T
  <2> QED
    BY <1>3, Induction
<1> QED
  BY <1>4 DEF Upto, Successive

\* FlattenSeq, from the first sequence to the last.
LEMMA FlattenUnfolds ==
  ASSUME NEW S, NEW s \in Seq(Seq(S))
  PROVE  \E g \in [0..Len(s) -> Seq(S)] :
           /\ g[0] = <<>>
           /\ \A i \in 1..Len(s) : g[i] = g[i - 1] \o s[i]
           /\ FlattenSeq(s) = g[Len(s)]
<1>1. PICK n \in Nat : n = Len(s) /\ DOMAIN s = 1..n
  BY LenProperties
<1>2. \A i \in 1..n : s[i] \in Seq(S)
  BY <1>1, ElementOfSeq
<1> DEFINE F == [i \in 1..n |-> [q \in Seq(S) |-> q \o s[i]]]
<1>3. F \in [1..n -> [Seq(S) -> Seq(S)]]
  BY <1>2, ConcatProperties
<1>4. \A i \in 1..n : \A q \in Seq(S) : F[i][q] = q \o s[i]
  OBVIOUS
<1> HIDE DEF F
<1>5. <<>> \in Seq(S)
  BY EmptySeq
<1>6. PICK g \in [0..n -> Seq(S)] : g[0] = <<>> /\ \A i \in 1..n : g[i] = F[i][g[i - 1]]
  <2>1. PICK V : V = Seq(S)
    OBVIOUS
  <2>2. PICK v \in V : v = <<>>
    BY <2>1, <1>5
  <2>3. PICK G \in [1..n -> [V -> V]] : G = F
    BY <2>1, <1>3
  <2>4. \E g : Successive(g, n, V, v, G)
    BY Recursion
  <2> QED
    BY <2>1, <2>2, <2>3, <2>4 DEF Successive
<1>7. ASSUME NEW i \in 1..n
      PROVE  g[i - 1] \in Seq(S) /\ g[i] = g[i - 1] \o s[i]
  <2>1. i - 1 \in 0..n
    OBVIOUS
  <2> QED
    BY <2>1, <1>4, <1>6
<1>8. n > 0 => g[1] = s[1]
  <2>1. n > 0 => 1 \in 1..n /\ 1 - 1 = 0
    OBVIOUS
  <2>2. n > 0 => g[1] = <<>> \o s[1] /\ s[1] \in Seq(S)
    BY <2>1, <1>2, <1>6, <1>7
  <2> QED
    BY <2>2, ConcatEmptySeq
<1>9. FlattenSeq(s) = g[n]
  <2>1. CASE n = 0
    BY <2>1, <1>1, <1>6, EmptySeq DEF FlattenSeq
  <2>2. CASE n > 0
    <3> DEFINE flatten == CHOOSE f : f = [i \in 1..Len(s) |->
                            IF i = 1 THEN s[i] ELSE f[i - 1] \o s[i]]
               q == [i \in 1..n |-> g[i]]
    <3>1. q = [i \in 1..n |-> IF i = 1 THEN s[i] ELSE q[i - 1] \o s[i]]
      <4>1. ASSUME NEW i \in 1..n
            PROVE  g[i] = IF i = 1 THEN s[i] ELSE q[i - 1] \o s[i]
        <5>1. CASE i = 1
          BY <5>1, <1>8
        <5>2. CASE i # 1
          <6>1. i - 1 \in 1..n
            BY <5>2
          <6>2. q[i - 1] = g[i - 1]
            BY <6>1
          <6> HIDE DEF q
          <6> QED
            BY <5>2, <6>2, <1>7
        <5> QED
          BY <5>1, <5>2
      <4> QED
        BY <4>1
    <3>2. flatten = [i \in 1..n |-> IF i = 1 THEN s[i] ELSE flatten[i - 1] \o s[i]]
      BY <3>1, <1>1
    <3>3. FlattenSeq(s) = flatten[n]
      BY <1>1, <2>2 DEF FlattenSeq
    <3> HIDE DEF flatten, q
    <3> DEFINE T == {m \in Nat : m + 1 <= n => flatten[m + 1] = g[m + 1]}
    <3>4. 0 \in T
      BY <3>2, <2>2, <1>8
    <3>5. ASSUME NEW m \in Nat, m \in T
          PROVE  m + 1 \in T
      <4> SUFFICES ASSUME m + 2 <= n
                   PROVE  flatten[m + 2] = g[m + 2]
        BY <2>2
      <4>1. flatten[m + 1] = g[m + 1]
        BY <3>5
      <4>2. m + 2 \in 1..n /\ m + 2 # 1 /\ (m + 2) - 1 = m + 1
        OBVIOUS
      <4>3. flatten[m + 2] = flatten[m + 1] \o s[m + 2]
        BY <4>2, <3>2
      <4>4. g[m + 2] = g[m + 1] \o s[m + 2]
        BY <4>2, <1>7
      <4> QED
        BY <4>1, <4>3, <4>4
    <3>6. n - 1 \in T
      <4>1. n - 1 \in Nat
        BY <2>2
      <4> HIDE DEF T
      <4> QED
        BY <3>4, <3>5, <4>1, Induction
    <3> QED
      BY <3>3, <3>6, <2>2
  <2> QED
    BY <2>1, <2>2
<1> QED
  BY <1>1, <1>6, <1>7, <1>9

-----------------------------------------------------------------------------
(* The two passes, unfolded.                                               *)

\* The first "]" is behind the "[".
LEMMA CandidateEnds ==
  ASSUME NEW text, Len(text) \in Nat, NEW i \in 1..Len(text)
  PROVE  CandidateEnd(text, i) \in i..Len(text)
<1> DEFINE closing == {j \in i..Len(text) : text[j].close}
<1>1. closing # {} => \E j \in closing : \A k \in closing : j <= k
  <2>1. closing \in SUBSET Nat
    OBVIOUS
  <2> HIDE DEF closing
  <2> QED
    BY <2>1, Least
<1>2. CASE text[i].open /\ closing # {}
  <2>1. CandidateEnd(text, i) = CHOOSE j \in closing : \A k \in closing : j <= k
    BY <1>2 DEF CandidateEnd
  <2>2. CandidateEnd(text, i) \in closing
    <3> HIDE DEF closing
    <3> QED
      BY <1>1, <1>2, <2>1
  <2> QED
    BY <2>2
<1>3. CASE ~(text[i].open /\ closing # {})
  BY <1>3 DEF CandidateEnd
<1> QED
  BY <1>2, <1>3

\* f[i] are the strings written from piece i on.
WrittenFrom(text, f) ==
  /\ InitStrArray(text) = f[1]
  /\ f[Len(text) + 1] = <<>>
  /\ \A i \in 1..Len(text) :
       LET stop == CandidateEnd(text, i)
       IN  f[i] = Expand(SubSeq(text, i, stop)) \o f[stop + 1]

LEMMA StrArrayUnfolds ==
  ASSUME NEW text, Len(text) \in Nat
  PROVE  \E f : WrittenFrom(text, f)
<1>1. PICK n \in Nat : n = Len(text)
  OBVIOUS
<1> DEFINE E(i, y) == Expand(SubSeq(text, i, CandidateEnd(text, i))) \o y
           Next1(i) == CandidateEnd(text, i) + 1
           From(m, g) ==
             /\ g[n + 1] = <<>>
             /\ \A i \in (n + 1 - m)..n : g[i] = E(i, g[Next1(i)])
           T == {m \in Nat : m <= n => \E g : From(m, g)}
<1>2. \A i \in 1..n : Next1(i) \in (i + 1)..(n + 1)
  BY <1>1, CandidateEnds
<1> HIDE DEF E, Next1
<1>3. \E g : From(0, g)
  <2> DEFINE g == [i \in {n + 1} |-> <<>>]
  <2>1. g[n + 1] = <<>>
    OBVIOUS
  <2> HIDE DEF g
  <2> QED
    BY <2>1
<1>4. ASSUME NEW m \in Nat, m + 1 <= n, NEW g, From(m, g)
      PROVE  \E h : From(m + 1, h)
  <2>1. PICK k \in 1..n : k = n - m
    BY <1>4
  <2>2. n + 1 - m = k + 1 /\ n + 1 - (m + 1) = k
    BY <2>1
  <2>3. PICK x : x = E(k, g[Next1(k)])
    OBVIOUS
  <2> DEFINE h == [i \in k..(n + 1) |-> IF i = k THEN x ELSE g[i]]
  <2>4. h[k] = x /\ \A i \in (k + 1)..(n + 1) : h[i] = g[i]
    OBVIOUS
  <2> HIDE DEF h
  <2>5. h[n + 1] = <<>>
    BY <1>4, <2>4
  <2>6. ASSUME NEW i \in k..n
        PROVE  h[i] = E(i, h[Next1(i)])
    <3>1. Next1(i) \in (i + 1)..(n + 1)
      BY <1>2
    <3>2. h[Next1(i)] = g[Next1(i)]
      BY <3>1, <2>4
    <3>3. CASE i = k
      BY <3>2, <3>3, <2>3, <2>4
    <3>4. CASE i # k
      <4>1. i \in (k + 1)..n
        BY <3>4
      <4>2. g[i] = E(i, g[Next1(i)])
        BY <4>1, <1>4, <2>2
      <4> QED
        BY <4>1, <4>2, <3>2, <2>4
    <3> QED
      BY <3>3, <3>4
  <2>7. From(m + 1, h)
    BY <2>2, <2>5, <2>6
  <2> HIDE DEF From
  <2> QED
    BY <2>7
<1>5. n \in T
  <2>1. 0 \in T /\ \A m \in Nat : m \in T => m + 1 \in T
    <3> HIDE DEF From
    <3> QED
      BY <1>3, <1>4
  <2> HIDE DEF T
  <2> QED
    BY <2>1, Induction
<1>6. PICK g : g[n + 1] = <<>> /\ \A i \in 1..n : g[i] = E(i, g[Next1(i)])
  BY <1>5
<1> DEFINE q == [i \in 1..(n + 1) |-> g[i]]
           f == CHOOSE f : f = [i \in 1..(Len(text) + 1) |->
                  IF i > Len(text) THEN <<>>
                  ELSE LET stop == CandidateEnd(text, i)
                       IN  Expand(SubSeq(text, i, stop)) \o f[stop + 1]]
<1>7. q = [i \in 1..(n + 1) |-> IF i > n THEN <<>> ELSE E(i, q[Next1(i)])]
  <2>1. ASSUME NEW i \in 1..(n + 1)
        PROVE  g[i] = IF i > n THEN <<>> ELSE E(i, q[Next1(i)])
    <3>1. CASE i = n + 1
      BY <3>1, <1>6
    <3>2. CASE i \in 1..n
      <4>1. Next1(i) \in 1..(n + 1)
        BY <3>2, <1>2
      <4>2. q[Next1(i)] = g[Next1(i)]
        BY <4>1
      <4> HIDE DEF q
      <4> QED
        BY <4>2, <3>2, <1>6
    <3> QED
      BY <3>1, <3>2
  <2> QED
    BY <2>1
<1> HIDE DEF q
<1>8. f = [i \in 1..(n + 1) |-> IF i > n THEN <<>> ELSE E(i, f[Next1(i)])]
  BY <1>1, <1>7 DEF E, Next1
<1>9. InitStrArray(text) = f[1]
  BY DEF InitStrArray
<1> HIDE DEF f
<1>10. f[n + 1] = <<>>
  BY <1>8
<1>11. ASSUME NEW i \in 1..n
       PROVE  f[i] = E(i, f[Next1(i)])
  BY <1>8
<1>12. WrittenFrom(text, f)
  BY <1>1, <1>9, <1>10, <1>11 DEF E, Next1, WrittenFrom
<1> QED
  BY <1>12

\* The count up to piece i.
LEMMA CountUnfolds ==
  ASSUME NEW text, Len(text) \in Nat, \A i \in 1..Len(text) : Members(text[i]) \in Nat
  PROVE  \E h \in [0..Len(text) -> Nat] :
           /\ h[0] = 0
           /\ \A i \in 1..Len(text) : h[i] = h[i - 1] + Members(text[i])
           /\ GetConnectionCount(text) = h[Len(text)]
<1>1. PICK n \in Nat : n = Len(text)
  OBVIOUS
<1> DEFINE F == [i \in 1..n |-> [x \in Nat |-> x + Members(text[i])]]
<1>2. F \in [1..n -> [Nat -> Nat]] /\ \A i \in 1..n : \A x \in Nat : F[i][x] = x + Members(text[i])
  BY <1>1
<1> HIDE DEF F
<1>3. PICK g \in [0..n -> Nat] : g[0] = 0 /\ \A i \in 1..n : g[i] = F[i][g[i - 1]]
  <2>1. PICK G \in [1..n -> [Nat -> Nat]] : G = F
    BY <1>2
  <2>2. \E g : Successive(g, n, Nat, 0, G)
    BY Recursion
  <2> QED
    BY <2>1, <2>2 DEF Successive
<1>4. \A i \in 1..n : g[i] = g[i - 1] + Members(text[i])
  <2> SUFFICES ASSUME NEW i \in 1..n
               PROVE  g[i] = g[i - 1] + Members(text[i])
    OBVIOUS
  <2>1. i - 1 \in 0..n
    OBVIOUS
  <2> QED
    BY <2>1, <1>2, <1>3
<1>5. g = [i \in 0..n |-> IF i = 0 THEN 0 ELSE g[i - 1] + Members(text[i])]
  BY <1>3, <1>4
<1> DEFINE f == CHOOSE f : f = [i \in 0..Len(text) |->
                  IF i = 0 THEN 0 ELSE f[i - 1] + Members(text[i])]
<1>6. f = [i \in 0..n |-> IF i = 0 THEN 0 ELSE f[i - 1] + Members(text[i])]
  BY <1>1, <1>5
<1>7. GetConnectionCount(text) = f[n]
  BY <1>1 DEF GetConnectionCount
<1> HIDE DEF f
<1> DEFINE T == {m \in Nat : m <= n => f[m] = g[m]}
<1>8. 0 \in T
  BY <1>3, <1>6
<1>9. ASSUME NEW m \in Nat, m \in T
      PROVE  m + 1 \in T
  BY <1>9, <1>4, <1>6
<1>10. n \in T
  <2> HIDE DEF T
  <2> QED
    BY <1>8, <1>9, Induction
<1> QED
  BY <1>1, <1>3, <1>4, <1>7, <1>10

-----------------------------------------------------------------------------
(* One entry.                                                              *)

\* The pieces of an entry.
Width(e) == IF e.kind = "range" THEN 1 ELSE Len(e.ids)

LEMMA EntryFacts ==
  ASSUME Port \subseteq Nat, NEW e \in Entry, WellFormed(e)
  PROVE  /\ e.kind \in {"plain", "list", "range"}
         /\ Len(e.ids) \in Nat /\ DOMAIN e.ids = 1..Len(e.ids)
         /\ \A j \in 1..Len(e.ids) : e.ids[j] \in Address
         /\ e.ids \in Seq(Address)
         /\ Width(e) \in Nat /\ Width(e) > 0
         /\ e.kind = "plain" => Len(e.ids) = 1
         /\ e.kind = "range" => /\ e.ids[1] \in Nat /\ e.ids[2] \in Nat
                                /\ e.ids[1] <= e.ids[2]
                                /\ e.ids[1]..e.ids[2] \subseteq Port
                                /\ Len(e.ids) = 2
<1>1. e.kind \in {"plain", "list", "range"} /\ e.ids \in Seq(Address)
  BY DEF Entry
<1>2. Len(e.ids) \in Nat /\ DOMAIN e.ids = 1..Len(e.ids)
  BY <1>1, LenProperties
<1>3. \A j \in 1..Len(e.ids) : e.ids[j] \in Address
  BY <1>1, ElementOfSeq
<1>4. e.ids # <<>> => Len(e.ids) > 0
  BY <1>1, EmptySeq
<1>5. CASE e.kind = "range"
  <2>1. /\ Len(e.ids) = 2 /\ e.ids[1] \in Port /\ e.ids[2] \in Port
        /\ e.ids[1] <= e.ids[2] /\ e.ids[1]..e.ids[2] \subseteq Port
    BY <1>5 DEF WellFormed
  <2>2. e.ids[1] \in Nat /\ e.ids[2] \in Nat
    BY <2>1
  <2>3. Width(e) = 1
    BY <1>5 DEF Width
  <2> QED
    BY <1>1, <1>2, <1>3, <1>5, <2>1, <2>2, <2>3
<1>6. CASE e.kind = "list"
  <2>1. e.ids # <<>>
    BY <1>6 DEF WellFormed
  <2> QED
    BY <1>1, <1>2, <1>3, <1>4, <1>6, <2>1 DEF Width
<1>7. CASE e.kind = "plain"
  <2>1. Len(e.ids) = 1
    BY <1>7 DEF WellFormed
  <2> QED
    BY <1>1, <1>2, <1>3, <1>7, <2>1 DEF Width
<1> QED
  BY <1>1, <1>5, <1>6, <1>7

LEMMA PieceFacts ==
  ASSUME Port \subseteq Nat, NEW e \in Entry, WellFormed(e)
  PROVE  /\ Pieces(e) \in Seq(Piece) /\ Len(Pieces(e)) = Width(e)
         /\ \A j \in 1..Width(e) :
              /\ Pieces(e)[j].prefix <=> j = 1
              /\ Pieces(e)[j].open <=> e.kind # "plain" /\ j = 1
              /\ Pieces(e)[j].from = e.ids[j]
              /\ Pieces(e)[j].dash <=> e.kind = "range"
              /\ e.kind = "range" => Pieces(e)[j].to = e.ids[2]
              /\ Pieces(e)[j].close <=> e.kind # "plain" /\ j = Width(e)
<1>1. PICK n \in Nat : n = Len(e.ids) /\ DOMAIN e.ids = 1..n
  BY EntryFacts
<1>2. CASE e.kind = "range"
  <2>1. PICK a, b \in Address : a = e.ids[1] /\ b = e.ids[2]
    BY <1>2, EntryFacts
  <2>2. PICK p \in Piece : p = [prefix |-> TRUE, open |-> TRUE, from |-> a, dash |-> TRUE,
                                to |-> b, close |-> TRUE]
    BY DEF Piece
  <2>3. Pieces(e) = <<p>>
    BY <1>2, <2>1, <2>2 DEF Pieces
  <2>4. <<p>> \in Seq(Piece) /\ Len(<<p>>) = 1 /\ <<p>>[1] = p
    OBVIOUS
  <2> QED
    BY <1>2, <2>1, <2>2, <2>3, <2>4 DEF Width
<1>3. CASE e.kind # "range"
  <2> DEFINE At(i) == [prefix |-> i = 1, open |-> e.kind = "list" /\ i = 1,
                       from |-> e.ids[i], dash |-> FALSE, to |-> e.ids[i],
                       close |-> e.kind = "list" /\ i = Len(e.ids)]
             s == [i \in 1..n |-> At(i)]
  <2>1. Pieces(e) = s
    BY <1>1, <1>3 DEF Pieces
  <2>2. ASSUME NEW i \in 1..n
        PROVE  At(i) \in Piece
    <3>1. PICK a \in Address : a = e.ids[i]
      BY <1>1, EntryFacts
    <3>2. PICK b1, b2, b3 \in BOOLEAN :
            /\ b1 = (i = 1) /\ b2 = (e.kind = "list" /\ i = 1)
            /\ b3 = (e.kind = "list" /\ i = Len(e.ids))
      OBVIOUS
    <3>3. At(i) = [prefix |-> b1, open |-> b2, from |-> a, dash |-> FALSE, to |-> a,
                   close |-> b3]
      BY <3>1, <3>2
    <3> QED
      BY <3>3 DEF Piece
  <2>3. s \in [1..n -> Piece] /\ Len(s) = n
    <3> HIDE DEF At
    <3>1. s \in [1..n -> Piece]
      BY <2>2
    <3> QED
      BY <3>1
  <2>4. s \in Seq(Piece)
    BY <2>3, SeqDef
  <2>5. e.kind = "list" \/ (e.kind = "plain" /\ n = 1)
    BY <1>1, <1>3, EntryFacts
  <2>6. \A j \in 1..n : s[j] = At(j)
    OBVIOUS
  <2>7. Width(e) = n
    BY <1>1, <1>3 DEF Width
  <2>8. \A j \in 1..n :
              /\ At(j).prefix <=> j = 1
              /\ At(j).open <=> e.kind # "plain" /\ j = 1
              /\ At(j).from = e.ids[j]
              /\ At(j).dash <=> FALSE
              /\ At(j).close <=> e.kind # "plain" /\ j = n
    BY <1>1, <2>5
  <2> HIDE DEF s, At
  <2> QED
    BY <1>3, <2>1, <2>3, <2>4, <2>6, <2>7, <2>8
<1> QED
  BY <1>2, <1>3

LEMMA ListedFacts ==
  ASSUME Port \subseteq Nat, NEW e \in Entry, WellFormed(e)
  PROVE  /\ Listed(e) \in Seq(Address)
         /\ Len(Listed(e)) = IF e.kind = "range" THEN e.ids[2] - e.ids[1] + 1
                             ELSE Len(e.ids)
         /\ Len(Listed(e)) > 0
<1>1. CASE e.kind = "range"
  <2>1. PICK a, b \in Nat : a = e.ids[1] /\ b = e.ids[2] /\ a <= b /\ a..b \subseteq Port
    BY <1>1, EntryFacts
  <2> DEFINE s == [n \in 1..(b - a + 1) |-> a + n - 1]
  <2>2. s \in [1..(b - a + 1) -> Address] /\ b - a + 1 \in Nat
    <3>1. \A n \in 1..(b - a + 1) : a + n - 1 \in a..b
      BY <2>1
    <3> QED
      BY <2>1, <3>1 DEF Address
  <2>3. Listed(e) = s
    BY <1>1, <2>1 DEF Listed
  <2> HIDE DEF s
  <2>4. s \in Seq(Address) /\ Len(s) = b - a + 1
    BY <2>2, SeqDef
  <2> QED
    BY <1>1, <2>1, <2>3, <2>4
<1>2. CASE e.kind # "range"
  BY <1>2, EntryFacts DEF Listed, Width
<1> QED
  BY <1>1, <1>2

-----------------------------------------------------------------------------
(* All entries: where each begins in the text and in what is meant.        *)

Entries(entries) ==
  /\ Port \subseteq Nat
  /\ entries \in Seq(Entry)
  /\ \A i \in DOMAIN entries : WellFormed(entries[i])

\* p[i] pieces and m[i] addresses belong to the first i entries.
Layout(entries, p, m) ==
  LET n == Len(entries)
  IN  /\ n \in Nat
      /\ p \in [0..n -> Nat]
      /\ p[0] = 0 /\ p[n] = Len(Text(entries))
      /\ Text(entries) \in Seq(Piece)
      /\ m \in [0..n -> Seq(Address)]
      /\ m[0] = <<>> /\ m[n] = Meant(entries)
      /\ \A i \in 1..n :
           /\ entries[i] \in Entry /\ WellFormed(entries[i])
           /\ p[i] = p[i - 1] + Width(entries[i])
           /\ p[i] <= p[n]
           /\ \A j \in 1..Width(entries[i]) :
                Text(entries)[p[i - 1] + j] = Pieces(entries[i])[j]
           /\ m[i] = m[i - 1] \o Listed(entries[i])

LEMMA LaidOut ==
  ASSUME NEW entries, Entries(entries)
  PROVE  \E p, m : Layout(entries, p, m)
<1>1. PICK n \in Nat : n = Len(entries) /\ DOMAIN entries = 1..n
  BY LenProperties DEF Entries
<1>2. \A i \in 1..n : entries[i] \in Entry /\ WellFormed(entries[i])
  BY <1>1, ElementOfSeq DEF Entries
<1>3. Port \subseteq Nat
  BY DEF Entries
<1> DEFINE ps == [i \in 1..n |-> Pieces(entries[i])]
           ls == [i \in 1..n |-> Listed(entries[i])]
<1>4. ps \in Seq(Seq(Piece)) /\ Len(ps) = n
  <2>1. ps \in [1..n -> Seq(Piece)]
    BY <1>2, <1>3, PieceFacts
  <2> HIDE DEF ps
  <2> QED
    BY <2>1, SeqDef
<1>5. ls \in Seq(Seq(Address)) /\ Len(ls) = n
  <2>1. ls \in [1..n -> Seq(Address)]
    BY <1>2, <1>3, ListedFacts
  <2> HIDE DEF ls
  <2> QED
    BY <2>1, SeqDef
<1>6. Text(entries) = FlattenSeq(ps) /\ Meant(entries) = FlattenSeq(ls)
  BY <1>1 DEF Text, Meant
<1>7. \A i \in 1..n : ps[i] = Pieces(entries[i]) /\ ls[i] = Listed(entries[i])
  OBVIOUS
<1> HIDE DEF ps, ls
<1>8. PICK t \in [0..n -> Seq(Piece)] :
        t[0] = <<>> /\ (\A i \in 1..n : t[i] = t[i - 1] \o ps[i]) /\ Text(entries) = t[n]
  BY <1>4, <1>6, FlattenUnfolds
<1>9. PICK m \in [0..n -> Seq(Address)] :
        m[0] = <<>> /\ (\A i \in 1..n : m[i] = m[i - 1] \o ls[i]) /\ Meant(entries) = m[n]
  BY <1>5, <1>6, FlattenUnfolds
<1> DEFINE p == [i \in 0..n |-> Len(t[i])]
<1>10. p \in [0..n -> Nat] /\ \A i \in 0..n : p[i] = Len(t[i])
  BY <1>8, LenProperties
<1> HIDE DEF p
<1>11. ASSUME NEW i \in 1..n
       PROVE  /\ p[i] = p[i - 1] + Width(entries[i])
              /\ \A j \in 1..Width(entries[i]) : t[i][p[i - 1] + j] = Pieces(entries[i])[j]
              /\ \A j \in 1..p[i - 1] : t[i][j] = t[i - 1][j]
  <2>1. i - 1 \in 0..n /\ i \in 0..n
    OBVIOUS
  <2>2. PICK a \in Seq(Piece) : a = t[i - 1]
    BY <1>8, <2>1
  <2>3. PICK b \in Seq(Piece) : b = Pieces(entries[i])
    BY <1>2, <1>3, PieceFacts
  <2>4. t[i] = a \o b
    BY <1>7, <1>8, <2>2, <2>3
  <2>5. /\ Len(a \o b) = Len(a) + Len(b)
        /\ \A j \in 1..Len(a) + Len(b) : (a \o b)[j] = IF j <= Len(a) THEN a[j] ELSE b[j - Len(a)]
    BY ConcatProperties
  <2>6. Len(a) \in Nat /\ Len(b) \in Nat
    BY LenProperties
  <2>7. PICK w \in Nat : w = Width(entries[i]) /\ w = Len(b)
    BY <1>2, <1>3, <2>3, <2>6, PieceFacts
  <2>8. p[i - 1] = Len(t[i - 1]) /\ p[i] = Len(t[i])
    BY <1>10, <2>1
  <2>9. PICK k \in Nat : k = p[i - 1] /\ k = Len(a)
    BY <2>2, <2>6, <2>8
  <2>10. p[i] = k + w
    BY <2>4, <2>5, <2>7, <2>8, <2>9
  <2>11. \A j \in 1..w : t[i][k + j] = b[j]
    <3> SUFFICES ASSUME NEW j \in 1..w
                 PROVE  t[i][k + j] = b[j]
      OBVIOUS
    <3>1. k + j \in 1..(k + w) /\ ~(k + j <= k) /\ (k + j) - k = j
      OBVIOUS
    <3> QED
      BY <3>1, <2>4, <2>5, <2>7, <2>9
  <2>12. \A j \in 1..k : t[i][j] = a[j]
    BY <2>4, <2>5, <2>7, <2>9
  <2> QED
    BY <2>2, <2>3, <2>7, <2>9, <2>10, <2>11, <2>12
<1> DEFINE Starts(k) == \A i \in 0..k : /\ p[i] <= p[k]
                                        /\ \A j \in 1..p[i] : t[k][j] = t[i][j]
           T == {k \in Nat : k <= n => Starts(k)}
<1>12. 0 \in T
  BY <1>10
<1>13. ASSUME NEW k \in Nat, k \in T
       PROVE  k + 1 \in T
  <2> SUFFICES ASSUME k + 1 <= n, NEW i \in 0..(k + 1)
               PROVE  /\ p[i] <= p[k + 1]
                      /\ \A j \in 1..p[i] : t[k + 1][j] = t[i][j]
    OBVIOUS
  <2>1. k + 1 \in 1..n /\ (k + 1) - 1 = k
    OBVIOUS
  <2>2. /\ p[k + 1] = p[k] + Width(entries[k + 1])
        /\ \A j \in 1..p[k] : t[k + 1][j] = t[k][j]
    BY <1>11, <2>1
  <2>3. Width(entries[k + 1]) \in Nat
    BY <1>2, <1>3, <2>1, EntryFacts
  <2>4. p[k] \in Nat /\ p[i] \in Nat /\ p[k + 1] \in Nat
    BY <1>10, <2>1
  <2>5. CASE i = k + 1
    BY <2>5, <2>4
  <2>6. CASE i \in 0..k
    <3>1. p[i] <= p[k] /\ \A j \in 1..p[i] : t[k][j] = t[i][j]
      BY <1>13, <2>6, <2>1
    <3>2. 1..p[i] \subseteq 1..p[k] /\ p[i] <= p[k + 1]
      <4>1. PICK x, y, w \in Nat : x = p[i] /\ y = p[k] /\ w = Width(entries[k + 1])
        BY <2>3, <2>4
      <4>2. x <= y /\ p[k + 1] = y + w
        BY <3>1, <2>2, <4>1
      <4>3. 1..x \subseteq 1..y /\ x <= y + w
        BY <4>2
      <4> QED
        BY <4>1, <4>2, <4>3
    <3> QED
      BY <3>1, <3>2, <2>2
  <2> QED
    BY <2>5, <2>6
<1>14. Starts(n)
  <2>1. n \in T
    <3> HIDE DEF T
    <3> QED
      BY <1>12, <1>13, Induction
  <2> QED
    BY <2>1
<1>15. ASSUME NEW i \in 1..n
       PROVE  /\ p[i] <= p[n]
              /\ \A j \in 1..Width(entries[i]) :
                   Text(entries)[p[i - 1] + j] = Pieces(entries[i])[j]
  <2>1. p[i] <= p[n] /\ \A j \in 1..p[i] : t[n][j] = t[i][j]
    BY <1>14
  <2>2. /\ p[i] = p[i - 1] + Width(entries[i])
        /\ \A j \in 1..Width(entries[i]) : t[i][p[i - 1] + j] = Pieces(entries[i])[j]
    BY <1>11
  <2>3. p[i - 1] \in Nat /\ Width(entries[i]) \in Nat
    <3>1. i - 1 \in 0..n
      OBVIOUS
    <3>2. Width(entries[i]) \in Nat
      BY <1>2, <1>3, EntryFacts
    <3> QED
      BY <3>1, <3>2, <1>10
  <2>4. \A j \in 1..Width(entries[i]) : p[i - 1] + j \in 1..p[i]
    BY <2>2, <2>3
  <2> QED
    BY <1>8, <2>1, <2>2, <2>4
<1>16. p[0] = 0 /\ p[n] = Len(Text(entries)) /\ Text(entries) \in Seq(Piece)
  BY <1>8, <1>10, EmptySeq
<1>17. \A i \in 1..n : m[i] = m[i - 1] \o Listed(entries[i])
  BY <1>7, <1>9
<1>18. Layout(entries, p, m)
  BY <1>1, <1>2, <1>9, <1>10, <1>11, <1>15, <1>16, <1>17 DEF Layout
<1> QED
  BY <1>18

-----------------------------------------------------------------------------
(* The count.                                                              *)

LEMMA MembersOfEntry ==
  ASSUME Port \subseteq Nat, NEW e \in Entry, WellFormed(e), NEW j \in 1..Width(e)
  PROVE  /\ Members(Pieces(e)[j]) \in Nat
         /\ e.kind = "range" => Members(Pieces(e)[j]) = Len(Listed(e))
         /\ e.kind # "range" => Members(Pieces(e)[j]) = 1
<1>1. PICK q : q = Pieces(e)[j]
  OBVIOUS
<1>2. CASE e.kind = "range"
  <2>1. j = 1
    BY <1>2 DEF Width
  <2>2. q.open /\ q.dash /\ q.from = e.ids[1] /\ q.to = e.ids[2]
    BY <1>1, <1>2, <2>1, PieceFacts
  <2>3. PICK a, b \in Nat : a = e.ids[1] /\ b = e.ids[2] /\ a <= b
    BY <1>2, EntryFacts
  <2>4. Members(q) = b - a + 1
    BY <2>2, <2>3 DEF Members
  <2>5. Len(Listed(e)) = b - a + 1
    BY <1>2, <2>3, ListedFacts
  <2> QED
    BY <1>1, <1>2, <2>3, <2>4, <2>5
<1>3. CASE e.kind # "range"
  <2>1. ~q.dash
    BY <1>1, <1>3, PieceFacts
  <2> QED
    BY <1>1, <1>3, <2>1 DEF Members
<1> QED
  BY <1>2, <1>3

\* Where entry i stands in the text, and what it adds.
PlacedAt(entries, p, i) ==
  /\ Port \subseteq Nat /\ entries[i] \in Entry /\ WellFormed(entries[i])
  /\ p[i - 1] \in Nat /\ Width(entries[i]) \in Nat /\ Width(entries[i]) > 0
  /\ p[i] = p[i - 1] + Width(entries[i])
  /\ Len(Text(entries)) \in Nat /\ p[i] <= Len(Text(entries))
  /\ \A j \in 1..Width(entries[i]) :
       Text(entries)[p[i - 1] + j] = Pieces(entries[i])[j]

Adds(entries, m, i) ==
  /\ m[i - 1] \in Seq(Address) /\ m[i] \in Seq(Address)
  /\ Listed(entries[i]) \in Seq(Address) /\ Len(Listed(entries[i])) > 0
  /\ m[i] = m[i - 1] \o Listed(entries[i])

LEMMA Placed ==
  ASSUME NEW entries, Entries(entries), NEW p, NEW m, Layout(entries, p, m),
         NEW i \in 1..Len(entries)
  PROVE  PlacedAt(entries, p, i) /\ Adds(entries, m, i)
<1>1. Len(entries) \in Nat /\ i - 1 \in 0..Len(entries) /\ i \in 0..Len(entries)
  BY DEF Layout
<1>2. p[i - 1] \in Nat /\ m[i - 1] \in Seq(Address) /\ m[i] \in Seq(Address)
  BY <1>1 DEF Layout
<1>3. /\ entries[i] \in Entry /\ WellFormed(entries[i])
      /\ p[i] = p[i - 1] + Width(entries[i])
      /\ p[i] <= Len(Text(entries))
      /\ \A j \in 1..Width(entries[i]) :
           Text(entries)[p[i - 1] + j] = Pieces(entries[i])[j]
      /\ m[i] = m[i - 1] \o Listed(entries[i])
  BY DEF Layout
<1>4. Port \subseteq Nat
  BY DEF Entries
<1>5. /\ Width(entries[i]) \in Nat /\ Width(entries[i]) > 0
      /\ Listed(entries[i]) \in Seq(Address) /\ Len(Listed(entries[i])) > 0
  BY <1>3, <1>4, EntryFacts, ListedFacts
<1>6. Len(Text(entries)) \in Nat
  BY LenProperties DEF Layout
<1>7. PlacedAt(entries, p, i)
  BY <1>2, <1>3, <1>4, <1>5, <1>6 DEF PlacedAt
<1>8. Adds(entries, m, i)
  BY <1>2, <1>3, <1>5 DEF Adds
<1> QED
  BY <1>7, <1>8

\* The strings counted are as many as the addresses meant.
LEMMA Counted ==
  ASSUME NEW entries, Entries(entries), NEW p, NEW m, Layout(entries, p, m)
  PROVE  GetConnectionCount(Text(entries)) = Len(Meant(entries))
<1>1. PICK n \in Nat : n = Len(entries)
  BY DEF Layout
<1>2. PICK t : t = Text(entries)
  OBVIOUS
<1>3. PICK N \in Nat : N = Len(t) /\ N = p[n]
  BY <1>1, <1>2, LenProperties DEF Layout
<1>4. p[0] = 0 /\ m[0] = <<>> /\ m[n] = Meant(entries)
  BY <1>1 DEF Layout
<1> DEFINE T == {k \in Nat : k <= n => \A q \in 1..p[k] : Members(t[q]) \in Nat}
<1>5. 0 \in T
  BY <1>4
<1>6. ASSUME NEW k \in Nat, k \in T
      PROVE  k + 1 \in T
  <2> SUFFICES ASSUME k + 1 <= n, NEW q \in 1..p[k + 1]
               PROVE  Members(t[q]) \in Nat
    OBVIOUS
  <2>1. PICK i \in 1..Len(entries) : i = k + 1 /\ i - 1 = k
    BY <1>1
  <2>2. PICK e : e = entries[i]
    OBVIOUS
  <2>6. PlacedAt(entries, p, i)
    BY Placed
  <2>3. /\ Port \subseteq Nat /\ e \in Entry /\ WellFormed(e)
        /\ p[k] \in Nat /\ Width(e) \in Nat /\ p[k + 1] = p[k] + Width(e)
        /\ \A j \in 1..Width(e) : t[p[k] + j] = Pieces(e)[j]
    BY <1>2, <2>1, <2>2, <2>6 DEF PlacedAt
  <2>4. CASE q <= p[k]
    <3>1. q \in 1..p[k]
      BY <2>3, <2>4
    <3> QED
      BY <1>6, <3>1
  <2>5. CASE q > p[k]
    <3>1. PICK j \in 1..Width(e) : j = q - p[k]
      BY <2>3, <2>5
    <3>2. t[q] = Pieces(e)[j]
      BY <2>3, <3>1
    <3> QED
      BY <2>3, <3>2, MembersOfEntry
  <2> QED
    BY <2>3, <2>4, <2>5
<1>7. \A q \in 1..N : Members(t[q]) \in Nat
  <2>1. n \in T
    <3> HIDE DEF T
    <3> QED
      BY <1>5, <1>6, Induction
  <2> QED
    BY <1>3, <2>1
<1>8. PICK h \in [0..N -> Nat] :
        /\ h[0] = 0 /\ \A q \in 1..N : h[q] = h[q - 1] + Members(t[q])
        /\ GetConnectionCount(t) = h[N]
  BY <1>3, <1>7, CountUnfolds
<1> HIDE DEF T
<1> DEFINE U == {k \in Nat : k <= n => h[p[k]] = Len(m[k])}
<1>9. 0 \in U
  BY <1>4, <1>8, EmptySeq
<1>10. ASSUME NEW k \in Nat, k \in U
       PROVE  k + 1 \in U
  <2> SUFFICES ASSUME k + 1 <= n
               PROVE  h[p[k + 1]] = Len(m[k + 1])
    OBVIOUS
  <2>0. h[p[k]] = Len(m[k])
    BY <1>10
  <2> HIDE DEF U
  <2>1. PICK i \in 1..Len(entries) : i = k + 1 /\ i - 1 = k
    BY <1>1
  <2>2. PICK e : e = entries[i]
    OBVIOUS
  <2>11. PlacedAt(entries, p, i) /\ Adds(entries, m, i)
    BY Placed
  <2>3. /\ Port \subseteq Nat /\ e \in Entry /\ WellFormed(e)
        /\ p[k] \in Nat /\ Width(e) \in Nat /\ Width(e) > 0
        /\ p[k + 1] = p[k] + Width(e) /\ p[k + 1] <= N
        /\ \A j \in 1..Width(e) : t[p[k] + j] = Pieces(e)[j]
    BY <1>2, <1>3, <2>1, <2>2, <2>11 DEF PlacedAt
  <2>12. m[k] \in Seq(Address) /\ m[k + 1] = m[k] \o Listed(e)
    BY <2>1, <2>2, <2>11 DEF Adds
  <2>4. PICK w \in Nat : w = Width(e) /\ w > 0
    BY <2>3
  <2>5. PICK P \in Nat : P = p[k] /\ p[k + 1] = P + w /\ P + w <= N
    BY <2>3, <2>4
  <2>6. Listed(e) \in Seq(Address)
    BY <2>3, ListedFacts
  <2>7. PICK x, y \in Nat : x = Len(m[k]) /\ y = Len(Listed(e)) /\ Len(m[k + 1]) = x + y
    BY <2>12, <2>6, ConcatProperties, LenProperties
  <2>8. ASSUME NEW j \in 1..w
        PROVE  h[P + j] = h[P + j - 1] + Members(Pieces(e)[j])
    <3>1. P + j \in 1..N
      <4>1. P + w <= N
        BY <2>5
      <4> QED
        BY <4>1
    <3>2. t[P + j] = Pieces(e)[j]
      BY <2>3, <2>4, <2>5
    <3> QED
      BY <1>8, <3>1, <3>2
  <2>9. CASE e.kind = "range"
    <3>1. w = 1
      BY <2>4, <2>9 DEF Width
    <3>2. 1 \in 1..w /\ 1 \in 1..Width(e)
      BY <2>4, <3>1
    <3>3. Members(Pieces(e)[1]) = y
      BY <2>3, <2>7, <2>9, <3>2, MembersOfEntry
    <3>4. h[P + 1] = h[P + 1 - 1] + y
      BY <2>8, <3>2, <3>3
    <3>5. P + 1 - 1 = P
      OBVIOUS
    <3> QED
      BY <2>0, <2>5, <2>7, <3>1, <3>4, <3>5
  <2>10. CASE e.kind # "range"
    <3>1. y = w
      BY <2>3, <2>4, <2>7, <2>10, ListedFacts DEF Width
    <3> DEFINE V == {j \in Nat : j <= w => h[P + j] = x + j}
    <3>2. 0 \in V
      BY <2>0, <2>5, <2>7
    <3>3. ASSUME NEW j \in Nat, j \in V
          PROVE  j + 1 \in V
      <4> SUFFICES ASSUME j + 1 <= w
                   PROVE  h[P + (j + 1)] = x + (j + 1)
        OBVIOUS
      <4>1. h[P + j] = x + j
        BY <3>3
      <4>2. j + 1 \in 1..w /\ P + (j + 1) - 1 = P + j
        OBVIOUS
      <4>3. Members(Pieces(e)[j + 1]) = 1
        BY <2>3, <2>4, <2>10, <4>2, MembersOfEntry
      <4>4. h[P + (j + 1)] = h[P + j] + 1
        BY <2>8, <4>2, <4>3
      <4> QED
        BY <4>1, <4>4
    <3>4. w \in V
      <4> HIDE DEF V
      <4> QED
        BY <3>2, <3>3, Induction
    <3> QED
      BY <2>5, <2>7, <3>1, <3>4
  <2> QED
    BY <2>9, <2>10
<1>11. n \in U
  <2> HIDE DEF U
  <2> QED
    BY <1>9, <1>10, Induction
<1> QED
  BY <1>2, <1>3, <1>4, <1>8, <1>11

-----------------------------------------------------------------------------
(* The strings.                                                            *)

\* What is written for the pieces of an entry.
LEMMA Expanded ==
  ASSUME Port \subseteq Nat, NEW e \in Entry, WellFormed(e)
  PROVE  Expand(Pieces(e)) = Listed(e)
<1>1. PICK c \in Seq(Piece) : c = Pieces(e) /\ Len(c) = Width(e) /\ DOMAIN c = 1..Width(e)
  BY PieceFacts, LenProperties
<1>2. Width(e) \in Nat /\ 1 \in 1..Width(e)
  BY EntryFacts
<1>3. PICK q : q = c[1]
  OBVIOUS
<1>4. /\ q.prefix /\ (q.open <=> e.kind # "plain") /\ q.from = e.ids[1]
      /\ (q.dash <=> e.kind = "range")
  BY <1>1, <1>2, <1>3, PieceFacts
<1>5. CASE e.kind = "plain"
  <2>1. PICK a : a = e.ids[1]
    OBVIOUS
  <2>2. Expand(c) = <<a>>
    BY <1>3, <1>4, <1>5, <2>1 DEF Expand
  <2>3. e.ids \in Seq(Address) /\ Len(e.ids) = 1
    BY <1>5, EntryFacts
  <2>4. e.ids = <<a>>
    BY <2>1, <2>3
  <2> QED
    BY <1>1, <1>5, <2>2, <2>4 DEF Listed
<1>6. CASE e.kind = "range"
  <2>1. q.to = e.ids[2]
    BY <1>1, <1>2, <1>3, <1>6, PieceFacts
  <2>2. PICK a, b : a = e.ids[1] /\ b = e.ids[2]
    OBVIOUS
  <2>3. Expand(c) = [n \in 1..(b - a + 1) |-> a + n - 1]
    BY <1>3, <1>4, <1>6, <2>1, <2>2 DEF Expand
  <2> QED
    BY <1>1, <1>6, <2>2, <2>3 DEF Listed
<1>7. CASE e.kind = "list"
  <2>1. Expand(c) = [k \in 1..Width(e) |-> c[k].from]
    BY <1>1, <1>3, <1>4, <1>7 DEF Expand
  <2>2. \A k \in 1..Width(e) : c[k].from = e.ids[k]
    BY <1>1, PieceFacts
  <2>3. e.ids \in Seq(Address) /\ Len(e.ids) = Width(e)
    BY <1>7, EntryFacts DEF Width
  <2>4. e.ids = [k \in 1..Width(e) |-> e.ids[k]]
    BY <2>3
  <2> QED
    BY <1>1, <1>7, <2>1, <2>2, <2>4 DEF Listed
<1> QED
  BY <1>5, <1>6, <1>7, EntryFacts

\* The candidate that begins with an entry is that entry.
LEMMA CandidateIsEntry ==
  ASSUME NEW entries, Entries(entries), NEW p, NEW m, Layout(entries, p, m),
         NEW i \in 1..Len(entries)
  PROVE  LET t    == Text(entries)
             stop == CandidateEnd(t, p[i - 1] + 1)
         IN  /\ stop = p[i]
             /\ Expand(SubSeq(t, p[i - 1] + 1, stop)) = Listed(entries[i])
<1>1. PICK t : t = Text(entries)
  OBVIOUS
<1>2. PICK e : e = entries[i]
  OBVIOUS
<1>3. /\ Port \subseteq Nat /\ e \in Entry /\ WellFormed(e)
      /\ p[i - 1] \in Nat /\ Width(e) \in Nat /\ Width(e) > 0
      /\ p[i] = p[i - 1] + Width(e) /\ Len(t) \in Nat /\ p[i] <= Len(t)
      /\ \A j \in 1..Width(e) : t[p[i - 1] + j] = Pieces(e)[j]
  <2>1. PlacedAt(entries, p, i)
    BY Placed
  <2> QED
    BY <1>1, <1>2, <2>1 DEF PlacedAt
<1>4. PICK P, w, N \in Nat : P = p[i - 1] /\ w = Width(e) /\ N = Len(t)
                             /\ p[i] = P + w /\ P + w <= N /\ w > 0
  BY <1>3
<1>5. \A j \in 1..w : t[P + j] = Pieces(e)[j]
  BY <1>3, <1>4
<1>6. \A j \in 1..w : /\ Pieces(e)[j].open <=> e.kind # "plain" /\ j = 1
                      /\ Pieces(e)[j].close <=> e.kind # "plain" /\ j = w
  BY <1>3, <1>4, PieceFacts
<1>7. CandidateEnd(t, P + 1) = P + w
  <2>1. CASE e.kind = "plain"
    <3>1. w = 1
      BY <1>3, <1>4, <2>1, EntryFacts DEF Width
    <3>2. ~t[P + 1].open
      BY <1>5, <1>6, <2>1, <3>1
    <3> QED
      BY <3>1, <3>2 DEF CandidateEnd
  <2>2. CASE e.kind # "plain"
    <3> DEFINE closing == {j \in (P + 1)..N : t[j].close}
    <3>1. P + w \in closing
      <4>1. w \in 1..w /\ P + w \in (P + 1)..N
        BY <1>4
      <4> QED
        BY <1>5, <1>6, <2>2, <4>1
    <3>2. \A j \in closing : P + w <= j
      <4> SUFFICES ASSUME NEW j \in closing, j < P + w
                   PROVE  FALSE
        BY <1>4
      <4>1. PICK k \in 1..w : k = j - P /\ k # w
        BY <1>4
      <4>2. j = P + k
        BY <4>1
      <4>3. ~t[j].close
        BY <1>5, <1>6, <4>1, <4>2
      <4> QED
        BY <4>3
    <3>3. t[P + 1].open
      <4>1. 1 \in 1..w
        BY <1>4
      <4> QED
        BY <1>5, <1>6, <2>2, <4>1
    <3>4. CandidateEnd(t, P + 1) = CHOOSE j \in closing : \A k \in closing : j <= k
      BY <1>4, <3>1, <3>3 DEF CandidateEnd
    <3>5. closing \subseteq Nat
      BY <1>4
    <3> HIDE DEF closing
    <3>6. \A j \in closing : (\A k \in closing : j <= k) => j = P + w
      <4> SUFFICES ASSUME NEW j \in closing, \A k \in closing : j <= k
                   PROVE  j = P + w
        OBVIOUS
      <4>1. j <= P + w /\ P + w <= j /\ j \in Nat
        BY <3>1, <3>2, <3>5
      <4> QED
        BY <4>1
    <3>7. \A k \in closing : P + w <= k
      BY <3>2
    <3> QED
      BY <3>1, <3>4, <3>6, <3>7
  <2> QED
    BY <2>1, <2>2
<1>8. SubSeq(t, P + 1, P + w) = Pieces(e)
  <2>1. PICK s \in Seq(Piece) : s = Pieces(e) /\ Len(s) = w
    BY <1>3, <1>4, PieceFacts
  <2>2. \A j \in (P + 1)..(P + w) : t[j] \in Piece
    <3> SUFFICES ASSUME NEW j \in (P + 1)..(P + w)
                 PROVE  t[j] \in Piece
      OBVIOUS
    <3>1. PICK k \in 1..w : k = j - P /\ j = P + k
      OBVIOUS
    <3>2. t[j] = s[k]
      BY <1>5, <2>1, <3>1
    <3> QED
      BY <2>1, <3>2, ElementOfSeq
  <2>3. PICK d : d = SubSeq(t, P + 1, P + w)
    OBVIOUS
  <2>4. /\ d \in Seq(Piece)
        /\ Len(d) = IF P + 1 <= P + w THEN (P + w) - (P + 1) + 1 ELSE 0
        /\ \A j \in 1..((P + w) - (P + 1) + 1) : d[j] = t[(P + 1) + j - 1]
    <3>1. PICK lo, hi \in Int : lo = P + 1 /\ hi = P + w
      OBVIOUS
    <3>2. PICK S : S = Piece
      OBVIOUS
    <3>3. \A j \in lo..hi : t[j] \in S
      BY <2>2, <3>1, <3>2
    <3>4. d = SubSeq(t, lo, hi)
      BY <2>3, <3>1
    <3>5. /\ d \in Seq(S)
          /\ Len(d) = IF lo <= hi THEN hi - lo + 1 ELSE 0
          /\ \A j \in 1..(hi - lo + 1) : d[j] = t[lo + j - 1]
      BY <3>3, <3>4, SubSeqProperties
    <3> QED
      BY <3>1, <3>2, <3>5
  <2>5. Len(d) = w /\ \A j \in 1..w : d[j] = t[P + j]
    <3>1. (P + w) - (P + 1) + 1 = w /\ P + 1 <= P + w
      BY <1>4
    <3>2. \A j \in 1..w : (P + 1) + j - 1 = P + j
      OBVIOUS
    <3> QED
      BY <2>4, <3>1, <3>2
  <2>6. \A j \in 1..Len(d) : d[j] = s[j]
    BY <1>5, <2>1, <2>5
  <2>7. d = s
    BY <2>1, <2>4, <2>5, <2>6, SeqEqual
  <2> QED
    BY <2>1, <2>3, <2>7
<1>9. Expand(Pieces(e)) = Listed(e)
  BY <1>3, Expanded
<1> QED
  BY <1>1, <1>2, <1>4, <1>7, <1>8, <1>9

\* The strings written are the addresses meant.
LEMMA Written ==
  ASSUME NEW entries, Entries(entries), NEW p, NEW m, Layout(entries, p, m)
  PROVE  InitStrArray(Text(entries)) = Meant(entries)
<1>1. PICK n \in Nat : n = Len(entries)
  BY DEF Layout
<1>2. PICK t : t = Text(entries)
  OBVIOUS
<1>3. PICK N \in Nat : N = Len(t) /\ N = p[n]
  BY <1>1, <1>2, LenProperties DEF Layout
<1>4. /\ p[0] = 0 /\ m[0] = <<>> /\ m[n] = Meant(entries)
      /\ m[n] \in Seq(Address) /\ <<>> \in Seq(Address)
  BY <1>1, EmptySeq DEF Layout
<1>5. PICK f : WrittenFrom(t, f)
  BY <1>3, StrArrayUnfolds
<1>12. InitStrArray(t) = f[1] /\ f[N + 1] = <<>>
  BY <1>3, <1>5 DEF WrittenFrom
<1>6. ASSUME NEW i \in 1..n
      PROVE  f[p[i - 1] + 1] = Listed(entries[i]) \o f[p[i] + 1]
  <2>1. PlacedAt(entries, p, i)
    BY <1>1, Placed
  <2>2. PICK k \in 1..N : k = p[i - 1] + 1
    <3>1. p[i - 1] \in Nat /\ p[i] > p[i - 1] /\ p[i] <= N
      BY <1>2, <1>3, <2>1 DEF PlacedAt
    <3>2. p[i - 1] + 1 \in 1..N
      BY <2>1, <3>1 DEF PlacedAt
    <3> QED
      BY <3>2
  <2>3. CandidateEnd(t, k) = p[i] /\ Expand(SubSeq(t, k, CandidateEnd(t, k))) = Listed(entries[i])
    BY <1>1, <1>2, <2>2, CandidateIsEntry
  <2>4. f[k] = Expand(SubSeq(t, k, CandidateEnd(t, k))) \o f[CandidateEnd(t, k) + 1]
    BY <1>3, <1>5 DEF WrittenFrom
  <2> QED
    BY <2>2, <2>3, <2>4
<1> DEFINE Rest(i) == f[p[i] + 1]
           Good(i) == Rest(i) \in Seq(Address) /\ m[i] \o Rest(i) = m[n]
           T == {k \in Nat : k <= n => Good(n - k)}
<1>7. Good(n)
  <2>1. Rest(n) = <<>>
    BY <1>3, <1>12
  <2>2. m[n] \o <<>> = m[n]
    BY <1>4, ConcatEmptySeq
  <2> QED
    BY <1>4, <2>1, <2>2
<1>13. \A i \in 1..n : Rest(i - 1) = Listed(entries[i]) \o Rest(i)
  BY <1>6
<1>14. n - n = 0 /\ Rest(0) = f[1]
  <2>1. p[0] + 1 = 1
    BY <1>4
  <2> QED
    BY <2>1
<1> HIDE DEF Rest
<1>8. ASSUME NEW i \in 1..n, Good(i)
      PROVE  Good(i - 1)
  <2>1. PICK x : x = m[n]
    OBVIOUS
  <2>2. PICK r \in Seq(Address) : r = Rest(i) /\ m[i] \o r = x
    BY <1>8, <2>1
  <2>3. Adds(entries, m, i)
    BY <1>1, Placed
  <2>4. PICK a, b \in Seq(Address) : a = m[i - 1] /\ b = Listed(entries[i]) /\ m[i] = a \o b
    BY <2>3 DEF Adds
  <2>5. Rest(i - 1) = b \o r
    BY <1>13, <2>2, <2>4
  <2>6. b \o r \in Seq(Address)
    BY ConcatProperties
  <2>7. (a \o b) \o r = x
    BY <2>2, <2>4
  <2>8. (a \o b) \o r = a \o (b \o r)
    BY ConcatAssociative
  <2>9. a \o (b \o r) = x
    BY <2>7, <2>8
  <2> QED
    BY <2>1, <2>4, <2>5, <2>6, <2>9
<1> HIDE DEF Good
<1>9. n \in T
  <2>1. 0 \in T
    <3>1. n - 0 = n
      OBVIOUS
    <3> QED
      BY <1>7, <3>1
  <2>2. ASSUME NEW k \in Nat, k \in T
        PROVE  k + 1 \in T
    <3> SUFFICES ASSUME k + 1 <= n
                 PROVE  Good(n - (k + 1))
      OBVIOUS
    <3>1. PICK i \in 1..n : i = n - k /\ n - (k + 1) = i - 1
      OBVIOUS
    <3>2. Good(i)
      BY <2>2, <3>1
    <3> QED
      BY <1>8, <3>1, <3>2
  <2> HIDE DEF T
  <2> QED
    BY <2>1, <2>2, Induction
<1>10. Good(0)
  BY <1>9, <1>14
<1>11. f[1] = m[n]
  <2>1. f[1] \in Seq(Address) /\ <<>> \o f[1] = m[n]
    BY <1>4, <1>10, <1>14 DEF Good
  <2> QED
    BY <2>1, ConcatEmptySeq
<1> QED
  BY <1>2, <1>4, <1>11, <1>12

\* Something is meant by a list that is not empty.
LEMMA MeantFacts ==
  ASSUME NEW entries, Entries(entries), NEW p, NEW m, Layout(entries, p, m)
  PROVE  /\ Meant(entries) \in Seq(Address)
         /\ entries # <<>> => Meant(entries) # <<>>
<1>1. PICK n \in Nat : n = Len(entries)
  BY DEF Layout
<1>2. m[n] \in Seq(Address) /\ m[n] = Meant(entries)
  BY <1>1 DEF Layout
<1>3. ASSUME entries # <<>>
      PROVE  m[n] # <<>>
  <2>1. n \in 1..Len(entries)
    BY <1>1, <1>3, EmptySeq DEF Entries
  <2>2. Adds(entries, m, n)
    BY <2>1, Placed
  <2>3. PICK a, b \in Seq(Address) : m[n] = a \o b /\ Len(b) > 0
    BY <2>2 DEF Adds
  <2>4. b # <<>>
    BY <2>3, EmptySeq
  <2> QED
    BY <2>3, <2>4, ConcatEqualIffEmpty
<1> QED
  BY <1>2, <1>3

\* However addresses are listed, in brackets or not, the two passes over the
\* string agree: parser_getConnectionCount counts what parser_initStrArray
\* writes, and that is what the user listed, in order.
THEOREM PassesAgree ==
  ASSUME NEW entries, Entries(entries), entries # <<>>
  PROVE  /\ InitStrArray(Text(entries)) = Meant(entries)
         /\ Meant(entries) \in Seq(Address) \ {<<>>}
         /\ GetConnectionCount(Text(entries)) = Len(Meant(entries))
<1>1. PICK p, m : Layout(entries, p, m)
  BY LaidOut
<1> QED
  BY <1>1, Counted, Written, MeantFacts
=============================================================================
