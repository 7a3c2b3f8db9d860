-------------------------- MODULE StatusPage_proofs --------------------------
(***************************************************************************)
(* Proofs about StatusPage, for every set of backups and every number of   *)
(* requests, syncs and restarts: the cards of a page stay in order, each   *)
(* once, and an error that was resolved stays hidden.                      *)
(***************************************************************************)
EXTENDS StatusPage, FiniteSetTheorems, SequenceTheorems, TLAPS

-----------------------------------------------------------------------------
(* A finite set can be put in order.  A smallest subset whose keys are     *)
(* above those of the rest has only elements with the largest key.         *)
LEMMA LargestExists ==
    ASSUME NEW S, IsFiniteSet(S), S # {}, NEW key \in [S -> Int]
    PROVE  \E e \in S : \A x \in S : key[x] <= key[e]
<1> DEFINE T == {U \in SUBSET S : U # {} /\ \A x \in U : \A y \in S \ U : key[y] < key[x]}
<1>1. PICK U \in T : \A V \in T : ~ (<<V, U>> \in StrictSubsetOrdering(S))
  <2>1. S \in T
    OBVIOUS
  <2>2. T \subseteq FiniteSubsetsOf(S) /\ T # {}
    BY <2>1, FS_Subset DEF FiniteSubsetsOf
  <2> HIDE DEF T
  <2> QED BY <2>2, FS_StrictSubsetOrderingWellFounded, WFMin
<1>2. PICK e \in U : TRUE
  OBVIOUS
<1>3. ASSUME NEW a \in U, NEW b \in U, key[a] < key[b] PROVE FALSE
  <2> DEFINE V == {u \in U : key[a] < key[u]}
  <2>1. \A v \in V : \A z \in S \ V : key[z] < key[v]
    <3> SUFFICES ASSUME NEW v \in V, NEW z \in S \ V PROVE key[z] < key[v]
      OBVIOUS
    <3>1. CASE z \in U
      BY <3>1
    <3>2. CASE z \notin U
      BY <3>2
    <3> QED BY <3>1, <3>2
  <2>2. V \in T /\ V # U /\ V \subseteq U
    BY <1>3, <2>1
  <2> QED BY <1>1, <2>2 DEF StrictSubsetOrdering
<1>4. \A x \in S : key[x] <= key[e]
  <2> SUFFICES ASSUME NEW x \in S PROVE key[x] <= key[e]
    OBVIOUS
  <2>1. CASE x \in U
    BY <1>3, <2>1
  <2>2. CASE x \notin U
    BY <2>2
  <2> QED BY <2>1, <2>2
<1> QED BY <1>4

IsOrder(order, S, key) ==
    /\ \A e \in S : \E i \in DOMAIN order : order[i] = e
    /\ \A i, j \in DOMAIN order : i < j => key[order[i]] <= key[order[j]]

LEMMA OrderExists ==
    ASSUME NEW S, IsFiniteSet(S), NEW key \in [S -> Int]
    PROVE  \E order \in [1..Cardinality(S) -> S] : IsOrder(order, S, key)
<1> DEFINE Orderable(U) == \E order \in [1..Cardinality(U) -> U] : IsOrder(order, U, key)
           T == {U \in SUBSET S : ~Orderable(U)}
<1> SUFFICES ASSUME S \in T PROVE FALSE
  OBVIOUS
<1> HIDE DEF T
<1>1. PICK U \in T : \A V \in T : ~ (<<V, U>> \in StrictSubsetOrdering(S))
  <2>1. T \subseteq FiniteSubsetsOf(S) /\ T # {}
    BY FS_Subset DEF FiniteSubsetsOf, T
  <2> QED BY <2>1, FS_StrictSubsetOrderingWellFounded, WFMin
<1>2. U \in SUBSET S /\ IsFiniteSet(U) /\ ~Orderable(U)
  BY FS_Subset DEF T
<1>3. U # {}
  <2> SUFFICES ASSUME U = {} PROVE FALSE
    OBVIOUS
  <2>1. Cardinality(U) = 0
    BY FS_EmptySet
  <2>2. <<>> \in [1..0 -> U] /\ IsOrder(<<>>, U, key)
    BY DEF IsOrder
  <2> QED BY <1>2, <2>1, <2>2
<1>4. PICK e \in U : \A x \in U : key[x] <= key[e]
  <2>1. [x \in U |-> key[x]] \in [U -> Int]
    BY <1>2
  <2>2. \E e \in U : \A x \in U : [y \in U |-> key[y]][x] <= [y \in U |-> key[y]][e]
    BY <1>2, <1>3, <2>1, LargestExists
  <2> QED BY <2>2
<1> DEFINE V == U \ {e}
           n == Cardinality(V)
<1>5. IsFiniteSet(V) /\ n \in Nat /\ Cardinality(U) = n + 1
  <2>1. IsFiniteSet(V) /\ n = Cardinality(U) - 1
    BY <1>2, FS_RemoveElement
  <2>2. n \in Nat /\ Cardinality(U) \in Nat
    BY <1>2, <2>1, FS_CardinalityType
  <2> QED BY <2>1, <2>2
<1>6. Orderable(V)
  <2>1. <<V, U>> \in StrictSubsetOrdering(S)
    BY <1>2 DEF StrictSubsetOrdering
  <2> QED BY <1>1, <1>2, <2>1 DEF T
<1>7. PICK f \in [1..n -> V] : IsOrder(f, V, key)
  BY <1>6
<1> DEFINE g == [i \in 1..(n + 1) |-> IF i = n + 1 THEN e ELSE f[i]]
<1> HIDE DEF n
<1>8. g \in [1..(n + 1) -> U]
  BY <1>5
<1>9. IsOrder(g, U, key)
  <2>1. \A x \in U : \E i \in DOMAIN g : g[i] = x
    <3> SUFFICES ASSUME NEW x \in U PROVE \E i \in 1..(n + 1) : g[i] = x
      OBVIOUS
    <3>1. CASE x = e
      BY <1>5, <3>1
    <3>2. CASE x # e
      <4>1. PICK i \in 1..n : f[i] = x
        BY <1>7, <3>2 DEF IsOrder
      <4> QED BY <1>5, <4>1
    <3> QED BY <3>1, <3>2
  <2>2. ASSUME NEW i \in 1..(n + 1), NEW j \in 1..(n + 1), i < j PROVE key[g[i]] <= key[g[j]]
    <3>1. i \in 1..n /\ g[i] = f[i] /\ f[i] \in V
      BY <1>5, <2>2
    <3>2. CASE j = n + 1
      BY <1>4, <3>1, <3>2
    <3>3. CASE j # n + 1
      BY <1>5, <1>7, <2>2, <3>1, <3>3 DEF IsOrder
    <3> QED BY <3>2, <3>3
  <2> QED BY <2>1, <2>2 DEF IsOrder
<1> QED BY <1>2, <1>5, <1>8, <1>9

(* What InOrder gives: each element once, those with the smallest key first.*)
LEMMA InOrderOrders ==
    ASSUME NEW S, IsFiniteSet(S), NEW key \in [S -> Int]
    PROVE  /\ Cardinality(S) \in Nat
           /\ InOrder(S, key) \in [1..Cardinality(S) -> S]
           /\ \A e \in S : \E i \in 1..Cardinality(S) : InOrder(S, key)[i] = e
           /\ \A i, j \in 1..Cardinality(S) :
                 /\ i < j => key[InOrder(S, key)[i]] <= key[InOrder(S, key)[j]]
                 /\ InOrder(S, key)[i] = InOrder(S, key)[j] => i = j
<1> DEFINE n == Cardinality(S)
           order == InOrder(S, key)
<1>1. n \in Nat
  BY FS_CardinalityType
<1>2. order \in [1..n -> S] /\ IsOrder(order, S, key)
  <2>1. order = CHOOSE o \in [1..n -> S] : IsOrder(o, S, key)
    BY DEF InOrder, IsOrder
  <2>2. \E o \in [1..n -> S] : IsOrder(o, S, key)
    BY OrderExists
  <2> HIDE DEF order, n
  <2> QED BY <2>1, <2>2
<1>3. order \in Injection(1..n, S)
  <2>1. order \in Surjection(1..n, S)
    BY <1>2 DEF Surjection, IsOrder
  <2>2. IsFiniteSet(1..n) /\ Cardinality(1..n) = n
    BY <1>1, FS_Interval
  <2> QED BY <2>1, <2>2, FS_SurjSameCardinalityImpliesInj
<1> HIDE DEF n, order
<1> QED BY <1>1, <1>2, <1>3 DEF IsOrder, Injection, IsInjective, n, order

-----------------------------------------------------------------------------
(* A function defined by recursion on the numbers up to `last' exists: if  *)
(* not, there is a smallest number up to which it does not.                *)
IsIteration(f, last, V, start, step) ==
    /\ f \in [0..last -> V]
    /\ f[0] = start
    /\ \A n \in 1..last : f[n] = step[<<n, f[n - 1]>>]

LEMMA IterationExists ==
    ASSUME NEW last \in Nat, NEW V, NEW start \in V, NEW step \in [(1..last) \X V -> V]
    PROVE  \E f : IsIteration(f, last, V, start, step)
<1> DEFINE Upto(m) == \E f : IsIteration(f, m, V, start, step)
           T == {m \in 0..last : ~Upto(m)}
<1> SUFFICES ASSUME T # {} PROVE FALSE
  BY DEF T
<1> HIDE DEF T
<1>1. PICK m \in T : \A k \in T : ~(<<k, m>> \in OpToRel(<, Nat))
  <2>1. T \subseteq Nat
    BY DEF T
  <2> QED BY <2>1, NatLessThanWellFounded, WFMin
<1>2. m \in 0..last /\ ~Upto(m)
  BY DEF T
<1>3. m # 0
  <2>1. IsIteration([n \in 0..0 |-> start], 0, V, start, step)
    BY DEF IsIteration
  <2> QED BY <1>2, <2>1
<1>4. Upto(m - 1)
  <2>1. m - 1 \in 0..last /\ <<m - 1, m>> \in OpToRel(<, Nat)
    BY <1>2, <1>3 DEF OpToRel
  <2> QED BY <1>1, <2>1 DEF T
<1>5. PICK f : IsIteration(f, m - 1, V, start, step)
  BY <1>4
<1> DEFINE g == [n \in 0..m |-> IF n = m THEN step[<<m, f[m - 1]>>] ELSE f[n]]
<1>6. f[m - 1] \in V /\ m \in 1..last
  BY <1>2, <1>3, <1>5 DEF IsIteration
<1>7. IsIteration(g, m, V, start, step)
  <2>1. \A n \in 0..m : g[n] \in V
    <3> SUFFICES ASSUME NEW n \in 0..m PROVE g[n] \in V
      OBVIOUS
    <3>1. CASE n = m
      BY <1>6, <3>1
    <3>2. CASE n # m
      BY <1>2, <1>5, <3>2 DEF IsIteration
    <3> QED BY <3>1, <3>2
  <2>2. g[0] = start
    BY <1>2, <1>3, <1>5 DEF IsIteration
  <2>3. ASSUME NEW n \in 1..m PROVE g[n] = step[<<n, g[n - 1]>>]
    <3>1. g[n - 1] = f[n - 1]
      BY <1>2
    <3>2. CASE n = m
      <4>1. g[m] = step[<<m, f[m - 1]>>]
        BY <1>2
      <4>2. g[m - 1] = f[m - 1]
        BY <3>1, <3>2
      <4> HIDE DEF g
      <4> QED BY <3>2, <4>1, <4>2
    <3>3. CASE n # m
      BY <1>2, <1>5, <3>1, <3>3 DEF IsIteration
    <3> QED BY <3>2, <3>3
  <2>4. g \in [0..m -> V]
    BY <2>1
  <2> QED BY <2>2, <2>3, <2>4 DEF IsIteration
<1> QED BY <1>2, <1>7

-----------------------------------------------------------------------------
(* The cards of a list.                                                    *)
Card == [slug : Slugs \cup {Pending}, timestamp : Nat]

(* A card of a backup that is not being made has the date of that backup.  *)
Dated(card) == card.slug # Pending => card.timestamp = DateOf[card.slug]

(* Each backup has one card, and the newest comes first.                   *)
Drawn(div) ==
    /\ div \in Seq(Card)
    /\ \A i \in DOMAIN div : Dated(div[i])
    /\ \A i, j \in DOMAIN div :
          i < j => div[i].slug # div[j].slug /\ div[i].timestamp >= div[j].timestamp

(* The place where a new card goes: behind the cards that are not older.   *)
LEMMA PlaceForCard ==
    ASSUME NEW div, Drawn(div), NEW card \in Card
    PROVE  LET later == {i \in DOMAIN div : div[i].timestamp < card.timestamp}
               at == IF later = {} THEN Len(div) + 1
                     ELSE CHOOSE i \in later : \A j \in later : i <= j
           IN  /\ at \in 1..(Len(div) + 1)
               /\ \A i \in DOMAIN div : i < at <=> div[i].timestamp >= card.timestamp
<1> DEFINE later == {i \in DOMAIN div : div[i].timestamp < card.timestamp}
           at == IF later = {} THEN Len(div) + 1
                 ELSE CHOOSE i \in later : \A j \in later : i <= j
<1>1. DOMAIN div = 1..Len(div) /\ Len(div) \in Nat
      /\ \A i \in DOMAIN div : div[i].timestamp \in Nat
  <2>1. div \in Seq(Card)
    BY DEF Drawn
  <2>2. DOMAIN div = 1..Len(div) /\ Len(div) \in Nat /\ \A i \in DOMAIN div : div[i] \in Card
    BY <2>1
  <2> QED BY <2>2 DEF Card
<1>2. card.timestamp \in Nat
  BY DEF Card
<1>3. CASE later = {}
  BY <1>1, <1>2, <1>3
<1>4. CASE later # {}
  <2>1. \E i \in later : \A j \in later : i <= j
    <3>1. later \subseteq Nat
      BY <1>1
    <3>2. PICK i \in later : \A j \in later : ~(<<j, i>> \in OpToRel(<, Nat))
      BY <1>4, <3>1, NatLessThanWellFounded, WFMin
    <3> HIDE DEF later
    <3>3. \A j \in later : i <= j
      <4> TAKE j \in later
      <4>1. i \in Nat /\ j \in Nat
        BY <3>1
      <4>2. j < i => <<j, i>> \in OpToRel(<, Nat)
        BY <4>1 DEF OpToRel
      <4>3. ~(j < i)
        BY <3>2, <4>2
      <4> QED BY <4>1, <4>3
    <3> QED BY <3>3
  <2>2. at \in later /\ \A j \in later : at <= j
    <3> HIDE DEF later
    <3> QED BY <1>4, <2>1
  <2> HIDE DEF at
  <2>3. \A i \in DOMAIN div : at < i => div[at].timestamp >= div[i].timestamp
    BY <2>2 DEF Drawn
  <2>4. at \in 1..Len(div) /\ div[at].timestamp < card.timestamp
    BY <1>1, <2>2
  <2>5. ASSUME NEW i \in DOMAIN div PROVE i < at <=> div[i].timestamp >= card.timestamp
    <3>1. CASE i < at
      BY <1>1, <1>2, <2>2, <3>1
    <3>2. CASE i = at
      BY <1>1, <1>2, <2>4, <3>2
    <3>3. CASE at < i
      BY <1>1, <1>2, <2>3, <2>4, <3>3
    <3> QED BY <1>1, <2>4, <3>1, <3>2, <3>3
  <2>6. at \in 1..(Len(div) + 1)
    BY <1>1, <2>4
  <2> QED BY <2>5, <2>6 DEF at
<1> QED BY <1>3, <1>4

(* An element put into a sequence, and what that does to the others.       *)
LEMMA InsertedAt ==
    ASSUME NEW S, NEW s \in Seq(S), NEW e \in S, NEW at \in 1..(Len(s) + 1)
    PROVE  /\ InsertAt(s, at, e) \in Seq(S)
           /\ Len(InsertAt(s, at, e)) = Len(s) + 1
           /\ \A i \in 1..(Len(s) + 1) :
                 InsertAt(s, at, e)[i] = IF i < at THEN s[i] ELSE IF i = at THEN e ELSE s[i - 1]
<1> DEFINE front == SubSeq(s, 1, at - 1)
           back == SubSeq(s, at, Len(s))
<1>1. Len(s) \in Nat /\ \A i \in 1..Len(s) : s[i] \in S
  BY LenProperties, ElementOfSeq
<1>2. front \in Seq(S) /\ Len(front) = at - 1 /\ \A i \in 1..(at - 1) : front[i] = s[i]
  <2>1. \A i \in 1..(at - 1) : s[i] \in S
    BY <1>1
  <2>2. /\ front \in Seq(S) /\ Len(front) = IF 1 <= at - 1 THEN (at - 1) - 1 + 1 ELSE 0
        /\ \A i \in 1..((at - 1) - 1 + 1) : front[i] = s[1 + i - 1]
    BY <1>1, <2>1, SubSeqProperties
  <2> QED BY <1>1, <2>2
<1>3. /\ back \in Seq(S) /\ Len(back) = Len(s) - at + 1
      /\ \A i \in 1..(Len(s) - at + 1) : back[i] = s[at + i - 1]
  <2>1. \A i \in at..Len(s) : s[i] \in S
    BY <1>1
  <2>2. /\ back \in Seq(S) /\ Len(back) = IF at <= Len(s) THEN Len(s) - at + 1 ELSE 0
        /\ \A i \in 1..(Len(s) - at + 1) : back[i] = s[at + i - 1]
    BY <1>1, <2>1, SubSeqProperties
  <2> QED BY <1>1, <2>2
<1>4. <<e>> \in Seq(S) /\ Len(<<e>>) = 1 /\ <<e>>[1] = e
  OBVIOUS
<1> HIDE DEF front, back
<1>5. /\ front \o <<e>> \in Seq(S) /\ Len(front \o <<e>>) = at
      /\ \A i \in 1..at : (front \o <<e>>)[i] = IF i < at THEN s[i] ELSE e
  <2>1. /\ front \o <<e>> \in Seq(S) /\ Len(front \o <<e>>) = Len(front) + Len(<<e>>)
        /\ \A i \in 1..(Len(front) + Len(<<e>>)) :
              (front \o <<e>>)[i] = IF i <= Len(front) THEN front[i] ELSE <<e>>[i - Len(front)]
    BY <1>2, <1>4, ConcatProperties
  <2> QED BY <1>1, <1>2, <1>4, <2>1
<1> DEFINE u == front \o <<e>>
           w == u \o back
<1> HIDE DEF u
<1>6. /\ u \o back \in Seq(S) /\ Len(u \o back) = Len(s) + 1
      /\ \A i \in 1..(Len(s) + 1) : (u \o back)[i] = IF i <= at THEN u[i] ELSE back[i - at]
  <2>1. u \in Seq(S) /\ Len(u) = at
    BY <1>5 DEF u
  <2>2. /\ u \o back \in Seq(S) /\ Len(u \o back) = Len(u) + Len(back)
        /\ \A i \in 1..(Len(u) + Len(back)) :
              (u \o back)[i] = IF i <= Len(u) THEN u[i] ELSE back[i - Len(u)]
    BY <1>3, <2>1, ConcatProperties
  <2> QED BY <1>1, <1>3, <2>1, <2>2
<1>7. InsertAt(s, at, e) = w
  BY DEF InsertAt, u, front, back
<1> HIDE DEF w
<1>8. ASSUME NEW i \in 1..(Len(s) + 1)
      PROVE  w[i] = IF i < at THEN s[i] ELSE IF i = at THEN e ELSE s[i - 1]
  <2>1. i <= at => w[i] = IF i < at THEN s[i] ELSE e
    <3>1. i <= at => w[i] = u[i] /\ i \in 1..at
      BY <1>1, <1>6 DEF w
    <3> QED BY <1>5, <3>1 DEF u
  <2>2. at < i => w[i] = s[i - 1]
    <3>1. at < i => i - at \in 1..(Len(s) - at + 1) /\ at + (i - at) - 1 = i - 1
      BY <1>1
    <3>2. at < i => w[i] = back[i - at]
      BY <1>1, <1>6 DEF w
    <3> QED BY <1>3, <3>1, <3>2
  <2>3. i \in Nat /\ at \in Nat
    BY <1>1
  <2> QED BY <2>1, <2>2, <2>3
<1> QED BY <1>6, <1>7, <1>8 DEF w

(* A new card: the list stays in order.                                    *)
LEMMA InsertCardDraws ==
    ASSUME NEW div, Drawn(div), NEW card \in Card, Dated(card)
    PROVE  /\ Drawn(InsertCard(div, card))
           /\ SlugsOf(InsertCard(div, card)) = SlugsOf(div) \cup {card.slug}
<1> DEFINE later == {i \in DOMAIN div : div[i].timestamp < card.timestamp}
           place == IF later = {} THEN Len(div) + 1
                    ELSE CHOOSE i \in later : \A j \in later : i <= j
<1>1. CASE card.slug \in SlugsOf(div)
  BY <1>1 DEF InsertCard
<1>2. CASE card.slug \notin SlugsOf(div)
  <2>1. div \in Seq(Card) /\ Len(div) \in Nat /\ DOMAIN div = 1..Len(div)
    BY DEF Drawn
  <2>2. PICK at \in 1..(Len(div) + 1) :
             /\ at = place
             /\ \A i \in DOMAIN div : i < at <=> div[i].timestamp >= card.timestamp
    BY PlaceForCard
  <2> DEFINE new == InsertAt(div, at, card)
  <2>3. /\ new \in Seq(Card) /\ Len(new) = Len(div) + 1
        /\ \A i \in 1..(Len(div) + 1) :
              new[i] = IF i < at THEN div[i] ELSE IF i = at THEN card ELSE div[i - 1]
    <3> HIDE DEF place
    <3> QED BY <2>1, InsertedAt
  <2>4. InsertCard(div, card) = new
    BY <1>2, <2>2 DEF InsertCard
  <2> HIDE DEF new, place
  <2>5. DOMAIN new = 1..(Len(div) + 1)
    BY <2>3
  <2> DEFINE old(i) == IF i < at THEN i ELSE i - 1
  <2>6. \A i \in DOMAIN new : i # at => old(i) \in 1..Len(div) /\ new[i] = div[old(i)]
    BY <2>1, <2>2, <2>3, <2>5
  <2>7. new[at] = card /\ at \in DOMAIN new
    BY <2>1, <2>2, <2>3, <2>5
  <2>8. \A i \in 1..Len(div) : div[i].timestamp \in Nat /\ div[i].slug # card.slug
    <3>1. \A i \in 1..Len(div) : div[i] \in Card
      BY <2>1
    <3> QED BY <1>2, <2>1, <3>1 DEF Card, SlugsOf
  <2>9. \A i \in DOMAIN new : Dated(new[i])
    BY <2>1, <2>6, <2>7 DEF Drawn
  <2>10. ASSUME NEW i \in DOMAIN new, NEW j \in DOMAIN new, i < j
         PROVE  new[i].slug # new[j].slug /\ new[i].timestamp >= new[j].timestamp
    <3>1. CASE i = at
      <4>1. old(j) \in 1..Len(div) /\ new[j] = div[old(j)] /\ ~(old(j) < at)
        BY <2>1, <2>2, <2>5, <2>6, <2>10, <3>1
      <4>2. ~(div[old(j)].timestamp >= card.timestamp)
        BY <2>1, <2>2, <4>1
      <4>3. card.timestamp \in Nat
        BY DEF Card
      <4> QED BY <2>7, <2>8, <3>1, <4>1, <4>2, <4>3
    <3>2. CASE j = at
      <4>1. old(i) \in 1..Len(div) /\ new[i] = div[old(i)] /\ old(i) < at
        BY <2>1, <2>2, <2>5, <2>6, <2>10, <3>2
      <4> QED BY <2>1, <2>2, <2>7, <2>8, <3>2, <4>1
    <3>3. CASE i # at /\ j # at
      <4>1. old(i) \in 1..Len(div) /\ old(j) \in 1..Len(div) /\ new[i] = div[old(i)]
            /\ new[j] = div[old(j)] /\ old(i) < old(j)
        BY <2>1, <2>2, <2>5, <2>6, <2>10, <3>3
      <4> HIDE DEF old
      <4> QED BY <2>1, <4>1 DEF Drawn
    <3> QED BY <3>1, <3>2, <3>3
  <2>11. SlugsOf(new) = SlugsOf(div) \cup {card.slug}
    <3>1. SlugsOf(new) \subseteq SlugsOf(div) \cup {card.slug}
      BY <2>1, <2>6, <2>7 DEF SlugsOf
    <3>2. ASSUME NEW i \in DOMAIN div PROVE \E j \in DOMAIN new : new[j] = div[i]
      <4>1. CASE i < at
        BY <2>1, <2>3, <2>5, <4>1
      <4>2. CASE ~(i < at)
        <5>1. i + 1 \in DOMAIN new /\ ~(i + 1 < at) /\ i + 1 # at
          BY <2>1, <2>2, <2>5, <4>2
        <5> QED BY <2>1, <2>3, <2>5, <5>1
      <4> QED BY <4>1, <4>2
    <3> QED BY <2>7, <3>1, <3>2 DEF SlugsOf
  <2> QED BY <2>3, <2>4, <2>9, <2>10, <2>11 DEF Drawn
<1> QED BY <1>1, <1>2

(* New cards, one after the other.                                         *)
LEMMA InsertCardsDraws ==
    ASSUME NEW div, Drawn(div), NEW new \in Seq(Card), \A n \in DOMAIN new : Dated(new[n])
    PROVE  /\ Drawn(InsertCards(div, new))
           /\ SlugsOf(InsertCards(div, new)) = SlugsOf(div) \cup SlugsOf(new)
<1> DEFINE L == Len(new)
           V == {d \in Seq(Card) : Drawn(d)}
           step == [p \in (1..L) \X V |-> InsertCard(p[2], new[p[1]])]
           IsAfter(f) == f = [n \in 0..L |-> IF n = 0 THEN div ELSE InsertCard(f[n - 1], new[n])]
<1>1. L \in Nat /\ DOMAIN new = 1..L /\ \A n \in 1..L : new[n] \in Card /\ Dated(new[n])
  <2>1. L \in Nat /\ DOMAIN new = 1..L /\ \A n \in 1..L : new[n] \in Card
    BY LenProperties, ElementOfSeq
  <2> QED BY <2>1
<1> HIDE DEF L
<1>2. /\ \A n \in 1..L : \A d \in V : InsertCard(d, new[n]) \in V
      /\ \A n \in 1..L : \A d \in V : SlugsOf(InsertCard(d, new[n])) = SlugsOf(d) \cup {new[n].slug}
  <2> SUFFICES ASSUME NEW n \in 1..L, NEW d \in V
               PROVE  /\ InsertCard(d, new[n]) \in V
                      /\ SlugsOf(InsertCard(d, new[n])) = SlugsOf(d) \cup {new[n].slug}
    OBVIOUS
  <2>1. /\ Drawn(InsertCard(d, new[n]))
        /\ SlugsOf(InsertCard(d, new[n])) = SlugsOf(d) \cup {new[n].slug}
    BY <1>1, InsertCardDraws
  <2> QED BY <2>1 DEF Drawn
<1>3. div \in V
  BY DEF Drawn
<1> HIDE DEF V
<1>4. step \in [(1..L) \X V -> V]
  BY <1>2
<1>5. \A n \in 1..L : \A d \in V : step[<<n, d>>] = InsertCard(d, new[n])
  OBVIOUS
<1> HIDE DEF step
<1>6. \E f : IsAfter(f)
  <2>1. PICK f : IsIteration(f, L, V, div, step)
    BY <1>1, <1>3, <1>4, IterationExists
  <2>2. ASSUME NEW n \in 0..L PROVE f[n] = IF n = 0 THEN div ELSE InsertCard(f[n - 1], new[n])
    <3>1. CASE n = 0
      BY <2>1, <3>1 DEF IsIteration
    <3>2. CASE n # 0
      <4>1. n \in 1..L /\ n - 1 \in 0..L
        BY <1>1, <3>2
      <4>2. f[n] = step[<<n, f[n - 1]>>] /\ f[n - 1] \in V
        BY <2>1, <4>1 DEF IsIteration
      <4> QED BY <1>5, <3>2, <4>1, <4>2
    <3> QED BY <3>1, <3>2
  <2>3. IsAfter(f)
    BY <2>1, <2>2 DEF IsIteration
  <2> QED BY <2>3
<1> DEFINE after == CHOOSE f : IsAfter(f)
<1>7. IsAfter(after)
  <2> HIDE DEF IsAfter
  <2> QED BY <1>6
<1>8. InsertCards(div, new) = after[L]
  BY DEF InsertCards, L
<1> HIDE DEF after
<1> DEFINE I == {p \in (0..L) \X V : SlugsOf(p[2]) = SlugsOf(div) \cup {new[i].slug : i \in 1..p[1]}}
           T == {n \in 0..L : <<n, after[n]>> \notin I}
<1>9. T = {}
  <2> SUFFICES ASSUME T # {} PROVE FALSE
    OBVIOUS
  <2>1. PICK n \in T : \A k \in T : ~(<<k, n>> \in OpToRel(<, Nat))
    <3>1. T \subseteq Nat
      BY <1>1
    <3> HIDE DEF T
    <3> QED BY <3>1, NatLessThanWellFounded, WFMin
  <2>2. n \in 0..L /\ <<n, after[n]>> \notin I
    OBVIOUS
  <2>3. CASE n = 0
    <3>1. after[0] = div
      BY <1>1, <1>7
    <3>2. SlugsOf(div) = SlugsOf(div) \cup {new[i].slug : i \in 1..0}
      OBVIOUS
    <3> QED BY <1>1, <1>3, <2>2, <2>3, <3>1, <3>2
  <2>4. CASE n # 0
    <3>1. n \in 1..L /\ n - 1 \in 0..L /\ <<n - 1, n>> \in OpToRel(<, Nat)
      BY <1>1, <2>2, <2>4 DEF OpToRel
    <3>2. <<n - 1, after[n - 1]>> \in I
      BY <2>1, <3>1
    <3>3. after[n - 1] \in V /\ SlugsOf(after[n - 1]) = SlugsOf(div) \cup {new[i].slug : i \in 1..(n - 1)}
      BY <3>2
    <3>4. after[n] = InsertCard(after[n - 1], new[n])
      BY <1>7, <2>4, <3>1
    <3>5. after[n] \in V /\ SlugsOf(after[n]) = SlugsOf(after[n - 1]) \cup {new[n].slug}
      <4>1. after[n - 1] \in V /\ n \in 1..L
        BY <3>1, <3>3
      <4>2. /\ InsertCard(after[n - 1], new[n]) \in V
            /\ SlugsOf(InsertCard(after[n - 1], new[n])) = SlugsOf(after[n - 1]) \cup {new[n].slug}
        BY <1>2, <4>1
      <4> QED BY <3>4, <4>2
    <3>6. {new[i].slug : i \in 1..n} = {new[i].slug : i \in 1..(n - 1)} \cup {new[n].slug}
      <4>1. 1..n = (1..(n - 1)) \cup {n}
        <5>1. n \in Nat
          BY <1>1, <2>2
        <5>2. \A i : i \in 1..n <=> i \in 1..(n - 1) \/ i = n
          BY <2>4, <5>1
        <5> HIDE DEF I, T
        <5> QED BY <5>2
      <4> QED BY <4>1
    <3>7. SlugsOf(after[n]) = SlugsOf(div) \cup {new[i].slug : i \in 1..n}
      BY <3>3, <3>5, <3>6
    <3>8. <<n, after[n]>> \in I
      BY <2>2, <3>5, <3>7
    <3> QED BY <2>2, <3>8
  <2> QED BY <2>3, <2>4
<1>10. after[L] \in V /\ SlugsOf(after[L]) = SlugsOf(div) \cup {new[i].slug : i \in 1..L}
  <2>1. <<L, after[L]>> \in I
    BY <1>1, <1>9
  <2> QED BY <2>1
<1> QED BY <1>1, <1>8, <1>10 DEF V, SlugsOf

(* What Kept leaves, and in which order.                                   *)
LEMMA KeptPlaces ==
    ASSUME NEW S, NEW s \in Seq(S), NEW places, places \subseteq DOMAIN s
    PROVE  /\ Kept(s, places) \in Seq(S)
           /\ \E order \in [DOMAIN Kept(s, places) -> places] :
                /\ \A i \in places : \E n \in DOMAIN order : order[n] = i
                /\ \A n \in DOMAIN order : Kept(s, places)[n] = s[order[n]]
                /\ \A m, n \in DOMAIN order : m < n => order[m] < order[n]
<1> DEFINE key == [i \in places |-> i]
           N == Cardinality(places)
           order == InOrder(places, key)
<1>1. DOMAIN s = 1..Len(s) /\ Len(s) \in Nat /\ \A i \in 1..Len(s) : s[i] \in S
  BY LenProperties, ElementOfSeq
<1>2. IsFiniteSet(places) /\ places \subseteq Nat
  <2>1. IsFiniteSet(1..Len(s))
    BY <1>1, FS_Interval
  <2> QED BY <1>1, <2>1, FS_Subset
<1>3. key \in [places -> Int]
  BY <1>2
<1>4. /\ N \in Nat /\ order \in [1..N -> places]
      /\ \A i \in places : \E n \in 1..N : order[n] = i
      /\ \A m, n \in 1..N : /\ m < n => key[order[m]] <= key[order[n]]
                            /\ order[m] = order[n] => m = n
  <2> HIDE DEF key
  <2>1. /\ N \in Nat /\ order \in [1..N -> places]
        /\ \A e \in places : \E i \in 1..N : order[i] = e
        /\ \A i, j \in 1..N : /\ i < j => key[order[i]] <= key[order[j]]
                              /\ order[i] = order[j] => i = j
    BY <1>2, <1>3, InOrderOrders, ZenonT(40)
  <2> HIDE DEF order, N
  <2> QED BY <2>1
<1> HIDE DEF order, N
<1>5. \A m, n \in 1..N : m < n => order[m] < order[n]
  <2> SUFFICES ASSUME NEW m \in 1..N, NEW n \in 1..N, m < n PROVE order[m] < order[n]
    OBVIOUS
  <2>1. order[m] \in places /\ order[n] \in places /\ order[m] # order[n]
    <3>1. m # n
      BY <1>4
    <3> QED BY <1>4, <3>1
  <2>2. order[m] <= order[n]
    BY <1>4, <2>1
  <2> QED BY <1>2, <2>1, <2>2
<1>6. Kept(s, places) = [n \in 1..N |-> s[order[n]]]
  BY <1>4 DEF Kept, order
<1>7. [n \in 1..N |-> s[order[n]]] \in [1..N -> S]
  BY <1>1, <1>4
<1>8. Kept(s, places) \in Seq(S)
  BY <1>4, <1>6, <1>7
<1>9. DOMAIN Kept(s, places) = 1..N /\ \A n \in 1..N : Kept(s, places)[n] = s[order[n]]
  BY <1>6
<1> QED BY <1>4, <1>5, <1>8, <1>9

(* What is left of a list that is in order is in order.                    *)
LEMMA KeptDraws ==
    ASSUME NEW div, Drawn(div), NEW places, places \subseteq DOMAIN div
    PROVE  /\ Drawn(Kept(div, places))
           /\ SlugsOf(Kept(div, places)) = {div[i].slug : i \in places}
<1> DEFINE left == Kept(div, places)
<1>1. div \in Seq(Card)
  BY DEF Drawn
<1>2. left \in Seq(Card)
  BY <1>1, KeptPlaces
<1>3. PICK order \in [DOMAIN left -> places] :
           /\ \A i \in places : \E n \in DOMAIN order : order[n] = i
           /\ \A n \in DOMAIN order : left[n] = div[order[n]]
           /\ \A m, n \in DOMAIN order : m < n => order[m] < order[n]
  BY <1>1, KeptPlaces
<1> HIDE DEF left
<1>4. \A n \in DOMAIN left : order[n] \in DOMAIN div /\ left[n] = div[order[n]]
  BY <1>3
<1>5. \A n \in DOMAIN left : Dated(left[n])
  BY <1>4 DEF Drawn
<1>6. \A m, n \in DOMAIN left :
          m < n => left[m].slug # left[n].slug /\ left[m].timestamp >= left[n].timestamp
  BY <1>3, <1>4 DEF Drawn
<1>7. SlugsOf(left) = {div[i].slug : i \in places}
  BY <1>3 DEF SlugsOf
<1> QED BY <1>2, <1>5, <1>6, <1>7 DEF Drawn, left

(* The backups that an answer lists: each of them once or more often.      *)
WellDated(listed) ==
    /\ listed \subseteq Listed /\ IsFiniteSet(listed)
    /\ \A b \in listed : b.slug # Pending => b.timestamp = DateOf[b.slug]

(* Whatever the list showed in order, populateBackupDiv (scripts.js) leaves *)
(* the cards of what the answer lists, each once, the newest first.        *)
THEOREM PopulateDraws ==
    ASSUME NEW div, Drawn(div), NEW listed, WellDated(listed)
    PROVE  /\ Drawn(PopulateBackupDiv(div, listed))
           /\ SlugsOf(PopulateBackupDiv(div, listed)) = {b.slug : b \in listed}
<1> DEFINE key == [b \in listed |-> b.timestamp]
           N == Cardinality(listed)
           byDate == InOrder(listed, key)
           new == [n \in DOMAIN byDate |-> CardOf(byDate[n])]
           all == InsertCards(div, new)
           places == {i \in DOMAIN all : \E b \in listed : b.slug = all[i].slug}
<1>1. key \in [listed -> Int]
  BY DEF WellDated, Listed
<1>2. /\ N \in Nat /\ byDate \in [1..N -> listed]
      /\ \A b \in listed : \E n \in 1..N : byDate[n] = b
  <2> HIDE DEF key
  <2> QED BY <1>1, InOrderOrders DEF WellDated
<1>3. \A b \in listed : CardOf(b) \in Card /\ Dated(CardOf(b)) /\ CardOf(b).slug = b.slug
  BY DEF WellDated, CardOf, Card, Dated, Listed
<1> HIDE DEF byDate, N
<1>4. /\ new \in Seq(Card) /\ DOMAIN new = 1..N
      /\ \A n \in DOMAIN new : byDate[n] \in listed /\ new[n] = CardOf(byDate[n])
  <2>1. new = [n \in 1..N |-> CardOf(byDate[n])] /\ \A n \in 1..N : byDate[n] \in listed
    BY <1>2
  <2>2. new \in [1..N -> Card]
    BY <1>3, <2>1
  <2> QED BY <1>2, <2>1, <2>2
<1>5. \A n \in DOMAIN new : Dated(new[n])
  BY <1>3, <1>4
<1>6. SlugsOf(new) = {b.slug : b \in listed}
  <2>1. ASSUME NEW n \in DOMAIN new PROVE \E b \in listed : new[n].slug = b.slug
    BY <1>3, <1>4
  <2>2. ASSUME NEW b \in listed PROVE \E n \in DOMAIN new : new[n].slug = b.slug
    <3>1. PICK n \in 1..N : byDate[n] = b
      BY <1>2
    <3>2. new[n] = CardOf(b) /\ n \in DOMAIN new
      BY <1>4, <3>1
    <3> QED BY <1>3, <3>2
  <2> HIDE DEF new
  <2> QED BY <2>1, <2>2 DEF SlugsOf
<1> HIDE DEF new
<1>7. Drawn(all) /\ SlugsOf(all) = SlugsOf(div) \cup SlugsOf(new)
  BY <1>4, <1>5, InsertCardsDraws
<1> HIDE DEF all
<1>8. Drawn(Kept(all, places)) /\ SlugsOf(Kept(all, places)) = {all[i].slug : i \in places}
  BY <1>7, KeptDraws
<1>9. {all[i].slug : i \in places} = {b.slug : b \in listed}
  <2>1. \A b \in listed : \E i \in DOMAIN all : all[i].slug = b.slug
    BY <1>6, <1>7 DEF SlugsOf
  <2> QED BY <2>1
<1>10. PopulateBackupDiv(div, listed) = Kept(all, places)
  BY DEF PopulateBackupDiv, all, new, byDate
<1> QED BY <1>8, <1>9, <1>10

-----------------------------------------------------------------------------
(* The inductive invariant: of the server, of what is on its way, of what  *)
(* the page shows, and of the errors the user has dealt with.              *)
Answers == {data \in StatusAnswers : WellDated(data.backups)}

ServerFits ==
    /\ StatusTypeOK
    /\ working \in BOOLEAN /\ life \in Nat
    /\ WellDated(backups)

RequestsFit == requests \in Seq([kind : Kinds, data : Answers])

PageFits ==
    /\ cards \in [BOOLEAN -> Seq(Card)]
    /\ lastData \in Answers
    /\ \A ignored \in BOOLEAN :
          /\ Drawn(cards[ignored])
          /\ SlugsOf(cards[ignored]) =
               {b.slug : b \in {x \in lastData.backups : x.ignored = ignored}}
    /\ lostToast \in BOOLEAN /\ errorShown \in BOOLEAN /\ errorMinimum \in Nat
    /\ ShowsLastAnswer

(* The error of before, or of now, is not one that the server shows: life  *)
(* and failures only go up, so it never is again.                          *)
Quiet(e) ==
    /\ \/ e.life < life
       \/ e.life = life /\ e.failures <= failures
    /\ e = [life |-> life, failures |-> failures] => ignoreErrors \/ ~lastError

ShowsNot(data, e) == ErrorOf(data) = e => ~data.lastError \/ data.ignored

(* A resolved error is hidden by the watermark of the page, or, when that  *)
(* was lost with the page, by the server, which has hushed it before.      *)
ErrorsFit ==
    /\ hushed \in [life : Nat, failures : Nat] /\ resolved \in [life : Nat, failures : Nat]
    /\ Quiet(hushed)
    /\ resolved # NoError =>
          \/ errorMinimum = resolved.failures
          \/ /\ Quiet(resolved)
             /\ \A i \in DOMAIN requests :
                   requests[i].kind = "status" => ShowsNot(requests[i].data, resolved)
    /\ ResolvedStaysHidden

IInv == ServerFits /\ RequestsFit /\ PageFits /\ ErrorsFit

LEMMA IInvImplies == IInv => PageInv /\ CardsInOrder /\ ResolvedStaysHidden
<1> SUFFICES ASSUME IInv PROVE PageInv /\ CardsInOrder /\ ResolvedStaysHidden
  OBVIOUS
<1>1. Answers \subseteq StatusAnswers
  BY DEF Answers
<1>2. requests \in Seq([kind : Kinds, data : StatusAnswers])
  <2>1. [kind : Kinds, data : Answers] \subseteq [kind : Kinds, data : StatusAnswers]
    BY <1>1
  <2> QED BY <2>1, SeqMonotonic DEF IInv, RequestsFit
<1>3. PageInv
  <2>1. placeholders \subseteq {"loading", "no backups"}
    BY DEF IInv, PageFits, ShowsLastAnswer, PlaceholdersFor
  <2>2. syncToast \in BOOLEAN
    BY DEF IInv, PageFits, ShowsLastAnswer
  <2> QED BY <1>1, <1>2, <2>1, <2>2
          DEF IInv, ServerFits, PageFits, PageInv, TypeOK, WellDated, Card
<1>4. CardsInOrder
  <2> SUFFICES ASSUME NEW ignored \in BOOLEAN,
                      NEW i \in DOMAIN cards[ignored], NEW j \in DOMAIN cards[ignored], i < j
               PROVE  LET div == cards[ignored]
                      IN  /\ div[i].slug # div[j].slug
                          /\ Pending \in {div[i].slug, div[j].slug}
                             \/ DateOf[div[i].slug] >= DateOf[div[j].slug]
    BY DEF CardsInOrder, IInv, PageFits
  <2> DEFINE div == cards[ignored]
  <2>1. Drawn(div)
    BY DEF IInv, PageFits
  <2> HIDE DEF div
  <2>2. i \in DOMAIN div /\ j \in DOMAIN div
    BY DEF div
  <2>3. /\ div[i].slug # div[j].slug /\ div[i].timestamp >= div[j].timestamp
        /\ Dated(div[i]) /\ Dated(div[j])
    BY <2>1, <2>2 DEF Drawn
  <2> QED BY <2>3 DEF Dated, div
<1> QED BY <1>3, <1>4 DEF IInv, ErrorsFit

-----------------------------------------------------------------------------
(* What a step may leave of the requests.                                  *)
LEMMA RequestsLeft ==
    ASSUME NEW S, requests \in Seq(S),
           \/ \E i \in DOMAIN requests : Drop(i)
           \/ \E places \in SUBSET DOMAIN requests : requests' = Kept(requests, places)
    PROVE  /\ requests' \in Seq(S)
           /\ \A j \in DOMAIN requests' : \E k \in DOMAIN requests : requests'[j] = requests[k]
<1>1. /\ Len(requests) \in Nat /\ DOMAIN requests = 1..Len(requests)
      /\ \A i \in 1..Len(requests) : requests[i] \in S
  BY LenProperties, ElementOfSeq
<1>2. ASSUME NEW i \in DOMAIN requests, Drop(i)
      PROVE  /\ requests' \in Seq(S)
             /\ \A j \in DOMAIN requests' : \E k \in DOMAIN requests : requests'[j] = requests[k]
  <2> DEFINE front == SubSeq(requests, 1, i - 1)
             back == SubSeq(requests, i + 1, Len(requests))
  <2>1. front \in Seq(S) /\ Len(front) = i - 1 /\ \A j \in 1..(i - 1) : front[j] = requests[j]
    <3>1. i - 1 \in Int /\ \A j \in 1..(i - 1) : requests[j] \in S
      BY <1>1
    <3>2. /\ front \in Seq(S) /\ Len(front) = IF 1 <= i - 1 THEN (i - 1) - 1 + 1 ELSE 0
          /\ \A j \in 1..((i - 1) - 1 + 1) : front[j] = requests[1 + j - 1]
      BY <1>1, <3>1, SubSeqProperties
    <3> QED BY <1>1, <3>2
  <2>2. /\ back \in Seq(S) /\ Len(back) = Len(requests) - i
        /\ \A j \in 1..(Len(requests) - i) : back[j] = requests[i + j]
    <3>1. i + 1 \in Int /\ \A j \in (i + 1)..Len(requests) : requests[j] \in S
      BY <1>1
    <3>2. /\ back \in Seq(S)
          /\ Len(back) = IF i + 1 <= Len(requests) THEN Len(requests) - (i + 1) + 1 ELSE 0
          /\ \A j \in 1..(Len(requests) - (i + 1) + 1) : back[j] = requests[i + 1 + j - 1]
      BY <1>1, <3>1, SubSeqProperties
    <3> QED BY <1>1, <3>2
  <2>3. requests' = front \o back
    BY <1>2 DEF Drop, RemoveAt
  <2> HIDE DEF front, back
  <2>4. /\ front \o back \in Seq(S) /\ Len(front \o back) = Len(front) + Len(back)
        /\ \A j \in 1..(Len(front) + Len(back)) :
              (front \o back)[j] = IF j <= Len(front) THEN front[j] ELSE back[j - Len(front)]
    BY <2>1, <2>2, ConcatProperties
  <2>5. requests' \in Seq(S) /\ DOMAIN requests' = 1..(Len(requests) - 1)
    <3>1. requests' \in Seq(S)
      BY <2>3, <2>4
    <3>2. DOMAIN requests' = 1..Len(requests')
      BY <3>1, LenProperties
    <3>3. Len(requests') = Len(requests) - 1
      BY <1>1, <2>1, <2>2, <2>3, <2>4
    <3> QED BY <3>1, <3>2, <3>3
  <2>6. ASSUME NEW j \in 1..(Len(requests) - 1) PROVE \E k \in DOMAIN requests : requests'[j] = requests[k]
    <3>1. j \in Int /\ 1 <= j /\ j <= Len(requests) - 1 /\ i \in Int /\ 1 <= i /\ i <= Len(requests)
      BY <1>1, <1>2
    <3>2. requests'[j] = IF j <= i - 1 THEN front[j] ELSE back[j - (i - 1)]
      <4>1. j \in 1..(Len(front) + Len(back))
        BY <1>1, <2>1, <2>2, <3>1
      <4>2. requests'[j] = IF j <= Len(front) THEN front[j] ELSE back[j - Len(front)]
        BY <2>3, <2>4, <4>1
      <4> QED BY <2>1, <4>2
    <3>3. CASE j <= i - 1
      <4>1. j \in 1..(i - 1) /\ j \in DOMAIN requests
        BY <1>1, <3>1, <3>3
      <4> QED BY <2>1, <3>2, <3>3, <4>1
    <3>4. CASE ~(j <= i - 1)
      <4>1. j - (i - 1) \in 1..(Len(requests) - i) /\ i + (j - (i - 1)) = j + 1
        BY <1>1, <3>1, <3>4
      <4>2. j + 1 \in DOMAIN requests
        BY <1>1, <3>1
      <4>3. back[j - (i - 1)] = requests[j + 1]
        BY <2>2, <4>1
      <4> QED BY <3>2, <3>4, <4>2, <4>3
    <3> QED BY <3>3, <3>4
  <2> QED BY <2>5, <2>6
<1>3. ASSUME NEW places, places \subseteq DOMAIN requests, requests' = Kept(requests, places)
      PROVE  /\ requests' \in Seq(S)
             /\ \A j \in DOMAIN requests' : \E k \in DOMAIN requests : requests'[j] = requests[k]
  <2>1. requests' \in Seq(S)
    BY <1>3, KeptPlaces
  <2> DEFINE left == Kept(requests, places)
  <2>2. \E order \in [DOMAIN left -> places] : \A n \in DOMAIN order : left[n] = requests[order[n]]
    <3>1. PICK order \in [DOMAIN left -> places] :
               /\ \A i \in places : \E n \in DOMAIN order : order[n] = i
               /\ \A n \in DOMAIN order : left[n] = requests[order[n]]
               /\ \A m, n \in DOMAIN order : m < n => order[m] < order[n]
      BY <1>3, KeptPlaces
    <3> HIDE DEF left
    <3> QED BY <3>1
  <2>3. requests' = left
    BY <1>3
  <2> HIDE DEF left
  <2>4. PICK order \in [DOMAIN left -> places] : \A n \in DOMAIN order : left[n] = requests[order[n]]
    BY <2>2
  <2> QED BY <1>3, <2>1, <2>3, <2>4
<1> QED BY <1>2, <1>3

(* A request that is added, or that turns into another one.                *)
LEMMA RequestsOther ==
    ASSUME NEW S, requests \in Seq(S), NEW r \in S,
           \/ requests' = Append(requests, r)
           \/ \E i \in DOMAIN requests : requests' = [requests EXCEPT ![i] = r]
    PROVE  /\ requests' \in Seq(S)
           /\ \A j \in DOMAIN requests' :
                 requests'[j] = r \/ \E k \in DOMAIN requests : requests'[j] = requests[k]
<1>1. /\ Len(requests) \in Nat /\ DOMAIN requests = 1..Len(requests)
      /\ \A i \in 1..Len(requests) : requests[i] \in S
  BY LenProperties, ElementOfSeq
<1>2. CASE requests' = Append(requests, r)
  <2>1. requests' \in Seq(S) /\ Len(requests') = Len(requests) + 1
        /\ (\A i \in 1..Len(requests) : requests'[i] = requests[i]) /\ requests'[Len(requests) + 1] = r
    BY <1>2, AppendProperties
  <2>2. DOMAIN requests' = 1..(Len(requests) + 1)
    BY <2>1, LenProperties
  <2>3. \A j \in DOMAIN requests' : j \in 1..Len(requests) \/ j = Len(requests) + 1
    <3>1. \A j \in 1..(Len(requests) + 1) : j \in 1..Len(requests) \/ j = Len(requests) + 1
      BY <1>1
    <3> QED BY <2>2, <3>1
  <2> QED BY <1>1, <2>1, <2>3
<1>3. CASE \E i \in DOMAIN requests : requests' = [requests EXCEPT ![i] = r]
  <2>1. PICK i \in 1..Len(requests) : requests' = [requests EXCEPT ![i] = r]
    BY <1>1, <1>3
  <2>2. requests' \in Seq(S) /\ DOMAIN requests' = DOMAIN requests
    BY <1>1, <2>1, ExceptSeq
  <2>3. \A j \in DOMAIN requests : requests'[j] = IF j = i THEN r ELSE requests[j]
    BY <2>1
  <2> QED BY <2>2, <2>3
<1> QED BY <1>2, <1>3

LEMMA AskedIsRequest ==
    \A kind \in Kinds : Asked(kind) \in [kind : Kinds, data : Answers]
<1>1. WellDated({})
  BY FS_EmptySet DEF WellDated
<1>2. Blank \in Answers
  BY <1>1 DEF Blank, Answers, StatusAnswers
<1> QED BY <1>2 DEF Asked

LEMMA StatusIsAnswer == ASSUME ServerFits PROVE Status \in Answers
BY DEF ServerFits, StatusTypeOK, Status, Answers, StatusAnswers, WellDated

-----------------------------------------------------------------------------
(* The server.                                                             *)
LEMMA WellDatedChanges ==
    ASSUME PageAssumption, NEW listed, WellDated(listed)
    PROVE  /\ \A old : WellDated(listed \ old)
           /\ \A s \in Slugs, ignored \in BOOLEAN : \A old :
                 WellDated((listed \ old) \cup {[slug |-> s, timestamp |-> DateOf[s], ignored |-> ignored]})
           /\ \A date \in PendingDates : \A old :
                 WellDated((listed \ old) \cup {[slug |-> Pending, timestamp |-> date, ignored |-> FALSE]})
<1>1. \A old : WellDated(listed \ old)
  BY FS_Subset DEF WellDated
<1>2. ASSUME NEW b \in Listed, b.slug # Pending => b.timestamp = DateOf[b.slug], NEW old
      PROVE  WellDated((listed \ old) \cup {b})
  <2>1. WellDated(listed \ old)
    BY <1>1
  <2>2. IsFiniteSet((listed \ old) \cup {b})
    BY <2>1, FS_AddElement DEF WellDated
  <2> QED BY <1>2, <2>1, <2>2 DEF WellDated
<1>3. ASSUME NEW s \in Slugs, NEW ignored \in BOOLEAN
      PROVE  LET b == [slug |-> s, timestamp |-> DateOf[s], ignored |-> ignored]
             IN  b \in Listed /\ (b.slug # Pending => b.timestamp = DateOf[b.slug])
  BY DEF PageAssumption, Listed
<1>4. ASSUME NEW date \in PendingDates
      PROVE  LET b == [slug |-> Pending, timestamp |-> date, ignored |-> FALSE]
             IN  b \in Listed /\ (b.slug # Pending => b.timestamp = DateOf[b.slug])
  BY DEF PageAssumption, Listed
<1> QED BY <1>1, <1>2, <1>3, <1>4

LEMMA ServerFitsKept ==
    ASSUME PageAssumption, ServerFits, [Next]_vars
    PROVE  ServerFits'
<1>1. CASE SyncStep
  <2>1. WellDated(backups)' /\ life' \in Nat
    BY <1>1 DEF SyncStep, ServerFits, WellDated
  <2>2. StatusTypeOK' /\ working' \in BOOLEAN
    <3>1. ASSUME NextStatus PROVE StatusTypeOK'
      <4>1. failures' \in Nat
        BY <3>1 DEF ServerFits, StatusTypeOK, NextStatus, Begin, Succeed, Fail, Vanish,
           IgnoreForNow, BeginIgnoring
      <4>2. /\ syncing' \in BOOLEAN /\ firstSync' \in BOOLEAN
            /\ lastError' \in BOOLEAN /\ ignoreErrors' \in BOOLEAN
        BY <3>1, Zenon DEF ServerFits, StatusTypeOK, NextStatus, Begin, Succeed, Fail, Vanish,
           IgnoreForNow, BeginIgnoring
      <4> QED BY <4>1, <4>2 DEF StatusTypeOK
    <3>2. ASSUME UNCHANGED statusVars PROVE StatusTypeOK'
      BY <3>2 DEF ServerFits, StatusTypeOK, statusVars
    <3>3. working' \in BOOLEAN
      BY <1>1, Zenon DEF SyncStep, ServerFits
    <3> QED BY <1>1, <3>1, <3>2, <3>3 DEF SyncStep
  <2> QED BY <2>1, <2>2 DEF ServerFits
<1>2. CASE ListStep
  <2>1. WellDated(backups')
    <3>1. ASSUME NEW b \in backups, backups' = backups \ {b} PROVE WellDated(backups')
      BY <3>1, WellDatedChanges DEF ServerFits
    <3>2. ASSUME NEW s \in Slugs, NEW ignored \in BOOLEAN,
                 backups' = {b \in backups : b.slug \notin {s, Pending}}
                            \cup {[slug |-> s, timestamp |-> DateOf[s], ignored |-> ignored]}
          PROVE  WellDated(backups')
      <4>1. {b \in backups : b.slug \notin {s, Pending}} = backups \ {b \in backups : b.slug \in {s, Pending}}
        OBVIOUS
      <4> QED BY <3>2, <4>1, WellDatedChanges DEF ServerFits
    <3>3. ASSUME NEW date \in PendingDates,
                 backups' = {b \in backups : b.slug # Pending}
                            \cup {[slug |-> Pending, timestamp |-> date, ignored |-> FALSE]}
          PROVE  WellDated(backups')
      <4>1. {b \in backups : b.slug # Pending} = backups \ {b \in backups : b.slug = Pending}
        OBVIOUS
      <4> QED BY <3>3, <4>1, WellDatedChanges DEF ServerFits
    <3> QED BY <1>2, <3>1, <3>2, <3>3 DEF ListStep, Synced
  <2> QED BY <1>2, <2>1 DEF ListStep, ServerFits, syncVars, statusVars, StatusTypeOK
<1>3. CASE Restart
  <2>1. WellDated(backups)'
    BY <1>3, FS_EmptySet DEF Restart, WellDated
  <2>2. StatusTypeOK' /\ working' \in BOOLEAN
    BY <1>3 DEF Restart, RestartStatus, StatusTypeOK
  <2>3. life' \in Nat
    BY <1>3 DEF Restart, ServerFits
  <2> QED BY <2>1, <2>2, <2>3 DEF ServerFits
<1>4. ASSUME NEW i \in DOMAIN requests, Handles(i) PROVE ServerFits'
  BY <1>4 DEF Handles, IgnoreForNow, ServerFits, StatusTypeOK
<1>5. CASE UNCHANGED serverVars
  BY <1>5 DEF serverVars, syncVars, statusVars, ServerFits, StatusTypeOK
<1> QED BY <1>1, <1>2, <1>3, <1>4, <1>5
        DEF Next, vars, Refresh, Click, ResolveFolder, Reload, StatusArrives, RefreshFails, Dismisses,
            PostFails

-----------------------------------------------------------------------------
(* What is on its way.                                                     *)
LEMMA RequestsFitKept ==
    ASSUME ServerFits, RequestsFit, [Next]_vars
    PROVE  RequestsFit'
<1> DEFINE R == [kind : Kinds, data : Answers]
<1>1. \A kind \in Kinds : Asked(kind) \in R
  BY AskedIsRequest
<1>2. [kind |-> "status", data |-> Status] \in R
  BY StatusIsAnswer DEF Kinds
<1>3. Answers' = Answers
  BY DEF Answers, StatusAnswers, WellDated, Listed
<1> HIDE DEF R
<1>4. ASSUME NEW r \in R, Send(r) PROVE requests' \in Seq(R)
  BY <1>4, RequestsOther DEF RequestsFit, Send, R
<1>5. ASSUME NEW i \in DOMAIN requests, Drop(i) PROVE requests' \in Seq(R)
  BY <1>5, RequestsLeft DEF RequestsFit, R
<1>6. ASSUME Refresh PROVE requests' \in Seq(R)
  BY <1>2, <1>4, <1>6 DEF Refresh
<1>7. ASSUME Click \/ ResolveFolder PROVE requests' \in Seq(R)
  BY <1>1, <1>4, <1>7 DEF Click, ResolveFolder, Kinds
<1>8. ASSUME Restart PROVE requests' \in Seq(R)
  <2> DEFINE places == {i \in DOMAIN requests : requests[i].kind = "status"}
  <2>1. places \in SUBSET DOMAIN requests /\ requests' = Kept(requests, places)
    BY <1>8 DEF Restart
  <2> HIDE DEF places
  <2> QED BY <2>1, RequestsLeft DEF RequestsFit, R
<1>9. ASSUME Reload PROVE requests' \in Seq(R)
  BY <1>9 DEF Reload
<1>10. ASSUME NEW i \in DOMAIN requests, Handles(i) PROVE requests' \in Seq(R)
  <2>1. CASE Drop(i)
    BY <1>5, <2>1
  <2>2. CASE requests' = [requests EXCEPT ![i] = Asked("sync")]
    <3>1. Asked("sync") \in R
      BY <1>1 DEF Kinds
    <3> QED BY <2>2, <3>1, RequestsOther DEF RequestsFit, R
  <2> QED BY <1>10, <2>1, <2>2 DEF Handles
<1>11. ASSUME NEW i \in DOMAIN requests, StatusArrives(i) \/ RefreshFails(i) \/ Dismisses(i) \/ PostFails(i)
       PROVE  requests' \in Seq(R)
  BY <1>5, <1>11 DEF StatusArrives, RefreshFails, Dismisses, PostFails
<1>12. ASSUME UNCHANGED requests PROVE requests' \in Seq(R)
  BY <1>12 DEF RequestsFit, R
<1>13. requests' \in Seq(R)
  BY <1>6, <1>7, <1>8, <1>9, <1>10, <1>11, <1>12 DEF Next, vars, SyncStep, ListStep
<1> QED BY <1>3, <1>13 DEF RequestsFit, R

-----------------------------------------------------------------------------
(* The page.                                                               *)
LEMMA PopulatedDraws ==
    ASSUME NEW divs, \A ignored \in BOOLEAN : Drawn(divs[ignored]), NEW data \in Answers
    PROVE  /\ Populate(divs, data) \in [BOOLEAN -> Seq(Card)]
           /\ \A ignored \in BOOLEAN :
                 /\ Drawn(Populate(divs, data)[ignored])
                 /\ SlugsOf(Populate(divs, data)[ignored]) =
                      {b.slug : b \in {x \in data.backups : x.ignored = ignored}}
<1> DEFINE of(ignored) == {b \in data.backups : b.ignored = ignored}
           pop(ignored) == PopulateBackupDiv(divs[ignored], of(ignored))
<1>1. ASSUME NEW ignored \in BOOLEAN
      PROVE  Drawn(pop(ignored)) /\ SlugsOf(pop(ignored)) = {b.slug : b \in of(ignored)}
  <2>1. WellDated(of(ignored))
    BY FS_Subset DEF Answers, WellDated
  <2> QED BY <2>1, PopulateDraws
<1>2. Populate(divs, data) = [ignored \in BOOLEAN |-> pop(ignored)]
  BY DEF Populate
<1> HIDE DEF pop
<1>3. \A ignored \in BOOLEAN : pop(ignored) \in Seq(Card)
  BY <1>1 DEF Drawn
<1> QED BY <1>1, <1>2, <1>3

LEMMA NoCardsDraws == \A ignored \in BOOLEAN : Drawn(NoCards[ignored])
BY DEF NoCards, Drawn

LEMMA StatusShown ==
    ASSUME NEW divs, \A ignored \in BOOLEAN : Drawn(divs[ignored]),
           NEW minimum \in Nat, NEW data \in Answers, ProcessStatusUpdate(divs, minimum, data)
    PROVE  PageFits'
<1>1. cards' = Populate(divs, data)
  BY DEF ProcessStatusUpdate
<1>2. /\ cards' \in [BOOLEAN -> Seq(Card)]
      /\ \A ignored \in BOOLEAN :
            /\ Drawn(cards'[ignored])
            /\ SlugsOf(cards'[ignored]) = {b.slug : b \in {x \in data.backups : x.ignored = ignored}}
  <2> DEFINE divs1 == Populate(divs, data)
  <2>1. /\ divs1 \in [BOOLEAN -> Seq(Card)]
        /\ \A ignored \in BOOLEAN :
              /\ Drawn(divs1[ignored])
              /\ SlugsOf(divs1[ignored]) = {b.slug : b \in {x \in data.backups : x.ignored = ignored}}
    BY PopulatedDraws
  <2> HIDE DEF divs1
  <2>2. cards' = divs1
    BY <1>1 DEF divs1
  <2> QED BY <2>1, <2>2
<1>3. lastData' = data /\ lastData' \in Answers'
  BY DEF ProcessStatusUpdate, Answers, StatusAnswers, Listed, WellDated
<1>4. \A ignored \in BOOLEAN :
          /\ Drawn(cards[ignored])'
          /\ SlugsOf(cards[ignored])' =
               {b.slug : b \in {x \in lastData'.backups : x.ignored = ignored}}
  BY <1>2, <1>3 DEF Drawn, Dated, Card, SlugsOf
<1>5. errorShown' \in BOOLEAN /\ errorMinimum' \in Nat /\ lostToast' = FALSE
  BY DEF ProcessStatusUpdate, ShowsError
<1>6. ShowsLastAnswer'
  <2>1. placeholders' = PlaceholdersFor(data) /\ syncToast' = data.syncing /\ data.syncing \in BOOLEAN
    BY DEF ProcessStatusUpdate, Answers, StatusAnswers
  <2>2. errorShown' => data.lastError /\ ~data.ignored
    BY DEF ProcessStatusUpdate, ShowsError
  <2> QED BY <1>3, <1>5, <2>1, <2>2 DEF ShowsLastAnswer, PlaceholdersFor
<1> QED BY <1>2, <1>3, <1>4, <1>5, <1>6 DEF PageFits, Card

LEMMA RequestsAreAnswers ==
    ASSUME RequestsFit, NEW i \in DOMAIN requests
    PROVE  requests[i].kind \in Kinds /\ requests[i].data \in Answers
<1> DEFINE S == [kind : Kinds, data : Answers]
<1>1. requests[i] \in S
  <2>1. requests \in Seq(S)
    BY DEF RequestsFit
  <2> HIDE DEF S
  <2> QED BY <2>1, LenProperties, ElementOfSeq
<1> QED BY <1>1

LEMMA PageFitsKept ==
    ASSUME ServerFits, RequestsFit, PageFits, [Next]_vars
    PROVE  PageFits'
<1>1. ASSUME NEW i \in DOMAIN requests, StatusArrives(i) PROVE PageFits'
  <2>1. requests[i].data \in Answers /\ errorMinimum \in Nat
        /\ \A ignored \in BOOLEAN : Drawn(cards[ignored])
    BY RequestsAreAnswers DEF PageFits
  <2> QED BY <1>1, <2>1, StatusShown DEF StatusArrives
<1>2. CASE Reload
  <2>1. \A ignored \in BOOLEAN : Drawn(NoCards[ignored])
    BY NoCardsDraws
  <2>2. ProcessStatusUpdate(NoCards, 0, Status)
    BY <1>2 DEF Reload
  <2> QED BY <2>1, <2>2, StatusIsAnswer, StatusShown
<1>3. ASSUME UNCHANGED <<cards, lastData>>,
             placeholders' = placeholders \cup (IF lostToast' THEN {"loading"} ELSE {}),
             syncToast' = (lastData.syncing /\ ~lostToast'), lostToast' \in BOOLEAN,
             lostToast => lostToast',
             errorShown' \in {FALSE, errorShown}, errorMinimum' \in Nat
      PROVE  PageFits'
  <2>1. Answers' = Answers /\ Card' = Card
    BY DEF Answers, StatusAnswers, WellDated, Listed, Card
  <2>2. cards' = cards /\ lastData' = lastData /\ cards \in [BOOLEAN -> Seq(Card)] /\ lastData \in Answers
    BY <1>3 DEF PageFits
  <2>3. ASSUME NEW ignored \in BOOLEAN
        PROVE  /\ Drawn(cards[ignored])'
               /\ (SlugsOf(cards[ignored]) =
                     {b.slug : b \in {x \in lastData.backups : x.ignored = ignored}})'
    <3>1. /\ Drawn(cards[ignored])
          /\ SlugsOf(cards[ignored]) = {b.slug : b \in {x \in lastData.backups : x.ignored = ignored}}
      BY DEF PageFits
    <3>2. Drawn(cards[ignored])'
      BY <2>2, <3>1 DEF Drawn, Dated, Card
    <3>3. SlugsOf(cards[ignored])' = {b.slug : b \in {x \in lastData'.backups : x.ignored = ignored}}
      BY <2>2, <3>1 DEF SlugsOf
    <3> QED BY <3>2, <3>3
  <2>4. ShowsLastAnswer'
    <3>1. ShowsLastAnswer
      BY DEF PageFits
    <3>2. placeholders' = PlaceholdersFor(lastData) \cup (IF lostToast' THEN {"loading"} ELSE {})
      BY <1>3, <3>1 DEF ShowsLastAnswer
    <3>3. errorShown' => lastData.lastError /\ ~lastData.ignored
      BY <1>3, <3>1 DEF ShowsLastAnswer
    <3> QED BY <1>3, <2>2, <3>2, <3>3 DEF ShowsLastAnswer, PlaceholdersFor
  <2>5. errorShown' \in BOOLEAN
    BY <1>3 DEF PageFits
  <2> QED BY <1>3, <2>1, <2>2, <2>3, <2>4, <2>5 DEF PageFits
<1>4. ASSUME NEW i \in DOMAIN requests, RefreshFails(i) PROVE PageFits'
  <2>1. syncToast' = (lastData.syncing /\ ~lostToast') /\ lostToast' = TRUE
    BY <1>4, Zenon DEF RefreshFails, PageFits, ShowsLastAnswer
  <2> QED BY <1>3, <1>4, <2>1 DEF RefreshFails, errorVars, PageFits
<1>5. lastData.failures \in Nat /\ syncToast = (lastData.syncing /\ ~lostToast)
      /\ placeholders = placeholders \cup (IF lostToast THEN {"loading"} ELSE {})
  BY DEF PageFits, Answers, StatusAnswers, ShowsLastAnswer
<1>6. CASE ResolveFolder
  BY <1>3, <1>5, <1>6 DEF ResolveFolder, listVars, toastVars, PageFits
<1>7. ASSUME NEW i \in DOMAIN requests, Dismisses(i) PROVE PageFits'
  BY <1>3, <1>5, <1>7 DEF Dismisses, listVars, toastVars, PageFits
<1>8. CASE UNCHANGED pageVars
  BY <1>3, <1>5, <1>8 DEF pageVars, listVars, toastVars, errorVars, PageFits
<1> QED BY <1>1, <1>2, <1>4, <1>6, <1>7, <1>8
        DEF Next, vars, SyncStep, ListStep, Restart, Refresh, Click, Handles, PostFails

-----------------------------------------------------------------------------
(* The errors.                                                             *)
LEMMA QuietKept ==
    ASSUME ServerFits, NEW e \in [life : Nat, failures : Nat], Quiet(e), [Next]_vars
    PROVE  Quiet(e)'
<1> USE DEF ServerFits, StatusTypeOK
<1>1. CASE SyncStep
  <2>1. CASE NextStatus
    BY <1>1, <2>1 DEF SyncStep, Quiet, NextStatus, Begin, Succeed, Fail, Vanish, IgnoreForNow,
       BeginIgnoring
  <2>2. CASE UNCHANGED statusVars
    BY <1>1, <2>2 DEF SyncStep, Quiet, statusVars
  <2> QED BY <1>1, <2>1, <2>2 DEF SyncStep
<1>2. CASE Restart
  BY <1>2 DEF Restart, RestartStatus, Quiet
<1>3. ASSUME NEW i \in DOMAIN requests, Handles(i) PROVE Quiet(e)'
  BY <1>3 DEF Handles, IgnoreForNow, Quiet
<1>4. CASE UNCHANGED <<statusVars, life>>
  BY <1>4 DEF statusVars, Quiet
<1> QED BY <1>1, <1>2, <1>3, <1>4
        DEF Next, vars, serverVars, syncVars, ListStep, Refresh, Click, ResolveFolder, Reload,
            StatusArrives, RefreshFails, Dismisses, PostFails

(* The server does not show an error that it has hushed.                   *)
LEMMA QuietShowsNot ==
    ASSUME ServerFits, NEW e, Quiet(e)
    PROVE  ShowsNot(Status, e)
BY DEF Quiet, ShowsNot, Status, ErrorOf, ServerFits, StatusTypeOK

(* Hidden by the watermark, or by the server.                              *)
Hidden ==
    resolved # NoError =>
       \/ errorMinimum = resolved.failures
       \/ /\ Quiet(resolved)
          /\ \A i \in DOMAIN requests :
                requests[i].kind = "status" => ShowsNot(requests[i].data, resolved)

LEMMA HiddenKept ==
    ASSUME ServerFits, RequestsFit, ErrorsFit, [Next]_vars,
           UNCHANGED <<errorMinimum, resolved>>
    PROVE  Hidden'
<1> SUFFICES ASSUME resolved # NoError, errorMinimum # resolved.failures
             PROVE  /\ Quiet(resolved)'
                    /\ \A j \in DOMAIN requests' :
                          requests'[j].kind = "status" => ShowsNot(requests'[j].data, resolved)
  BY DEF Hidden, ShowsNot, ErrorOf
<1>1. /\ Quiet(resolved) /\ resolved \in [life : Nat, failures : Nat]
      /\ \A i \in DOMAIN requests :
            requests[i].kind = "status" => ShowsNot(requests[i].data, resolved)
  BY DEF ErrorsFit
<1>2. Quiet(resolved)'
  <2>1. PICK e \in [life : Nat, failures : Nat] : e = resolved
    BY <1>1
  <2>2. Quiet(e)'
    BY <1>1, <2>1, QuietKept
  <2> QED BY <2>1, <2>2 DEF Quiet
<1> DEFINE S == [kind : Kinds, data : Answers]
           Harmless(r) == r.kind = "status" => ShowsNot(r.data, resolved)
<1>3. requests \in Seq(S)
  BY DEF RequestsFit
<1> HIDE DEF S
<1>4. ASSUME NEW r \in S, Harmless(r),
             \/ Send(r)
             \/ \E i \in DOMAIN requests : requests' = [requests EXCEPT ![i] = r]
      PROVE  \A j \in DOMAIN requests' : Harmless(requests'[j])
  <2>1. \A j \in DOMAIN requests' :
           requests'[j] = r \/ \E k \in DOMAIN requests : requests'[j] = requests[k]
    BY <1>3, <1>4, RequestsOther DEF Send
  <2> QED BY <1>1, <1>4, <2>1
<1>5. ASSUME \/ \E i \in DOMAIN requests : Drop(i)
             \/ \E places \in SUBSET DOMAIN requests : requests' = Kept(requests, places)
      PROVE  \A j \in DOMAIN requests' : Harmless(requests'[j])
  <2>1. \A j \in DOMAIN requests' : \E k \in DOMAIN requests : requests'[j] = requests[k]
    BY <1>3, <1>5, RequestsLeft
  <2> QED BY <1>1, <2>1
<1>6. \A kind \in {"sync", "skip", "resolve"} : Asked(kind) \in S /\ Harmless(Asked(kind))
  BY AskedIsRequest DEF S, Kinds, Asked
<1> DEFINE r0 == [kind |-> "status", data |-> Status]
<1>7. r0 \in S /\ Harmless(r0)
  BY <1>1, StatusIsAnswer, QuietShowsNot DEF S, Kinds
<1> HIDE DEF Harmless, r0
<1>8. ASSUME Refresh PROVE \A j \in DOMAIN requests' : Harmless(requests'[j])
  BY <1>4, <1>7, <1>8 DEF Refresh, r0
<1>9. ASSUME Click \/ ResolveFolder PROVE \A j \in DOMAIN requests' : Harmless(requests'[j])
  BY <1>4, <1>6, <1>9 DEF Click, ResolveFolder
<1>10. ASSUME Restart PROVE \A j \in DOMAIN requests' : Harmless(requests'[j])
  <2> DEFINE places == {i \in DOMAIN requests : requests[i].kind = "status"}
  <2>1. places \in SUBSET DOMAIN requests /\ requests' = Kept(requests, places)
    BY <1>10 DEF Restart
  <2> HIDE DEF places
  <2> QED BY <1>5, <2>1
<1>11. ASSUME NEW i \in DOMAIN requests, Handles(i)
       PROVE  \A j \in DOMAIN requests' : Harmless(requests'[j])
  BY <1>4, <1>5, <1>6, <1>11 DEF Handles
<1>12. ASSUME NEW i \in DOMAIN requests, StatusArrives(i) \/ RefreshFails(i) \/ Dismisses(i) \/ PostFails(i)
       PROVE  \A j \in DOMAIN requests' : Harmless(requests'[j])
  BY <1>5, <1>12 DEF StatusArrives, RefreshFails, Dismisses, PostFails
<1>13. ASSUME UNCHANGED requests PROVE \A j \in DOMAIN requests' : Harmless(requests'[j])
  BY <1>1, <1>13 DEF Harmless
<1>14. ASSUME Reload PROVE \A j \in DOMAIN requests' : Harmless(requests'[j])
  BY <1>14 DEF Reload
<1>15. \A j \in DOMAIN requests' : Harmless(requests'[j])
  BY <1>8, <1>9, <1>10, <1>11, <1>12, <1>13, <1>14 DEF Next, vars, SyncStep, ListStep
<1> QED BY <1>2, <1>15 DEF Harmless

LEMMA ErrorsFitKept ==
    ASSUME ServerFits, RequestsFit, PageFits, ErrorsFit, [Next]_vars
    PROVE  ErrorsFit'
<1> DEFINE Errors == [life : Nat, failures : Nat]
<1>1. /\ hushed \in Errors /\ resolved \in Errors /\ Quiet(hushed)
      /\ life \in Nat /\ failures \in Nat
  BY DEF ErrorsFit, ServerFits, StatusTypeOK
<1>2. lastData.life \in Nat /\ lastData.failures \in Nat /\ NoError \in Errors
      /\ ErrorOf(lastData) \in Errors /\ ErrorOf(lastData).failures = lastData.failures
  BY DEF PageFits, Answers, StatusAnswers, NoError, ErrorOf
<1>3. ASSUME UNCHANGED hushed PROVE Quiet(hushed)'
  <2>1. PICK e \in Errors : e = hushed
    BY <1>1
  <2>2. Quiet(e)'
    BY <1>1, <2>1, QuietKept
  <2> QED BY <1>3, <2>1, <2>2 DEF Quiet
<1>4. ErrorsFit' <=> /\ hushed' \in Errors /\ resolved' \in Errors /\ Quiet(hushed)'
                     /\ Hidden' /\ ResolvedStaysHidden'
  BY DEF ErrorsFit, Hidden
<1> HIDE DEF Errors
<1>5. ASSUME NEW i \in DOMAIN requests, StatusArrives(i) PROVE ErrorsFit'
  <2>1. UNCHANGED <<hushed, resolved, errorMinimum>> /\ lastData' = requests[i].data
        /\ errorShown' = ShowsError(requests[i].data, errorMinimum) /\ requests[i].kind = "status"
    BY <1>5 DEF StatusArrives, ProcessStatusUpdate
  <2>2. Hidden'
    BY <2>1, HiddenKept
  <2>3. ResolvedStaysHidden'
    <3> SUFFICES ASSUME errorShown', resolved # NoError, ErrorOf(requests[i].data) = resolved
                 PROVE  FALSE
      BY <2>1 DEF ResolvedStaysHidden, ErrorOf
    <3>1. CASE errorMinimum = resolved.failures
      BY <2>1, <3>1 DEF ShowsError, ErrorOf
    <3>2. CASE ShowsNot(requests[i].data, resolved)
      BY <2>1, <3>2 DEF ShowsError, ShowsNot
    <3> QED BY <2>1, <3>1, <3>2 DEF ErrorsFit
  <2> QED BY <1>1, <1>3, <1>4, <2>1, <2>2, <2>3
<1>6. CASE ResolveFolder
  <2>1. /\ resolved' = ErrorOf(lastData) /\ errorMinimum' = lastData.failures
        /\ errorShown' = FALSE /\ hushed' = hushed
    BY <1>6 DEF ResolveFolder
  <2>2. Hidden' /\ ResolvedStaysHidden'
    BY <1>2, <2>1 DEF Hidden, ResolvedStaysHidden
  <2> QED BY <1>1, <1>2, <1>3, <1>4, <2>1, <2>2
<1>7. ASSUME NEW i \in DOMAIN requests, Dismisses(i) PROVE ErrorsFit'
  <2>1. /\ errorMinimum' = lastData.failures /\ errorShown' \in {FALSE, errorShown}
        /\ hushed' = hushed /\ lastData' = lastData
        /\ resolved' = IF errorMinimum' = errorMinimum THEN resolved ELSE NoError
    BY <1>7 DEF Dismisses
  <2>2. Hidden'
    <3>1. CASE errorMinimum' = errorMinimum
      BY <2>1, <3>1, HiddenKept
    <3>2. CASE errorMinimum' # errorMinimum
      BY <2>1, <3>2 DEF Hidden
    <3> QED BY <3>1, <3>2
  <2>3. ResolvedStaysHidden'
    BY <2>1 DEF ErrorsFit, ResolvedStaysHidden, ErrorOf
  <2> QED BY <1>1, <1>2, <1>3, <1>4, <2>1, <2>2, <2>3
<1>8. CASE Reload
  <2>1. /\ requests' = <<>> /\ hushed' = hushed /\ lastData' = Status
        /\ errorShown' = ShowsError(Status, 0)
        /\ resolved' = IF resolved = hushed THEN resolved ELSE NoError
    BY <1>8 DEF Reload, ProcessStatusUpdate
  <2>2. Quiet(hushed)'
    BY <1>3, <2>1
  <2>3. resolved' # NoError => resolved' = hushed'
    BY <2>1
  <2>4. Hidden'
    BY <2>1, <2>2, <2>3 DEF Hidden, Quiet
  <2>5. ResolvedStaysHidden'
    <3> SUFFICES ASSUME errorShown', resolved' # NoError, ErrorOf(Status) = resolved'
                 PROVE  FALSE
      BY <2>1 DEF ResolvedStaysHidden, ErrorOf
    <3>1. ShowsNot(Status, hushed)
      BY <1>1, QuietShowsNot
    <3> QED BY <2>1, <2>3, <3>1 DEF ShowsNot, ShowsError
  <2> QED BY <1>1, <1>2, <1>4, <2>1, <2>2, <2>4, <2>5
<1>9. ASSUME UNCHANGED <<resolved, errorMinimum, errorShown, lastData>>
      PROVE  Hidden' /\ ResolvedStaysHidden' /\ resolved' \in Errors
  BY <1>1, <1>9, HiddenKept DEF ErrorsFit, ResolvedStaysHidden, ErrorOf
<1>10. ASSUME NEW i \in DOMAIN requests, Handles(i) PROVE ErrorsFit'
  <2>1. hushed' = [life |-> life, failures |-> failures] /\ ignoreErrors' = TRUE
        /\ life' = life /\ failures' = failures
    BY <1>10 DEF Handles, IgnoreForNow
  <2>2. hushed' \in Errors /\ Quiet(hushed)'
    BY <1>1, <2>1 DEF Quiet, Errors
  <2>3. UNCHANGED <<resolved, errorMinimum, errorShown, lastData>>
    BY <1>10 DEF Handles, pageVars, errorVars
  <2> QED BY <1>4, <1>9, <2>2, <2>3
<1>11. ASSUME UNCHANGED <<hushed, resolved, errorMinimum, errorShown, lastData>> PROVE ErrorsFit'
  BY <1>1, <1>3, <1>4, <1>9, <1>11
<1> QED BY <1>5, <1>6, <1>7, <1>8, <1>10, <1>11
        DEF Next, vars, pageVars, errorVars, SyncStep, ListStep, Restart, Refresh, Click, RefreshFails,
            PostFails

-----------------------------------------------------------------------------
LEMMA Starts == ASSUME Init PROVE IInv
<1>1. WellDated(backups)
  <2>1. backups = {Synced(s, FALSE) : s \in FirstSlugs} /\ FirstSlugs \subseteq Slugs
        /\ IsFiniteSet(FirstSlugs)
    BY PageAssumption DEF Init
  <2>2. IsFiniteSet(backups)
    <3> DEFINE f == [s \in FirstSlugs |-> Synced(s, FALSE)]
    <3>1. f \in Surjection(FirstSlugs, backups)
      BY <2>1 DEF Surjection
    <3> QED BY <2>1, <3>1, FS_Surjection
  <2>3. \A b \in backups : b \in Listed /\ b.timestamp = DateOf[b.slug]
    <3> TAKE b \in backups
    <3>1. PICK s \in FirstSlugs : b = [slug |-> s, timestamp |-> DateOf[s], ignored |-> FALSE]
      BY <2>1 DEF Synced
    <3> QED BY <2>1, <3>1, PageAssumption DEF Listed
  <2> QED BY <2>1, <2>2, <2>3 DEF WellDated
<1>2. ServerFits
  BY <1>1 DEF Init, ServerFits, StatusTypeOK
<1>3. Status \in Answers
  BY <1>2, StatusIsAnswer
<1>4. RequestsFit
  BY DEF Init, RequestsFit
<1>5. PageFits
  <2>1. cards = Populate(NoCards, Status)
    BY DEF Init
  <2>2. lastData = Status
    BY DEF Init
  <2>3. /\ cards \in [BOOLEAN -> Seq(Card)]
        /\ \A ignored \in BOOLEAN :
              /\ Drawn(cards[ignored])
              /\ SlugsOf(cards[ignored]) =
                   {b.slug : b \in {x \in lastData.backups : x.ignored = ignored}}
    <3> DEFINE divs == Populate(NoCards, Status)
    <3>1. /\ divs \in [BOOLEAN -> Seq(Card)]
          /\ \A ignored \in BOOLEAN :
                /\ Drawn(divs[ignored])
                /\ SlugsOf(divs[ignored]) =
                     {b.slug : b \in {x \in Status.backups : x.ignored = ignored}}
      BY <1>3, NoCardsDraws, PopulatedDraws
    <3> HIDE DEF divs
    <3>2. cards = divs
      BY <2>1 DEF divs
    <3> QED BY <2>2, <3>1, <3>2
  <2>4. ShowsLastAnswer /\ lostToast = FALSE /\ errorShown = TRUE /\ errorMinimum = 0
    <3>1. lostToast = FALSE /\ syncToast = FALSE /\ errorShown = TRUE /\ errorMinimum = 0
          /\ placeholders = PlaceholdersFor(Status)
      BY DEF Init
    <3>2. ~syncing /\ ~ignoreErrors /\ lastError = TRUE
      BY DEF Init
    <3>3. ~Status.syncing /\ ~Status.ignored /\ Status.lastError
      BY <3>2 DEF Status
    <3>4. ~lastData.syncing /\ ~lastData.ignored /\ lastData.lastError
      BY <2>2, <3>3
    <3>5. placeholders = PlaceholdersFor(lastData) \cup (IF lostToast THEN {"loading"} ELSE {})
      BY <2>2, <3>1
    <3>6. syncToast = (lastData.syncing /\ ~lostToast)
      BY <3>1, <3>4, Zenon
    <3> QED BY <3>1, <3>4, <3>5, <3>6 DEF ShowsLastAnswer
  <2> QED BY <1>1, <1>3, <2>1, <2>2, <2>3, <2>4 DEF PageFits
<1>6. ErrorsFit
  BY DEF Init, ErrorsFit, Quiet, NoError, ResolvedStaysHidden
<1> QED BY <1>2, <1>4, <1>5, <1>6 DEF IInv

LEMMA Inductive == Spec => []IInv
<1>1. Init => IInv
  BY Starts
<1>2. IInv /\ [Next]_vars => IInv'
  <2> SUFFICES ASSUME IInv, [Next]_vars PROVE IInv'
    OBVIOUS
  <2> QED BY PageAssumption, ServerFitsKept, RequestsFitKept, PageFitsKept, ErrorsFitKept DEF IInv
<1> QED BY <1>1, <1>2, PTL DEF Spec

(* In whatever order answers and failures come, the page says what the     *)
(* last answer said or that the connection was lost, never both, and shows *)
(* no error that this answer does not have (scripts.js).                   *)
THEOREM PageInvariant == Spec => []PageInv
<1>1. IInv => PageInv
  BY IInvImplies
<1> QED BY <1>1, Inductive, PTL

(* A page that only changes the cards that differ shows each backup of the *)
(* last answer once, in its list, the newest first, whatever the answers   *)
(* before it showed (scripts.js: populateBackupDiv).                       *)
THEOREM CardsStayInOrder == Spec => []CardsInOrder
<1>1. IInv => CardsInOrder
  BY IInvImplies
<1> QED BY <1>1, Inductive, PTL

(* An error the user has resolved is not shown again: the watermark of the *)
(* page hides it until the page is loaded anew, and by then the server has *)
(* hushed it (scripts.js: resolvefolder; coordinator.py: ignore).          *)
THEOREM ResolvedIsHidden == Spec => []ResolvedStaysHidden
<1>1. IInv => ResolvedStaysHidden
  BY IInvImplies
<1> QED BY <1>1, Inductive, PTL
=============================================================================
