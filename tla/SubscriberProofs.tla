-------------------------- MODULE SubscriberProofs ---------------------------
(***************************************************************************)
(* A subscriber that polls misses nothing and gets nothing twice, for      *)
(* every block tree, page size and number of faults, although ids are      *)
(* drawn before the rows become visible.                                   *)
(*                                                                         *)
(* The first part is about ids in order, InOrder.  SessionInv then says    *)
(* that the ids of an open transaction lie above all that are visible.     *)
(***************************************************************************)
EXTENDS Subscriber, EventLogProofs

(* What InOrder makes.                                                     *)
Sorted(s) == s \in Seq(Nat) /\ \A i, j \in 1..Len(s) : i < j => s[i] < s[j]
Elements(s) == {s[i] : i \in 1..Len(s)}

(* A sorted sequence is found again from its elements.                     *)
LEMMA InOrderOfSorted ==
    ASSUME NEW s, Sorted(s)
    PROVE  InOrder(Elements(s)) = s
<1> DEFINE S == Elements(s)
           n == Len(s)
<1>1. s \in Seq(Nat) /\ n \in Nat /\ \A i, j \in 1..n : i < j => s[i] < s[j]
  BY DEF Sorted
<1>2. \A i \in 1..n : s[i] \in Nat
  BY <1>1
<1>3. \A i, j \in 1..n : (s[i] <= s[j] <=> i <= j) /\ (s[i] = s[j] => i = j)
  <2> TAKE i, j \in 1..n
  <2>1. s[i] \in Nat /\ s[j] \in Nat
    BY <1>2
  <2>2. (i < j => s[i] < s[j]) /\ (j < i => s[j] < s[i])
    BY <1>1
  <2> HIDE DEF n
  <2>3. i \in Int /\ j \in Int
    OBVIOUS
  <2>4. CASE i = j
    BY <2>1, <2>4
  <2>5. CASE i # j
    BY <2>1, <2>2, <2>3, <2>5
  <2> QED BY <2>4, <2>5
<1>4. \A k \in 0..n : Cardinality({s[i] : i \in 1..k}) = k
  <2> TAKE k \in 0..n
  <2> QED BY <1>1, <1>3, CardinalityOfPrefix
<1>5. Cardinality(S) = n
  <2>1. n \in 0..n
    BY <1>1
  <2> QED BY <1>4, <2>1 DEF Elements
<1>6. ASSUME NEW i \in 1..n PROVE Cardinality({m \in S : m <= s[i]}) = i
  <2>1. {m \in S : m <= s[i]} = {s[j] : j \in 1..i}
    <3>1. ASSUME NEW m \in S, m <= s[i] PROVE m \in {s[j] : j \in 1..i}
      <4>1. PICK j \in 1..n : m = s[j]
        BY DEF Elements
      <4>2. j <= i
        BY <1>3, <3>1, <4>1
      <4>3. j \in 1..i
        BY <1>1, <4>2
      <4> QED BY <4>1, <4>3
    <3>2. ASSUME NEW j \in 1..i PROVE s[j] \in S /\ s[j] <= s[i]
      <4>1. j \in 1..n /\ j <= i
        BY <1>1
      <4> QED BY <1>3, <4>1 DEF Elements
    <3> QED BY <3>1, <3>2
  <2>2. i \in 0..n
    BY <1>1
  <2> QED BY <1>4, <2>1, <2>2
<1>7. ASSUME NEW i \in 1..n
      PROVE  (CHOOSE x \in S : Cardinality({m \in S : m <= x}) = i) = s[i]
  <2> DEFINE R(x) == Cardinality({m \in S : m <= x}) = i
  <2>1. s[i] \in S /\ R(s[i])
    BY <1>6 DEF Elements
  <2>2. ASSUME NEW x \in S, R(x) PROVE x = s[i]
    <3>1. PICK j \in 1..n : x = s[j]
      BY DEF Elements
    <3>2. i = j
      BY <1>6, <2>2, <3>1
    <3> QED BY <3>1, <3>2
  <2> HIDE DEF R, S
  <2>3. (CHOOSE x \in S : R(x)) = s[i]
    BY <2>1, <2>2
  <2> QED BY <2>3 DEF R
<1>8. InOrder(S) = [i \in 1..n |-> CHOOSE x \in S : Cardinality({m \in S : m <= x}) = i]
  BY <1>5 DEF InOrder
<1>9. InOrder(S) = [i \in 1..n |-> s[i]]
  BY <1>7, <1>8
<1>10. s = [i \in 1..n |-> s[i]]
  BY <1>1
<1> QED BY <1>9, <1>10

(* Every finite set of numbers has one.                                    *)
LEMMA SortedExists ==
    ASSUME NEW S, S \subseteq Nat
    PROVE  \A n \in Nat : \E s : Sorted(s) /\ Elements(s) = S \cap (0..n)
<1> DEFINE P(n) == \E s : Sorted(s) /\ Elements(s) = S \cap (0..n)
           T == {n \in Nat : ~P(n)}
<1>1. ASSUME NEW s, Sorted(s), NEW n \in Nat, n \in S, \A x \in Elements(s) : x < n
      PROVE  Sorted(Append(s, n)) /\ Elements(Append(s, n)) = Elements(s) \cup {n}
  <2> DEFINE l == Len(s)
             t == Append(s, n)
  <2>1. s \in Seq(Nat) /\ l \in Nat /\ t \in Seq(Nat) /\ Len(t) = l + 1
    BY <1>1 DEF Sorted
  <2>2. t[l + 1] = n /\ \A i \in 1..l : t[i] = s[i] /\ s[i] \in Elements(s)
    BY <2>1 DEF Elements
  <2> HIDE DEF t
  <2>3. ASSUME NEW i \in 1..l + 1, NEW j \in 1..l + 1, i < j PROVE t[i] < t[j]
    <3>1. i \in 1..l
      BY <2>1, <2>3
    <3>2. CASE j = l + 1
      BY <1>1, <2>2, <3>1, <3>2
    <3>3. CASE j # l + 1
      <4>1. j \in 1..l
        BY <2>1, <3>3
      <4> QED BY <1>1, <2>2, <2>3, <3>1, <4>1 DEF Sorted
    <3> QED BY <3>2, <3>3
  <2>4. Elements(t) = Elements(s) \cup {n}
    <3>1. Elements(t) = {t[i] : i \in 1..l + 1} /\ Elements(s) = {s[i] : i \in 1..l}
      BY <2>1 DEF Elements
    <3>2. \A i \in 1..l + 1 : i \in 1..l \/ i = l + 1
      BY <2>1
    <3>3. l + 1 \in 1..l + 1 /\ \A i \in 1..l : i \in 1..l + 1
      BY <2>1
    <3> QED BY <2>2, <3>1, <3>2, <3>3
  <2> QED BY <2>1, <2>3, <2>4 DEF Sorted, t
<1>2. Sorted(<<>>) /\ Elements(<<>>) = {}
  BY DEF Sorted, Elements
<1>3. P(0)
  <2>1. CASE 0 \in S
    <3>1. Sorted(Append(<<>>, 0)) /\ Elements(Append(<<>>, 0)) = {} \cup {0}
      BY <1>1, <1>2, <2>1
    <3>2. S \cap (0..0) = {0}
      BY <2>1
    <3> QED BY <3>1, <3>2
  <2>2. CASE 0 \notin S
    <3>1. S \cap (0..0) = {}
      BY <2>2
    <3> QED BY <1>2, <3>1
  <2> QED BY <2>1, <2>2
<1>4. ASSUME NEW n \in Nat, n # 0, P(n - 1) PROVE P(n)
  <2>1. PICK s : Sorted(s) /\ Elements(s) = S \cap (0..n - 1)
    BY <1>4
  <2>2. CASE n \in S
    <3>1. \A x \in Elements(s) : x < n
      BY <2>1
    <3>2. S \cap (0..n) = (S \cap (0..n - 1)) \cup {n}
      BY <2>2
    <3> QED BY <1>1, <2>1, <2>2, <3>1, <3>2
  <2>3. CASE n \notin S
    <3>1. S \cap (0..n) = S \cap (0..n - 1)
      BY <2>3
    <3> QED BY <2>1, <3>1
  <2> QED BY <2>2, <2>3
<1> HIDE DEF P
<1>5. ASSUME T # {} PROVE FALSE
  <2>1. PICK x \in T : \A y \in T : x <= y
    BY <1>5, LeastElement
  <2>2. x \in Nat /\ ~P(x) /\ x # 0
    BY <1>3, <2>1
  <2>3. x - 1 \in Nat /\ x - 1 \notin T
    BY <2>1, <2>2
  <2> QED BY <1>4, <2>2, <2>3
<1>6. \A n \in Nat : P(n)
  BY <1>5
<1> QED BY <1>6 DEF P

(* A finite set of numbers.                                                *)
Bounded(S) == \E n \in Nat : S \subseteq 0..n

LEMMA BoundedSubset ==
    ASSUME NEW T, Bounded(T), NEW S, S \subseteq T
    PROVE  Bounded(S)
  BY DEF Bounded

LEMMA BoundedInterval ==
    ASSUME NEW n \in Nat, NEW S, S \subseteq 0..n
    PROVE  Bounded(S)
  BY DEF Bounded

(* InOrder lists a finite set of numbers, each once, in order.             *)
LEMMA InOrderIs ==
    ASSUME NEW S, Bounded(S)
    PROVE  Sorted(InOrder(S)) /\ Elements(InOrder(S)) = S
<1>0. PICK n \in Nat : S \subseteq 0..n
  BY DEF Bounded
<1>1. S \subseteq Nat /\ S \cap (0..n) = S
  <2>1. \A x \in 0..n : x \in Nat
    OBVIOUS
  <2> QED BY <1>0, <2>1, Zenon
<1>2. PICK s : Sorted(s) /\ Elements(s) = S
  BY <1>1, SortedExists
<1> QED BY <1>2, InOrderOfSorted

LEMMA InOrderEmpty ==
    InOrder({}) = <<>>
<1>1. Sorted(<<>>) /\ Elements(<<>>) = {}
  BY DEF Sorted, Elements
<1> QED BY <1>1, InOrderOfSorted

(* The numbers above all of S come after them.                             *)
LEMMA InOrderUnion ==
    ASSUME NEW S, Bounded(S), NEW T, Bounded(T), \A x \in S : \A y \in T : x < y
    PROVE  InOrder(S \cup T) = InOrder(S) \o InOrder(T)
<1> DEFINE s == InOrder(S)
           t == InOrder(T)
           l == Len(s)
           m == Len(t)
           u == s \o t
<1>1. Sorted(s) /\ Elements(s) = S /\ Sorted(t) /\ Elements(t) = T
  BY InOrderIs
<1> HIDE DEF s, t
<1>2. s \in Seq(Nat) /\ t \in Seq(Nat) /\ l \in Nat /\ m \in Nat
  BY <1>1 DEF Sorted
<1>3. /\ u \in Seq(Nat) /\ Len(u) = l + m
      /\ \A i \in 1..l + m : u[i] = IF i <= l THEN s[i] ELSE t[i - l]
  BY <1>2, ConcatProperties
<1> HIDE DEF u
<1>4. ASSUME NEW i \in 1..l PROVE s[i] \in S /\ u[i] = s[i]
  <2>1. i \in 1..l + m /\ i <= l
    BY <1>2
  <2> QED BY <1>1, <1>3, <2>1 DEF Elements
<1>5. ASSUME NEW i \in 1..m PROVE t[i] \in T /\ u[l + i] = t[i]
  <2>1. l + i \in 1..l + m /\ ~(l + i <= l) /\ (l + i) - l = i
    BY <1>2
  <2> QED BY <1>1, <1>3, <2>1 DEF Elements
<1>6. ASSUME NEW i \in 1..l + m, NEW j \in 1..l + m, i < j PROVE u[i] < u[j]
  <2>1. CASE j <= l
    <3>1. i \in 1..l /\ j \in 1..l
      BY <1>2, <1>6, <2>1
    <3> QED BY <1>1, <1>4, <1>6, <3>1 DEF Sorted
  <2>2. CASE i <= l /\ j > l
    <3>1. i \in 1..l /\ j - l \in 1..m /\ l + (j - l) = j
      BY <1>2, <2>2
    <3>2. u[i] \in S
      BY <1>4, <3>1
    <3>3. u[j] \in T
      BY <1>5, <3>1
    <3> QED BY <3>2, <3>3
  <2>3. CASE i > l
    <3> DEFINE a == i - l
               b == j - l
    <3>1. a \in 1..m /\ b \in 1..m /\ l + a = i /\ l + b = j /\ a < b
      BY <1>2, <1>6, <2>3
    <3> HIDE DEF a, b
    <3>2. u[i] = t[a] /\ u[j] = t[b]
      BY <1>5, <3>1
    <3> QED BY <1>1, <3>1, <3>2 DEF Sorted
  <2> QED BY <1>2, <2>1, <2>2, <2>3
<1>7. Elements(u) = S \cup T
  <2>1. ASSUME NEW i \in 1..l + m PROVE u[i] \in S \cup T
    <3>1. CASE i <= l
      BY <1>2, <1>4, <3>1
    <3>2. CASE i > l
      <4>1. i - l \in 1..m /\ l + (i - l) = i
        BY <1>2, <3>2
      <4>2. u[l + (i - l)] \in T
        BY <1>5, <4>1
      <4> QED BY <4>1, <4>2
    <3> QED BY <1>2, <3>1, <3>2
  <2>2. ASSUME NEW x \in S PROVE x \in Elements(u)
    <3>1. PICK i \in 1..l : x = s[i]
      BY <1>1 DEF Elements
    <3>2. i \in 1..Len(u) /\ u[i] = x
      BY <1>2, <1>3, <1>4, <3>1
    <3> QED BY <3>2 DEF Elements
  <2>3. ASSUME NEW y \in T PROVE y \in Elements(u)
    <3>1. PICK i \in 1..m : y = t[i]
      BY <1>1 DEF Elements
    <3>2. u[l + i] = y
      BY <1>5, <3>1
    <3>3. l + i \in 1..Len(u)
      BY <1>2, <1>3
    <3> QED BY <3>2, <3>3 DEF Elements
  <2> QED BY <1>3, <2>1, <2>2, <2>3 DEF Elements
<1>8. Sorted(u)
  BY <1>3, <1>6 DEF Sorted
<1>9. InOrder(S \cup T) = u
  BY <1>7, <1>8, InOrderOfSorted
<1> QED BY <1>9 DEF s, t, u

(* The first k of S are those up to the k-th.                              *)
LEMMA InOrderPrefix ==
    ASSUME NEW S, Bounded(S), NEW k \in 1..Len(InOrder(S))
    PROVE  SubSeq(InOrder(S), 1, k) = InOrder({x \in S : x <= InOrder(S)[k]})
<1> DEFINE s == InOrder(S)
           p == SubSeq(s, 1, k)
<1>1. Sorted(s) /\ Elements(s) = S /\ k \in 1..Len(s)
  BY InOrderIs
<1> HIDE DEF s
<1>2. s \in Seq(Nat) /\ Len(s) \in Nat /\ k \in Nat
  BY <1>1 DEF Sorted
<1>3. p \in Seq(Nat) /\ Len(p) = k /\ \A i \in 1..k : p[i] = s[i]
  BY <1>1, <1>2
<1> HIDE DEF p
<1>4. Sorted(p)
  <2>1. \A i \in 1..k : i \in 1..Len(s)
    BY <1>1, <1>2
  <2> QED BY <1>1, <1>3, <2>1 DEF Sorted
<1>5. \A i \in 1..Len(s) : s[i] \in Nat /\ (i <= k => s[i] <= s[k]) /\ (i > k => s[i] > s[k])
  <2> TAKE i \in 1..Len(s)
  <2>1. s[i] \in Nat /\ s[k] \in Nat
    BY <1>1, <1>2
  <2>2. (i < k => s[i] < s[k]) /\ (k < i => s[k] < s[i])
    BY <1>1 DEF Sorted
  <2>3. CASE i = k
    BY <1>2, <2>1, <2>3
  <2>4. CASE i # k
    BY <1>2, <2>1, <2>2, <2>4
  <2> QED BY <2>3, <2>4
<1>6. Elements(p) = {x \in S : x <= s[k]}
  <2>1. ASSUME NEW i \in 1..k PROVE p[i] \in S /\ p[i] <= s[k]
    <3>1. i \in 1..Len(s) /\ i <= k
      BY <1>1, <1>2
    <3> QED BY <1>1, <1>3, <1>5, <3>1 DEF Elements
  <2>2. ASSUME NEW x \in S, x <= s[k] PROVE \E i \in 1..k : x = p[i]
    <3>1. PICK i \in 1..Len(s) : x = s[i]
      BY <1>1 DEF Elements
    <3>2. i \in 1..k
      <4>1. s[i] \in Nat /\ s[k] \in Nat /\ ~(s[i] > s[k])
        BY <1>1, <1>5, <2>2, <3>1
      <4> QED BY <1>2, <1>5, <4>1
    <3> QED BY <1>3, <3>1, <3>2
  <2> QED BY <1>3, <2>1, <2>2 DEF Elements
<1>7. InOrder({x \in S : x <= s[k]}) = p
  BY <1>4, <1>6, InOrderOfSorted
<1> QED BY <1>7 DEF s, p

(* The events with ids in S, in order of their ids.                        *)
LogOf(table, S) == [i \in DOMAIN InOrder(S) |-> table[InOrder(S)[i]]]

LEMMA LogIs ==
    ASSUME NEW S, Bounded(S), NEW table,
           \A x \in S : table[x] \in Event
    PROVE  /\ LogOf(table, S) \in Seq(Event)
           /\ Len(LogOf(table, S)) = Len(InOrder(S))
<1> DEFINE s == InOrder(S)
<1>1. Sorted(s) /\ Elements(s) = S
  BY InOrderIs
<1> HIDE DEF s
<1>2. s \in Seq(Nat) /\ Len(s) \in Nat /\ DOMAIN s = 1..Len(s)
  BY <1>1 DEF Sorted
<1>3. \A i \in 1..Len(s) : table[s[i]] \in Event
  BY <1>1 DEF Elements
<1>4. LogOf(table, S) = [i \in 1..Len(s) |-> table[s[i]]]
  BY <1>2 DEF LogOf, s
<1> QED BY <1>2, <1>3, <1>4 DEF s

LEMMA LogOfNone ==
    ASSUME NEW table
    PROVE  LogOf(table, {}) = <<>>
<1>1. DOMAIN <<>> = {}
  OBVIOUS
<1>2. LogOf(table, {}) = [i \in {} |-> table[(<<>>)[i]]]
  BY <1>1, InOrderEmpty DEF LogOf
<1>3. [i \in {} |-> table[(<<>>)[i]]] = <<>>
  OBVIOUS
<1> QED BY <1>2, <1>3

(* The log is read in two parts.                                           *)
LEMMA LogOfUnion ==
    ASSUME NEW S, Bounded(S), NEW T, Bounded(T), \A x \in S : \A y \in T : x < y,
           NEW table,
           \A x \in S : table[x] \in Event, \A y \in T : table[y] \in Event
    PROVE  LogOf(table, S \cup T) = LogOf(table, S) \o LogOf(table, T)
<1> DEFINE s == InOrder(S)
           t == InOrder(T)
           l == Len(s)
           m == Len(t)
           p == LogOf(table, S)
           q == LogOf(table, T)
           u == p \o q
<1>1. InOrder(S \cup T) = s \o t
  BY InOrderUnion
<1>2. s \in Seq(Nat) /\ t \in Seq(Nat)
  BY InOrderIs DEF Sorted
<1>3. /\ p \in Seq(Event) /\ Len(p) = l
      /\ q \in Seq(Event) /\ Len(q) = m
  BY LogIs
<1>4. p = [i \in DOMAIN s |-> table[s[i]]] /\ q = [i \in DOMAIN t |-> table[t[i]]]
  BY DEF LogOf
<1>5. LogOf(table, S \cup T) = [i \in DOMAIN (s \o t) |-> table[(s \o t)[i]]]
  BY <1>1 DEF LogOf
<1> HIDE DEF s, t, p, q
<1>6. l \in Nat /\ m \in Nat /\ DOMAIN s = 1..l /\ DOMAIN t = 1..m
  BY <1>2
<1>7. /\ s \o t \in Seq(Nat) /\ Len(s \o t) = l + m
      /\ \A i \in 1..l + m : (s \o t)[i] = IF i <= l THEN s[i] ELSE t[i - l]
  BY <1>2, ConcatProperties
<1>8. /\ u \in Seq(Event) /\ Len(u) = l + m
      /\ \A i \in 1..l + m : u[i] = IF i <= l THEN p[i] ELSE q[i - l]
  <2> HIDE DEF l, m
  <2>1. /\ u \in Seq(Event) /\ Len(u) = Len(p) + Len(q)
        /\ \A i \in 1..Len(p) + Len(q) : u[i] = IF i <= Len(p) THEN p[i] ELSE q[i - Len(p)]
    <3> HIDE DEF u
    <3>1. p \in Seq(Event) /\ q \in Seq(Event) /\ u = p \o q
      BY <1>3 DEF u
    <3> HIDE <1>3
    <3> QED BY <3>1, ConcatProperties
  <2> QED BY <1>3, <2>1
<1> HIDE DEF l, m, u
<1>9. DOMAIN (s \o t) = 1..l + m /\ DOMAIN u = 1..l + m
  BY <1>7, <1>8
<1>10. u = [i \in 1..l + m |-> u[i]]
  BY <1>8, <1>9
<1>11. ASSUME NEW i \in 1..l + m PROVE u[i] = table[(s \o t)[i]]
  <2>1. CASE i <= l
    <3>1. i \in 1..l
      BY <1>6, <2>1
    <3> QED BY <1>4, <1>6, <1>7, <1>8, <2>1, <3>1
  <2>2. CASE ~(i <= l)
    <3>1. i - l \in 1..m
      BY <1>6, <2>2
    <3> QED BY <1>4, <1>6, <1>7, <1>8, <2>2, <3>1
  <2> QED BY <2>1, <2>2
<1>12. LogOf(table, S \cup T) = u
  BY <1>5, <1>9, <1>10, <1>11
<1> QED BY <1>12 DEF p, q, u

(* Only the rows of S count.                                               *)
LEMMA LogOfSame ==
    ASSUME NEW S, Bounded(S), NEW t, NEW u,
           \A x \in S : t[x] = u[x]
    PROVE  LogOf(t, S) = LogOf(u, S)
<1> DEFINE s == InOrder(S)
<1>1. Sorted(s) /\ Elements(s) = S
  BY InOrderIs
<1> HIDE DEF s
<1>2. DOMAIN s = 1..Len(s)
  BY <1>1 DEF Sorted
<1>3. \A i \in DOMAIN s : t[s[i]] = u[s[i]]
  BY <1>1, <1>2 DEF Elements
<1>4. LogOf(t, S) = [i \in DOMAIN s |-> t[s[i]]] /\ LogOf(u, S) = [i \in DOMAIN s |-> u[s[i]]]
  BY DEF LogOf, s
<1> QED BY <1>3, <1>4

LEMMA LogOfOne ==
    ASSUME NEW n \in Nat, NEW table
    PROVE  LogOf(table, {n}) = <<table[n]>>
<1>1. Sorted(<<n>>) /\ Elements(<<n>>) = {n}
  BY DEF Sorted, Elements
<1>2. InOrder({n}) = <<n>>
  BY <1>1, InOrderOfSorted
<1>3. LogOf(table, {n}) = [i \in DOMAIN <<n>> |-> table[(<<n>>)[i]]]
  BY <1>2 DEF LogOf
<1>4. DOMAIN <<n>> = 1..1 /\ (<<n>>)[1] = n
  OBVIOUS
<1> QED BY <1>3, <1>4
-----------------------------------------------------------------------------
(* The rows of a transaction, and what a session holds.                    *)
Rows == UNION {[D -> Event] : D \in SUBSET Nat}
Transaction == [open : BOOLEAN, target : Seq(Block), rows : Rows, rest : Seq(Event)]

TablesOK ==
    /\ IsChain(index)
    /\ last_id \in Nat
    /\ DOMAIN event \subseteq 1..last_id
    /\ \A n \in DOMAIN event : event[n] \in Event
    /\ Replay(LogOf(event, DOMAIN event)) = index

(* An open transaction has drawn all ids after some `low`, which is not    *)
(* below any visible one, and has written a first part of its events.      *)
Writes(t, k, low) ==
    /\ IsChain(t.target)
    /\ Len(t.target) > Len(index)
    /\ ForkPoint(index, t.target, k)
    /\ DOMAIN event \subseteq 1..low
    /\ DOMAIN t.rows = low + 1 .. last_id
    /\ LogOf(t.rows, low + 1 .. last_id) \o t.rest = MoveEvents(index, t.target, k)

SessionsOK ==
    /\ session \in [Session -> Transaction]
    /\ \A s \in Session :
        IF session[s].open
        THEN \E k \in 0..Len(index) : \E low \in 0..last_id : Writes(session[s], k, low)
        ELSE session[s] = Closed
    /\ ~session["main"].open \/ ~session["writer"].open

CursorOK ==
    /\ cursor \in Nat \cup {NoCursor}
    /\ stale \in BOOLEAN
    /\ ~stale => cursor \in DOMAIN event \cup {NoCursor}

EInv == TablesOK /\ SessionsOK /\ CursorOK /\ FollowsLog
-----------------------------------------------------------------------------
LEMMA NoRows ==
    ASSUME NEW n \in Int
    PROVE  DOMAIN <<>> = {} /\ n + 1 .. n = {} /\ <<>> \in Rows
<1>1. DOMAIN <<>> = {} /\ n + 1 .. n = {}
  OBVIOUS
<1>2. <<>> \in [{} -> Event]
  OBVIOUS
<1>3. {} \in SUBSET Nat
  OBVIOUS
<1> QED BY <1>1, <1>2, <1>3, Zenon DEF Rows

LEMMA WithRowsIs ==
    ASSUME NEW t, NEW r
    PROVE  /\ DOMAIN WithRows(t, r) = DOMAIN t \cup DOMAIN r
           /\ \A n \in DOMAIN r : WithRows(t, r)[n] = r[n]
           /\ \A n \in DOMAIN t : n \notin DOMAIN r => WithRows(t, r)[n] = t[n]
  BY DEF WithRows

LEMMA RowsAreEvents ==
    ASSUME NEW r \in Rows
    PROVE  DOMAIN r \subseteq Nat /\ \A n \in DOMAIN r : r[n] \in Event
  BY DEF Rows

LEMMA RowsGrow ==
    ASSUME NEW r \in Rows, NEW n \in Nat, NEW e \in Event
    PROVE  WithRows(r, [i \in {n} |-> e]) \in Rows
<1> DEFINE new == [i \in {n} |-> e]
           w == WithRows(r, new)
           D == DOMAIN r \cup {n}
<1>1. DOMAIN r \subseteq Nat /\ \A i \in DOMAIN r : r[i] \in Event
  BY RowsAreEvents
<1>2. w = [i \in D |-> IF i \in {n} THEN e ELSE r[i]]
  BY DEF WithRows
<1>3. w \in [D -> Event]
  BY <1>1, <1>2
<1>4. D \in SUBSET Nat
  BY <1>1
<1> QED BY <1>3, <1>4, Zenon DEF Rows

(* What the subscriber reads, in terms of LogOf.                           *)
LEMMA EventsAre ==
    ASSUME TablesOK
    PROVE  /\ \A m : Events(Ids(1, m)) = LogOf(event, {n \in DOMAIN event : n <= m})
           /\ Events(Ids(1, last_id)) = LogOf(event, DOMAIN event)
           /\ Bounded(DOMAIN event)
<1>1. last_id \in Nat /\ DOMAIN event \subseteq 1..last_id
  BY DEF TablesOK
<1>2. \A m : Events(Ids(1, m)) = LogOf(event, (1..m) \cap DOMAIN event)
  BY DEF Events, Ids, LogOf
<1>3. DOMAIN event \subseteq 0..last_id
  BY <1>1
<1>4. Bounded(DOMAIN event)
  BY <1>1, <1>3, BoundedInterval
<1> QED BY <1>1, <1>2, <1>4
-----------------------------------------------------------------------------
(* A new transaction has drawn no id: all that are visible lie below it.   *)
LEMMA BeginKeeps ==
    ASSUME EInv, NobodyWrites, NEW s \in Session, NEW d, IsChain(d),
           Len(d) > Len(index), NEW k \in 0..Len(index), Begin(s, d, k)
    PROVE  EInv'
<1> PICK rest : rest = MoveEvents(index, d, k)
  OBVIOUS
<1> DEFINE new == [open |-> TRUE, target |-> d, rows |-> <<>>, rest |-> rest]
<1>1. /\ UNCHANGED <<index, event, last_id, subscriber, faults>>
      /\ session' = [session EXCEPT ![s] = new]
      /\ ForkPoint(index, d, k)
  BY DEF Begin
<1>2. TablesOK' /\ CursorOK' /\ FollowsLog'
  BY <1>1 DEF EInv, TablesOK, CursorOK, FollowsLog, subscriber, Events, Ids
<1>3. /\ index \in Seq(Block) /\ d \in Seq(Block) /\ Len(index) \in Nat /\ Len(d) \in Nat
      /\ last_id \in Nat /\ DOMAIN event \subseteq 1..last_id
  BY DEF EInv, TablesOK, IsChain
<1>4. rest \in Seq(Event)
  BY <1>3, MoveParts
<1>5. new \in Transaction
  BY <1>3, <1>4, NoRows DEF Transaction
<1>6. Writes(new, k, last_id)
  <2>1. LogOf(new.rows, last_id + 1 .. last_id) = <<>>
    BY <1>3, NoRows, LogOfNone
  <2>2. LogOf(new.rows, last_id + 1 .. last_id) \o new.rest = rest
    BY <1>4, <2>1
  <2>3. DOMAIN new.rows = last_id + 1 .. last_id
    BY <1>3, NoRows
  <2> QED BY <1>1, <1>3, <2>2, <2>3 DEF Writes
<1> HIDE DEF new
<1>7. session \in [Session -> Transaction] /\ \A t \in Session : ~session[t].open
  BY DEF EInv, SessionsOK, NobodyWrites
<1>8. session'[s] = new /\ \A t \in Session : t # s => session'[t] = session[t]
  BY <1>1, <1>7
<1>9. Writes(new, k, last_id)'
  BY <1>1, <1>6 DEF Writes
<1>10. SessionsOK'
  <2>1. session' \in [Session -> Transaction]
    BY <1>1, <1>5, <1>7
  <2>2. ASSUME NEW t \in Session
        PROVE  (IF session[t].open
                THEN \E i \in 0..Len(index) : \E low \in 0..last_id : Writes(session[t], i, low)
                ELSE session[t] = Closed)'
    <3>1. CASE t = s
      <4>1. session'[t] = new /\ last_id' \in 0..last_id' /\ k \in 0..Len(index')
        BY <1>1, <1>3, <1>8, <3>1
      <4>2. Writes(session[t], k, last_id)'
        BY <1>9, <4>1 DEF Writes
      <4>3. session'[t].open
        BY <4>1 DEF new
      <4> QED BY <4>1, <4>2, <4>3
    <3>2. CASE t # s
      BY <1>7, <1>8, <3>2 DEF EInv, SessionsOK
    <3> QED BY <3>1, <3>2
  <2>3. (~session["main"].open \/ ~session["writer"].open)'
    BY <1>7, <1>8 DEF Session
  <2> QED BY <2>1, <2>2, <2>3 DEF SessionsOK
<1> QED BY <1>2, <1>10 DEF EInv

(* The rows it writes are the first part of the events of its move.        *)
LEMMA InsertKeeps ==
    ASSUME EInv, InsertEvent
    PROVE  EInv'
<1>1. PICK s \in Session :
        /\ session[s].rest # <<>>
        /\ session' = [session EXCEPT
                ![s].rows = WithRows(@, [n \in {last_id + 1} |-> Head(session[s].rest)]),
                ![s].rest = Tail(@)]
  BY DEF InsertEvent
<1>2. last_id' = last_id + 1 /\ UNCHANGED <<index, event, subscriber, faults>>
  BY DEF InsertEvent
<1>3. /\ last_id \in Nat /\ index \in Seq(Block) /\ DOMAIN event \subseteq 1..last_id
      /\ session \in [Session -> Transaction]
  BY DEF EInv, TablesOK, SessionsOK, IsChain
<1>4. TablesOK' /\ CursorOK'
  BY <1>2, <1>3 DEF EInv, TablesOK, CursorOK, subscriber
<1>5. FollowsLog'
  BY <1>2 DEF EInv, FollowsLog, subscriber, Events, Ids
<1>t. PICK t : t = session[s]
  OBVIOUS
<1>e. PICK e : e = Head(t.rest)
  OBVIOUS
<1>row. PICK row : row = [n \in {last_id + 1} |-> e]
  OBVIOUS
<1>u. PICK u : u = [t EXCEPT !.rows = WithRows(@, row), !.rest = Tail(@)]
  OBVIOUS
<1>6. t \in Transaction /\ t.open
  BY <1>1, <1>3, <1>t DEF EInv, SessionsOK, Closed
<1>7. session' = [session EXCEPT ![s] = u]
  BY <1>1, <1>t, <1>e, <1>row, <1>u
<1>8. PICK k \in 0..Len(index), low \in 0..last_id : Writes(t, k, low)
  BY <1>6, <1>t DEF EInv, SessionsOK
<1>9. /\ t.rest \in Seq(Event) /\ e \in Event /\ Tail(t.rest) \in Seq(Event)
      /\ t.rest = <<e>> \o Tail(t.rest) /\ t.rows \in Rows
  BY <1>1, <1>6, <1>t, <1>e DEF Transaction
<1>10. WithRows(t.rows, row) \in Rows
  <2>1. last_id + 1 \in Nat
    BY <1>3
  <2> QED BY <1>9, <1>row, <2>1, RowsGrow
<1>11. u \in Transaction /\ u.open /\ u.target = t.target
       /\ u.rows = WithRows(t.rows, row) /\ u.rest = Tail(t.rest)
  BY <1>6, <1>9, <1>10, <1>u DEF Transaction
<1>12. low \in Nat /\ low <= last_id /\ DOMAIN t.rows = low + 1 .. last_id
  BY <1>3, <1>8 DEF Writes
<1>13. /\ DOMAIN u.rows = low + 1 .. last_id + 1
       /\ u.rows[last_id + 1] = e
       /\ \A n \in low + 1 .. last_id : u.rows[n] = t.rows[n]
  <2>1. DOMAIN row = {last_id + 1} /\ row[last_id + 1] = e
    BY <1>row
  <2>2. low + 1 .. last_id + 1 = (low + 1 .. last_id) \cup {last_id + 1}
    BY <1>3, <1>12
  <2>3. \A n \in low + 1 .. last_id : n \notin {last_id + 1}
    BY <1>3, <1>12
  <2>4. /\ DOMAIN u.rows = DOMAIN t.rows \cup DOMAIN row
        /\ \A n \in DOMAIN row : u.rows[n] = row[n]
        /\ \A n \in DOMAIN t.rows : n \notin DOMAIN row => u.rows[n] = t.rows[n]
    <3>1. u.rows = WithRows(t.rows, row)
      BY <1>11
    <3> QED BY <3>1 DEF WithRows
  <2> QED BY <1>12, <2>1, <2>2, <2>3, <2>4
<1>14. LogOf(u.rows, low + 1 .. last_id + 1) = LogOf(t.rows, low + 1 .. last_id) \o <<e>>
  <2>1. PICK n : n = last_id + 1
    OBVIOUS
  <2>2. PICK S : S = low + 1 .. last_id
    OBVIOUS
  <2>3. PICK T : T = {n}
    OBVIOUS
  <2>4. /\ n \in Nat /\ S \cup T = low + 1 .. last_id + 1
        /\ Bounded(S) /\ Bounded(T)
        /\ \A x \in S : \A y \in T : x < y
    <3>1. n \in Nat /\ S \subseteq 0..n /\ T \subseteq 0..n
      BY <1>3, <1>12, <2>1, <2>2, <2>3
    <3>2. S \cup T = low + 1 .. last_id + 1 /\ \A x \in S : \A y \in T : x < y
      BY <1>3, <1>12, <2>1, <2>2, <2>3
    <3> QED BY <3>1, <3>2, BoundedInterval
  <2>5. (\A x \in S : u.rows[x] \in Event) /\ (\A y \in T : u.rows[y] \in Event)
    <3>1. u.rows \in Rows
      BY <1>11 DEF Transaction
    <3> QED BY <1>13, <2>4, <3>1, RowsAreEvents
  <2>6. LogOf(u.rows, T) = <<e>>
    BY <1>13, <2>1, <2>3, <2>4, LogOfOne
  <2>7. LogOf(u.rows, S) = LogOf(t.rows, S)
    BY <1>13, <2>2, <2>4, LogOfSame
  <2>8. LogOf(u.rows, S \cup T) = LogOf(u.rows, S) \o LogOf(u.rows, T)
    BY <2>4, <2>5, LogOfUnion
  <2> QED BY <2>2, <2>4, <2>6, <2>7, <2>8
<1>15. Writes(u, k, low)'
  <2>w. PICK w : w = LogOf(t.rows, low + 1 .. last_id)
    OBVIOUS
  <2>1. w \in Seq(Event)
    <3>1. Bounded(low + 1 .. last_id)
      <4>1. low + 1 .. last_id \subseteq 0..last_id
        BY <1>3, <1>12
      <4> QED BY <1>3, <4>1, BoundedInterval
    <3>2. \A n \in low + 1 .. last_id : t.rows[n] \in Event
      BY <1>9, <1>12, RowsAreEvents
    <3> QED BY <1>3, <2>w, <3>1, <3>2, LogIs
  <2>2. w \o t.rest = MoveEvents(index, t.target, k)
    BY <1>8, <2>w DEF Writes
  <2>3. (w \o <<e>>) \o Tail(t.rest) = w \o t.rest
    <3>1. <<e>> \in Seq(Event) /\ Tail(t.rest) \in Seq(Event)
      BY <1>9
    <3>2. (w \o <<e>>) \o Tail(t.rest) = w \o (<<e>> \o Tail(t.rest))
      <4>1. \A a, b, c \in Seq(Event) : (a \o b) \o c = a \o (b \o c)
        BY ConcatIsAssociative
      <4>2. PICK a, b, c \in Seq(Event) : a = w /\ b = <<e>> /\ c = Tail(t.rest)
        BY <2>1, <3>1
      <4>3. (a \o b) \o c = a \o (b \o c)
        BY <4>1
      <4> QED BY <4>2, <4>3
    <3> QED BY <1>9, <3>2
  <2>4. LogOf(u.rows, low + 1 .. last_id + 1) \o u.rest = MoveEvents(index, u.target, k)
    BY <1>11, <1>14, <2>w, <2>2, <2>3
  <2>5. /\ IsChain(u.target) /\ Len(u.target) > Len(index)
        /\ ForkPoint(index, u.target, k) /\ DOMAIN event \subseteq 1..low
    BY <1>8, <1>11 DEF Writes
  <2> QED BY <1>2, <1>11, <1>13, <2>4, <2>5 DEF Writes
<1>16. SessionsOK'
  <2>1. session' \in [Session -> Transaction]
    BY <1>3, <1>7, <1>11
  <2>2. session'[s] = u /\ \A x \in Session : x # s => session'[x] = session[x]
    BY <1>3, <1>7
  <2>3. \A x \in Session : x # s => ~session[x].open
    BY <1>6, <1>t DEF EInv, SessionsOK, Session
  <2>4. ASSUME NEW x \in Session
        PROVE  (IF session[x].open
                THEN \E i \in 0..Len(index) : \E l \in 0..last_id : Writes(session[x], i, l)
                ELSE session[x] = Closed)'
    <3>1. CASE x = s
      <4>1. session'[x] = u /\ low \in 0..last_id' /\ k \in 0..Len(index')
        BY <1>2, <1>3, <1>12, <2>2, <3>1
      <4>2. Writes(session[x], k, low)'
        BY <1>15, <4>1 DEF Writes
      <4> QED BY <1>11, <4>1, <4>2
    <3>2. CASE x # s
      BY <2>2, <2>3, <3>2 DEF EInv, SessionsOK
    <3> QED BY <3>1, <3>2
  <2>5. (~session["main"].open \/ ~session["writer"].open)'
    BY <2>2, <2>3 DEF Session
  <2> QED BY <2>1, <2>4, <2>5 DEF SessionsOK
<1> QED BY <1>4, <1>5, <1>16 DEF EInv

(* A commit makes its rows visible at once, above all the others: the log  *)
(* goes on where it ended.                                                 *)
LEMMA CommitAppends ==
    ASSUME EInv, Commit
    PROVE  \E k \in 0..Len(index) :
            /\ IsChain(index') /\ Len(index') > Len(index) /\ ForkPoint(index, index', k)
            /\ DOMAIN event \subseteq DOMAIN event' /\ DOMAIN event' \subseteq 1..last_id
            /\ \A n \in DOMAIN event' : event'[n] \in Event
            /\ \A n \in DOMAIN event : event'[n] = event[n]
            /\ \A n \in DOMAIN event' : \A m \in DOMAIN event : n <= m => n \in DOMAIN event
            /\ LogOf(event', DOMAIN event')
                = LogOf(event, DOMAIN event) \o MoveEvents(index, index', k)
<1>1. PICK s \in Session :
        /\ session[s].open
        /\ session[s].rest = <<>>
        /\ event' = WithRows(event, session[s].rows)
        /\ index' = session[s].target
  BY DEF Commit
<1>t. PICK t : t = session[s]
  OBVIOUS
<1>2. t \in Transaction /\ t.open /\ t.rest = <<>>
  BY <1>1, <1>t DEF EInv, SessionsOK
<1>3. PICK k \in 0..Len(index), low \in 0..last_id : Writes(t, k, low)
  BY <1>1, <1>t DEF EInv, SessionsOK
<1>4. /\ event' = WithRows(event, t.rows) /\ index' = t.target /\ t.rows \in Rows
  BY <1>1, <1>2, <1>t DEF Transaction
<1>S. PICK S : S = DOMAIN event
  OBVIOUS
<1>T. PICK T : T = low + 1 .. last_id
  OBVIOUS
<1>5. /\ last_id \in Nat /\ low \in Nat /\ low <= last_id
      /\ S \subseteq 1..low /\ DOMAIN t.rows = T
      /\ IsChain(index') /\ Len(index') > Len(index) /\ ForkPoint(index, index', k)
  BY <1>3, <1>4, <1>S, <1>T DEF EInv, TablesOK, Writes
<1>6. /\ \A x \in S : \A y \in T : x < y
      /\ \A x \in S : x \notin T
      /\ S \subseteq 0..last_id /\ T \subseteq 0..last_id /\ S \cup T \subseteq 1..last_id
  <2>1. \A x \in S : x \in Nat /\ 1 <= x /\ x <= low
    BY <1>5
  <2> QED BY <1>5, <1>T, <2>1
<1>7. Bounded(S) /\ Bounded(T)
  BY <1>5, <1>6, BoundedInterval
<1>8. /\ DOMAIN event' = S \cup T
      /\ \A n \in T : event'[n] = t.rows[n]
      /\ \A n \in S : event'[n] = event[n]
  <2>1. DOMAIN WithRows(event, t.rows) = S \cup T
    BY <1>5, <1>S DEF WithRows
  <2>2. \A n \in T : WithRows(event, t.rows)[n] = t.rows[n]
    BY <1>5 DEF WithRows
  <2>3. \A n \in S : WithRows(event, t.rows)[n] = event[n]
    BY <1>5, <1>6, <1>S DEF WithRows
  <2> QED BY <1>4, <2>1, <2>2, <2>3
<1>9. (\A n \in S : event'[n] \in Event) /\ (\A n \in T : event'[n] \in Event)
  <2>1. \A n \in S : event[n] \in Event
    BY <1>S DEF EInv, TablesOK
  <2>2. \A n \in T : t.rows[n] \in Event
    BY <1>4, <1>5, RowsAreEvents
  <2> QED BY <1>8, <2>1, <2>2
<1>10. LogOf(event', S \cup T) = LogOf(event, S) \o MoveEvents(index, index', k)
  <2>1. PICK old, new : old = event /\ new = event'
    OBVIOUS
  <2>2. LogOf(new, S \cup T) = LogOf(new, S) \o LogOf(new, T)
    BY <1>6, <1>7, <1>9, <2>1, LogOfUnion
  <2>3. LogOf(new, S) = LogOf(old, S)
    BY <1>7, <1>8, <2>1, LogOfSame
  <2>4. LogOf(new, T) = LogOf(t.rows, T)
    BY <1>7, <1>8, <2>1, LogOfSame
  <2>5. LogOf(t.rows, T) = MoveEvents(index, t.target, k)
    <3>1. LogOf(t.rows, T) \in Seq(Event)
      BY <1>4, <1>5, <1>7, RowsAreEvents, LogIs
    <3>2. LogOf(t.rows, T) \o <<>> = MoveEvents(index, t.target, k)
      BY <1>2, <1>3, <1>T DEF Writes
    <3> QED BY <3>1, <3>2
  <2> QED BY <1>4, <2>1, <2>2, <2>3, <2>4, <2>5
<1>11. \A n \in S \cup T : \A m \in S : n <= m => n \in S
  <2>1. \A m \in S : m \in Int
    BY <1>5
  <2>2. \A n \in T : n \in Int
    BY <1>T
  <2> QED BY <1>6, <2>1, <2>2
<1> QED BY <1>5, <1>6, <1>8, <1>9, <1>10, <1>11, <1>S

(* Both sessions are closed once the open one is.                          *)
LEMMA AllClosed ==
    ASSUME SessionsOK, NEW s \in Session, session[s].open,
           session' = [session EXCEPT ![s] = Closed]
    PROVE  SessionsOK'
<1>1. session \in [Session -> Transaction] /\ Closed \in Transaction
  <2>1. <<>> \in Rows /\ <<>> \in Seq(Block) /\ <<>> \in Seq(Event)
    BY NoRows, 0 \in Int
  <2> QED BY <2>1 DEF SessionsOK, Closed, Transaction
<1>2. \A t \in Session : session'[t] = Closed
  <2>1. \A t \in Session : t # s => ~session[t].open
    BY DEF SessionsOK, Session
  <2> QED BY <1>1, <2>1 DEF SessionsOK
<1>3. session' \in [Session -> Transaction]
  BY <1>1
<1>4. ~Closed.open
  BY DEF Closed
<1> QED BY <1>2, <1>3, <1>4 DEF SessionsOK, Session

LEMMA CommitKeeps ==
    ASSUME EInv, Commit
    PROVE  EInv'
<1>1. UNCHANGED <<last_id, subscriber>>
  BY DEF Commit
<1>2. PICK k \in 0..Len(index) :
        /\ IsChain(index') /\ Len(index') > Len(index) /\ ForkPoint(index, index', k)
        /\ DOMAIN event \subseteq DOMAIN event' /\ DOMAIN event' \subseteq 1..last_id
        /\ \A n \in DOMAIN event' : event'[n] \in Event
        /\ \A n \in DOMAIN event : event'[n] = event[n]
        /\ \A n \in DOMAIN event' : \A m \in DOMAIN event : n <= m => n \in DOMAIN event
        /\ LogOf(event', DOMAIN event')
            = LogOf(event, DOMAIN event) \o MoveEvents(index, index', k)
  BY CommitAppends
<1>3. TablesOK
  BY DEF EInv
<1>4. TablesOK'
  <2>1. /\ index \in Seq(Block) /\ index' \in Seq(Block)
        /\ Len(index) \in Nat /\ Len(index') \in Nat
    BY <1>2, <1>3 DEF TablesOK, IsChain
  <2>2. LogOf(event, DOMAIN event) \in Seq(Event)
    BY <1>3, EventsAre, LogIs DEF TablesOK
  <2>3. Replay(LogOf(event, DOMAIN event)) = index
    BY <1>3 DEF TablesOK
  <2>4. PICK c, d, log : c = index /\ d = index' /\ log = LogOf(event, DOMAIN event)
    OBVIOUS
  <2>5. k \in 0..Len(c) /\ k <= Len(d) /\ ForkPoint(c, d, k)
    BY <1>2, <2>1, <2>4
  <2>6. Replay(log \o MoveEvents(c, d, k)) = d
    BY <2>1, <2>2, <2>3, <2>4, <2>5, MoveReplays
  <2>7. Replay(LogOf(event', DOMAIN event')) = index'
    BY <1>2, <2>4, <2>6
  <2> QED BY <1>1, <1>2, <1>3, <2>7 DEF TablesOK
<1>5. SessionsOK'
  <2>1. PICK s \in Session : session[s].open /\ session' = [session EXCEPT ![s] = Closed]
    BY DEF Commit
  <2> QED BY <2>1, AllClosed DEF EInv
<1>6. CursorOK'
  BY <1>1, <1>2 DEF EInv, CursorOK, subscriber
<1>7. FollowsLog'
  <2> SUFFICES ASSUME ~stale PROVE followed' = Replay(Events(Ids(1, cursor))')
    BY <1>1 DEF FollowsLog, subscriber
  <2>1. /\ followed' = followed /\ cursor' = cursor
        /\ followed = Replay(Events(Ids(1, cursor)))
    BY <1>1 DEF EInv, FollowsLog, subscriber
  <2>2. Events(Ids(1, cursor)) = LogOf(event, {n \in DOMAIN event : n <= cursor})
    BY <1>3, EventsAre
  <2>3. Events(Ids(1, cursor))' = LogOf(event', {n \in DOMAIN event' : n <= cursor'})
    <3>1. Events(Ids(1, cursor))' = LogOf(event', (1..cursor') \cap DOMAIN event')
      BY DEF Events, Ids, LogOf
    <3>2. \A n \in DOMAIN event' : n \in Int /\ 1 <= n
      BY <1>2
    <3>3. (1..cursor') \cap DOMAIN event' = {n \in DOMAIN event' : n <= cursor'}
      BY <3>2
    <3> QED BY <3>1, <3>3
  <2>4. PICK S : S = {n \in DOMAIN event : n <= cursor}
    OBVIOUS
  <2>5. {n \in DOMAIN event' : n <= cursor'} = S
    <3>1. cursor \in DOMAIN event \cup {NoCursor}
      BY DEF EInv, CursorOK
    <3>2. CASE cursor = NoCursor
      <4>1. \A n \in DOMAIN event' : n \in Int /\ 1 <= n
        BY <1>2
      <4>2. \A n \in DOMAIN event' : ~(n <= cursor)
        BY <3>2, <4>1 DEF NoCursor
      <4> QED BY <1>2, <2>1, <2>4, <4>2
    <3>3. CASE cursor \in DOMAIN event
      BY <1>2, <2>1, <2>4, <3>3
    <3> QED BY <3>1, <3>2, <3>3
  <2>6. Bounded(S)
    BY <1>3, <2>4, EventsAre, BoundedSubset
  <2>7. LogOf(event', S) = LogOf(event, S)
    <3>1. \A n \in S : event'[n] = event[n]
      BY <1>2, <2>4
    <3> QED BY <2>6, <3>1, LogOfSame
  <2> QED BY <2>1, <2>2, <2>3, <2>4, <2>5, <2>7
<1> QED BY <1>4, <1>5, <1>6, <1>7 DEF EInv

LEMMA RollbackKeeps ==
    ASSUME EInv, Rollback
    PROVE  EInv'
<1>1. UNCHANGED <<index, event, last_id, subscriber>>
  BY DEF Rollback
<1>2. TablesOK' /\ CursorOK' /\ FollowsLog'
  BY <1>1 DEF EInv, TablesOK, CursorOK, FollowsLog, subscriber, Events, Ids
<1>3. SessionsOK'
  BY AllClosed DEF EInv, Rollback
<1> QED BY <1>2, <1>3 DEF EInv

LEMMA NothingRead ==
    ASSUME NEW table
    PROVE  Replay(LogOf(table, {})) = <<>>
  BY LogOfNone, FollowNothing DEF Replay

(* A subscriber without a cursor has read nothing.                         *)
LEMMA NoneBelow ==
    ASSUME DOMAIN event \subseteq 1..last_id, last_id \in Nat
    PROVE  Replay(Events(Ids(1, NoCursor))) = <<>>
<1>1. (1..NoCursor) \cap DOMAIN event = {}
  BY DEF NoCursor
<1>2. Events(Ids(1, NoCursor)) = LogOf(event, {})
  BY <1>1 DEF Events, Ids, LogOf
<1> QED BY <1>2, NothingRead

LEMMA WipeKeeps ==
    ASSUME EInv, Wipe
    PROVE  EInv'
<1>1. /\ index' = <<>> /\ event' = <<>> /\ last_id' = 0
      /\ stale' = (stale \/ cursor # NoCursor)
      /\ UNCHANGED <<session, cursor, followed>>
  BY DEF Wipe
<1>2. DOMAIN event' = {}
  BY <1>1, NoRows, 0 \in Int
<1>3. TablesOK'
  <2>1. IsChain(<<>>)
    BY DEF IsChain
  <2>2. Replay(LogOf(event', {})) = <<>>
    BY NothingRead
  <2> QED BY <1>1, <1>2, <2>1, <2>2 DEF TablesOK
<1>4. SessionsOK'
  BY <1>1 DEF EInv, SessionsOK, Wipe, NobodyWrites
<1>5. CursorOK'
  BY <1>1, <1>2 DEF EInv, CursorOK
<1>6. FollowsLog'
  <2>1. ~stale' => ~stale /\ cursor = NoCursor /\ followed = Replay(Events(Ids(1, NoCursor)))
    BY <1>1 DEF EInv, FollowsLog, CursorOK
  <2>2. Replay(Events(Ids(1, NoCursor))) = <<>>
    BY NoneBelow DEF EInv, TablesOK
  <2>3. Replay(Events(Ids(1, NoCursor)))' = <<>>
    <3>1. Events(Ids(1, NoCursor))' = LogOf(event', {})
      BY <1>2 DEF Events, Ids, LogOf, NoCursor
    <3> QED BY <3>1, NothingRead
  <2>4. ~stale' => followed' = <<>> /\ cursor' = NoCursor
    BY <1>1, <2>1, <2>2
  <2>5. ASSUME cursor' = NoCursor PROVE Events(Ids(1, cursor))' = Events(Ids(1, NoCursor))'
    BY <2>5 DEF Events, Ids
  <2> QED BY <2>3, <2>4, <2>5 DEF FollowsLog
<1> QED BY <1>3, <1>4, <1>5, <1>6 DEF EInv

LEMMA RestartKeeps ==
    ASSUME EInv, Restart
    PROVE  EInv'
<1>1. /\ cursor' = NoCursor /\ followed' = <<>> /\ stale' = FALSE
      /\ UNCHANGED <<index, event, last_id, session>>
  BY DEF Restart
<1>2. TablesOK' /\ SessionsOK' /\ CursorOK'
  BY <1>1 DEF EInv, TablesOK, SessionsOK, CursorOK, Writes
<1>3. FollowsLog'
  <2>1. Events(Ids(1, cursor))' = Events(Ids(1, NoCursor))
    BY <1>1 DEF Events, Ids
  <2>2. Replay(Events(Ids(1, NoCursor))) = <<>>
    BY NoneBelow DEF EInv, TablesOK
  <2> QED BY <1>1, <2>1, <2>2 DEF FollowsLog
<1> QED BY <1>2, <1>3 DEF EInv

(* A page is all that is visible above the cursor, up to the next cursor.  *)
LEMMA PageIs ==
    ASSUME TablesOK, cursor \in Nat \cup {NoCursor}
    PROVE  /\ NextCursor \in DOMAIN event \cup {cursor}
           /\ cursor <= NextCursor
           /\ Page = InOrder({n \in DOMAIN event : cursor < n /\ n <= NextCursor})
           /\ Page = <<>> => {n \in DOMAIN event : cursor < n} = {}
<1> DEFINE S == {n \in DOMAIN event : cursor < n}
           s == InOrder(S)
           k == Min({Limit, Len(s)})
<1>1. /\ last_id \in Nat /\ DOMAIN event \subseteq 1..last_id /\ Bounded(DOMAIN event)
      /\ cursor \in Int
  BY EventsAre DEF TablesOK, NoCursor
<1>2. Bounded(S)
  BY <1>1, BoundedSubset
<1>3. Sorted(s) /\ Elements(s) = S
  BY <1>2, InOrderIs
<1>4. NewIds = s
  <2>1. (cursor + 1 .. last_id) \cap DOMAIN event = S
    BY <1>1
  <2> QED BY <2>1 DEF NewIds, Ids
<1>5. Page = SubSeq(s, 1, k)
  BY <1>4 DEF Page, FirstOf
<1> HIDE DEF s
<1>6. s \in Seq(Nat) /\ Len(s) \in Nat
  BY <1>3 DEF Sorted
<1>7. k \in {Limit, Len(s)} /\ k <= Len(s) /\ k <= Limit
  <2>1. Limit \in Nat /\ Limit # 0
    BY SubscriberAssumption
  <2>2. \E x \in {Limit, Len(s)} : \A y \in {Limit, Len(s)} : x <= y
    BY <1>6, <2>1
  <2>3. k \in {Limit, Len(s)} /\ \A y \in {Limit, Len(s)} : k <= y
    BY <2>2, Zenon DEF Min
  <2> QED BY <2>3
<1> HIDE DEF k
<1>8. CASE s = <<>>
  <2>1. S = {}
    BY <1>3, <1>8 DEF Elements
  <2>2. k = 0
    BY <1>6, <1>7, <1>8, SubscriberAssumption
  <2>3. Page = <<>>
    BY <1>5, <1>8, <2>2
  <2>4. NextCursor = cursor
    BY <2>3 DEF NextCursor
  <2>5. {n \in DOMAIN event : cursor < n /\ n <= NextCursor} = {}
    BY <2>1, <2>4
  <2>6. InOrder({n \in DOMAIN event : cursor < n /\ n <= NextCursor}) = <<>>
    BY <2>5, InOrderEmpty
  <2> QED BY <1>1, <2>1, <2>3, <2>4, <2>6
<1>9. CASE s # <<>>
  <2>1. k \in 1..Len(s)
    BY <1>6, <1>7, <1>9, SubscriberAssumption
  <2>2. Page \in Seq(Nat) /\ Len(Page) = k /\ Page[k] = s[k]
    BY <1>5, <1>6, <2>1
  <2>3. Page # <<>>
    BY <2>1, <2>2
  <2>4. NextCursor = s[k]
    BY <2>2, <2>3 DEF NextCursor, Last
  <2>5. s[k] \in S
    BY <1>3, <2>1 DEF Elements
  <2>6. SubSeq(s, 1, k) = InOrder({x \in S : x <= s[k]})
    BY <1>2, <2>1, InOrderPrefix DEF s
  <2>7. {x \in S : x <= s[k]} = {n \in DOMAIN event : cursor < n /\ n <= NextCursor}
    BY <2>4
  <2>8. cursor <= NextCursor
    BY <1>1, <2>4, <2>5
  <2> QED BY <1>5, <2>3, <2>4, <2>5, <2>6, <2>7, <2>8
<1> QED BY <1>8, <1>9

(* What it reads goes on where it stopped reading.                         *)
LEMMA PollKeeps ==
    ASSUME EInv, Poll
    PROVE  EInv'
<1>1. /\ cursor' = NextCursor /\ followed' = Follow(followed, Events(Page))
      /\ UNCHANGED <<index, event, last_id, session, stale>>
  BY DEF Poll
<1>2. TablesOK /\ cursor \in Nat \cup {NoCursor} /\ DOMAIN event \subseteq Nat
  BY DEF EInv, CursorOK, TablesOK
<1>3. /\ NextCursor \in DOMAIN event \cup {cursor} /\ cursor <= NextCursor
      /\ Page = InOrder({n \in DOMAIN event : cursor < n /\ n <= NextCursor})
  BY <1>2, PageIs
<1>4. TablesOK' /\ SessionsOK'
  BY <1>1 DEF EInv, TablesOK, SessionsOK, Writes
<1>5. CursorOK'
  BY <1>1, <1>2, <1>3 DEF EInv, CursorOK
<1>6. FollowsLog'
  <2> SUFFICES ASSUME ~stale PROVE followed' = Replay(Events(Ids(1, cursor))')
    BY <1>1 DEF FollowsLog
  <2>S. PICK S : S = {n \in DOMAIN event : n <= cursor}
    OBVIOUS
  <2>T. PICK T : T = {n \in DOMAIN event : cursor < n /\ n <= NextCursor}
    OBVIOUS
  <2>1. followed = Replay(LogOf(event, S))
    BY <1>2, <2>S, EventsAre DEF EInv, FollowsLog
  <2>2. Events(Page) = LogOf(event, T)
    BY <1>3, <2>T DEF Events, LogOf
  <2>3. /\ S \cup T = {n \in DOMAIN event : n <= NextCursor}
        /\ \A x \in S : \A y \in T : x < y
    <3>1. cursor \in Int /\ NextCursor \in Int
      BY <1>2, <1>3 DEF NoCursor
    <3> QED BY <1>2, <1>3, <2>S, <2>T, <3>1
  <2>4. Bounded(S) /\ Bounded(T)
    BY <1>2, <2>S, <2>T, EventsAre, BoundedSubset
  <2>5. (\A x \in S : event[x] \in Event) /\ (\A x \in T : event[x] \in Event)
    BY <2>S, <2>T, <1>2 DEF TablesOK
  <2>6. /\ LogOf(event, S \cup T) = LogOf(event, S) \o LogOf(event, T)
        /\ LogOf(event, S) \in Seq(Event) /\ LogOf(event, T) \in Seq(Event)
    <3>1. LogOf(event, S \cup T) = LogOf(event, S) \o LogOf(event, T)
      BY <2>3, <2>4, <2>5, LogOfUnion
    <3>2. LogOf(event, S) \in Seq(Event)
      BY <2>4, <2>5, LogIs
    <3>3. LogOf(event, T) \in Seq(Event)
      BY <2>4, <2>5, LogIs
    <3> QED BY <3>1, <3>2, <3>3
  <2>7. Replay(LogOf(event, S \cup T)) = Follow(followed, LogOf(event, T))
    <3>1. Follow(<<>>, LogOf(event, S) \o LogOf(event, T))
            = Follow(Follow(<<>>, LogOf(event, S)), LogOf(event, T))
      BY <2>6, FollowConcat
    <3> QED BY <2>1, <2>6, <3>1 DEF Replay
  <2>8. Events(Ids(1, cursor))' = Events(Ids(1, NextCursor))
    BY <1>1 DEF Events, Ids
  <2>9. Events(Ids(1, NextCursor)) = LogOf(event, S \cup T)
    BY <1>2, <2>3, EventsAre
  <2> QED BY <1>1, <2>2, <2>7, <2>8, <2>9
<1> QED BY <1>4, <1>5, <1>6 DEF EInv
-----------------------------------------------------------------------------
(* EInv holds in every reachable state.                                    *)
THEOREM SubscriberInv == ESpec => []EInv
<1>1. EInit => EInv
  <2> SUFFICES ASSUME EInit PROVE EInv
    OBVIOUS
  <2> USE DEF EInit
  <2>1. DOMAIN event = {} /\ 0 \in Nat
    BY NoRows, 0 \in Int
  <2>2. TablesOK
    <3>1. IsChain(<<>>)
      BY DEF IsChain
    <3>2. Replay(LogOf(event, {})) = <<>>
      BY NothingRead
    <3> QED BY <2>1, <3>1, <3>2 DEF TablesOK
  <2>3. SessionsOK
    <3>1. <<>> \in Rows /\ <<>> \in Seq(Block) /\ <<>> \in Seq(Event)
      BY NoRows, 0 \in Int
    <3> QED BY <3>1 DEF SessionsOK, Closed, Transaction, Session
  <2>4. CursorOK
    BY DEF CursorOK
  <2>5. FollowsLog
    BY <2>1, NoneBelow DEF FollowsLog
  <2> QED BY <2>2, <2>3, <2>4, <2>5 DEF EInv
<1>2. EInv /\ [ENext]_evars => EInv'
  <2> SUFFICES ASSUME EInv, [ENext]_evars PROVE EInv'
    OBVIOUS
  <2>1. CASE BeginBatch
    <3>1. PICK c \in Chains : \E n \in Len(index) + 1 .. Len(c) :
            NobodyWrites /\ Begin("writer", SubSeq(c, 1, n), Len(index))
      BY <2>1 DEF BeginBatch
    <3>2. PICK n \in Len(index) + 1 .. Len(c) :
            NobodyWrites /\ Begin("writer", SubSeq(c, 1, n), Len(index))
      BY <3>1
    <3>3. Len(index) \in Nat /\ IsChain(c) /\ Len(c) \in Nat
      BY ChainsAreChains DEF EInv, TablesOK, IsChain
    <3>4. PICK d : d = SubSeq(c, 1, n)
      OBVIOUS
    <3>5. n \in 0..Len(c) /\ n > Len(index) /\ Len(index) \in 0..Len(index)
      BY <3>3
    <3>6. IsChain(d) /\ Len(d) > Len(index)
      BY <3>3, <3>4, <3>5, PrefixIsChain
    <3>7. PICK k \in 0..Len(index) : k = Len(index)
      BY <3>5
    <3>8. Begin("writer", d, k) /\ "writer" \in Session
      BY <3>2, <3>4, <3>7 DEF Session
    <3> QED BY <3>2, <3>6, <3>8, BeginKeeps
  <2>2. CASE BeginReorg
    <3>1. PICK c \in Chains, k \in 0 .. Len(index) - 1 :
            /\ NobodyWrites /\ Len(c) > Len(index)
            /\ Begin("main", SubSeq(c, 1, Len(index) + 1), k)
      <4>1. PICK c \in Chains : \E k \in 0 .. Len(index) - 1 :
                /\ Len(c) > Len(index)
                /\ Begin("main", SubSeq(c, 1, Len(index) + 1), k)
        BY <2>2 DEF BeginReorg
      <4>2. NobodyWrites
        BY <2>2 DEF BeginReorg
      <4> QED BY <4>1, <4>2
    <3>2. Len(index) \in Nat /\ IsChain(c) /\ Len(c) \in Nat
      BY ChainsAreChains DEF EInv, TablesOK, IsChain
    <3>3. PICK d : d = SubSeq(c, 1, Len(index) + 1)
      OBVIOUS
    <3>4. Len(index) + 1 \in 0..Len(c) /\ k \in 0..Len(index) /\ Len(index) + 1 > Len(index)
      BY <3>1, <3>2
    <3>5. IsChain(d) /\ Len(d) > Len(index)
      BY <3>2, <3>3, <3>4, PrefixIsChain
    <3>6. Begin("main", d, k) /\ "main" \in Session
      BY <3>1, <3>3 DEF Session
    <3> QED BY <3>1, <3>4, <3>5, <3>6, BeginKeeps
  <2>3. CASE InsertEvent
    BY <2>3, InsertKeeps
  <2>4. CASE Commit
    BY <2>4, CommitKeeps
  <2>5. CASE Rollback
    BY <2>5, RollbackKeeps
  <2>6. CASE Wipe
    BY <2>6, WipeKeeps
  <2>7. CASE Poll
    BY <2>7, PollKeeps
  <2>8. CASE Restart
    BY <2>8, RestartKeeps
  <2>9. CASE UNCHANGED evars
    BY <2>9 DEF evars, subscriber, EInv, TablesOK, SessionsOK, Writes, CursorOK,
                FollowsLog, Events, Ids
  <2> QED BY <2>1, <2>2, <2>3, <2>4, <2>5, <2>6, <2>7, <2>8, <2>9 DEF ENext
<1> QED BY <1>1, <1>2, PTL DEF ESpec

(* A subscriber holds what the events up to its cursor make of the empty   *)
(* chain, whatever commits, rolls back, is wiped or starts again.          *)
THEOREM SubscriberFollows == ESpec => []FollowsLog
<1>1. EInv => FollowsLog
  BY DEF EInv
<1> QED BY <1>1, SubscriberInv, PTL

(* Once a poll returns nothing it holds the indexed chain: what it has     *)
(* read is the whole log, and the log leads to the index.                  *)
THEOREM SubscriberUpToDate == ESpec => []UpToDateHasIndex
<1>1. EInv => UpToDateHasIndex
  <2> SUFFICES ASSUME EInv, ~stale, NewIds = <<>> PROVE followed = index
    BY DEF UpToDateHasIndex
  <2>1. /\ TablesOK /\ cursor \in Nat \cup {NoCursor} /\ last_id \in Nat
        /\ DOMAIN event \subseteq 1..last_id
    BY DEF EInv, CursorOK, TablesOK
  <2>2. Page = <<>>
    <3>1. Page = SubSeq(<<>>, 1, Min({Limit, Len(<<>>)}))
      BY DEF Page, FirstOf
    <3>2. Min({Limit, Len(<<>>)}) \in {Limit, Len(<<>>)}
          /\ Min({Limit, Len(<<>>)}) <= Len(<<>>)
      <4>1. Limit \in Nat /\ Limit # 0 /\ Len(<<>>) = 0
        BY SubscriberAssumption
      <4>2. \E x \in {Limit, Len(<<>>)} : \A y \in {Limit, Len(<<>>)} : x <= y
        BY <4>1
      <4> QED BY <4>2, Zenon DEF Min
    <3>3. Min({Limit, Len(<<>>)}) = 0
      BY <3>2, SubscriberAssumption
    <3> QED BY <3>1, <3>3
  <2>3. {n \in DOMAIN event : cursor < n} = {}
    BY <2>1, <2>2, PageIs
  <2>4. {n \in DOMAIN event : n <= cursor} = DOMAIN event
    <3>1. cursor \in Int /\ \A n \in DOMAIN event : n \in Int
      BY <2>1 DEF NoCursor
    <3>2. \A n \in DOMAIN event : ~(cursor < n)
      BY <2>3
    <3>3. \A n \in DOMAIN event : n <= cursor
      BY <3>1, <3>2
    <3> QED BY <3>3
  <2>5. Events(Ids(1, cursor)) = LogOf(event, DOMAIN event)
    BY <2>1, <2>4, EventsAre
  <2> QED BY <2>1, <2>5 DEF EInv, FollowsLog, TablesOK
<1> QED BY <1>1, SubscriberInv, PTL

(* The events in the order of their ids are an append-only log in the      *)
(* sense of ChainIndex: each step of the indexer's sessions is a move of   *)
(* the index with its events, a wipe, or nothing that readers can see.     *)
THEOREM SubscriberRefines == ESpec => IdsAreTheLog
<1> DEFINE log == Events(Ids(1, last_id))
<1>1. EInit => Index!Init
  <2> SUFFICES ASSUME EInit PROVE index = <<>> /\ log = <<>>
    BY DEF Index!Init
  <2>1. (1..last_id) \cap DOMAIN event = {}
    BY NoRows, 0 \in Int DEF EInit
  <2>2. log = LogOf(event, {})
    BY <2>1 DEF Events, Ids, LogOf
  <2> QED BY <2>2, LogOfNone DEF EInit
<1>2. EInv /\ EInv' /\ [ENext]_evars => [Index!Advance \/ Index!Wipe]_<<index, log>>
  <2> SUFFICES ASSUME EInv, EInv', [ENext]_evars
               PROVE  Index!Advance \/ Index!Wipe \/ (index' = index /\ log' = log)
    OBVIOUS
  <2>1. log = LogOf(event, DOMAIN event)
    BY EventsAre DEF EInv
  <2>2. log' = LogOf(event', DOMAIN event')
    <3>1. (1..last_id') \cap DOMAIN event' = DOMAIN event'
      BY DEF EInv, TablesOK
    <3> QED BY <3>1 DEF Events, Ids, LogOf
  <2> HIDE DEF log
  <2>3. CASE Commit
    <3>1. PICK k \in 0..Len(index) :
            /\ IsChain(index') /\ Len(index') > Len(index) /\ ForkPoint(index, index', k)
            /\ LogOf(event', DOMAIN event')
                = LogOf(event, DOMAIN event) \o MoveEvents(index, index', k)
      BY <2>3, CommitAppends
    <3>2. log' = log \o MoveEvents(index, index', k)
      BY <2>1, <2>2, <3>1
    <3>3. Index!IsChain(index') /\ Index!ForkPoint(index, index', k)
      BY <3>1 DEF IsChain, ForkPoint, Index!IsChain, Index!ForkPoint
    <3>4. log' = log \o Index!MoveEvents(index, index', k)
      BY <3>2 DEF MoveEvents, Added, Reverted, Index!MoveEvents, Index!Added, Index!Reverted
    <3> QED BY <3>1, <3>3, <3>4 DEF Index!Advance, log
  <2>4. CASE Wipe
    <3>1. index' = <<>> /\ DOMAIN event' = {}
      BY <2>4, NoRows, 0 \in Int DEF Wipe
    <3>2. log' = <<>>
      BY <2>2, <3>1, LogOfNone
    <3> QED BY <3>1, <3>2 DEF Index!Wipe, log
  <2>5. CASE UNCHANGED <<index, event>>
    BY <2>1, <2>2, <2>5
  <2>6. BeginBatch \/ BeginReorg => UNCHANGED <<index, event>>
    BY DEF BeginBatch, BeginReorg, Begin
  <2>7. InsertEvent \/ Rollback \/ Poll \/ Restart \/ UNCHANGED evars => UNCHANGED <<index, event>>
    BY DEF InsertEvent, Rollback, Poll, Restart, evars
  <2> QED BY <2>3, <2>4, <2>5, <2>6, <2>7 DEF ENext
<1> QED BY <1>1, <1>2, SubscriberInv, PTL DEF ESpec, IdsAreTheLog, Index!Spec
=============================================================================
