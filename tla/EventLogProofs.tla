--------------------------- MODULE EventLogProofs ----------------------------
(***************************************************************************)
(* What a subscriber makes of a log, for every log: Follow is a recursion  *)
(* over its events, and the inductions are arguments about the first event *)
(* at which two computations would differ (LeastElement).                  *)
(***************************************************************************)
EXTENDS EventLog, BlockTreeProofs

(* The chains that Follow goes through, up to n events.                    *)
Steps(f, c, events, n) ==
    f = [i \in 0..n |-> IF i = 0 THEN c ELSE Apply(f[i - 1], events[i])]

LEMMA StepsExist ==
    ASSUME NEW c, NEW events
    PROVE  \A n \in Nat : \E f : Steps(f, c, events, n)
<1> DEFINE T == {n \in Nat : ~ \E f : Steps(f, c, events, n)}
<1> SUFFICES ASSUME T # {} PROVE FALSE
  OBVIOUS
<1>1. PICK x \in T : \A y \in T : x <= y
  BY LeastElement
<1>2. x \in Nat /\ ~ \E f : Steps(f, c, events, x)
  BY <1>1
<1>3. CASE x = 0
  <2> DEFINE f == [i \in 0..0 |-> c]
  <2>1. f = [i \in 0..0 |-> IF i = 0 THEN c ELSE Apply(f[i - 1], events[i])]
    OBVIOUS
  <2> QED BY <1>2, <1>3, <2>1 DEF Steps
<1>4. CASE x # 0
  <2>1. x - 1 \in Nat /\ x - 1 \notin T
    BY <1>1, <1>2, <1>4
  <2>2. PICK f : Steps(f, c, events, x - 1)
    BY <2>1
  <2> DEFINE g == [i \in 0..x |-> IF i = x THEN Apply(f[x - 1], events[x]) ELSE f[i]]
  <2>3. ASSUME NEW i \in 0..x
        PROVE  g[i] = IF i = 0 THEN c ELSE Apply(g[i - 1], events[i])
    <3>1. CASE i = 0
      <4>1. g[i] = f[0] /\ 0 \in 0..x - 1
        BY <1>2, <1>4, <3>1
      <4> QED BY <2>2, <3>1, <4>1 DEF Steps
    <3>2. CASE i = x
      <4>1. g[i] = Apply(f[x - 1], events[x]) /\ g[i - 1] = f[x - 1]
        BY <1>2, <1>4, <3>2
      <4> QED BY <1>4, <3>2, <4>1
    <3>3. CASE i # 0 /\ i # x
      <4>1. i \in 0..x - 1 /\ i - 1 \in 0..x /\ i - 1 # x
        BY <1>2, <3>3
      <4>2. g[i] = f[i] /\ g[i - 1] = f[i - 1]
        BY <3>3, <4>1
      <4>3. f[i] = Apply(f[i - 1], events[i])
        BY <2>2, <3>3, <4>1 DEF Steps
      <4> QED BY <3>3, <4>2, <4>3
    <3> QED BY <3>1, <3>2, <3>3
  <2>4. DOMAIN g = 0..x
    OBVIOUS
  <2>5. g = [i \in 0..x |-> g[i]]
    BY <2>4
  <2> HIDE DEF g
  <2>6. g = [i \in 0..x |-> IF i = 0 THEN c ELSE Apply(g[i - 1], events[i])]
    BY <2>3, <2>5
  <2>7. Steps(g, c, events, x)
    BY <2>6 DEF Steps
  <2> QED BY <1>2, <2>7
<1> QED BY <1>3, <1>4

(* Follow is where any such computation ends.                              *)
LEMMA FollowIs ==
    ASSUME NEW c, NEW events, NEW n \in Nat, n = Len(events), NEW r,
           r[0] = c, \A i \in 1..n : r[i] = Apply(r[i - 1], events[i])
    PROVE  Follow(c, events) = r[n]
<1> DEFINE f == CHOOSE g : g = [i \in 0..n |-> IF i = 0 THEN c ELSE Apply(g[i - 1], events[i])]
           T == {i \in 0..n : f[i] # r[i]}
<1>1. Follow(c, events) = f[n]
  BY DEF Follow
<1>2. f = [i \in 0..n |-> IF i = 0 THEN c ELSE Apply(f[i - 1], events[i])]
  <2>1. PICK g : Steps(g, c, events, n)
    BY StepsExist
  <2>2. g = [i \in 0..n |-> IF i = 0 THEN c ELSE Apply(g[i - 1], events[i])]
    BY <2>1 DEF Steps
  <2> QED BY <2>2, Zenon
<1> HIDE DEF f
<1>3. ASSUME T # {} PROVE FALSE
  <2>1. PICK x \in T : \A y \in T : x <= y
    <3>1. T \subseteq Nat
      OBVIOUS
    <3> HIDE DEF T
    <3> QED BY <1>3, <3>1, LeastElement
  <2>2. x \in 0..n /\ f[x] # r[x]
    BY <2>1
  <2>3. x # 0
    BY <1>2, <2>2
  <2>4. x - 1 \in 0..n /\ x - 1 \notin T /\ x \in 1..n
    BY <2>1, <2>2, <2>3
  <2>5. f[x - 1] = r[x - 1]
    BY <2>4
  <2>6. f[x] = Apply(f[x - 1], events[x])
    BY <1>2, <2>2, <2>3
  <2> QED BY <2>2, <2>4, <2>5, <2>6
<1>4. n \in 0..n
  OBVIOUS
<1> QED BY <1>1, <1>3, <1>4

(* And there is one.                                                       *)
LEMMA FollowSteps ==
    ASSUME NEW c, NEW events, Len(events) \in Nat
    PROVE  \E r : /\ r[0] = c /\ r[Len(events)] = Follow(c, events)
                  /\ \A i \in 1..Len(events) : r[i] = Apply(r[i - 1], events[i])
<1> DEFINE n == Len(events)
<1>1. PICK r : Steps(r, c, events, n)
  BY StepsExist
<1>2. r[0] = c /\ \A i \in 1..n : r[i] = Apply(r[i - 1], events[i])
  BY <1>1 DEF Steps
<1>3. r[n] = Follow(c, events)
  BY <1>2, FollowIs
<1> QED BY <1>2, <1>3

(* A subscriber may stop anywhere and go on later.                         *)
LEMMA FollowConcat ==
    ASSUME NEW S, NEW s \in Seq(S), NEW t \in Seq(S), NEW c
    PROVE  Follow(c, s \o t) = Follow(Follow(c, s), t)
<1> DEFINE m == Len(s)
           n == Len(t)
<1>1. m \in Nat /\ n \in Nat
  OBVIOUS
<1>2. /\ Len(s \o t) = m + n
      /\ \A i \in 1..m : (s \o t)[i] = s[i]
      /\ \A i \in m + 1..m + n : (s \o t)[i] = t[i - m]
  <2>1. \A i \in 1..m + n : (s \o t)[i] = IF i <= m THEN s[i] ELSE t[i - m]
    BY ConcatProperties
  <2> QED BY <1>1, <2>1, ConcatProperties
<1>3. PICK f : /\ f[0] = c /\ f[m] = Follow(c, s)
               /\ \A i \in 1..m : f[i] = Apply(f[i - 1], s[i])
  BY <1>1, FollowSteps
<1>4. PICK g : /\ g[0] = f[m] /\ g[n] = Follow(f[m], t)
               /\ \A i \in 1..n : g[i] = Apply(g[i - 1], t[i])
  <2>1. ASSUME NEW d
        PROVE  \E g : /\ g[0] = d /\ g[n] = Follow(d, t)
                      /\ \A i \in 1..n : g[i] = Apply(g[i - 1], t[i])
    BY <1>1, FollowSteps
  <2> QED BY <2>1
<1> DEFINE st == s \o t
           r == [i \in 0..m + n |-> IF i <= m THEN f[i] ELSE g[i - m]]
<1> HIDE DEF m, n, st
<1>5. ASSUME NEW i \in 1..m + n PROVE r[i] = Apply(r[i - 1], st[i])
  <2>1. i \in Int /\ i - 1 \in 0..m + n /\ i \in 0..m + n
    BY <1>1
  <2>2. CASE i <= m
    <3>1. i \in 1..m /\ r[i] = f[i] /\ r[i - 1] = f[i - 1]
      BY <1>1, <2>1, <2>2
    <3>2. st[i] = s[i]
      BY <1>2, <3>1 DEF st
    <3> QED BY <1>3, <3>1, <3>2
  <2>3. CASE i > m
    <3>1. i - m \in 1..n /\ i \in m + 1..m + n /\ r[i] = g[i - m]
      BY <1>1, <2>1, <2>3
    <3>2. st[i] = t[i - m]
      BY <1>2, <3>1 DEF st
    <3>3. r[i - 1] = g[(i - m) - 1]
      <4>1. CASE i - 1 <= m
        <5>1. i - 1 = m /\ (i - m) - 1 = 0
          BY <1>1, <2>1, <2>3, <4>1
        <5>2. r[i - 1] = f[m]
          BY <2>1, <4>1, <5>1
        <5> QED BY <1>4, <5>1, <5>2
      <4>2. CASE ~(i - 1 <= m)
        <5>1. (i - 1) - m = (i - m) - 1
          BY <1>1, <2>1
        <5> QED BY <2>1, <4>2, <5>1
      <4> QED BY <4>1, <4>2
    <3>4. g[i - m] = Apply(g[(i - m) - 1], t[i - m])
      BY <1>4, <3>1
    <3> QED BY <3>1, <3>2, <3>3, <3>4
  <2> QED BY <1>1, <2>1, <2>2, <2>3
<1>6. r[0] = c /\ r[m + n] = Follow(f[m], t)
  <2>1. 0 \in 0..m + n /\ 0 <= m /\ m + n \in 0..m + n
    BY <1>1
  <2>2. r[0] = c
    BY <1>3, <2>1
  <2>3. CASE n = 0
    <3>1. m + n <= m /\ m + n = m
      BY <1>1, <2>3
    <3>2. r[m + n] = f[m]
      BY <2>1, <3>1
    <3>3. f[m] = Follow(f[m], t)
      BY <1>4, <2>3
    <3> QED BY <2>2, <3>2, <3>3
  <2>4. CASE n # 0
    <3>1. ~(m + n <= m) /\ (m + n) - m = n
      BY <1>1, <2>4
    <3>2. r[m + n] = g[n]
      BY <2>1, <3>1
    <3> QED BY <1>4, <2>2, <3>2
  <2> QED BY <2>2, <2>3, <2>4
<1>7. m + n \in Nat /\ m + n = Len(st)
  BY <1>1, <1>2 DEF st
<1> HIDE DEF r
<1>8. Follow(c, st) = r[m + n]
  BY <1>5, <1>6, <1>7, FollowIs
<1> QED BY <1>3, <1>6, <1>8 DEF st, m

(* No event, no change.                                                    *)
LEMMA FollowNothing ==
    ASSUME NEW c
    PROVE  Follow(c, <<>>) = c
<1> DEFINE r == [i \in 0..0 |-> c]
<1>1. r[0] = c
  OBVIOUS
<1>2. Len(<<>>) = 0 /\ 0 \in Nat /\ 1..0 = {}
  OBVIOUS
<1> HIDE DEF r
<1>3. \A i \in 1..0 : r[i] = Apply(r[i - 1], (<<>>)[i])
  BY <1>2
<1> QED BY <1>1, <1>2, <1>3, FollowIs

Event == [id : Block, revert : BOOLEAN]

LEMMA MoveParts ==
    ASSUME NEW c \in Seq(Block), NEW d \in Seq(Block), NEW k \in 0..Len(c), k <= Len(d)
    PROVE  LET down == [i \in 1..Len(c) - k |-> Reverted(c[Len(c) + 1 - i])]
               up   == [i \in 1..Len(d) - k |-> Added(d[k + i])]
           IN  /\ MoveEvents(c, d, k) = down \o up
               /\ down \in Seq(Event) /\ Len(down) = Len(c) - k
               /\ up \in Seq(Event) /\ Len(up) = Len(d) - k
               /\ MoveEvents(c, d, k) \in Seq(Event)
<1> DEFINE l == Len(c)
           z == Len(d)
           down == [i \in 1..l - k |-> Reverted(c[l + 1 - i])]
           up == [i \in 1..z - k |-> Added(d[k + i])]
<1>1. l \in Nat /\ z \in Nat /\ k \in Nat /\ l - k \in Nat /\ z - k \in Nat
  OBVIOUS
<1>2. down \in Seq(Event) /\ Len(down) = l - k
  <2>1. ASSUME NEW i \in 1..l - k PROVE Reverted(c[l + 1 - i]) \in Event
    <3>1. l + 1 - i \in 1..l
      BY <1>1
    <3>2. c[l + 1 - i] \in Block
      BY <3>1
    <3> QED BY <3>2 DEF Reverted, Event
  <2> HIDE DEF l
  <2> QED BY <1>1, <2>1
<1>3. up \in Seq(Event) /\ Len(up) = z - k
  <2>1. ASSUME NEW i \in 1..z - k PROVE Added(d[k + i]) \in Event
    <3>1. k + i \in 1..z
      BY <1>1
    <3>2. d[k + i] \in Block
      BY <3>1
    <3> QED BY <3>2 DEF Added, Event
  <2> HIDE DEF z
  <2> QED BY <1>1, <2>1
<1>4. MoveEvents(c, d, k) = down \o up
  BY DEF MoveEvents
<1> HIDE DEF down, up
<1>5. down \o up \in Seq(Event)
  BY <1>2, <1>3, ConcatProperties
<1> QED BY <1>2, <1>3, <1>4, <1>5 DEF down, up

(* The events of a move from c to d bring a subscriber from c to d.        *)
LEMMA FollowMove ==
    ASSUME NEW c \in Seq(Block), NEW d \in Seq(Block),
           NEW k \in 0..Len(c), k <= Len(d), ForkPoint(c, d, k)
    PROVE  Follow(c, MoveEvents(c, d, k)) = d
<1> DEFINE l == Len(c)
           z == Len(d)
           down == [i \in 1..l - k |-> Reverted(c[l + 1 - i])]
           up == [i \in 1..z - k |-> Added(d[k + i])]
<1>1. l \in Nat /\ z \in Nat /\ k \in Nat /\ k <= l /\ k <= z
  OBVIOUS
<1>2. /\ MoveEvents(c, d, k) = down \o up
      /\ down \in Seq(Event) /\ Len(down) = l - k
      /\ up \in Seq(Event) /\ Len(up) = z - k
  BY MoveParts
<1>3. Follow(c, down) = SubSeq(c, 1, k)
  <2> DEFINE r == [i \in 0..l - k |-> SubSeq(c, 1, l - i)]
  <2>1. ASSUME NEW i \in 1..l - k PROVE r[i] = Apply(r[i - 1], down[i])
    <3> DEFINE b == SubSeq(c, 1, l - (i - 1))
    <3>1. i - 1 \in 0..l - k /\ i \in 0..l - k /\ l - (i - 1) \in 1..l /\ l - i \in 0..l
      BY <1>1
    <3>2. r[i - 1] = b /\ r[i] = SubSeq(c, 1, l - i)
      BY <3>1
    <3>3. down[i] = Reverted(c[l + 1 - i])
      OBVIOUS
    <3>4. Apply(b, down[i]) = SubSeq(b, 1, Len(b) - 1)
      BY <3>3 DEF Apply, Reverted
    <3>5. b \in Seq(Block) /\ Len(b) = l - (i - 1)
      BY <3>1
    <3>6. SubSeq(b, 1, Len(b) - 1) = SubSeq(c, 1, l - i)
      <4>1. Len(b) - 1 = l - i
        BY <1>1, <3>1, <3>5
      <4>2. ASSUME NEW n \in 1..l - i PROVE b[n] = c[n]
        BY <1>1, <3>1
      <4> QED BY <3>1, <3>5, <4>1, <4>2
    <3> QED BY <3>2, <3>4, <3>6
  <2>2. r[0] = c /\ r[l - k] = SubSeq(c, 1, k)
    <3>1. 0 \in 0..l - k /\ l - k \in 0..l - k /\ l - (l - k) = k /\ l - 0 = l
      BY <1>1
    <3>2. SubSeq(c, 1, l) = c
      OBVIOUS
    <3> QED BY <3>1, <3>2
  <2>3. l - k \in Nat /\ l - k = Len(down)
    BY <1>1, <1>2
  <2> HIDE DEF r, down, l
  <2>4. Follow(r[0], down) = r[l - k]
    BY <2>1, <2>3, FollowIs
  <2> QED BY <2>2, <2>4
<1>4. Follow(SubSeq(d, 1, k), up) = d
  <2> DEFINE r == [i \in 0..z - k |-> SubSeq(d, 1, k + i)]
  <2>1. ASSUME NEW i \in 1..z - k PROVE r[i] = Apply(r[i - 1], up[i])
    <3> DEFINE b == SubSeq(d, 1, k + (i - 1))
    <3>1. i - 1 \in 0..z - k /\ i \in 0..z - k /\ k + (i - 1) \in 0..z /\ k + i \in 1..z
      BY <1>1
    <3>2. r[i - 1] = b /\ r[i] = SubSeq(d, 1, k + i)
      BY <3>1
    <3>3. up[i] = Added(d[k + i])
      OBVIOUS
    <3>4. Apply(b, up[i]) = Append(b, d[k + i])
      BY <3>3 DEF Apply, Added
    <3>5. b \in Seq(Block) /\ Len(b) = k + (i - 1) /\ d[k + i] \in Block
      BY <3>1
    <3>6. Append(b, d[k + i]) = SubSeq(d, 1, k + i)
      <4>1. Len(b) + 1 = k + i
        BY <1>1, <3>1, <3>5
      <4>2. ASSUME NEW n \in 1..k + (i - 1) PROVE b[n] = d[n]
        BY <1>1, <3>1
      <4> QED BY <3>1, <3>5, <4>1, <4>2
    <3> QED BY <3>2, <3>4, <3>6
  <2>2. r[0] = SubSeq(d, 1, k) /\ r[z - k] = d
    <3>1. 0 \in 0..z - k /\ z - k \in 0..z - k /\ k + (z - k) = z /\ k + 0 = k
      BY <1>1
    <3>2. SubSeq(d, 1, z) = d
      OBVIOUS
    <3> QED BY <3>1, <3>2
  <2>3. z - k \in Nat /\ z - k = Len(up)
    BY <1>1, <1>2
  <2> HIDE DEF r, up, z
  <2>4. Follow(r[0], up) = r[z - k]
    BY <2>1, <2>3, FollowIs
  <2> QED BY <2>2, <2>4
<1>5. SubSeq(c, 1, k) = SubSeq(d, 1, k)
  BY DEF ForkPoint
<1> HIDE DEF down, up
<1>6. Follow(c, down \o up) = Follow(Follow(c, down), up)
  BY <1>2, FollowConcat
<1> QED BY <1>2, <1>3, <1>4, <1>5, <1>6

(* The log of a move, after one that leads to c, leads to d.               *)
LEMMA MoveReplays ==
    ASSUME NEW c \in Seq(Block), NEW d \in Seq(Block), NEW k \in 0..Len(c),
           k <= Len(d), ForkPoint(c, d, k),
           NEW log \in Seq(Event), Replay(log) = c
    PROVE  Replay(log \o MoveEvents(c, d, k)) = d
<1>1. MoveEvents(c, d, k) \in Seq(Event)
  BY MoveParts
<1>2. Follow(<<>>, log \o MoveEvents(c, d, k)) = Follow(c, MoveEvents(c, d, k))
  BY <1>1, FollowConcat DEF Replay
<1> QED BY <1>2, FollowMove DEF Replay
=============================================================================
