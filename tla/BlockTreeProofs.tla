--------------------------- MODULE BlockTreeProofs ---------------------------
(***************************************************************************)
(* Facts about numbers, sequences and chains of blocks that the proofs     *)
(* about the components share.                                             *)
(***************************************************************************)
EXTENDS BlockTree, SequenceTheorems, FiniteSetTheorems, WellFoundedInduction, TLAPS

(* Every nonempty set of naturals has a least element.  An induction over  *)
(* the naturals is a proof about the least counterexample.                 *)
LEMMA LeastElement ==
    ASSUME NEW T, T \subseteq Nat, T # {}
    PROVE  \E x \in T : \A y \in T : x <= y
<1>1. IsWellFoundedOn(OpToRel(<, Nat), Nat)
  BY NatLessThanWellFounded
<1>2. PICK x \in T : \A y \in T : ~(<<y, x>> \in OpToRel(<, Nat))
  BY <1>1, WFMin
<1>3. \A y \in Nat : y < x => <<y, x>> \in OpToRel(<, Nat)
  <2> SUFFICES ASSUME NEW y \in Nat, y < x
               PROVE  <<y, x>> \in {ss \in Nat \X Nat : ss[1] < ss[2]}
    BY DEF OpToRel
  <2> QED OBVIOUS
<1>4. \A y \in T : ~(y < x)
  BY <1>2, <1>3
<1>5. x \in Nat /\ \A y \in T : y \in Nat /\ x <= y
  BY <1>4
<1> QED BY <1>5

(* A sequence without repetition has as many elements as it is long.       *)
LEMMA CardinalityOfPrefix ==
    ASSUME NEW S, NEW s \in Seq(S), NEW n \in 0..Len(s),
           \A i, j \in 1..Len(s) : s[i] = s[j] => i = j
    PROVE  Cardinality({s[i] : i \in 1..n}) = n
<1> DEFINE T == {s[i] : i \in 1..n}
           f == [i \in 1..n |-> s[i]]
<1>1. n \in Nat /\ \A i \in 1..n : i \in 1..Len(s)
  OBVIOUS
<1>2. f \in Bijection(1..n, T)
  BY <1>1 DEF Bijection, Injection, Surjection, IsInjective
<1>3. ExistsBijection(1..n, T)
  BY <1>2 DEF ExistsBijection
<1> HIDE DEF T
<1>4. Cardinality(T) = n
  BY <1>1, <1>3, FS_CountingElements
<1> QED BY <1>4 DEF T

(* For sequences over any set, as one fact about all of them.              *)
LEMMA ConcatIsAssociative ==
    ASSUME NEW E
    PROVE  \A s, t, u \in Seq(E) : (s \o t) \o u = s \o (t \o u)
<1> TAKE s, t, u \in Seq(E)
<1> QED BY ConcatAssociative

(* Four batches on top of c; the first of them may be counted to c.        *)
Stacked(c, w, f, u, b) == c \o (w \o f \o u \o b)

(* Counting the first batch to c changes nothing.                          *)
LEMMA StackedOnFirst ==
    \A c, w, f, u, b \in Seq(Block) :
        /\ Stacked(c, w, f, u, b) = Stacked(c \o w, <<>>, f, u, b)
        /\ Stacked(c, w, f, u, b) = (c \o w) \o ((f \o u) \o b)
<1>0. \A s, t, v \in Seq(Block) : (s \o t) \o v = s \o (t \o v)
  <2> TAKE s, t, v \in Seq(Block)
  <2> QED BY ConcatAssociative
<1> TAKE c, w, f, u, b \in Seq(Block)
<1> DEFINE S == Seq(Block)
           cat(x, y) == x \o y
<1>1. \A x, y \in S : cat(x, y) \in S
  BY ConcatProperties
<1>2. \A x, y, z \in S : cat(cat(x, y), z) = cat(x, cat(y, z))
  BY <1>0
<1>3. c \in S /\ w \in S /\ f \in S /\ u \in S /\ b \in S /\ cat(<<>>, f) = f
  BY ConcatEmptySeq
<1> SUFFICES
      /\ cat(c, cat(cat(cat(w, f), u), b)) = cat(cat(c, w), cat(cat(cat(<<>>, f), u), b))
      /\ cat(c, cat(cat(cat(w, f), u), b)) = cat(cat(c, w), cat(cat(f, u), b))
  BY DEF Stacked
<1> HIDE DEF cat, S
<1>4. cat(c, cat(cat(cat(w, f), u), b)) = cat(cat(c, w), cat(cat(f, u), b))
  BY <1>1, <1>2, <1>3
<1> QED BY <1>3, <1>4
-----------------------------------------------------------------------------
(* Putting a block on a chain at a height the chain has reached, on the    *)
(* block it points to, gives a chain again.                                *)
LEMMA ChainInsertIsChain ==
    ASSUME NEW c, IsChain(c), NEW h \in 0..Len(c), NEW b \in Block,
           Height[b] = h, h > 0 => Parent[b] = c[h]
    PROVE  /\ IsChain(ChainInsert(c, h, b))
           /\ Len(ChainInsert(c, h, b)) = h + 1
           /\ \A i \in 1..h : ChainInsert(c, h, b)[i] = c[i]
           /\ ChainInsert(c, h, b)[h + 1] = b
<1> DEFINE p == SubSeq(c, 1, h)
           r == Append(p, b)
<1>1. c \in Seq(Block) /\ h \in Nat /\ h <= Len(c)
  BY DEF IsChain
<1>2. p \in Seq(Block) /\ Len(p) = h /\ \A i \in 1..h : p[i] = c[i]
  BY <1>1
<1>3. /\ r \in Seq(Block)
      /\ Len(r) = h + 1
      /\ \A i \in 1..h : r[i] = c[i]
      /\ r[h + 1] = b
  BY <1>1, <1>2
<1> HIDE DEF p, r
<1>4. \A i \in 1..Len(r) : Height[r[i]] = i - 1
  <2> SUFFICES ASSUME NEW i \in 1..Len(r) PROVE Height[r[i]] = i - 1
    OBVIOUS
  <2>1. CASE i = h + 1
    BY <1>1, <1>3, <2>1
  <2>2. CASE i # h + 1
    BY <1>1, <1>3, <2>2 DEF IsChain
  <2> QED BY <2>1, <2>2
<1>5. \A i \in 2..Len(r) : Parent[r[i]] = r[i - 1]
  <2> SUFFICES ASSUME NEW i \in 2..Len(r) PROVE Parent[r[i]] = r[i - 1]
    OBVIOUS
  <2>1. i \in Int /\ 2 <= i /\ i <= h + 1 /\ r[i - 1] = c[i - 1]
    BY <1>1, <1>3
  <2>2. CASE i = h + 1
    <3>1. h > 0 /\ r[i] = b /\ i - 1 = h
      BY <1>1, <1>3, <2>1, <2>2
    <3> QED BY <2>1, <3>1
  <2>3. CASE i # h + 1
    <3>1. i \in 2..Len(c) /\ r[i] = c[i]
      BY <1>1, <1>3, <2>1, <2>3
    <3>2. Parent[c[i]] = c[i - 1]
      BY <3>1 DEF IsChain
    <3> QED BY <2>1, <3>1, <3>2
  <2> QED BY <2>2, <2>3
<1>6. ChainInsert(c, h, b) = r
  BY DEF ChainInsert, r, p
<1> QED BY <1>3, <1>4, <1>5, <1>6 DEF IsChain

(* A prefix of a chain is a chain.                                         *)
LEMMA PrefixIsChain ==
    ASSUME NEW c, IsChain(c), NEW n \in 0..Len(c)
    PROVE  IsChain(SubSeq(c, 1, n)) /\ Len(SubSeq(c, 1, n)) = n
<1> DEFINE p == SubSeq(c, 1, n)
<1>1. c \in Seq(Block) /\ n \in Nat /\ n <= Len(c)
  BY DEF IsChain
<1>2. p \in Seq(Block) /\ Len(p) = n /\ \A i \in 1..n : p[i] = c[i]
  BY <1>1
<1> HIDE DEF p
<1>3. \A i \in 1..n : i \in 1..Len(c)
  BY <1>1
<1>4. \A i \in 2..n : i \in 2..Len(c) /\ i - 1 \in 1..n
  BY <1>1
<1>5. /\ \A i \in 1..n : Height[c[i]] = i - 1
      /\ \A i \in 2..n : Parent[c[i]] = c[i - 1]
  BY <1>3, <1>4 DEF IsChain
<1>6. \A i \in 2..n : p[i] = c[i] /\ p[i - 1] = c[i - 1]
  BY <1>1, <1>2, <1>4
<1>7. IsChain(p)
  BY <1>2, <1>5, <1>6 DEF IsChain
<1> QED BY <1>2, <1>7 DEF p

(* A chain the node reports is a nonempty chain of blocks.                 *)
LEMMA ChainsAreChains ==
    ASSUME NEW c \in Chains
    PROVE  /\ IsChain(c)
           /\ c \in Seq(Block)
           /\ Len(c) \in Nat \ {0}
           /\ \A h \in 0..Len(c) - 1 : c[h + 1] \in Block /\ Height[c[h + 1]] = h
<1>1. IsChain(c) /\ c # <<>> /\ c \in Seq(Block)
  BY BlockTreeAssumption DEF IsChain
<1> QED BY <1>1 DEF IsChain

(* The blocks of a chain are distinct.                                     *)
LEMMA ChainIsInjective ==
    ASSUME NEW c, IsChain(c)
    PROVE  \A i, j \in 1..Len(c) : c[i] = c[j] => i = j
  BY DEF IsChain

(* A chain with blocks on top that are linked to it is a chain.            *)
LEMMA ConcatPrefixIsChain ==
    ASSUME NEW c \in Seq(Block), NEW d \in Seq(Block), IsChain(c \o d)
    PROVE  /\ IsChain(c)
           /\ \A i \in 1..Len(d) : Height[d[i]] = Len(c) + i - 1
<1>1. /\ Len(c) \in Nat /\ Len(d) \in Nat /\ Len(c \o d) = Len(c) + Len(d)
      /\ \A i \in 1..Len(c) + Len(d) :
            (c \o d)[i] = IF i <= Len(c) THEN c[i] ELSE d[i - Len(c)]
  BY ConcatProperties
<1>2. \A i \in 1..Len(c) : (c \o d)[i] = c[i] /\ i \in 1..Len(c \o d)
  BY <1>1
<1>3. \A i \in 1..Len(d) : /\ Len(c) + i \in 1..Len(c \o d)
                           /\ (c \o d)[Len(c) + i] = d[i]
  BY <1>1
<1>4. \A i \in 1..Len(c) : Height[c[i]] = i - 1
  BY <1>2 DEF IsChain
<1>5. \A i \in 2..Len(c) : Parent[c[i]] = c[i - 1]
  <2> SUFFICES ASSUME NEW i \in 2..Len(c) PROVE Parent[c[i]] = c[i - 1]
    OBVIOUS
  <2>1. i \in 2..Len(c \o d) /\ i \in 1..Len(c) /\ i - 1 \in 1..Len(c)
    BY <1>1
  <2>2. Parent[(c \o d)[i]] = (c \o d)[i - 1]
    BY <2>1 DEF IsChain
  <2> QED BY <1>2, <2>1, <2>2
<1>6. \A i \in 1..Len(d) : Height[d[i]] = Len(c) + i - 1
  <2> SUFFICES ASSUME NEW i \in 1..Len(d) PROVE Height[d[i]] = Len(c) + i - 1
    OBVIOUS
  <2>1. Height[(c \o d)[Len(c) + i]] = (Len(c) + i) - 1
    BY <1>3 DEF IsChain
  <2> QED BY <1>1, <1>3, <2>1
<1> QED BY <1>4, <1>5, <1>6 DEF IsChain

(* Chains that have the same block at some height are the same below it.   *)
LEMMA SameBelow ==
    ASSUME NEW c, IsChain(c), NEW d, IsChain(d), NEW i \in 1..Len(c), i \in 1..Len(d),
           c[i] = d[i]
    PROVE  \A j \in 1..i : c[j] = d[j]
<1> DEFINE T == {n \in Nat : n < i /\ c[i - n] # d[i - n]}
<1>1. i \in Nat \ {0} /\ Len(c) \in Nat /\ Len(d) \in Nat
  BY DEF IsChain
<1> SUFFICES T = {}
  <2>1. ASSUME NEW j \in 1..i, T = {} PROVE c[j] = d[j]
    <3>1. i - j \in Nat /\ i - j < i /\ i - (i - j) = j
      BY <1>1
    <3> QED BY <2>1, <3>1
  <2> QED BY <2>1
<1> SUFFICES ASSUME T # {} PROVE FALSE
  OBVIOUS
<1>2. T \subseteq Nat
  OBVIOUS
<1>3. PICK n \in T : \A k \in T : n <= k
  BY <1>2, LeastElement
<1>4. n \in Nat /\ n < i /\ c[i - n] # d[i - n] /\ n # 0
  BY <1>1, <1>3
<1>5. n - 1 \notin T /\ n - 1 \in Nat /\ n - 1 < i
  <2> HIDE DEF T
  <2>1. n - 1 \in T => n <= n - 1
    BY <1>3
  <2>2. ~(n <= n - 1) /\ n - 1 \in Nat /\ n - 1 < i
    BY <1>1, <1>4
  <2> QED BY <2>1, <2>2
<1>6. c[i - (n - 1)] = d[i - (n - 1)]
  BY <1>5
<1> DEFINE m == i - (n - 1)
<1>7. m \in 2..Len(c) /\ m \in 2..Len(d) /\ m - 1 = i - n
  BY <1>1, <1>4
<1> HIDE DEF m, T
<1>8. c[m] = d[m]
  BY <1>6 DEF m
<1>9. c[m - 1] = d[m - 1]
  BY <1>7, <1>8 DEF IsChain
<1> QED BY <1>4, <1>7, <1>9
=============================================================================
