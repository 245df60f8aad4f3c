-------------------------- MODULE RequestGoodsProofs --------------------------
(***************************************************************************)
(* Theorems about RequestGoods, for any goods, quantities, batches,        *)
(* handlers and numbers of dispatches.                                     *)
(*                                                                         *)
(* GoodsInv is inductive: nothing of a good is lost when a line is split,  *)
(* each dispatch of a batch carries what was bought in that batch, and     *)
(* what a sync has read of the request is still so when it writes.         *)
(***************************************************************************)
EXTENDS RequestGoods, SumLemmas, SequenceTheorems, TLAPS

-----------------------------------------------------------------------------
(* A sequence of short sequences, flattened *)

\* F[k] is the first k of ss, one after the other.
Unfolds(ss, n, F) ==
  F = [i \in 1 .. n |-> IF i = 1 THEN ss[i] ELSE F[i - 1] \o ss[i]]

LEMMA UnfoldsAt ==
  ASSUME NEW ss, NEW n, NEW F, Unfolds(ss, n, F), NEW i \in 1 .. n
  PROVE  F[i] = IF i = 1 THEN ss[i] ELSE F[i - 1] \o ss[i]
<1> DEFINE G == [j \in 1 .. n |-> IF j = 1 THEN ss[j] ELSE F[j - 1] \o ss[j]]
<1>1. F = G  BY DEF Unfolds
<1>2. G[i] = IF i = 1 THEN ss[i] ELSE F[i - 1] \o ss[i]  OBVIOUS
<1> QED
  BY <1>1, <1>2

LEMMA UnfoldsExists ==
  ASSUME NEW ss, NEW n \in Nat
  PROVE  \E F : Unfolds(ss, n, F)
<1> DEFINE T == {k \in 0 .. n : \E F : Unfolds(ss, k, F)}
<1>1. 0 \in T
  <2>1. Unfolds(ss, 0, [i \in 1 .. 0 |-> ss[i]])
    BY DEF Unfolds
  <2> QED
    BY <2>1
<1>2. ASSUME NEW k \in 0 .. n, k \in T, k < n  PROVE k + 1 \in T
  <2>1. PICK F : Unfolds(ss, k, F)
    BY <1>2
  <2> DEFINE G == [i \in 1 .. (k + 1) |->
                     IF i = k + 1 THEN IF i = 1 THEN ss[i] ELSE F[i - 1] \o ss[i] ELSE F[i]]
             H == [i \in 1 .. (k + 1) |-> IF i = 1 THEN ss[i] ELSE G[i - 1] \o ss[i]]
  <2>2. ASSUME NEW i \in 1 .. (k + 1)  PROVE G[i] = H[i]
    <3>1. CASE i = k + 1
      <4>1. i # 1 => i - 1 \in 1 .. (k + 1) /\ i - 1 # k + 1
        BY <3>1
      <4>2. i # 1 => G[i - 1] = F[i - 1]
        BY <4>1
      <4> QED
        BY <3>1, <4>2
    <3>2. CASE i # k + 1
      <4>1. i \in 1 .. k /\ (i # 1 => i - 1 \in 1 .. (k + 1) /\ i - 1 # k + 1)
        BY <1>2, <3>2
      <4>2. F[i] = IF i = 1 THEN ss[i] ELSE F[i - 1] \o ss[i]
        BY <2>1, <4>1, UnfoldsAt
      <4>3. G[i] = F[i] /\ (i # 1 => G[i - 1] = F[i - 1])
        BY <3>2, <4>1
      <4> QED
        BY <4>2, <4>3
    <3> QED
      BY <3>1, <3>2
  <2>3. G = H
    BY <2>2
  <2>4. Unfolds(ss, k + 1, G)
    BY <2>3 DEF Unfolds
  <2> HIDE DEF G
  <2> QED
    BY <1>2, <2>4
<1>3. T = 0 .. n
  <2>1. T \in SUBSET (0 .. n)
    OBVIOUS
  <2> HIDE DEF T
  <2> QED
    BY <1>1, <1>2, <2>1, UpTo
<1> QED
  BY <1>3

LEMMA FlattenIsUnfolded ==
  ASSUME NEW ss, Len(ss) \in Nat \ {0}
  PROVE  FlattenSeq(ss) = (CHOOSE F : Unfolds(ss, Len(ss), F))[Len(ss)]
BY DEF FlattenSeq, Unfolds

\* Sequences of one or two members of E.
Short(E) == {<<x>> : x \in E} \cup {<<x, y>> : x, y \in E}

LEMMA ShortIsSeq ==
  ASSUME NEW E, NEW t \in Short(E)  PROVE t \in Seq(E)
<1>1. ASSUME NEW x \in E, t = <<x>>  PROVE t \in Seq(E)
  BY <1>1
<1>2. ASSUME NEW x \in E, NEW y \in E, t = <<x, y>>  PROVE t \in Seq(E)
  BY <1>2
<1> QED
  BY <1>1, <1>2 DEF Short

LEMMA ShortAdded ==
  ASSUME NEW E, NEW w \in [E -> Int], NEW s \in Seq(E), NEW t \in Short(E)
  PROVE  /\ s \o t \in Seq(E)
         /\ SeqSum(w, s \o t) = SeqSum(w, s) + SeqSum(w, t)
         /\ SeqSum(w, t) \in Int
         /\ Range(s \o t) = Range(s) \cup Range(t)
<1>1. << >> \in Seq(E)
  OBVIOUS
<1>2. ASSUME NEW x \in E
      PROVE  /\ SeqSum(w, <<x>>) = w[x] /\ w[x] \in Int
             /\ \A r \in Seq(E) : /\ Append(r, x) \in Seq(E)
                                  /\ SeqSum(w, Append(r, x)) = SeqSum(w, r) + w[x]
                                  /\ SeqSum(w, r) \in Int
                                  /\ Range(Append(r, x)) = Range(r) \cup {x}
  <2>1. Append(<< >>, x) = <<x>> /\ w[x] \in Int
    OBVIOUS
  <2>2. SeqSum(w, <<x>>) = SeqSum(w, << >>) + w[x]
    BY <1>1, <2>1, SeqSumAppend
  <2>3. ASSUME NEW r \in Seq(E)
        PROVE  Append(r, x) \in Seq(E) /\ Range(Append(r, x)) = Range(r) \cup {x}
    <3> DEFINE a == Append(r, x)
    <3>1. /\ a \in Seq(E) /\ DOMAIN a = 1 .. (Len(r) + 1) /\ DOMAIN r = 1 .. Len(r) /\ Len(r) \in Nat
          /\ \A i \in 1 .. Len(r) : a[i] = r[i]
          /\ a[Len(r) + 1] = x
      OBVIOUS
    <3> HIDE DEF a
    <3>2. DOMAIN a = DOMAIN r \cup {Len(r) + 1}
      BY <3>1
    <3>3. Range(a) = {a[i] : i \in DOMAIN a} /\ Range(r) = {r[i] : i \in DOMAIN r}
      BY DEF Range
    <3>4. ASSUME NEW y  PROVE y \in Range(a) <=> y \in Range(r) \/ y = x
      BY <3>1, <3>2, <3>3
    <3>5. Range(a) = Range(r) \cup {x}
      BY <3>4
    <3> QED
      BY <3>1, <3>5 DEF a
  <2> QED
    BY <2>1, <2>2, <2>3, SeqSumAppend, SeqSumOfNone
<1>3. CASE \E x \in E : t = <<x>>
  <2>1. PICK x \in E : t = <<x>>
    BY <1>3
  <2>2. s \o t = Append(s, x) /\ Range(t) = {x}
    BY <2>1 DEF Range
  <2>3. /\ SeqSum(w, <<x>>) = w[x] /\ w[x] \in Int
        /\ Append(s, x) \in Seq(E)
        /\ SeqSum(w, Append(s, x)) = SeqSum(w, s) + w[x]
        /\ Range(Append(s, x)) = Range(s) \cup {x}
    BY <1>2
  <2> QED
    BY <2>1, <2>2, <2>3
<1>4. CASE \E x, y \in E : t = <<x, y>>
  <2>1. PICK x \in E, y \in E : t = <<x, y>>
    BY <1>4
  <2>2. s \o t = Append(Append(s, x), y) /\ t = Append(<<x>>, y) /\ <<x>> \in Seq(E)
        /\ Range(<<x>>) = {x}
    BY <2>1 DEF Range
  <2> DEFINE r == Append(s, x)
  <2>3. /\ SeqSum(w, <<x>>) = w[x] /\ w[x] \in Int /\ r \in Seq(E)
        /\ SeqSum(w, r) = SeqSum(w, s) + w[x] /\ SeqSum(w, s) \in Int
        /\ Range(r) = Range(s) \cup {x}
    BY <1>2
  <2>4. \A q \in Seq(E) : /\ Append(q, y) \in Seq(E)
                          /\ SeqSum(w, Append(q, y)) = SeqSum(w, q) + w[y]
                          /\ Range(Append(q, y)) = Range(q) \cup {y}
    BY <1>2
  <2>5. w[y] \in Int
    OBVIOUS
  <2>6. s \o t = Append(r, y)
    BY <2>2
  <2> HIDE DEF r
  <2>7. /\ s \o t \in Seq(E)
        /\ SeqSum(w, s \o t) = SeqSum(w, r) + w[y]
        /\ Range(s \o t) = Range(r) \cup {y}
    BY <2>3, <2>4, <2>6
  <2>8. SeqSum(w, t) = w[x] + w[y] /\ Range(t) = {x} \cup {y}
    BY <2>2, <2>3, <2>4
  <2>9. Range(s \o t) = Range(s) \cup Range(t)
    BY <2>3, <2>7, <2>8
  <2> QED
    BY <2>3, <2>5, <2>7, <2>8, <2>9
<1> QED
  BY <1>3, <1>4 DEF Short

LEMMA FlattenShort ==
  ASSUME NEW E, NEW w \in [E -> Int], NEW n \in Nat, NEW ss \in [1 .. n -> Short(E)],
         NEW v, \A i \in 1 .. n : v[i] = SeqSum(w, ss[i])
  PROVE  /\ FlattenSeq(ss) \in Seq(E)
         /\ SeqSum(w, FlattenSeq(ss)) = SumFunctionOnSet(v, 1 .. n)
         /\ \A x : x \in Range(FlattenSeq(ss)) <=> \E i \in 1 .. n : x \in Range(ss[i])
<1> DEFINE F == CHOOSE F : Unfolds(ss, n, F)
           Begun(k) == IF k = 0 THEN << >> ELSE F[k]
           Good(k) == /\ Begun(k) \in Seq(E)
                      /\ SeqSum(w, Begun(k)) = SumFunctionOnSet(v, 1 .. k)
                      /\ \A x : x \in Range(Begun(k)) <=> \E i \in 1 .. k : x \in Range(ss[i])
           T == {k \in 0 .. n : Good(k)}
<1>1. ss = [i \in 1 .. n |-> ss[i]] /\ Len(ss) = n
  OBVIOUS
<1>2. Unfolds(ss, n, F)
  BY UnfoldsExists
<1> HIDE DEF F
<1>3. FlattenSeq(ss) = Begun(n)
  <2>1. CASE n = 0
    BY <1>1, <2>1 DEF FlattenSeq
  <2>2. CASE n # 0
    BY <1>1, <2>2, FlattenIsUnfolded DEF F
  <2> QED
    BY <2>1, <2>2
<1>4. ASSUME NEW k \in 0 .. n, k < n
      PROVE  Begun(k) \in Seq(E) => Begun(k + 1) = Begun(k) \o ss[k + 1]
  <2>1. k + 1 \in 1 .. n
    BY <1>4
  <2>2. F[k + 1] = IF k + 1 = 1 THEN ss[k + 1] ELSE F[k + 1 - 1] \o ss[k + 1]
    BY <1>2, <2>1, UnfoldsAt
  <2>3. ss[k + 1] \in Short(E)
    BY <2>1
  <2>4. CASE k = 0
    <3>1. ss[k + 1] \in Seq(E)
      BY <2>3, ShortIsSeq
    <3>2. << >> \o ss[k + 1] = ss[k + 1]
      BY <3>1
    <3> QED
      BY <2>2, <2>4, <3>2
  <2>5. CASE k # 0
    <3>1. k + 1 - 1 = k /\ k + 1 # 1 /\ k + 1 # 0
      BY <2>5
    <3> QED
      BY <2>2, <2>5, <3>1
  <2> QED
    BY <2>4, <2>5
<1>5. \A i \in 1 .. n : v[i] = SeqSum(w, ss[i]) /\ v[i] \in Int
  <2>1. \A t \in Short(E) : SeqSum(w, t) \in Int
    <3>1. << >> \in Seq(E)
      OBVIOUS
    <3> QED
      BY <3>1, ShortAdded
  <2> QED
    BY <2>1
<1>6. 0 \in T
  <2>1. Begun(0) = << >> /\ << >> \in Seq(E) /\ 1 .. 0 = {} /\ Range(<< >>) = {} /\ 0 \in 0 .. n
    BY DEF Range
  <2> HIDE DEF Begun
  <2>2. SeqSum(w, << >>) = 0 /\ SumFunctionOnSet(v, {}) = 0
    BY SeqSumOfNone, SumOfNone
  <2> QED
    BY <2>1, <2>2
<1>7. ASSUME NEW k \in 0 .. n, k \in T, k < n  PROVE k + 1 \in T
  <2> HIDE DEF Begun
  <2>1. k + 1 \in 0 .. n /\ k + 1 \in 1 .. n /\ k \in Nat
    BY <1>7
  <2>2. Begun(k) \in Seq(E) /\ ss[k + 1] \in Short(E)
    BY <1>7, <2>1
  <2>3. Begun(k + 1) = Begun(k) \o ss[k + 1]
    BY <1>4, <1>7, <2>2
  <2>4. /\ Begun(k + 1) \in Seq(E)
        /\ SeqSum(w, Begun(k + 1)) = SeqSum(w, Begun(k)) + SeqSum(w, ss[k + 1])
        /\ Range(Begun(k + 1)) = Range(Begun(k)) \cup Range(ss[k + 1])
    <3>1. PICK s \in Seq(E), t \in Short(E) : s = Begun(k) /\ t = ss[k + 1]
      BY <2>2
    <3>2. /\ s \o t \in Seq(E)
          /\ SeqSum(w, s \o t) = SeqSum(w, s) + SeqSum(w, t)
          /\ Range(s \o t) = Range(s) \cup Range(t)
      BY ShortAdded
    <3> QED
      BY <2>3, <3>1, <3>2
  <2>5. SumFunctionOnSet(v, 1 .. (k + 1)) = SumFunctionOnSet(v, 1 .. k) + v[k + 1]
    <3>1. \A i \in 1 .. (k + 1) : v[i] \in Int
      BY <1>5, <2>1
    <3> QED
      BY <2>1, <3>1, SumNext
  <2>6. SeqSum(w, Begun(k + 1)) = SumFunctionOnSet(v, 1 .. (k + 1))
    BY <1>5, <1>7, <2>1, <2>4, <2>5
  <2>7. ASSUME NEW x
        PROVE  x \in Range(Begun(k + 1)) <=> \E i \in 1 .. (k + 1) : x \in Range(ss[i])
    <3>1. x \in Range(Begun(k)) <=> \E i \in 1 .. k : x \in Range(ss[i])
      BY <1>7
    <3>2. 1 .. (k + 1) = (1 .. k) \cup {k + 1}
      BY <2>1
    <3> QED
      BY <2>4, <3>1, <3>2
  <2> QED
    BY <2>1, <2>4, <2>6, <2>7
<1>8. T = 0 .. n
  <2>1. T \in SUBSET (0 .. n)
    OBVIOUS
  <2> HIDE DEF T
  <2> QED
    BY <1>6, <1>7, <2>1, UpTo
<1>9. Good(n)
  <2> HIDE DEF Good
  <2> QED
    BY <1>8
<1> HIDE DEF Begun
<1> QED
  BY <1>3, <1>9

LEMMA FlattenMembers ==
  ASSUME NEW E, NEW n \in Nat, NEW ss \in [1 .. n -> Short(E)], NEW x
  PROVE  x \in Range(FlattenSeq(ss)) <=> \E i \in 1 .. n : x \in Range(ss[i])
<1>1. PICK w \in [E -> Int] : TRUE
  <2>1. [e \in E |-> 0] \in [E -> Int]
    OBVIOUS
  <2> QED
    BY <2>1
<1>2. PICK v : \A i \in 1 .. n : v[i] = SeqSum(w, ss[i])
  <2> DEFINE u == [i \in 1 .. n |-> SeqSum(w, ss[i])]
  <2>1. \A i \in 1 .. n : u[i] = SeqSum(w, ss[i])
    OBVIOUS
  <2> HIDE DEF u
  <2> QED
    BY <2>1
<1>3. \A y : y \in Range(FlattenSeq(ss)) <=> \E i \in 1 .. n : y \in Range(ss[i])
  BY <1>2, FlattenShort
<1> QED
  BY <1>3
-----------------------------------------------------------------------------
(* Pieces *)

\* The pieces of a list that are in the set P of items.
PiecesIn(list, P) ==
  SumFunctionOnSet([i \in DOMAIN list |-> list[i].quantity], {i \in DOMAIN list : list[i] \in P})

Weight(P) == [item \in Item |-> IF item \in P THEN item.quantity ELSE 0]

OfGood(g) == {item \in Item : item.of = g}
OfBatch(g, b) == {item \in Item : item.of = g /\ item.state = b}
OfBatches(g, B) == {item \in Item : item.of = g /\ item.state \in B}

LEMMA WeightIs ==
  ASSUME NEW P
  PROVE  /\ Weight(P) \in [Item -> Int]
         /\ \A item \in Item : /\ Weight(P)[item] = IF item \in P THEN item.quantity ELSE 0
                               /\ item.quantity \in Nat
BY DEF Weight, Item

\* Counting pieces by index and by item is the same.
LEMMA PiecesAreWeighed ==
  ASSUME NEW list \in Seq(Item), NEW P
  PROVE  PiecesIn(list, P) = SeqSum(Weight(P), list)
<1> DEFINE n == Len(list)
           S == 1 .. n
           L == {i \in S : list[i] \in P}
           f == [i \in S |-> list[i].quantity]
           h == [i \in S |-> Weight(P)[list[i]]]
<1>1. DOMAIN list = S /\ n \in Nat
  OBVIOUS
<1>2. \A i \in S : list[i] \in Item
  BY <1>1, ElementOfSeq
<1>3. \A i \in S : f[i] \in Int /\ h[i] = IF i \in L THEN f[i] ELSE 0
  BY <1>2, WeightIs
<1>4. PiecesIn(list, P) = SumFunctionOnSet(f, L) /\ SeqSum(Weight(P), list) = SumFunctionOnSet(h, S)
  BY <1>1 DEF PiecesIn, SeqSum
<1>5. IsFiniteSet(S) /\ L \in SUBSET S
  BY <1>1, FS_Interval
<1> HIDE DEF f, h, L, S
<1>6. SumFunctionOnSet(f, L) = SumFunctionOnSet(h, S)
  BY <1>3, <1>5, SumOfPart
<1> QED
  BY <1>4, <1>6

LEMMA PiecesAreInt ==
  ASSUME NEW list \in Seq(Item), NEW P
  PROVE  PiecesIn(list, P) \in Nat
<1> DEFINE L == {i \in DOMAIN list : list[i] \in P}
           f == [i \in DOMAIN list |-> list[i].quantity]
<1>1. Len(list) \in Nat /\ L \in SUBSET (1 .. Len(list)) /\ IsFiniteSet(1 .. Len(list))
  BY FS_Interval
<1>2. IsFiniteSet(L)
  BY <1>1, FS_Subset
<1>3. \A i \in DOMAIN list : list[i] \in Item
  BY ElementOfSeq
<1>4. \A i \in L : f[i] \in Nat
  BY <1>3 DEF Item
<1>5. PiecesIn(list, P) = SumFunctionOnSet(f, L)
  BY DEF PiecesIn
<1> HIDE DEF f, L
<1> QED
  BY <1>2, <1>4, <1>5, SumIsNat

-----------------------------------------------------------------------------
(* Settling lines *)

\* What is settled of an item, and what is left of it.
Taken(item, q, state) == Part(item, q, state)
Left(item, q) == Part(item, item.quantity - q, item.state)

Ends == {Unavailable} \cup Batches

LEMMA RowsAre ==
  ASSUME items \in Seq(Item), NEW rows \in Rows
  PROVE  /\ DOMAIN rows \subseteq PendingItems
         /\ \A i \in DOMAIN rows : /\ rows[i] \in Nat \ {0}
                                   /\ rows[i] <= items[i].quantity
<1>1. PICK chosen \in SUBSET PendingItems :
        /\ rows \in [chosen -> UNION {1 .. items[i].quantity : i \in chosen}]
        /\ \A i \in chosen : rows[i] <= items[i].quantity
  BY DEF Rows
<1>2. \A i \in DOMAIN items : items[i].quantity \in Nat
  <2>1. \A i \in DOMAIN items : items[i] \in Item
    BY ElementOfSeq
  <2> QED
    BY <2>1 DEF Item
<1>3. \A i \in chosen : rows[i] \in Nat \ {0}
  <2> SUFFICES ASSUME NEW i \in chosen  PROVE rows[i] \in Nat \ {0}
    OBVIOUS
  <2>1. PICK j \in chosen : rows[i] \in 1 .. items[j].quantity
    BY <1>1
  <2>2. items[j].quantity \in Nat
    BY <1>2 DEF PendingItems
  <2> QED
    BY <2>1, <2>2
<1> QED
  BY <1>1, <1>3

LEMMA TwoOf ==
  ASSUME NEW E, NEW x \in E, NEW y \in E, NEW t, t = <<x, y>>
  PROVE  t = Append(<<x>>, y)
OBVIOUS

LEMMA SettledLineIs ==
  ASSUME NEW item \in Item, NEW q \in Nat \ {0}, q <= item.quantity, NEW state \in Ends
  PROVE  /\ Taken(item, q, state) \in Item
         /\ q < item.quantity => Left(item, q) \in Item
         /\ SettledLine(item, q, state) =
              IF q < item.quantity THEN <<Taken(item, q, state), Left(item, q)>>
                                   ELSE <<Taken(item, q, state)>>
<1>1. Taken(item, q, state) \in Item /\ (q < item.quantity => Left(item, q) \in Item)
  BY DEF Taken, Left, Part, Item, Ends
<1> QED
  BY <1>1 DEF SettledLine, Taken, Left

LEMMA SettledIs ==
  ASSUME items \in Seq(Item), NEW rows \in Rows, NEW state \in Ends, NEW w \in [Item -> Int],
         \A i \in DOMAIN rows :
           LET item == items[i]
               q == rows[i]
           IN  w[Taken(item, q, state)] + (IF q < item.quantity THEN w[Left(item, q)] ELSE 0)
                 = w[item]
  PROVE  /\ Settled(rows, state) \in Seq(Item)
         /\ SeqSum(w, Settled(rows, state)) = SeqSum(w, items)
         /\ \A i \in DOMAIN items : i \notin DOMAIN rows => items[i] \in Range(Settled(rows, state))
         /\ \A x \in Range(Settled(rows, state)) :
              x \in Range(items) \/ x.state = state \/ x.state = Pending
<1> DEFINE n == Len(items)
           ss == [i \in 1 .. n |->
                    IF i \in DOMAIN rows THEN SettledLine(items[i], rows[i], state)
                                         ELSE <<items[i]>>]
           u == [i \in 1 .. n |-> w[items[i]]]
           v == [i \in 1 .. n |-> SeqSum(w, ss[i])]
<1>1. n \in Nat /\ DOMAIN items = 1 .. n /\ Settled(rows, state) = FlattenSeq(ss)
  <2>1. n \in Nat /\ DOMAIN items = 1 .. n
    OBVIOUS
  <2> HIDE DEF n
  <2> QED
    BY <2>1 DEF Settled
<1>2. \A i \in 1 .. n : items[i] \in Item
  BY <1>1, ElementOfSeq
<1>3. SeqSum(w, items) = SumFunctionOnSet(u, 1 .. n)
  BY DEF SeqSum
<1>4. \A x \in Item : SeqSum(w, <<x>>) = w[x]
  <2> SUFFICES ASSUME NEW x \in Item  PROVE SeqSum(w, <<x>>) = w[x]
    OBVIOUS
  <2>1. << >> \in Seq(Item) /\ Append(<< >>, x) = <<x>> /\ w[x] \in Int
    OBVIOUS
  <2>2. SeqSum(w, <<x>>) = SeqSum(w, << >>) + w[x]
    BY <2>1, SeqSumAppend
  <2> QED
    BY <2>1, <2>2, SeqSumOfNone
<1>5. \A x, y \in Item : SeqSum(w, <<x, y>>) = w[x] + w[y]
  <2> SUFFICES ASSUME NEW x \in Item, NEW y \in Item
               PROVE  SeqSum(w, <<x, y>>) = w[x] + w[y]
    OBVIOUS
  <2> DEFINE t == <<x, y>>
  <2>1. t = <<x, y>> /\ <<x>> \in Seq(Item)
    OBVIOUS
  <2> HIDE DEF t
  <2>2. t = Append(<<x>>, y)
    BY <2>1, TwoOf
  <2>3. SeqSum(w, t) = SeqSum(w, <<x>>) + w[y]
    BY <2>1, <2>2, SeqSumAppend
  <2> QED
    BY <1>4, <2>1, <2>3
<1>6. ASSUME NEW i \in 1 .. n
      PROVE  ss[i] \in Short(Item) /\ SeqSum(w, ss[i]) = u[i] /\ u[i] \in Int
  <2>1. items[i] \in Item /\ u[i] = w[items[i]] /\ u[i] \in Int
    BY <1>2
  <2>2. CASE i \notin DOMAIN rows
    <3>1. ss[i] = <<items[i]>>
      BY <2>2
    <3> QED
      BY <1>4, <2>1, <3>1 DEF Short
  <2>3. CASE i \in DOMAIN rows
    <3> DEFINE item == items[i]
               q == rows[i]
    <3>1. q \in Nat \ {0} /\ q <= item.quantity
      BY <2>3, RowsAre
    <3>2. ss[i] = SettledLine(item, q, state)
      BY <2>3
    <3>3. w[Taken(item, q, state)] + (IF q < item.quantity THEN w[Left(item, q)] ELSE 0) = u[i]
      BY <2>1, <2>3
    <3> HIDE DEF item, q, ss, u
    <3>4. item \in Item
      BY <2>1 DEF item
    <3>5. /\ Taken(item, q, state) \in Item
          /\ q < item.quantity => Left(item, q) \in Item
          /\ ss[i] = IF q < item.quantity THEN <<Taken(item, q, state), Left(item, q)>>
                                          ELSE <<Taken(item, q, state)>>
      BY <3>1, <3>2, <3>4, SettledLineIs
    <3>6. CASE q < item.quantity
      BY <1>5, <2>1, <3>3, <3>5, <3>6 DEF Short
    <3>7. CASE ~ (q < item.quantity)
      <4>1. w[Taken(item, q, state)] \in Int
        BY <3>5
      <4> QED
        BY <1>4, <2>1, <3>3, <3>5, <3>7, <4>1 DEF Short
    <3> QED
      BY <3>6, <3>7
  <2> QED
    BY <2>2, <2>3
<1>7. ss \in [1 .. n -> Short(Item)]
  BY <1>6
<1>8. \A i \in 1 .. n : v[i] = u[i]
  BY <1>6
<1>11. \A i \in 1 .. n : v[i] = SeqSum(w, ss[i])
  OBVIOUS
<1>12. ASSUME NEW i \in 1 .. n  PROVE i \notin DOMAIN rows => items[i] \in Range(ss[i])
  <2>1. i \notin DOMAIN rows => ss[i] = <<items[i]>>
    OBVIOUS
  <2>2. Range(<<items[i]>>) = {items[i]}
    BY DEF Range
  <2> QED
    BY <2>1, <2>2
<1>13. ASSUME NEW i \in 1 .. n, NEW x \in Range(ss[i])
       PROVE  x \in Range(items) \/ x.state = state \/ x.state = Pending
  <2>1. CASE i \notin DOMAIN rows
    <3>1. ss[i] = <<items[i]>>
      BY <2>1
    <3>2. Range(<<items[i]>>) = {items[i]}
      BY DEF Range
    <3>3. x = items[i] /\ i \in DOMAIN items
      BY <1>1, <3>1, <3>2
    <3> QED
      BY <3>3 DEF Range
  <2>2. CASE i \in DOMAIN rows
    <3> DEFINE item == items[i]
               q == rows[i]
    <3>1. q \in Nat \ {0} /\ q <= item.quantity /\ item.state = Pending
      BY <2>2, RowsAre DEF PendingItems
    <3>2. ss[i] = SettledLine(item, q, state)
      BY <2>2
    <3>3. item \in Item
      BY <1>2
    <3> HIDE DEF item, q, ss
    <3>4. ss[i] = IF q < item.quantity THEN <<Taken(item, q, state), Left(item, q)>>
                                       ELSE <<Taken(item, q, state)>>
      BY <3>1, <3>2, <3>3, SettledLineIs
    <3>5. \A a, b : Range(<<a, b>>) = {a, b} /\ Range(<<a>>) = {a}
      <4> TAKE a, b
      <4>1. DOMAIN <<a, b>> = {1, 2} /\ DOMAIN <<a>> = {1}
        OBVIOUS
      <4> QED
        BY <4>1 DEF Range
    <3>6. x = Taken(item, q, state) \/ x = Left(item, q)
      BY <3>4, <3>5
    <3> QED
      BY <3>1, <3>6 DEF Taken, Left, Part
  <2> QED
    BY <2>1, <2>2
<1> HIDE DEF n, ss, u, v
<1>9. FlattenSeq(ss) \in Seq(Item) /\ SeqSum(w, FlattenSeq(ss)) = SumFunctionOnSet(v, 1 .. n)
      /\ \A x : x \in Range(FlattenSeq(ss)) <=> \E i \in 1 .. n : x \in Range(ss[i])
  <2>1. PICK m \in Nat : m = n
    BY <1>1
  <2>2. PICK s \in [1 .. m -> Short(Item)] : s = ss
    BY <1>7, <2>1
  <2>5. PICK r : r = v
    OBVIOUS
  <2>3. \A i \in 1 .. m : r[i] = SeqSum(w, s[i])
    BY <1>11, <2>1, <2>2, <2>5
  <2>4. FlattenSeq(s) \in Seq(Item) /\ SeqSum(w, FlattenSeq(s)) = SumFunctionOnSet(r, 1 .. m)
    BY <2>3, FlattenShort, SMTT(60)
  <2>6. ASSUME NEW x
        PROVE  x \in Range(FlattenSeq(s)) <=> \E i \in 1 .. m : x \in Range(s[i])
    BY FlattenMembers
  <2> QED
    BY <2>1, <2>2, <2>4, <2>5, <2>6
<1>10. SumFunctionOnSet(v, 1 .. n) = SumFunctionOnSet(u, 1 .. n)
  <2>1. IsFiniteSet(1 .. n)
    BY <1>1, FS_Interval
  <2> QED
    BY <1>8, <2>1, SumSame
<1> QED
  BY <1>1, <1>3, <1>9, <1>10, <1>12, <1>13

\* Pieces of two kinds that do not overlap.
LEMMA PiecesSplit ==
  ASSUME NEW list \in Seq(Item), NEW P, NEW Q, NEW R,
         \A item \in Item : Weight(R)[item] = Weight(P)[item] + Weight(Q)[item]
  PROVE  PiecesIn(list, R) = PiecesIn(list, P) + PiecesIn(list, Q)
<1> DEFINE S == 1 .. Len(list)
           f == [i \in S |-> Weight(P)[list[i]]]
           g == [i \in S |-> Weight(Q)[list[i]]]
           h == [i \in S |-> Weight(R)[list[i]]]
<1>1. \A i \in S : list[i] \in Item
  BY ElementOfSeq
<1>2. \A i \in S : f[i] \in Int /\ g[i] \in Int /\ h[i] = f[i] + g[i]
  <2>1. \A i \in S : Weight(P)[list[i]] \in Int /\ Weight(Q)[list[i]] \in Int
    BY <1>1, WeightIs
  <2> QED
    BY <1>1, <2>1
<1>3. PiecesIn(list, P) = SumFunctionOnSet(f, S) /\ PiecesIn(list, Q) = SumFunctionOnSet(g, S)
      /\ PiecesIn(list, R) = SumFunctionOnSet(h, S)
  BY PiecesAreWeighed DEF SeqSum
<1>4. IsFiniteSet(S)
  <2>1. Len(list) \in Nat
    OBVIOUS
  <2> QED
    BY <2>1, FS_Interval
<1> HIDE DEF S, f, g, h
<1> QED
  BY <1>2, <1>3, <1>4, SumPlus

LEMMA PiecesAtMost ==
  ASSUME NEW list \in Seq(Item), NEW P, NEW Q, \A item \in Item : item \in P => item \in Q
  PROVE  PiecesIn(list, P) <= PiecesIn(list, Q)
<1> DEFINE S == 1 .. Len(list)
           f == [i \in S |-> Weight(P)[list[i]]]
           g == [i \in S |-> Weight(Q)[list[i]]]
<1>1. \A i \in S : list[i] \in Item
  BY ElementOfSeq
<1>2. \A i \in S : f[i] \in Int /\ g[i] \in Int /\ f[i] <= g[i]
  BY <1>1, WeightIs
<1>3. PiecesIn(list, P) = SumFunctionOnSet(f, S) /\ PiecesIn(list, Q) = SumFunctionOnSet(g, S)
  BY PiecesAreWeighed DEF SeqSum
<1>4. IsFiniteSet(S)
  <2>1. Len(list) \in Nat
    OBVIOUS
  <2> QED
    BY <2>1, FS_Interval
<1> HIDE DEF S, f, g
<1> QED
  BY <1>2, <1>3, <1>4, SumAtMost

\* The sum over chosen lines, and the pieces of a kind.
LEMMA QuantityIsPieces ==
  ASSUME NEW P, NEW lines, lines = {i \in DOMAIN items : items[i] \in P}
  PROVE  QuantityOf(lines) = PiecesIn(items, P)
BY DEF QuantityOf, PiecesIn

\* Settling lines of an item of good g: none of its pieces is lost, and the
\* pieces of the batches bought before stay what they were.
LEMMA SettlingKeeps ==
  ASSUME items \in Seq(Item), NEW rows \in Rows, NEW state \in Ends, NEW g
  PROVE  /\ Settled(rows, state) \in Seq(Item)
         /\ PiecesIn(Settled(rows, state), OfGood(g)) = PiecesIn(items, OfGood(g))
         /\ \A b \in Batches \ {state} :
              PiecesIn(Settled(rows, state), OfBatch(g, b)) = PiecesIn(items, OfBatch(g, b))
<1>1. ASSUME NEW i \in DOMAIN rows
      PROVE  /\ items[i] \in Item /\ items[i].state = Pending
             /\ rows[i] \in Nat \ {0} /\ rows[i] <= items[i].quantity
             /\ Taken(items[i], rows[i], state) \in Item
             /\ rows[i] < items[i].quantity => Left(items[i], rows[i]) \in Item
  <2>1. i \in DOMAIN items /\ items[i].state = Pending /\ rows[i] \in Nat \ {0}
        /\ rows[i] <= items[i].quantity
    BY RowsAre DEF PendingItems
  <2>2. items[i] \in Item
    BY <2>1, ElementOfSeq
  <2> QED
    BY <2>1, <2>2, SettledLineIs
<1>2. ASSUME NEW P,
             \A item \in Item : \A q \in Nat \ {0} :
               item.state = Pending /\ q <= item.quantity =>
                 Weight(P)[item] = (IF Taken(item, q, state) \in P THEN q ELSE 0)
                   + (IF Left(item, q) \in P THEN item.quantity - q ELSE 0)
      PROVE  /\ Settled(rows, state) \in Seq(Item)
             /\ PiecesIn(Settled(rows, state), P) = PiecesIn(items, P)
  <2> DEFINE w == Weight(P)
  <2>1. w \in [Item -> Int]
    BY WeightIs
  <2>2. ASSUME NEW i \in DOMAIN rows
        PROVE  w[Taken(items[i], rows[i], state)]
                 + (IF rows[i] < items[i].quantity THEN w[Left(items[i], rows[i])] ELSE 0)
                 = w[items[i]]
    <3> DEFINE item == items[i]
               q == rows[i]
               t == Taken(item, q, state)
               r == Left(item, q)
    <3>1. /\ item \in Item /\ item.state = Pending /\ q \in Nat \ {0} /\ q <= item.quantity
          /\ t \in Item /\ (q < item.quantity => r \in Item)
          /\ item.quantity \in Nat
      BY <1>1, WeightIs
    <3>2. t.quantity = q /\ r.quantity = item.quantity - q
      BY DEF Taken, Left, Part
    <3>3. w[item] = (IF t \in P THEN q ELSE 0) + (IF r \in P THEN item.quantity - q ELSE 0)
      BY <1>2, <3>1
    <3> HIDE DEF item, q, t, r
    <3>4. w[t] = IF t \in P THEN q ELSE 0
      BY <3>1, <3>2, WeightIs
    <3>5. q < item.quantity => w[r] = IF r \in P THEN item.quantity - q ELSE 0
      BY <3>1, <3>2, WeightIs
    <3>6. w[t] + (IF q < item.quantity THEN w[r] ELSE 0) = w[item]
      BY <3>1, <3>3, <3>4, <3>5
    <3> QED
      BY <3>6 DEF item, q, t, r
  <2> HIDE DEF w
  <2>3. Settled(rows, state) \in Seq(Item) /\ SeqSum(w, Settled(rows, state)) = SeqSum(w, items)
    BY <2>1, <2>2, SettledIs
  <2> QED
    BY <2>3, PiecesAreWeighed DEF w
<1>3. /\ Settled(rows, state) \in Seq(Item)
      /\ PiecesIn(Settled(rows, state), OfGood(g)) = PiecesIn(items, OfGood(g))
  <2> DEFINE P == OfGood(g)
  <2>1. ASSUME NEW item \in Item, NEW q \in Nat \ {0}, item.state = Pending, q <= item.quantity
        PROVE  Weight(P)[item] = (IF Taken(item, q, state) \in P THEN q ELSE 0)
                   + (IF Left(item, q) \in P THEN item.quantity - q ELSE 0)
    <3>1. Taken(item, q, state) \in Item /\ (q < item.quantity => Left(item, q) \in Item)
          /\ item.quantity \in Nat
      BY <2>1, SettledLineIs, WeightIs
    <3>2. Taken(item, q, state).of = item.of /\ Left(item, q).of = item.of
      BY DEF Taken, Left, Part
    <3>3. Weight(P)[item] = IF item \in P THEN item.quantity ELSE 0
      BY WeightIs
    <3> HIDE DEF Item
    <3> QED
      BY <2>1, <3>1, <3>2, <3>3 DEF OfGood
  <2> HIDE DEF P
  <2> QED
    BY <1>2, <2>1 DEF P
<1>4. ASSUME NEW b \in Batches \ {state}
      PROVE  PiecesIn(Settled(rows, state), OfBatch(g, b)) = PiecesIn(items, OfBatch(g, b))
  <2> DEFINE P == OfBatch(g, b)
  <2>1. ASSUME NEW item \in Item, NEW q \in Nat \ {0}, item.state = Pending, q <= item.quantity
        PROVE  Weight(P)[item] = (IF Taken(item, q, state) \in P THEN q ELSE 0)
                   + (IF Left(item, q) \in P THEN item.quantity - q ELSE 0)
    <3>1. Taken(item, q, state).state = state /\ Left(item, q).state = Pending /\ b # Pending
      BY <2>1, GoodsAssumption DEF Taken, Left, Part
    <3>2. Weight(P)[item] = IF item \in P THEN item.quantity ELSE 0
      BY WeightIs
    <3>3. item \notin P /\ Taken(item, q, state) \notin P /\ Left(item, q) \notin P
      BY <2>1, <3>1 DEF OfBatch
    <3> QED
      BY <3>2, <3>3
  <2> HIDE DEF P
  <2> QED
    BY <1>2, <2>1 DEF P
<1> QED
  BY <1>3, <1>4

-----------------------------------------------------------------------------
(* The inductive invariant *)

\* What a dispatch of a batch carries is what was bought in the batch.
CarriesItsBatch(d) ==
  d.tag \in Batches =>
    /\ d.tag \in BoughtBatches
    /\ \A g \in Goods : SentIn(d, g) = PiecesIn(items, OfBatch(g, d.tag))
    /\ \A i \in PurchasedItems :
         items[i].state = d.tag =>
           \E k \in DOMAIN d.lines :
             d.lines[k].of = items[i].of /\ d.lines[k].sent = items[i].quantity

TagsDiffer ==
  \A m, n \in DOMAIN dispatches : dispatches[m].tag = dispatches[n].tag => m = n

DispatchesOK == TagsDiffer /\ \A d \in Range(dispatches) : CarriesItsBatch(d)

TotalsOK == \A g \in Goods : PiecesIn(items, OfGood(g)) = Requested[g]

\* What a sync read is still so, and what it is going to save is true.
SyncOK(s) ==
  /\ s.step = "read" /\ ~ s.waiting => AllItemsResolved /\ s.bought = BoughtBatches
  /\ s.step = "save" /\ s.seen = "WAREHOUSE_COMPLETED" => BoughtIsDelivered

SyncsOK ==
  /\ \A h \in Handlers : SyncOK(sync[h])
  /\ status = "WAREHOUSE_COMPLETED" => BoughtIsDelivered

GoodsInv == TypeOK /\ DispatchesOK /\ TotalsOK /\ SyncsOK

-----------------------------------------------------------------------------
(* The start *)

LEMMA InSequence ==
  ASSUME NEW S, IsFiniteSet(S)
  PROVE  /\ SetToSeq(S) \in Seq(S)
         /\ \A x \in S : \E i \in DOMAIN SetToSeq(S) : SetToSeq(S)[i] = x
         /\ IsInjective(SetToSeq(S))
<1> DEFINE n == Cardinality(S)
<1>1. n \in Nat /\ ExistsBijection(1 .. n, S)
  BY FS_CardinalityType
<1>2. \E f \in [1 .. n -> S] : IsInjective(f)
  BY <1>1 DEF ExistsBijection, Bijection, Injection
<1>3. SetToSeq(S) \in [1 .. n -> S] /\ IsInjective(SetToSeq(S))
  BY <1>2 DEF SetToSeq
<1>4. SetToSeq(S) \in Surjection(1 .. n, S)
  <2>1. SetToSeq(S) \in Injection(1 .. n, S)
    BY <1>3 DEF Injection
  <2>2. IsFiniteSet(1 .. n) /\ Cardinality(1 .. n) = n
    BY <1>1, FS_Interval
  <2> QED
    BY <2>1, <2>2, FS_Injection
<1>5. DOMAIN SetToSeq(S) = 1 .. n
  BY <1>3
<1>6. SetToSeq(S) \in Seq(S)
  BY <1>1, <1>3
<1> QED
  BY <1>3, <1>4, <1>5, <1>6 DEF Surjection

LEMMA InitialTotals == ASSUME Init  PROVE items \in Seq(Item) /\ TotalsOK
<1> DEFINE Asked(g) == [of |-> g, quantity |-> Requested[g], state |-> Pending]
           S == {Asked(g) : g \in Goods}
<1>1. IsFiniteSet(S)
  <2> DEFINE f == [g \in Goods |-> Asked(g)]
  <2>1. f \in Surjection(Goods, S)
    BY DEF Surjection
  <2> QED
    BY <2>1, GoodsAssumption, FS_Surjection
<1>2. items = SetToSeq(S)
  BY DEF Init
<1>3. S \subseteq Item
  BY GoodsAssumption DEF Item
<1>4. \A g \in Goods : Asked(g) \in S
  OBVIOUS
<1>5. \A x \in S : x \in Item /\ x = Asked(x.of) /\ x.of \in Goods
  BY <1>3
<1> HIDE DEF S
<1>6. /\ items \in Seq(S) /\ IsInjective(items)
      /\ \A x \in S : \E i \in DOMAIN items : items[i] = x
  BY <1>1, <1>2, InSequence
<1>7. items \in Seq(Item)
  BY <1>3, <1>6
<1>8. ASSUME NEW g \in Goods  PROVE PiecesIn(items, OfGood(g)) = Requested[g]
  <2>1. PICK k \in DOMAIN items : items[k] = Asked(g)
    BY <1>4, <1>6
  <2> DEFINE L == {i \in DOMAIN items : items[i] \in OfGood(g)}
             f == [i \in DOMAIN items |-> items[i].quantity]
  <2>2. \A i \in L : i = k
    <3> SUFFICES ASSUME NEW i \in L  PROVE i = k
      OBVIOUS
    <3>1. i \in DOMAIN items /\ items[i].of = g
      BY DEF OfGood
    <3>2. items[i] \in S
      BY <1>6, <3>1, ElementOfSeq
    <3>3. items[i] = items[k]
      BY <1>5, <2>1, <3>1, <3>2
    <3> QED
      BY <1>6, <3>1, <3>3 DEF IsInjective
  <2>3. k \in L
    <3>1. items[k] \in Item /\ items[k].of = g
      BY <1>3, <1>4, <2>1
    <3> QED
      BY <3>1 DEF OfGood
  <2>4. L = {k}
    BY <2>2, <2>3
  <2>5. f[k] = Requested[g] /\ Requested[g] \in Int
    BY <2>1, GoodsAssumption
  <2>6. PiecesIn(items, OfGood(g)) = SumFunctionOnSet(f, L)
    BY DEF PiecesIn
  <2> HIDE DEF f, L
  <2>7. SumFunctionOnSet(f, {k}) = f[k] + SumFunctionOnSet(f, {k} \ {k})
    <3>1. IsFiniteSet({k})
      BY FS_Singleton
    <3> QED
      BY <2>5, <3>1, SumTakeOut
  <2>8. SumFunctionOnSet(f, {k} \ {k}) = 0
    BY SumOfNone
  <2> QED
    BY <2>4, <2>5, <2>6, <2>7, <2>8
<1> QED
  BY <1>7, <1>8 DEF TotalsOK

LEMMA GoodsInitially == Init => GoodsInv
<1> SUFFICES ASSUME Init  PROVE GoodsInv
  OBVIOUS
<1>1. items \in Seq(Item) /\ TotalsOK
  BY InitialTotals
<1>2. Range(dispatches) = {} /\ DOMAIN dispatches = {}
  BY DEF Init, Range
<1>3. \A h \in Handlers : sync[h] = Idle
  BY DEF Init
<1>4. Idle \in SyncState
  BY DEF Idle, SyncState, Status
<1>5. TypeOK
  <2>1. sync \in [Handlers -> SyncState]
    BY <1>4 DEF Init
  <2>2. dispatches \in Seq(Range(dispatches))
    BY <1>2 DEF Init
  <2>3. {overlapped, stopped, settledLate} \subseteq BOOLEAN
    BY DEF Init
  <2>4. status \in Status
    BY DEF Init, Status
  <2> QED
    BY <1>1, <1>2, <2>1, <2>2, <2>3, <2>4 DEF TypeOK
<1>6. DispatchesOK
  BY <1>2 DEF DispatchesOK, TagsDiffer
<1>7. SyncsOK
  BY <1>3 DEF SyncsOK, SyncOK, Idle, Init
<1> QED
  BY <1>1, <1>5, <1>6, <1>7 DEF GoodsInv

-----------------------------------------------------------------------------
(* Lines are bought or given up *)

\* A line that is not settled stays, and the new ones are settled or pending.
LEMMA SettledMembers ==
  ASSUME items \in Seq(Item), NEW rows \in Rows, NEW state \in Ends
  PROVE  /\ \A i \in DOMAIN items : i \notin DOMAIN rows => items[i] \in Range(Settled(rows, state))
         /\ \A x \in Range(Settled(rows, state)) :
              x \in Range(items) \/ x.state = state \/ x.state = Pending
<1> DEFINE w == Weight({})
<1>1. w \in [Item -> Int] /\ \A item \in Item : w[item] = 0
  BY WeightIs
<1>2. ASSUME NEW i \in DOMAIN rows
      PROVE  w[Taken(items[i], rows[i], state)]
               + (IF rows[i] < items[i].quantity THEN w[Left(items[i], rows[i])] ELSE 0)
               = w[items[i]]
  <2>1. i \in DOMAIN items /\ rows[i] \in Nat \ {0} /\ rows[i] <= items[i].quantity
    BY RowsAre DEF PendingItems
  <2>2. items[i] \in Item
    BY <2>1, ElementOfSeq
  <2>3. Taken(items[i], rows[i], state) \in Item
        /\ (rows[i] < items[i].quantity => Left(items[i], rows[i]) \in Item)
    BY <2>1, <2>2, SettledLineIs
  <2> HIDE DEF w
  <2> QED
    BY <1>1, <2>2, <2>3
<1> HIDE DEF w
<1> QED
  BY <1>1, <1>2, SettledIs

LEMMA SettlingKeepsInv ==
  ASSUME GoodsInv, CanPurchasePendingItems,
         NEW rows \in Rows, NEW state \in Ends, state \notin BoughtBatches,
         items' = Settled(rows, state), status' \in {"PURCHASED", "PURCHASING"},
         UNCHANGED <<dispatches, sync>>,
         {overlapped', stopped', settledLate'} \subseteq BOOLEAN
  PROVE  GoodsInv'
<1>1. items \in Seq(Item)
  BY DEF GoodsInv, TypeOK
<1>2. items' \in Seq(Item) /\ TotalsOK'
  <2>1. \A g \in Goods : PiecesIn(items', OfGood(g)) = PiecesIn(items, OfGood(g))
    BY <1>1, SettlingKeeps
  <2>2. items' \in Seq(Item)
    BY <1>1, SettlingKeeps
  <2> QED
    BY <2>1, <2>2 DEF TotalsOK, GoodsInv
<1>3. TypeOK'
  <2>1. status' \in Status
    BY DEF Status
  <2> QED
    BY <1>2, <2>1 DEF TypeOK, GoodsInv, IsDispatch
<1>4. ASSUME NEW d \in Range(dispatches), d.tag \in Batches
      PROVE  /\ d.tag \in BoughtBatches'
             /\ \A g \in Goods : SentIn(d, g) = PiecesIn(items', OfBatch(g, d.tag))
             /\ \A i \in PurchasedItems' :
                  items'[i].state = d.tag =>
                    \E k \in DOMAIN d.lines :
                      d.lines[k].of = items'[i].of /\ d.lines[k].sent = items'[i].quantity
  <2>1. /\ d.tag \in BoughtBatches
        /\ \A g \in Goods : SentIn(d, g) = PiecesIn(items, OfBatch(g, d.tag))
        /\ \A i \in PurchasedItems :
             items[i].state = d.tag =>
               \E k \in DOMAIN d.lines :
                 d.lines[k].of = items[i].of /\ d.lines[k].sent = items[i].quantity
    BY <1>4 DEF GoodsInv, DispatchesOK, CarriesItsBatch
  <2>2. d.tag # state /\ d.tag # Pending
    BY <1>4, <2>1, GoodsAssumption
  <2>3. d.tag \in BoughtBatches'
    <3>1. PICK i \in PurchasedItems : items[i].state = d.tag
      BY <2>1 DEF BoughtBatches
    <3>2. i \in DOMAIN items /\ i \notin DOMAIN rows
      BY <2>2, <3>1, <1>1, RowsAre DEF PurchasedItems, PendingItems
    <3>3. items[i] \in Range(items')
      BY <1>1, <3>2, SettledMembers
    <3>4. PICK j \in DOMAIN items' : items'[j] = items[i]
      BY <3>3 DEF Range
    <3> QED
      BY <1>4, <3>1, <3>4 DEF BoughtBatches, PurchasedItems
  <2>4. \A g \in Goods : SentIn(d, g) = PiecesIn(items', OfBatch(g, d.tag))
    <3>1. d.tag \in Batches \ {state}
      BY <1>4, <2>2
    <3>2. ASSUME NEW g
          PROVE  PiecesIn(Settled(rows, state), OfBatch(g, d.tag)) = PiecesIn(items, OfBatch(g, d.tag))
      BY <1>1, <3>1, SettlingKeeps
    <3> QED
      BY <2>1, <3>2
  <2>5. ASSUME NEW i \in PurchasedItems', items'[i].state = d.tag
        PROVE  \E k \in DOMAIN d.lines :
                 d.lines[k].of = items'[i].of /\ d.lines[k].sent = items'[i].quantity
    <3>1. i \in DOMAIN items' /\ items'[i] \in Range(items')
      BY DEF PurchasedItems, Range
    <3>2. items'[i] \in Range(items)
      BY <1>1, <2>2, <2>5, <3>1, SettledMembers
    <3>3. PICK j \in DOMAIN items : items[j] = items'[i]
      BY <3>2 DEF Range
    <3>4. j \in PurchasedItems /\ items[j].state = d.tag
      BY <1>4, <2>5, <3>3 DEF PurchasedItems
    <3> QED
      BY <2>1, <3>3, <3>4
  <2> QED
    BY <2>3, <2>4, <2>5
<1>5. DispatchesOK'
  <2>1. TagsDiffer'
    BY DEF GoodsInv, DispatchesOK, TagsDiffer
  <2>2. \A d \in Range(dispatches') : CarriesItsBatch(d)'
    BY <1>4 DEF CarriesItsBatch, SentIn
  <2> QED
    BY <2>1, <2>2 DEF DispatchesOK
<1>6. SyncsOK'
  <2>1. PendingItems # {}
    BY DEF CanPurchasePendingItems
  <2>2. \A h \in Handlers : SyncOK(sync[h])
    BY DEF GoodsInv, SyncsOK
  <2>3. ASSUME NEW h \in Handlers
        PROVE  /\ ~ (sync[h].step = "read" /\ ~ sync[h].waiting)
               /\ ~ (sync[h].step = "save" /\ sync[h].seen = "WAREHOUSE_COMPLETED")
    BY <2>1, <2>2 DEF SyncOK, AllItemsResolved, BoughtIsDelivered
  <2>4. status' # "WAREHOUSE_COMPLETED"
    OBVIOUS
  <2> QED
    BY <2>3, <2>4 DEF SyncsOK, SyncOK
<1> QED
  BY <1>2, <1>3, <1>5, <1>6 DEF GoodsInv

LEMMA BuyKeepsInv == ASSUME GoodsInv, Buy  PROVE GoodsInv'
<1>1. {overlapped, stopped, settledLate} \subseteq BOOLEAN
  BY DEF GoodsInv, TypeOK
<1>2. ASSUME NEW b \in Batches, NEW rows \in Rows, CompletePurchase(b, rows)
      PROVE  GoodsInv'
  <2>1. b \in Ends
    BY DEF Ends
  <2>2. /\ CanPurchasePendingItems /\ b \notin BoughtBatches
        /\ items' = Settled(rows, b) /\ status' \in {"PURCHASED", "PURCHASING"}
        /\ UNCHANGED <<dispatches, sync>>
    BY <1>2 DEF CompletePurchase
  <2>3. {overlapped', stopped', settledLate'} \subseteq BOOLEAN
    BY <1>1, <1>2 DEF CompletePurchase
  <2> QED
    BY <2>1, <2>2, <2>3, SettlingKeepsInv
<1>3. ASSUME NEW rows \in Rows, MarkItemsUnavailable(rows)
      PROVE  GoodsInv'
  <2>1. Unavailable \in Ends /\ Unavailable \notin BoughtBatches
    BY GoodsAssumption DEF Ends, BoughtBatches, PurchasedItems
  <2>2. /\ CanPurchasePendingItems
        /\ items' = Settled(rows, Unavailable) /\ status' \in {"PURCHASED", "PURCHASING"}
        /\ UNCHANGED <<dispatches, sync>>
    BY <1>3 DEF MarkItemsUnavailable
  <2>3. {overlapped', stopped', settledLate'} \subseteq BOOLEAN
    BY <1>1, <1>3 DEF MarkItemsUnavailable
  <2> QED
    BY <2>1, <2>2, <2>3, SettlingKeepsInv
<1> QED
  BY <1>2, <1>3 DEF Buy

-----------------------------------------------------------------------------
(* Dispatches are created and received *)

\* t is the list s and one more, x.
OneMore(t, s, x) ==
  /\ t \in Seq(Range(t)) /\ Range(t) = Range(s) \cup {x}
  /\ Len(s) + 1 \notin DOMAIN s
  /\ DOMAIN t = DOMAIN s \cup {Len(s) + 1}
  /\ \A i \in DOMAIN s : t[i] = s[i]
  /\ t[Len(s) + 1] = x

LEMMA Appended ==
  ASSUME NEW s, s \in Seq(Range(s)), NEW x  PROVE OneMore(Append(s, x), s, x)
<1> DEFINE t == Append(s, x)
<1> DEFINE D == Range(s) \cup {x}
           n == Len(s)
<1>1. s \in Seq(D) /\ x \in D
  OBVIOUS
<1> HIDE DEF D
<1>2. /\ t \in Seq(D) /\ DOMAIN t = 1 .. (n + 1) /\ DOMAIN s = 1 .. n /\ n \in Nat
      /\ \A i \in 1 .. n : t[i] = s[i]
      /\ t[n + 1] = x
  BY <1>1
<1> HIDE DEF n, t
<1>3. DOMAIN t = DOMAIN s \cup {n + 1} /\ n + 1 \notin DOMAIN s
  BY <1>2
<1>4. Range(t) = {t[i] : i \in DOMAIN t} /\ Range(s) = {s[i] : i \in DOMAIN s}
  BY DEF Range
<1>5. ASSUME NEW y  PROVE y \in Range(t) <=> y \in Range(s) \/ y = x
  BY <1>2, <1>3, <1>4
<1>6. Range(t) = Range(s) \cup {x}
  BY <1>5
<1>7. Range(t) = D
  BY <1>6 DEF D
<1> QED
  BY <1>2, <1>3, <1>6, <1>7 DEF n, t, OneMore

LEMMA NewIsDispatch ==
  ASSUME items \in Seq(Item), NEW tag \in Tags, BatchItemIndexes(tag) # {}, NEW d,
         d = [tag |-> tag, lines |-> [i \in BatchItemIndexes(tag) |-> Sent(items[i])]]
  PROVE  IsDispatch(d) /\ CarriesItsBatch(d)
<1> DEFINE I == BatchItemIndexes(tag)
<1>1. I \subseteq PurchasedItems /\ PurchasedItems \subseteq DOMAIN items
  BY DEF BatchItemIndexes, PurchasedItems
<1>2. IsFiniteSet(DOMAIN items) /\ IsFiniteSet(I)
  <2>1. Len(items) \in Nat /\ DOMAIN items = 1 .. Len(items)
    OBVIOUS
  <2>2. IsFiniteSet(DOMAIN items)
    BY <2>1, FS_Interval
  <2> HIDE DEF I
  <2> QED
    BY <1>1, <2>2, FS_Subset
<1>3. \A i \in DOMAIN items : items[i] \in Item
  BY ElementOfSeq
<1>4. /\ d.tag = tag /\ DOMAIN d.lines = I
      /\ \A i \in I : d.lines[i] = [of |-> items[i].of, sent |-> items[i].quantity, settled |-> 0]
      /\ d.lines = [i \in I |-> d.lines[i]]
      /\ d = [tag |-> d.tag, lines |-> d.lines]
  BY DEF Sent
<1> HIDE DEF I
<1>5. ASSUME NEW i \in I
      PROVE  /\ d.lines[i] \in DispatchLine
             /\ d.lines[i].of = items[i].of /\ d.lines[i].sent = items[i].quantity
  <2>1. items[i].of \in Goods /\ items[i].quantity \in Nat
    BY <1>1, <1>3 DEF Item
  <2>2. d.lines[i] = [of |-> items[i].of, sent |-> items[i].quantity, settled |-> 0]
    BY <1>4
  <2> QED
    BY <2>1, <2>2 DEF DispatchLine
<1>6. IsDispatch(d)
  BY <1>2, <1>4, <1>5 DEF IsDispatch
<1>7. ASSUME tag \in Batches  PROVE CarriesItsBatch(d)
  <2>1. I = {i \in PurchasedItems : items[i].state = tag} /\ I # {}
    BY <1>7 DEF I, BatchItemIndexes
  <2>2. tag \in BoughtBatches
    BY <2>1 DEF BoughtBatches
  <2>3. ASSUME NEW g \in Goods  PROVE SentIn(d, g) = PiecesIn(items, OfBatch(g, tag))
    <3> DEFINE L == {i \in DOMAIN items : items[i] \in OfBatch(g, tag)}
               f == [i \in DOMAIN items |-> items[i].quantity]
               h == [k \in DOMAIN d.lines |-> IF d.lines[k].of = g THEN d.lines[k].sent ELSE 0]
    <3>1. L \in SUBSET I
      BY <1>7, <2>1 DEF OfBatch, PurchasedItems
    <3>2. ASSUME NEW i \in I
          PROVE  f[i] \in Int /\ h[i] = IF i \in L THEN f[i] ELSE 0
      <4>1. i \in DOMAIN items /\ items[i] \in Item /\ items[i].state = tag
        BY <1>1, <1>3, <2>1
      <4>2. items[i].quantity \in Int
        BY <4>1 DEF Item
      <4>3. i \in L <=> items[i].of = g
        BY <4>1 DEF OfBatch
      <4>4. h[i] = IF items[i].of = g THEN items[i].quantity ELSE 0
        <5>1. i \in DOMAIN d.lines
          BY <1>4
        <5>2. h[i] = IF d.lines[i].of = g THEN d.lines[i].sent ELSE 0
          BY <5>1
        <5> QED
          BY <1>5, <5>2
      <4> QED
        BY <4>1, <4>2, <4>3, <4>4
    <3>3. SentIn(d, g) = SumFunctionOnSet(h, I) /\ PiecesIn(items, OfBatch(g, tag)) = SumFunctionOnSet(f, L)
      BY <1>4 DEF SentIn, SumFunction, PiecesIn
    <3> HIDE DEF L, f, h
    <3> QED
      BY <1>2, <3>1, <3>2, <3>3, SumOfPart
  <2>4. \A i \in PurchasedItems :
          items[i].state = tag =>
            \E k \in DOMAIN d.lines :
              d.lines[k].of = items[i].of /\ d.lines[k].sent = items[i].quantity
    BY <1>4, <1>5, <2>1
  <2> QED
    BY <1>4, <2>2, <2>3, <2>4 DEF CarriesItsBatch
<1> QED
  BY <1>4, <1>6, <1>7 DEF CarriesItsBatch

LEMMA CreateKeepsInv ==
  ASSUME GoodsInv, NEW h \in Handlers, NEW tag \in Tags, Create(h, tag)
  PROVE  GoodsInv'
<1> DEFINE new == [tag |-> tag, lines |-> [i \in BatchItemIndexes(tag) |-> Sent(items[i])]]
<1>1. /\ dispatches' = Append(dispatches, new)
      /\ BatchItemIndexes(tag) # {}
      /\ \A d \in Range(dispatches) : d.tag # tag
      /\ sync' = [sync EXCEPT ![h].step = "load"]
      /\ UNCHANGED <<items, status, stopped, settledLate>>
      /\ overlapped' = (overlapped \/ SyncRunning)
  BY DEF Create
<1>2. new.tag = tag
  OBVIOUS
<1>3. items \in Seq(Item) /\ dispatches \in Seq(Range(dispatches))
      /\ sync \in [Handlers -> SyncState] /\ {overlapped, stopped, settledLate} \subseteq BOOLEAN
      /\ status \in Status /\ \A d \in Range(dispatches) : IsDispatch(d)
  BY DEF GoodsInv, TypeOK
<1>4. IsDispatch(new) /\ CarriesItsBatch(new)
  BY <1>1, <1>3, NewIsDispatch
<1> HIDE DEF new
<1>5. /\ dispatches' \in Seq(Range(dispatches'))
      /\ Range(dispatches') = Range(dispatches) \cup {new}
      /\ Len(dispatches) + 1 \notin DOMAIN dispatches
      /\ DOMAIN dispatches' = DOMAIN dispatches \cup {Len(dispatches) + 1}
      /\ \A i \in DOMAIN dispatches : dispatches'[i] = dispatches[i]
      /\ dispatches'[Len(dispatches) + 1] = new
  <2>1. OneMore(Append(dispatches, new), dispatches, new)
    BY <1>3, Appended
  <2> QED
    BY <1>1, <2>1 DEF OneMore
<1>6. /\ sync' \in [Handlers -> SyncState]
      /\ \A k \in Handlers : sync'[k] = sync[k] \/ sync'[k].step = "load"
  BY <1>1, <1>3 DEF SyncState
<1>7. TypeOK'
  <2>1. {overlapped, stopped, settledLate}' \subseteq BOOLEAN
    BY <1>1, <1>3
  <2>2. \A d \in Range(dispatches') : IsDispatch(d)
    BY <1>3, <1>4, <1>5
  <2> QED
    BY <1>1, <1>3, <1>5, <1>6, <2>1, <2>2 DEF TypeOK, IsDispatch
<1>8. DispatchesOK'
  <2>1. TagsDiffer'
    <3>1. TagsDiffer
      BY DEF GoodsInv, DispatchesOK
    <3>2. \A i \in DOMAIN dispatches : dispatches[i].tag # tag
      BY <1>1 DEF Range
    <3>3. ASSUME NEW m \in DOMAIN dispatches', NEW n \in DOMAIN dispatches',
                 dispatches'[m].tag = dispatches'[n].tag
          PROVE  m = n
      BY <1>2, <1>5, <3>1, <3>2, <3>3 DEF TagsDiffer
    <3> QED
      BY <3>3 DEF TagsDiffer
  <2>2. \A d \in Range(dispatches') : CarriesItsBatch(d)
    BY <1>4, <1>5 DEF GoodsInv, DispatchesOK
  <2>3. \A d \in Range(dispatches') : CarriesItsBatch(d)'
    BY <1>1, <2>2 DEF CarriesItsBatch, BoughtBatches, PurchasedItems, SentIn
  <2> QED
    BY <2>1, <2>3 DEF DispatchesOK
<1>9. TotalsOK'
  BY <1>1 DEF GoodsInv, TotalsOK
<1>10. SyncsOK'
  <2>1. BoughtIsDelivered => BoughtIsDelivered'
    <3>1. PurchasedItems' = PurchasedItems /\ AllItemsResolved' = AllItemsResolved
      BY <1>1 DEF PurchasedItems, AllItemsResolved, PendingItems
    <3>2. \A i \in PurchasedItems : IsDelivered(items[i]) => IsDelivered(items[i])'
      BY <1>1, <1>5 DEF IsDelivered, IsCompleted, Open
    <3> QED
      BY <1>1, <3>1, <3>2 DEF BoughtIsDelivered
  <2>2. AllItemsResolved' = AllItemsResolved /\ BoughtBatches' = BoughtBatches
    BY <1>1 DEF AllItemsResolved, PendingItems, BoughtBatches, PurchasedItems
  <2>3. \A k \in Handlers : SyncOK(sync[k])
    BY DEF GoodsInv, SyncsOK
  <2>4. ASSUME NEW k \in Handlers  PROVE SyncOK(sync[k])'
    <3>1. SyncOK(sync[k])
      BY <2>3
    <3> QED
      BY <1>6, <2>1, <2>2, <3>1 DEF SyncOK
  <2>5. status' = "WAREHOUSE_COMPLETED" => BoughtIsDelivered'
    BY <1>1, <2>1 DEF GoodsInv, SyncsOK
  <2> QED
    BY <2>4, <2>5 DEF SyncsOK
<1> QED
  BY <1>7, <1>8, <1>9, <1>10 DEF GoodsInv

\* A receipt changes what is settled, not what was sent.
LEMMA ReceiptKeepsWhatWasSent ==
  ASSUME NEW d, IsDispatch(d), CarriesItsBatch(d), NEW counts \in Counts(d), NEW s,
         s = Received(d, counts)
  PROVE  IsDispatch(s) /\ CarriesItsBatch(s) /\ s.tag = d.tag
<1> DEFINE Line(k) == [d.lines[k] EXCEPT !.settled = @ + counts[k]]
           lines == [k \in DOMAIN d.lines |-> Line(k)]
<1>1. d.tag \in Tags
      /\ IsFiniteSet(DOMAIN d.lines) /\ \A k \in DOMAIN d.lines : d.lines[k] \in DispatchLine
  BY DEF IsDispatch
<1>2. s = [tag |-> d.tag, lines |-> lines]
  BY DEF Received
<1>3. s.tag = d.tag /\ s.lines = lines /\ s = [tag |-> s.tag, lines |-> s.lines]
  <2> HIDE DEF lines
  <2>1. s.tag = d.tag /\ s.lines = lines
    BY <1>2
  <2> QED
    BY <1>2, <2>1, Zenon
<1>4. ASSUME NEW k \in DOMAIN d.lines
      PROVE  /\ Line(k) \in DispatchLine
             /\ Line(k).of = d.lines[k].of /\ Line(k).sent = d.lines[k].sent
  <2>1. d.lines[k] \in DispatchLine
    BY <1>1
  <2>2. counts[k] \in Nat
    <3>1. PICK j \in DOMAIN d.lines : counts[k] \in 0 .. Open(d.lines[j])
      BY DEF Counts
    <3>2. d.lines[j] \in DispatchLine
      BY <1>1
    <3>3. Open(d.lines[j]) \in Int
      BY <3>2 DEF DispatchLine, Open
    <3> QED
      BY <3>1, <3>3
  <2> QED
    BY <2>1, <2>2 DEF DispatchLine
<1>5. /\ DOMAIN s.lines = DOMAIN d.lines
      /\ \A k \in DOMAIN d.lines : s.lines[k] = Line(k)
      /\ s.lines = [k \in DOMAIN s.lines |-> s.lines[k]]
  BY <1>3
<1> HIDE DEF Line, lines
<1>6. \A k \in DOMAIN d.lines : /\ s.lines[k] \in DispatchLine
                                /\ s.lines[k].of = d.lines[k].of /\ s.lines[k].sent = d.lines[k].sent
  BY <1>4, <1>5
<1>7. IsDispatch(s)
  BY <1>1, <1>3, <1>5, <1>6 DEF IsDispatch
<1>8. ASSUME NEW g  PROVE SentIn(s, g) = SentIn(d, g)
  <2> DEFINE a == [k \in DOMAIN s.lines |-> IF s.lines[k].of = g THEN s.lines[k].sent ELSE 0]
             b == [k \in DOMAIN d.lines |-> IF d.lines[k].of = g THEN d.lines[k].sent ELSE 0]
  <2>1. a = b
    BY <1>5, <1>6
  <2>2. SentIn(s, g) = SumFunction(a) /\ SentIn(d, g) = SumFunction(b)
    BY DEF SentIn
  <2> HIDE DEF a, b
  <2> QED
    BY <2>1, <2>2
<1>9. CarriesItsBatch(s)
  <2> SUFFICES ASSUME s.tag \in Batches  PROVE CarriesItsBatch(s)
    BY DEF CarriesItsBatch
  <2>1. d.tag \in BoughtBatches
        /\ \A g \in Goods : SentIn(d, g) = PiecesIn(items, OfBatch(g, d.tag))
    BY <1>3 DEF CarriesItsBatch
  <2>2. ASSUME NEW i \in PurchasedItems, items[i].state = s.tag
        PROVE  \E k \in DOMAIN s.lines :
                 s.lines[k].of = items[i].of /\ s.lines[k].sent = items[i].quantity
    <3>1. \E k \in DOMAIN d.lines :
            d.lines[k].of = items[i].of /\ d.lines[k].sent = items[i].quantity
      BY <1>3, <2>2 DEF CarriesItsBatch
    <3> QED
      BY <1>5, <1>6, <3>1
  <2> QED
    BY <1>3, <1>8, <2>1, <2>2 DEF CarriesItsBatch
<1> QED
  BY <1>3, <1>7, <1>9

LEMMA ReceiveKeepsInv ==
  ASSUME GoodsInv, NEW h \in Handlers, NEW n \in DOMAIN dispatches,
         NEW counts \in Counts(dispatches[n]), Receive(h, n, counts)
  PROVE  GoodsInv'
<1> DEFINE d == dispatches[n]
           new == Received(d, counts)
<1>1. /\ ~ IsCompleted(d)
      /\ dispatches' = [dispatches EXCEPT ![n] = new]
      /\ sync' = IF IsCompleted(new) THEN [sync EXCEPT ![h].step = "load"] ELSE sync
      /\ UNCHANGED <<items, status, stopped, settledLate>>
      /\ overlapped' = (overlapped \/ SyncRunning)
  BY DEF Receive
<1>2. dispatches \in Seq(Range(dispatches))
      /\ sync \in [Handlers -> SyncState] /\ {overlapped, stopped, settledLate} \subseteq BOOLEAN
      /\ \A e \in Range(dispatches) : IsDispatch(e) /\ CarriesItsBatch(e)
  BY DEF GoodsInv, TypeOK, DispatchesOK
<1>3. d \in Range(dispatches)
  BY DEF Range
<1>4. IsDispatch(new) /\ CarriesItsBatch(new) /\ new.tag = d.tag
  <2>1. counts \in Counts(d) /\ IsDispatch(d) /\ CarriesItsBatch(d)
    BY <1>2, <1>3
  <2> HIDE DEF d
  <2> QED
    BY <2>1, ReceiptKeepsWhatWasSent
<1> HIDE DEF new
<1>5. /\ DOMAIN dispatches' = DOMAIN dispatches
      /\ dispatches'[n] = new
      /\ \A m \in DOMAIN dispatches : m # n => dispatches'[m] = dispatches[m]
  BY <1>1
<1>6. \A m \in DOMAIN dispatches : dispatches'[m].tag = dispatches[m].tag
  BY <1>4, <1>5
<1>7. \A e \in Range(dispatches') : IsDispatch(e) /\ CarriesItsBatch(e)
  BY <1>2, <1>4, <1>5 DEF Range
<1>8. dispatches' \in Seq(Range(dispatches'))
  <2> DEFINE D == Range(dispatches')
  <2>1. \E k \in Nat : DOMAIN dispatches = 1 .. k
    BY <1>2
  <2>2. PICK k \in Nat : DOMAIN dispatches' = 1 .. k
    BY <1>5, <2>1
  <2>3. \A m \in 1 .. k : dispatches'[m] \in D
    BY <2>2 DEF Range
  <2>4. dispatches' = [m \in DOMAIN dispatches' |-> dispatches'[m]]
    BY <1>1
  <2> HIDE DEF D
  <2>5. dispatches' \in [1 .. k -> D]
    BY <2>2, <2>3, <2>4
  <2>6. dispatches' \in Seq(D)
    BY <2>5
  <2> QED
    BY <2>6 DEF D
<1>9. /\ sync' \in [Handlers -> SyncState]
      /\ \A k \in Handlers : sync'[k] = sync[k] \/ sync'[k].step = "load"
  BY <1>1, <1>2 DEF SyncState
<1>10. TypeOK'
  <2>1. {overlapped, stopped, settledLate}' \subseteq BOOLEAN
    BY <1>1, <1>2
  <2>2. items \in Seq(Item) /\ status \in Status
    BY DEF GoodsInv, TypeOK
  <2> QED
    BY <1>1, <1>7, <1>8, <1>9, <2>1, <2>2 DEF TypeOK, IsDispatch
<1>11. DispatchesOK'
  <2>1. TagsDiffer'
    BY <1>5, <1>6 DEF GoodsInv, DispatchesOK, TagsDiffer
  <2>2. \A e \in Range(dispatches') : CarriesItsBatch(e)'
    BY <1>1, <1>7 DEF CarriesItsBatch, BoughtBatches, PurchasedItems, SentIn
  <2> QED
    BY <2>1, <2>2 DEF DispatchesOK
<1>12. TotalsOK'
  BY <1>1 DEF GoodsInv, TotalsOK
<1>13. SyncsOK'
  <2>1. BoughtIsDelivered => BoughtIsDelivered'
    <3>1. PurchasedItems' = PurchasedItems /\ AllItemsResolved' = AllItemsResolved
      BY <1>1 DEF PurchasedItems, AllItemsResolved, PendingItems
    <3>2. ASSUME NEW e \in Range(dispatches), IsCompleted(e)  PROVE e \in Range(dispatches')
      <4>1. PICK m \in DOMAIN dispatches : e = dispatches[m]
        BY DEF Range
      <4>2. m # n
        BY <1>1, <3>2, <4>1
      <4> QED
        BY <1>5, <4>1, <4>2 DEF Range
    <3>3. \A i \in PurchasedItems : IsDelivered(items[i]) => IsDelivered(items[i])'
      BY <1>1, <3>2 DEF IsDelivered, IsCompleted, Open
    <3> QED
      BY <1>1, <3>1, <3>3 DEF BoughtIsDelivered
  <2>2. AllItemsResolved' = AllItemsResolved /\ BoughtBatches' = BoughtBatches
    BY <1>1 DEF AllItemsResolved, PendingItems, BoughtBatches, PurchasedItems
  <2>3. \A k \in Handlers : SyncOK(sync[k])
    BY DEF GoodsInv, SyncsOK
  <2>4. ASSUME NEW k \in Handlers  PROVE SyncOK(sync[k])'
    <3>1. SyncOK(sync[k])
      BY <2>3
    <3> QED
      BY <1>9, <2>1, <2>2, <3>1 DEF SyncOK
  <2>5. status' = "WAREHOUSE_COMPLETED" => BoughtIsDelivered'
    BY <1>1, <2>1 DEF GoodsInv, SyncsOK
  <2> QED
    BY <2>4, <2>5 DEF SyncsOK
<1> QED
  BY <1>10, <1>11, <1>12, <1>13 DEF GoodsInv

-----------------------------------------------------------------------------
(* The request follows its dispatches *)

\* A step that leaves the goods alone: what it must show is that the syncs, and
\* the status it may have saved, are true.
LEMMA GoodsAlone ==
  ASSUME GoodsInv, UNCHANGED <<items, dispatches>>,
         sync' \in [Handlers -> SyncState], \A k \in Handlers : SyncOK(sync'[k]),
         status' \in Status, status' = "WAREHOUSE_COMPLETED" => BoughtIsDelivered,
         {overlapped', stopped', settledLate'} \subseteq BOOLEAN
  PROVE  GoodsInv'
<1>1. TypeOK'
  BY DEF GoodsInv, TypeOK, IsDispatch
<1>2. DispatchesOK'
  <2>1. \A d \in Range(dispatches) : CarriesItsBatch(d)
    BY DEF GoodsInv, DispatchesOK
  <2>2. \A d \in Range(dispatches) : CarriesItsBatch(d)'
    BY <2>1 DEF CarriesItsBatch, BoughtBatches, PurchasedItems, SentIn
  <2> QED
    BY <2>2 DEF GoodsInv, DispatchesOK, TagsDiffer
<1>3. TotalsOK'
  BY DEF GoodsInv, TotalsOK
<1>4. /\ AllItemsResolved' = AllItemsResolved /\ BoughtBatches' = BoughtBatches
      /\ BoughtIsDelivered' = BoughtIsDelivered
  <2>1. PurchasedItems' = PurchasedItems /\ AllItemsResolved' = AllItemsResolved
    BY DEF PurchasedItems, AllItemsResolved, PendingItems
  <2>2. \A i \in PurchasedItems : IsDelivered(items[i])' = IsDelivered(items[i])
    BY DEF IsDelivered, IsCompleted, Open
  <2> QED
    BY <2>1, <2>2 DEF BoughtIsDelivered, BoughtBatches
<1>5. SyncsOK'
  BY <1>4 DEF SyncsOK, SyncOK
<1> QED
  BY <1>1, <1>2, <1>3, <1>5 DEF GoodsInv

LEMMA HandlerKeepsInv ==
  ASSUME GoodsInv, NEW h \in Handlers, NEW s \in SyncState, SyncOK(s),
         sync' = [sync EXCEPT ![h] = s], UNCHANGED <<items, dispatches>>,
         status' \in Status, status' = "WAREHOUSE_COMPLETED" => BoughtIsDelivered,
         {overlapped', stopped', settledLate'} \subseteq BOOLEAN
  PROVE  GoodsInv'
<1>1. sync \in [Handlers -> SyncState] /\ \A k \in Handlers : SyncOK(sync[k])
  BY DEF GoodsInv, TypeOK, SyncsOK
<1>2. sync' \in [Handlers -> SyncState] /\ \A k \in Handlers : sync'[k] = sync[k] \/ sync'[k] = s
  BY <1>1
<1>3. \A k \in Handlers : SyncOK(sync'[k])
  BY <1>1, <1>2
<1> QED
  BY <1>2, <1>3, GoodsAlone

LEMMA IdleIsOK == Idle \in SyncState /\ SyncOK(Idle)
BY DEF Idle, SyncState, SyncOK, Status

LEMMA SyncKeepsInv == ASSUME GoodsInv, NEW h \in Handlers, Sync(h)  PROVE GoodsInv'
<1>1. /\ items \in Seq(Item) /\ status \in Status /\ sync[h] \in SyncState /\ SyncOK(sync[h])
      /\ {overlapped, stopped, settledLate} \subseteq BOOLEAN
      /\ (status = "WAREHOUSE_COMPLETED" => BoughtIsDelivered)
  BY DEF GoodsInv, TypeOK, SyncsOK
<1>2. CASE SyncLoad(h)
  <2> DEFINE s == [step |-> "read", seen |-> status, waiting |-> ~AllItemsResolved,
                   bought |-> BoughtBatches]
  <2>1. sync' = [sync EXCEPT ![h] = s] /\ UNCHANGED <<items, status, dispatches, troubles>>
    BY <1>2 DEF SyncLoad
  <2>2. BoughtBatches \in SUBSET Batches /\ (~ AllItemsResolved) \in BOOLEAN
    BY DEF BoughtBatches, PurchasedItems
  <2>3. s \in SyncState
    BY <1>1, <2>2 DEF SyncState
  <2>4. SyncOK(s)
    BY DEF SyncOK
  <2> HIDE DEF s
  <2> QED
    BY <1>1, <2>1, <2>3, <2>4, HandlerKeepsInv DEF troubles
<1>3. CASE SyncRead(h)
  <2> DEFINE next == WarehouseStatus(sync[h])
             saving == Saving(next)
             s == IF next = sync[h].seen THEN Idle ELSE saving
  <2>1. /\ sync[h].step = "read" /\ sync' = [sync EXCEPT ![h] = s]
        /\ UNCHANGED <<items, status, dispatches, troubles>>
    BY <1>3 DEF SyncRead
  <2>2. next \in Status
    BY <1>1 DEF WarehouseStatus, Status, SyncState
  <2>3. saving = [step |-> "save", seen |-> next, waiting |-> FALSE, bought |-> {}]
    BY DEF Saving
  <2>4. next = "WAREHOUSE_COMPLETED" /\ next # sync[h].seen => BoughtIsDelivered
    <3> SUFFICES ASSUME next = "WAREHOUSE_COMPLETED", next # sync[h].seen
                 PROVE  BoughtIsDelivered
      OBVIOUS
    <3>1. ~ sync[h].waiting /\ AllDispatched(sync[h].bought) /\ AllDispatchesCompleted
      BY DEF WarehouseStatus
    <3>2. AllItemsResolved /\ sync[h].bought = BoughtBatches
      BY <1>1, <2>1, <3>1 DEF SyncOK
    <3>3. ASSUME NEW i \in PurchasedItems  PROVE IsDelivered(items[i])
      <4>1. items[i].state \in BoughtBatches /\ items[i].state \in Batches
        BY DEF BoughtBatches, PurchasedItems
      <4>2. PICK d \in Range(dispatches) : d.tag = items[i].state
        BY <3>1, <3>2, <4>1 DEF AllDispatched
      <4>3. IsCompleted(d)
        BY <3>1 DEF AllDispatchesCompleted
      <4>4. CarriesItsBatch(d)
        BY DEF GoodsInv, DispatchesOK
      <4> QED
        BY <4>1, <4>2, <4>3, <4>4 DEF CarriesItsBatch, IsDelivered
    <3> QED
      BY <3>2, <3>3 DEF BoughtIsDelivered
  <2> HIDE DEF next
  <2>5. saving \in SyncState
    BY <2>2, <2>3 DEF SyncState
  <2>6. next # sync[h].seen => SyncOK(saving)
    BY <2>3, <2>4 DEF SyncOK
  <2> HIDE DEF saving
  <2>7. s \in SyncState /\ SyncOK(s)
    BY <2>5, <2>6, IdleIsOK
  <2> HIDE DEF s
  <2> QED
    BY <1>1, <2>1, <2>7, HandlerKeepsInv DEF troubles
<1>4. CASE SyncSave(h)
  <2>1. /\ sync[h].step = "save" /\ status' = sync[h].seen
        /\ sync' = [sync EXCEPT ![h] = Idle] /\ UNCHANGED <<items, dispatches, troubles>>
    BY <1>4 DEF SyncSave
  <2>2. sync[h].seen \in Status
    BY <1>1 DEF SyncState
  <2>3. sync[h].seen = "WAREHOUSE_COMPLETED" => BoughtIsDelivered
    BY <1>1, <2>1 DEF SyncOK
  <2> QED
    BY <1>1, <2>1, <2>2, <2>3, IdleIsOK, HandlerKeepsInv DEF troubles
<1> QED
  BY <1>2, <1>3, <1>4 DEF Sync

LEMMA StopKeepsInv == ASSUME GoodsInv, NEW h \in Handlers, Stop(h)  PROVE GoodsInv'
<1>1. /\ status \in Status /\ {overlapped, stopped, settledLate} \subseteq BOOLEAN
      /\ (status = "WAREHOUSE_COMPLETED" => BoughtIsDelivered)
  BY DEF GoodsInv, TypeOK, SyncsOK
<1>2. /\ sync' = [sync EXCEPT ![h] = Idle] /\ stopped' = TRUE
      /\ UNCHANGED <<items, status, dispatches, overlapped, settledLate>>
  BY DEF Stop
<1>3. {overlapped', stopped', settledLate'} \subseteq BOOLEAN
  BY <1>1, <1>2
<1> QED
  BY <1>1, <1>2, <1>3, IdleIsOK, HandlerKeepsInv

LEMMA GoodsNext == GoodsInv /\ [Next]_vars => GoodsInv'
<1> SUFFICES ASSUME GoodsInv, [Next]_vars  PROVE GoodsInv'
  OBVIOUS
<1>1. CASE Buy
  BY <1>1, BuyKeepsInv
<1>2. ASSUME NEW h \in Handlers, Ship(h)  PROVE GoodsInv'
  BY <1>2, CreateKeepsInv, ReceiveKeepsInv DEF Ship
<1>3. ASSUME NEW h \in Handlers, Sync(h)  PROVE GoodsInv'
  BY <1>3, SyncKeepsInv
<1>4. ASSUME NEW h \in Handlers, Stop(h)  PROVE GoodsInv'
  BY <1>4, StopKeepsInv
<1>5. CASE UNCHANGED vars
  <2>1. UNCHANGED <<items, dispatches>> /\ sync' = sync /\ status' = status
        /\ {overlapped', stopped', settledLate'} = {overlapped, stopped, settledLate}
    BY <1>5 DEF vars, troubles
  <2>2. /\ status \in Status /\ sync \in [Handlers -> SyncState]
        /\ {overlapped, stopped, settledLate} \subseteq BOOLEAN
        /\ \A k \in Handlers : SyncOK(sync[k])
        /\ (status = "WAREHOUSE_COMPLETED" => BoughtIsDelivered)
    BY DEF GoodsInv, TypeOK, SyncsOK
  <2>3. {overlapped', stopped', settledLate'} \subseteq BOOLEAN
    BY <2>1, <2>2
  <2>4. /\ status' \in Status /\ sync' \in [Handlers -> SyncState]
        /\ \A k \in Handlers : SyncOK(sync'[k])
        /\ (status' = "WAREHOUSE_COMPLETED" => BoughtIsDelivered)
    BY <2>1, <2>2
  <2> QED
    BY <2>1, <2>3, <2>4, GoodsAlone
<1> QED
  BY <1>1, <1>2, <1>3, <1>4, <1>5 DEF Next

-----------------------------------------------------------------------------
(* The properties *)

\* The request is completed only when all that was bought is delivered.
LEMMA InvCompletedDelivered == GoodsInv => CompletedIsDelivered
BY DEF GoodsInv, SyncsOK, CompletedIsDelivered

\* What was sent in the first k dispatches is what was bought in their batches.
LEMMA SentIsBought ==
  ASSUME GoodsInv, NEW g \in Goods, \A d \in Range(dispatches) : d.tag \in Batches
  PROVE  SentOf(g) <= PiecesIn(items, OfBatches(g, Batches))
<1> DEFINE n == Len(dispatches)
           v == [m \in DOMAIN dispatches |-> SentIn(dispatches[m], g)]
           Of(k) == {dispatches[m].tag : m \in 1 .. k}
           Bought(k) == PiecesIn(items, OfBatches(g, Of(k)))
           T == {k \in 0 .. n : SumFunctionOnSet(v, 1 .. k) = Bought(k)}
<1>1. items \in Seq(Item) /\ n \in Nat /\ DOMAIN dispatches = 1 .. n
  BY DEF GoodsInv, TypeOK
<1>2. ASSUME NEW m \in 1 .. n
      PROVE  /\ dispatches[m].tag \in Batches
             /\ v[m] = PiecesIn(items, OfBatch(g, dispatches[m].tag))
             /\ v[m] \in Int
  <2>1. dispatches[m] \in Range(dispatches)
    BY <1>1 DEF Range
  <2>2. dispatches[m].tag \in Batches /\ CarriesItsBatch(dispatches[m])
    BY <2>1 DEF GoodsInv, DispatchesOK
  <2>3. v[m] = PiecesIn(items, OfBatch(g, dispatches[m].tag))
    BY <1>1, <2>2 DEF CarriesItsBatch
  <2> HIDE DEF v
  <2> QED
    BY <1>1, <2>2, <2>3, PiecesAreInt
<1>3. SentOf(g) = SumFunctionOnSet(v, 1 .. n)
  BY <1>1 DEF SentOf, SumFunction
<1> HIDE DEF v, n
<1>4. 0 \in T
  <2>1. SumFunctionOnSet(v, 1 .. 0) = 0
    <3>1. 1 .. 0 = {}
      OBVIOUS
    <3> QED
      BY <3>1, SumOfNone
  <2>2. Of(0) = {}
    OBVIOUS
  <2>3. PiecesIn(items, OfBatches(g, {})) = 0
    <3> DEFINE f == [i \in DOMAIN items |-> items[i].quantity]
    <3>1. {i \in DOMAIN items : items[i] \in OfBatches(g, {})} = {}
      BY DEF OfBatches
    <3>2. PiecesIn(items, OfBatches(g, {})) = SumFunctionOnSet(f, {})
      BY <3>1 DEF PiecesIn
    <3> HIDE DEF f
    <3> QED
      BY <3>2, SumOfNone
  <2> HIDE DEF Of
  <2>4. Bought(0) = 0
    BY <2>2, <2>3
  <2> HIDE DEF Bought
  <2>5. 0 \in 0 .. n
    BY <1>1
  <2> QED
    BY <2>1, <2>4, <2>5
<1>5. ASSUME NEW k \in 0 .. n, k \in T, k < n  PROVE k + 1 \in T
  <2>1. k \in Nat /\ k + 1 \in 1 .. n /\ k + 1 \in 0 .. n
    BY <1>1, <1>5
  <2>2. SumFunctionOnSet(v, 1 .. (k + 1)) = SumFunctionOnSet(v, 1 .. k) + v[k + 1]
    <3>1. \A i \in 1 .. (k + 1) : v[i] \in Int
      BY <1>1, <1>2, <2>1
    <3> QED
      BY <2>1, <3>1, SumNext
  <2> DEFINE tag == dispatches[k + 1].tag
             P == OfBatches(g, Of(k))
             Q == OfBatch(g, tag)
             R == OfBatches(g, Of(k + 1))
  <2>3. Of(k + 1) = Of(k) \cup {tag}
    <3>1. 1 .. (k + 1) = (1 .. k) \cup {k + 1}
      BY <2>1
    <3> QED
      BY <3>1
  <2>4. tag \notin Of(k)
    <3>1. TagsDiffer
      BY DEF GoodsInv, DispatchesOK
    <3>2. ASSUME NEW m \in 1 .. k  PROVE dispatches[m].tag # tag
      <4>1. m \in DOMAIN dispatches /\ k + 1 \in DOMAIN dispatches /\ m # k + 1
        BY <1>1, <2>1
      <4> QED
        BY <3>1, <4>1 DEF TagsDiffer
    <3> QED
      BY <3>2
  <2> HIDE DEF Of, tag
  <2>5. \A item \in Item : Weight(R)[item] = Weight(P)[item] + Weight(Q)[item]
    <3> SUFFICES ASSUME NEW item \in Item
                 PROVE  Weight(R)[item] = Weight(P)[item] + Weight(Q)[item]
      OBVIOUS
    <3>1. /\ item \in R <=> item \in P \/ item \in Q
          /\ ~ (item \in P /\ item \in Q)
      BY <2>3, <2>4 DEF OfBatches, OfBatch
    <3> HIDE DEF P, Q, R
    <3>2. /\ Weight(R)[item] = IF item \in R THEN item.quantity ELSE 0
          /\ Weight(P)[item] = IF item \in P THEN item.quantity ELSE 0
          /\ Weight(Q)[item] = IF item \in Q THEN item.quantity ELSE 0
          /\ item.quantity \in Nat
      BY WeightIs
    <3> QED
      BY <3>1, <3>2
  <2>6. PiecesIn(items, R) = PiecesIn(items, P) + PiecesIn(items, Q)
    <3> HIDE DEF P, Q, R
    <3> QED
      BY <1>1, <2>5, PiecesSplit
  <2>7. v[k + 1] = PiecesIn(items, Q)
    BY <1>2, <2>1 DEF tag
  <2>8. SumFunctionOnSet(v, 1 .. k) = PiecesIn(items, P)
    BY <1>5
  <2> HIDE DEF P, Q
  <2>9. SumFunctionOnSet(v, 1 .. (k + 1)) = PiecesIn(items, R)
    BY <2>2, <2>6, <2>7, <2>8
  <2> QED
    BY <2>1, <2>9
<1>6. n \in T
  <2>1. T \in SUBSET (0 .. n)
    OBVIOUS
  <2>2. n \in 0 .. n
    BY <1>1
  <2> HIDE DEF T
  <2>3. T = 0 .. n
    BY <1>1, <1>4, <1>5, <2>1, UpTo
  <2> QED
    BY <2>2, <2>3
<1>7. Bought(n) <= PiecesIn(items, OfBatches(g, Batches))
  <2>1. Of(n) \subseteq Batches
    BY <1>2
  <2> HIDE DEF Of
  <2>2. \A item \in Item : item \in OfBatches(g, Of(n)) => item \in OfBatches(g, Batches)
    BY <2>1 DEF OfBatches
  <2> QED
    BY <1>1, <2>2, PiecesAtMost
<1> HIDE DEF Bought
<1> QED
  BY <1>3, <1>6, <1>7

LEMMA InvGoodsAccounted == GoodsInv => GoodsAreAccountedFor
<1> SUFFICES ASSUME GoodsInv, NEW g \in Goods
             PROVE  LET quantities == Statistics(g)
                    IN  /\ quantities.total = Requested[g]
                        /\ quantities.purchased + quantities.unavailable + quantities.waiting
                             = quantities.total
                        /\ (\A d \in Range(dispatches) : d.tag \in Batches) =>
                             SentOf(g) <= quantities.purchased
  BY DEF GoodsAreAccountedFor
<1> DEFINE lines == {i \in DOMAIN items : items[i].of = g}
           P == OfBatches(g, Batches)
           U == OfBatch(g, Unavailable)
           W == OfBatch(g, Pending)
           PU == OfBatches(g, Batches \cup {Unavailable})
<1>1. items \in Seq(Item) /\ \A i \in DOMAIN items : items[i] \in Item
  <2>1. items \in Seq(Item)
    BY DEF GoodsInv, TypeOK
  <2> QED
    BY <2>1, ElementOfSeq
<1>2. QuantityOf(lines) = PiecesIn(items, OfGood(g))
  <2>1. lines = {i \in DOMAIN items : items[i] \in OfGood(g)}
    BY <1>1 DEF OfGood
  <2> QED
    BY <2>1, QuantityIsPieces
<1>3. QuantityOf(lines \cap PurchasedItems) = PiecesIn(items, P)
  <2>1. lines \cap PurchasedItems = {i \in DOMAIN items : items[i] \in P}
    BY <1>1 DEF OfBatches, PurchasedItems
  <2> QED
    BY <2>1, QuantityIsPieces
<1>4. QuantityOf({i \in lines : items[i].state = Unavailable}) = PiecesIn(items, U)
  <2>1. {i \in lines : items[i].state = Unavailable} = {i \in DOMAIN items : items[i] \in U}
    BY <1>1 DEF OfBatch
  <2> QED
    BY <2>1, QuantityIsPieces
<1>5. QuantityOf(lines \cap PendingItems) = PiecesIn(items, W)
  <2>1. lines \cap PendingItems = {i \in DOMAIN items : items[i] \in W}
    BY <1>1 DEF OfBatch, PendingItems
  <2> QED
    BY <2>1, QuantityIsPieces
<1>6. ASSUME NEW item \in Item
      PROVE  /\ item \in PU <=> item \in P \/ item \in U
             /\ ~ (item \in P /\ item \in U)
             /\ item \in OfGood(g) <=> item \in PU \/ item \in W
             /\ ~ (item \in PU /\ item \in W)
  <2>1. item.state \in {Pending, Unavailable} \cup Batches
    BY DEF Item
  <2>2. Pending # Unavailable /\ Pending \notin Batches /\ Unavailable \notin Batches
    BY GoodsAssumption DEF Pending, Unavailable
  <2> QED
    BY <2>1, <2>2 DEF OfGood, OfBatch, OfBatches
<1>7. \A item \in Item : Weight(PU)[item] = Weight(P)[item] + Weight(U)[item]
  <2> HIDE DEF P, U, PU, W
  <2> QED
    BY <1>6, WeightIs
<1>8. \A item \in Item : Weight(OfGood(g))[item] = Weight(PU)[item] + Weight(W)[item]
  <2> HIDE DEF P, U, PU, W
  <2> QED
    BY <1>6, WeightIs
<1>9. (\A d \in Range(dispatches) : d.tag \in Batches) => SentOf(g) <= PiecesIn(items, P)
  BY SentIsBought
<1>10. PiecesIn(items, OfGood(g)) = Requested[g]
  BY DEF GoodsInv, TotalsOK
<1> HIDE DEF P, U, W, PU
<1>11. PiecesIn(items, PU) = PiecesIn(items, P) + PiecesIn(items, U)
  BY <1>1, <1>7, PiecesSplit
<1>12. PiecesIn(items, OfGood(g)) = PiecesIn(items, PU) + PiecesIn(items, W)
  BY <1>1, <1>8, PiecesSplit
<1>13. /\ PiecesIn(items, P) \in Nat /\ PiecesIn(items, U) \in Nat /\ PiecesIn(items, W) \in Nat
  BY <1>1, PiecesAreInt
<1>14. /\ Statistics(g).total = PiecesIn(items, OfGood(g))
       /\ Statistics(g).purchased = PiecesIn(items, P)
       /\ Statistics(g).unavailable = PiecesIn(items, U)
       /\ Statistics(g).waiting = PiecesIn(items, W)
  BY <1>2, <1>3, <1>4, <1>5 DEF Statistics
<1> QED
  BY <1>9, <1>10, <1>11, <1>12, <1>13, <1>14

-----------------------------------------------------------------------------

\* Items, dispatches and syncs keep their types, in particular no line is
\* left with zero pieces when it is split, for any goods, quantities, batches and handlers.
THEOREM GoodsTypes == Spec => []TypeOK
<1>1. GoodsInv => TypeOK
  BY DEF GoodsInv
<1> QED
  BY <1>1, GoodsInitially, GoodsNext, PTL DEF Spec

\* Splitting lines (completePurchase, markItemsUnavailable) neither makes nor
\* loses a piece of any good, and no more is sent than was bought as long as
\* every dispatch names its batch (create, resolveBatchItemIndexes).
THEOREM GoodsAccounted == Spec => []GoodsAreAccountedFor
<1> QED
  BY InvGoodsAccounted, GoodsInitially, GoodsNext, PTL DEF Spec

\* However the syncs of the handlers overlap or are cut short
\* (syncPurchaseRequestWarehouseStatus), a request that is completed has every
\* piece that was bought received or refused under a dispatch of its own batch.
THEOREM CompletedDelivered == Spec => []CompletedIsDelivered
<1> QED
  BY InvCompletedDelivered, GoodsInitially, GoodsNext, PTL DEF Spec

===============================================================================
