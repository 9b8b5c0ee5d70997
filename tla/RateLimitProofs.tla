--------------------------- MODULE RateLimitProofs ---------------------------
(* The rate limiter for any keys, limits, windows and logins: it answers   *)
(* as a sliding window that never forgets, and bounds the failures.        *)
EXTENDS LoginRateLimit, FiniteSetTheorems, SequenceTheorems, LeastNumber

LEMMA RuleType ==
    ASSUME NEW k \in Key
    PROVE  Max[k] \in Nat /\ Window[k] \in Nat
BY RateLimitAssumption

LEMMA StaleAgeType ==
    ASSUME NEW k \in Key
    PROVE  StaleAge(k) \in Nat /\ Window[k] <= StaleAge(k)
<1>1. Window[k] \in Nat /\ StaleMultiplier \in Nat /\ 1 <= StaleMultiplier /\ MinStale \in Nat
  BY RateLimitAssumption, RuleType
<1>2. Window[k] * StaleMultiplier \in Nat /\ Window[k] <= Window[k] * StaleMultiplier
  BY <1>1
<1> QED
  BY <1>1, <1>2 DEF StaleAge

LEMMA PairType ==
    ASSUME NEW p \in LoginKeys \cup ConsumeKeys
    PROVE  p[1] \in Key /\ p[2] \in Key /\ p[1] # p[2]
BY RateLimitAssumption DEF Key

-----------------------------------------------------------------------------
(* What pruning leaves.                                                    *)
LEMMA Pruned ==
    ASSUME NEW h \in Seq(Nat), NEW c \in Int
    PROVE  \E n \in 0..Len(h) :
              /\ Prune(h, c) = SubSeq(h, n + 1, Len(h))
              /\ \A i \in 1..n : h[i] <= c
              /\ n < Len(h) => h[n + 1] > c
<1> DEFINE Old == {n \in 0..Len(h) : \A i \in 1..n : h[i] <= c}
<1>1. Len(h) \in Nat /\ \A i \in 1..Len(h) : h[i] \in Nat
  OBVIOUS
<1>2. Old \in SUBSET Nat /\ Old # {} /\ \A n \in Old : n <= Len(h)
  <2>1. 0 \in Old
    BY <1>1
  <2> QED
    BY <1>1, <2>1
<1>3. PICK m \in Old : \A n \in Old : n <= m
  <2> HIDE DEF Old
  <2> QED
    BY <1>1, <1>2, Greatest
<1>4. m \in Nat /\ m <= Len(h) /\ \A i \in 1..m : h[i] <= c
  BY <1>1, <1>3
<1>5. m < Len(h) => h[m + 1] > c
  <2> SUFFICES ASSUME m < Len(h), ~(h[m + 1] > c) PROVE FALSE
      OBVIOUS
  <2>1. m + 1 \in 1..Len(h) /\ h[m + 1] \in Nat
    BY <1>1, <1>4
  <2>2. h[m + 1] <= c
    BY <2>1
  <2>3. \A i \in 1..(m + 1) : h[i] <= c
    <3> TAKE i \in 1..(m + 1)
    <3>1. CASE i = m + 1
      BY <2>2, <3>1
    <3>2. CASE i # m + 1
      <4>1. i \in 1..m
        BY <1>4, <3>2
      <4> QED
        BY <1>4, <4>1
    <3> QED
      BY <3>1, <3>2
  <2>4. m + 1 \in Old
    BY <2>1, <2>3, <1>1
  <2> HIDE DEF Old
  <2> QED
    BY <1>3, <1>4, <2>4
<1> DEFINE popped == CHOOSE n \in 0..Len(h) :
                        /\ \A i \in 1..n : h[i] <= c
                        /\ n < Len(h) => h[n + 1] > c
<1>6. /\ popped \in 0..Len(h) /\ \A i \in 1..popped : h[i] <= c
      /\ popped < Len(h) => h[popped + 1] > c
  BY <1>1, <1>4, <1>5
<1>7. Prune(h, c) = SubSeq(h, popped + 1, Len(h))
  BY DEF Prune
<1> HIDE DEF popped
<1> QED
  BY <1>6, <1>7

(* h is what is left of g after some times, all out of the window.         *)
LeftOf(h, g, c) ==
    \E n \in 0..Len(g) : h = SubSeq(g, n + 1, Len(g)) /\ \A i \in 1..n : g[i] <= c

Ascending(g) == \A i, j \in 1..Len(g) : i <= j => g[i] <= g[j]

LEMMA SubSeqElements ==
    ASSUME NEW g \in Seq(Nat), NEW n \in 0..Len(g)
    PROVE  LET h == SubSeq(g, n + 1, Len(g)) IN
           /\ h \in Seq(Nat) /\ Len(h) = Len(g) - n
           /\ \A i \in 1..Len(h) : h[i] = g[n + i]
<1>1. Len(g) \in Nat /\ \A i \in n + 1 .. Len(g) : g[i] \in Nat
  OBVIOUS
<1>2. n + 1 \in Int /\ Len(g) \in Int
  BY <1>1
<1> DEFINE h == SubSeq(g, n + 1, Len(g))
<1>3. /\ h \in Seq(Nat)
      /\ Len(h) = IF n + 1 <= Len(g) THEN Len(g) - (n + 1) + 1 ELSE 0
      /\ \A i \in 1 .. Len(g) - (n + 1) + 1 : h[i] = g[(n + 1) + i - 1]
  BY <1>1, <1>2, SubSeqProperties
<1> HIDE DEF h
<1>4. Len(h) = Len(g) - n
  BY <1>1, <1>3
<1>5. \A i \in 1..Len(h) : (n + 1) + i - 1 = n + i /\ i \in 1 .. Len(g) - (n + 1) + 1
  BY <1>1, <1>4
<1>6. \A i \in 1..Len(h) : h[i] = g[n + i]
  BY <1>3, <1>5
<1>7. h \in Seq(Nat) /\ Len(h) = Len(g) - n /\ \A i \in 1..Len(h) : h[i] = g[n + i]
  BY <1>3, <1>4, <1>6
<1> QED
  BY <1>7 DEF h

(* The times left after pruning are those in the window.                   *)
LEMMA PrunedIsWindow ==
    ASSUME NEW g \in Seq(Nat), Ascending(g), NEW h \in Seq(Nat), NEW c \in Int,
           LeftOf(h, g, c)
    PROVE  \E n \in 0..Len(g) :
              /\ Prune(h, c) = SubSeq(g, n + 1, Len(g))
              /\ \A i \in 1..Len(g) : g[i] <= c <=> i <= n
<1>1. Len(g) \in Nat /\ \A i \in 1..Len(g) : g[i] \in Nat
  OBVIOUS
<1>2. PICK a \in 0..Len(g) : h = SubSeq(g, a + 1, Len(g)) /\ \A i \in 1..a : g[i] <= c
  BY DEF LeftOf
<1>3. /\ Len(h) = Len(g) - a
      /\ \A i \in 1..Len(h) : h[i] = g[a + i]
  BY <1>2, SubSeqElements
<1>4. PICK b \in 0..Len(h) :
              /\ Prune(h, c) = SubSeq(h, b + 1, Len(h))
              /\ \A i \in 1..b : h[i] <= c
              /\ b < Len(h) => h[b + 1] > c
  BY Pruned
<1> DEFINE n == a + b
<1>5. a \in Nat /\ b \in Nat /\ a <= Len(g) /\ b <= Len(h) /\ Len(h) \in Nat
  BY <1>1, <1>2, <1>4
<1>6. n \in 0..Len(g)
  BY <1>1, <1>3, <1>5
<1>7. Prune(h, c) = SubSeq(g, n + 1, Len(g))
  <2> DEFINE left == SubSeq(h, b + 1, Len(h))
             right == SubSeq(g, n + 1, Len(g))
  <2>1. /\ left \in Seq(Nat) /\ Len(left) = Len(h) - b
        /\ \A i \in 1..Len(left) : left[i] = h[b + i]
    BY <1>4, SubSeqElements
  <2>2. /\ right \in Seq(Nat) /\ Len(right) = Len(g) - n
        /\ \A i \in 1..Len(right) : right[i] = g[n + i]
    <3> HIDE DEF n
    <3> QED
      BY <1>6, SubSeqElements
  <2> HIDE DEF left, right
  <2>3. Len(left) = Len(right)
    BY <1>1, <1>3, <1>5, <2>1, <2>2
  <2>4. ASSUME NEW i \in 1..Len(left) PROVE left[i] = right[i]
    <3>1. b + i \in 1..Len(h) /\ a + (b + i) = n + i
      BY <1>5, <2>1
    <3>2. left[i] = h[b + i] /\ right[i] = g[n + i]
      BY <2>1, <2>2, <2>3, <2>4
    <3> QED
      BY <1>3, <3>1, <3>2
  <2>5. left = right
    BY <2>1, <2>2, <2>3, <2>4, SeqEqual
  <2> QED
    BY <1>4, <2>5 DEF left, right
<1>8. ASSUME NEW i \in 1..Len(g), i <= n PROVE g[i] <= c
  <2>1. CASE i <= a
    BY <1>2, <2>1
  <2>2. CASE ~(i <= a)
    <3>1. i - a \in 1..b /\ i - a \in 1..Len(h) /\ a + (i - a) = i
      BY <1>5, <1>8, <2>2
    <3> QED
      BY <1>3, <1>4, <3>1
  <2> QED
    BY <2>1, <2>2
<1>9. ASSUME NEW i \in 1..Len(g), ~(i <= n) PROVE ~(g[i] <= c)
  <2>1. b < Len(h) /\ b + 1 \in 1..Len(h) /\ a + (b + 1) = n + 1 /\ n + 1 \in 1..Len(g)
        /\ n + 1 <= i
    BY <1>1, <1>3, <1>5, <1>9
  <2>2. g[n + 1] > c
    <3>1. h[b + 1] = g[a + (b + 1)]
      BY <1>3, <2>1
    <3> QED
      BY <1>4, <2>1, <3>1
  <2>3. g[n + 1] <= g[i]
    BY <2>1 DEF Ascending
  <2>4. g[n + 1] \in Nat /\ g[i] \in Nat
    BY <1>1, <2>1
  <2> HIDE DEF n
  <2> QED
    BY <2>2, <2>3, <2>4
<1> HIDE DEF n
<1> QED
  BY <1>6, <1>7, <1>8, <1>9

-----------------------------------------------------------------------------
(* What memory holds of one key: h, the times kept, s, when it was last    *)
(* seen, when g are the times of all attempts recorded with it and t is    *)
(* the present.                                                            *)
KeyOK(h, s, g, k, t) ==
    /\ h \in Seq(Nat) /\ s \in Nat /\ g \in Seq(Nat)
    /\ s <= t /\ \A i \in 1..Len(h) : h[i] <= s
    /\ Ascending(g) /\ \A i \in 1..Len(g) : g[i] <= t
    /\ LeftOf(h, g, t - Window[k])
    /\ Len(h) <= Max[k]
    /\ ~IsOn(k) => g = <<>>

WindowOf(g, c) == {i \in DOMAIN g : g[i] > c}

LEMMA KeyPruned ==
    ASSUME NEW k \in Key, NEW h, NEW s, NEW g, NEW t \in Nat, KeyOK(h, s, g, k, t),
           NEW u \in Nat, s <= u, u <= t
    PROVE  LET left == Prune(h, t - Window[k]) IN
           /\ KeyOK(left, u, g, k, t)
           /\ Len(left) = Cardinality(WindowOf(g, t - Window[k]))
           /\ IF left = <<>> THEN KeyOK(<<>>, 0, g, k, t) ELSE s > t - Window[k]
<1> DEFINE c == t - Window[k]
           left == Prune(h, c)
<1>1. c \in Int /\ Max[k] \in Nat
  BY RuleType
<1>2. /\ h \in Seq(Nat) /\ s \in Nat /\ g \in Seq(Nat) /\ Ascending(g)
      /\ Len(g) \in Nat /\ Len(h) \in Nat
  BY DEF KeyOK
<1>3. PICK n \in 0..Len(g) : /\ left = SubSeq(g, n + 1, Len(g))
                             /\ \A i \in 1..Len(g) : g[i] <= c <=> i <= n
  <2>1. LeftOf(h, g, c)
    BY DEF KeyOK
  <2> HIDE DEF c
  <2> QED
    BY <1>1, <1>2, <2>1, PrunedIsWindow
<1>4. PICK b \in 0..Len(h) : /\ left = SubSeq(h, b + 1, Len(h))
                             /\ b < Len(h) => h[b + 1] > c
  <2> HIDE DEF c
  <2> QED
    BY <1>1, <1>2, Pruned
<1> HIDE DEF left, c
<1>5. left \in Seq(Nat) /\ Len(left) = Len(g) - n
  BY <1>2, <1>3, SubSeqElements
<1>6. Len(left) = Len(h) - b /\ \A i \in 1..Len(left) : left[i] = h[b + i]
  BY <1>2, <1>4, SubSeqElements
<1>7. ASSUME NEW i \in 1..Len(left) PROVE left[i] <= u
  <2>1. b + i \in 1..Len(h)
    BY <1>2, <1>4, <1>6
  <2>2. h[b + i] \in Nat /\ h[b + i] <= s
    BY <1>2, <2>1 DEF KeyOK
  <2> QED
    BY <1>2, <1>6, <2>2
<1>8. LeftOf(left, g, c)
  <2>1. \A i \in 1..n : i \in 1..Len(g) /\ i <= n
    BY <1>2, <1>3
  <2> QED
    BY <1>3, <2>1 DEF LeftOf
<1>9. Len(left) <= Max[k]
  <2>1. Len(h) <= Max[k] /\ b \in Nat
    BY <1>4 DEF KeyOK
  <2> QED
    BY <1>1, <1>2, <1>6, <2>1
<1>10. KeyOK(left, u, g, k, t)
  BY <1>5, <1>7, <1>8, <1>9 DEF KeyOK, c
<1>11. Len(left) = Cardinality(WindowOf(g, c))
  <2>1. WindowOf(g, c) = n + 1 .. Len(g)
    <3>1. n \in Nat /\ DOMAIN g = 1..Len(g)
      BY <1>2, <1>3
    <3>2. ASSUME NEW i \in 1..Len(g) PROVE g[i] > c <=> i \in n + 1 .. Len(g)
      <4>1. g[i] \in Nat /\ i \in Nat /\ i <= Len(g) /\ (g[i] <= c <=> i <= n)
        BY <1>2, <1>3
      <4> QED
        BY <1>1, <1>2, <3>1, <4>1
    <3>3. \A i \in n + 1 .. Len(g) : i \in 1..Len(g)
      BY <1>2, <3>1
    <3> QED
      BY <3>1, <3>2, <3>3 DEF WindowOf
  <2>2. n + 1 \in Int /\ Len(g) \in Int /\ n <= Len(g)
    BY <1>2, <1>3
  <2>3. Cardinality(n + 1 .. Len(g)) = Len(g) - n
    <3>1. Cardinality(n + 1 .. Len(g)) = IF n + 1 > Len(g) THEN 0 ELSE Len(g) - (n + 1) + 1
      BY <2>2, FS_Interval
    <3> QED
      BY <1>3, <2>2, <3>1
  <2> QED
    BY <1>5, <2>1, <2>3
<1>12. CASE left = <<>>
  <2>1. KeyOK(<<>>, 0, g, k, t)
    BY <1>1, <1>10, <1>12 DEF KeyOK
  <2> QED
    BY <1>10, <1>11, <1>12, <2>1 DEF left, c
<1>13. CASE left # <<>>
  <2>1. Len(left) # 0
    BY <1>5, <1>13, EmptySeq
  <2>2. b < Len(h) /\ b + 1 \in 1..Len(h)
    BY <1>2, <1>4, <1>5, <1>6, <2>1
  <2>3. h[b + 1] > c /\ h[b + 1] <= s /\ h[b + 1] \in Nat
    BY <1>2, <1>4, <2>2 DEF KeyOK
  <2>4. s > c
    BY <1>1, <1>2, <2>3
  <2> QED
    BY <1>10, <1>11, <1>13, <2>4 DEF left, c
<1> QED
  BY <1>12, <1>13

LEMMA KeyRecorded ==
    ASSUME NEW k \in Key, NEW h, NEW g, NEW t \in Nat, KeyOK(h, t, g, k, t),
           IsOn(k), ~(Len(h) >= Max[k])
    PROVE  KeyOK(Append(h, t), t, Append(g, t), k, t)
<1>1. /\ h \in Seq(Nat) /\ g \in Seq(Nat) /\ Len(g) \in Nat /\ Len(h) \in Nat
      /\ Max[k] \in Nat
  BY RuleType DEF KeyOK
<1> DEFINE h2 == Append(h, t)
           g2 == Append(g, t)
<1>2. /\ h2 \in Seq(Nat) /\ Len(h2) = Len(h) + 1
      /\ \A i \in 1..Len(h) : h2[i] = h[i]
      /\ h2[Len(h) + 1] = t
  BY <1>1
<1>3. /\ g2 \in Seq(Nat) /\ Len(g2) = Len(g) + 1
      /\ \A i \in 1..Len(g) : g2[i] = g[i]
      /\ g2[Len(g) + 1] = t
  BY <1>1
<1> HIDE DEF h2, g2
<1>4. \A i \in 1..Len(h2) : h2[i] <= t
  <2> TAKE i \in 1..Len(h2)
  <2>1. i \in 1..Len(h) \/ i = Len(h) + 1
    BY <1>1, <1>2
  <2> QED
    BY <1>2, <2>1 DEF KeyOK
<1>5. \A i \in 1..Len(g2) : g2[i] <= t /\ (i \in 1..Len(g) \/ i = Len(g) + 1)
  <2> TAKE i \in 1..Len(g2)
  <2>1. i \in 1..Len(g) \/ i = Len(g) + 1
    BY <1>1, <1>3
  <2> QED
    BY <1>3, <2>1 DEF KeyOK
<1>6. Ascending(g2)
  <2> SUFFICES ASSUME NEW i \in 1..Len(g2), NEW j \in 1..Len(g2), i <= j
               PROVE  g2[i] <= g2[j]
      BY DEF Ascending
  <2>1. CASE j = Len(g) + 1
    BY <1>3, <1>5, <2>1
  <2>2. CASE j # Len(g) + 1
    <3>1. j \in 1..Len(g) /\ i \in 1..Len(g)
      BY <1>1, <1>3, <2>2
    <3>2. g[i] <= g[j]
      BY <3>1 DEF KeyOK, Ascending
    <3> QED
      BY <1>3, <3>1, <3>2
  <2> QED
    BY <2>1, <2>2
<1>7. LeftOf(h2, g2, t - Window[k])
  <2>1. PICK n \in 0..Len(g) : /\ h = SubSeq(g, n + 1, Len(g))
                               /\ \A i \in 1..n : g[i] <= t - Window[k]
    BY DEF KeyOK, LeftOf
  <2>2. n \in Nat /\ n <= Len(g) /\ n \in 0..Len(g2)
    BY <1>1, <1>3, <2>1
  <2>3. Len(h) = Len(g) - n /\ \A i \in 1..Len(h) : h[i] = g[n + i]
    BY <1>1, <2>1, SubSeqElements
  <2> DEFINE r == SubSeq(g2, n + 1, Len(g2))
  <2>4. /\ r \in Seq(Nat) /\ Len(r) = Len(g2) - n
        /\ \A i \in 1..Len(r) : r[i] = g2[n + i]
    BY <1>3, <2>2, SubSeqElements
  <2> HIDE DEF r
  <2>5. Len(h2) = Len(r)
    BY <1>1, <1>2, <1>3, <2>2, <2>3, <2>4
  <2>6. ASSUME NEW i \in 1..Len(h2) PROVE h2[i] = r[i]
    <3>1. r[i] = g2[n + i] /\ i \in 1..Len(h) + 1
      BY <1>2, <2>4, <2>5
    <3>2. CASE i = Len(h) + 1
      <4>1. n + i = Len(g) + 1
        BY <1>1, <2>2, <2>3, <3>2
      <4> QED
        BY <1>2, <1>3, <3>1, <3>2, <4>1
    <3>3. CASE i # Len(h) + 1
      <4>1. i \in 1..Len(h) /\ n + i \in 1..Len(g)
        <5>1. Len(h) = Len(g) - n
          BY <2>3
        <5>2. Len(h) \in Nat /\ i \in 1..(Len(h) + 1) /\ i # Len(h) + 1
          BY <1>1, <3>1, <3>3
        <5>3. i \in 1..Len(h)
          BY <5>2
        <5> QED
          BY <1>1, <2>2, <5>1, <5>3
      <4> QED
        BY <1>2, <1>3, <2>3, <3>1, <4>1
    <3> QED
      BY <3>2, <3>3
  <2>7. h2 = r
    BY <1>2, <2>4, <2>5, <2>6, SeqEqual
  <2>8. \A i \in 1..n : g2[i] <= t - Window[k]
    <3>1. \A i \in 1..n : i \in 1..Len(g)
      BY <1>1, <2>2
    <3> QED
      BY <1>3, <2>1, <3>1
  <2> QED
    BY <2>2, <2>7, <2>8 DEF LeftOf, r
<1>8. Len(h2) <= Max[k]
  BY <1>1, <1>2
<1> QED
  BY <1>2, <1>3, <1>4, <1>5, <1>6, <1>7, <1>8 DEF KeyOK, h2, g2

LEMMA KeyLater ==
    ASSUME NEW k \in Key, NEW h, NEW s, NEW g, NEW t \in Nat, KeyOK(h, s, g, k, t)
    PROVE  KeyOK(h, s, g, k, t + 1)
<1>1. /\ g \in Seq(Nat) /\ Len(g) \in Nat /\ s \in Nat /\ Window[k] \in Nat
      /\ \A i \in 1..Len(g) : g[i] \in Nat /\ g[i] <= t
  BY RuleType DEF KeyOK
<1>2. PICK n \in 0..Len(g) : /\ h = SubSeq(g, n + 1, Len(g))
                             /\ \A i \in 1..n : g[i] <= t - Window[k]
  BY DEF KeyOK, LeftOf
<1>3. \A i \in 1..n : g[i] <= (t + 1) - Window[k]
  <2> TAKE i \in 1..n
  <2>1. i \in 1..Len(g)
    BY <1>1, <1>2
  <2> QED
    BY <1>1, <1>2, <2>1
<1>4. LeftOf(h, g, (t + 1) - Window[k])
  BY <1>2, <1>3 DEF LeftOf
<1>5. s <= t + 1 /\ \A i \in 1..Len(g) : g[i] <= t + 1
  BY <1>1 DEF KeyOK
<1> QED
  BY <1>4, <1>5 DEF KeyOK

-----------------------------------------------------------------------------
(* The whole memory, when g are the attempts recorded and t is the present.*)
MemType ==
    [known : SUBSET Key, seen : [Key -> Nat], history : [Key -> Seq(Nat)],
     ops : 0..SweepEvery - 1, swept : Nat]

MemOK(m, g, t) ==
    /\ m \in MemType /\ g \in [Key -> Seq(Nat)] /\ m.swept <= t
    /\ \A k \in Key : KeyOK(m.history[k], m.seen[k], g[k], k, t)
    /\ \A k \in Key \ m.known : m.history[k] = <<>>
    /\ \A k \in m.known : IsOn(k) /\ m.seen[k] > m.swept - StaleAge(k)

AtLimitWith(g, k) ==
    IsOn(k) /\ Cardinality(WindowOf(g[k], now - Window[k])) >= Max[k]

LEMMA TouchOK ==
    ASSUME now \in Nat, NEW k \in Key, IsOn(k), NEW m, NEW g, MemOK(m, g, now)
    PROVE  /\ MemOK(Touch(m, k), g, now)
           /\ k \in Touch(m, k).known /\ Touch(m, k).seen[k] = now
           /\ Full(Touch(m, k), k) <=> AtLimitWith(g, k)
<1> DEFINE left == Prune(m.history[k], now - Window[k])
           t == Touch(m, k)
<1>1. m \in MemType /\ m.swept \in Nat /\ m.swept <= now
  BY DEF MemOK, MemType
<1>2. t = [known |-> m.known \cup {k}, seen |-> [m.seen EXCEPT ![k] = now],
           history |-> [m.history EXCEPT ![k] = left], ops |-> m.ops, swept |-> m.swept]
  <2>1. DOMAIN m = {"known", "seen", "history", "ops", "swept"} /\ k \in DOMAIN m.seen
        /\ k \in DOMAIN m.history
    BY <1>1 DEF MemType
  <2>2. t = [[[m EXCEPT !.known = m.known \cup {k}]
                 EXCEPT !.seen = [m.seen EXCEPT ![k] = now]]
                 EXCEPT !.history = [m.history EXCEPT ![k] = left]]
    BY <2>1 DEF Touch
  <2> HIDE DEF left, t
  <2>3. m = [known |-> m.known, seen |-> m.seen, history |-> m.history,
             ops |-> m.ops, swept |-> m.swept]
    BY <1>1 DEF MemType
  <2> QED
    BY <2>2, <2>3
<1>3. m.seen[k] \in Nat /\ m.seen[k] <= now /\ KeyOK(m.history[k], m.seen[k], g[k], k, now)
  BY DEF MemOK, KeyOK
<1>4. /\ KeyOK(left, now, g[k], k, now)
      /\ Len(left) = Cardinality(WindowOf(g[k], now - Window[k]))
  BY <1>3, KeyPruned
<1>5. left \in Seq(Nat)
  BY <1>4 DEF KeyOK
<1> HIDE DEF left, t
<1>6. t \in MemType
  BY <1>1, <1>2, <1>5 DEF MemType
<1>7. /\ t.known = m.known \cup {k} /\ t.swept = m.swept
      /\ t.seen[k] = now /\ t.history[k] = left
      /\ \A j \in Key \ {k} : t.seen[j] = m.seen[j] /\ t.history[j] = m.history[j]
  BY <1>1, <1>2 DEF MemType
<1>8. \A j \in Key : KeyOK(t.history[j], t.seen[j], g[j], j, now)
  BY <1>4, <1>7 DEF MemOK
<1>9. now > m.swept - StaleAge(k)
  <2>1. Window[k] >= 1 /\ Window[k] \in Nat
    BY RuleType DEF IsOn
  <2> QED
    BY <1>1, <2>1, StaleAgeType
<1>10. \A j \in t.known : IsOn(j) /\ t.seen[j] > t.swept - StaleAge(j)
  <2> TAKE j \in t.known
  <2>1. CASE j = k
    BY <1>7, <1>9, <2>1
  <2>2. CASE j # k
    <3>1. j \in m.known /\ j \in Key
      BY <1>1, <1>7, <2>2 DEF MemType
    <3> QED
      BY <1>7, <2>2, <3>1 DEF MemOK
  <2> QED
    BY <2>1, <2>2
<1>11. MemOK(t, g, now)
  BY <1>6, <1>7, <1>8, <1>10 DEF MemOK
<1>12. Full(t, k) <=> AtLimitWith(g, k)
  BY <1>4, <1>7 DEF Full, AtLimitWith
<1> QED
  BY <1>7, <1>11, <1>12 DEF t

LEMMA RecordOK ==
    ASSUME now \in Nat, NEW k \in Key, IsOn(k), NEW m, NEW g, MemOK(m, g, now),
           k \in m.known, m.seen[k] = now, ~Full(m, k)
    PROVE  MemOK(Record(m, k), [g EXCEPT ![k] = Append(@, now)], now)
<1> DEFINE r == Record(m, k)
           g2 == [g EXCEPT ![k] = Append(@, now)]
           more == Append(m.history[k], now)
<1>1. m \in MemType /\ g \in [Key -> Seq(Nat)]
  BY DEF MemOK
<1>2. m = [known |-> m.known, seen |-> m.seen, history |-> m.history,
           ops |-> m.ops, swept |-> m.swept]
  BY <1>1 DEF MemType
<1>3. r = [known |-> m.known, seen |-> m.seen,
           history |-> [m.history EXCEPT ![k] = more], ops |-> m.ops, swept |-> m.swept]
  BY <1>2 DEF Record
<1>4. KeyOK(more, now, Append(g[k], now), k, now)
  <2>1. KeyOK(m.history[k], now, g[k], k, now)
    BY DEF MemOK
  <2> QED
    BY <2>1, KeyRecorded DEF Full
<1>5. more \in Seq(Nat) /\ Append(g[k], now) \in Seq(Nat)
  BY <1>4 DEF KeyOK
<1> HIDE DEF more, r
<1>6. r \in MemType
  BY <1>1, <1>3, <1>5 DEF MemType
<1>7. /\ g2 \in [Key -> Seq(Nat)] /\ g2[k] = Append(g[k], now)
      /\ \A j \in Key \ {k} : g2[j] = g[j]
  BY <1>1, <1>5
<1> HIDE DEF g2
<1>8. /\ r.known = m.known /\ r.seen = m.seen /\ r.swept = m.swept
      /\ r.history[k] = more /\ \A j \in Key \ {k} : r.history[j] = m.history[j]
  BY <1>1, <1>3 DEF MemType
<1>9. \A j \in Key : KeyOK(r.history[j], r.seen[j], g2[j], j, now)
  BY <1>4, <1>7, <1>8 DEF MemOK
<1>10. \A j \in Key \ r.known : r.history[j] = <<>>
  BY <1>8 DEF MemOK
<1>11. MemOK(r, g2, now)
  BY <1>6, <1>7, <1>8, <1>9, <1>10 DEF MemOK
<1> QED
  BY <1>11 DEF r, g2

LEMMA SweepOK ==
    ASSUME now \in Nat, NEW m, NEW g, MemOK(m, g, now)
    PROVE  MemOK(Sweep(m), g, now)
<1> DEFINE kept == {k \in m.known : ~IsStale(m, k)}
           w == Sweep(m)
<1>1. /\ m \in MemType /\ g \in [Key -> Seq(Nat)]
      /\ \A k \in Key : m.seen[k] \in Nat
  BY DEF MemOK, MemType
<1>2. /\ w.known = kept /\ w.swept = now /\ w.ops = 0
      /\ \A k \in Key : /\ w.seen[k] = IF k \in kept THEN m.seen[k] ELSE 0
                        /\ w.history[k] = IF k \in kept
                              THEN Prune(m.history[k], now - Window[k]) ELSE <<>>
  BY DEF Sweep
<1>3. ASSUME NEW k \in Key
      PROVE  /\ KeyOK(Prune(m.history[k], now - Window[k]), m.seen[k], g[k], k, now)
             /\ IF Prune(m.history[k], now - Window[k]) = <<>>
                THEN KeyOK(<<>>, 0, g[k], k, now) ELSE m.seen[k] > now - Window[k]
  <2>1. KeyOK(m.history[k], m.seen[k], g[k], k, now) /\ m.seen[k] <= now
    BY DEF MemOK, KeyOK
  <2> QED
    BY <1>1, <2>1, KeyPruned
<1>4. ASSUME NEW k \in Key \ kept PROVE KeyOK(<<>>, 0, g[k], k, now)
  <2>1. CASE k \in m.known
    BY <1>3, <1>4, <2>1 DEF IsStale
  <2>2. CASE k \notin m.known
    <3>1. KeyOK(<<>>, m.seen[k], g[k], k, now)
      BY <2>2 DEF MemOK
    <3> QED
      BY <3>1 DEF KeyOK
  <2> QED
    BY <2>1, <2>2
<1>5. kept \subseteq Key
  BY <1>1 DEF MemType
<1>6. ASSUME NEW k \in kept
      PROVE  IsOn(k) /\ m.seen[k] > now - StaleAge(k)
  <2>1. IsOn(k) /\ k \in Key
    BY <1>5 DEF MemOK
  <2>2. m.seen[k] > now - Window[k] \/ ~(m.seen[k] <= now - StaleAge(k))
    BY <1>3, <1>6, <2>1 DEF IsStale
  <2>3. /\ m.seen[k] \in Nat /\ Window[k] \in Nat /\ StaleAge(k) \in Nat
        /\ Window[k] <= StaleAge(k)
    BY <1>1, <2>1, RuleType, StaleAgeType
  <2>4. m.seen[k] > now - StaleAge(k)
    BY <2>2, <2>3
  <2> QED
    BY <2>1, <2>4
<1>7. \A k \in Key : KeyOK(w.history[k], w.seen[k], g[k], k, now)
  <2> HIDE DEF kept, w
  <2> QED
    BY <1>2, <1>3, <1>4
<1>8. w \in MemType
  <2>1. \A k \in Key :
           /\ (IF k \in kept THEN m.seen[k] ELSE 0) \in Nat
           /\ (IF k \in kept THEN Prune(m.history[k], now - Window[k]) ELSE <<>>) \in Seq(Nat)
    <3> HIDE DEF kept, w
    <3> QED
      BY <1>2, <1>7 DEF KeyOK
  <2>2. 0 \in 0..SweepEvery - 1
    BY RateLimitAssumption
  <2>3. w = [known |-> kept,
             seen |-> [k \in Key |-> IF k \in kept THEN m.seen[k] ELSE 0],
             history |-> [k \in Key |->
                 IF k \in kept THEN Prune(m.history[k], now - Window[k]) ELSE <<>>],
             ops |-> 0, swept |-> now]
    BY DEF Sweep
  <2> HIDE DEF kept, w
  <2> QED
    BY <1>5, <2>1, <2>2, <2>3 DEF MemType
<1>9. \A k \in Key \ w.known : w.history[k] = <<>>
  <2> HIDE DEF kept, w
  <2> QED
    BY <1>2
<1>10. \A k \in w.known : IsOn(k) /\ w.seen[k] > w.swept - StaleAge(k)
  <2> HIDE DEF kept, w
  <2> QED
    BY <1>2, <1>5, <1>6
<1> HIDE DEF kept, w
<1>11. MemOK(w, g, now)
  BY <1>1, <1>2, <1>7, <1>8, <1>9, <1>10 DEF MemOK
<1> QED
  BY <1>11 DEF w

LEMMA MaybeSweepOK ==
    ASSUME now \in Nat, NEW m, NEW g, MemOK(m, g, now)
    PROVE  MemOK(MaybeSweep(m), g, now)
<1>1. CASE m.ops + 1 < SweepEvery
  <2>1. m \in MemType
    BY DEF MemOK
  <2>2. MaybeSweep(m) = [known |-> m.known, seen |-> m.seen, history |-> m.history,
                         ops |-> m.ops + 1, swept |-> m.swept]
    BY <1>1, <2>1 DEF MaybeSweep, MemType
  <2>3. m.ops + 1 \in 0..SweepEvery - 1
    <3>1. m.ops \in Nat /\ SweepEvery \in Nat
      BY <2>1, RateLimitAssumption DEF MemType
    <3> QED
      BY <1>1, <3>1
  <2>4. MaybeSweep(m) \in MemType
    BY <2>1, <2>2, <2>3 DEF MemType
  <2> QED
    BY <2>2, <2>4 DEF MemOK
<1>2. CASE ~(m.ops + 1 < SweepEvery)
  BY <1>2, SweepOK DEF MaybeSweep
<1> QED
  BY <1>1, <1>2

-----------------------------------------------------------------------------
(* Asking and consuming.  The answers are those of the window.             *)
Granted(g, k) ==
    IF IsOn(k) /\ ~AtLimitWith(g, k) THEN [g EXCEPT ![k] = Append(@, now)] ELSE g

LEMMA LimitedIs ==
    ASSUME now \in Nat, NEW k \in Key, NEW m, NEW g, MemOK(m, g, now)
    PROVE  Limited(m, k) <=> AtLimitWith(g, k)
BY TouchOK DEF Limited, AtLimitWith

LEMMA AskOK ==
    ASSUME now \in Nat, NEW k \in Key, NEW m, NEW g, MemOK(m, g, now)
    PROVE  MemOK(AfterAsk(m, k), g, now)
BY TouchOK, MaybeSweepOK DEF AfterAsk

LEMMA ConsumeOK ==
    ASSUME now \in Nat, NEW k \in Key, NEW m, NEW g, MemOK(m, g, now)
    PROVE  MemOK(AfterConsume(m, k), Granted(g, k), now)
<1> DEFINE t == Touch(m, k)
<1>1. CASE ~IsOn(k)
  BY <1>1 DEF AfterConsume, Granted
<1>2. CASE IsOn(k) /\ AtLimitWith(g, k)
  BY <1>2, TouchOK, MaybeSweepOK DEF AfterConsume, Granted
<1>3. CASE IsOn(k) /\ ~AtLimitWith(g, k)
  <2>1. /\ MemOK(t, g, now) /\ k \in t.known /\ t.seen[k] = now /\ ~Full(t, k)
    BY <1>3, TouchOK
  <2>2. AfterConsume(m, k) = MaybeSweep(Record(t, k))
    BY <1>3, <2>1 DEF AfterConsume
  <2>3. Granted(g, k) = [g EXCEPT ![k] = Append(@, now)]
    BY <1>3 DEF Granted
  <2> HIDE DEF t
  <2>4. MemOK(Record(t, k), [g EXCEPT ![k] = Append(@, now)], now)
    BY <1>3, <2>1, RecordOK
  <2> QED
    BY <2>2, <2>3, <2>4, MaybeSweepOK
<1> QED
  BY <1>1, <1>2, <1>3

LEMMA GrantedOther ==
    ASSUME NEW g \in [Key -> Seq(Nat)], NEW j \in Key, NEW k \in Key, j # k
    PROVE  AtLimitWith(Granted(g, j), k) <=> AtLimitWith(g, k)
BY DEF Granted, AtLimitWith

RateInv ==
    /\ now \in 0..Horizon
    /\ MemOK(mem, granted, now)
    /\ login \in [Session -> LoginKeys \cup {None}]
    /\ limited \in BOOLEAN

AttemptOf(p) ==
    [k \in Key |-> IF k \in {p[1], p[2]} /\ IsOn(k) /\ ~AtLimitWith(granted, k)
                   THEN Append(granted[k], now) ELSE granted[k]]

LEMMA AskBothOK ==
    ASSUME RateInv, NEW p \in LoginKeys \cup ConsumeKeys, AskBoth(p)
    PROVE  /\ MemOK(mem', granted, now)
           /\ limited' <=> \E k \in {p[1], p[2]} : AtLimitWith(granted, k)
           /\ limited' \in BOOLEAN
<1>1. now \in Nat /\ MemOK(mem, granted, now) /\ p[1] \in Key /\ p[2] \in Key
  BY PairType, RateLimitAssumption DEF RateInv
<1>2. MemOK(AfterAsk(mem, p[1]), granted, now)
  BY <1>1, AskOK
<1>3. MemOK(mem', granted, now)
  BY <1>1, <1>2, AskOK DEF AskBoth
<1>4. /\ Limited(mem, p[1]) <=> AtLimitWith(granted, p[1])
      /\ Limited(AfterAsk(mem, p[1]), p[2]) <=> AtLimitWith(granted, p[2])
  BY <1>1, <1>2, LimitedIs
<1> QED
  BY <1>3, <1>4 DEF AskBoth

LEMMA ConsumeBothOK ==
    ASSUME RateInv, NEW p \in LoginKeys \cup ConsumeKeys, ConsumeBoth(p)
    PROVE  /\ MemOK(mem', granted', now)
           /\ limited' <=> \E k \in {p[1], p[2]} : AtLimitWith(granted, k)
           /\ limited' \in BOOLEAN
           /\ granted' = AttemptOf(p)
<1> DEFINE first == AfterConsume(mem, p[1])
           g1 == Granted(granted, p[1])
           g2 == Granted(g1, p[2])
<1>1. /\ now \in Nat /\ MemOK(mem, granted, now)
      /\ p[1] \in Key /\ p[2] \in Key /\ p[1] # p[2]
  BY PairType, RateLimitAssumption DEF RateInv
<1>2. MemOK(first, g1, now)
  BY <1>1, ConsumeOK
<1>3. MemOK(mem', g2, now)
  <2> HIDE DEF first, g1
  <2>1. mem' = AfterConsume(first, p[2])
    BY DEF ConsumeBoth, first
  <2> QED
    BY <1>1, <1>2, <2>1, ConsumeOK
<1>4. granted \in [Key -> Seq(Nat)]
  BY <1>1 DEF MemOK
<1>5. /\ Limited(mem, p[1]) <=> AtLimitWith(granted, p[1])
      /\ Limited(first, p[2]) <=> AtLimitWith(granted, p[2])
  <2>1. Limited(mem, p[1]) <=> AtLimitWith(granted, p[1])
    BY <1>1, LimitedIs
  <2>2. Limited(first, p[2]) <=> AtLimitWith(g1, p[2])
    <3> HIDE DEF first, g1
    <3> QED
      BY <1>1, <1>2, LimitedIs
  <2> QED
    BY <1>1, <1>4, <2>1, <2>2, GrantedOther
<1>6. granted' = AttemptOf(p)
  <2>1. granted' = [k \in Key |->
           IF \/ k = p[1] /\ IsOn(k) /\ ~Limited(mem, k)
              \/ k = p[2] /\ IsOn(k) /\ ~Limited(first, k)
           THEN Append(granted[k], now) ELSE granted[k]]
    BY DEF ConsumeBoth
  <2> HIDE DEF first
  <2>2. ASSUME NEW k \in Key
        PROVE  (\/ k = p[1] /\ IsOn(k) /\ ~Limited(mem, k)
                \/ k = p[2] /\ IsOn(k) /\ ~Limited(first, k))
               <=> (k \in {p[1], p[2]} /\ IsOn(k) /\ ~AtLimitWith(granted, k))
    BY <1>5
  <2> QED
    BY <2>1, <2>2 DEF AttemptOf
<1>7. g2 = AttemptOf(p)
  <2>1. g1 \in [Key -> Seq(Nat)]
    BY <1>2 DEF MemOK
  <2>2. g2 \in [Key -> Seq(Nat)]
    BY <1>3 DEF MemOK
  <2>3. ASSUME NEW k \in Key PROVE g2[k] = AttemptOf(p)[k]
    <3>1. /\ k # p[1] => g1[k] = granted[k]
          /\ g1[p[1]] = IF IsOn(p[1]) /\ ~AtLimitWith(granted, p[1])
                        THEN Append(granted[p[1]], now) ELSE granted[p[1]]
      BY <1>1, <1>4 DEF Granted
    <3>2. AtLimitWith(g1, p[2]) <=> AtLimitWith(granted, p[2])
      BY <1>1, <1>4, GrantedOther
    <3> HIDE DEF g1
    <3>3. /\ k # p[2] => g2[k] = g1[k]
          /\ g2[p[2]] = IF IsOn(p[2]) /\ ~AtLimitWith(g1, p[2])
                        THEN Append(g1[p[2]], now) ELSE g1[p[2]]
      BY <1>1, <2>1 DEF Granted
    <3> HIDE DEF g2
    <3> QED
      BY <1>1, <3>1, <3>2, <3>3 DEF AttemptOf
  <2> HIDE DEF g1, g2
  <2> QED
    BY <2>2, <2>3 DEF AttemptOf
<1>8. limited' <=> \E k \in {p[1], p[2]} : AtLimitWith(granted, k)
  <2>1. limited' = (Limited(mem, p[1]) \/ Limited(first, p[2]))
    BY DEF ConsumeBoth
  <2> HIDE DEF first
  <2> QED
    BY <1>5, <2>1
<1>9. limited' \in BOOLEAN
  BY DEF ConsumeBoth
<1> HIDE DEF g1, g2
<1> QED
  BY <1>3, <1>6, <1>7, <1>8, <1>9

-----------------------------------------------------------------------------
(* Failures.  After each attempt recorded with a key only the logins that  *)
(* were in progress when the key reached its limit can fail late, so that  *)
(* the failures after one attempt have the numbers 0 to Logins - 1.        *)
Logins == Cardinality(Session)

Waiting(k) == {s \in Session : login[s] # None /\ k \in {login[s][1], login[s][2]}}

Since(k) == {f \in failed[k] : f.after = Len(granted[k])}

Failure == [at : Nat, after : Nat, late : Nat]

(* Of a key, with g the attempts recorded and b the failures remembered.   *)
Numbered(b, g, t) ==
    /\ b \subseteq Failure /\ IsFiniteSet(b)
    /\ \A f \in b :
          /\ f.at <= t /\ f.after <= Len(g) /\ f.late < Logins
          /\ \A i \in 1..Len(g) : IF i <= f.after THEN g[i] <= f.at ELSE f.at <= g[i]
          /\ f.late = 0 => f.after \in 1..Len(g) /\ g[f.after] = f.at
    /\ \A f, e \in b : f.after = e.after /\ f.late = e.late => f = e

(* While a key is at its limit, the logins that failed since and those     *)
(* that still may are as many as there are sessions.                       *)
LimitHolds(k) ==
    /\ 1 <= Cardinality(Since(k))
    /\ Cardinality(Since(k)) + Cardinality(Waiting(k)) <= Logins
    /\ \A f \in Since(k) : f.late < Cardinality(Since(k))

FailInv ==
    /\ \A k \in Key \ LoginKey : failed[k] = {}
    /\ \A k \in LoginKey : IsOn(k) =>
          /\ Numbered(failed[k], granted[k], now)
          /\ AtLimitWith(granted, k) => LimitHolds(k)

LEMMA IntervalSize ==
    \A a, b \in Int : a <= b + 1 =>
        IsFiniteSet(a..b) /\ Cardinality(a..b) = b - a + 1
<1> TAKE a \in Int, b \in Int
<1> HAVE a <= b + 1
<1>1. IsFiniteSet(a..b) /\ Cardinality(a..b) = IF a > b THEN 0 ELSE b - a + 1
  BY FS_Interval
<1> QED
  BY <1>1

LEMMA LoginsType == Logins \in Nat /\ 1 <= Logins
<1>1. Logins \in Nat /\ Logins # 0
  BY RateLimitAssumption, FS_CardinalityType, FS_EmptySet DEF Logins
<1> QED
  BY <1>1

LEMMA WindowFinite ==
    ASSUME NEW g \in Seq(Nat), NEW c \in Int
    PROVE  IsFiniteSet(WindowOf(g, c)) /\ Cardinality(WindowOf(g, c)) \in Nat
<1>1. WindowOf(g, c) \in SUBSET Nat /\ Len(g) \in Nat /\ \A i \in WindowOf(g, c) : i <= Len(g)
  BY DEF WindowOf
<1> QED
  BY <1>1, FS_BoundedSetOfNaturals, FS_CardinalityType

(* At its limit, a key has its last attempt in the window.                 *)
LEMMA LastInWindow ==
    ASSUME NEW k \in Key, NEW g \in Seq(Nat), Ascending(g), NEW c \in Int,
           IsOn(k), Cardinality(WindowOf(g, c)) >= Max[k]
    PROVE  Len(g) \in 1..Len(g) /\ g[Len(g)] > c
<1>1. Max[k] \in Nat /\ Max[k] >= 1
  BY RuleType DEF IsOn
<1>2. WindowOf(g, c) # {}
  <2>1. Cardinality(WindowOf(g, c)) # 0
    BY <1>1, WindowFinite
  <2> QED
    BY <2>1, FS_EmptySet
<1>3. PICK i \in 1..Len(g) : g[i] > c
  BY <1>2 DEF WindowOf
<1>4. Len(g) \in 1..Len(g) /\ i <= Len(g) /\ g[i] \in Nat /\ g[Len(g)] \in Nat
  <2>1. Len(g) \in Nat /\ \A j \in 1..Len(g) : g[j] \in Nat
    OBVIOUS
  <2>2. Len(g) \in 1..Len(g) /\ i <= Len(g)
    BY <2>1
  <2> QED
    BY <2>1, <2>2
<1>5. g[i] <= g[Len(g)]
  BY <1>4 DEF Ascending
<1> QED
  BY <1>3, <1>4, <1>5

LEMMA WaitingFinite ==
    ASSUME NEW k
    PROVE  /\ IsFiniteSet(Waiting(k)) /\ Cardinality(Waiting(k)) \in Nat
           /\ Cardinality(Waiting(k)) <= Logins
<1>1. Waiting(k) \in SUBSET Session
  BY DEF Waiting
<1> QED
  BY <1>1, RateLimitAssumption, FS_Subset, FS_CardinalityType DEF Logins

(* What failures of a key are remembered is in order, in the window or out.*)
LEMMA NumberedSubset ==
    ASSUME NEW b, NEW g, NEW t, Numbered(b, g, t), NEW e \in SUBSET b
    PROVE  Numbered(e, g, t)
BY FS_Subset DEF Numbered

(* The bound: the failures in the window have each a number of its own     *)
(* after one of the attempts in the window, or the last one before it.     *)
LEMMA NumberedBound ==
    ASSUME NEW k \in Key, NEW b, NEW g \in Seq(Nat), NEW t \in Nat, Numbered(b, g, t),
           NEW c \in Int, Cardinality(WindowOf(g, c)) <= Max[k]
    PROVE  Cardinality({f \in b : f.at > c}) <= Max[k] + (Max[k] + 1) * (Logins - 1)
<1> DEFINE In == {f \in b : f.at > c}
           Late == (0..Max[k]) \X (1..Logins - 1)
           InTime == (0..Max[k] - 1) \X {0}
           number == [f \in In |-> <<Len(g) - f.after, f.late>>]
<1>1. /\ Max[k] \in Nat /\ Len(g) \in Nat /\ Logins \in Nat /\ 1 <= Logins
      /\ \A i \in 1..Len(g) : g[i] \in Nat
      /\ DOMAIN g = 1..Len(g)
  BY RuleType, LoginsType
<1>2. ASSUME NEW a \in 1..Len(g) + 1, \A i \in a..Len(g) : g[i] > c
      PROVE  Len(g) - a + 1 <= Max[k]
  <2>1. a \in Int /\ a <= Len(g) + 1 /\ 1 <= a
    BY <1>1
  <2>2. a..Len(g) \in SUBSET WindowOf(g, c)
    BY <1>1, <1>2, <2>1 DEF WindowOf
  <2>3. Cardinality(a..Len(g)) <= Cardinality(WindowOf(g, c))
    BY <2>2, WindowFinite, FS_Subset
  <2>4. Cardinality(a..Len(g)) = Len(g) - a + 1
    BY <1>1, <2>1, IntervalSize
  <2>5. Cardinality(WindowOf(g, c)) \in Nat
    BY WindowFinite
  <2> QED
    BY <1>1, <2>1, <2>3, <2>4, <2>5
<1>3. ASSUME NEW f \in In
      PROVE  /\ f.at \in Nat /\ f.after \in Nat /\ f.late \in Nat
             /\ f.after <= Len(g) /\ f.late <= Logins - 1
             /\ Len(g) - f.after <= Max[k]
             /\ f.late = 0 => Len(g) - f.after <= Max[k] - 1
  <2>1. /\ f.at \in Nat /\ f.after \in Nat /\ f.late \in Nat /\ f.at > c
        /\ f.after <= Len(g) /\ f.late < Logins
        /\ \A i \in 1..Len(g) : IF i <= f.after THEN g[i] <= f.at ELSE f.at <= g[i]
        /\ f.late = 0 => f.after \in 1..Len(g) /\ g[f.after] = f.at
    BY DEF Numbered, Failure
  <2>2. ASSUME NEW i \in f.after + 1 .. Len(g) PROVE g[i] > c
    <3>1. i \in 1..Len(g) /\ ~(i <= f.after)
      BY <1>1, <2>1
    <3>2. f.at <= g[i] /\ g[i] \in Nat
      BY <1>1, <2>1, <3>1
    <3> QED
      BY <2>1, <3>2
  <2>3. Len(g) - f.after <= Max[k]
    <3>1. f.after + 1 \in 1..Len(g) + 1
      BY <1>1, <2>1
    <3>2. Len(g) - (f.after + 1) + 1 <= Max[k]
      BY <1>2, <2>2, <3>1
    <3> QED
      BY <1>1, <2>1, <3>2
  <2>4. ASSUME f.late = 0 PROVE Len(g) - f.after <= Max[k] - 1
    <3>1. f.after \in 1..Len(g) /\ g[f.after] = f.at
      BY <2>1, <2>4
    <3>2. ASSUME NEW i \in f.after .. Len(g) PROVE g[i] > c
      <4>1. CASE i = f.after
        BY <2>1, <3>1, <4>1
      <4>2. CASE i # f.after
        <5>1. i \in f.after + 1 .. Len(g)
          BY <1>1, <2>1, <4>2
        <5> QED
          BY <2>2, <5>1
      <4> QED
        BY <4>1, <4>2
    <3>3. f.after \in 1..Len(g) + 1
      BY <1>1, <3>1
    <3>4. Len(g) - f.after + 1 <= Max[k]
      BY <1>2, <3>2, <3>3
    <3> QED
      BY <1>1, <2>1, <3>4
  <2>5. f.late <= Logins - 1
    BY <1>1, <2>1
  <2> QED
    BY <2>1, <2>3, <2>4, <2>5
<1>4. number \in Injection(In, Late \cup InTime)
  <2>1. ASSUME NEW f \in In PROVE number[f] \in Late \cup InTime
    <3>1. number[f] = <<Len(g) - f.after, f.late>>
      OBVIOUS
    <3>2. CASE f.late = 0
      <4>1. Len(g) - f.after \in 0..Max[k] - 1
        BY <1>1, <1>3, <3>2
      <4> QED
        BY <3>1, <3>2, <4>1
    <3>3. CASE f.late # 0
      <4>1. Len(g) - f.after \in 0..Max[k] /\ f.late \in 1..Logins - 1
        BY <1>1, <1>3, <3>3
      <4> QED
        BY <3>1, <4>1
    <3> QED
      BY <3>2, <3>3
  <2>2. ASSUME NEW f \in In, NEW e \in In, number[f] = number[e] PROVE f = e
    <3>1. Len(g) - f.after = Len(g) - e.after /\ f.late = e.late
      BY <2>2
    <3>2. f.after = e.after
      BY <1>1, <1>3, <3>1
    <3> QED
      BY <3>1, <3>2 DEF Numbered
  <2> HIDE DEF In, Late, InTime
  <2> QED
    BY <2>1, <2>2 DEF Injection, IsInjective
<1>5. IsFiniteSet(Late) /\ Cardinality(Late) = (Max[k] + 1) * (Logins - 1)
  <2> HIDE DEF In, number
  <2>1. /\ IsFiniteSet(0..Max[k]) /\ Cardinality(0..Max[k]) = Max[k] + 1
    <3>1. Max[k] \in Int /\ 0 \in Int /\ 0 <= Max[k] + 1 /\ Max[k] - 0 + 1 = Max[k] + 1
      BY <1>1
    <3> QED
      BY <3>1, IntervalSize, Zenon
  <2>2. /\ IsFiniteSet(1..Logins - 1) /\ Cardinality(1..Logins - 1) = Logins - 1
    <3>1. /\ Logins - 1 \in Int /\ 1 \in Int /\ 1 <= (Logins - 1) + 1
          /\ (Logins - 1) - 1 + 1 = Logins - 1
      BY <1>1
    <3> QED
      BY <3>1, IntervalSize, Zenon
  <2> DEFINE A == 0..Max[k]
             B == 1..Logins - 1
  <2>3. Late = A \X B
    OBVIOUS
  <2> HIDE DEF Late, A, B
  <2>4. IsFiniteSet(Late) /\ Cardinality(Late) = Cardinality(A) * Cardinality(B)
    BY <2>1, <2>2, <2>3, FS_Product DEF A, B
  <2> QED
    BY <2>1, <2>2, <2>4 DEF A, B
<1>6. IsFiniteSet(InTime) /\ Cardinality(InTime) = Max[k]
  <2>1. /\ IsFiniteSet(0..Max[k] - 1) /\ Cardinality(0..Max[k] - 1) = Max[k]
    <3>1. /\ Max[k] - 1 \in Int /\ 0 \in Int /\ 0 <= (Max[k] - 1) + 1
          /\ (Max[k] - 1) - 0 + 1 = Max[k]
      BY <1>1
    <3> QED
      BY <3>1, IntervalSize, Zenon
  <2>2. IsFiniteSet({0}) /\ Cardinality({0}) = 1
    BY FS_Singleton
  <2>3. IsFiniteSet(InTime) /\ Cardinality(InTime) = Max[k] * 1
    <3> DEFINE A == 0..Max[k] - 1
               B == {0}
    <3>1. InTime = A \X B
      OBVIOUS
    <3>2. IsFiniteSet(A) /\ IsFiniteSet(B) /\ Cardinality(A) = Max[k] /\ Cardinality(B) = 1
      BY <2>1, <2>2
    <3> HIDE DEF InTime, A, B
    <3>3. IsFiniteSet(InTime) /\ Cardinality(InTime) = Cardinality(A) * Cardinality(B)
      BY <3>1, <3>2, FS_Product
    <3> QED
      BY <3>2, <3>3
  <2> QED
    BY <1>1, <2>3
<1> HIDE DEF In, Late, InTime, number
<1>7. /\ IsFiniteSet(Late \cup InTime)
      /\ Cardinality(Late \cup InTime) <= Max[k] + (Max[k] + 1) * (Logins - 1)
  <2>1. /\ IsFiniteSet(Late \cup InTime)
        /\ Cardinality(Late \cup InTime)
              = Cardinality(Late) + Cardinality(InTime) - Cardinality(Late \cap InTime)
    BY <1>5, <1>6, FS_Union
  <2>2. Cardinality(Late \cap InTime) \in Nat
    BY <1>5, FS_Intersection, FS_CardinalityType
  <2>3. Cardinality(Late) \in Nat /\ Cardinality(InTime) \in Nat
    BY <1>5, <1>6, FS_CardinalityType
  <2>4. Cardinality(Late \cup InTime) <= Cardinality(InTime) + Cardinality(Late)
    BY <2>1, <2>2, <2>3
  <2> QED
    BY <1>5, <1>6, <2>1, <2>4
<1>8. IsFiniteSet(In) /\ Cardinality(In) <= Cardinality(Late \cup InTime)
  BY <1>4, <1>7, FS_Injection
<1>9. Cardinality(In) \in Nat /\ Cardinality(Late \cup InTime) \in Nat
  BY <1>7, <1>8, FS_CardinalityType
<1>10. (Max[k] + 1) * (Logins - 1) \in Nat
  BY <1>5, FS_CardinalityType
<1>11. Cardinality(In) <= Max[k] + (Max[k] + 1) * (Logins - 1)
  <2> DEFINE x == (Max[k] + 1) * (Logins - 1)
  <2>1. x \in Nat /\ Cardinality(Late \cup InTime) <= Max[k] + x
    BY <1>7, <1>10
  <2> HIDE DEF x
  <2>2. Cardinality(In) <= Max[k] + x
    BY <1>1, <1>8, <1>9, <2>1
  <2> QED
    BY <2>2 DEF x
<1> QED
  BY <1>11 DEF In

-----------------------------------------------------------------------------
(* The steps.                                                              *)
LEMMA RateStep == RateInv /\ [Next]_vars => RateInv'
<1> SUFFICES ASSUME RateInv, [Next]_vars PROVE RateInv'
    OBVIOUS
<1> USE DEF RateInv
<1>1. CASE Tick
  <2>1. now' = now + 1 /\ now' \in 0..Horizon /\ UNCHANGED <<mem, granted, login, limited>>
    BY <1>1, RateLimitAssumption DEF Tick
  <2>2. now \in Nat /\ mem.swept \in Nat
    BY RateLimitAssumption DEF MemOK, MemType
  <2>3. MemOK(mem, granted, now + 1)
    <3>1. mem.swept <= now + 1
      BY <2>2 DEF MemOK
    <3>2. \A k \in Key : KeyOK(mem.history[k], mem.seen[k], granted[k], k, now + 1)
      BY <2>2, KeyLater DEF MemOK
    <3> QED
      BY <3>1, <3>2 DEF MemOK
  <2> QED
    BY <2>1, <2>3
<1>2. ASSUME NEW s \in Session, NEW p \in LoginKeys, StartLogin(s, p) PROVE RateInv'
  <2>1. AskBoth(p) /\ UNCHANGED <<now, granted>>
    BY <1>2 DEF StartLogin
  <2>2. login' \in [Session -> LoginKeys \cup {None}]
    BY <1>2 DEF StartLogin
  <2> QED
    BY <2>1, <2>2, AskBothOK
<1>3. ASSUME NEW s \in Session, FailLogin(s) PROVE RateInv'
  <2>1. login[s] \in LoginKeys
    BY <1>3 DEF FailLogin
  <2>2. login' \in [Session -> LoginKeys \cup {None}]
    BY <1>3 DEF FailLogin
  <2> QED
    BY <1>3, <2>1, <2>2, ConsumeBothOK DEF FailLogin
<1>4. ASSUME NEW s \in Session, Succeed(s) PROVE RateInv'
  BY <1>4 DEF Succeed
<1>5. ASSUME NEW p \in ConsumeKeys, Consume(p) PROVE RateInv'
  BY <1>5, ConsumeBothOK DEF Consume
<1>6. CASE UNCHANGED vars
  BY <1>6 DEF vars
<1> QED
  BY <1>1, <1>2, <1>3, <1>4, <1>5, <1>6 DEF Next

LEMMA GrantedType ==
    ASSUME RateInv, NEW k \in Key
    PROVE  /\ now \in Nat /\ granted \in [Key -> Seq(Nat)]
           /\ granted[k] \in Seq(Nat) /\ Len(granted[k]) \in Nat /\ Ascending(granted[k])
           /\ \A i \in 1..Len(granted[k]) : granted[k][i] \in Nat /\ granted[k][i] <= now
<1>1. now \in Nat /\ granted \in [Key -> Seq(Nat)]
  BY RateLimitAssumption DEF RateInv, MemOK
<1>2. KeyOK(mem.history[k], mem.seen[k], granted[k], k, now)
  BY DEF RateInv, MemOK
<1> QED
  BY <1>1, <1>2 DEF KeyOK

LEMMA LoginKeyType ==
    /\ LoginKey \subseteq Key
    /\ \A p \in LoginKeys : p[1] \in LoginKey /\ p[2] \in LoginKey
BY DEF LoginKey, Key

(* As time passes a key may leave its limit, and never reaches it.         *)
LEMMA LimitEnds ==
    ASSUME NEW k \in Key, NEW g \in Seq(Nat), NEW t \in Nat,
           Cardinality(WindowOf(g, (t + 1) - Window[k])) >= Max[k]
    PROVE  Cardinality(WindowOf(g, t - Window[k])) >= Max[k]
<1>1. Window[k] \in Nat /\ Max[k] \in Nat /\ \A i \in DOMAIN g : g[i] \in Nat
  BY RuleType
<1>2. WindowOf(g, (t + 1) - Window[k]) \in SUBSET WindowOf(g, t - Window[k])
  BY <1>1 DEF WindowOf
<1>3. t - Window[k] \in Int /\ (t + 1) - Window[k] \in Int
  BY <1>1
<1>4. Cardinality(WindowOf(g, (t + 1) - Window[k])) <= Cardinality(WindowOf(g, t - Window[k]))
  BY <1>2, <1>3, WindowFinite, FS_Subset
<1>5. /\ Cardinality(WindowOf(g, (t + 1) - Window[k])) \in Nat
      /\ Cardinality(WindowOf(g, t - Window[k])) \in Nat
  BY <1>3, WindowFinite
<1> QED
  BY <1>1, <1>4, <1>5

(* The failures since the last attempt of a key at its limit are in its    *)
(* window.                                                                 *)
LEMMA SinceKept ==
    ASSUME RateInv, NEW k \in Key, IsOn(k), AtLimitWith(granted, k),
           Numbered(failed[k], granted[k], now), NEW f \in Since(k)
    PROVE  f.at > now - Window[k]
<1> DEFINE g == granted[k]
           c == now - Window[k]
<1>1. /\ g \in Seq(Nat) /\ Ascending(g) /\ c \in Int /\ Len(g) \in Nat
      /\ \A i \in 1..Len(g) : g[i] \in Nat
  BY GrantedType, RuleType
<1>2. Len(g) \in 1..Len(g) /\ g[Len(g)] > c
  <2>1. Cardinality(WindowOf(g, c)) >= Max[k]
    BY DEF AtLimitWith
  <2> HIDE DEF g, c
  <2> QED
    BY <1>1, <2>1, LastInWindow
<1>3. /\ f.after = Len(g) /\ f.at \in Nat
      /\ \A i \in 1..Len(g) : IF i <= f.after THEN g[i] <= f.at ELSE f.at <= g[i]
  BY DEF Since, Numbered, Failure
<1> HIDE DEF g, c
<1>4. g[Len(g)] <= f.at /\ g[Len(g)] \in Nat
  BY <1>1, <1>2, <1>3
<1>5. f.at > c
  BY <1>1, <1>2, <1>3, <1>4
<1> QED
  BY <1>5 DEF c

(* One key of a login that fails.                                          *)
LEMMA FailedKey ==
    ASSUME RateInv, FailInv, NEW s \in Session, FailLogin(s), NEW k \in LoginKey, IsOn(k)
    PROVE  /\ Numbered(failed'[k], granted'[k], now)
           /\ AtLimitWith(granted', k) => LimitHolds(k)'
<1> DEFINE p == login[s]
           g == granted[k]
           c == now - Window[k]
           kept == {f \in failed[k] : f.at > c}
           failure == [at |-> now, after |-> Len(granted'[k]),
               late |-> Cardinality({f \in failed[k] : f.after = Len(granted'[k])})]
<1>1. /\ k \in Key /\ now \in Nat /\ g \in Seq(Nat) /\ Len(g) \in Nat /\ Ascending(g)
      /\ \A i \in 1..Len(g) : g[i] \in Nat /\ g[i] <= now
      /\ Window[k] \in Nat /\ Window[k] >= 1
  BY GrantedType, LoginKeyType, RuleType DEF IsOn
<1>2. /\ p \in LoginKeys /\ p # None
      /\ granted' = AttemptOf(p) /\ Remember(p)
      /\ login' = [login EXCEPT ![s] = None]
  BY ConsumeBothOK DEF FailLogin, RateInv
<1>3. Numbered(failed[k], g, now) /\ (AtLimitWith(granted, k) => LimitHolds(k))
  BY <1>1 DEF FailInv
<1>4. Numbered(kept, g, now)
  <2>1. kept \in SUBSET failed[k]
    OBVIOUS
  <2> HIDE DEF kept
  <2> QED
    BY <1>3, <2>1, NumberedSubset
<1>5. failed'[k] = {f \in failed[k] \cup (IF k \in {p[1], p[2]} THEN {failure} ELSE {}) :
                      f.at > c}
  <2> HIDE DEF p
  <2> QED
    BY <1>1, <1>2 DEF Remember
<1>6. ASSUME k \in {p[1], p[2]} PROVE failed'[k] = kept \cup {failure}
  <2>1. failure.at > c
    BY <1>1
  <2> HIDE DEF failure, c
  <2> QED
    BY <1>5, <1>6, <2>1
<1>7. /\ Waiting(k)' = Waiting(k) \ {s}
      /\ k \in {p[1], p[2]} => s \in Waiting(k)
      /\ k \notin {p[1], p[2]} => s \notin Waiting(k)
  <2>1. login \in [Session -> LoginKeys \cup {None}]
    BY DEF RateInv
  <2>2. login'[s] = None /\ \A u \in Session \ {s} : login'[u] = login[u]
    BY <1>2, <2>1
  <2> QED
    BY <1>2, <2>2 DEF Waiting
<1>8. /\ IsFiniteSet(Waiting(k)) /\ Cardinality(Waiting(k)) \in Nat
      /\ Cardinality(Waiting(k)') = IF s \in Waiting(k) THEN Cardinality(Waiting(k)) - 1
                                    ELSE Cardinality(Waiting(k))
      /\ Cardinality(Waiting(k)) <= Logins /\ Logins \in Nat /\ 1 <= Logins
  BY <1>7, WaitingFinite, FS_RemoveElement, LoginsType
<1>9. IsFiniteSet(kept) /\ IsFiniteSet(Since(k)) /\ Cardinality(Since(k)) \in Nat
  <2>1. Since(k) \in SUBSET failed[k] /\ IsFiniteSet(failed[k])
    BY <1>3 DEF Since, Numbered
  <2> QED
    BY <1>4, <2>1, FS_Subset, FS_CardinalityType DEF Numbered
<1>10. Logins' = Logins
  BY DEF Logins
<1>11. CASE k \notin {p[1], p[2]}
  <2>1. granted'[k] = g /\ failed'[k] = kept
    BY <1>1, <1>2, <1>5, <1>11 DEF AttemptOf
  <2>2. AtLimitWith(granted', k) <=> AtLimitWith(granted, k)
    BY <2>1 DEF AtLimitWith
  <2>3. ASSUME AtLimitWith(granted, k) PROVE LimitHolds(k)'
    <3>1. \A f \in Since(k) : f.at > c
      BY <1>1, <1>3, <2>3, SinceKept
    <3>2. Since(k)' = Since(k)
      <4>1. Since(k)' = {f \in kept : f.after = Len(g)}
        BY <2>1 DEF Since
      <4> QED
        BY <3>1, <4>1 DEF Since
    <3>3. Cardinality(Waiting(k)') = Cardinality(Waiting(k))
      BY <1>7, <1>8, <1>11
    <3> QED
      BY <1>3, <1>10, <2>3, <3>2, <3>3 DEF LimitHolds
  <2> QED
    BY <1>4, <2>1, <2>2, <2>3
<1>12. CASE k \in {p[1], p[2]} /\ ~AtLimitWith(granted, k)
  <2> DEFINE g2 == Append(g, now)
  <2>1. granted'[k] = g2 /\ Len(g2) = Len(g) + 1 /\ g2[Len(g) + 1] = now
        /\ \A i \in 1..Len(g) : g2[i] = g[i]
    BY <1>1, <1>2, <1>12 DEF AttemptOf
  <2> HIDE DEF g, g2, c
  <2>2. \A f \in failed[k] : f.after <= Len(g) /\ f.after \in Nat /\ f.at \in Nat /\ f.at <= now
    BY <1>3 DEF Numbered, Failure
  <2>3. {f \in failed[k] : f.after = Len(g2)} = {}
    BY <1>1, <2>1, <2>2
  <2>4. failure = [at |-> now, after |-> Len(g) + 1, late |-> 0]
    BY <2>1, <2>3, FS_EmptySet
  <2> HIDE DEF failure
  <2>5. failed'[k] = kept \cup {failure} /\ IsFiniteSet(kept \cup {failure})
    BY <1>6, <1>9, <1>12, FS_AddElement
  <2>6. failure \in Failure /\ failure.at = now /\ failure.after = Len(g) + 1 /\ failure.late = 0
    BY <1>1, <2>4 DEF Failure
  <2>7. \A i \in 1..Len(g2) : i \in 1..Len(g) \/ i = Len(g) + 1
    BY <1>1, <2>1
  <2>8. ASSUME NEW f \in kept \cup {failure}
        PROVE  /\ f \in Failure /\ f.at <= now /\ f.after <= Len(g2) /\ f.late < Logins
               /\ \A i \in 1..Len(g2) : IF i <= f.after THEN g2[i] <= f.at ELSE f.at <= g2[i]
               /\ f.late = 0 => f.after \in 1..Len(g2) /\ g2[f.after] = f.at
    <3>1. CASE f \in kept
      <4>1. /\ f \in Failure /\ f.at <= now /\ f.after <= Len(g) /\ f.late < Logins
            /\ \A i \in 1..Len(g) : IF i <= f.after THEN g[i] <= f.at ELSE f.at <= g[i]
            /\ f.late = 0 => f.after \in 1..Len(g) /\ g[f.after] = f.at
        BY <1>4, <3>1 DEF Numbered
      <4>2. f.after \in Nat /\ f.after <= Len(g2) /\ ~(Len(g) + 1 <= f.after)
        BY <1>1, <2>1, <4>1 DEF Failure
      <4>3. \A i \in 1..Len(g2) : IF i <= f.after THEN g2[i] <= f.at ELSE f.at <= g2[i]
        <5> TAKE i \in 1..Len(g2)
        <5>1. CASE i \in 1..Len(g)
          BY <2>1, <4>1, <5>1
        <5>2. CASE i = Len(g) + 1
          BY <2>1, <4>1, <4>2, <5>2
        <5> QED
          BY <2>7, <5>1, <5>2
      <4>4. ASSUME f.late = 0 PROVE f.after \in 1..Len(g2) /\ g2[f.after] = f.at
        <5>1. f.after \in 1..Len(g) /\ g[f.after] = f.at
          BY <4>1, <4>4
        <5>2. f.after \in 1..Len(g2) /\ g2[f.after] = g[f.after]
          BY <1>1, <2>1, <5>1
        <5> QED
          BY <5>1, <5>2
      <4> QED
        BY <4>1, <4>2, <4>3, <4>4
    <3>2. CASE f = failure
      <4>1. \A i \in 1..Len(g2) : i <= Len(g) + 1 /\ g2[i] <= now
        <5> TAKE i \in 1..Len(g2)
        <5>1. CASE i \in 1..Len(g)
          <6>1. i <= Len(g) + 1
            BY <1>1, <5>1
          <6> QED
            BY <1>1, <2>1, <5>1, <6>1
        <5>2. CASE i = Len(g) + 1
          BY <1>1, <2>1, <5>2
        <5> QED
          BY <2>7, <5>1, <5>2
      <4>2. Len(g) + 1 \in 1..Len(g2)
        BY <1>1, <2>1
      <4> QED
        BY <1>1, <1>8, <2>1, <2>6, <3>2, <4>1, <4>2
    <3> QED
      BY <3>1, <3>2
  <2>9. ASSUME NEW f \in kept \cup {failure}, NEW e \in kept \cup {failure},
               f.after = e.after, f.late = e.late
        PROVE  f = e
    <3>1. \A x \in kept : x.after # Len(g) + 1
      BY <1>1, <2>2
    <3> QED
      BY <1>4, <2>6, <2>9, <3>1 DEF Numbered
  <2>10. Numbered(failed'[k], granted'[k], now)
    <3>1. kept \cup {failure} \subseteq Failure
      BY <2>8
    <3> HIDE DEF kept
    <3>2. Numbered(kept \cup {failure}, g2, now)
      BY <2>5, <2>8, <2>9, <3>1 DEF Numbered
    <3> QED
      BY <2>1, <2>5, <3>2
  <2>11. LimitHolds(k)'
    <3>1. Since(k)' = {failure}
      <4>1. Since(k)' = {f \in kept \cup {failure} : f.after = Len(g) + 1}
        BY <2>1, <2>5 DEF Since
      <4>2. \A x \in kept : x.after # Len(g) + 1
        BY <1>1, <2>2
      <4> QED
        BY <2>6, <4>1, <4>2
    <3>2. Cardinality(Since(k)') = 1
      BY <3>1, FS_Singleton
    <3>3. Cardinality(Waiting(k)') = Cardinality(Waiting(k)) - 1
      BY <1>7, <1>8, <1>12
    <3>4. 1 + Cardinality(Waiting(k)') <= Logins
      BY <1>8, <3>3
    <3> QED
      BY <1>10, <2>6, <3>1, <3>2, <3>4 DEF LimitHolds
  <2> QED
    BY <2>10, <2>11
<1>13. CASE k \in {p[1], p[2]} /\ AtLimitWith(granted, k)
  <2> DEFINE n == Cardinality(Since(k))
  <2>1. granted'[k] = g
    BY <1>1, <1>2, <1>13 DEF AttemptOf
  <2>2. failure = [at |-> now, after |-> Len(g), late |-> n]
    BY <2>1 DEF Since
  <2>3. /\ 1 <= n /\ n \in Nat /\ n + Cardinality(Waiting(k)) <= Logins
        /\ \A f \in Since(k) : f.late < n
    BY <1>3, <1>9, <1>13 DEF LimitHolds
  <2>4. n + 1 <= Logins
    <3>1. s \in Waiting(k)
      BY <1>7, <1>13
    <3>2. Waiting(k) # {}
      BY <3>1
    <3>3. Cardinality(Waiting(k)) # 0
      BY <1>8, <3>2, FS_EmptySet
    <3> HIDE DEF n
    <3> QED
      BY <1>8, <2>3, <3>3
  <2> HIDE DEF failure, n
  <2>5. failed'[k] = kept \cup {failure} /\ IsFiniteSet(kept \cup {failure})
    BY <1>6, <1>9, <1>13, FS_AddElement
  <2>6. /\ failure \in Failure /\ failure.at = now /\ failure.after = Len(g)
        /\ failure.late = n
    BY <1>1, <2>2, <2>3 DEF Failure
  <2> HIDE DEF g, c
  <2>7. ASSUME NEW f \in kept \cup {failure}
        PROVE  /\ f \in Failure /\ f.at <= now /\ f.after <= Len(g) /\ f.late < Logins
               /\ \A i \in 1..Len(g) : IF i <= f.after THEN g[i] <= f.at ELSE f.at <= g[i]
               /\ f.late = 0 => f.after \in 1..Len(g) /\ g[f.after] = f.at
    <3>1. CASE f \in kept
      BY <1>4, <3>1 DEF Numbered
    <3>2. CASE f = failure
      <4>1. \A i \in 1..Len(g) : i <= Len(g) /\ g[i] <= now
        BY <1>1
      <4>2. n < Logins /\ n # 0
        BY <1>8, <2>3, <2>4
      <4> QED
        BY <1>1, <2>6, <3>2, <4>1, <4>2
    <3> QED
      BY <3>1, <3>2
  <2>8. \A x \in kept : ~(x.after = Len(g) /\ x.late = n)
    <3> SUFFICES ASSUME NEW x \in kept, x.after = Len(g), x.late = n PROVE FALSE
        OBVIOUS
    <3>1. x \in Since(k)
      BY DEF Since, g
    <3>2. n < n
      BY <2>3, <3>1
    <3> QED
      BY <2>3, <3>2
  <2>9. ASSUME NEW f \in kept \cup {failure}, NEW e \in kept \cup {failure},
               f.after = e.after, f.late = e.late
        PROVE  f = e
    BY <1>4, <2>6, <2>8, <2>9 DEF Numbered
  <2>10. Numbered(failed'[k], granted'[k], now)
    <3>1. kept \cup {failure} \subseteq Failure
      BY <2>7
    <3> HIDE DEF kept
    <3>2. Numbered(kept \cup {failure}, g, now)
      BY <2>5, <2>7, <2>9, <3>1 DEF Numbered
    <3> QED
      BY <2>1, <2>5, <3>2
  <2>11. LimitHolds(k)'
    <3>1. \A f \in Since(k) : f.at > c
      BY <1>1, <1>3, <1>13, SinceKept DEF c, g
    <3>2. Since(k)' = Since(k) \cup {failure}
      <4>1. Since(k)' = {f \in kept \cup {failure} : f.after = Len(g)}
        BY <2>1, <2>5 DEF Since
      <4>2. Since(k) = {f \in kept : f.after = Len(g)}
        BY <3>1 DEF Since, g
      <4> QED
        BY <2>6, <4>1, <4>2
    <3>3. failure \notin Since(k)
      BY <2>3, <2>6
    <3>4. Cardinality(Since(k)') = n + 1
      BY <1>9, <3>2, <3>3, FS_AddElement DEF n
    <3>5. Cardinality(Waiting(k)') = Cardinality(Waiting(k)) - 1
      BY <1>7, <1>8, <1>13
    <3>6. (n + 1) + Cardinality(Waiting(k)') <= Logins /\ 1 <= n + 1
      BY <1>8, <2>3, <3>5
    <3>7. \A f \in Since(k) \cup {failure} : f.late < n + 1
      <4> TAKE f \in Since(k) \cup {failure}
      <4>1. CASE f \in Since(k)
        <5>1. f.late \in Nat /\ f.late < n
          BY <1>3, <2>3, <4>1 DEF Since, Numbered, Failure
        <5> QED
          BY <2>3, <5>1
      <4>2. CASE f = failure
        BY <2>3, <2>6, <4>2
      <4> QED
        BY <4>1, <4>2
    <3> QED
      BY <1>10, <3>2, <3>4, <3>6, <3>7 DEF LimitHolds
  <2> QED
    BY <2>10, <2>11
<1> QED
  BY <1>11, <1>12, <1>13

LEMMA FailStep == RateInv /\ FailInv /\ [Next]_vars => FailInv'
<1> SUFFICES ASSUME RateInv, FailInv, [Next]_vars PROVE FailInv'
    OBVIOUS
<1>1. CASE Tick
  <2>1. now' = now + 1 /\ UNCHANGED <<granted, login, failed>>
    BY <1>1 DEF Tick
  <2>2. ASSUME NEW k \in LoginKey, IsOn(k)
        PROVE  /\ Numbered(failed[k], granted[k], now + 1)
               /\ AtLimitWith(granted, k)' => AtLimitWith(granted, k)
    <3>1. k \in Key /\ now \in Nat /\ granted[k] \in Seq(Nat)
      BY LoginKeyType, GrantedType
    <3>2. Numbered(failed[k], granted[k], now)
      BY <2>2 DEF FailInv
    <3>3. \A f \in failed[k] : f.at <= now + 1
      <4>1. \A f \in failed[k] : f.at \in Nat /\ f.at <= now
        BY <3>2 DEF Numbered, Failure
      <4> QED
        BY <3>1, <4>1
    <3>4. Numbered(failed[k], granted[k], now + 1)
      BY <3>2, <3>3 DEF Numbered
    <3>5. AtLimitWith(granted, k)' => AtLimitWith(granted, k)
      BY <2>1, <3>1, LimitEnds DEF AtLimitWith
    <3> QED
      BY <3>4, <3>5
  <2> QED
    BY <2>1, <2>2 DEF FailInv, LimitHolds, Since, Waiting, Logins
<1>2. ASSUME NEW s \in Session, NEW p \in LoginKeys, StartLogin(s, p) PROVE FailInv'
  <2>1. /\ AskBoth(p) /\ UNCHANGED <<now, granted, failed>> /\ login[s] = None
        /\ login' = IF limited' THEN login ELSE [login EXCEPT ![s] = p]
    BY <1>2 DEF StartLogin
  <2>2. limited' <=> \E k \in {p[1], p[2]} : AtLimitWith(granted, k)
    BY <2>1, AskBothOK
  <2>3. ASSUME NEW k \in LoginKey, IsOn(k), AtLimitWith(granted, k)
        PROVE  Waiting(k)' = Waiting(k)
    <3>1. CASE limited'
      BY <2>1, <3>1 DEF Waiting
    <3>2. CASE ~limited'
      <4>1. k \notin {p[1], p[2]}
        BY <2>2, <2>3, <3>2
      <4>2. login'[s] = p /\ \A u \in Session \ {s} : login'[u] = login[u]
        BY <2>1, <3>2 DEF RateInv
      <4> QED
        BY <2>1, <4>1, <4>2 DEF Waiting
    <3> QED
      BY <3>1, <3>2
  <2>4. ASSUME NEW k \in LoginKey, IsOn(k), AtLimitWith(granted, k)
        PROVE  LimitHolds(k)'
    <3>1. LimitHolds(k)
      BY <2>4 DEF FailInv
    <3> QED
      BY <2>1, <2>3, <2>4, <3>1 DEF LimitHolds, Since, Logins
  <2> QED
    BY <2>1, <2>4 DEF FailInv, AtLimitWith
<1>3. ASSUME NEW s \in Session, FailLogin(s) PROVE FailInv'
  <2>1. now' = now
    BY <1>3 DEF FailLogin
  <2>2. ASSUME NEW k \in Key \ LoginKey PROVE failed'[k] = {}
    <3>1. login[s] \in LoginKeys /\ Remember(login[s])
      BY <1>3 DEF FailLogin, RateInv
    <3>2. k \notin {login[s][1], login[s][2]} /\ failed[k] = {}
      BY <2>2, <3>1, LoginKeyType DEF FailInv
    <3>3. failed'[k] \subseteq {}
      BY <3>1, <3>2 DEF Remember
    <3> QED
      BY <3>3
  <2> QED
    BY <1>3, <2>1, <2>2, FailedKey DEF FailInv, AtLimitWith
<1>4. ASSUME NEW s \in Session, Succeed(s) PROVE FailInv'
  <2>1. UNCHANGED <<now, granted, failed>> /\ login' = [login EXCEPT ![s] = None]
    BY <1>4 DEF Succeed
  <2>2. ASSUME NEW k \in LoginKey, IsOn(k), AtLimitWith(granted, k)
        PROVE  LimitHolds(k)'
    <3>1. LimitHolds(k)
      BY <2>2 DEF FailInv
    <3>2. Waiting(k)' \in SUBSET Waiting(k)
      <4>1. login'[s] = None /\ \A u \in Session \ {s} : login'[u] = login[u]
        BY <2>1 DEF RateInv
      <4> QED
        BY <4>1 DEF Waiting
    <3>3. Cardinality(Waiting(k)') <= Cardinality(Waiting(k))
          /\ Cardinality(Waiting(k)') \in Nat /\ Cardinality(Waiting(k)) \in Nat
      BY <3>2, WaitingFinite, FS_Subset, FS_CardinalityType
    <3>4. IsFiniteSet(Since(k)) /\ Cardinality(Since(k)) \in Nat
      <4>1. Since(k) \in SUBSET failed[k] /\ IsFiniteSet(failed[k])
        BY <2>2 DEF Since, FailInv, Numbered
      <4> QED
        BY <4>1, FS_Subset, FS_CardinalityType
    <3>5. Since(k)' = Since(k) /\ Logins' = Logins
      BY <2>1 DEF Since, Logins
    <3>6. Cardinality(Since(k)) + Cardinality(Waiting(k)') <= Logins
      BY <3>1, <3>3, <3>4, LoginsType DEF LimitHolds
    <3> QED
      BY <3>1, <3>5, <3>6 DEF LimitHolds
  <2> QED
    BY <2>1, <2>2 DEF FailInv, AtLimitWith
<1>5. ASSUME NEW p \in ConsumeKeys, Consume(p) PROVE FailInv'
  <2>1. granted' = AttemptOf(p) /\ UNCHANGED <<now, login, failed>>
    BY <1>5, ConsumeBothOK DEF Consume
  <2>2. ASSUME NEW k \in LoginKey PROVE k \in Key /\ granted'[k] = granted[k]
    <3>1. k \notin {p[1], p[2]}
      BY RateLimitAssumption
    <3> QED
      BY <2>1, <3>1, LoginKeyType DEF AttemptOf
  <2> QED
    BY <2>1, <2>2 DEF FailInv, AtLimitWith, LimitHolds, Since, Waiting, Logins
<1>6. CASE UNCHANGED vars
  BY <1>6 DEF vars, FailInv, AtLimitWith, LimitHolds, Since, Waiting, Logins
<1> QED
  BY <1>1, <1>2, <1>3, <1>4, <1>5, <1>6 DEF Next

LEMMA RateInit == Init => RateInv /\ FailInv
<1> SUFFICES ASSUME Init PROVE RateInv /\ FailInv
    OBVIOUS
<1>1. /\ <<>> \in Seq(Nat) /\ Len(<<>>) = 0
  OBVIOUS
<1>2. ASSUME NEW k \in Key PROVE KeyOK(<<>>, 0, <<>>, k, 0)
  <2>1. SubSeq(<<>>, 1, 0) = <<>>
    BY SubSeqEmpty
  <2>2. LeftOf(<<>>, <<>>, 0 - Window[k])
    BY <1>1, <2>1 DEF LeftOf
  <2>3. Max[k] \in Nat /\ Ascending(<<>>)
    BY RuleType DEF Ascending
  <2> QED
    BY <1>1, <2>2, <2>3 DEF KeyOK
<1>3. mem \in MemType /\ granted \in [Key -> Seq(Nat)]
  <2>1. 0 \in 0..SweepEvery - 1
    BY RateLimitAssumption
  <2>2. mem = [known |-> {}, seen |-> [k \in Key |-> 0],
               history |-> [k \in Key |-> <<>>], ops |-> 0, swept |-> 0]
    BY DEF Init
  <2>3. [k \in Key |-> <<>>] \in [Key -> Seq(Nat)] /\ [k \in Key |-> 0] \in [Key -> Nat]
    BY <1>1
  <2>4. mem \in MemType
    BY <2>1, <2>2, <2>3 DEF MemType
  <2>5. granted = [k \in Key |-> <<>>]
    BY DEF Init
  <2> QED
    BY <2>3, <2>4, <2>5
<1>4. MemOK(mem, granted, now)
  BY <1>2, <1>3 DEF Init, MemOK
<1>5. RateInv
  <2>1. now \in 0..Horizon /\ limited \in BOOLEAN
    <3>1. now = 0 /\ limited = FALSE
      BY DEF Init
    <3>2. Horizon \in Nat
      BY RateLimitAssumption
    <3>3. 0 \in 0..Horizon
      BY <3>2
    <3> QED
      BY <3>1, <3>3
  <2>2. login \in [Session -> LoginKeys \cup {None}]
    BY DEF Init
  <2> QED
    BY <1>4, <2>1, <2>2 DEF RateInv
<1>6. ASSUME NEW k \in LoginKey, IsOn(k)
      PROVE  Numbered({}, <<>>, 0) /\ ~AtLimitWith(granted, k)
  <2>1. Numbered({}, <<>>, 0)
    BY FS_EmptySet DEF Numbered
  <2>2. k \in Key /\ granted[k] = <<>> /\ Max[k] \in Nat /\ Max[k] >= 1
    BY <1>6, LoginKeyType, RuleType DEF Init, IsOn
  <2>3. WindowOf(granted[k], now - Window[k]) = {}
    BY <1>1, <2>2 DEF WindowOf
  <2>4. ~(Cardinality({}) >= Max[k])
    BY <2>2, FS_EmptySet
  <2> QED
    BY <2>1, <2>3, <2>4 DEF AtLimitWith
<1> QED
  BY <1>5, <1>6, LoginKeyType DEF FailInv, Init

(* The failures remembered of any key, a login's or not, limited or not.   *)
FailType ==
    \A k \in Key :
        failed[k] \subseteq [at : 0..now, after : Nat, late : Nat] /\ IsFiniteSet(failed[k])

LEMMA FailTypeInit == Init => FailType
BY FS_EmptySet DEF Init, FailType

LEMMA FailTypeStep == RateInv /\ FailType /\ RateInv' /\ [Next]_vars => FailType'
<1> SUFFICES ASSUME RateInv, RateInv', FailType, [Next]_vars PROVE FailType'
    OBVIOUS
<1>1. now \in Nat /\ now' \in Nat
  BY RateLimitAssumption DEF RateInv
<1>2. CASE Tick
  <2>1. now' = now + 1 /\ failed' = failed
    BY <1>2 DEF Tick
  <2>2. [at : 0..now, after : Nat, late : Nat] \subseteq [at : 0..now', after : Nat, late : Nat]
    <3>1. 0..now \subseteq 0..now'
      BY <1>1, <2>1
    <3> QED
      BY <3>1
  <2> QED
    BY <2>1, <2>2 DEF FailType
<1>3. ASSUME NEW p \in LoginKeys, Remember(p), now' = now PROVE FailType'
  <2> SUFFICES ASSUME NEW k \in Key
               PROVE  /\ failed'[k] \subseteq [at : 0..now, after : Nat, late : Nat]
                      /\ IsFiniteSet(failed'[k])
      BY <1>3 DEF FailType
  <2> DEFINE same == {f \in failed[k] : f.after = Len(granted'[k])}
             failure == [at |-> now, after |-> Len(granted'[k]), late |-> Cardinality(same)]
             added == IF k \in {p[1], p[2]} THEN {failure} ELSE {}
             all == failed[k] \cup added
  <2>1. failed'[k] = {f \in all : f.at > now - Window[k]}
    BY <1>3 DEF Remember
  <2>2. /\ failed[k] \subseteq [at : 0..now, after : Nat, late : Nat]
        /\ IsFiniteSet(failed[k])
    BY DEF FailType
  <2>3. Len(granted'[k]) \in Nat
    <3>1. granted' \in [Key -> Seq(Nat)]
      BY DEF RateInv, MemOK
    <3> QED
      BY <3>1
  <2>4. Cardinality(same) \in Nat
    <3>1. same \in SUBSET failed[k]
      OBVIOUS
    <3> QED
      BY <2>2, <3>1, FS_Subset, FS_CardinalityType
  <2> HIDE DEF same
  <2>5. failure \in [at : 0..now, after : Nat, late : Nat]
    <3>1. now \in 0..now
      BY <1>1
    <3> QED
      BY <2>3, <2>4, <3>1
  <2> HIDE DEF failure
  <2>6. all \subseteq [at : 0..now, after : Nat, late : Nat] /\ IsFiniteSet(all)
    <3>1. IsFiniteSet({}) /\ IsFiniteSet({failure})
      BY FS_EmptySet, FS_Singleton
    <3>2. IsFiniteSet(added) /\ added \subseteq {failure}
      BY <3>1
    <3> HIDE DEF added
    <3> QED
      BY <2>2, <2>5, <3>2, FS_Union
  <2> HIDE DEF all
  <2>7. failed'[k] \in SUBSET all
    BY <2>1
  <2> QED
    BY <2>6, <2>7, FS_Subset
<1>4. ASSUME UNCHANGED <<now, failed>> PROVE FailType'
  BY <1>4 DEF FailType
<1>5. ASSUME NEW s \in Session, FailLogin(s) PROVE FailType'
  <2>1. login[s] \in LoginKeys /\ Remember(login[s]) /\ now' = now
    BY <1>5 DEF FailLogin, RateInv
  <2> QED
    BY <1>3, <2>1
<1> QED
  BY <1>2, <1>4, <1>5 DEF Next, StartLogin, Succeed, Consume, vars

-----------------------------------------------------------------------------
LEMMA RateAlways == Spec => [](RateInv /\ FailInv /\ FailType)
BY RateInit, RateStep, FailStep, FailTypeInit, FailTypeStep, PTL DEF Spec

(* Whatever is asked and recorded, no key keeps more than max_attempts     *)
(* times, and the counter of the sweep stays below _SWEEP_EVERY_OPS.       *)
THEOREM TypeCorrect == Spec => []TypeOK
<1>1. RateInv /\ FailType => TypeOK
  <2> SUFFICES ASSUME RateInv, FailType PROVE TypeOK
      OBVIOUS
  <2>1. /\ now \in 0..Horizon /\ now \in Nat /\ Horizon \in Nat /\ mem \in MemType
        /\ login \in [Session -> LoginKeys \cup {None}] /\ limited \in BOOLEAN
    BY RateLimitAssumption DEF RateInv, MemOK
  <2>2. mem.known \subseteq Key /\ mem.ops \in 0..SweepEvery - 1
    BY <2>1 DEF MemType
  <2>3. ASSUME NEW k \in Key
        PROVE  /\ mem.seen[k] \in 0..now
               /\ mem.history[k] \in Times /\ Len(mem.history[k]) <= Max[k]
               /\ granted[k] \in Times
               /\ failed[k] \subseteq [at : 0..now, after : Nat, late : Nat]
    <3>1. KeyOK(mem.history[k], mem.seen[k], granted[k], k, now)
      BY DEF RateInv, MemOK
    <3>2. /\ mem.history[k] \in Seq(Nat) /\ granted[k] \in Seq(Nat)
          /\ mem.seen[k] \in Nat /\ mem.seen[k] <= now
          /\ \A i \in 1..Len(mem.history[k]) : mem.history[k][i] <= mem.seen[k]
          /\ \A i \in 1..Len(granted[k]) : granted[k][i] <= now
          /\ Len(mem.history[k]) <= Max[k]
      BY <3>1 DEF KeyOK
    <3>3. ASSUME NEW h \in Seq(Nat), \A i \in 1..Len(h) : h[i] <= now
          PROVE  h \in Seq(0..Horizon)
      <4>1. \A i \in 1..Len(h) : h[i] \in 0..Horizon
        <5> TAKE i \in 1..Len(h)
        <5>1. h[i] \in Nat
          OBVIOUS
        <5>2. h[i] <= now
          BY <3>3
        <5>3. now <= Horizon
          BY <2>1
        <5>4. h[i] <= Horizon
          BY <2>1, <5>1, <5>2, <5>3
        <5> QED
          BY <2>1, <5>1, <5>4
      <4>2. Len(h) \in Nat /\ DOMAIN h = 1..Len(h) /\ h = [i \in 1..Len(h) |-> h[i]]
        OBVIOUS
      <4>3. h \in [1..Len(h) -> 0..Horizon]
        BY <4>1, <4>2
      <4>4. h \in UNION {[1..n -> 0..Horizon] : n \in Nat}
        BY <4>2, <4>3
      <4> QED
        BY <4>4, SeqDef, Zenon
    <3>4. \A i \in 1..Len(mem.history[k]) : mem.history[k][i] <= now
      <4> TAKE i \in 1..Len(mem.history[k])
      <4>1. mem.history[k][i] \in Nat /\ mem.history[k][i] <= mem.seen[k]
        BY <3>2
      <4> QED
        BY <2>1, <3>2, <4>1
    <3>5. mem.history[k] \in Seq(0..Horizon) /\ granted[k] \in Seq(0..Horizon)
      BY <3>2, <3>3, <3>4
    <3> QED
      BY <2>1, <3>2, <3>5 DEF Times, FailType
  <2> QED
    BY <2>1, <2>2, <2>3 DEF TypeOK
<1> QED
  BY <1>1, RateAlways, PTL

(* A key that stays in memory had been seen less than its stale age before *)
(* the last sweep.                                                         *)
THEOREM Recently == Spec => []MemoryIsRecent
<1>1. RateInv => MemoryIsRecent
  BY DEF RateInv, MemOK, MemoryIsRecent
<1> QED
  BY <1>1, RateAlways, PTL

(* However many logins pass the question together before any of them       *)
(* fails, a window never has more failures of a key than                   *)
(* Max + (Max + 1) * (Logins - 1).                                         *)
THEOREM Bounded == Spec => []FailuresBounded
<1>1. RateInv /\ FailInv => FailuresBounded
  <2> SUFFICES ASSUME RateInv, FailInv, NEW k \in Key, IsOn(k)
               PROVE  Cardinality({f \in failed[k] : f.at > now - Window[k]})
                         <= Max[k] + (Max[k] + 1) * (Cardinality(Session) - 1)
      BY DEF FailuresBounded
  <2>1. Max[k] \in Nat /\ Window[k] \in Nat /\ Logins \in Nat /\ 1 <= Logins
    BY RuleType, LoginsType
  <2>2. CASE k \in LoginKey
    <3>1. Numbered(failed[k], granted[k], now)
      BY <2>2 DEF FailInv
    <3>2. now \in Nat /\ granted[k] \in Seq(Nat) /\ now - Window[k] \in Int
      BY <2>1, GrantedType
    <3>3. Cardinality(WindowOf(granted[k], now - Window[k])) <= Max[k]
      <4>1. KeyOK(mem.history[k], mem.seen[k], granted[k], k, now)
        BY DEF RateInv, MemOK
      <4>2. mem.seen[k] \in Nat /\ mem.seen[k] <= now
        BY <4>1 DEF KeyOK
      <4> DEFINE left == Prune(mem.history[k], now - Window[k])
      <4>3. /\ KeyOK(left, now, granted[k], k, now)
            /\ Len(left) = Cardinality(WindowOf(granted[k], now - Window[k]))
        BY <3>2, <4>1, <4>2, KeyPruned
      <4> HIDE DEF left
      <4>4. Len(left) <= Max[k]
        BY <4>3 DEF KeyOK
      <4> QED
        BY <4>3, <4>4
    <3> QED
      BY <3>1, <3>2, <3>3, NumberedBound DEF Logins
  <2>3. CASE k \notin LoginKey
    <3>1. {f \in failed[k] : f.at > now - Window[k]} = {}
      BY <2>3 DEF FailInv
    <3>2. (Max[k] + 1) * (Logins - 1) \in Nat
      <4>1. Max[k] + 1 \in Nat /\ Logins - 1 \in Nat
        BY <2>1
      <4> QED
        BY <4>1
    <3> HIDE DEF Logins
    <3>3. 0 <= Max[k] + (Max[k] + 1) * (Logins - 1)
      BY <2>1, <3>2
    <3> QED
      BY <3>1, <3>3, FS_EmptySet DEF Logins
  <2> QED
    BY <2>2, <2>3
<1> QED
  BY <1>1, RateAlways, PTL

-----------------------------------------------------------------------------
(* The refinement: each step is one of the window that never forgets.      *)
LEMMA AtLimitIs ==
    ASSUME NEW k
    PROVE  Ideal!AtLimit(k) <=> AtLimitWith(granted, k)
<1>1. Ideal!Cardinality(WindowOf(granted[k], now - Window[k]))
        = Cardinality(WindowOf(granted[k], now - Window[k]))
  BY Zenon DEF Ideal!Cardinality, Cardinality
<1> QED
  BY <1>1 DEF Ideal!AtLimit, Ideal!Recent, Ideal!IsOn, AtLimitWith, WindowOf, IsOn

LEMMA WindowStep == RateInv /\ [Next]_vars => [Ideal!Next]_(Ideal!vars)
<1> SUFFICES ASSUME RateInv, [Next]_vars PROVE [Ideal!Next]_(Ideal!vars)
    OBVIOUS
<1>1. ASSUME NEW p \in LoginKeys \cup ConsumeKeys, ConsumeBoth(p), UNCHANGED now
      PROVE  Ideal!Next
  <2>1. {p[1], p[2]} \in SUBSET Key
    BY PairType
  <2>2. Ideal!Attempt({p[1], p[2]})
    BY <1>1, ConsumeBothOK, AtLimitIs DEF Ideal!Attempt, Ideal!IsOn, IsOn, AttemptOf
  <2> QED
    BY <2>1, <2>2 DEF Ideal!Next
<1>2. CASE Tick
  BY <1>2 DEF Tick, Ideal!Next, Ideal!Tick
<1>3. ASSUME NEW s \in Session, NEW p \in LoginKeys, StartLogin(s, p) PROVE Ideal!Next
  <2>1. {p[1], p[2]} \in SUBSET Key
    BY PairType
  <2>2. AskBoth(p) /\ UNCHANGED <<now, granted>>
    BY <1>3 DEF StartLogin
  <2>3. /\ limited' <=> \E k \in {p[1], p[2]} : AtLimitWith(granted, k)
        /\ limited' \in BOOLEAN
    BY <2>2, AskBothOK
  <2>4. Ideal!Ask({p[1], p[2]})
    BY <2>2, <2>3, AtLimitIs DEF Ideal!Ask
  <2> QED
    BY <2>1, <2>4 DEF Ideal!Next
<1>4. ASSUME NEW s \in Session, FailLogin(s) PROVE Ideal!Next
  <2>1. login[s] \in LoginKeys
    BY <1>4 DEF FailLogin, RateInv
  <2> QED
    BY <1>1, <1>4, <2>1 DEF FailLogin
<1>5. ASSUME NEW s \in Session, Succeed(s) PROVE UNCHANGED Ideal!vars
  BY <1>5 DEF Succeed, Ideal!vars
<1>6. ASSUME NEW p \in ConsumeKeys, Consume(p) PROVE Ideal!Next
  BY <1>1, <1>6 DEF Consume
<1>7. CASE UNCHANGED vars
  BY <1>7 DEF vars, Ideal!vars
<1> QED
  BY <1>2, <1>3, <1>4, <1>5, <1>6, <1>7 DEF Next

(* The limiter, which prunes and sweeps, answers and records as the        *)
(* sliding window that forgets nothing.                                    *)
THEOREM Implements == Spec => SlidingWindow
<1>1. Init => Ideal!Init
  BY DEF Init, Ideal!Init
<1> QED
  BY <1>1, WindowStep, RateAlways, PTL DEF Spec, SlidingWindow, Ideal!Spec
=============================================================================
